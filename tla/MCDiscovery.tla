---------------------------- MODULE MCDiscovery ----------------------------
(* Two partners on one guarantee booking r1 of Royal Caribbean.             *)
EXTENDS Discovery

CONSTANTS ann, bob, r1, c101

PartnerLinks == {ann, bob} \X {"rcg"}
PartnerShows ==
  {<<u, "royal", [res |-> r1, stateroom |-> s, orders |-> <<>>]>> :
     u \in {ann, bob}, s \in {Gty, c101}}

(* One order that names the guarantee's room, and later the cabin itself.   *)
OwnOrder == <<[own |-> TRUE, room |-> c101]>>
AnnsLink == {<<ann, "rcg">>}
AssignedShows ==
  {<<ann, "royal", [res |-> r1, stateroom |-> s, orders |-> <<OwnOrder>>]>> :
     s \in {Gty, c101}}
=============================================================================
