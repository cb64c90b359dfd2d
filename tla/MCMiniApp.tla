----------------------------- MODULE MCMiniApp -----------------------------
(* Two partners and two reservations on one ship; r1 ends with the first    *)
(* day and may be booked anew for the second.                               *)
EXTENDS MiniApp, TLC

CONSTANTS ann, bob, r1, r2, w1, wonder

WatchesOf == w1 :> r1
Trip(r, sail) ==
  [res |-> r, line |-> "rcg", ship |-> wonder, sail |-> sail, nights |-> 0]
Sailings == {Trip(r1, 0), Trip(r1, 1), Trip(r2, 1)}
Partners == Permutations({ann, bob})
=============================================================================
