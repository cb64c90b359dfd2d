--------------------------- MODULE MCRegistration ---------------------------
(* One user with an account of each line, both of which list the booking    *)
(* number r1; the Royal Caribbean one is a guarantee cabin with two orders, *)
(* one of which names two rooms, the other being shared with another cabin. *)
EXTENDS Registration

CONSTANTS ann, r1, c101, c102, c103

Guest(own, room) == [own |-> own, room |-> room]
Orders == <<  <<Guest(TRUE, c102), Guest(TRUE, c101)>>,
              <<Guest(FALSE, c103), Guest(TRUE, c102)>>  >>

MCLinks == {ann} \X Line
MCShows ==
  {<<ann, "royal", [res |-> r1, stateroom |-> Gty, orders |-> Orders]>>}
    \cup {<<ann, "princess", [res |-> r1, stateroom |-> s, orders |-> <<>>]>> :
            s \in {c101, c102}}
=============================================================================
