---------------------------- MODULE MCWatchScrape ----------------------------
(* Instances of WatchScrape for TLC.                                         *)
EXTENDS WatchScrape, TLC

CONSTANTS u1, u2, r1, w1, w2, d1, d2, q1, q2

\* 300 -> 150 is an any_drop alert and crosses the threshold 200.
TwoPrices == {150, 300}
OneRes1 == w1 :> r1
OneRes2 == w1 :> r1 @@ w2 :> r1
MCLineOf == r1 :> "rcg"

\* The price history alone: everyone stays registered and subscribed.
RaceInit == Init /\ registered = User /\ subs = User \X Reservation
RaceNext == ScraperStep \/ \E q \in Request : WebStep(q)
RaceSpec == RaceInit /\ [][RaceNext]_vars

\* The schedule starts the scraper again and again, and its loop never waits on
\* another process; users owe nothing.
\* No crash and no failed mark_notified; everything else may still fail.
LiveStep == ScraperStep /\ (pc = "next" /\ pc' = "idle" => toMark \subseteq notified')
LiveNext == LiveStep \/ \E u \in User : Register(u) \/ Unregister(u)
LiveSpec == Init /\ [][LiveNext]_vars /\ WF_vars(LiveStep)

SymmAll == Permutations({u1, u2}) \cup Permutations({d1, d2})
             \cup Permutations({w1, w2})
SymmDiffs == Permutations({d1, d2}) \cup Permutations({q1, q2})
=============================================================================
