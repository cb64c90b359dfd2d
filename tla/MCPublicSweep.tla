---------------------------- MODULE MCPublicSweep ----------------------------
(* Instances of PublicSweep for TLC.                                         *)
EXTENDS PublicSweep, TLC

CONSTANTS s1, s2, p1, p2, e1, e2, v1, v2, d1, d2, q1, q2

\* 300 -> 150 is an any_drop alert and crosses the threshold 200.
TwoPrices == {150, 300}
OneProduct == p1 :> s1
OneGroup == p1 :> s1 @@ p2 :> s1
TwoGroups == p1 :> s1 @@ p2 :> s2

\* Every endpoint subscribed to every product, one of them below 200.
Rules == [mode : {"any_drop"}, threshold : {NoThreshold}]
           \cup [mode : {"below_threshold"}, threshold : Threshold \cup {NoThreshold}]
Subscribed ==
  /\ tracked = Product
  /\ owner \in [Endpoint -> Device]
  /\ ruleOf \in [Endpoint -> [Product -> Rules]]
  /\ active = Endpoint \X Product

\* The price history and its alerts: subscriptions stay as they are.
HistoryInit == snaps = {} /\ clock = 0 /\ Init /\ Subscribed
HistoryNext == SweepStep \/ Crash \/ \E q \in Request : WebStep(q) /\ req'[q].op # "subscribe"
HistorySpec == HistoryInit /\ [][HistoryNext]_vars

\* The fan-out: one browser per endpoint comes and goes, nobody looks up.
Subscribes(q) == WebStep(q) /\ req'[q].op # "lookup"
FanoutNext ==
  \/ SweepStep
  \/ Crash
  \/ \E q \in Request : Subscribes(q)
  \/ \E v \in Device, e \in Endpoint, p \in Product : RemoveSubscription(v, e, p)
FanoutInit ==
  /\ clock = 1
  /\ snaps = {[product |-> p, stamp |-> 1, quote |-> 300] : p \in Product}
  /\ Init /\ Subscribed
FanoutSpec == FanoutInit /\ [][FanoutNext]_vars

\* Everything at once, from one stored price and one subscription.
LiveSpec == FanoutInit /\ [][Next]_vars /\ WF_vars(SweepStep)

SymmHistory == Permutations({e1, e2}) \cup Permutations({d1, d2})
SymmFanout == Permutations({p1, p2})
=============================================================================
