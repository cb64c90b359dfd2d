------------------------------ MODULE PriceWalk ------------------------------
(***************************************************************************)
(* One watch seen by the alert rules: at most one quote a day, each        *)
(* compared with the snapshot before it, and the user free to change the   *)
(* rule in between.  The module drives AlertRules over every short history.*)
(***************************************************************************)
EXTENDS AlertRules

CONSTANTS MaxDay,     \* bound: days simulated
          Nights      \* cruise lengths tried, negative ones included

ASSUME WalkAssumption == MaxDay \in Nat /\ Nights \subseteq Int

VARIABLES
  rule,       \* alert_mode and alert_threshold of the watch
  last,       \* latest snapshot, or None before the first
  fired,      \* the last step raised an alert
  spent,      \* history: thresholds alerted on and not reached again since
  today, sailDate, nights

vars == <<rule, last, fired, spent, today, sailDate, nights>>
dates == <<today, sailDate, nights>>

None == [none |-> TRUE]
Seen(q) == [none |-> FALSE, quote |-> q]

Crossed(r) == IF r.mode = "below_threshold" THEN {r.threshold} ELSE {}
Reached(q) == IF q = NoPrice THEN {} ELSE {t \in Threshold : q >= t}

Init ==
  /\ rule \in Rule
  /\ last = None
  /\ fired = FALSE
  /\ spent = {}
  /\ today = 0
  /\ sailDate \in 0..MaxDay
  /\ nights \in Nights

(* A day's price check of a booking that has not sailed.                    *)
Observe(q) ==
  /\ today < MaxDay
  /\ ~HasDeparted(sailDate, today)
  /\ fired' = (~last.none /\ DetectDiff(rule, last.quote, q))
  /\ spent' = (spent \cup (IF fired' THEN Crossed(rule) ELSE {})) \ Reached(q)
  /\ last' = Seen(q)
  /\ today' = today + 1
  /\ UNCHANGED <<rule, sailDate, nights>>

(* A day whose fetch failed, or after the sailing, writes no snapshot.      *)
NoQuote ==
  /\ today < MaxDay
  /\ today' = today + 1
  /\ fired' = FALSE
  /\ UNCHANGED <<rule, last, spent, sailDate, nights>>

(* set_alert between two checks.                                            *)
SetAlert(r) ==
  /\ r # rule
  /\ rule' = r
  /\ fired' = FALSE
  /\ UNCHANGED <<last, spent, dates>>

Next ==
  \/ \E q \in Quote : Observe(q)
  \/ NoQuote
  \/ \E r \in Rule : SetAlert(r)

Spec == Init /\ [][Next]_vars
-----------------------------------------------------------------------------
TypeOK ==
  /\ rule \in Rule
  /\ last \in {None} \cup {Seen(q) : q \in Quote}
  /\ fired \in BOOLEAN
  /\ spent \subseteq Threshold
  /\ today \in 0..MaxDay
  /\ sailDate \in 0..MaxDay
  /\ nights \in Nights

(* A below_threshold alert is one shot per crossing: once a threshold has   *)
(* been alerted on, no further alert on it is raised before a quote has     *)
(* been at or above it again, whatever drops, missed days, promo gaps and   *)
(* rule changes come in between (detect_diff's "one-shot per crossing").    *)
OneShotPerCrossing ==
  [][fired' => spent \cap Crossed(rule) = {}]_vars

(* The two tiers alert on the same drops: for the quote stored last and any *)
(* next one, detect_diff and qualifies give the same answer ("Mirrors       *)
(* detect_diff so public and authed tiers behave identically").             *)
TiersAgree ==
  (~last.none /\ last.quote # NoPrice)
    => \A q \in Price : DetectDiff(rule, last.quote, q)
                          <=> Qualifies(rule, last.quote, q)

(* Nothing is alerted on that the user cannot look at: on the day after an  *)
(* alert the booking is still not hidden as ended, whatever the length of   *)
(* the cruise is taken to be (has_departed stops the price checks, has_ended *)
(* hides).                                                                  *)
AlertedIsShown == fired => ~HasEnded(sailDate, nights, MaxDay, today)
=============================================================================
