----------------------------- MODULE AlertRules -----------------------------
(***************************************************************************)
(* The pure rules of royaltracker: when a price change is an alert, and    *)
(* when a booking is still priced and shown.                               *)
(*                                                                         *)
(* Prices are integer cents.  The code computes in f64 dollars; a          *)
(* comparison at the exact one-dollar or one-percent boundary can round    *)
(* the other way there, which is outside this module (see README).         *)
(***************************************************************************)
EXTENDS Integers

CONSTANTS
  Price,        \* the prices in play, in cents
  Threshold,    \* the alert thresholds users may set, in cents
  NoPrice,      \* "no promotional price" (None in adult_promo_price)
  NoThreshold   \* an alert rule without a threshold

ASSUME PriceAssumption ==
  /\ Price \subseteq Nat
  /\ Threshold \subseteq Nat
  /\ NoPrice \notin Nat
  /\ NoThreshold \notin Nat

MinDropAbs == 100   \* MIN_DROP_ABS, one dollar in cents
MinDropPct == 1     \* MIN_DROP_PCT

Quote == Price \cup {NoPrice}

AlertMode == {"any_drop", "below_threshold"}

(* A watch's alert configuration.  set_alert stores a threshold with        *)
(* below_threshold and clears it with any_drop.                             *)
Rule == [mode : {"any_drop"}, threshold : {NoThreshold}]
          \cup [mode : {"below_threshold"}, threshold : Threshold]

DefaultRule == [mode |-> "any_drop", threshold |-> NoThreshold]

(***************************************************************************)
(* The authenticated tier.  detect_diff returns early on every reason not  *)
(* to alert; each conjunct is one early return that is not taken.          *)
(***************************************************************************)
DetectDiff_EveryDropBelow(rule, old, new) ==   \* mutant: no crossing test
  /\ old # NoPrice /\ new # NoPrice /\ new < old
  /\ \/ /\ rule.mode = "any_drop"
        /\ old - new >= MinDropAbs
        /\ (old - new) * 100 >= MinDropPct * old
     \/ /\ rule.mode = "below_threshold"
        /\ new < rule.threshold

DetectDiff(rule, old, new) ==
  /\ old # NoPrice
  /\ new # NoPrice
  /\ ~(new >= old)
  /\ \/ /\ rule.mode = "any_drop"
        /\ ~(old - new < MinDropAbs)
        /\ ~((old - new) * 100 < MinDropPct * old)
     \/ /\ rule.mode = "below_threshold"
        /\ rule.threshold # NoThreshold
        /\ ~(new >= rule.threshold)
        /\ ~(old < rule.threshold)

(***************************************************************************)
(* The public tier.  sweep_one has already required both promos.           *)
(***************************************************************************)
Qualifies_AbsOnly(rule, old, new) ==   \* mutant: no percentage floor
  /\ new < old
  /\ \/ rule.mode = "any_drop" /\ old - new >= MinDropAbs
     \/ /\ rule.mode = "below_threshold"
        /\ new < rule.threshold /\ old >= rule.threshold

Qualifies(rule, old, new) ==
  /\ new < old
  /\ \/ /\ rule.mode = "any_drop"
        /\ old - new >= MinDropAbs
        /\ (old - new) * 100 >= MinDropPct * old
     \/ /\ rule.mode = "below_threshold"
        /\ rule.threshold # NoThreshold
        /\ new < rule.threshold
        /\ old >= rule.threshold

(***************************************************************************)
(* Dates are day numbers (UTC).                                            *)
(***************************************************************************)
HasDeparted(sailDate, today) == sailDate <= today

HasEnded_SignedNights(sailDate, nights, lastDay, today) ==   \* mutant
  LET end == sailDate + nights IN end <= lastDay /\ end < today

(* nights is an Int: a negative length counts as zero nights.  lastDay is   *)
(* the last representable date: a cruise that would end after it never      *)
(* ends.                                                                    *)
HasEnded(sailDate, nights, lastDay, today) ==
  LET end == sailDate + (IF nights < 0 THEN 0 ELSE nights)
  IN  end <= lastDay /\ end < today
=============================================================================
