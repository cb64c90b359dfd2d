-------------------------- MODULE AlertRulesProofs --------------------------
(***************************************************************************)
(* The alert rules agree, fire once per crossing and before the user's     *)
(* booking is hidden, for all prices and dates.                            *)
(***************************************************************************)
EXTENDS PriceWalk, TLAPS

(* detect_diff and qualifies answer alike on any two prices.                *)
LEMMA SameRule ==
  ASSUME NEW r \in Rule, NEW old \in Nat, NEW new \in Nat
  PROVE  DetectDiff(r, old, new) <=> Qualifies(r, old, new)
<1>1. old # NoPrice /\ new # NoPrice
  BY PriceAssumption
<1>2. r.threshold \in Nat \cup {NoThreshold}
  BY PriceAssumption DEF Rule
<1>3. CASE r.mode = "any_drop"
  BY <1>1, <1>3 DEF DetectDiff, Qualifies, MinDropAbs, MinDropPct
<1>4. CASE r.mode = "below_threshold"
  BY <1>1, <1>2, <1>4 DEF DetectDiff, Qualifies
<1>5. r.mode \in {"any_drop", "below_threshold"}
  BY DEF Rule
<1> QED
  BY <1>3, <1>4, <1>5

(* A spent threshold is still above the last quote, or there is no quote to *)
(* compare with: the next alert on it needs a quote that reaches it.        *)
StillBelow ==
  \A t \in spent : ~last.none /\ (last.quote = NoPrice \/ last.quote < t)

(* The last alert was raised before the ship left.                          *)
FiredInTime == fired => today <= sailDate

WalkInv == TypeOK /\ StillBelow /\ FiredInTime

LEMMA WalkInit == Init => WalkInv
<1> SUFFICES ASSUME Init PROVE WalkInv
  OBVIOUS
<1>1. rule \in Rule /\ last = None /\ fired = FALSE /\ spent = {} /\ today = 0
        /\ sailDate \in 0..MaxDay /\ nights \in Nights
  BY DEF Init
<1>2. 0 \in 0..MaxDay
  BY WalkAssumption
<1> QED
  BY <1>1, <1>2, Zenon DEF WalkInv, TypeOK, StillBelow, FiredInTime

LEMMA SeenQuote ==
  ASSUME NEW l \in {None} \cup {Seen(q) : q \in Quote}, ~l.none
  PROVE  l.quote \in Quote
  BY DEF None, Seen

(* What a fired alert of a below_threshold rule says about the baseline.    *)
LEMMA FiredFromAbove ==
  ASSUME TypeOK, NEW q \in Quote, ~last.none, DetectDiff(rule, last.quote, q),
         NEW t \in Crossed(rule)
  PROVE  /\ t \in Threshold /\ q \in Nat /\ q < t
         /\ last.quote \in Nat /\ last.quote >= t
<1>1. last.quote \in Quote
  BY SeenQuote DEF TypeOK
<1>2. rule.mode = "below_threshold" /\ t = rule.threshold
  BY DEF Crossed
<1>3. last.quote \in Nat /\ q \in Nat
  BY <1>1, PriceAssumption DEF DetectDiff, Quote
<1>4. t \in Threshold /\ t \in Nat
  BY <1>2, PriceAssumption DEF TypeOK, Rule, DetectDiff
<1> QED
  BY <1>2, <1>3, <1>4 DEF DetectDiff

LEMMA WalkStep == WalkInv /\ [Next]_vars => WalkInv'
<1> SUFFICES ASSUME WalkInv, [Next]_vars PROVE WalkInv'
  OBVIOUS
<1> USE DEF WalkInv, dates
<1>1. ASSUME NEW q \in Quote, Observe(q) PROVE WalkInv'
  <2>1. last' = Seen(q) /\ ~last'.none /\ last'.quote = q
    BY <1>1 DEF Observe, Seen
  <2>2. ASSUME NEW t \in spent' PROVE t \in Threshold /\ (q = NoPrice \/ q < t)
    <3>1. t \notin Reached(q)
      BY <1>1 DEF Observe
    <3>2. t \in Threshold
      <4>1. CASE t \in spent
        BY <4>1 DEF TypeOK
      <4>2. CASE t \notin spent
        BY <1>1, <4>2, FiredFromAbove DEF Observe
      <4> QED
        BY <4>1, <4>2
    <3>3. q \in Nat \/ q = NoPrice
      BY PriceAssumption DEF Quote
    <3> QED
      BY <3>1, <3>2, <3>3, PriceAssumption DEF Reached
  <2>3. TypeOK'
    BY <1>1, <2>2, WalkAssumption DEF Observe, TypeOK
  <2>4. FiredInTime'
    BY <1>1, WalkAssumption DEF Observe, HasDeparted, FiredInTime, TypeOK
  <2> QED
    BY <2>1, <2>2, <2>3, <2>4 DEF StillBelow
<1>2. CASE NoQuote
  <2>1. today' \in 0..MaxDay
    BY <1>2, WalkAssumption DEF NoQuote, TypeOK
  <2> QED
    BY <1>2, <2>1 DEF NoQuote, TypeOK, StillBelow, FiredInTime
<1>3. ASSUME NEW r \in Rule, SetAlert(r) PROVE WalkInv'
  BY <1>3 DEF SetAlert, TypeOK, StillBelow, FiredInTime
<1>4. CASE UNCHANGED vars
  BY <1>4 DEF vars, TypeOK, StillBelow, FiredInTime
<1> QED
  BY <1>1, <1>2, <1>3, <1>4 DEF Next

(* However the quotes, the missed days and the rule changes fall, a         *)
(* below_threshold alert never repeats before a quote reached the threshold *)
(* again, for every set of prices and thresholds.                           *)
THEOREM OneShot == Spec => OneShotPerCrossing
<1>1. WalkInv /\ [Next]_vars => [fired' => spent \cap Crossed(rule) = {}]_vars
  <2> SUFFICES ASSUME WalkInv, Next, fired' PROVE spent \cap Crossed(rule) = {}
    OBVIOUS
  <2>1. PICK q \in Quote : Observe(q)
    BY DEF Next, NoQuote, SetAlert
  <2>2. ASSUME NEW t \in spent, t \in Crossed(rule) PROVE FALSE
    <3>1. t \in Nat /\ last.quote \in Nat /\ last.quote >= t
      BY <2>1, <2>2, FiredFromAbove, PriceAssumption DEF Observe, WalkInv
    <3>2. last.quote # NoPrice /\ ~(last.quote < t)
      BY <3>1, PriceAssumption
    <3> QED
      BY <3>2 DEF WalkInv, StillBelow
  <2> QED
    BY <2>2
<1> QED
  BY <1>1, WalkInit, WalkStep, PTL DEF Spec, OneShotPerCrossing

(* The authenticated and the public tier alert on the same drops.           *)
THEOREM SameAlerts == Spec => []TiersAgree
<1>1. WalkInv => TiersAgree
  <2> SUFFICES ASSUME WalkInv, ~last.none, last.quote # NoPrice, NEW q \in Price
               PROVE  DetectDiff(rule, last.quote, q) <=> Qualifies(rule, last.quote, q)
    BY DEF TiersAgree
  <2>1. last.quote \in Nat /\ q \in Nat /\ rule \in Rule
    BY SeenQuote, PriceAssumption DEF WalkInv, TypeOK, Quote
  <2> QED
    BY <2>1, SameRule
<1> QED
  BY <1>1, WalkInit, WalkStep, PTL DEF Spec

(* A booking one is alerted on is not hidden the day after, whatever the    *)
(* length of the cruise.                                                    *)
THEOREM AlertsAreShown == Spec => []AlertedIsShown
<1>1. WalkInv => AlertedIsShown
  <2> SUFFICES ASSUME WalkInv PROVE AlertedIsShown
    OBVIOUS
  <2>1. today \in Int /\ sailDate \in Int /\ nights \in Int /\ MaxDay \in Int
    BY WalkAssumption DEF WalkInv, TypeOK
  <2> QED
    BY <2>1 DEF WalkInv, FiredInTime, AlertedIsShown, HasEnded
<1> QED
  BY <1>1, WalkInit, WalkStep, PTL DEF Spec
=============================================================================
