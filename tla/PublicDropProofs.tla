--------------------------- MODULE PublicDropProofs ---------------------------
(***************************************************************************)
(* The public sweep detects real drops, detects none twice, and alerts a   *)
(* threshold once per crossing.  The invariant follows one price from the  *)
(* read of its baseline to the alert: stamps are taken once, the baseline  *)
(* is stored and not older than any drop detected before, and a drop's     *)
(* two prices are stored before it is detected.                            *)
(***************************************************************************)
EXTENDS PublicSweepProofs

Priced == [product |-> cur, stamp |-> fetched.stamp, quote |-> fetched.quote]
Holding(q) == req[q].at = "stamped"

(* No stamp is ahead of the clock.                                          *)
StampsAreOld ==
  /\ \A s \in snaps : s.stamp <= clock
  /\ pc \in InTarget => fetched.stamp <= clock
  /\ \A q \in Request : Holding(q) => req[q].stamp <= clock

(* A stamp belongs to one price, stored or still in hand.                   *)
StampsAreUnique ==
  /\ \A s, t \in snaps : s.product = t.product /\ s.stamp = t.stamp => s = t
  /\ pc = "read" => \A s \in snaps : s.stamp # fetched.stamp
  /\ \A q \in Request : Holding(q) =>
       /\ \A s \in snaps : s.stamp # req[q].stamp
       /\ pc = "read" => req[q].stamp # fetched.stamp
       /\ \A r \in Request : Holding(r) /\ r # q => req[r].stamp # req[q].stamp

(* The baseline is stored, older than the price in hand, and not older than *)
(* any drop of the product detected so far.                                 *)
BaselineIsStored ==
  pc \in InTarget /\ prev # None =>
    prev \in snaps /\ prev.product = cur /\ prev.stamp < fetched.stamp
BaselineIsLatest ==
  pc \in {"read", "stored"} /\ prev # None =>
    \A d \in drops : d.product = cur => d.to <= prev.stamp

PriceIsStored == pc \in InTarget \ {"read"} => Priced \in snaps
DropIsKnown == pc \in InDrop => prev # None /\ ThisDrop \in drops

PendingQualify ==
  pc \in {"fanout", "gone"} =>
    \A x \in pending : Qualifies(x.rule, prev.quote, fetched.quote)
AlertsQualify ==
  \A a \in alerts : a.drop \in drops /\ Qualifies(a.rule, a.drop.old, a.drop.new)

DropInv ==
  /\ StampsAreOld /\ StampsAreUnique
  /\ BaselineIsStored /\ BaselineIsLatest /\ PriceIsStored /\ DropIsKnown
  /\ PendingQualify /\ AlertsQualify
  /\ DropsAreReal /\ DropsDoNotOverlap

LEMMA DropInit == Init => DropInv
<1> SUFFICES ASSUME Init PROVE DropInv
  OBVIOUS
<1>1. /\ pc = "idle" /\ drops = {} /\ alerts = {}
      /\ \A q \in Request : ~Holding(q)
      /\ \A s \in snaps : s.stamp <= clock
      /\ \A s, t \in snaps : s.product = t.product /\ s.stamp = t.stamp => s = t
  BY IdleRequest DEF Init, Holding
<1> QED
  BY <1>1 DEF DropInv, StampsAreOld, StampsAreUnique, BaselineIsStored,
       BaselineIsLatest, PriceIsStored, DropIsKnown, PendingQualify, AlertsQualify,
       DropsAreReal, DropsDoNotOverlap, InTarget, InDrop

(* A threshold alert's two crossings are apart: the baseline of the later   *)
(* one is a stored price at or above the threshold.                         *)
LEMMA DropsCross == TypeInv /\ DropInv => CrossingOnce
<1> SUFFICES ASSUME TypeInv, DropInv, NEW a \in alerts, NEW b \in alerts,
                    a.endpoint = b.endpoint, a.rule = b.rule,
                    a.rule.mode = "below_threshold",
                    a.drop.product = b.drop.product, a.drop.to < b.drop.to
             PROVE  \E s \in SnapsOf(a.drop.product) :
                      /\ a.drop.to < s.stamp /\ s.stamp < b.drop.to
                      /\ s.quote # NoPrice /\ s.quote >= a.rule.threshold
  BY DEF CrossingOnce
<1>1. /\ a.drop \in drops /\ b.drop \in drops
      /\ Qualifies(a.rule, a.drop.old, a.drop.new)
      /\ Qualifies(b.rule, b.drop.old, b.drop.new)
  BY DEF DropInv, AlertsQualify
<1>2. /\ a.drop \in Drop /\ b.drop \in Drop /\ a.rule \in PublicRule
  BY DEF TypeInv, TypeOK, Alert
<1>3. /\ a.drop.from \in Nat /\ a.drop.to \in Nat
      /\ b.drop.from \in Nat /\ b.drop.to \in Nat
      /\ a.drop.new \in Nat /\ b.drop.old \in Nat
      /\ b.drop.old # NoPrice
  <2>1. /\ a.drop.from \in 1..MaxStamp /\ a.drop.to \in 1..MaxStamp
        /\ b.drop.from \in 1..MaxStamp /\ b.drop.to \in 1..MaxStamp
        /\ a.drop.new \in Price /\ b.drop.old \in Price
    BY <1>2 DEF Drop, Stamp
  <2>2. Price \subseteq Nat /\ NoPrice \notin Nat
    BY PriceAssumption
  <2>3. 1..MaxStamp \subseteq Nat
    BY SweepAssumption
  <2>4. a.drop.new \in Nat /\ b.drop.old \in Nat /\ b.drop.old # NoPrice
    BY <2>1, <2>2
  <2>5. /\ a.drop.from \in Nat /\ a.drop.to \in Nat
        /\ b.drop.from \in Nat /\ b.drop.to \in Nat
    BY <2>1, <2>3
  <2> QED
    BY <2>4, <2>5
<1>4. /\ a.rule.threshold # NoThreshold
      /\ a.drop.new < a.rule.threshold
      /\ b.drop.old >= a.rule.threshold
  BY <1>1 DEF Qualifies
<1>5. a.rule.threshold \in Nat
  BY <1>2, <1>4, PriceAssumption DEF PublicRule
<1>6. /\ a.drop.from < a.drop.to /\ b.drop.from < b.drop.to
      /\ [product |-> a.drop.product, stamp |-> a.drop.to, quote |-> a.drop.new] \in snaps
      /\ [product |-> b.drop.product, stamp |-> b.drop.from, quote |-> b.drop.old] \in snaps
  BY <1>1 DEF DropInv, DropsAreReal
<1>7. a.drop.to <= b.drop.from
  <2>1. \/ a.drop = b.drop
        \/ a.drop.to <= b.drop.from
        \/ b.drop.to <= a.drop.from
    BY <1>1 DEF DropInv, DropsDoNotOverlap
  <2> QED
    BY <1>3, <1>6, <2>1
<1>8. a.drop.to # b.drop.from
  <2>1. SUFFICES ASSUME a.drop.to = b.drop.from PROVE FALSE
    OBVIOUS
  <2>2. a.drop.new = b.drop.old
    BY <1>6, <2>1 DEF DropInv, StampsAreUnique
  <2> QED
    BY <1>3, <1>4, <1>5, <2>2
<1> DEFINE s == [product |-> b.drop.product, stamp |-> b.drop.from,
                 quote |-> b.drop.old]
<1>9. /\ s \in SnapsOf(a.drop.product)
      /\ s.stamp = b.drop.from /\ s.quote = b.drop.old
  BY <1>6 DEF SnapsOf
<1>10. a.drop.to < s.stamp /\ s.stamp < b.drop.to
  BY <1>3, <1>6, <1>7, <1>8, <1>9
<1> HIDE DEF s
<1> QED
  BY <1>3, <1>4, <1>9, <1>10

(* Steps that store no price and detect no drop.                            *)
LEMMA QuietStep ==
  ASSUME TypeInv, DropInv, UNCHANGED <<snaps, drops, req>>,
         alerts' = alerts \/ AlertsQualify',
         clock' \in Nat, clock <= clock',
         \/ UNCHANGED <<pc, loop>>
         \/ pc' \notin InTarget
         \/ /\ pc \in InDrop /\ pc' \in InDrop
            /\ UNCHANGED <<cur, prev, fetched>>
            /\ pc' \in {"fanout", "gone"} =>
                 \A x \in pending' : Qualifies(x.rule, prev.quote, fetched.quote)
  PROVE  DropInv'
<1>1. /\ clock \in Nat /\ \A s \in snaps : s.stamp \in Nat
      /\ pc \in InTarget => fetched.stamp \in Nat
      /\ \A q \in Request : req[q].stamp \in Nat
  BY SweepAssumption DEF TypeInv, TypeOK, HoldsTarget, Snapshot, Fetch, Stamp,
                         RequestState
<1>2. InDrop \subseteq InTarget /\ "read" \notin InDrop /\ "stored" \notin InDrop
      /\ "read" \in InTarget /\ "stored" \in InTarget
      /\ "fanout" \in InDrop /\ "gone" \in InDrop
  BY DEF InDrop, InTarget
<1>3. StampsAreOld'
  BY <1>1, <1>2 DEF DropInv, StampsAreOld, Holding, loop
<1>4. StampsAreUnique'
  BY <1>2 DEF DropInv, StampsAreUnique, Holding, loop
<1>5. BaselineIsStored' /\ BaselineIsLatest' /\ PriceIsStored'
  BY <1>2 DEF DropInv, BaselineIsStored, BaselineIsLatest, PriceIsStored, Priced, loop
<1>6. DropIsKnown'
  BY <1>2 DEF DropInv, DropIsKnown, ThisDrop, loop
<1>7. PendingQualify'
  BY <1>2 DEF DropInv, PendingQualify, loop
<1>9. AlertsQualify'
  BY DEF DropInv, AlertsQualify
<1>8. DropsAreReal' /\ DropsDoNotOverlap'
  BY DEF DropInv, DropsAreReal, DropsDoNotOverlap
<1> QED
  BY <1>3, <1>4, <1>5, <1>6, <1>7, <1>8, <1>9 DEF DropInv

LEMMA ReturnQuiet ==
  ASSUME TypeInv, DropInv, NextTarget, UNCHANGED <<snaps, drops, req, clock>>,
         alerts' = alerts \/ AlertsQualify'
  PROVE  DropInv'
<1>1. pc' \notin InTarget
  BY DEF NextTarget, InTarget
<1>2. clock \in Nat
  BY SweepAssumption DEF TypeInv, TypeOK
<1> QED
  BY <1>1, <1>2, QuietStep

LEMMA FanOutQuiet ==
  ASSUME TypeInv, DropInv, NEW sent, pc \in InDrop, EndFanOut(sent),
         UNCHANGED <<snaps, drops, req, clock>>,
         alerts' = alerts \/ AlertsQualify'
  PROVE  DropInv'
<1>1. CASE diffId # None /\ sent
  <2>1. pc' = "mark" /\ UNCHANGED loop
    BY <1>1 DEF EndFanOut
  <2>2. pc' \in InDrop /\ pc' \notin {"fanout", "gone"}
    BY <2>1 DEF InDrop
  <2>3. clock \in Nat
    BY SweepAssumption DEF TypeInv, TypeOK
  <2> QED
    BY <2>1, <2>2, <2>3, QuietStep DEF loop
<1>2. CASE ~(diffId # None /\ sent)
  BY <1>2, ReturnQuiet DEF EndFanOut
<1> QED
  BY <1>1, <1>2

(* A web request that neither stores nor stamps a price.                    *)
LEMMA RequestQuiet ==
  ASSUME DropInv, UNCHANGED <<snaps, drops, alerts, pc, loop, clock>>,
         \A r \in Request : Holding(r)' => Holding(r) /\ req'[r].stamp = req[r].stamp
  PROVE  DropInv'
<1>1. StampsAreOld' /\ StampsAreUnique'
  BY DEF DropInv, StampsAreOld, StampsAreUnique, loop
<1>2. /\ BaselineIsStored' /\ BaselineIsLatest' /\ PriceIsStored' /\ DropIsKnown'
      /\ PendingQualify' /\ AlertsQualify' /\ DropsAreReal' /\ DropsDoNotOverlap'
  BY DEF DropInv, BaselineIsStored, BaselineIsLatest, PriceIsStored, DropIsKnown,
         PendingQualify, AlertsQualify, DropsAreReal, DropsDoNotOverlap, Priced,
         ThisDrop, loop
<1> QED
  BY <1>1, <1>2 DEF DropInv

LEMMA ReadStep ==
  ASSUME TypeInv, DropInv, NEW p \in Product, ReadPrevious(p)
  PROVE  DropInv'
<1>1. PICK c \in Quote : fetched' = [quote |-> c, stamp |-> clock + 1]
  BY DEF ReadPrevious
<1>2. /\ pc' = "read" /\ cur' = p /\ clock' = clock + 1 /\ fetched'.stamp = clock + 1
      /\ prev' \in Latest(p) \cup {None}
      /\ UNCHANGED <<snaps, drops, alerts, req>>
  BY <1>1 DEF ReadPrevious, db, history
<1>3. /\ clock \in Nat /\ \A s \in snaps : s.stamp \in Nat
      /\ \A q \in Request : req[q].stamp \in Nat
  BY SweepAssumption DEF TypeInv, TypeOK, Snapshot, Stamp, RequestState
<1>4. prev' # None =>
        /\ prev' \in snaps /\ prev'.product = p
        /\ \A s \in snaps : s.product = p => s.stamp <= prev'.stamp
  BY <1>2 DEF Latest, SnapsOf
<1>5. StampsAreOld'
  BY <1>2, <1>3 DEF DropInv, StampsAreOld, Holding
<1>6. StampsAreUnique'
  <2>1. /\ \A s \in snaps : s.stamp # clock + 1
        /\ \A q \in Request : Holding(q) => req[q].stamp # clock + 1
    BY <1>3 DEF DropInv, StampsAreOld
  <2> QED
    BY <1>2, <2>1 DEF DropInv, StampsAreUnique, Holding
<1>7. BaselineIsStored'
  BY <1>2, <1>3, <1>4 DEF DropInv, BaselineIsStored, StampsAreOld
<1>8. BaselineIsLatest'
  <2>1. ASSUME prev' # None, NEW d \in drops, d.product = p PROVE d.to <= prev'.stamp
    <3>1. [product |-> d.product, stamp |-> d.to, quote |-> d.new] \in snaps
      BY DEF DropInv, DropsAreReal
    <3> QED
      BY <1>4, <2>1, <3>1
  <2> QED
    BY <1>2, <2>1 DEF BaselineIsLatest
<1>9. /\ PriceIsStored' /\ DropIsKnown' /\ PendingQualify' /\ AlertsQualify'
      /\ DropsAreReal' /\ DropsDoNotOverlap'
  BY <1>2 DEF DropInv, PriceIsStored, DropIsKnown, PendingQualify, AlertsQualify,
              DropsAreReal, DropsDoNotOverlap, InTarget, InDrop
<1> QED
  BY <1>5, <1>6, <1>7, <1>8, <1>9 DEF DropInv

LEMMA StoreStep ==
  ASSUME TypeInv, DropInv, StorePrice
  PROVE  DropInv'
<1>1. /\ pc = "read" /\ pc' = "stored" /\ snaps' = snaps \cup {Priced}
      /\ UNCHANGED <<drops, alerts, req, clock, loop>>
  BY DEF StorePrice, Priced, env
<1>2. Priced' = Priced /\ Priced.product = cur /\ Priced.stamp = fetched.stamp
  BY <1>1 DEF Priced, loop
<1>3. StampsAreOld' /\ StampsAreUnique'
  BY <1>1, <1>2 DEF DropInv, StampsAreOld, StampsAreUnique, Holding, InTarget, loop
<1>4. /\ BaselineIsStored' /\ BaselineIsLatest' /\ PriceIsStored' /\ DropIsKnown'
      /\ PendingQualify' /\ AlertsQualify'
  BY <1>1, <1>2 DEF DropInv, BaselineIsStored, BaselineIsLatest, PriceIsStored,
                    DropIsKnown, PendingQualify, AlertsQualify, InTarget, InDrop, loop
<1>5. DropsAreReal' /\ DropsDoNotOverlap'
  BY <1>1 DEF DropInv, DropsAreReal, DropsDoNotOverlap
<1> QED
  BY <1>3, <1>4, <1>5 DEF DropInv

LEMMA DetectStep ==
  ASSUME TypeInv, DropInv, ResetFailures, IsDrop(prev, fetched)
  PROVE  DropInv'
<1>1. /\ pc = "stored" /\ pc' = "drop" /\ drops' = drops \cup {ThisDrop}
      /\ UNCHANGED <<snaps, alerts, req, clock, loop>>
  BY DEF ResetFailures, env
<1>2. /\ prev # None /\ prev \in snaps /\ prev.product = cur
      /\ prev.stamp < fetched.stamp /\ Priced \in snaps
      /\ ~(fetched.quote >= prev.quote)
      /\ prev.quote # NoPrice /\ fetched.quote # NoPrice
      /\ \A d \in drops : d.product = cur => d.to <= prev.stamp
  BY <1>1 DEF DropInv, IsDrop, BaselineIsStored, BaselineIsLatest, PriceIsStored, InTarget
<1>3. prev.quote \in Nat /\ fetched.quote \in Nat
  BY <1>1, <1>2, PriceAssumption
     DEF TypeInv, TypeOK, HoldsTarget, InTarget, Snapshot, Fetch, Quote
<1>4. prev = [product |-> cur, stamp |-> prev.stamp, quote |-> prev.quote]
  BY <1>2 DEF TypeInv, TypeOK, Snapshot
<1>5. DropsAreReal'
  <2>1. /\ ThisDrop.from < ThisDrop.to /\ ThisDrop.new < ThisDrop.old
        /\ [product |-> ThisDrop.product, stamp |-> ThisDrop.from,
            quote |-> ThisDrop.old] \in snaps
        /\ [product |-> ThisDrop.product, stamp |-> ThisDrop.to,
            quote |-> ThisDrop.new] \in snaps
    <3>1. /\ ThisDrop.product = cur /\ ThisDrop.from = prev.stamp
          /\ ThisDrop.to = fetched.stamp /\ ThisDrop.old = prev.quote
          /\ ThisDrop.new = fetched.quote
      BY DEF ThisDrop
    <3>2. [product |-> cur, stamp |-> prev.stamp, quote |-> prev.quote] \in snaps
      BY <1>2, <1>4
    <3>3. fetched.quote < prev.quote
      BY <1>2, <1>3
    <3> QED
      BY <1>2, <3>1, <3>2, <3>3 DEF Priced
  <2> HIDE DEF ThisDrop
  <2> QED
    BY <1>1, <2>1 DEF DropInv, DropsAreReal
<1>6. DropsDoNotOverlap'
  BY <1>1, <1>2 DEF DropInv, DropsDoNotOverlap, ThisDrop
<1>7. ThisDrop' = ThisDrop /\ Priced' = Priced
  BY <1>1 DEF ThisDrop, Priced, loop
<1>8. /\ StampsAreOld' /\ StampsAreUnique' /\ BaselineIsStored'
      /\ BaselineIsLatest' /\ PriceIsStored' /\ DropIsKnown'
  BY <1>1, <1>2, <1>7
     DEF DropInv, StampsAreOld, StampsAreUnique, Holding, BaselineIsStored,
         BaselineIsLatest, PriceIsStored, DropIsKnown, InTarget, InDrop, loop
<1>9. PendingQualify' /\ AlertsQualify'
  BY <1>1 DEF DropInv, PendingQualify, AlertsQualify
<1> QED
  BY <1>5, <1>6, <1>8, <1>9 DEF DropInv

LEMMA SendStep ==
  ASSUME TypeInv, DropInv, NEW x \in pending, NEW outcome, Send(x, outcome)
  PROVE  DropInv'
<1>1. /\ pc = "fanout" /\ UNCHANGED <<snaps, drops, req, clock>>
      /\ alerts' = alerts \cup
           {[endpoint |-> x.endpoint, rule |-> x.rule, drop |-> ThisDrop]}
  BY DEF Send, db, env
<1>2. AlertsQualify'
  <2>1. ThisDrop \in drops /\ Qualifies(x.rule, prev.quote, fetched.quote)
    BY <1>1 DEF DropInv, DropIsKnown, PendingQualify, InDrop
  <2>2. ThisDrop.old = prev.quote /\ ThisDrop.new = fetched.quote
    BY DEF ThisDrop
  <2> QED
    BY <1>1, <2>1, <2>2 DEF DropInv, AlertsQualify
<1>3. clock \in Nat
  BY SweepAssumption DEF TypeInv, TypeOK
<1>4. CASE outcome # "gone" /\ pending = {x}
  BY <1>1, <1>2, <1>4, FanOutQuiet DEF Send, InDrop
<1>5. CASE outcome = "gone" \/ pending # {x}
  <2>1. /\ pc' \in InDrop /\ pc \in InDrop /\ UNCHANGED <<cur, prev, fetched>>
        /\ pending' \subseteq pending
    BY <1>1, <1>5 DEF Send, InDrop
  <2> QED
    BY <1>1, <1>2, <1>3, <2>1, QuietStep DEF DropInv, PendingQualify
<1> QED
  BY <1>4, <1>5

(* A lookup takes a stamp nobody holds, and stores the price it holds.      *)
LEMMA LookupTracksStep ==
  ASSUME TypeInv, DropInv, NEW q \in Request, NEW p \in Product, LookupTracks(q, p)
  PROVE  DropInv'
<1>1. /\ clock' = clock + 1 /\ UNCHANGED <<snaps, drops, alerts, pc, loop>>
      /\ req'[q].stamp = clock + 1
      /\ \A r \in Request \ {q} : req'[r] = req[r]
  BY DEF LookupTracks, sweep, history, TypeInv, TypeOK, RequestState
<1>2. /\ clock \in Nat /\ \A s \in snaps : s.stamp \in Nat
      /\ pc \in InTarget => fetched.stamp \in Nat
      /\ \A r \in Request : req[r].stamp \in Nat
  BY SweepAssumption DEF TypeInv, TypeOK, HoldsTarget, Snapshot, Fetch, Stamp,
                         RequestState
<1>3. StampsAreOld'
  BY <1>1, <1>2 DEF DropInv, StampsAreOld, Holding, loop
<1>4. /\ \A s \in snaps : s.stamp # clock + 1
      /\ pc = "read" => fetched.stamp # clock + 1
      /\ \A r \in Request : Holding(r) => req[r].stamp # clock + 1
  BY <1>2 DEF DropInv, StampsAreOld, InTarget
<1>5. StampsAreUnique'
  <2>1. /\ \A s, t \in snaps' : s.product = t.product /\ s.stamp = t.stamp => s = t
        /\ pc' = "read" => \A s \in snaps' : s.stamp # fetched'.stamp
    BY <1>1 DEF DropInv, StampsAreUnique, loop
  <2>2. ASSUME NEW r \in Request, Holding(r)'
        PROVE  /\ \A s \in snaps' : s.stamp # req'[r].stamp
               /\ pc' = "read" => req'[r].stamp # fetched'.stamp
               /\ \A t \in Request : Holding(t)' /\ t # r => req'[t].stamp # req'[r].stamp
    BY <1>1, <1>4, <2>2 DEF DropInv, StampsAreUnique, Holding, loop
  <2> QED
    BY <2>1, <2>2 DEF StampsAreUnique
<1>6. /\ BaselineIsStored' /\ BaselineIsLatest' /\ PriceIsStored' /\ DropIsKnown'
      /\ PendingQualify' /\ AlertsQualify' /\ DropsAreReal' /\ DropsDoNotOverlap'
  BY <1>1 DEF DropInv, BaselineIsStored, BaselineIsLatest, PriceIsStored, DropIsKnown,
         PendingQualify, AlertsQualify, DropsAreReal, DropsDoNotOverlap, Priced,
         ThisDrop, loop
<1> QED
  BY <1>3, <1>5, <1>6 DEF DropInv

LEMMA LookupStoresStep ==
  ASSUME TypeInv, DropInv, NEW q \in Request, LookupStores(q)
  PROVE  DropInv'
<1> DEFINE new == [product |-> req[q].product, stamp |-> req[q].stamp,
                   quote |-> req[q].quote]
<1>1. /\ snaps' = snaps \cup {new} /\ UNCHANGED <<drops, alerts, pc, loop, clock>>
      /\ Holding(q) /\ new.stamp = req[q].stamp
  BY DEF LookupStores, sweep, env, Holding
<1>2. \A r \in Request : Holding(r)' => r # q /\ Holding(r) /\ req'[r] = req[r]
  BY DEF LookupStores, Holding, TypeInv, TypeOK, RequestState
<1> HIDE DEF new
<1>3. StampsAreOld'
  BY <1>1, <1>2 DEF DropInv, StampsAreOld, loop
<1>4. StampsAreUnique'
  <2>1. \A s \in snaps : s.stamp # new.stamp
    BY <1>1 DEF DropInv, StampsAreUnique
  <2>2. \A s, t \in snaps' : s.product = t.product /\ s.stamp = t.stamp => s = t
    BY <1>1, <2>1 DEF DropInv, StampsAreUnique
  <2>3. pc' = "read" => \A s \in snaps' : s.stamp # fetched'.stamp
    BY <1>1 DEF DropInv, StampsAreUnique, loop
  <2>4. ASSUME NEW r \in Request, Holding(r)'
        PROVE  /\ \A s \in snaps' : s.stamp # req'[r].stamp
               /\ pc' = "read" => req'[r].stamp # fetched'.stamp
               /\ \A t \in Request : Holding(t)' /\ t # r => req'[t].stamp # req'[r].stamp
    BY <1>1, <1>2, <2>4 DEF DropInv, StampsAreUnique, loop
  <2> QED
    BY <2>2, <2>3, <2>4 DEF StampsAreUnique
<1>5. /\ BaselineIsStored' /\ BaselineIsLatest' /\ PriceIsStored' /\ DropIsKnown'
      /\ PendingQualify' /\ AlertsQualify'
  BY <1>1 DEF DropInv, BaselineIsStored, BaselineIsLatest, PriceIsStored, DropIsKnown,
         PendingQualify, AlertsQualify, Priced, ThisDrop, loop
<1>6. DropsAreReal' /\ DropsDoNotOverlap'
  BY <1>1 DEF DropInv, DropsAreReal, DropsDoNotOverlap
<1> QED
  BY <1>3, <1>4, <1>5, <1>6 DEF DropInv

LEMMA WebStepKeeps ==
  ASSUME TypeInv, DropInv, NEW q \in Request, WebStep(q)
  PROVE  DropInv'
<1>1. ASSUME UNCHANGED <<snaps, drops, alerts, pc, loop, clock>>,
             req'[q].at # "stamped", \A r \in Request \ {q} : req'[r] = req[r]
      PROVE  DropInv'
  BY <1>1, RequestQuiet DEF Holding
<1> USE DEF TypeInv, TypeOK, sweep, env, history
<1>2. ASSUME NEW s \in Sailing, LookupFetches(q, s) PROVE DropInv'
  <2>1. PICK ps : req' = [req EXCEPT ![q] = [NoRequest EXCEPT
                    !.op = "lookup", !.at = "catalog", !.left = ps]]
    BY <1>2 DEF LookupFetches
  <2>2. req'[q].at = "catalog" /\ \A r \in Request \ {q} : req'[r] = req[r]
    BY <2>1, IdleRequest DEF NoRequest
  <2> QED
    BY <1>1, <1>2, <2>2 DEF LookupFetches, db
<1>3. CASE LookupResets(q) \/ LookupRecordFails(q)
  <2>1. req'[q].at = "catalog" /\ \A r \in Request \ {q} : req'[r] = req[r]
    BY <1>3 DEF LookupResets, LookupRecordFails, RequestState
  <2> QED
    BY <1>1, <1>3, <2>1 DEF LookupResets, LookupRecordFails, db
<1>4. ASSUME NEW e \in Endpoint, NEW p \in Product, NEW v \in Device,
             NEW r \in PublicRule, SubscribeTracks(q, e, p, v, r)
      PROVE  DropInv'
  <2>1. req'[q].at = "tracked" /\ \A t \in Request \ {q} : req'[t] = req[t]
    BY <1>4 DEF SubscribeTracks, NoRequest
  <2> QED
    BY <1>1, <1>4, <2>1 DEF SubscribeTracks
<1>5. CASE SubscribeChannel(q)
  <2>1. req'[q].at = "channel" /\ \A r \in Request \ {q} : req'[r] = req[r]
    BY <1>5 DEF SubscribeChannel, RequestState
  <2> QED
    BY <1>1, <1>5, <2>1 DEF SubscribeChannel
<1>6. CASE SubscribeRow(q) \/ RequestEnds(q)
  <2>1. req'[q].at = "free" /\ \A r \in Request \ {q} : req'[r] = req[r]
    BY <1>6, IdleRequest DEF SubscribeRow, RequestEnds, Free
  <2> QED
    BY <1>1, <1>6, <2>1 DEF SubscribeRow, RequestEnds, db
<1> QED
  BY <1>2, <1>3, <1>4, <1>5, <1>6, LookupTracksStep, LookupStoresStep DEF WebStep

LEMMA SweepStepKeeps ==
  ASSUME TypeInv, DropInv, SweepStep
  PROVE  DropInv'
<1>0. clock \in Nat
  BY SweepAssumption DEF TypeInv, TypeOK
<1> USE DEF db, env, history
<1>1. CASE BeginSweep \/ EndSweep
  BY <1>0, <1>1, QuietStep DEF BeginSweep, EndSweep, InTarget
<1>2. ASSUME NEW s \in Sailing,
             SkipPrincess(s) \/ \E r \in {"catalog", "error", "closed"} : FetchGroup(s, r)
      PROVE  DropInv'
  <2>1. CASE SkipPrincess(s)
    BY <1>0, <2>1, QuietStep DEF SkipPrincess
  <2>2. ASSUME NEW r \in {"catalog", "error", "closed"}, FetchGroup(s, r) PROVE DropInv'
    <3>1. pc' \notin InTarget /\ UNCHANGED <<snaps, drops, alerts, req, clock>>
      BY <2>2 DEF FetchGroup, InTarget
    <3> QED
      BY <1>0, <3>1, QuietStep
  <2> QED
    BY <1>2, <2>1, <2>2
<1>3. ASSUME NEW p \in Product, NEW ok \in BOOLEAN, NoteFailure(p, ok) PROVE DropInv'
  <2>1. pc' \notin InTarget
    BY <1>3 DEF NoteFailure, InTarget
  <2> QED
    BY <1>0, <1>3, <2>1, QuietStep DEF NoteFailure
<1>4. CASE StorePriceFails \/ ResetFailuresFails
  BY <1>4, ReturnQuiet DEF StorePriceFails, ResetFailuresFails
<1>5. CASE ResetFailures
  BY <1>5, ReturnQuiet, DetectStep DEF ResetFailures
<1>6. CASE InsertDiff \/ InsertDiffFails
  <2>1. /\ pc \in InDrop /\ pc' \in InDrop /\ pc' \notin {"fanout", "gone"}
        /\ UNCHANGED <<snaps, drops, alerts, req, clock, cur, prev, fetched>>
    BY <1>6 DEF InsertDiff, InsertDiffFails, InDrop, loop
  <2> QED
    BY <1>0, <2>1, QuietStep
<1>7. CASE ListSubscriptions
  <2>1. pc \in InDrop /\ UNCHANGED <<snaps, drops, alerts, req, clock>>
    BY <1>7 DEF ListSubscriptions, InDrop
  <2>2. PICK subs \in {ActiveEndpoints(cur), {}} :
          LET wanted == {e \in subs : Qualifies(ruleOf[e][cur], prev.quote, fetched.quote)}
          IN  IF wanted = {} THEN EndFanOut(subs = {})
              ELSE /\ pc' = "fanout"
                   /\ pending' = {[endpoint |-> e, rule |-> ruleOf[e][cur]] : e \in wanted}
                   /\ UNCHANGED <<cur, prev, fetched, diffId, anySent, dead>>
    BY <1>7 DEF ListSubscriptions
  <2> DEFINE wanted == {e \in subs : Qualifies(ruleOf[e][cur], prev.quote, fetched.quote)}
  <2>3. CASE wanted = {}
    BY <2>1, <2>2, <2>3, FanOutQuiet
  <2>4. CASE wanted # {}
    <3>1. /\ pc' = "fanout"
          /\ pending' = {[endpoint |-> e, rule |-> ruleOf[e][cur]] : e \in wanted}
          /\ UNCHANGED <<cur, prev, fetched>>
      BY <2>2, <2>4
    <3>2. \A x \in pending' : Qualifies(x.rule, prev.quote, fetched.quote)
      <4>1. ASSUME NEW x \in pending'
            PROVE  Qualifies(x.rule, prev.quote, fetched.quote)
        <5>1. PICK e \in wanted : x = [endpoint |-> e, rule |-> ruleOf[e][cur]]
          BY <3>1
        <5>2. x.rule = ruleOf[e][cur]
          BY <5>1
        <5> QED
          BY <5>2
      <4> QED
        BY <4>1
    <3>3. pc' \in InDrop
      BY <3>1 DEF InDrop
    <3> QED
      BY <1>0, <2>1, <3>1, <3>2, <3>3, QuietStep
  <2> QED
    BY <2>3, <2>4
<1>8. ASSUME NEW ok \in BOOLEAN, Deactivate(ok) PROVE DropInv'
  <2>1. CASE pending = {}
    BY <1>8, <2>1, FanOutQuiet DEF Deactivate, InDrop
  <2>2. CASE pending # {}
    <3>1. /\ pc = "gone" /\ pc' = "fanout" /\ UNCHANGED <<cur, prev, fetched, pending>>
          /\ UNCHANGED <<snaps, drops, alerts, req, clock>>
      BY <1>8, <2>2 DEF Deactivate
    <3>2. \A x \in pending : Qualifies(x.rule, prev.quote, fetched.quote)
      BY <3>1 DEF DropInv, PendingQualify
    <3>3. pc \in InDrop /\ pc' \in InDrop
      BY <3>1 DEF InDrop
    <3> QED
      BY <1>0, <3>1, <3>2, <3>3, QuietStep
  <2> QED
    BY <2>1, <2>2
<1>9. ASSUME NEW ok \in BOOLEAN, Mark(ok) PROVE DropInv'
  BY <1>9, ReturnQuiet DEF Mark
<1> QED
  BY <1>1, <1>2, <1>3, <1>4, <1>5, <1>6, <1>7, <1>8, <1>9, ReadStep, StoreStep,
     SendStep DEF SweepStep

LEMMA DropStep == TypeInv /\ DropInv /\ [Next]_vars => DropInv'
<1> SUFFICES ASSUME TypeInv, DropInv, [Next]_vars PROVE DropInv'
  OBVIOUS
<1>0. clock \in Nat
  BY SweepAssumption DEF TypeInv, TypeOK
<1> USE DEF db, sweep, env, history
<1>1. CASE Crash
  BY <1>0, <1>1, QuietStep DEF Crash, InTarget
<1>2. ASSUME NEW v \in Device, NEW e \in Endpoint, NEW p \in Product,
             RemoveSubscription(v, e, p)
      PROVE  DropInv'
  BY <1>0, <1>2, QuietStep DEF RemoveSubscription
<1>3. ASSUME NEW s \in Sailing, Depart(s) PROVE DropInv'
  BY <1>0, <1>3, QuietStep DEF Depart
<1>4. CASE Tick
  BY <1>0, <1>4, QuietStep DEF Tick
<1>5. CASE UNCHANGED vars
  BY <1>0, <1>5, QuietStep DEF vars
<1> QED
  BY <1>1, <1>2, <1>3, <1>4, <1>5, SweepStepKeeps, WebStepKeeps DEF Next

THEOREM DropInvariant == Spec => []DropInv
  BY DropInit, DropStep, TypeInvariant, PTL DEF Spec

(* Every drop the sweep detects is a fall between two stored promotional    *)
(* prices, the earlier one as its baseline.                                 *)
THEOREM PublicDropsAreReal == Spec => []DropsAreReal
<1>1. DropInv => DropsAreReal
  BY DEF DropInv
<1> QED
  BY <1>1, DropInvariant, PTL

(* No fall is detected twice, whatever lookups store meanwhile.             *)
THEOREM NothingDetectedTwice == Spec => []DropsDoNotOverlap
<1>1. DropInv => DropsDoNotOverlap
  BY DEF DropInv
<1> QED
  BY <1>1, DropInvariant, PTL

(* A threshold alert comes once per crossing.                               *)
THEOREM PublicCrossingOnce == Spec => []CrossingOnce
  BY DropsCross, TypeInvariant, DropInvariant, PTL
=============================================================================
