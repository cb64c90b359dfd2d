-------------------------- MODULE PublicSweepProofs --------------------------
(***************************************************************************)
(* Proofs about PublicSweep, for every set of sailings, products,          *)
(* endpoints, devices and requests and every bound.                        *)
(***************************************************************************)
EXTENDS PublicSweep, TLAPS

(* What the sweep holds at each point of sweep_one.                         *)
InTarget == {"read", "stored", "drop", "diffed", "fanout", "gone", "mark"}
InDrop == {"drop", "diffed", "fanout", "gone", "mark"}

HoldsTarget == pc \in InTarget => cur \in Product /\ fetched \in Fetch
HoldsDrop == pc \in InDrop => /\ prev \in Snapshot
                              /\ prev.quote \in Price
                              /\ fetched.quote \in Price
HoldsDiff == pc = "mark" => diffId \in DiffId
HoldsDead == pc = "gone" => dead \in Endpoint
HoldsRules == \A x \in active : ruleOf[x[1]][x[2]] \in PublicRule
HoldsRequest ==
  \A q \in Request :
    /\ req[q].at \in {"stamped", "stored", "tracked", "channel"} =>
         req[q].product \in Product
    /\ req[q].at = "stamped" => req[q].stamp \in Stamp
    /\ req[q].at \in {"tracked", "channel"} =>
         /\ req[q].endpoint \in Endpoint
         /\ req[q].device \in Device
         /\ req[q].rule \in PublicRule

TypeInv ==
  TypeOK /\ HoldsTarget /\ HoldsDrop /\ HoldsDiff /\ HoldsDead /\ HoldsRules
    /\ HoldsRequest

LEMMA IdleRequest ==
  /\ NoRequest \in RequestState
  /\ NoRequest.at = "free"
  /\ NoRequest.product = None
  BY SweepAssumption DEF NoRequest, RequestState, Quote

LEMMA TypeInit == Init => TypeInv
<1> SUFFICES ASSUME Init PROVE TypeInv
  OBVIOUS
<1>1. req \in [Request -> RequestState] /\ HoldsRequest
  BY IdleRequest DEF Init, HoldsRequest
<1>2. failures \in [Product -> 0..MaxFail] /\ crashes \in 0..MaxCrash
  BY SweepAssumption DEF Init
<1>3. active \in SUBSET (Endpoint \X Product)
  BY DEF Init
<1>4. TypeOK
  BY <1>1, <1>2, <1>3, Zenon DEF Init, TypeOK
<1>5. pc = "idle"
  BY DEF Init
<1>6. HoldsRules
  BY DEF Init, HoldsRules
<1> QED
  BY <1>1, <1>4, <1>5, <1>6
     DEF TypeInv, HoldsTarget, HoldsDrop, HoldsDiff, HoldsDead, InTarget, InDrop

(* A request keeps its type when it moves on.                               *)
LEMMA RequestMoves ==
  ASSUME NEW x \in RequestState
  PROVE  /\ [x EXCEPT !.at = "stored"] \in RequestState
         /\ [x EXCEPT !.at = "channel"] \in RequestState
         /\ [x EXCEPT !.at = "catalog", !.product = None, !.quote = NoPrice,
                      !.stamp = 0] \in RequestState
<1>1. 0 \in 0..MaxStamp /\ NoPrice \in Quote
  BY SweepAssumption DEF Quote
<1>2. [x EXCEPT !.at = "stored"] \in RequestState
  BY DEF RequestState
<1>3. [x EXCEPT !.at = "channel"] \in RequestState
  BY DEF RequestState
<1>4. [x EXCEPT !.at = "catalog", !.product = None, !.quote = NoPrice, !.stamp = 0]
        \in RequestState
  BY <1>1 DEF RequestState
<1> QED
  BY <1>2, <1>3, <1>4

LEMMA RequestStamps ==
  ASSUME NEW x \in RequestState, NEW p \in Product, NEW c \in Quote,
         NEW t \in 0..MaxStamp
  PROVE  [x EXCEPT !.at = "stamped", !.left = @ \ {p}, !.product = p,
                   !.quote = c, !.stamp = t] \in RequestState
  BY DEF RequestState

LEMMA RequestStarts ==
  ASSUME NEW ps \in SUBSET Product, NEW p \in Product, NEW e \in Endpoint,
         NEW v \in Device, NEW r \in PublicRule
  PROVE  /\ [NoRequest EXCEPT !.op = "lookup", !.at = "catalog", !.left = ps]
              \in RequestState
         /\ [NoRequest EXCEPT !.op = "subscribe", !.at = "tracked", !.product = p,
               !.endpoint = e, !.device = v, !.rule = r] \in RequestState
  BY IdleRequest DEF RequestState

LEMMA DropType ==
  ASSUME TypeInv, pc \in InDrop
  PROVE  ThisDrop \in Drop
  BY DEF TypeInv, TypeOK, HoldsTarget, HoldsDrop, InDrop, InTarget, ThisDrop, Drop,
         Fetch, Snapshot

(* sweep_one returning, and the end of its fan-out, leave typed memory.     *)
LoopTyped ==
  /\ pc' \in {"groups", "products", "mark"}
  /\ cur' \in Product \cup {None}
  /\ prev' \in Snapshot \cup {None}
  /\ fetched' \in Fetch \cup {None}
  /\ diffId' \in DiffId \cup {None}
  /\ pending' \in SUBSET Target
  /\ anySent' \in BOOLEAN
  /\ dead' \in Endpoint \cup {None}
  /\ pc' = "mark" => /\ diffId' \in DiffId
                     /\ cur' \in Product /\ fetched' \in Fetch
                     /\ prev' \in Snapshot
                     /\ prev'.quote \in Price /\ fetched'.quote \in Price

LEMMA ReturnTyped ==
  ASSUME TypeInv, NextTarget
  PROVE  LoopTyped
  BY DEF NextTarget, Forget, LoopTyped

LEMMA FanOutTyped ==
  ASSUME TypeInv, NEW sent \in BOOLEAN, pc \in InDrop, EndFanOut(sent)
  PROVE  LoopTyped
<1>1. CASE diffId # None /\ sent
  <2>1. pc' = "mark" /\ UNCHANGED loop
    BY <1>1 DEF EndFanOut
  <2>2. /\ cur \in Product /\ fetched \in Fetch /\ prev \in Snapshot
        /\ prev.quote \in Price /\ fetched.quote \in Price
    BY DEF TypeInv, HoldsTarget, HoldsDrop, InTarget, InDrop
  <2>3. diffId \in DiffId
    BY <1>1 DEF TypeInv, TypeOK
  <2> QED
    BY <2>1, <2>2, <2>3 DEF loop, LoopTyped, TypeInv, TypeOK
<1>2. CASE ~(diffId # None /\ sent)
  BY <1>2, ReturnTyped DEF EndFanOut
<1> QED
  BY <1>1, <1>2

(* ... so the invariant holds if what else the step changed is typed.       *)
LEMMA LoopStep ==
  ASSUME TypeInv, LoopTyped, UNCHANGED <<req, clock, crashes, todo, group>>,
         UNCHANGED <<tracked, departed, owner, ruleOf>>,
         snaps' \in SUBSET Snapshot, failures' \in [Product -> 0..MaxFail],
         diffs' \in SUBSET DiffRow, notified' \in SUBSET DiffId,
         active' \subseteq active,
         drops' \in SUBSET Drop, alerts' \in SUBSET Alert,
         acked' \in SUBSET DiffId, nobody' \in SUBSET DiffId,
         seen' \in SUBSET (Endpoint \X Product), gone' \in SUBSET Endpoint
  PROVE  TypeInv'
<1>1. TypeOK'
  BY DEF TypeInv, TypeOK, LoopTyped
<1>2. HoldsTarget' /\ HoldsDrop' /\ HoldsDiff' /\ HoldsDead'
  BY DEF LoopTyped, HoldsTarget, HoldsDrop, HoldsDiff, HoldsDead, InTarget, InDrop
<1>3. HoldsRequest' /\ HoldsRules'
  BY DEF TypeInv, HoldsRequest, HoldsRules
<1> QED
  BY <1>1, <1>2, <1>3 DEF TypeInv

(* The sweep's steps keep the types.                                        *)
LEMMA SweepTypeStep == TypeInv /\ SweepStep => TypeInv'
<1> SUFFICES ASSUME TypeInv, SweepStep PROVE TypeInv'
  OBVIOUS
<1> USE DEF TypeInv, TypeOK, HoldsTarget, HoldsDrop, HoldsDiff, HoldsDead,
            HoldsRules, HoldsRequest, InTarget, InDrop, db, loop, env, history
<1>1. CASE BeginSweep
  BY <1>1 DEF BeginSweep, Targets
<1>2. CASE EndSweep
  BY <1>2 DEF EndSweep
<1>3. ASSUME NEW s \in Sailing, SkipPrincess(s) PROVE TypeInv'
  BY <1>3 DEF SkipPrincess, GroupOf
<1>4. ASSUME NEW s \in Sailing, NEW r \in {"catalog", "error", "closed"},
             FetchGroup(s, r)
      PROVE  TypeInv'
  <2>1. /\ todo' \in SUBSET Product /\ group' \in SUBSET Product
        /\ pc' \in {"products", "failing", "groups"}
    BY <1>4 DEF FetchGroup, GroupOf
  <2> QED
    BY <1>4, <2>1 DEF FetchGroup
<1>5. ASSUME NEW p \in Product, ReadPrevious(p) PROVE TypeInv'
  <2>1. /\ prev' \in Snapshot \cup {None} /\ fetched' \in Fetch
        /\ clock' \in 0..MaxStamp
    BY <1>5, SweepAssumption DEF ReadPrevious, Latest, SnapsOf, Fetch, Stamp
  <2> QED
    BY <1>5, <2>1 DEF ReadPrevious
<1>6. ASSUME NEW p \in Product, NEW ok \in BOOLEAN, NoteFailure(p, ok) PROVE TypeInv'
  <2>1. failures' \in [Product -> 0..MaxFail]
    BY <1>6, SweepAssumption DEF NoteFailure
  <2> QED
    BY <1>6, <2>1 DEF NoteFailure
<1>7. CASE StorePrice
  <2>1. [product |-> cur, stamp |-> fetched.stamp, quote |-> fetched.quote] \in Snapshot
    BY <1>7 DEF StorePrice, Snapshot, Fetch
  <2> QED
    BY <1>7, <2>1 DEF StorePrice
<1>8. CASE StorePriceFails \/ ResetFailuresFails
  <2>1. NextTarget
    BY <1>8 DEF StorePriceFails, ResetFailuresFails
  <2> QED
    BY <1>8, <2>1, ReturnTyped, LoopStep DEF StorePriceFails, ResetFailuresFails
<1>9. CASE ResetFailures
  <2>1. failures' \in [Product -> 0..MaxFail]
    BY <1>9, SweepAssumption DEF ResetFailures
  <2>2. CASE IsDrop(prev, fetched)
    <3>1. /\ prev \in Snapshot /\ prev.quote \in Price /\ fetched.quote \in Price
          /\ cur \in Product /\ fetched \in Fetch
      BY <1>9, <2>2 DEF ResetFailures, IsDrop, Snapshot, Fetch, Quote
    <3>2. ThisDrop \in Drop
      BY <3>1 DEF ThisDrop, Drop, Snapshot, Fetch
    <3> QED
      BY <1>9, <2>1, <2>2, <3>1, <3>2 DEF ResetFailures
  <2>3. CASE ~IsDrop(prev, fetched)
    BY <1>9, <2>1, <2>3, ReturnTyped, LoopStep DEF ResetFailures
  <2> QED
    BY <2>2, <2>3
<1>10. CASE InsertDiff
  <2>1. PICK d \in DiffId : /\ diffs' = diffs \cup {[id |-> d, drop |-> ThisDrop]}
                            /\ diffId' = d
    BY <1>10 DEF InsertDiff
  <2>2. diffs' \in SUBSET DiffRow
    BY <1>10, <2>1, DropType DEF InsertDiff, DiffRow
  <2> QED
    BY <1>10, <2>1, <2>2 DEF InsertDiff
<1>11. CASE InsertDiffFails
  BY <1>11 DEF InsertDiffFails
<1>12. CASE ListSubscriptions
  <2>1. PICK subs \in {ActiveEndpoints(cur), {}} :
          LET wanted == {e \in subs : Qualifies(ruleOf[e][cur], prev.quote, fetched.quote)}
          IN
          /\ nobody' = IF wanted = {} /\ diffId # None THEN nobody \cup {diffId} ELSE nobody
          /\ IF wanted = {} THEN EndFanOut(subs = {})
             ELSE /\ pc' = "fanout"
                  /\ pending' = {[endpoint |-> e, rule |-> ruleOf[e][cur]] : e \in wanted}
                  /\ UNCHANGED <<cur, prev, fetched, diffId, anySent, dead>>
    BY <1>12 DEF ListSubscriptions
  <2> DEFINE wanted == {e \in subs : Qualifies(ruleOf[e][cur], prev.quote, fetched.quote)}
  <2>2. pc = "diffed" /\ cur \in Product
    BY <1>12 DEF ListSubscriptions
  <2>3. nobody' \in SUBSET DiffId
    BY <2>1
  <2>4. CASE wanted = {}
    <3>1. EndFanOut(subs = {})
      BY <2>1, <2>4
    <3>2. LoopTyped
      BY <2>2, <3>1, FanOutTyped
    <3> QED
      BY <1>12, <2>3, <3>2, LoopStep DEF ListSubscriptions
  <2>5. CASE wanted # {}
    <3>1. /\ pc' = "fanout"
          /\ pending' = {[endpoint |-> e, rule |-> ruleOf[e][cur]] : e \in wanted}
          /\ UNCHANGED <<cur, prev, fetched, diffId, anySent, dead>>
      BY <2>1, <2>5
    <3>2. wanted \subseteq {e \in Endpoint : <<e, cur>> \in active}
      BY DEF ActiveEndpoints
    <3>3. pending' \in SUBSET Target
      <4>1. ASSUME NEW e \in wanted
            PROVE  [endpoint |-> e, rule |-> ruleOf[e][cur]] \in Target
        <5>1. e \in Endpoint /\ <<e, cur>> \in active
          BY <3>2
        <5>2. ruleOf[e][cur] \in PublicRule
          BY <5>1
        <5> QED
          BY <5>1, <5>2 DEF Target
      <4> HIDE DEF wanted
      <4> QED
        BY <3>1, <4>1
    <3> QED
      BY <1>12, <2>2, <2>3, <3>1, <3>3 DEF ListSubscriptions
  <2> QED
    BY <2>4, <2>5
<1>13. ASSUME NEW x \in pending, NEW outcome \in {"ok", "gone", "error"},
              Send(x, outcome)
       PROVE  TypeInv'
  <2>1. pc = "fanout" /\ x \in Target
    BY <1>13 DEF Send
  <2>2. alerts' \in SUBSET Alert
    <3>1. ThisDrop \in Drop
      BY <2>1, DropType
    <3>2. [endpoint |-> x.endpoint, rule |-> x.rule, drop |-> ThisDrop] \in Alert
      BY <2>1, <3>1 DEF Target, Alert
    <3> QED
      BY <1>13, <3>2 DEF Send
  <2>3. acked' \in SUBSET DiffId
    BY <1>13 DEF Send
  <2>4. CASE outcome = "gone"
    <3>1. dead' \in Endpoint
      BY <1>13, <2>1, <2>4 DEF Send, Target
    <3> QED
      BY <1>13, <2>1, <2>2, <2>3, <2>4, <3>1 DEF Send
  <2>5. CASE outcome # "gone" /\ pending = {x}
    <3>1. EndFanOut(anySent \/ outcome = "ok") /\ (anySent \/ outcome = "ok") \in BOOLEAN
      BY <1>13, <2>5 DEF Send
    <3>2. LoopTyped
      BY <2>1, <3>1, FanOutTyped
    <3> QED
      BY <1>13, <2>2, <2>3, <3>2, LoopStep DEF Send
  <2>6. CASE outcome # "gone" /\ pending # {x}
    BY <1>13, <2>1, <2>2, <2>3, <2>6 DEF Send
  <2> QED
    BY <2>4, <2>5, <2>6
<1>14. ASSUME NEW ok \in BOOLEAN, Deactivate(ok) PROVE TypeInv'
  <2>1. active' \subseteq active /\ gone' \in SUBSET Endpoint
    BY <1>14 DEF Deactivate
  <2>2. CASE pending = {}
    <3>1. LoopTyped
      BY <1>14, <2>2, FanOutTyped DEF Deactivate
    <3> QED
      BY <1>14, <2>1, <3>1, LoopStep DEF Deactivate
  <2>3. CASE pending # {}
    BY <1>14, <2>1, <2>3 DEF Deactivate
  <2> QED
    BY <2>2, <2>3
<1>15. ASSUME NEW ok \in BOOLEAN, Mark(ok) PROVE TypeInv'
  <2>1. notified' \in SUBSET DiffId /\ NextTarget
    BY <1>15 DEF Mark
  <2> QED
    BY <1>15, <2>1, ReturnTyped, LoopStep DEF Mark
<1> QED
  BY <1>1, <1>2, <1>3, <1>4, <1>5, <1>6, <1>7, <1>8, <1>9, <1>10, <1>11, <1>12,
     <1>13, <1>14, <1>15 DEF SweepStep

(* The web handlers' steps keep the types.                                  *)
LEMMA WebTypeStep == ASSUME NEW q \in Request, TypeInv, WebStep(q) PROVE TypeInv'
<1> USE DEF TypeInv, TypeOK, HoldsTarget, HoldsDrop, HoldsDiff, HoldsDead,
            HoldsRules, HoldsRequest, db, sweep, loop, env, history
<1>0. req[q] \in RequestState
  OBVIOUS
<1>1. ASSUME NEW s \in Sailing, LookupFetches(q, s) PROVE TypeInv'
  <2>1. PICK ps \in SUBSET Product :
          req' = [req EXCEPT ![q] = [NoRequest EXCEPT
                    !.op = "lookup", !.at = "catalog", !.left = ps]]
    BY <1>1 DEF LookupFetches, ProductsOf
  <2>2. [NoRequest EXCEPT !.op = "lookup", !.at = "catalog", !.left = ps]
          \in RequestState
    BY IdleRequest DEF RequestState
  <2>3. req' \in [Request -> RequestState] /\ req'[q].at = "catalog"
    BY <2>1, <2>2, IdleRequest DEF RequestState
  <2>4. HoldsRequest'
    BY <2>1, <2>3
  <2> QED
    BY <1>1, <2>3, <2>4 DEF LookupFetches
<1>2. ASSUME NEW p \in Product, LookupTracks(q, p) PROVE TypeInv'
  <2>1. PICK c \in Quote :
          req' = [req EXCEPT ![q].at = "stamped", ![q].left = @ \ {p},
                    ![q].product = p, ![q].quote = c, ![q].stamp = clock + 1]
    BY <1>2 DEF LookupTracks
  <2>2. clock' \in 0..MaxStamp /\ clock + 1 \in Stamp /\ clock + 1 \in 0..MaxStamp
    BY <1>2, SweepAssumption DEF LookupTracks, Stamp
  <2>3. [req[q] EXCEPT !.at = "stamped", !.left = @ \ {p}, !.product = p,
                       !.quote = c, !.stamp = clock + 1] \in RequestState
    BY <1>0, <2>2, RequestStamps
  <2>4. req' \in [Request -> RequestState]
    BY <2>1, <2>3
  <2>5. HoldsRequest'
    BY <1>0, <2>1, <2>2 DEF RequestState
  <2>6. tracked' \in SUBSET Product
    BY <1>2 DEF LookupTracks
  <2>7. UNCHANGED <<departed, snaps, failures, diffs, notified, owner, ruleOf, active,
                    sweep, crashes, history>>
    BY <1>2 DEF LookupTracks
  <2>8. TypeOK'
    BY <2>2, <2>4, <2>6, <2>7
  <2>9. HoldsTarget' /\ HoldsDrop' /\ HoldsDiff' /\ HoldsDead' /\ HoldsRules'
    BY <2>7
  <2> QED
    BY <2>5, <2>8, <2>9
<1>3. CASE LookupStores(q)
  <2>1. [product |-> req[q].product, stamp |-> req[q].stamp, quote |-> req[q].quote]
          \in Snapshot
    BY <1>0, <1>3 DEF LookupStores, Snapshot, RequestState
  <2>2. req' \in [Request -> RequestState]
    BY <1>0, <1>3, RequestMoves DEF LookupStores
  <2>3. HoldsRequest'
    BY <1>0, <1>3 DEF LookupStores, RequestState
  <2> QED
    BY <1>3, <2>1, <2>2, <2>3 DEF LookupStores
<1>4. CASE LookupResets(q) \/ LookupRecordFails(q)
  <2>1. req' \in [Request -> RequestState]
    BY <1>0, <1>4, RequestMoves DEF LookupResets, LookupRecordFails
  <2>2. HoldsRequest'
    <3>1. /\ req'[q].at = "catalog"
          /\ \A r \in Request \ {q} : req'[r] = req[r]
      BY <1>0, <1>4 DEF LookupResets, LookupRecordFails, RequestState
    <3> QED
      BY <3>1
  <2>3. failures' \in [Product -> 0..MaxFail]
    BY <1>4, SweepAssumption DEF LookupResets, LookupRecordFails
  <2> QED
    BY <1>4, <2>1, <2>2, <2>3 DEF LookupResets, LookupRecordFails
<1>5. ASSUME NEW e \in Endpoint, NEW p \in Product, NEW v \in Device,
             NEW r \in PublicRule, SubscribeTracks(q, e, p, v, r)
      PROVE  TypeInv'
  <2> DEFINE start == [NoRequest EXCEPT
                !.op = "subscribe", !.at = "tracked", !.product = p,
                !.endpoint = e, !.device = v, !.rule = r]
  <2>1. start \in RequestState
    BY RequestStarts
  <2>2. /\ start.at = "tracked" /\ start.product = p /\ start.endpoint = e
        /\ start.device = v /\ start.rule = r
    BY IdleRequest DEF RequestState
  <2>3. req' = [req EXCEPT ![q] = start]
    BY <1>5 DEF SubscribeTracks
  <2> HIDE DEF start
  <2>4. req' \in [Request -> RequestState] /\ HoldsRequest'
    BY <2>1, <2>2, <2>3
  <2> QED
    BY <1>5, <2>4 DEF SubscribeTracks
<1>6. CASE SubscribeChannel(q)
  <2>1. req' \in [Request -> RequestState]
    BY <1>0, <1>6, RequestMoves DEF SubscribeChannel
  <2>2. HoldsRequest'
    BY <1>0, <1>6 DEF SubscribeChannel, RequestState
  <2>3. owner' \in [Endpoint -> Device \cup {None}]
    BY <1>6 DEF SubscribeChannel, RequestState
  <2> QED
    BY <1>6, <2>1, <2>2, <2>3 DEF SubscribeChannel
<1>7. CASE SubscribeRow(q)
  <2> DEFINE e == req[q].endpoint
             p == req[q].product
  <2>1. e \in Endpoint /\ p \in Product /\ req[q].rule \in PublicRule
    BY <1>7 DEF SubscribeRow
  <2>2. /\ ruleOf' = [ruleOf EXCEPT ![e] = [ruleOf[e] EXCEPT ![p] = req[q].rule]]
        /\ active' = active \cup {<<e, p>>}
        /\ seen' = seen \cup {<<e, p>>}
        /\ gone' = gone \ {e}
        /\ req' = [req EXCEPT ![q] = NoRequest]
    BY <1>7 DEF SubscribeRow, Free
  <2> HIDE DEF e, p
  <2>3. ruleOf' \in [Endpoint -> [Product -> PublicRule \cup {None}]]
    BY <2>1, <2>2
  <2>4. HoldsRules'
    BY <2>1, <2>2
  <2>5. req' \in [Request -> RequestState] /\ HoldsRequest'
    BY <2>2, IdleRequest
  <2> QED
    BY <1>7, <2>1, <2>2, <2>3, <2>4, <2>5 DEF SubscribeRow
<1>8. CASE RequestEnds(q)
  <2>1. req' \in [Request -> RequestState] /\ HoldsRequest'
    BY <1>8, IdleRequest DEF RequestEnds, Free
  <2> QED
    BY <1>8, <2>1 DEF RequestEnds
<1> QED
  BY <1>1, <1>2, <1>3, <1>4, <1>5, <1>6, <1>7, <1>8 DEF WebStep

LEMMA TypeStep == TypeInv /\ [Next]_vars => TypeInv'
<1> SUFFICES ASSUME TypeInv, [Next]_vars PROVE TypeInv'
  OBVIOUS
<1> USE DEF TypeInv, TypeOK, HoldsTarget, HoldsDrop, HoldsDiff, HoldsDead,
            HoldsRules, HoldsRequest, InTarget, InDrop, db, sweep, loop, env, history
<1>1. CASE Crash
  <2>1. crashes' \in 0..MaxCrash
    BY <1>1, SweepAssumption DEF Crash
  <2> QED
    BY <1>1, <2>1 DEF Crash, Forget
<1>2. ASSUME NEW v \in Device, NEW e \in Endpoint, NEW p \in Product,
             RemoveSubscription(v, e, p)
      PROVE  TypeInv'
  BY <1>2 DEF RemoveSubscription
<1>3. ASSUME NEW s \in Sailing, Depart(s) PROVE TypeInv'
  BY <1>3 DEF Depart
<1>4. CASE Tick
  <2>1. clock' \in 0..MaxStamp
    BY <1>4, SweepAssumption DEF Tick
  <2> QED
    BY <1>4, <2>1 DEF Tick
<1>5. CASE UNCHANGED vars
  BY <1>5 DEF vars
<1> QED
  BY <1>1, <1>2, <1>3, <1>4, <1>5, SweepTypeStep, WebTypeStep DEF Next

THEOREM TypeInvariant == Spec => []TypeInv
  BY TypeInit, TypeStep, PTL DEF Spec

(* Every variable of the sweep, the requests and the tables has its type,   *)
(* for every set of sailings, products and endpoints.                       *)
THEOREM PublicTypeCorrect == Spec => []TypeOK
<1>1. TypeInv => TypeOK
  BY DEF TypeInv
<1> QED
  BY <1>1, TypeInvariant, PTL
-----------------------------------------------------------------------------
(* Marks.  any_sent is lowered before the diff is inserted, so while it is  *)
(* raised it speaks of the diff at hand; the mark waits for it, or for an   *)
(* empty listing.                                                           *)
SentIsThisDiff == pc \notin {"fanout", "gone", "mark"} => ~anySent
SentIsAcked == anySent /\ diffId # None => diffId \in acked
MarkIsDue == pc = "mark" => diffId \in acked \cup nobody

MarkInv == SentIsThisDiff /\ SentIsAcked /\ MarkIsDue /\ MarksAreHonest

LEMMA MarkInit == Init => MarkInv
  BY DEF Init, MarkInv, SentIsThisDiff, SentIsAcked, MarkIsDue, MarksAreHonest

LEMMA MarkQuiet ==
  ASSUME MarkInv, UNCHANGED <<diffId, notified, acked, nobody>>,
         \/ pc' \notin {"fanout", "gone", "mark"} /\ ~anySent'
         \/ UNCHANGED <<pc, anySent>>
  PROVE  MarkInv'
  BY DEF MarkInv, SentIsThisDiff, SentIsAcked, MarkIsDue, MarksAreHonest

(* sweep_one returns.                                                       *)
LEMMA MarkReturn ==
  ASSUME NextTarget, notified' \subseteq acked' \cup nobody'
  PROVE  MarkInv'
  BY DEF NextTarget, Forget, MarkInv, SentIsThisDiff, SentIsAcked, MarkIsDue,
         MarksAreHonest

LEMMA MarkStep == TypeInv /\ MarkInv /\ [Next]_vars => MarkInv'
<1> SUFFICES ASSUME TypeInv, MarkInv, [Next]_vars PROVE MarkInv'
  OBVIOUS
<1>0. /\ anySent \in BOOLEAN
      /\ pc \notin {"fanout", "gone", "mark"} => ~anySent
      /\ anySent /\ diffId # None => diffId \in acked
      /\ pc = "mark" => diffId \in acked \cup nobody
      /\ notified \subseteq acked \cup nobody
  BY DEF TypeInv, TypeOK, MarkInv, SentIsThisDiff, SentIsAcked, MarkIsDue, MarksAreHonest
<1> USE DEF db, sweep, loop, env, history
<1>1. CASE BeginSweep
  BY <1>0, <1>1, MarkQuiet DEF BeginSweep
<1>2. CASE EndSweep
  BY <1>0, <1>2, MarkQuiet DEF EndSweep
<1>3. ASSUME NEW s \in Sailing, SkipPrincess(s) PROVE MarkInv'
  BY <1>3, MarkQuiet DEF SkipPrincess
<1>4. ASSUME NEW s \in Sailing, NEW r \in {"catalog", "error", "closed"}, FetchGroup(s, r)
      PROVE  MarkInv'
  <2>1. pc = "groups" /\ UNCHANGED <<anySent, diffId, notified, acked, nobody>>
    BY <1>4 DEF FetchGroup
  <2>2. pc' \in {"groups", "products", "failing"}
    BY <1>4 DEF FetchGroup
  <2> QED
    BY <1>0, <2>1, <2>2, MarkQuiet
<1>5. ASSUME NEW p \in Product, NEW ok \in BOOLEAN, NoteFailure(p, ok) PROVE MarkInv'
  BY <1>0, <1>5, MarkQuiet DEF NoteFailure
<1>6. ASSUME NEW p \in Product, ReadPrevious(p) PROVE MarkInv'
  BY <1>0, <1>6, MarkQuiet DEF ReadPrevious
<1>7. CASE StorePrice
  BY <1>0, <1>7, MarkQuiet DEF StorePrice
<1>8. CASE StorePriceFails
  BY <1>0, <1>8, MarkReturn DEF StorePriceFails
<1>9. CASE ResetFailures
  <2>1. CASE IsDrop(prev, fetched)
    BY <1>0, <1>9, <2>1, MarkQuiet DEF ResetFailures
  <2>2. CASE ~IsDrop(prev, fetched)
    BY <1>0, <1>9, <2>2, MarkReturn DEF ResetFailures
  <2> QED
    BY <2>1, <2>2
<1>10. CASE ResetFailuresFails
  BY <1>0, <1>10, MarkReturn DEF ResetFailuresFails
<1>11. CASE InsertDiff
  BY <1>0, <1>11 DEF InsertDiff, MarkInv, SentIsThisDiff, SentIsAcked, MarkIsDue,
                     MarksAreHonest
<1>12. CASE InsertDiffFails
  BY <1>0, <1>12, MarkQuiet DEF InsertDiffFails
<1>13. CASE ListSubscriptions
  <2>1. PICK subs \in {ActiveEndpoints(cur), {}} :
          LET wanted == {e \in subs : Qualifies(ruleOf[e][cur], prev.quote, fetched.quote)}
          IN
          /\ nobody' = IF wanted = {} /\ diffId # None THEN nobody \cup {diffId} ELSE nobody
          /\ IF wanted = {} THEN EndFanOut(subs = {})
             ELSE pc' = "fanout" /\ UNCHANGED <<diffId, anySent>>
    BY <1>13 DEF ListSubscriptions
  <2> DEFINE wanted == {e \in subs : Qualifies(ruleOf[e][cur], prev.quote, fetched.quote)}
  <2>2. pc = "diffed" /\ UNCHANGED <<notified, acked>>
    BY <1>13 DEF ListSubscriptions
  <2>3. notified' \subseteq acked' \cup nobody'
    BY <1>0, <2>1, <2>2
  <2>4. CASE wanted # {}
    BY <1>0, <2>1, <2>2, <2>3, <2>4
       DEF MarkInv, SentIsThisDiff, SentIsAcked, MarkIsDue, MarksAreHonest
  <2>5. CASE wanted = {} /\ diffId # None /\ subs = {}
    <3>1. nobody' = nobody \cup {diffId} /\ pc' = "mark" /\ UNCHANGED <<diffId, anySent>>
      BY <2>1, <2>5 DEF EndFanOut
    <3> QED
      BY <1>0, <2>2, <2>3, <3>1
         DEF MarkInv, SentIsThisDiff, SentIsAcked, MarkIsDue, MarksAreHonest
  <2>6. CASE wanted = {} /\ ~(diffId # None /\ subs = {})
    BY <2>1, <2>3, <2>6, MarkReturn DEF EndFanOut
  <2> QED
    BY <2>4, <2>5, <2>6
<1>14. ASSUME NEW x \in pending, NEW outcome \in {"ok", "gone", "error"}, Send(x, outcome)
       PROVE  MarkInv'
  <2>1. /\ pc = "fanout" /\ UNCHANGED <<notified, nobody>>
        /\ acked' = IF outcome = "ok" /\ diffId # None THEN acked \cup {diffId} ELSE acked
    BY <1>14 DEF Send
  <2>2. notified' \subseteq acked' \cup nobody'
    BY <1>0, <2>1
  <2>3. diffId # None /\ (anySent \/ outcome = "ok") => diffId \in acked'
    BY <1>0, <2>1
  <2>4. CASE outcome = "gone"
    BY <1>0, <1>14, <2>1, <2>2, <2>3, <2>4
       DEF Send, MarkInv, SentIsThisDiff, SentIsAcked, MarkIsDue, MarksAreHonest
  <2>5. CASE outcome # "gone" /\ pending = {x}
    <3>1. EndFanOut(anySent \/ outcome = "ok")
      BY <1>14, <2>5 DEF Send
    <3>2. CASE diffId # None /\ (anySent \/ outcome = "ok")
      BY <2>2, <2>3, <3>1, <3>2
         DEF EndFanOut, MarkInv, SentIsThisDiff, SentIsAcked, MarkIsDue, MarksAreHonest
    <3>3. CASE ~(diffId # None /\ (anySent \/ outcome = "ok"))
      BY <2>2, <3>1, <3>3, MarkReturn DEF EndFanOut
    <3> QED
      BY <3>2, <3>3
  <2>6. CASE outcome # "gone" /\ pending # {x}
    <3>1. anySent' = (anySent \/ outcome = "ok") /\ pc' = "fanout" /\ diffId' = diffId
      BY <1>14, <2>1, <2>6 DEF Send
    <3> QED
      BY <2>2, <2>3, <3>1
         DEF MarkInv, SentIsThisDiff, SentIsAcked, MarkIsDue, MarksAreHonest
  <2> QED
    BY <2>4, <2>5, <2>6
<1>15. ASSUME NEW ok \in BOOLEAN, Deactivate(ok) PROVE MarkInv'
  <2>1. pc = "gone" /\ UNCHANGED <<notified, acked, nobody>>
    BY <1>15 DEF Deactivate
  <2>2. CASE pending # {}
    BY <1>0, <1>15, <2>1, <2>2
       DEF Deactivate, MarkInv, SentIsThisDiff, SentIsAcked, MarkIsDue, MarksAreHonest
  <2>3. CASE pending = {} /\ diffId # None /\ anySent
    BY <1>0, <1>15, <2>1, <2>3
       DEF Deactivate, EndFanOut, MarkInv, SentIsThisDiff, SentIsAcked, MarkIsDue,
           MarksAreHonest
  <2>4. CASE pending = {} /\ ~(diffId # None /\ anySent)
    BY <1>0, <1>15, <2>1, <2>4, MarkReturn DEF Deactivate, EndFanOut
  <2> QED
    BY <2>2, <2>3, <2>4
<1>16. ASSUME NEW ok \in BOOLEAN, Mark(ok) PROVE MarkInv'
  BY <1>0, <1>16, MarkReturn DEF Mark
<1>17. CASE Crash
  BY <1>0, <1>17 DEF Crash, Forget, MarkInv, SentIsThisDiff, SentIsAcked, MarkIsDue,
                     MarksAreHonest
<1>18. ASSUME NEW q \in Request, WebStep(q) PROVE MarkInv'
  <2>1. UNCHANGED <<pc, anySent, diffId, notified, acked, nobody>>
    BY <1>18 DEF WebStep, LookupFetches, LookupTracks, LookupStores, LookupResets,
                 LookupRecordFails, SubscribeTracks, SubscribeChannel, SubscribeRow,
                 RequestEnds
  <2> QED
    BY <2>1, MarkQuiet
<1>19. ASSUME NEW v \in Device, NEW e \in Endpoint, NEW p \in Product,
              RemoveSubscription(v, e, p)
       PROVE  MarkInv'
  BY <1>19, MarkQuiet DEF RemoveSubscription
<1>20. ASSUME NEW s \in Sailing, Depart(s) PROVE MarkInv'
  BY <1>20, MarkQuiet DEF Depart
<1>21. CASE Tick
  BY <1>21, MarkQuiet DEF Tick
<1>22. CASE UNCHANGED vars
  BY <1>22, MarkQuiet DEF vars
<1> QED
  BY <1>1, <1>2, <1>3, <1>4, <1>5, <1>6, <1>7, <1>8, <1>9, <1>10, <1>11, <1>12,
     <1>13, <1>14, <1>15, <1>16, <1>17, <1>18, <1>19, <1>20, <1>21, <1>22
     DEF Next, SweepStep

(* A diff is marked as notified only after somebody acknowledged an alert   *)
(* of it, or when the listing had nobody to reach.                          *)
THEOREM PublicMarksAreHonest == Spec => []MarksAreHonest
<1>1. MarkInv => MarksAreHonest
  BY DEF MarkInv
<1> QED
  BY <1>1, MarkInit, MarkStep, TypeInvariant, PTL DEF Spec
-----------------------------------------------------------------------------
(* Who may be alerted.  What is active was seen active since the product    *)
(* was taken up, and is not gone; whoever is pending was active when listed *)
(* and is pending once, so deactivating the dead one leaves nobody gone.    *)
ActiveIsSeen == pc \in InTarget => active \subseteq seen
ActiveIsNotGone == \A x \in active : x[1] \notin gone
PendingIsSeen == pc \in {"fanout", "gone"} => \A x \in pending : <<x.endpoint, cur>> \in seen
PendingIsNotGone == pc \in {"fanout", "gone"} => \A x \in pending : x.endpoint \notin gone
PendingOnce == pc \in {"fanout", "gone"} =>
  \A x, y \in pending : x.endpoint = y.endpoint => x = y
DeadIsNotPending == pc = "gone" => \A x \in pending : x.endpoint # dead

WantInv ==
  /\ ActiveIsSeen /\ ActiveIsNotGone /\ PendingIsSeen /\ PendingIsNotGone
  /\ PendingOnce /\ DeadIsNotPending

LEMMA WantInit == Init => WantInv
  BY DEF Init, WantInv, ActiveIsSeen, ActiveIsNotGone, PendingIsSeen, PendingIsNotGone,
         PendingOnce, DeadIsNotPending, InTarget

(* A step that leaves the subscriptions alone and is not part of a fan-out. *)
LEMMA WantQuiet ==
  ASSUME WantInv, UNCHANGED <<active, seen, gone>>,
         \/ pc' \in InTarget => pc \in InTarget /\ pc' \notin {"fanout", "gone"}
         \/ UNCHANGED <<pc, cur, pending, dead>>
  PROVE  WantInv'
  BY DEF WantInv, ActiveIsSeen, ActiveIsNotGone, PendingIsSeen, PendingIsNotGone,
         PendingOnce, DeadIsNotPending, InTarget

(* The fan-out ends.                                                        *)
LEMMA WantEnds ==
  ASSUME WantInv, UNCHANGED <<active, seen, gone>>, pc \in InTarget,
         NEW sent, EndFanOut(sent)
  PROVE  WantInv'
<1>1. pc' \in {"mark", "groups", "products"}
  BY DEF EndFanOut, NextTarget
<1> QED
  BY <1>1, WantQuiet DEF InTarget

LEMMA WantReturns ==
  ASSUME WantInv, UNCHANGED <<active, seen, gone>>, NextTarget
  PROVE  WantInv'
<1>1. pc' \in {"groups", "products"}
  BY DEF NextTarget
<1> QED
  BY <1>1, WantQuiet DEF InTarget

LEMMA WantListed ==
  ASSUME WantInv, ListSubscriptions
  PROVE  WantInv'
<1>1. PICK subs \in {ActiveEndpoints(cur), {}} :
        LET wanted == {e \in subs : Qualifies(ruleOf[e][cur], prev.quote, fetched.quote)}
        IN
        IF wanted = {} THEN EndFanOut(subs = {})
        ELSE /\ pc' = "fanout" /\ cur' = cur
             /\ pending' = {[endpoint |-> e, rule |-> ruleOf[e][cur]] : e \in wanted}
  BY DEF ListSubscriptions
<1> DEFINE wanted == {e \in subs : Qualifies(ruleOf[e][cur], prev.quote, fetched.quote)}
<1>2. pc = "diffed" /\ UNCHANGED <<active, seen, gone>>
  BY DEF ListSubscriptions, db
<1>3. CASE wanted = {}
  BY <1>1, <1>2, <1>3, WantEnds DEF InTarget
<1>4. CASE wanted # {}
  <2>1. /\ pc' = "fanout" /\ cur' = cur
        /\ pending' = {[endpoint |-> e, rule |-> ruleOf[e][cur]] : e \in wanted}
    BY <1>1, <1>4
  <2>2. \A e \in wanted : <<e, cur>> \in active
    BY <1>1 DEF ActiveEndpoints
  <2>3. \A e \in wanted : <<e, cur>> \in seen /\ e \notin gone
    BY <1>2, <2>2 DEF WantInv, ActiveIsSeen, ActiveIsNotGone, InTarget
  <2>4. \A x \in pending' : \E e \in wanted :
          x.endpoint = e /\ x = [endpoint |-> e, rule |-> ruleOf[e][cur]]
    BY <2>1
  <2> HIDE DEF wanted
  <2>5. PendingOnce'
    <3>1. \A x, y \in pending' : x.endpoint = y.endpoint => x = y
      BY <2>4
    <3> QED
      BY <3>1 DEF PendingOnce
  <2>6. PendingIsSeen' /\ PendingIsNotGone' /\ DeadIsNotPending'
    BY <1>2, <2>1, <2>3, <2>4 DEF PendingIsSeen, PendingIsNotGone, DeadIsNotPending
  <2>7. ActiveIsSeen' /\ ActiveIsNotGone'
    BY <1>2, <2>1 DEF WantInv, ActiveIsSeen, ActiveIsNotGone, InTarget
  <2> QED
    BY <2>5, <2>6, <2>7 DEF WantInv
<1> QED
  BY <1>3, <1>4

LEMMA WantSent ==
  ASSUME WantInv, NEW x \in pending, NEW outcome \in {"ok", "gone", "error"},
         Send(x, outcome)
  PROVE  WantInv'
<1>1. pc = "fanout" /\ UNCHANGED <<active, seen, gone>>
  BY DEF Send, db
<1>2. CASE outcome = "gone"
  <2>1. pc' = "gone" /\ dead' = x.endpoint /\ pending' = pending \ {x} /\ cur' = cur
    BY <1>2 DEF Send
  <2> QED
    BY <1>1, <2>1 DEF WantInv, ActiveIsSeen, ActiveIsNotGone, PendingIsSeen,
                      PendingIsNotGone, PendingOnce, DeadIsNotPending, InTarget
<1>3. CASE outcome # "gone" /\ pending = {x}
  BY <1>1, <1>3, WantEnds DEF Send, InTarget
<1>4. CASE outcome # "gone" /\ pending # {x}
  <2>1. pc' = pc /\ pending' = pending \ {x} /\ cur' = cur
    BY <1>4 DEF Send
  <2> QED
    BY <1>1, <2>1 DEF WantInv, ActiveIsSeen, ActiveIsNotGone, PendingIsSeen,
                      PendingIsNotGone, PendingOnce, DeadIsNotPending, InTarget
<1> QED
  BY <1>2, <1>3, <1>4

LEMMA WantDeactivated ==
  ASSUME WantInv, NEW ok \in BOOLEAN, Deactivate(ok)
  PROVE  WantInv'
<1>1. /\ pc = "gone" /\ UNCHANGED seen
      /\ active' = IF ok THEN {x \in active : x[1] # dead} ELSE active
      /\ gone' = IF ok THEN gone \cup {dead} ELSE gone
  BY DEF Deactivate
<1>2. active' \subseteq active /\ active \subseteq seen'
  BY <1>1 DEF WantInv, ActiveIsSeen, InTarget
<1>3. ActiveIsSeen' /\ ActiveIsNotGone'
  BY <1>1, <1>2 DEF WantInv, ActiveIsSeen, ActiveIsNotGone
<1>4. CASE pending = {}
  <2>1. pc' \in {"mark", "groups", "products"}
    BY <1>4 DEF Deactivate, EndFanOut, NextTarget
  <2> QED
    BY <1>3, <2>1 DEF WantInv, PendingIsSeen, PendingIsNotGone, PendingOnce,
                      DeadIsNotPending
<1>5. CASE pending # {}
  <2>1. pc' = "fanout" /\ UNCHANGED <<cur, pending>>
    BY <1>5 DEF Deactivate
  <2> QED
    BY <1>1, <1>3, <2>1 DEF WantInv, PendingIsSeen, PendingIsNotGone, PendingOnce,
                            DeadIsNotPending
<1> QED
  BY <1>4, <1>5

LEMMA WantWeb ==
  ASSUME WantInv, NEW q \in Request, WebStep(q)
  PROVE  WantInv'
<1>1. CASE SubscribeRow(q)
  <2> DEFINE e == req[q].endpoint
             p == req[q].product
  <2>1. /\ active' = active \cup {<<e, p>>} /\ seen' = seen \cup {<<e, p>>}
        /\ gone' = gone \ {e} /\ UNCHANGED <<pc, cur, pending, dead>>
    BY <1>1 DEF SubscribeRow, sweep, loop
  <2> HIDE DEF e, p
  <2> QED
    BY <2>1 DEF WantInv, ActiveIsSeen, ActiveIsNotGone, PendingIsSeen,
                PendingIsNotGone, PendingOnce, DeadIsNotPending
<1>2. CASE ~SubscribeRow(q)
  <2>1. UNCHANGED <<active, seen, gone, pc, cur, pending, dead>>
    BY <1>2 DEF WebStep, LookupFetches, LookupTracks, LookupStores, LookupResets,
                LookupRecordFails, SubscribeTracks, SubscribeChannel, RequestEnds,
                db, sweep, loop, history
  <2> QED
    BY <2>1, WantQuiet
<1> QED
  BY <1>1, <1>2

LEMMA WantStep == TypeInv /\ WantInv /\ [Next]_vars => WantInv'
<1> SUFFICES ASSUME TypeInv, WantInv, [Next]_vars PROVE WantInv'
  OBVIOUS
<1> USE DEF db, sweep, loop, env, history
<1>1. CASE BeginSweep \/ EndSweep
  BY <1>1, WantQuiet DEF BeginSweep, EndSweep, InTarget
<1>2. ASSUME NEW s \in Sailing, SkipPrincess(s) PROVE WantInv'
  BY <1>2, WantQuiet DEF SkipPrincess
<1>3. ASSUME NEW s \in Sailing, NEW r \in {"catalog", "error", "closed"}, FetchGroup(s, r)
      PROVE  WantInv'
  <2>1. UNCHANGED <<active, seen, gone>>
    BY <1>3 DEF FetchGroup
  <2>2. pc' \in {"groups", "products", "failing"}
    BY <1>3 DEF FetchGroup
  <2> QED
    BY <2>1, <2>2, WantQuiet DEF InTarget
<1>4. ASSUME NEW p \in Product, NEW ok \in BOOLEAN, NoteFailure(p, ok) PROVE WantInv'
  BY <1>4, WantQuiet DEF NoteFailure, InTarget
<1>5. ASSUME NEW p \in Product, ReadPrevious(p) PROVE WantInv'
  BY <1>5 DEF ReadPrevious, WantInv, ActiveIsSeen, ActiveIsNotGone, PendingIsSeen,
              PendingIsNotGone, PendingOnce, DeadIsNotPending
<1>6. CASE StorePrice
  BY <1>6, WantQuiet DEF StorePrice, InTarget
<1>7. CASE StorePriceFails \/ ResetFailuresFails
  BY <1>7, WantReturns DEF StorePriceFails, ResetFailuresFails
<1>8. CASE ResetFailures
  <2>1. CASE IsDrop(prev, fetched)
    BY <1>8, <2>1, WantQuiet DEF ResetFailures, InTarget
  <2>2. CASE ~IsDrop(prev, fetched)
    BY <1>8, <2>2, WantReturns DEF ResetFailures
  <2> QED
    BY <2>1, <2>2
<1>9. CASE InsertDiff \/ InsertDiffFails
  BY <1>9, WantQuiet DEF InsertDiff, InsertDiffFails, InTarget
<1>10. ASSUME NEW ok \in BOOLEAN, Mark(ok) PROVE WantInv'
  BY <1>10, WantReturns DEF Mark
<1>11. CASE Crash
  BY <1>11, WantQuiet DEF Crash, InTarget
<1>12. ASSUME NEW v \in Device, NEW e \in Endpoint, NEW p \in Product,
              RemoveSubscription(v, e, p)
       PROVE  WantInv'
  BY <1>12 DEF RemoveSubscription, WantInv, ActiveIsSeen, ActiveIsNotGone,
               PendingIsSeen, PendingIsNotGone, PendingOnce, DeadIsNotPending
<1>13. ASSUME NEW s \in Sailing, Depart(s) PROVE WantInv'
  BY <1>13, WantQuiet DEF Depart
<1>14. CASE Tick
  BY <1>14, WantQuiet DEF Tick
<1>15. CASE UNCHANGED vars
  BY <1>15, WantQuiet DEF vars
<1> QED
  BY <1>1, <1>2, <1>3, <1>4, <1>5, <1>6, <1>7, <1>8, <1>9, <1>10, <1>11, <1>12,
     <1>13, <1>14, <1>15, WantListed, WantSent, WantDeactivated, WantWeb
     DEF Next, SweepStep

THEOREM WantInvariant == Spec => []WantInv
  BY WantInit, WantStep, TypeInvariant, PTL DEF Spec

(* Only a send alerts, and it alerts somebody pending.                      *)
LEMMA OnlySendAlerts ==
  ASSUME [Next]_vars, NEW a \in alerts' \ alerts
  PROVE  pc = "fanout" /\ \E x \in pending : a.endpoint = x.endpoint /\ a.drop.product = cur
<1>1. ASSUME NEW x \in pending, NEW outcome \in {"ok", "gone", "error"}, Send(x, outcome)
      PROVE  pc = "fanout" /\ a.endpoint = x.endpoint /\ a.drop.product = cur
  BY <1>1 DEF Send, ThisDrop
<1>2. CASE ~\E x \in pending, outcome \in {"ok", "gone", "error"} : Send(x, outcome)
  <2>1. CASE SweepStep
    BY <1>2, <2>1 DEF SweepStep, history, BeginSweep, EndSweep, SkipPrincess, FetchGroup,
           NoteFailure, ReadPrevious, StorePrice, StorePriceFails, ResetFailures,
           ResetFailuresFails, InsertDiff, InsertDiffFails, ListSubscriptions,
           Deactivate, Mark
  <2>2. ASSUME NEW q \in Request, WebStep(q) PROVE FALSE
    BY <2>2 DEF WebStep, history, LookupFetches, LookupTracks, LookupStores,
           LookupResets, LookupRecordFails, SubscribeTracks, SubscribeChannel,
           SubscribeRow, RequestEnds
  <2>3. CASE UNCHANGED vars
    BY <2>3 DEF vars, history
  <2> QED
    BY <2>1, <2>2, <2>3 DEF Next, history, Crash, RemoveSubscription, Depart, Tick
<1> QED
  BY <1>1, <1>2

(* No alert goes to a subscription that was inactive ever since its product *)
(* was taken up.                                                            *)
THEOREM PublicAlertsAreWanted == Spec => AlertsAreWanted
<1>1. WantInv /\ [Next]_vars =>
        [\A a \in alerts' \ alerts : <<a.endpoint, a.drop.product>> \in seen]_vars
  BY OnlySendAlerts DEF WantInv, PendingIsSeen
<1> QED
  BY <1>1, WantInvariant, PTL DEF Spec, AlertsAreWanted

(* Once deactivated as gone, an endpoint is not alerted before it           *)
(* subscribes again.                                                        *)
THEOREM GoneStaysGone == Spec => GoneIsNotRetried
<1>1. WantInv /\ [Next]_vars =>
        [\A a \in alerts' \ alerts : a.endpoint \notin gone]_vars
  BY OnlySendAlerts DEF WantInv, PendingIsNotGone
<1> QED
  BY <1>1, WantInvariant, PTL DEF Spec, GoneIsNotRetried
=============================================================================
