-------------------------- MODULE WatchAlertProofs --------------------------
(***************************************************************************)
(* Who is alerted, how often, and what a mark means: AtMostOneAlert,       *)
(* NotifiedIsHonest and AlertsGoToSubscribers of WatchScrape.  None of the *)
(* three is inductive.  AlertInv adds what the scraper knows about the     *)
(* diff it is busy with.                                                   *)
(***************************************************************************)
EXTENDS WatchScrapeProofs

Ids == {row.id : row \in diffs}

(* Rows have ids of their own, and nothing is known of an unused id.        *)
RowIds == \A a, b \in diffs : a.id = b.id => a = b
Unused ==
  \A d \in DiffId \ Ids :
    /\ \A u \in User : attempts[d][u] = 0
    /\ acked[d] = {}
    /\ d \notin nobody

(* The diff in hand is a row of the watch in hand.                          *)
OpenRow ==
  pc \in {"diffed", "fanout"} =>
    \E row \in diffs : row.id = diffId /\ row.watch = cur.watch

(* Nobody who is still to be notified has been notified.                    *)
Untold ==
  /\ pc = "diffed" => \A u \in User : attempts[diffId][u] = 0
  /\ pc = "fanout" => pending # {} /\ \A u \in pending : attempts[diffId][u] = 0

Sent == anySent => pc = "fanout" /\ acked[diffId] # {}

Earned(d) == acked[d] # {} \/ d \in nobody
Queued == \A d \in toMark : d \in Ids /\ Earned(d)

(* Subscribers, cached subscribers and pending ones were all seen active.   *)
AllSeen ==
  /\ pc # "idle" => ActivePairs \subseteq seen
  /\ \A r \in cached, u \in User : u \in cache[r] => <<u, r>> \in seen
  /\ pc = "fanout" => \A u \in pending : <<u, ResOf[cur.watch]>> \in seen
  /\ pc = "idle" => cached = {}

AlertInv ==
  /\ RowIds /\ Unused /\ OpenRow /\ Untold /\ Sent /\ Queued
  /\ AllSeen /\ AtMostOneAlert /\ NotifiedIsHonest

LEMMA AlertInit == Init => AlertInv
  BY DEF Init, AlertInv, RowIds, Unused, OpenRow, Untold, Sent, Queued,
         Earned, AllSeen, AtMostOneAlert, NotifiedIsHonest, Ids

(* Steps that touch neither the diffs nor the scraper keep all but AllSeen. *)
LEMMA AlertFrame ==
  ASSUME TypeInv, AlertInv,
         UNCHANGED <<diffs, notified, scraper, attempts, acked, nobody>>
  PROVE  /\ RowIds' /\ Unused' /\ OpenRow' /\ Untold' /\ Sent' /\ Queued'
         /\ AtMostOneAlert' /\ NotifiedIsHonest'
  BY DEF AlertInv, RowIds, Unused, OpenRow, Untold, Sent, Queued, Earned,
         AtMostOneAlert, NotifiedIsHonest, Ids, scraper, loop

(* insert_diff adds one row, under a fresh id, for the watch in hand.       *)
LEMMA InsertedRow ==
  ASSUME InsertDiff
  PROVE  \E d \in DiffId \ Ids :
           diffId' = d /\ \E row : /\ diffs' = diffs \cup {row}
                                   /\ row.id = d /\ row.watch = cur.watch
<1> DEFINE new(d) == [id |-> d, watch |-> cur.watch, old |-> prev.quote,
                      new |-> fetched.quote, rule |-> cur.rule,
                      from |-> prev.stamp, to |-> fetched.stamp]
<1>1. PICK d \in DiffId \ Ids : diffs' = diffs \cup {new(d)} /\ diffId' = d
  BY DEF InsertDiff, Ids
<1>2. new(d).id = d /\ new(d).watch = cur.watch
  OBVIOUS
<1> HIDE DEF new
<1> QED
  BY <1>1, <1>2

(* The whole invariant is kept by every step.                               *)
LEMMA AlertStep == TypeInv /\ AlertInv /\ [Next]_vars => AlertInv'
<1> SUFFICES ASSUME TypeInv, AlertInv, [Next]_vars PROVE AlertInv'
  OBVIOUS
<1> USE DEF TypeInv, TypeOK, AlertInv, db, loop, history
<1> DEFINE AllParts == /\ RowIds /\ Unused /\ OpenRow /\ Untold /\ Sent /\ Queued
                       /\ AtMostOneAlert /\ NotifiedIsHonest
<1>1. CASE BeginCycle
  <2>1. AllParts'
    BY <1>1 DEF BeginCycle, RowIds, Unused, OpenRow, Untold, Sent, Queued, Earned,
                AtMostOneAlert, NotifiedIsHonest, Ids
  <2>2. AllSeen'
    BY <1>1 DEF BeginCycle, AllSeen, ActivePairs
  <2> QED
    BY <2>1, <2>2
<1>2. CASE SkipWatch \/ FetchPrice \/ ReadPrevious \/ StoreSnapshot
             \/ StoreSnapshotFails \/ InsertDiffFails
  <2>1. /\ UNCHANGED <<diffs, notified, attempts, acked, nobody, seen, toMark,
                       registered, subs, cached, cache>>
        /\ pc' \in {"next", "fetched", "compared", "stored"}
        /\ pc \notin {"idle", "diffed", "fanout"}
        /\ anySent' \in {anySent, FALSE}
    BY <1>2 DEF SkipWatch, FetchPrice, ReadPrevious, StoreSnapshot,
                StoreSnapshotFails, InsertDiffFails, NextWatch
  <2>2. RowIds' /\ Unused' /\ Queued' /\ AtMostOneAlert' /\ NotifiedIsHonest'
    BY <2>1 DEF RowIds, Unused, Queued, Earned, AtMostOneAlert, NotifiedIsHonest, Ids
  <2>3. OpenRow' /\ Untold'
    BY <2>1 DEF OpenRow, Untold
  <2>5. Sent'
    BY <2>1, Zenon DEF Sent
  <2>4. AllSeen'
    BY <2>1 DEF AllSeen, ActivePairs
  <2> QED
    BY <2>2, <2>3, <2>4, <2>5
<1>3. CASE InsertDiff
  <2>1. PICK d \in DiffId \ Ids :
          diffId' = d /\ \E row : /\ diffs' = diffs \cup {row}
                                  /\ row.id = d /\ row.watch = cur.watch
    BY <1>3, InsertedRow
  <2>2. Ids' = Ids \cup {d}
    BY <2>1 DEF Ids
  <2>3. RowIds' /\ OpenRow'
    <3>1. \A a \in diffs : a.id # d
      BY <2>1 DEF Ids
    <3> QED
      BY <1>3, <2>1, <3>1 DEF InsertDiff, RowIds, OpenRow
  <2>4. Unused' /\ Queued'
    BY <1>3, <2>2 DEF InsertDiff, Unused, Queued, Earned
  <2>5. Untold'
    BY <1>3, <2>1 DEF InsertDiff, Untold, Unused
  <2>6. Sent' /\ AtMostOneAlert' /\ NotifiedIsHonest'
    BY <1>3 DEF InsertDiff, Sent, AtMostOneAlert, NotifiedIsHonest
  <2>7. AllSeen'
    BY <1>3 DEF InsertDiff, AllSeen, ActivePairs
  <2> QED
    BY <2>3, <2>4, <2>5, <2>6, <2>7
<1>4. CASE LookupSubscribers
  <2> DEFINE r == ResOf[cur.watch]
  <2>1. PICK targets \in IF r \in cached THEN {cache[r]} ELSE {ActiveSubscribers(r), {}} :
          /\ cached' = cached \cup {r}
          /\ cache' = [cache EXCEPT ![r] = targets]
          /\ IF targets = {}
               THEN /\ toMark' = toMark \cup {diffId}
                    /\ nobody' = nobody \cup {diffId}
                    /\ NextWatch
               ELSE /\ pc' = "fanout"
                    /\ pending' = targets
                    /\ UNCHANGED <<cur, fetched, prev, diffId, anySent,
                                   toMark, nobody>>
    BY <1>4 DEF LookupSubscribers
  <2>2. r \in Reservation /\ diffId \in Ids
    <3>1. pc = "diffed"
      BY <1>4 DEF LookupSubscribers
    <3>2. r \in Reservation
      BY <3>1, ScrapeAssumption DEF HoldsWatch, Loaded
    <3> QED
      BY <3>1, <3>2 DEF OpenRow, Ids
  <2>3. /\ \A u \in User : u \in targets => <<u, r>> \in seen
        /\ targets \subseteq User
    <3>1. CASE r \in cached
      BY <2>1, <2>2, <3>1 DEF AllSeen
    <3>2. CASE r \notin cached
      BY <1>4, <2>1, <3>2 DEF LookupSubscribers, AllSeen, ActiveSubscribers, ActivePairs
    <3> QED
      BY <3>1, <3>2
  <2>4. RowIds' /\ Unused' /\ AtMostOneAlert' /\ NotifiedIsHonest'
    BY <1>4, <2>1, <2>2 DEF LookupSubscribers, RowIds, Unused, AtMostOneAlert,
                            NotifiedIsHonest, Ids
  <2>5. OpenRow' /\ Untold' /\ Sent'
    BY <1>4, <2>1, <2>3 DEF LookupSubscribers, OpenRow, Untold, Sent, NextWatch
  <2>6. Queued'
    BY <1>4, <2>1, <2>2 DEF LookupSubscribers, Queued, Earned, Ids
  <2>7. AllSeen'
    <3>1. /\ seen' = seen /\ ActivePairs' = ActivePairs
          /\ pc' # "idle"
      BY <1>4, <2>1 DEF LookupSubscribers, ActivePairs, NextWatch
    <3>2. \A s \in cached', u \in User : u \in cache'[s] => <<u, s>> \in seen'
      BY <2>1, <2>2, <2>3, <3>1 DEF AllSeen
    <3>3. pc' = "fanout" => \A u \in pending' : <<u, ResOf[cur'.watch]>> \in seen'
      BY <2>1, <2>3, <3>1 DEF NextWatch
    <3> QED
      BY <1>4, <3>1, <3>2, <3>3 DEF AllSeen, LookupSubscribers
  <2> QED
    BY <2>4, <2>5, <2>6, <2>7
<1>5. ASSUME NEW u \in User, NEW ok \in BOOLEAN, Notify(u, ok) PROVE AlertInv'
  <2>1. diffId \in DiffId /\ diffId \in Ids
    BY <1>5 DEF Notify, HoldsDiff, OpenRow, Ids
  <2>2. /\ attempts[diffId][u] = 0
        /\ \A d \in DiffId, v \in User :
             attempts'[d][v] = IF d = diffId /\ v = u THEN 1 ELSE attempts[d][v]
    BY <1>5, <2>1 DEF Notify, Untold
  <2>3. \A d \in DiffId :
          acked'[d] = IF d = diffId /\ ok THEN acked[d] \cup {u} ELSE acked[d]
    BY <1>5, <2>1 DEF Notify
  <2>4. Ids' = Ids /\ diffs' = diffs /\ nobody' = nobody /\ notified' = notified
    BY <1>5 DEF Notify, Ids
  <2>5. /\ RowIds' /\ Unused'
        /\ AtMostOneAlert'
        /\ NotifiedIsHonest'
    <3>1. RowIds' /\ Unused'
      <4>1. RowIds'
        BY <2>4 DEF RowIds
      <4>2. ASSUME NEW d \in DiffId \ Ids
            PROVE  (\A v \in User : attempts'[d][v] = 0) /\ acked'[d] = {}
        <5>1. d # diffId
          BY <2>1
        <5>2. (\A v \in User : attempts[d][v] = 0) /\ acked[d] = {}
          BY DEF Unused
        <5>3. \A v \in User : attempts'[d][v] = attempts[d][v]
          BY <2>2, <5>1
        <5>4. acked'[d] = acked[d]
          BY <2>3, <5>1
        <5> QED
          BY <5>2, <5>3, <5>4
      <4> QED
        BY <2>4, <4>1, <4>2 DEF Unused
    <3>2. AtMostOneAlert'
      BY <2>2 DEF AtMostOneAlert
    <3>3. NotifiedIsHonest'
      BY <2>3, <2>4 DEF NotifiedIsHonest
    <3> QED
      BY <3>1, <3>2, <3>3
  <2>6. OpenRow' /\ Untold'
    BY <1>5, <2>2, <2>4 DEF Notify, NextWatch, OpenRow, Untold
  <2>7. Sent'
    BY <1>5, <2>1, <2>3 DEF Notify, NextWatch, Sent
  <2>8. Queued'
    BY <1>5, <2>1, <2>3, <2>4 DEF Notify, NextWatch, Queued, Earned, Sent
  <2>9. AllSeen'
    BY <1>5 DEF Notify, NextWatch, AllSeen, ActivePairs
  <2> QED
    BY <2>5, <2>6, <2>7, <2>8, <2>9
<1>6. ASSUME NEW ok \in BOOLEAN, MarkNotified(ok) PROVE AlertInv'
  BY <1>6 DEF MarkNotified, Stopped, RowIds, Unused, OpenRow, Untold, Sent, Queued,
              Earned, AllSeen, AtMostOneAlert, NotifiedIsHonest, Ids
<1>7. CASE Crash
  BY <1>7 DEF Crash, Stopped, RowIds, Unused, OpenRow, Untold, Sent, Queued,
              Earned, AllSeen, AtMostOneAlert, NotifiedIsHonest, Ids
<1>8. ASSUME Witness, UNCHANGED <<diffs, notified, scraper, attempts, acked, nobody>>
      PROVE  AlertInv'
  <2>1. AllSeen'
    BY <1>8 DEF Witness, AllSeen, ActivePairs, scraper
  <2> QED
    BY <1>8, <2>1, AlertFrame
<1>9. ASSUME UNCHANGED <<registered, subs, diffs, notified, scraper, history>>
      PROVE  AlertInv'
  <2>1. AllSeen'
    BY <1>9 DEF AllSeen, ActivePairs, scraper
  <2> QED
    BY <1>9, <2>1, AlertFrame
<1>10. ASSUME NEW u \in User,
              \/ Register(u) \/ Unregister(u)
              \/ \E r \in Reservation : Subscribe(u, r)
              \/ \E line \in Line : RemoveAccount(u, line)
       PROVE  AlertInv'
  BY <1>8, <1>10 DEF Register, Unregister, Subscribe, RemoveAccount
<1>11. ASSUME NEW r \in Reservation, Sail(r) PROVE AlertInv'
  BY <1>9, <1>11 DEF Sail
<1>12. ASSUME NEW q \in Request, WebStep(q) PROVE AlertInv'
  BY <1>9, <1>12 DEF WebStep, AddCheck, ChangeCheck, AddUpsert, AddLooks, AddStamps,
                     AddSeeds, RemoveWatched, SetAlert, RequestEnds, offline
<1>13. CASE UNCHANGED vars
  BY <1>9, <1>13 DEF vars
<1> QED
  BY <1>1, <1>2, <1>3, <1>4, <1>5, <1>6, <1>7, <1>10, <1>11, <1>12, <1>13
     DEF Next, ScraperStep

THEOREM AlertInvariant == Spec => [](TypeInv /\ AlertInv)
<1>1. Init => TypeInv /\ AlertInv
  BY TypeInit, AlertInit
<1>2. TypeInv /\ AlertInv /\ [Next]_vars => (TypeInv /\ AlertInv)'
  BY TypeStep, AlertStep
<1> QED
  BY <1>1, <1>2, PTL DEF Spec

(* No diff is sent to the same chat twice, whatever sends fail, however     *)
(* often the scraper is killed and whatever the subscriber cache holds.     *)
THEOREM AlertedOnce == Spec => []AtMostOneAlert
<1>1. AlertInv => AtMostOneAlert
  BY DEF AlertInv
<1> QED
  BY <1>1, AlertInvariant, PTL

(* A marked diff reached somebody, or its lookup found nobody, although the *)
(* mark is written at the end of the cycle, far from the sends.             *)
THEOREM MarksAreHonest == Spec => []NotifiedIsHonest
<1>1. AlertInv => NotifiedIsHonest
  BY DEF AlertInv
<1> QED
  BY <1>1, AlertInvariant, PTL

(* Only Notify sends, and only to somebody seen subscribed in this cycle.   *)
LEMMA OnlyNotifySends ==
  ASSUME TypeInv, AlertInv, Next,
         NEW row \in diffs, NEW u \in User,
         attempts'[row.id][u] # attempts[row.id][u]
  PROVE  <<u, ResOf[row.watch]>> \in seen
<1>1. PICK v \in User, ok \in BOOLEAN : Notify(v, ok)
  BY DEF Next, ScraperStep, BeginCycle, SkipWatch, FetchPrice, ReadPrevious,
         StoreSnapshot, StoreSnapshotFails, InsertDiff, InsertDiffFails,
         LookupSubscribers, MarkNotified, Crash, Register, Unregister, Subscribe,
         RemoveAccount, Sail, WebStep, AddCheck, ChangeCheck, AddUpsert, AddLooks,
         AddStamps, AddSeeds, RemoveWatched, SetAlert, RequestEnds, offline, history
<1>2. diffId \in DiffId /\ row.id \in DiffId
  BY <1>1 DEF Notify, TypeInv, TypeOK, HoldsDiff, DiffRow
<1>3. row.id = diffId /\ u = v
  BY <1>1, <1>2 DEF Notify, TypeInv, TypeOK
<1>4. row.watch = cur.watch
  BY <1>1, <1>3 DEF Notify, AlertInv, OpenRow, RowIds
<1> QED
  BY <1>1, <1>3, <1>4 DEF Notify, AlertInv, AllSeen

(* An alert reaches only people who were registered and subscribed to the   *)
(* reservation at some instant of the cycle that sends it.                  *)
THEOREM AlertsReachSubscribers == Spec => AlertsGoToSubscribers
<1>1. TypeInv /\ AlertInv /\ [Next]_vars =>
        [\A row \in diffs, u \in User :
           attempts'[row.id][u] # attempts[row.id][u]
             => <<u, ResOf[row.watch]>> \in seen]_vars
  BY OnlyNotifySends
<1> QED
  BY <1>1, AlertInvariant, PTL DEF Spec, AlertsGoToSubscribers
-----------------------------------------------------------------------------
(* The scraper implements the ledger: the initial states map to the         *)
(* ledger's, and every step to a step of the ledger or to a stutter.        *)
LEMMA LedgerInit == Init => Ledger!Init
  BY DEF Init, Ledger!Init

LEMMA LedgerStep == TypeInv /\ AlertInv /\ [Next]_vars => [Ledger!Next]_(Ledger!vars)
<1> SUFFICES ASSUME TypeInv, AlertInv, [Next]_vars
             PROVE  Ledger!Next \/ UNCHANGED Ledger!vars
  OBVIOUS
<1> USE ScrapeAssumption
<1> DEFINE Told(d) == {u \in User : attempts[d][u] > 0}
<1>1. ASSUME UNCHANGED <<diffs, attempts, acked, nobody, notified>>,
             pc \notin {"diffed", "fanout"}, pc' \notin {"diffed", "fanout"}
      PROVE  UNCHANGED Ledger!vars
  BY <1>1 DEF Ledger!vars
<1>2. CASE BeginCycle \/ SkipWatch \/ FetchPrice \/ ReadPrevious \/ StoreSnapshot
             \/ StoreSnapshotFails \/ InsertDiffFails
  BY <1>1, <1>2 DEF BeginCycle, SkipWatch, FetchPrice, ReadPrevious, StoreSnapshot,
                    StoreSnapshotFails, InsertDiffFails, NextWatch, db, loop, history
<1>3. CASE InsertDiff
  <2>1. PICK d \in DiffId \ Ids :
          diffId' = d /\ \E row : /\ diffs' = diffs \cup {row}
                                  /\ row.id = d /\ row.watch = cur.watch
    BY <1>3, InsertedRow
  <2>2. Ids' = Ids \cup {d}
    BY <2>1 DEF Ids
  <2>3. Ledger!Record(d)
    BY <1>3, <2>1, <2>2 DEF InsertDiff, Ledger!Record, Ids, history
  <2> QED
    BY <2>1, <2>3 DEF Ledger!Next
<1>4. CASE LookupSubscribers
  <2>1. diffId \in DiffId /\ pc = "diffed" /\ UNCHANGED <<diffs, attempts, acked, notified>>
    BY <1>4 DEF LookupSubscribers, TypeInv, HoldsDiff, db
  <2>2. CASE pc' = "fanout"
    BY <1>4, <2>1, <2>2 DEF LookupSubscribers, NextWatch, Ledger!vars
  <2>3. CASE pc' # "fanout"
    <3>1. nobody' = nobody \cup {diffId} /\ pc' = "next"
      BY <1>4, <2>3 DEF LookupSubscribers, NextWatch
    <3>2. Told(diffId) = {}
      BY <2>1 DEF AlertInv, Untold
    <3>3. Ledger!FindNobody
      BY <2>1, <3>1, <3>2 DEF Ledger!FindNobody
    <3> QED
      BY <3>3 DEF Ledger!Next
  <2> QED
    BY <2>2, <2>3
<1>5. ASSUME NEW u \in User, NEW ok \in BOOLEAN, Notify(u, ok)
      PROVE  Ledger!Tell(u, ok)
  <2>1. /\ diffId \in DiffId /\ pc = "fanout"
        /\ attempts[diffId][u] = 0
        /\ attempts \in [DiffId -> [User -> Nat]]
        /\ acked \in [DiffId -> SUBSET User]
    BY <1>5 DEF Notify, TypeInv, TypeOK, HoldsDiff, AlertInv, Untold
  <2>2. [d \in DiffId |-> Told(d)]' = [[d \in DiffId |-> Told(d)] EXCEPT ![diffId] = @ \cup {u}]
    <3>1. attempts' = [attempts EXCEPT ![diffId] = [attempts[diffId] EXCEPT ![u] = @ + 1]]
      BY <1>5 DEF Notify
    <3>2. \A d \in DiffId : Told(d)' = IF d = diffId THEN Told(d) \cup {u} ELSE Told(d)
      BY <2>1, <3>1
    <3> HIDE DEF Told
    <3> QED
      BY <2>1, <3>2
  <2>3. IF pc' \in {"diffed", "fanout"} THEN diffId' = diffId ELSE TRUE
    BY <1>5 DEF Notify, NextWatch
  <2> QED
    BY <1>5, <2>1, <2>2, <2>3 DEF Ledger!Tell, Notify, db
<1>6. ASSUME NEW ok \in BOOLEAN, MarkNotified(ok)
      PROVE  Ledger!Next \/ UNCHANGED Ledger!vars
  <2>1. /\ pc = "next" /\ pc' = "idle"
        /\ UNCHANGED <<diffs, attempts, acked, nobody>>
        /\ notified' = IF ok THEN notified \cup toMark ELSE notified
    BY <1>6 DEF MarkNotified, Stopped
  <2>2. CASE ok
    <3>1. toMark \subseteq {d \in Ids : acked[d] # {} \/ d \in nobody}
            /\ toMark \in SUBSET DiffId
      BY DEF AlertInv, Queued, Earned, TypeInv, TypeOK
    <3>2. Ledger!Mark(toMark)
      BY <2>1, <2>2, <3>1 DEF Ledger!Mark, Ids
    <3> QED
      BY <3>1, <3>2 DEF Ledger!Next
  <2>3. CASE ~ok
    BY <1>1, <2>1, <2>3
  <2> QED
    BY <2>2, <2>3
<1>7. CASE Crash
  <2>1. pc' = "idle" /\ UNCHANGED <<diffs, attempts, acked, nobody, notified>>
    BY <1>7 DEF Crash, Stopped, db
  <2>2. CASE pc \in {"diffed", "fanout"}
    <3>1. diffId # None
      BY <2>2 DEF TypeInv, HoldsDiff
    <3> QED
      BY <2>1, <2>2, <3>1 DEF Ledger!Abandon, Ledger!Next
  <2>3. CASE pc \notin {"diffed", "fanout"}
    BY <1>1, <2>1, <2>3
  <2> QED
    BY <2>2, <2>3
<1>8. ASSUME UNCHANGED <<diffs, attempts, acked, nobody, notified, pc, diffId>>
      PROVE  UNCHANGED Ledger!vars
  BY <1>8 DEF Ledger!vars
<1>9. ASSUME NEW u \in User,
             \/ Register(u) \/ Unregister(u)
             \/ \E r \in Reservation : Subscribe(u, r)
             \/ \E line \in Line : RemoveAccount(u, line)
      PROVE  UNCHANGED Ledger!vars
  BY <1>8, <1>9 DEF Register, Unregister, Subscribe, RemoveAccount, scraper, loop
<1>10. ASSUME NEW r \in Reservation, Sail(r) PROVE UNCHANGED Ledger!vars
  BY <1>8, <1>10 DEF Sail, scraper, loop, history
<1>11. ASSUME NEW q \in Request, WebStep(q) PROVE UNCHANGED Ledger!vars
  BY <1>8, <1>11 DEF WebStep, AddCheck, ChangeCheck, AddUpsert, AddLooks, AddStamps,
                     AddSeeds, RemoveWatched, SetAlert, RequestEnds, offline, scraper,
                     loop, history, db
<1>12. CASE UNCHANGED vars
  BY <1>8, <1>12 DEF vars, scraper, loop, history, db
<1> QED
  BY <1>2, <1>3, <1>4, <1>5, <1>6, <1>7, <1>9, <1>10, <1>11, <1>12
     DEF Next, ScraperStep, Ledger!Next

(* The scraper keeps the promise of AlertLedger.                            *)
THEOREM ScraperImplementsLedger == Spec => ImplementsLedger
  BY LedgerInit, LedgerStep, AlertInvariant, PTL DEF Spec, ImplementsLedger, Ledger!Spec
=============================================================================
