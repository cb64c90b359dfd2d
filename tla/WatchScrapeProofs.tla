-------------------------- MODULE WatchScrapeProofs --------------------------
(***************************************************************************)
(* Proofs about WatchScrape, for every set of users, reservations, watches *)
(* and requests and every bound.                                           *)
(***************************************************************************)
EXTENDS WatchScrape, TLAPS

USE ScrapeAssumption, PriceAssumption

(* What the scraper holds at each point of its loop.  Without it the steps  *)
(* that dereference cur, fetched and diffId have no type.                   *)
HoldsWatch ==
  pc \in {"fetched", "compared", "stored", "diffed", "fanout"} =>
    cur \in Loaded /\ fetched \in Fetch
HoldsDrop ==
  pc = "stored" => /\ prev \in Snapshot
                   /\ DetectDiff(cur.rule, prev.quote, fetched.quote)
HoldsDiff == pc \in {"diffed", "fanout"} => diffId \in DiffId
HoldsRequest ==
  \A q \in Request :
    /\ req[q].op # "none" => req[q].watch \in Watch
    /\ req[q].at \in {"upserted", "unseeded", "stamped"} => req[q].watch \in Watch
    /\ req[q].at = "stamped" => req[q].stamp \in Stamp

TypeInv == TypeOK /\ HoldsWatch /\ HoldsDrop /\ HoldsDiff /\ HoldsRequest

LEMMA TypeInit == Init => TypeInv
<1> SUFFICES ASSUME Init PROVE TypeInv
  OBVIOUS
<1>1. DefaultRule \in Rule
  BY DEF DefaultRule, Rule
<1>2. NoRequest \in RequestState
  BY <1>1 DEF NoRequest, RequestState, Quote
<1>3. TypeOK
  <2>1. /\ attempts \in [DiffId -> [User -> Nat]]
        /\ acked \in [DiffId -> SUBSET User]
        /\ cache \in [Reservation -> SUBSET User]
        /\ req \in [Request -> RequestState]
    BY <1>2 DEF Init
  <2>2. /\ clock \in 0..MaxStamp
        /\ crashes \in 0..MaxCrash
    BY DEF Init
  <2> QED
    BY <2>1, <2>2, Zenon DEF Init, TypeOK
<1>4. HoldsWatch /\ HoldsDrop /\ HoldsDiff /\ HoldsRequest
  BY DEF Init, HoldsWatch, HoldsDrop, HoldsDiff, HoldsRequest, NoRequest
<1> QED
  BY <1>3, <1>4 DEF TypeInv

(* A request keeps its type when it moves on to the next statement.         *)
LEMMA RequestMoves ==
  ASSUME NEW x \in RequestState
  PROVE  [x EXCEPT !.at = "upserted"] \in RequestState
  BY DEF RequestState

LEMMA RequestStamps ==
  ASSUME NEW x \in RequestState, NEW p \in Price, NEW t \in 0..MaxStamp
  PROVE  [x EXCEPT !.at = "stamped", !.quote = p, !.stamp = t] \in RequestState
  BY DEF RequestState, Quote

(* The type invariant is kept by every step.                                *)
LEMMA TypeStep == TypeInv /\ [Next]_vars => TypeInv'
<1> SUFFICES ASSUME TypeInv, [Next]_vars PROVE TypeInv'
  OBVIOUS
<1> USE DEF TypeInv, TypeOK, HoldsWatch, HoldsDrop, HoldsDiff, HoldsRequest,
            db, loop, history, Loaded, Fetch, Stamp
<1>0. DefaultRule \in Rule /\ NoRequest \in RequestState /\ NoRequest.op = "none"
        /\ NoRequest.at = "free"
  BY DEF DefaultRule, Rule, NoRequest, RequestState, Quote
<1>1. CASE BeginCycle
  BY <1>1 DEF BeginCycle, ActivePairs
<1>2. CASE SkipWatch
  BY <1>2 DEF SkipWatch
<1>3. CASE FetchPrice
  BY <1>3 DEF FetchPrice
<1>4. CASE ReadPrevious
  BY <1>4 DEF ReadPrevious, Latest, SnapsOf, Snapshot
<1>5. CASE StoreSnapshot
  <2>1. [watch |-> cur.watch, stamp |-> fetched.stamp, quote |-> fetched.quote,
         seed |-> FALSE] \in Snapshot
    BY <1>5 DEF StoreSnapshot, Snapshot
  <2>2. CASE prev # None /\ DetectDiff(cur.rule, prev.quote, fetched.quote)
    BY <1>5, <2>1, <2>2 DEF StoreSnapshot
  <2>3. CASE ~(prev # None /\ DetectDiff(cur.rule, prev.quote, fetched.quote))
    BY <1>5, <2>1, <2>3 DEF StoreSnapshot, NextWatch
  <2> QED
    BY <2>2, <2>3
<1>6. CASE StoreSnapshotFails \/ InsertDiffFails
  BY <1>6 DEF StoreSnapshotFails, InsertDiffFails, NextWatch
<1>7. CASE InsertDiff
  BY <1>7 DEF InsertDiff, Snapshot, DiffRow, DetectDiff, Quote
<1>8. CASE LookupSubscribers
  <2> DEFINE r == ResOf[cur.watch]
  <2>1. PICK targets \in IF r \in cached THEN {cache[r]} ELSE {ActiveSubscribers(r), {}} :
          /\ cached' = cached \cup {r}
          /\ cache' = [cache EXCEPT ![r] = targets]
          /\ IF targets = {}
               THEN /\ toMark' = toMark \cup {diffId}
                    /\ nobody' = nobody \cup {diffId}
                    /\ NextWatch
               ELSE /\ pc' = "fanout"
                    /\ pending' = targets
                    /\ UNCHANGED <<cur, fetched, prev, diffId, anySent,
                                   toMark, nobody>>
    BY <1>8 DEF LookupSubscribers
  <2>2. r \in Reservation /\ diffId \in DiffId
    BY <1>8 DEF LookupSubscribers
  <2> HIDE DEF r
  <2>6. targets \in SUBSET User
    <3>1. cache[r] \in SUBSET User /\ ActiveSubscribers(r) \in SUBSET User
      BY <2>2 DEF ActiveSubscribers
    <3> QED
      BY <2>1, <3>1
  <2>3. cached' \in SUBSET Reservation /\ cache' \in [Reservation -> SUBSET User]
    BY <2>1, <2>2, <2>6
  <2>4. CASE targets = {}
    <3>1. toMark' \in SUBSET DiffId /\ nobody' \in SUBSET DiffId
      BY <2>1, <2>2, <2>4
    <3> QED
      BY <1>8, <2>1, <2>3, <2>4, <3>1 DEF LookupSubscribers, NextWatch
  <2>5. CASE targets # {}
    BY <1>8, <2>1, <2>3, <2>5, <2>6 DEF LookupSubscribers
  <2> QED
    BY <2>4, <2>5
<1>9. ASSUME NEW u \in User, NEW ok \in BOOLEAN, Notify(u, ok) PROVE TypeInv'
  <2>1. diffId \in DiffId
    BY <1>9 DEF Notify
  <2>2. attempts' \in [DiffId -> [User -> Nat]] /\ acked' \in [DiffId -> SUBSET User]
    BY <1>9, <2>1 DEF Notify
  <2>3. CASE pending = {u}
    <3>1. toMark' \in SUBSET DiffId
      BY <1>9, <2>1, <2>3 DEF Notify
    <3> QED
      BY <1>9, <2>2, <2>3, <3>1 DEF Notify, NextWatch
  <2>4. CASE pending # {u}
    BY <1>9, <2>1, <2>2, <2>4 DEF Notify
  <2> QED
    BY <2>3, <2>4
<1>10. ASSUME NEW ok \in BOOLEAN, MarkNotified(ok) PROVE TypeInv'
  BY <1>10 DEF MarkNotified, Stopped
<1>11. CASE Crash
  <2>1. crashes' \in 0..MaxCrash
    BY <1>11 DEF Crash
  <2> QED
    BY <1>11, <2>1 DEF Crash, Stopped
<1>12. ASSUME NEW u \in User, Register(u) \/ Unregister(u) PROVE TypeInv'
  BY <1>12 DEF Register, Unregister, Witness, scraper
<1>13. ASSUME NEW u \in User, NEW r \in Reservation, Subscribe(u, r) PROVE TypeInv'
  BY <1>13 DEF Subscribe, Witness, scraper
<1>14. ASSUME NEW u \in User, NEW line \in Line, RemoveAccount(u, line) PROVE TypeInv'
  BY <1>14 DEF RemoveAccount, Witness, scraper
<1>15. ASSUME NEW r \in Reservation, Sail(r) PROVE TypeInv'
  BY <1>15 DEF Sail, scraper
<1>16. ASSUME NEW q \in Request, WebStep(q) PROVE TypeInv'
  <2>1. ASSUME NEW u \in User, NEW w \in Watch, AddCheck(q, u, w) PROVE TypeInv'
    BY <1>0, <2>1, ZenonT(60) DEF AddCheck, RequestState, NoRequest, offline, scraper
  <2>2. ASSUME NEW u \in User, NEW w \in Watch, NEW op \in {"remove", "alert"},
               NEW r \in Rule, ChangeCheck(q, u, w, op, r)
        PROVE TypeInv'
    BY <1>0, <2>2, ZenonT(60) DEF ChangeCheck, RequestState, NoRequest, offline, scraper
  <2>3. CASE AddUpsert(q)
    <3>0. [req[q] EXCEPT !.at = "upserted"] \in RequestState
      BY RequestMoves
    <3>1. req' \in [Request -> RequestState] /\ watched' \in SUBSET Watch
      BY <2>3, <3>0 DEF AddUpsert
    <3>2. HoldsRequest'
      BY <2>3, <3>1 DEF AddUpsert
    <3> QED
      BY <2>3, <3>1, <3>2 DEF AddUpsert, offline, scraper
  <2>4. CASE AddLooks(q)
    BY <1>0, <2>4 DEF AddLooks, RequestState, offline, scraper, Free
  <2>5. CASE AddStamps(q)
    <3>1. PICK p \in Price :
            req' = [req EXCEPT ![q].at = "stamped", ![q].quote = p,
                               ![q].stamp = clock + 1]
      BY <2>5 DEF AddStamps
    <3>2. clock' \in 0..MaxStamp /\ clock + 1 \in Stamp
      BY <2>5 DEF AddStamps
    <3>3. req' \in [Request -> RequestState]
      <4>1. [req[q] EXCEPT !.at = "stamped", !.quote = p, !.stamp = clock + 1]
              \in RequestState
        <5>1. req[q] \in RequestState /\ clock + 1 \in 0..MaxStamp
          BY <3>2
        <5> QED
          BY <5>1, RequestStamps
      <4> QED
        BY <3>1, <4>1
    <3>4. HoldsRequest'
      BY <2>5, <3>1, <3>2, <3>3 DEF AddStamps
    <3> QED
      BY <2>5, <3>2, <3>3, <3>4 DEF AddStamps, offline, scraper
  <2>6. CASE AddSeeds(q)
    <3>1. [watch |-> req[q].watch, stamp |-> req[q].stamp, quote |-> req[q].quote,
           seed |-> TRUE] \in Snapshot
      BY <2>6 DEF AddSeeds, Snapshot, RequestState
    <3>2. req' \in [Request -> RequestState] /\ HoldsRequest'
      BY <1>0, <2>6 DEF AddSeeds, Free
    <3> QED
      BY <2>6, <3>1, <3>2 DEF AddSeeds, offline, scraper
  <2>7. CASE RemoveWatched(q) \/ SetAlert(q) \/ RequestEnds(q)
    <3>1. req' \in [Request -> RequestState] /\ HoldsRequest'
      BY <1>0, <2>7 DEF RemoveWatched, SetAlert, RequestEnds, Free
    <3>2. watched' \in SUBSET Watch /\ ruleOf' \in [Watch -> Rule]
      BY <2>7 DEF RemoveWatched, SetAlert, RequestEnds, RequestState
    <3> QED
      BY <2>7, <3>1, <3>2 DEF RemoveWatched, SetAlert, RequestEnds, offline, scraper
  <2> QED
    BY <1>0, <1>16, <2>1, <2>2, <2>3, <2>4, <2>5, <2>6, <2>7 DEF WebStep
<1>17. CASE UNCHANGED vars
  <2>1. TypeOK'
    BY <1>17 DEF vars, scraper
  <2>2. HoldsWatch' /\ HoldsDrop' /\ HoldsDiff' /\ HoldsRequest'
    BY <1>17 DEF vars, scraper
  <2> QED
    BY <2>1, <2>2
<1> QED
  BY <1>1, <1>2, <1>3, <1>4, <1>5, <1>6, <1>7, <1>8, <1>9, <1>10, <1>11, <1>12,
     <1>13, <1>14, <1>15, <1>16, <1>17 DEF Next, ScraperStep

THEOREM TypeInvariant == Spec => []TypeInv
  BY TypeInit, TypeStep, PTL DEF Spec

(* Every variable of the scraper, the requests and the tables has its type, *)
(* for every set of users, watches and requests.                            *)
THEOREM TypeCorrect == Spec => []TypeOK
<1>1. TypeInv => TypeOK
  BY DEF TypeInv
<1> QED
  BY <1>1, TypeInvariant, PTL
-----------------------------------------------------------------------------
(* Every diff is a real drop between two stored snapshots, and one drop is  *)
(* one diff.  The invariant follows one price from its fetch to the diff:   *)
(* its stamp is the newest when it is taken, only seeds can overtake it,    *)
(* and the snapshot is stored before the diff.                              *)

Scraped == [watch |-> cur.watch, stamp |-> fetched.stamp,
            quote |-> fetched.quote, seed |-> FALSE]

(* No stamp is ahead of the clock.                                          *)
StampsAreOld ==
  /\ \A s \in snaps : s.stamp <= clock
  /\ pc \in {"fetched", "compared", "stored"} => fetched.stamp <= clock
  /\ \A q \in Request : req[q].at = "stamped" => req[q].stamp <= clock

(* Only a seed can be stamped after the price in hand.                      *)
InHandIsNewest ==
  pc \in {"fetched", "compared"} =>
    \A s \in snaps : ~s.seed => s.stamp < fetched.stamp

(* The baseline is a stored snapshot of the same watch, older or a seed.    *)
BaselineIsStored ==
  pc \in {"compared", "stored"} /\ prev # None =>
    /\ prev \in snaps
    /\ prev.watch = cur.watch
    /\ prev.stamp < fetched.stamp \/ prev.seed

StoredFirst == pc = "stored" => Scraped \in snaps /\ prev # None

DropInv ==
  StampsAreOld /\ InHandIsNewest /\ BaselineIsStored /\ StoredFirst
    /\ DiffsAreRealDrops

LEMMA DropInit == Init => DropInv
  BY DEF Init, DropInv, StampsAreOld, InHandIsNewest, BaselineIsStored, StoredFirst,
         DiffsAreRealDrops, NoRequest

(* A diff stays a real drop when snapshots are added.                       *)
LEMMA DropsStay ==
  ASSUME DiffsAreRealDrops, diffs' = diffs, snaps \subseteq snaps'
  PROVE  DiffsAreRealDrops'
<1>1. \A w : SnapsOf(w) \subseteq SnapsOf(w)'
  BY DEF SnapsOf
<1> QED
  BY <1>1 DEF DiffsAreRealDrops

(* The whole invariant is kept by every step.                               *)
LEMMA DropStep == TypeInv /\ DropInv /\ [Next]_vars => DropInv'
<1> SUFFICES ASSUME TypeInv, DropInv, [Next]_vars PROVE DropInv'
  OBVIOUS
<1> USE DEF DropInv, db, loop, history
<1>0. /\ snaps \in SUBSET Snapshot /\ clock \in Nat
      /\ \A s \in snaps : s.stamp \in Nat
      /\ \A q \in Request : req[q].stamp \in Nat
      /\ pc \in {"fetched", "compared", "stored"} => fetched.stamp \in Nat
  BY ScrapeAssumption
     DEF TypeInv, TypeOK, HoldsWatch, Snapshot, Stamp, RequestState, Fetch
<1>1. CASE BeginCycle \/ SkipWatch
  BY <1>1, DropsStay DEF BeginCycle, SkipWatch, StampsAreOld, InHandIsNewest,
                         BaselineIsStored, StoredFirst
<1>2. CASE FetchPrice
  <2>1. fetched'.stamp = clock + 1 /\ clock' = clock + 1 /\ snaps' = snaps /\ req' = req
          /\ pc' = "fetched"
    BY <1>2 DEF FetchPrice
  <2>2. StampsAreOld' /\ InHandIsNewest'
    BY <1>0, <2>1 DEF StampsAreOld, InHandIsNewest
  <2>3. BaselineIsStored' /\ StoredFirst'
    BY <2>1 DEF BaselineIsStored, StoredFirst
  <2> QED
    BY <1>2, <2>2, <2>3, DropsStay DEF FetchPrice
<1>3. CASE ReadPrevious
  <2>1. prev' # None => prev' \in snaps /\ prev'.watch = cur.watch
    BY <1>3 DEF ReadPrevious, Latest, SnapsOf
  <2>2. StampsAreOld' /\ InHandIsNewest' /\ StoredFirst'
    BY <1>3 DEF ReadPrevious, StampsAreOld, InHandIsNewest, StoredFirst
  <2>3. BaselineIsStored'
    BY <1>0, <1>3, <2>1 DEF ReadPrevious, BaselineIsStored, InHandIsNewest
  <2> QED
    BY <1>3, <2>2, <2>3, DropsStay DEF ReadPrevious
<1>4. CASE StoreSnapshot
  <2>1. /\ snaps' = snaps \cup {Scraped}
        /\ pc' \in {"next", "stored"}
        /\ UNCHANGED <<diffs, clock, req>>
        /\ pc' = "stored" => UNCHANGED loop /\ prev # None
    BY <1>4 DEF StoreSnapshot, Scraped, NextWatch
  <2>2. Scraped.stamp <= clock
    BY <1>4 DEF StoreSnapshot, Scraped, StampsAreOld
  <2>3. StampsAreOld' /\ InHandIsNewest'
    BY <1>4, <2>1, <2>2 DEF StoreSnapshot, StampsAreOld, InHandIsNewest
  <2>4. BaselineIsStored' /\ StoredFirst'
    BY <1>4, <2>1 DEF StoreSnapshot, BaselineIsStored, StoredFirst, Scraped
  <2> QED
    BY <2>1, <2>3, <2>4, DropsStay
<1>5. CASE InsertDiff
  <2>1. PICK row \in {[id |-> d, watch |-> cur.watch, old |-> prev.quote,
                       new |-> fetched.quote, rule |-> cur.rule,
                       from |-> prev.stamp, to |-> fetched.stamp] : d \in DiffId} :
          diffs' = diffs \cup {row}
    BY <1>5 DEF InsertDiff
  <2>2. pc = "stored" /\ pc' = "diffed" /\ UNCHANGED <<snaps, clock, req>>
    BY <1>5 DEF InsertDiff
  <2>3. prev \in Snapshot /\ DetectDiff(cur.rule, prev.quote, fetched.quote)
    BY <2>2 DEF TypeInv, HoldsDrop
  <2>4. /\ prev \in SnapsOf(cur.watch) /\ Scraped \in SnapsOf(cur.watch)
        /\ prev.stamp < fetched.stamp \/ prev.seed
    BY <1>0, <2>2, <2>3 DEF BaselineIsStored, StoredFirst, SnapsOf, Scraped
  <2>5. /\ row.watch = cur.watch /\ row.rule = cur.rule
        /\ row.old = prev.quote /\ row.new = fetched.quote
        /\ row.from = prev.stamp /\ row.to = fetched.stamp
    OBVIOUS
  <2>6. Scraped.stamp = fetched.stamp /\ Scraped.quote = fetched.quote /\ ~Scraped.seed
    BY DEF Scraped
  <2>7. /\ DetectDiff(row.rule, row.old, row.new)
        /\ \E s, t \in SnapsOf(row.watch) :
             /\ s.stamp = row.from /\ s.quote = row.old
             /\ t.stamp = row.to /\ t.quote = row.new /\ ~t.seed
             /\ s.stamp < t.stamp \/ s.seed
    BY <2>3, <2>4, <2>5, <2>6
  <2>8. \A w : SnapsOf(w)' = SnapsOf(w)
    BY <2>2 DEF SnapsOf
  <2>9. DiffsAreRealDrops'
    BY <2>1, <2>7, <2>8 DEF DiffsAreRealDrops
  <2> QED
    BY <2>2, <2>9 DEF StampsAreOld, InHandIsNewest, BaselineIsStored, StoredFirst
<1>6. ASSUME pc' \in {"idle", "next", "fanout"}, UNCHANGED <<snaps, diffs, clock, req>>
      PROVE  DropInv'
  BY <1>6, DropsStay DEF StampsAreOld, InHandIsNewest, BaselineIsStored, StoredFirst
<1>7. CASE StoreSnapshotFails \/ InsertDiffFails
  BY <1>6, <1>7 DEF StoreSnapshotFails, InsertDiffFails, NextWatch
<1>8. CASE LookupSubscribers
  BY <1>6, <1>8 DEF LookupSubscribers, NextWatch
<1>9. ASSUME NEW u \in User, NEW ok \in BOOLEAN, Notify(u, ok) PROVE DropInv'
  BY <1>6, <1>9 DEF Notify, NextWatch
<1>10. ASSUME NEW ok \in BOOLEAN, MarkNotified(ok) PROVE DropInv'
  BY <1>6, <1>10 DEF MarkNotified, Stopped
<1>11. CASE Crash
  BY <1>6, <1>11 DEF Crash, Stopped
<1>12. ASSUME UNCHANGED <<pc, cur, fetched, prev, diffs, snaps, clock, req>>
       PROVE  DropInv'
  BY <1>12, DropsStay DEF StampsAreOld, InHandIsNewest, BaselineIsStored,
                          StoredFirst, Scraped
<1>13. ASSUME NEW u \in User,
              \/ Register(u) \/ Unregister(u)
              \/ \E r \in Reservation : Subscribe(u, r)
              \/ \E line \in Line : RemoveAccount(u, line)
       PROVE  DropInv'
  BY <1>12, <1>13 DEF Register, Unregister, Subscribe, RemoveAccount, scraper
<1>14. ASSUME NEW r \in Reservation, Sail(r) PROVE DropInv'
  BY <1>12, <1>14 DEF Sail, scraper
<1>15. ASSUME NEW q \in Request, WebStep(q) PROVE DropInv'
  <2>1. UNCHANGED <<pc, cur, fetched, prev, diffs>>
    BY <1>15 DEF WebStep, AddCheck, ChangeCheck, AddUpsert, AddLooks, AddStamps,
                 AddSeeds, RemoveWatched, SetAlert, RequestEnds, offline, scraper
  <2>2. /\ clock <= clock' /\ clock' \in Nat
        /\ snaps \subseteq snaps'
        /\ \A s \in snaps' \ snaps : s.seed /\ s.stamp <= clock'
        /\ \A p \in Request : req'[p].at = "stamped" => req'[p].stamp <= clock'
    <3>0. req \in [Request -> RequestState] /\ NoRequest.at = "free"
      BY DEF TypeInv, TypeOK, NoRequest
    <3>1. CASE AddStamps(q)
      <4>1. PICK p \in Price :
              req' = [req EXCEPT ![q].at = "stamped", ![q].quote = p,
                                 ![q].stamp = clock + 1]
        BY <3>1 DEF AddStamps
      <4>2. /\ req'[q].stamp = clock + 1
            /\ \A p2 \in Request \ {q} : req'[p2] = req[p2]
        BY <3>0, <4>1 DEF RequestState
      <4>3. clock' = clock + 1 /\ snaps' = snaps
        BY <3>1 DEF AddStamps
      <4> QED
        BY <1>0, <4>2, <4>3 DEF StampsAreOld
    <3>2. CASE AddSeeds(q)
      <4>1. /\ snaps' = snaps \cup {[watch |-> req[q].watch, stamp |-> req[q].stamp,
                                     quote |-> req[q].quote, seed |-> TRUE]}
            /\ clock' = clock
            /\ req[q].stamp <= clock
        BY <3>2 DEF AddSeeds, StampsAreOld
      <4>2. \A p \in Request : req'[p].at = "stamped" => req'[p] = req[p]
        BY <3>0, <3>2 DEF AddSeeds, Free
      <4> QED
        BY <1>0, <4>1, <4>2 DEF StampsAreOld
    <3>3. CASE ~AddStamps(q) /\ ~AddSeeds(q)
      <4>1. snaps' = snaps /\ clock' = clock
        BY <1>15, <3>3 DEF WebStep, AddCheck, ChangeCheck, AddUpsert, AddLooks,
                           RemoveWatched, SetAlert, RequestEnds
      <4>2. \A p \in Request : req'[p].at = "stamped" => req'[p] = req[p]
        <5>1. CASE \E x : x.at # "stamped" /\ req' = [req EXCEPT ![q] = x]
          BY <3>0, <5>1
        <5>2. CASE AddUpsert(q)
          BY <3>0, <5>2 DEF AddUpsert, RequestState
        <5>3. CASE AddLooks(q)
          BY <3>0, <5>3 DEF AddLooks, Free, RequestState
        <5>4. CASE RemoveWatched(q) \/ SetAlert(q) \/ RequestEnds(q)
          BY <3>0, <5>1, <5>4 DEF RemoveWatched, SetAlert, RequestEnds, Free
        <5>5. CASE \E u \in User, w \in Watch :
                     \/ AddCheck(q, u, w)
                     \/ ChangeCheck(q, u, w, "remove", DefaultRule)
                     \/ \E r \in Rule : ChangeCheck(q, u, w, "alert", r)
          BY <3>0, <5>1, <5>5 DEF AddCheck, ChangeCheck, NoRequest
        <5> QED
          BY <1>15, <3>3, <5>2, <5>3, <5>4, <5>5 DEF WebStep
      <4> QED
        BY <1>0, <4>1, <4>2 DEF StampsAreOld
    <3> QED
      BY <3>1, <3>2, <3>3
  <2>3. StampsAreOld'
    <3>1. \A s \in snaps' : s.stamp <= clock'
      BY <1>0, <2>2 DEF StampsAreOld
    <3> QED
      BY <1>0, <2>1, <2>2, <3>1 DEF StampsAreOld
  <2>4. InHandIsNewest' /\ BaselineIsStored' /\ StoredFirst'
    BY <2>1, <2>2 DEF InHandIsNewest, BaselineIsStored, StoredFirst, Scraped
  <2> QED
    BY <2>1, <2>2, <2>3, <2>4, DropsStay
<1>16. CASE UNCHANGED vars
  BY <1>12, <1>16 DEF vars, scraper
<1> QED
  BY <1>1, <1>2, <1>3, <1>4, <1>5, <1>7, <1>8, <1>9, <1>10, <1>11, <1>13, <1>14,
     <1>15, <1>16 DEF Next, ScraperStep

(* Every recorded diff is a drop, by its rule, between two snapshots that   *)
(* are really in the table, the newer of them scraped: a failed insert, a   *)
(* failed read or a concurrent seed never yields an alert from thin air.    *)
THEOREM DropsAreReal == Spec => []DiffsAreRealDrops
<1>1. Init => TypeInv /\ DropInv
  BY TypeInit, DropInit
<1>2. TypeInv /\ DropInv /\ [Next]_vars => (TypeInv /\ DropInv)'
  BY TypeStep, DropStep
<1>3. DropInv => DiffsAreRealDrops
  BY DEF DropInv
<1> QED
  BY <1>1, <1>2, <1>3, PTL DEF Spec

(* The diffs of a watch follow each other: the baseline of one is not older *)
(* than what an earlier one has already compared, and its quote is newer    *)
(* than all that the earlier one compared.                                  *)
BaselineIsAfter ==
  pc \in {"compared", "stored"} /\ prev # None =>
    \A a \in diffs : a.watch = cur.watch => a.to <= prev.stamp
QuoteIsAfter ==
  pc \in {"fetched", "compared", "stored"} =>
    \A a \in diffs : a.from < fetched.stamp /\ a.to < fetched.stamp
Follows(a, b) == a.to < b.to /\ a.to <= b.from /\ a.from < b.to
InSequence ==
  \A a, b \in diffs : a # b /\ a.watch = b.watch => Follows(a, b) \/ Follows(b, a)

(* No two scraped prices have one stamp.                                    *)
ScrapedOnce ==
  \A s, t \in snaps : ~s.seed /\ ~t.seed /\ s.stamp = t.stamp => s = t

OrderInv == BaselineIsAfter /\ QuoteIsAfter /\ InSequence /\ ScrapedOnce

LEMMA OrderInit == Init => OrderInv
  BY DEF Init, OrderInv, BaselineIsAfter, QuoteIsAfter, InSequence, ScrapedOnce

(* What a web request leaves alone.                                         *)
LEMMA WebFrame ==
  ASSUME NEW q \in Request, WebStep(q)
  PROVE  /\ UNCHANGED <<pc, cur, fetched, prev, diffs>>
         /\ snaps \subseteq snaps' /\ \A s \in snaps' \ snaps : s.seed
<1>1. UNCHANGED <<pc, cur, fetched, prev, diffs>>
  BY DEF WebStep, AddCheck, ChangeCheck, AddUpsert, AddLooks, AddStamps, AddSeeds,
         RemoveWatched, SetAlert, RequestEnds, offline, scraper, loop, db
<1>2. CASE AddSeeds(q)
  BY <1>1, <1>2 DEF AddSeeds
<1>3. CASE ~ AddSeeds(q)
  <2>1. UNCHANGED snaps
    BY <1>3 DEF WebStep, AddCheck, ChangeCheck, AddUpsert, AddLooks, AddStamps,
                RemoveWatched, SetAlert, RequestEnds, db
  <2> QED
    BY <1>1, <2>1
<1> QED
  BY <1>2, <1>3

LEMMA OrderStep == TypeInv /\ DropInv /\ OrderInv /\ [Next]_vars => OrderInv'
<1> SUFFICES ASSUME TypeInv, DropInv, OrderInv, [Next]_vars PROVE OrderInv'
  OBVIOUS
<1> USE DEF OrderInv, db, loop, history
<1>1. ASSUME UNCHANGED <<pc, cur, prev, fetched, diffs>>,
             snaps \subseteq snaps', \A s \in snaps' \ snaps : s.seed
      PROVE  OrderInv'
  BY <1>1 DEF BaselineIsAfter, QuoteIsAfter, InSequence, ScrapedOnce
<1>2. ASSUME pc' \notin {"fetched", "compared", "stored"}, UNCHANGED <<snaps, diffs>>
      PROVE  OrderInv'
  BY <1>2 DEF BaselineIsAfter, QuoteIsAfter, InSequence, ScrapedOnce
<1>3. CASE BeginCycle \/ SkipWatch \/ FetchPrice \/ StoreSnapshotFails
             \/ InsertDiffFails \/ LookupSubscribers
  <2>1. CASE SkipWatch
    BY <1>1, <2>1 DEF SkipWatch
  <2>2. CASE FetchPrice
    <3>1. /\ fetched'.stamp = clock + 1 /\ pc' = "fetched"
          /\ UNCHANGED <<snaps, diffs>>
      BY <2>2 DEF FetchPrice
    <3>2. ASSUME NEW a \in diffs PROVE a.from < clock + 1 /\ a.to < clock + 1
      <4>1. a.from \in Nat /\ a.to \in Nat /\ clock \in Nat
        BY ScrapeAssumption DEF TypeInv, TypeOK, DiffRow, Stamp
      <4>2. a.from <= clock /\ a.to <= clock
        BY DEF DropInv, DiffsAreRealDrops, StampsAreOld, SnapsOf
      <4> QED
        BY <4>1, <4>2
    <3> QED
      BY <3>1, <3>2 DEF BaselineIsAfter, QuoteIsAfter, InSequence, ScrapedOnce
  <2>3. CASE ~ SkipWatch /\ ~ FetchPrice
    BY <1>2, <1>3, <2>3 DEF BeginCycle, StoreSnapshotFails, InsertDiffFails,
                            LookupSubscribers, NextWatch
  <2> QED
    BY <2>1, <2>2, <2>3
<1>4. CASE ReadPrevious
  <2>1. /\ prev' \in Latest(cur.watch) \cup {None}
        /\ pc = "fetched" /\ UNCHANGED <<cur, fetched, diffs, snaps>>
    BY <1>4 DEF ReadPrevious
  <2>2. ASSUME prev' # None, NEW a \in diffs, a.watch = cur.watch
        PROVE  a.to <= prev'.stamp
    <3>1. PICK t \in SnapsOf(cur.watch) : t.stamp = a.to
      BY <2>2 DEF DropInv, DiffsAreRealDrops
    <3> QED
      BY <2>1, <2>2, <3>1 DEF Latest
  <2>3. BaselineIsAfter'
    BY <2>1, <2>2 DEF BaselineIsAfter
  <2> QED
    BY <2>1, <2>3 DEF QuoteIsAfter, InSequence, ScrapedOnce
<1>5. CASE StoreSnapshot
  <2>1. /\ snaps' = snaps \cup {Scraped}
        /\ pc = "compared" /\ UNCHANGED diffs
        /\ pc' \in {"next", "stored"}
        /\ pc' = "stored" => UNCHANGED loop
    BY <1>5 DEF StoreSnapshot, Scraped, NextWatch
  <2>2. BaselineIsAfter'
    BY <2>1 DEF BaselineIsAfter
  <2>3. ScrapedOnce'
    <3>1. \A s \in snaps : ~s.seed => s.stamp < Scraped.stamp
      BY <2>1 DEF DropInv, InHandIsNewest, Scraped
    <3>2. Scraped.stamp \in Nat /\ \A s \in snaps : s.stamp \in Nat
      BY <2>1, ScrapeAssumption
         DEF TypeInv, TypeOK, HoldsWatch, Snapshot, Stamp, Fetch, Scraped
    <3> QED
      BY <2>1, <3>1, <3>2 DEF ScrapedOnce
  <2> QED
    BY <2>1, <2>2, <2>3 DEF QuoteIsAfter, InSequence
<1>6. CASE InsertDiff
  <2>1. PICK row \in {[id |-> d, watch |-> cur.watch, old |-> prev.quote,
                       new |-> fetched.quote, rule |-> cur.rule,
                       from |-> prev.stamp, to |-> fetched.stamp] : d \in DiffId} :
          diffs' = diffs \cup {row}
    BY <1>6 DEF InsertDiff
  <2>2. /\ row.watch = cur.watch
        /\ row.from = prev.stamp /\ row.to = fetched.stamp
    OBVIOUS
  <2>3. pc = "stored" /\ prev # None
    BY <1>6 DEF InsertDiff, DropInv, StoredFirst
  <2>4. \A a \in diffs : a.watch = row.watch => Follows(a, row)
    BY <2>2, <2>3 DEF BaselineIsAfter, QuoteIsAfter, Follows
  <2>5. InSequence'
    BY <2>1, <2>4 DEF InSequence, Follows
  <2> QED
    BY <1>6, <2>5 DEF InsertDiff, BaselineIsAfter, QuoteIsAfter, ScrapedOnce
<1>7. ASSUME NEW u \in User, NEW ok \in BOOLEAN, Notify(u, ok) PROVE OrderInv'
  BY <1>2, <1>7 DEF Notify, NextWatch
<1>8. ASSUME NEW ok \in BOOLEAN, MarkNotified(ok) PROVE OrderInv'
  BY <1>2, <1>8 DEF MarkNotified, Stopped
<1>9. CASE Crash
  BY <1>2, <1>9 DEF Crash, Stopped
<1>10. ASSUME NEW u \in User,
              \/ Register(u) \/ Unregister(u)
              \/ \E r \in Reservation : Subscribe(u, r)
              \/ \E line \in Line : RemoveAccount(u, line)
       PROVE  OrderInv'
  BY <1>1, <1>10 DEF Register, Unregister, Subscribe, RemoveAccount, scraper
<1>11. ASSUME NEW r \in Reservation, Sail(r) PROVE OrderInv'
  BY <1>1, <1>11 DEF Sail, scraper
<1>12. ASSUME NEW q \in Request, WebStep(q) PROVE OrderInv'
  BY <1>1, <1>12, WebFrame
<1>13. CASE UNCHANGED vars
  BY <1>1, <1>13 DEF vars, scraper
<1> QED
  BY <1>3, <1>4, <1>5, <1>6, <1>7, <1>8, <1>9, <1>10, <1>11, <1>12, <1>13
     DEF Next, ScraperStep

(* Two diffs follow each other; while no seed overtakes a scraped price,    *)
(* the stamps of each are in order as well, and the baseline of the later   *)
(* diff is a price stored strictly between the two.                         *)
LEMMA OrderedDrops ==
  ASSUME TypeInv, DropInv, OrderInv
  PROVE  OneDiffPerDrop
<1> DEFINE between(a, b) ==
      \E s \in SnapsOf(a.watch) :
        /\ a.to < s.stamp /\ s.stamp < b.to
        /\ s.quote # NoPrice /\ s.quote >= a.rule.threshold
<1> SUFFICES ASSUME NEW a \in diffs, NEW b \in diffs, a # b, a.watch = b.watch,
                    a.to <= b.to
             PROVE  /\ a.to < b.to /\ a.to <= b.from /\ a.from < b.to
                    /\ SeedsComeFirst(a.watch) => a.from # b.from
                    /\ (SeedsComeFirst(a.watch) /\ a.rule = b.rule
                          /\ a.rule.mode = "below_threshold") => between(a, b)
  BY DEF OneDiffPerDrop
<1>1. /\ a \in DiffRow /\ b \in DiffRow
      /\ {a.from, a.to, b.from, b.to} \subseteq Nat
  BY DEF TypeInv, TypeOK, DiffRow, Stamp
<1>2. PICK s1, t1 \in SnapsOf(a.watch) :
        /\ s1.stamp = a.from /\ s1.quote = a.old
        /\ t1.stamp = a.to /\ t1.quote = a.new /\ ~t1.seed
        /\ s1.stamp < t1.stamp \/ s1.seed
  BY DEF DropInv, DiffsAreRealDrops
<1>3. PICK s2, t2 \in SnapsOf(a.watch) :
        /\ s2.stamp = b.from /\ s2.quote = b.old
        /\ t2.stamp = b.to /\ t2.quote = b.new /\ ~t2.seed
        /\ s2.stamp < t2.stamp \/ s2.seed
  BY DEF DropInv, DiffsAreRealDrops
<1>4. a.to < b.to /\ a.to <= b.from /\ a.from < b.to
  BY <1>1 DEF OrderInv, InSequence, Follows
<1>5. ASSUME SeedsComeFirst(a.watch) PROVE a.from < a.to /\ b.from < b.to
  BY <1>2, <1>3, <1>5 DEF SeedsComeFirst
<1>6. ASSUME SeedsComeFirst(a.watch), a.rule = b.rule, a.rule.mode = "below_threshold"
      PROVE  /\ a.to < s2.stamp /\ s2.stamp < b.to
             /\ s2.quote # NoPrice /\ s2.quote >= a.rule.threshold
  <2>1. DetectDiff(a.rule, a.old, a.new) /\ DetectDiff(b.rule, b.old, b.new)
    BY DEF DropInv, DiffsAreRealDrops
  <2>2. a.rule \in Rule /\ {a.new, b.old} \subseteq Nat
    BY <1>1, PriceAssumption DEF DiffRow
  <2>3. a.rule.threshold \in Nat
    BY <1>6, <2>2, PriceAssumption DEF Rule
  <2>4. a.new < a.rule.threshold /\ b.old >= a.rule.threshold /\ b.old # NoPrice
    BY <1>6, <2>1, <2>2, <2>3 DEF DetectDiff
  <2>5. s2 # t1
    BY <1>2, <1>3, <2>2, <2>3, <2>4
  <2>6. s2.stamp # t1.stamp
    <3>1. s2 \in snaps /\ t1 \in snaps /\ s2.seed \in BOOLEAN /\ t1.stamp \in Nat
      BY <1>1, <1>2 DEF SnapsOf, TypeInv, TypeOK, Snapshot
    <3>2. CASE s2.seed
      BY <1>2, <1>6, <3>1, <3>2 DEF SeedsComeFirst
    <3>3. CASE ~s2.seed
      BY <1>2, <2>5, <3>1, <3>3 DEF OrderInv, ScrapedOnce
    <3> QED
      BY <3>2, <3>3
  <2> QED
    BY <1>1, <1>2, <1>3, <1>4, <1>5, <1>6, <2>4, <2>6
<1>7. SeedsComeFirst(a.watch) => a.from # b.from
  BY <1>1, <1>4, <1>5
<1>8. (SeedsComeFirst(a.watch) /\ a.rule = b.rule
         /\ a.rule.mode = "below_threshold") => between(a, b)
  BY <1>3, <1>6
<1> HIDE DEF between
<1> QED
  BY <1>4, <1>7, <1>8

(* One drop is one diff: a snapshot is the baseline of two diffs only if it *)
(* is a seed that overtook the quote of the first, and never of three; two  *)
(* below_threshold diffs have a price at or above the threshold stored in   *)
(* between, as long as no seed is stamped after a scraped price.  Crashed   *)
(* cycles, failed reads and failed inserts do not change that.              *)
THEOREM DropsAreToldOnce == Spec => []OneDiffPerDrop
<1>1. Init => TypeInv /\ DropInv /\ OrderInv
  BY TypeInit, DropInit, OrderInit
<1>2. TypeInv /\ DropInv /\ OrderInv /\ [Next]_vars => (TypeInv /\ DropInv /\ OrderInv)'
  BY TypeStep, DropStep, OrderStep
<1>3. TypeInv /\ DropInv /\ OrderInv => OneDiffPerDrop
  BY OrderedDrops
<1> QED
  BY <1>1, <1>2, <1>3, PTL DEF Spec
=============================================================================
