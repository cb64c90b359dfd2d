----------------------------- MODULE WatchScrape -----------------------------
(***************************************************************************)
(* The authenticated tier's price watch: run_scrape_cycle, one pass of the *)
(* scraper over the active watches, beside the web handlers that add,      *)
(* remove and configure watches and the bot and discovery operations that  *)
(* change who is subscribed.  All of them share one database and nothing   *)
(* else; every database statement or transaction is one step.              *)
(*                                                                         *)
(* The scraper is a CronJob (concurrencyPolicy Forbid): one at a time, all *)
(* of its state in memory, killed and started again at any point.          *)
(*                                                                         *)
(* The price source is a choice of any quote.  Labels, catalog decorations *)
(* and the text of an alert are left out.                                  *)
(***************************************************************************)
EXTENDS AlertRules

CONSTANTS
  User,           \* users known to the database
  Reservation,
  Watch,          \* products_watched rows: (reservation, product) pairs
  ResOf,          \* [Watch -> Reservation]
  LineOf,         \* [Reservation -> cruise line]
  DiffId,         \* ids of diffs rows (bound: how many diffs fit)
  Request,        \* slots for web requests in flight
  None,           \* "no row", "not looked up"
  MaxStamp,       \* bound: snapshots stamped
  MaxCrash        \* bound: scraper crashes

ASSUME ScrapeAssumption ==
  /\ ResOf \in [Watch -> Reservation]
  /\ None \notin User \cup Reservation \cup Watch \cup DiffId \cup Request
  /\ MaxStamp \in Nat
  /\ MaxCrash \in Nat

Line == {LineOf[r] : r \in Reservation}

VARIABLES
  (* the database *)
  registered,     \* users.active = 1
  subs,           \* booking_subscribers: pairs <<user, reservation>>
  watched,        \* products_watched.active = 1
  ruleOf,         \* alert_mode, alert_threshold of every watch row
  departed,       \* reservations whose sail date is today or earlier
  snaps,          \* price_snapshots
  diffs,          \* diffs, without the notified column
  notified,       \* ids of diffs with notified = 1
  (* the scraper's memory *)
  pc,             \* where run_scrape_cycle is
  todo,           \* loaded watches not visited yet: [watch, rule]
  cur,            \* the watch of this iteration: [watch, rule]
  fetched,        \* its fresh quote and the stamp taken at the fetch
  prev,           \* `previous`: a snapshot, or None
  diffId,         \* id of the diff just inserted, or None
  pending,        \* chat ids still to be notified
  anySent,
  cached,         \* keys of subscribers_cache
  cache,          \* its values: [Reservation -> SUBSET User]
  toMark,         \* diffs_to_mark
  (* web requests *)
  req,            \* [Request -> the handler's local state]
  (* the environment *)
  clock,          \* last stamp given by Utc::now()
  crashes,
  (* history *)
  attempts,       \* [DiffId -> [User -> alerts sent or tried]]
  acked,          \* [DiffId -> users whose send returned Ok]
  nobody,         \* diffs whose lookup returned no subscriber
  seen            \* <<user, reservation>> active during the current cycle

db == <<registered, subs, watched, ruleOf, departed, snaps, diffs, notified>>
loop == <<cur, fetched, prev, diffId, pending, anySent>>
scraper == <<pc, todo, loop, cached, cache, toMark>>
history == <<attempts, acked, nobody, seen>>
vars == <<db, scraper, req, clock, crashes, history>>
-----------------------------------------------------------------------------
Stamp == 1..MaxStamp
Loaded == [watch : Watch, rule : Rule]
Fetch == [quote : Quote, stamp : Stamp]
Snapshot == [watch : Watch, stamp : Stamp, quote : Quote, seed : BOOLEAN]

(* A diffs row.  rule, from and to are history: the rule it was detected    *)
(* under and the stamps of the two snapshots it compares.                   *)
DiffRow == [id : DiffId, watch : Watch, old : Price, new : Price,
            rule : Rule, from : Stamp, to : Stamp]

NoRequest == [op |-> "none", at |-> "free", user |-> None, watch |-> None,
              rule |-> DefaultRule, stamp |-> 0, quote |-> NoPrice]
RequestState ==
  [op : {"none", "add", "remove", "alert"},
   at : {"free", "checked", "upserted", "unseeded", "stamped"},
   user : User \cup {None}, watch : Watch \cup {None}, rule : Rule,
   stamp : 0..MaxStamp, quote : Quote]

SnapsOf(w) == {s \in snaps : s.watch = w}

Latest_Oldest(w) ==   \* mutant: ORDER BY fetched_at ASC
  {s \in SnapsOf(w) : \A t \in SnapsOf(w) : s.stamp <= t.stamp}

(* latest_snapshot: ORDER BY fetched_at DESC LIMIT 1 picks one of these     *)
Latest(w) == {s \in SnapsOf(w) : \A t \in SnapsOf(w) : t.stamp <= s.stamp}

ActiveSubscribers_AnyUser(r) == {u \in User : <<u, r>> \in subs}   \* mutant

(* list_subscribers_for_reservation: the join filters on u.active = 1       *)
ActiveSubscribers(r) == {u \in registered : <<u, r>> \in subs}
ActivePairs == {p \in subs : p[1] \in registered}

Owns(u, w) == <<u, ResOf[w]>> \in subs
-----------------------------------------------------------------------------
Init ==
  /\ registered \in SUBSET User
  /\ subs \in SUBSET (User \X Reservation)
  /\ watched \in SUBSET Watch
  /\ ruleOf \in [Watch -> Rule]
  /\ departed = {}
  /\ snaps = {}
  /\ diffs = {}
  /\ notified = {}
  /\ pc = "idle"
  /\ todo = {}
  /\ cur = None
  /\ fetched = None
  /\ prev = None
  /\ diffId = None
  /\ pending = {}
  /\ anySent = FALSE
  /\ cached = {}
  /\ cache = [r \in Reservation |-> {}]
  /\ toMark = {}
  /\ req = [q \in Request |-> NoRequest]
  /\ clock = 0
  /\ crashes = 0
  /\ attempts = [d \in DiffId |-> [u \in User |-> 0]]
  /\ acked = [d \in DiffId |-> {}]
  /\ nobody = {}
  /\ seen = {}
-----------------------------------------------------------------------------
(* The scraper.                                                             *)

(* End of one loop iteration, by `continue` or by its last statement.       *)
NextWatch ==
  /\ pc' = "next"
  /\ cur' = None
  /\ fetched' = None
  /\ prev' = None
  /\ diffId' = None
  /\ pending' = {}
  /\ anySent' = FALSE

(* All of the scraper's memory is gone: the run ended or was killed.        *)
Stopped ==
  /\ pc' = "idle"
  /\ todo' = {}
  /\ cur' = None
  /\ fetched' = None
  /\ prev' = None
  /\ diffId' = None
  /\ pending' = {}
  /\ anySent' = FALSE
  /\ cached' = {}
  /\ cache' = [r \in Reservation |-> {}]
  /\ toMark' = {}

(* main loads the active watches and the bookings, and run_scrape_cycle     *)
(* drops the watches whose booking has sailed.                              *)
BeginCycle ==
  /\ pc = "idle"
  /\ watched # {}
  /\ pc' = "next"
  /\ todo' = {[watch |-> w, rule |-> ruleOf[w]] :
                w \in {v \in watched : ResOf[v] \notin departed}}
  /\ seen' = ActivePairs
  /\ UNCHANGED <<db, loop, cached, cache, toMark, req, clock, crashes,
                 attempts, acked, nobody>>

(* No client for the brand, no passenger id, no voyage, a failed fetch or a *)
(* product gone from the catalog: the iteration ends with nothing written.  *)
SkipWatch ==
  /\ pc = "next"
  /\ \E l \in todo : todo' = todo \ {l}
  /\ UNCHANGED <<db, pc, loop, cached, cache, toMark, req, clock, crashes, history>>

(* A quote arrives and is stamped; nothing is stored yet.                   *)
FetchPrice ==
  /\ pc = "next"
  /\ clock < MaxStamp
  /\ \E l \in todo, q \in Quote :
       /\ todo' = todo \ {l}
       /\ cur' = l
       /\ fetched' = [quote |-> q, stamp |-> clock + 1]
  /\ clock' = clock + 1
  /\ pc' = "fetched"
  /\ UNCHANGED <<db, prev, diffId, pending, anySent, cached, cache, toMark,
                 req, crashes, history>>

(* `.ok().flatten()`: a failed read counts as no previous snapshot.         *)
ReadPrevious ==
  /\ pc = "fetched"
  /\ prev' \in Latest(cur.watch) \cup {None}
  /\ pc' = "compared"
  /\ UNCHANGED <<db, todo, cur, fetched, diffId, pending, anySent, cached, cache,
                 toMark, req, clock, crashes, history>>

StoreSnapshot ==
  /\ pc = "compared"
  /\ snaps' = snaps \cup {[watch |-> cur.watch, stamp |-> fetched.stamp,
                           quote |-> fetched.quote, seed |-> FALSE]}
  /\ IF prev # None /\ DetectDiff(cur.rule, prev.quote, fetched.quote)
       THEN pc' = "stored" /\ UNCHANGED loop
       ELSE NextWatch
  /\ UNCHANGED <<registered, subs, watched, ruleOf, departed, diffs, notified,
                 todo, cached, cache, toMark, req, clock, crashes, history>>

StoreSnapshotFails_GoesOn ==   \* mutant: no `continue` after the failed insert
  /\ pc = "compared"
  /\ IF prev # None /\ DetectDiff(cur.rule, prev.quote, fetched.quote)
       THEN pc' = "stored" /\ UNCHANGED loop
       ELSE NextWatch
  /\ UNCHANGED <<db, todo, cached, cache, toMark, req, clock, crashes, history>>

StoreSnapshotFails ==
  /\ pc = "compared"
  /\ NextWatch
  /\ UNCHANGED <<db, todo, cached, cache, toMark, req, clock, crashes, history>>

(* insert_diff with notified = 0; the row's id is fresh.                    *)
InsertDiff ==
  /\ pc = "stored"
  /\ \E d \in DiffId \ {row.id : row \in diffs} :
       /\ diffs' = diffs \cup
            {[id |-> d, watch |-> cur.watch, old |-> prev.quote,
              new |-> fetched.quote, rule |-> cur.rule,
              from |-> prev.stamp, to |-> fetched.stamp]}
       /\ diffId' = d
  /\ pc' = "diffed"
  /\ UNCHANGED <<registered, subs, watched, ruleOf, departed, snaps, notified,
                 todo, cur, fetched, prev, pending, anySent, cached, cache, toMark,
                 req, clock, crashes, history>>

InsertDiffFails ==
  /\ pc = "stored"
  /\ NextWatch
  /\ UNCHANGED <<db, todo, cached, cache, toMark, req, clock, crashes, history>>

(* The targets of the fan-out come from the cycle's cache, or from the      *)
(* database on the reservation's first diff, where an error counts as       *)
(* nobody.  With nobody to notify the diff is queued for marking at once.   *)
LookupSubscribers ==
  LET r == ResOf[cur.watch] IN
  /\ pc = "diffed"
  /\ \E targets \in IF r \in cached THEN {cache[r]}
                    ELSE {ActiveSubscribers(r), {}} :
       /\ cached' = cached \cup {r}
       /\ cache' = [cache EXCEPT ![r] = targets]
       /\ IF targets = {}
            THEN /\ toMark' = toMark \cup {diffId}
                 /\ nobody' = nobody \cup {diffId}
                 /\ NextWatch
            ELSE /\ pc' = "fanout"
                 /\ pending' = targets
                 /\ UNCHANGED <<cur, fetched, prev, diffId, anySent,
                                toMark, nobody>>
  /\ UNCHANGED <<db, todo, req, clock, crashes, attempts, acked, seen>>

Notify_Retries(u, ok) ==   \* mutant: a failed send is tried again
  /\ pc = "fanout"
  /\ u \in pending
  /\ attempts[diffId][u] < 2
  /\ attempts' = [attempts EXCEPT ![diffId] =
                    [attempts[diffId] EXCEPT ![u] = @ + 1]]
  /\ acked' = [acked EXCEPT ![diffId] = IF ok THEN @ \cup {u} ELSE @]
  /\ IF pending = {u} /\ ok
       THEN toMark' = toMark \cup {diffId} /\ NextWatch
       ELSE /\ pending' = IF ok THEN pending \ {u} ELSE pending
            /\ anySent' = (anySent \/ ok)
            /\ UNCHANGED <<pc, cur, fetched, prev, diffId, toMark>>
  /\ UNCHANGED <<db, todo, cached, cache, req, clock, crashes, nobody, seen>>

Notify_MarksAlways(u, ok) ==   \* mutant: any_sent not consulted
  /\ pc = "fanout"
  /\ u \in pending
  /\ attempts' = [attempts EXCEPT ![diffId] =
                    [attempts[diffId] EXCEPT ![u] = @ + 1]]
  /\ acked' = [acked EXCEPT ![diffId] = IF ok THEN @ \cup {u} ELSE @]
  /\ IF pending = {u}
       THEN toMark' = toMark \cup {diffId} /\ NextWatch
       ELSE /\ pending' = pending \ {u}
            /\ UNCHANGED <<pc, cur, fetched, prev, diffId, anySent, toMark>>
  /\ UNCHANGED <<db, todo, cached, cache, req, clock, crashes, nobody, seen>>

Notify_LastSendDecides(u, ok) ==   \* mutant: any_sent overwritten by each send
  /\ pc = "fanout"
  /\ u \in pending
  /\ attempts' = [attempts EXCEPT ![diffId] =
                    [attempts[diffId] EXCEPT ![u] = @ + 1]]
  /\ acked' = [acked EXCEPT ![diffId] = IF ok THEN @ \cup {u} ELSE @]
  /\ IF pending = {u}
       THEN /\ toMark' = IF ok THEN toMark \cup {diffId} ELSE toMark
            /\ NextWatch
       ELSE /\ pending' = pending \ {u}
            /\ anySent' = ok
            /\ UNCHANGED <<pc, cur, fetched, prev, diffId, toMark>>
  /\ UNCHANGED <<db, todo, cached, cache, req, clock, crashes, nobody, seen>>

(* One send.  The last one ends the iteration and queues the diff when at   *)
(* least one send was acknowledged.                                         *)
Notify(u, ok) ==
  /\ pc = "fanout"
  /\ u \in pending
  /\ attempts' = [attempts EXCEPT ![diffId] =
                    [attempts[diffId] EXCEPT ![u] = @ + 1]]
  /\ acked' = [acked EXCEPT ![diffId] = IF ok THEN @ \cup {u} ELSE @]
  /\ IF pending = {u}
       THEN /\ toMark' = IF anySent \/ ok THEN toMark \cup {diffId} ELSE toMark
            /\ NextWatch
       ELSE /\ pending' = pending \ {u}
            /\ anySent' = (anySent \/ ok)
            /\ UNCHANGED <<pc, cur, fetched, prev, diffId, toMark>>
  /\ UNCHANGED <<db, todo, cached, cache, req, clock, crashes, nobody, seen>>

(* The loop is over: mark_notified on everything queued, in one statement   *)
(* whose failure is only logged, and the process exits.                     *)
MarkNotified(ok) ==
  /\ pc = "next"
  /\ todo = {}
  /\ notified' = IF ok THEN notified \cup toMark ELSE notified
  /\ Stopped
  /\ seen' = {}
  /\ UNCHANGED <<registered, subs, watched, ruleOf, departed, snaps, diffs,
                 req, clock, crashes, attempts, acked, nobody>>

(* The pod is killed between two steps.                                     *)
Crash ==
  /\ pc # "idle"
  /\ crashes < MaxCrash
  /\ crashes' = crashes + 1
  /\ Stopped
  /\ seen' = {}
  /\ UNCHANGED <<db, req, clock, attempts, acked, nobody>>

ScraperStep ==
  \/ BeginCycle
  \/ SkipWatch
  \/ FetchPrice
  \/ ReadPrevious
  \/ StoreSnapshot \/ StoreSnapshotFails
  \/ InsertDiff \/ InsertDiffFails
  \/ LookupSubscribers
  \/ \E u \in User, ok \in BOOLEAN : Notify(u, ok)
  \/ \E ok \in BOOLEAN : MarkNotified(ok)
-----------------------------------------------------------------------------
(* Users, subscriptions and the calendar: single statements or transactions *)
(* of the bot, of discovery and of the account handlers.                    *)

(* A pair that is active at any instant of the running cycle is seen.       *)
Witness ==
  seen' = IF pc = "idle" THEN {}
          ELSE seen \cup {p \in subs' : p[1] \in registered'}

(* upsert_user                                                              *)
Register(u) ==
  /\ u \notin registered
  /\ registered' = registered \cup {u}
  /\ UNCHANGED <<subs, watched, ruleOf, departed, snaps, diffs, notified>>
  /\ Witness
  /\ UNCHANGED <<scraper, req, clock, crashes, attempts, acked, nobody>>

(* deactivate_user: the subscriptions stay                                  *)
Unregister(u) ==
  /\ u \in registered
  /\ registered' = registered \ {u}
  /\ UNCHANGED <<subs, watched, ruleOf, departed, snaps, diffs, notified>>
  /\ Witness
  /\ UNCHANGED <<scraper, req, clock, crashes, attempts, acked, nobody>>

(* subscribe_user_to_booking                                                *)
Subscribe(u, r) ==
  /\ <<u, r>> \notin subs
  /\ subs' = subs \cup {<<u, r>>}
  /\ UNCHANGED <<registered, watched, ruleOf, departed, snaps, diffs, notified>>
  /\ Witness
  /\ UNCHANGED <<scraper, req, clock, crashes, attempts, acked, nobody>>

(* remove_cruise_account: the line's subscriptions go with the account      *)
RemoveAccount(u, line) ==
  /\ subs' = {p \in subs : ~(p[1] = u /\ LineOf[p[2]] = line)}
  /\ subs' # subs
  /\ UNCHANGED <<registered, watched, ruleOf, departed, snaps, diffs, notified>>
  /\ Witness
  /\ UNCHANGED <<scraper, req, clock, crashes, attempts, acked, nobody>>

(* Sail day arrives.                                                        *)
Sail(r) ==
  /\ r \notin departed
  /\ departed' = departed \cup {r}
  /\ UNCHANGED <<registered, subs, watched, ruleOf, snaps, diffs, notified,
                 scraper, req, clock, crashes, history>>
-----------------------------------------------------------------------------
(* The web handlers.  A request reads and writes in separate statements and *)
(* may fail, or die with the process, between any two of them.              *)
offline == <<scraper, crashes, history>>   \* what no web request touches

Free(q) == req' = [req EXCEPT ![q] = NoRequest]

(* add_watched: ownership, then the sail date                               *)
AddCheck(q, u, w) ==
  /\ req[q].at = "free"
  /\ Owns(u, w)
  /\ ResOf[w] \notin departed
  /\ req' = [req EXCEPT ![q] = [NoRequest EXCEPT !.op = "add", !.at = "checked",
                                !.user = u, !.watch = w]]
  /\ UNCHANGED <<db, clock, offline>>

(* upsert_watched: a removed watch comes back with the rule it had          *)
AddUpsert(q) ==
  /\ req[q].op = "add" /\ req[q].at = "checked"
  /\ watched' = watched \cup {req[q].watch}
  /\ req' = [req EXCEPT ![q].at = "upserted"]
  /\ UNCHANGED <<registered, subs, ruleOf, departed, snaps, diffs, notified,
                 clock, offline>>

(* `already_has_snapshot`                                                   *)
AddLooks(q) ==
  /\ req[q].at = "upserted"
  /\ IF SnapsOf(req[q].watch) # {} THEN Free(q)
     ELSE req' = [req EXCEPT ![q].at = "unseeded"]
  /\ UNCHANGED <<db, clock, offline>>

(* The catalog entry's starting price, stamped as if just fetched.          *)
AddStamps(q) ==
  /\ req[q].at = "unseeded"
  /\ clock < MaxStamp
  /\ \E p \in Price :
       req' = [req EXCEPT ![q].at = "stamped", ![q].quote = p,
                          ![q].stamp = clock + 1]
  /\ clock' = clock + 1
  /\ UNCHANGED <<db, offline>>

AddSeeds(q) ==
  /\ req[q].at = "stamped"
  /\ snaps' = snaps \cup {[watch |-> req[q].watch, stamp |-> req[q].stamp,
                           quote |-> req[q].quote, seed |-> TRUE]}
  /\ Free(q)
  /\ UNCHANGED <<registered, subs, watched, ruleOf, departed, diffs, notified,
                 clock, offline>>

(* remove_watched and set_alert: watch_belongs_to_user, then one statement  *)
ChangeCheck(q, u, w, op, r) ==
  /\ req[q].at = "free"
  /\ w \in watched
  /\ Owns(u, w)
  /\ req' = [req EXCEPT ![q] = [NoRequest EXCEPT !.op = op, !.at = "checked",
                                !.user = u, !.watch = w, !.rule = r]]
  /\ UNCHANGED <<db, clock, offline>>

RemoveWatched(q) ==
  /\ req[q].op = "remove"
  /\ watched' = watched \ {req[q].watch}
  /\ Free(q)
  /\ UNCHANGED <<registered, subs, ruleOf, departed, snaps, diffs, notified,
                 clock, offline>>

SetAlert(q) ==
  /\ req[q].op = "alert"
  /\ ruleOf' = [ruleOf EXCEPT ![req[q].watch] = req[q].rule]
  /\ Free(q)
  /\ UNCHANGED <<registered, subs, watched, departed, snaps, diffs, notified,
                 clock, offline>>

(* No catalog entry, an error, or a restart: the request ends here.         *)
RequestEnds(q) ==
  /\ req[q].at # "free"
  /\ Free(q)
  /\ UNCHANGED <<db, clock, offline>>

WebStep(q) ==
  \/ \E u \in User, w \in Watch :
       \/ AddCheck(q, u, w)
       \/ ChangeCheck(q, u, w, "remove", DefaultRule)
       \/ \E r \in Rule : ChangeCheck(q, u, w, "alert", r)
  \/ AddUpsert(q) \/ AddLooks(q) \/ AddStamps(q) \/ AddSeeds(q)
  \/ RemoveWatched(q) \/ SetAlert(q) \/ RequestEnds(q)
-----------------------------------------------------------------------------
Next ==
  \/ ScraperStep
  \/ Crash
  \/ \E u \in User : Register(u) \/ Unregister(u)
  \/ \E u \in User, r \in Reservation : Subscribe(u, r)
  \/ \E u \in User, line \in Line : RemoveAccount(u, line)
  \/ \E r \in Reservation : Sail(r)
  \/ \E q \in Request : WebStep(q)

Spec == Init /\ [][Next]_vars

-----------------------------------------------------------------------------
TypeOK ==
  /\ registered \in SUBSET User
  /\ subs \in SUBSET (User \X Reservation)
  /\ watched \in SUBSET Watch
  /\ ruleOf \in [Watch -> Rule]
  /\ departed \in SUBSET Reservation
  /\ snaps \in SUBSET Snapshot
  /\ diffs \in SUBSET DiffRow
  /\ notified \in SUBSET DiffId
  /\ pc \in {"idle", "next", "fetched", "compared", "stored", "diffed", "fanout"}
  /\ todo \in SUBSET Loaded
  /\ cur \in Loaded \cup {None}
  /\ fetched \in Fetch \cup {None}
  /\ prev \in Snapshot \cup {None}
  /\ diffId \in DiffId \cup {None}
  /\ pending \in SUBSET User
  /\ anySent \in BOOLEAN
  /\ cached \in SUBSET Reservation
  /\ cache \in [Reservation -> SUBSET User]
  /\ toMark \in SUBSET DiffId
  /\ req \in [Request -> RequestState]
  /\ clock \in 0..MaxStamp
  /\ crashes \in 0..MaxCrash
  /\ attempts \in [DiffId -> [User -> Nat]]
  /\ acked \in [DiffId -> SUBSET User]
  /\ nobody \in SUBSET DiffId
  /\ seen \in SUBSET (User \X Reservation)

(* No user is alerted twice of one drop: crashes, restarts, cached targets  *)
(* and failed sends never make run_scrape_cycle send the same diff to the   *)
(* same chat again.                                                         *)
AtMostOneAlert == \A d \in DiffId, u \in User : attempts[d][u] <= 1

(* diffs.notified tells the truth: a row is marked only if some send of it  *)
(* was acknowledged or its lookup found nobody to notify, although marking  *)
(* is batched at the end of the cycle and apart from the sends.             *)
NotifiedIsHonest ==
  \A d \in notified : acked[d] # {} \/ d \in nobody

(* An alert goes only to a user who was registered and subscribed to the    *)
(* watch's reservation at some instant of the running cycle: the subscriber *)
(* cache is never older than the cycle, however often it is hit.            *)
AlertsGoToSubscribers ==
  [][\A row \in diffs, u \in User :
       attempts'[row.id][u] # attempts[row.id][u]
         => <<u, ResOf[row.watch]>> \in seen]_vars

(* Every diff is a drop between two stored snapshots of its watch that its  *)
(* rule calls an alert; the baseline is the older of the two unless a seed  *)
(* was stamped while the scraper held its quote.                            *)
DiffsAreRealDrops ==
  \A row \in diffs :
    /\ DetectDiff(row.rule, row.old, row.new)
    /\ \E s, t \in SnapsOf(row.watch) :
         /\ s.stamp = row.from /\ s.quote = row.old
         /\ t.stamp = row.to /\ t.quote = row.new /\ ~t.seed
         /\ s.stamp < t.stamp \/ s.seed

(* The rows of w were stored in the order of their stamps, as far as the    *)
(* table shows it: no seed is stamped later than a scraped snapshot.        *)
SeedsComeFirst(w) ==
  \A s, t \in SnapsOf(w) : s.seed /\ ~t.seed => s.stamp < t.stamp

(* One drop is one diff.  Of two diffs of a watch the later compares with a *)
(* baseline no older than the quote that ended the earlier, which in turn   *)
(* knew its baseline before the later quote came: a seed that overtakes a   *)
(* quote in hand is compared with that one and the next, and never again.   *)
(* While no seed overtakes a scraped price, no snapshot is the baseline of  *)
(* two diffs, and two below_threshold diffs of one threshold have a stored  *)
(* price at or above it between them.                                       *)
OneDiffPerDrop ==
  \A a, b \in diffs :
    (a # b /\ a.watch = b.watch /\ a.to <= b.to) =>
      /\ a.to < b.to
      /\ a.to <= b.from /\ a.from < b.to
      /\ SeedsComeFirst(a.watch) => a.from # b.from
      /\ (SeedsComeFirst(a.watch) /\ a.rule = b.rule /\ a.rule.mode = "below_threshold") =>
           \E s \in SnapsOf(a.watch) :
             /\ a.to < s.stamp /\ s.stamp < b.to
             /\ s.quote # NoPrice /\ s.quote >= a.rule.threshold

(* The scraper implements the ledger of AlertLedger: one diff open at a     *)
(* time, each user told once, nobody told after the diff is closed, and     *)
(* only diffs that reached somebody, or had nobody to reach, marked.        *)
Ledger == INSTANCE AlertLedger WITH
  rows <- {row.id : row \in diffs},
  open <- IF pc \in {"diffed", "fanout"} THEN diffId ELSE None,
  told <- [d \in DiffId |-> {u \in User : attempts[d][u] > 0}],
  unwanted <- nobody,
  marked <- notified

ImplementsLedger == Ledger!Spec

(* A cycle that is not killed comes to an end, whatever fails in it.        *)
CycleEnds == pc # "idle" ~> pc = "idle"

(* In a cycle that is not killed and whose mark_notified succeeds, a drop   *)
(* that reached somebody ends up marked.                                    *)
AckedIsMarked == \A d \in DiffId : acked[d] # {} ~> d \in notified
=============================================================================
