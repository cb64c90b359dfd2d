----------------------------- MODULE PublicSweep -----------------------------
(***************************************************************************)
(* The public, no-login tier: run_public_sweep, the scraper's pass over    *)
(* the tracked products of every sailing still to leave, beside the web    *)
(* handlers that look prices up (and store them), subscribe a browser and  *)
(* remove a subscription.  They share one database and nothing else; every *)
(* database statement is one step.                                         *)
(*                                                                         *)
(* A sailing's catalog is a choice of any quote for any of its products.   *)
(* A Princess sailing is one the schedule knows.  Titles, labels, units    *)
(* and the pacing between sailings are left out.                           *)
(***************************************************************************)
EXTENDS AlertRules

CONSTANTS
  Sailing,
  Product,        \* tracked_products rows: (sailing, product code) pairs
  SailingOf,      \* [Product -> Sailing]
  Princess,       \* the sailings of the Princess brand
  HasClient,      \* the scraper could build its Princess client
  Endpoint,       \* push endpoints; each is one public_channels row
  Device,         \* device cookies
  DiffId,         \* ids of sailing_diffs rows (bound: how many fit)
  Request,        \* slots for web requests in flight
  None,           \* "no row", "not looked up"
  FreshFor,       \* FRESH_HOURS, in units of the clock
  MaxStamp,       \* bound: instants
  MaxFail,        \* bound: consecutive failures counted
  MaxCrash        \* bound: scraper crashes

ASSUME SweepAssumption ==
  /\ SailingOf \in [Product -> Sailing]
  /\ Princess \subseteq Sailing
  /\ HasClient \in BOOLEAN
  /\ None \notin Sailing \cup Product \cup Endpoint \cup Device
                  \cup DiffId \cup Request
  /\ FreshFor \in Nat
  /\ MaxStamp \in Nat
  /\ MaxFail \in Nat
  /\ MaxCrash \in Nat

VARIABLES
  (* the database *)
  tracked,      \* rows of tracked_products (none is ever made inactive)
  departed,     \* sailings with sail_date <= today
  snaps,        \* sailing_price_snapshots
  failures,     \* consecutive_failures of every product
  diffs,        \* sailing_diffs, without the notified column
  notified,     \* ids of sailing_diffs with notified = 1
  owner,        \* device_token of every channel; None when there is no row
  ruleOf,       \* [Endpoint -> [Product -> rule of the row, or None]]
  active,       \* public_subscriptions.active = 1: pairs <<endpoint, product>>
  (* the sweep's memory *)
  pc,
  todo,         \* targets of the groups not visited yet
  group,        \* targets of the current group not visited yet
  cur,          \* `tp`
  prev,         \* `prev`: a snapshot, or None
  fetched,      \* `snap`: the quote and its stamp
  diffId,       \* `diff_id`: a row id, or None
  pending,      \* qualifying subscribers still to be notified
  anySent,
  dead,         \* the endpoint that answered "gone"
  (* web requests *)
  req,
  (* the environment *)
  clock,
  crashes,
  (* history *)
  drops,        \* price drops detected, whether or not their row was stored
  alerts,       \* alerts sent or tried
  acked,        \* diffs with an acknowledged alert
  nobody,       \* diffs whose listing had no qualifying subscriber
  seen,         \* pairs active at some instant since `tp` was taken up
  gone          \* endpoints deactivated as gone and not subscribed since

db == <<tracked, departed, snaps, failures, diffs, notified, owner, ruleOf, active>>
loop == <<cur, prev, fetched, diffId, pending, anySent, dead>>
sweep == <<pc, todo, group, loop>>
env == <<clock, crashes>>
history == <<drops, alerts, acked, nobody, seen, gone>>
vars == <<db, sweep, req, env, history>>
-----------------------------------------------------------------------------
Stamp == 1..MaxStamp
Snapshot == [product : Product, stamp : Stamp, quote : Quote]
Fetch == [quote : Quote, stamp : Stamp]

(* subscribe stores whatever mode and threshold it is given: a              *)
(* below_threshold rule may lack its threshold.                             *)
PublicRule == [mode : AlertMode, threshold : Threshold \cup {NoThreshold}]

Drop == [product : Product, old : Price, new : Price, from : Stamp, to : Stamp]
DiffRow == [id : DiffId, drop : Drop]
Target == [endpoint : Endpoint, rule : PublicRule]
Alert == [endpoint : Endpoint, rule : PublicRule, drop : Drop]

NoRequest == [op |-> "none", at |-> "free", left |-> {}, product |-> None,
              stamp |-> 0, quote |-> NoPrice, endpoint |-> None,
              device |-> None, rule |-> None]
RequestState ==
  [op : {"none", "lookup", "subscribe"},
   at : {"free", "catalog", "stamped", "stored", "tracked", "channel"},
   left : SUBSET Product, product : Product \cup {None},
   stamp : 0..MaxStamp, quote : Quote, endpoint : Endpoint \cup {None},
   device : Device \cup {None}, rule : PublicRule \cup {None}]

ProductsOf(s) == {p \in Product : SailingOf[p] = s}
SnapsOf(p) == {s \in snaps : s.product = p}

Latest_Oldest(p) ==   \* mutant: ORDER BY fetched_at ASC
  {s \in SnapsOf(p) : \A t \in SnapsOf(p) : s.stamp <= t.stamp}

(* latest_sailing_snapshot: ORDER BY fetched_at DESC LIMIT 1                *)
Latest(p) == {s \in SnapsOf(p) : \A t \in SnapsOf(p) : t.stamp <= s.stamp}

Targets == {p \in tracked : SailingOf[p] \notin departed}

ActiveEndpoints_All(p) ==   \* mutant: no filter on ps.active
  {e \in Endpoint : ruleOf[e][p] # None}

ActiveEndpoints(p) == {e \in Endpoint : <<e, p>> \in active}

(* prices: one fresh row makes the whole cached answer fresh                *)
IsFresh(s) ==
  \E p \in tracked \cap ProductsOf(s) : \E t \in Latest(p) :
    t.stamp >= clock - FreshFor
-----------------------------------------------------------------------------
(* The database may already hold prices and subscriptions.                  *)
Init ==
  /\ tracked \in SUBSET Product
  /\ departed = {}
  /\ clock \in 0..MaxStamp
  /\ snaps \in SUBSET Snapshot
  /\ \A s \in snaps : s.stamp <= clock
  /\ \A s, t \in snaps : s.product = t.product /\ s.stamp = t.stamp => s = t
  /\ failures = [p \in Product |-> 0]
  /\ diffs = {}
  /\ notified = {}
  /\ owner \in [Endpoint -> Device \cup {None}]
  /\ ruleOf \in [Endpoint -> [Product -> PublicRule \cup {None}]]
  /\ \A e \in Endpoint, p \in Product :
       ruleOf[e][p] # None => owner[e] # None /\ p \in tracked
  /\ active \in SUBSET {x \in Endpoint \X Product : ruleOf[x[1]][x[2]] # None}
  /\ pc = "idle"
  /\ todo = {}
  /\ group = {}
  /\ cur = None
  /\ prev = None
  /\ fetched = None
  /\ diffId = None
  /\ pending = {}
  /\ anySent = FALSE
  /\ dead = None
  /\ req = [q \in Request |-> NoRequest]
  /\ crashes = 0
  /\ drops = {}
  /\ alerts = {}
  /\ acked = {}
  /\ nobody = {}
  /\ seen = {}
  /\ gone = {}
-----------------------------------------------------------------------------
(* The sweep.                                                               *)

Forget ==
  /\ cur' = None
  /\ prev' = None
  /\ fetched' = None
  /\ diffId' = None
  /\ pending' = {}
  /\ anySent' = FALSE
  /\ dead' = None

(* sweep_one returns; the loop goes on with the group, or the next one.     *)
NextTarget ==
  /\ pc' = IF group = {} THEN "groups" ELSE "products"
  /\ Forget

BeginSweep ==
  /\ pc = "idle"
  /\ Targets # {}
  /\ pc' = "groups"
  /\ todo' = Targets
  /\ UNCHANGED <<db, group, loop, req, env, drops, alerts, acked, nobody, seen,
                 gone>>

EndSweep ==
  /\ pc = "groups"
  /\ todo = {}
  /\ pc' = "idle"
  /\ UNCHANGED <<db, todo, group, loop, req, env, history>>

(* The groups come out of a HashMap in no particular order.                 *)
GroupOf(s) == todo \cap ProductsOf(s)

SkipPrincess_Stays(s) ==   \* mutant: waits for a client
  /\ pc = "groups"
  /\ GroupOf(s) # {}
  /\ s \in Princess /\ ~HasClient
  /\ UNCHANGED <<db, pc, todo, group, loop, req, env, drops, alerts, acked, nobody,
                 seen, gone>>

SkipPrincess(s) ==
  /\ pc = "groups"
  /\ GroupOf(s) # {}
  /\ s \in Princess /\ ~HasClient
  /\ todo' = todo \ GroupOf(s)
  /\ UNCHANGED <<db, pc, group, loop, req, env, drops, alerts, acked, nobody,
                 seen, gone>>

(* One fetch per sailing: a catalog, an error (as for a Princess sailing    *)
(* without a voyage), or a planner that is not open yet.                    *)
FetchGroup(s, result) ==
  /\ pc = "groups"
  /\ GroupOf(s) # {}
  /\ s \in Princess => HasClient
  /\ todo' = todo \ GroupOf(s)
  /\ CASE result = "catalog" -> pc' = "products" /\ group' = GroupOf(s)
       [] result = "error"   -> pc' = "failing" /\ group' = GroupOf(s)
       [] result = "closed"  -> UNCHANGED <<pc, group>>
  /\ UNCHANGED <<db, loop, req, env, history>>

(* note_fetch_failure: the group's fetch failed, or the product is gone     *)
(* from the catalog.  Its own error is ignored.                             *)
NoteFailure(p, ok) ==
  /\ pc \in {"products", "failing"}
  /\ p \in group
  /\ ok => failures[p] < MaxFail
  /\ failures' = [failures EXCEPT ![p] = IF ok THEN @ + 1 ELSE @]
  /\ group' = group \ {p}
  /\ pc' = IF group = {p} THEN "groups" ELSE pc
  /\ UNCHANGED <<tracked, departed, snaps, diffs, notified, owner, ruleOf, active,
                 todo, loop, req, env, drops, alerts, acked, nobody, seen, gone>>

(* sweep_one reads the previous price (an error counts as none) and stamps  *)
(* the fetched one.                                                         *)
ReadPrevious(p) ==
  /\ pc = "products"
  /\ p \in group
  /\ clock < MaxStamp
  /\ group' = group \ {p}
  /\ cur' = p
  /\ prev' \in Latest(p) \cup {None}
  /\ \E q \in Quote : fetched' = [quote |-> q, stamp |-> clock + 1]
  /\ clock' = clock + 1
  /\ pc' = "read"
  /\ seen' = active
  /\ UNCHANGED <<db, todo, diffId, pending, anySent, dead, req, crashes, drops,
                 alerts, acked, nobody, gone>>

(* record_public_price, its INSERT                                          *)
StorePrice ==
  /\ pc = "read"
  /\ snaps' = snaps \cup {[product |-> cur, stamp |-> fetched.stamp,
                           quote |-> fetched.quote]}
  /\ pc' = "stored"
  /\ UNCHANGED <<tracked, departed, failures, diffs, notified, owner, ruleOf,
                 active, todo, group, loop, req, env, drops, alerts, acked,
                 nobody, seen, gone>>

StorePriceFails_GoesOn ==   \* mutant: logs the error and goes on
  /\ pc = "read"
  /\ pc' = "stored"
  /\ UNCHANGED <<db, todo, group, loop, req, env, history>>

StorePriceFails ==
  /\ pc = "read"
  /\ NextTarget
  /\ UNCHANGED <<db, todo, group, req, env, history>>

IsDrop(s, t) ==
  /\ s # None
  /\ s.quote # NoPrice
  /\ t.quote # NoPrice
  /\ ~(t.quote >= s.quote)

ThisDrop == [product |-> cur, old |-> prev.quote, new |-> fetched.quote,
             from |-> prev.stamp, to |-> fetched.stamp]

(* record_public_price, its UPDATE, after which sweep_one compares.  When   *)
(* the UPDATE fails sweep_one returns, although the price is stored.        *)
ResetFailures ==
  /\ pc = "stored"
  /\ failures' = [failures EXCEPT ![cur] = 0]
  /\ IF IsDrop(prev, fetched)
       THEN /\ pc' = "drop"
            /\ drops' = drops \cup {ThisDrop}
            /\ UNCHANGED loop
       ELSE NextTarget /\ UNCHANGED drops
  /\ UNCHANGED <<tracked, departed, snaps, diffs, notified, owner, ruleOf, active,
                 todo, group, req, env, alerts, acked, nobody, seen, gone>>

ResetFailuresFails ==
  /\ pc = "stored"
  /\ NextTarget
  /\ UNCHANGED <<db, todo, group, req, env, history>>

(* insert_sailing_diff: `.ok()`, the alerts go out without a row as well.   *)
InsertDiff ==
  /\ pc = "drop"
  /\ \E d \in DiffId \ {row.id : row \in diffs} :
       /\ diffs' = diffs \cup {[id |-> d, drop |-> ThisDrop]}
       /\ diffId' = d
  /\ pc' = "diffed"
  /\ UNCHANGED <<tracked, departed, snaps, failures, notified, owner, ruleOf,
                 active, todo, group, cur, prev, fetched, pending, anySent, dead,
                 req, env, history>>

InsertDiffFails ==
  /\ pc = "drop"
  /\ pc' = "diffed"
  /\ UNCHANGED <<db, todo, group, loop, req, env, history>>

EndFanOut_Always(sent) ==   \* mutant: marks whatever became of the alerts
  IF diffId # None
    THEN pc' = "mark" /\ UNCHANGED loop
    ELSE NextTarget

(* The end of the fan-out: mark_sailing_notified if there is a row and      *)
(* somebody was reached.                                                    *)
EndFanOut(sent) ==
  IF diffId # None /\ sent
    THEN pc' = "mark" /\ UNCHANGED loop
    ELSE NextTarget

(* list_public_subscriptions_for, where an error counts as no subscriber,   *)
(* and the loop's `continue` over those whose rule does not qualify.        *)
ListSubscriptions ==
  /\ pc = "diffed"
  /\ \E subs \in {ActiveEndpoints(cur), {}} :
       LET wanted == {e \in subs : Qualifies(ruleOf[e][cur], prev.quote, fetched.quote)}
       IN
       /\ nobody' = IF wanted = {} /\ diffId # None THEN nobody \cup {diffId} ELSE nobody
       /\ IF wanted = {} THEN EndFanOut(subs = {})
          ELSE /\ pc' = "fanout"
               /\ pending' = {[endpoint |-> e, rule |-> ruleOf[e][cur]] : e \in wanted}
               /\ UNCHANGED <<cur, prev, fetched, diffId, anySent, dead>>
  /\ UNCHANGED <<db, todo, group, req, env, drops, alerts, acked, seen, gone>>

(* notify_price_drop                                                        *)
Send(x, outcome) ==
  /\ pc = "fanout"
  /\ x \in pending
  /\ alerts' = alerts \cup {[endpoint |-> x.endpoint, rule |-> x.rule, drop |-> ThisDrop]}
  /\ acked' = IF outcome = "ok" /\ diffId # None THEN acked \cup {diffId} ELSE acked
  /\ IF outcome = "gone"
       THEN /\ pc' = "gone"
            /\ dead' = x.endpoint
            /\ pending' = pending \ {x}
            /\ UNCHANGED <<cur, prev, fetched, diffId, anySent>>
     ELSE IF pending = {x} THEN EndFanOut(anySent \/ outcome = "ok")
     ELSE /\ pending' = pending \ {x}
          /\ anySent' = (anySent \/ outcome = "ok")
          /\ UNCHANGED <<pc, cur, prev, fetched, diffId, dead>>
  /\ UNCHANGED <<db, todo, group, req, env, drops, nobody, seen, gone>>

Deactivate_OnlyThis(ok) ==   \* mutant: deactivates this subscription alone
  /\ pc = "gone"
  /\ active' = IF ok THEN active \ {<<dead, cur>>} ELSE active
  /\ gone' = IF ok THEN gone \cup {dead} ELSE gone
  /\ IF pending = {} THEN EndFanOut(anySent)
     ELSE /\ pc' = "fanout"
          /\ dead' = None
          /\ UNCHANGED <<cur, prev, fetched, diffId, pending, anySent>>
  /\ UNCHANGED <<tracked, departed, snaps, failures, diffs, notified, owner, ruleOf,
                 todo, group, req, env, drops, alerts, acked, nobody, seen>>

(* deactivate_channel_by_endpoint; its error is ignored.                    *)
Deactivate(ok) ==
  /\ pc = "gone"
  /\ active' = IF ok THEN {x \in active : x[1] # dead} ELSE active
  /\ gone' = IF ok THEN gone \cup {dead} ELSE gone
  /\ IF pending = {} THEN EndFanOut(anySent)
     ELSE /\ pc' = "fanout"
          /\ dead' = None
          /\ UNCHANGED <<cur, prev, fetched, diffId, pending, anySent>>
  /\ UNCHANGED <<tracked, departed, snaps, failures, diffs, notified, owner, ruleOf,
                 todo, group, req, env, drops, alerts, acked, nobody, seen>>

(* mark_sailing_notified; its error is ignored.                             *)
Mark(ok) ==
  /\ pc = "mark"
  /\ notified' = IF ok THEN notified \cup {diffId} ELSE notified
  /\ NextTarget
  /\ UNCHANGED <<tracked, departed, snaps, failures, diffs, owner, ruleOf, active,
                 todo, group, req, env, history>>

(* The pod is killed between two steps.                                     *)
Crash ==
  /\ pc # "idle"
  /\ crashes < MaxCrash
  /\ crashes' = crashes + 1
  /\ pc' = "idle"
  /\ todo' = {}
  /\ group' = {}
  /\ Forget
  /\ UNCHANGED <<db, req, clock, history>>

SweepStep ==
  \/ BeginSweep \/ EndSweep
  \/ \E s \in Sailing :
       SkipPrincess(s) \/ \E r \in {"catalog", "error", "closed"} : FetchGroup(s, r)
  \/ \E p \in Product : ReadPrevious(p) \/ \E ok \in BOOLEAN : NoteFailure(p, ok)
  \/ StorePrice \/ StorePriceFails
  \/ ResetFailures \/ ResetFailuresFails
  \/ InsertDiff \/ InsertDiffFails
  \/ ListSubscriptions
  \/ \E x \in pending, outcome \in {"ok", "gone", "error"} : Send(x, outcome)
  \/ \E ok \in BOOLEAN : Deactivate(ok) \/ Mark(ok)
-----------------------------------------------------------------------------
(* The web handlers.  A request may fail, or die with its process, between  *)
(* any two statements.                                                      *)
Free(q) == req' = [req EXCEPT ![q] = NoRequest]

(* prices: nothing fresh is cached, and the live fetch found a catalog.     *)
LookupFetches(q, s) ==
  /\ req[q].at = "free"
  /\ ~IsFresh(s)
  /\ \E ps \in SUBSET ProductsOf(s) \ {{}} :
       req' = [req EXCEPT ![q] = [NoRequest EXCEPT
                 !.op = "lookup", !.at = "catalog", !.left = ps]]
  /\ UNCHANGED <<db, sweep, env, history>>

(* upsert_tracked_product, then the snapshot's stamp is taken.              *)
LookupTracks(q, p) ==
  /\ req[q].at = "catalog"
  /\ p \in req[q].left
  /\ clock < MaxStamp
  /\ tracked' = tracked \cup {p}
  /\ clock' = clock + 1
  /\ \E c \in Quote :
       req' = [req EXCEPT ![q].at = "stamped", ![q].left = @ \ {p},
                 ![q].product = p, ![q].quote = c, ![q].stamp = clock + 1]
  /\ UNCHANGED <<departed, snaps, failures, diffs, notified, owner, ruleOf, active,
                 sweep, crashes, history>>

(* record_public_price, its INSERT                                          *)
LookupStores(q) ==
  /\ req[q].at = "stamped"
  /\ snaps' = snaps \cup {[product |-> req[q].product, stamp |-> req[q].stamp,
                           quote |-> req[q].quote]}
  /\ req' = [req EXCEPT ![q].at = "stored"]
  /\ UNCHANGED <<tracked, departed, failures, diffs, notified, owner, ruleOf,
                 active, sweep, env, drops, alerts, acked, nobody, seen, gone>>

(* ... and its UPDATE                                                       *)
LookupResets(q) ==
  /\ req[q].at = "stored"
  /\ failures' = [failures EXCEPT ![req[q].product] = 0]
  /\ req' = [req EXCEPT ![q].at = "catalog", ![q].product = None,
               ![q].quote = NoPrice, ![q].stamp = 0]
  /\ UNCHANGED <<tracked, departed, snaps, diffs, notified, owner, ruleOf, active,
                 sweep, env, history>>

(* record_public_price fails in either statement: logged, the lookup goes   *)
(* on with its next product.                                                *)
LookupRecordFails(q) ==
  /\ req[q].at \in {"stamped", "stored"}
  /\ req' = [req EXCEPT ![q].at = "catalog", ![q].product = None,
               ![q].quote = NoPrice, ![q].stamp = 0]
  /\ UNCHANGED <<db, sweep, env, history>>

(* subscribe: the sailing and its product first                             *)
SubscribeTracks(q, e, p, v, r) ==
  /\ req[q].at = "free"
  /\ tracked' = tracked \cup {p}
  /\ req' = [req EXCEPT ![q] = [NoRequest EXCEPT
               !.op = "subscribe", !.at = "tracked", !.product = p,
               !.endpoint = e, !.device = v, !.rule = r]]
  /\ UNCHANGED <<departed, snaps, failures, diffs, notified, owner, ruleOf, active,
                 sweep, env, history>>

(* upsert_public_channel: the last device to come with an endpoint owns it  *)
SubscribeChannel(q) ==
  /\ req[q].at = "tracked"
  /\ owner' = [owner EXCEPT ![req[q].endpoint] = req[q].device]
  /\ req' = [req EXCEPT ![q].at = "channel"]
  /\ UNCHANGED <<tracked, departed, snaps, failures, diffs, notified, ruleOf,
                 active, sweep, env, history>>

(* subscribe_public: a new row, or the old one with a new rule, active      *)
SubscribeRow(q) ==
  LET e == req[q].endpoint
      p == req[q].product
  IN
  /\ req[q].at = "channel"
  /\ ruleOf' = [ruleOf EXCEPT ![e] = [ruleOf[e] EXCEPT ![p] = req[q].rule]]
  /\ active' = active \cup {<<e, p>>}
  /\ seen' = seen \cup {<<e, p>>}
  /\ gone' = gone \ {e}
  /\ Free(q)
  /\ UNCHANGED <<tracked, departed, snaps, failures, diffs, notified, owner, sweep,
                 env, drops, alerts, acked, nobody>>

(* The request ends: done, refused or failed.                               *)
RequestEnds(q) ==
  /\ req[q].at # "free"
  /\ Free(q)
  /\ UNCHANGED <<db, sweep, env, history>>

(* remove_subscription: one statement, scoped to the device                 *)
RemoveSubscription(v, e, p) ==
  /\ owner[e] = v
  /\ <<e, p>> \in active
  /\ active' = active \ {<<e, p>>}
  /\ UNCHANGED <<tracked, departed, snaps, failures, diffs, notified, owner, ruleOf,
                 sweep, req, env, history>>

WebStep(q) ==
  \/ \E s \in Sailing : LookupFetches(q, s)
  \/ \E p \in Product : LookupTracks(q, p)
  \/ LookupStores(q) \/ LookupResets(q) \/ LookupRecordFails(q)
  \/ \E e \in Endpoint, p \in Product, v \in Device, r \in PublicRule :
       SubscribeTracks(q, e, p, v, r)
  \/ SubscribeChannel(q) \/ SubscribeRow(q) \/ RequestEnds(q)
-----------------------------------------------------------------------------
Depart(s) ==
  /\ s \notin departed
  /\ departed' = departed \cup {s}
  /\ UNCHANGED <<tracked, snaps, failures, diffs, notified, owner, ruleOf, active,
                 sweep, req, env, history>>

(* Time passes: what is cached grows old.                                   *)
Tick ==
  /\ clock < MaxStamp
  /\ clock' = clock + 1
  /\ UNCHANGED <<db, sweep, req, crashes, history>>

Next ==
  \/ SweepStep
  \/ Crash
  \/ \E q \in Request : WebStep(q)
  \/ \E v \in Device, e \in Endpoint, p \in Product : RemoveSubscription(v, e, p)
  \/ \E s \in Sailing : Depart(s)
  \/ Tick

Spec == Init /\ [][Next]_vars
-----------------------------------------------------------------------------
TypeOK ==
  /\ tracked \in SUBSET Product
  /\ departed \in SUBSET Sailing
  /\ snaps \in SUBSET Snapshot
  /\ failures \in [Product -> 0..MaxFail]
  /\ diffs \in SUBSET DiffRow
  /\ notified \in SUBSET DiffId
  /\ owner \in [Endpoint -> Device \cup {None}]
  /\ ruleOf \in [Endpoint -> [Product -> PublicRule \cup {None}]]
  /\ active \in SUBSET (Endpoint \X Product)
  /\ pc \in {"idle", "groups", "products", "failing", "read", "stored", "drop",
             "diffed", "fanout", "gone", "mark"}
  /\ todo \in SUBSET Product
  /\ group \in SUBSET Product
  /\ cur \in Product \cup {None}
  /\ prev \in Snapshot \cup {None}
  /\ fetched \in Fetch \cup {None}
  /\ diffId \in DiffId \cup {None}
  /\ pending \in SUBSET Target
  /\ anySent \in BOOLEAN
  /\ dead \in Endpoint \cup {None}
  /\ req \in [Request -> RequestState]
  /\ clock \in 0..MaxStamp
  /\ crashes \in 0..MaxCrash
  /\ drops \in SUBSET Drop
  /\ alerts \in SUBSET Alert
  /\ acked \in SUBSET DiffId
  /\ nobody \in SUBSET DiffId
  /\ seen \in SUBSET (Endpoint \X Product)
  /\ gone \in SUBSET Endpoint

(* A drop is a fall between two stored, promotional prices of its product,  *)
(* the earlier one as the baseline, whatever lookups store meanwhile: a     *)
(* price that appears or disappears is no drop.                             *)
DropsAreReal ==
  \A d \in drops :
    /\ d.from < d.to /\ d.new < d.old
    /\ [product |-> d.product, stamp |-> d.from, quote |-> d.old] \in snaps
    /\ [product |-> d.product, stamp |-> d.to, quote |-> d.new] \in snaps

(* The same fall is never detected twice: the spans of two drops of one     *)
(* product do not overlap, although lookups store prices between the        *)
(* sweep's read and its insert.                                             *)
DropsDoNotOverlap ==
  \A a, b \in drops :
    a.product = b.product => a = b \/ a.to <= b.from \/ b.to <= a.from

(* A threshold alert is one-shot: between two alerts of one endpoint under  *)
(* one below_threshold rule, a price at or above the threshold was stored.  *)
CrossingOnce ==
  \A a, b \in alerts :
    (/\ a.endpoint = b.endpoint /\ a.rule = b.rule
     /\ a.rule.mode = "below_threshold"
     /\ a.drop.product = b.drop.product /\ a.drop.to < b.drop.to) =>
       \E s \in SnapsOf(a.drop.product) :
         /\ a.drop.to < s.stamp /\ s.stamp < b.drop.to
         /\ s.quote # NoPrice /\ s.quote >= a.rule.threshold

(* sailing_diffs.notified tells the truth: marked only after an             *)
(* acknowledged alert, or when the listing had nobody to reach.             *)
MarksAreHonest == notified \subseteq acked \cup nobody

(* A subscription that was inactive ever since sweep_one took up its        *)
(* product gets no alert of it.                                             *)
AlertsAreWanted ==
  [][\A a \in alerts' \ alerts : <<a.endpoint, a.drop.product>> \in seen]_vars

(* "so we stop trying": once an endpoint is found gone and deactivated, no  *)
(* product of the pass or of a later one alerts it until it subscribes.     *)
GoneIsNotRetried ==
  [][\A a \in alerts' \ alerts : a.endpoint \notin gone]_vars

(* A pass ends, whatever fails in it and whatever the web tier does, if     *)
(* push services answer: the API client has a time-out, the push client     *)
(* (webpush.rs, reqwest::Client::new) none.                                 *)
SweepEnds == pc # "idle" ~> pc = "idle"
=============================================================================
