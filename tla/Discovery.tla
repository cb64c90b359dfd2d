----------------------------- MODULE Discovery -----------------------------
(***************************************************************************)
(* Cruise accounts and the discovery of their bookings.                    *)
(*                                                                         *)
(* A user links one account per cruise line.  discover_account logs in     *)
(* with it, lists its bookings, stores them and subscribes the user; it    *)
(* runs for every account in the scraper's Phase A, and for one user's     *)
(* accounts inside the web requests register and refresh.  All of them     *)
(* share four tables (users, cruise_accounts, bookings,                    *)
(* booking_subscribers) beside the requests that remove an account and the *)
(* bot command that unregisters a user.  Every statement or transaction is *)
(* one step; whatever a pass holds in memory is lost when the pod is       *)
(* killed or the client of a request goes away.                            *)
(*                                                                         *)
(* What an account shows is a choice: any reservation, any cabin.  Users   *)
(* are chats (a users row is never deleted); credentials are numbered in   *)
(* the order they are submitted, and a cruise_accounts row takes the       *)
(* number of its first credentials for its id (both sequences only grow).  *)
(* Sailings, ship, dates and the text of messages are left out; a failing  *)
(* upsert_sailing ends as a failing upsert_booking does.                   *)
(***************************************************************************)
EXTENDS Integers, FiniteSets, Sequences

CONSTANTS
  User,
  Reservation,
  Room,           \* cabin numbers
  Request,        \* slots for web requests in flight
  Scraper,        \* the CronJob's pod (Forbid: one at a time)
  None,
  Gty,            \* the placeholder "GTY" of a guarantee cabin
  Links,          \* <<user, line>>: the accounts users may link
  Shows,          \* <<user, brand, reservation as shown>>: see Listing
  MaxCred,        \* bound: credentials submitted
  MaxRun          \* bound: scraper runs

ASSUME DiscoveryAssumption ==
  /\ None \notin Room /\ Gty \notin Room /\ None # Gty
  /\ Scraper \notin Request
  /\ \A s \in Shows : /\ s[3].res \in Reservation
                      /\ s[3].stateroom \in Room \cup {None, Gty}
                      /\ s[2] = "princess" => s[3].stateroom # Gty
  /\ MaxCred \in Nat
  /\ MaxRun \in Nat

(* list_bookings_for asks each host for the bookings of its own brand       *)
(* (?brand=R, ?brand=C): no reservation is listed to a user by both.        *)
ASSUME BrandAssumption ==
  \A s, t \in {x \in Shows : x[2] # "princess"} :
    s[1] = t[1] /\ s[3].res = t[3].res => s[2] = t[2]

Line == {"rcg", "princess"}
Brand == {"royal", "celebrity", "princess"}

(* The logins one account takes, in order.                                  *)
BrandsOf(line) ==
  IF line = "rcg" THEN <<"royal", "celebrity">> ELSE <<"princess">>
Cred == 1..MaxCred
Worker == Request \cup {Scraper}

VARIABLES
  (* the database *)
  status,         \* users: "absent", "active" or "inactive"
  accounts,       \* cruise_accounts rows
  verdict,        \* their last_login columns: [Cred -> Verdict], by id
  bookings,       \* [Reservation -> a bookings row, or None]
  subs,           \* booking_subscribers: pairs <<user, reservation>>
  (* the passes in flight *)
  pass,           \* [Worker -> local state of the handler or of Phase A]
  (* bounds *)
  issued,         \* credentials submitted so far
  runs,
  (* history *)
  shown,          \* <<user, line, reservation>> seen by a login
  dead,           \* credentials a removal or /unregister has deleted
  untried,        \* ids loaded by the scraper's run and not tried yet
  told,           \* <<user, reservation>> told of the cabin it now has
  retold          \* the same, told a second time

tables == <<status, accounts, verdict, bookings, subs>>
history == <<shown, dead, untried, told, retold>>
vars == <<tables, pass, issued, runs, history>>
-----------------------------------------------------------------------------
Account == [id : Cred, user : User, line : Line, cred : Cred]

(* last_login_at and last_login_error: never tried, worked, failed.  `of'   *)
(* is history: the id of the row whose credentials were tried.              *)
Verdict == [outcome : {"none", "ok", "failed"}, of : 0..MaxCred]
Untested == [outcome |-> "none", of |-> 0]

(* What one login shows of one reservation: the cabin as displayed, the     *)
(* room recovered behind "GTY", and the deck and category, which are those  *)
(* of the room `detail'.                                                    *)
Cabin == Room \cup {None}
Summary == [res : Reservation, stateroom : Cabin \cup {Gty},
            assigned : Cabin, detail : Cabin]

(* A bookings row keeps its line (the brand's) and the same cabin columns.  *)
Booking == [line : Line, stateroom : Cabin \cup {Gty},
            assigned : Cabin, detail : Cabin]
ASSUME NoneAssumption == None \notin Booking

(* The room behind "GTY" is read off the reservation's add-on orders: one   *)
(* detail per order, whose guests are [own, room]; a guest is one of this   *)
(* reservation's passengers or somebody an order is shared with.            *)
OwnGuests_All(order) ==  \* mutant: own_passenger_ids is not asked
  {i \in DOMAIN order : order[i].room \in Room}
OwnGuests(order) == {i \in DOMAIN order : order[i].own /\ order[i].room \in Room}

OwnRooms(order) == {order[i].room : i \in OwnGuests(order)}
Tally(orders, read, room) ==
  Cardinality({g \in UNION {{n} \X OwnGuests(orders[n]) : n \in read} :
                 orders[g[1]][g[2]].room = room})

(* `read': the orders whose detail could be fetched.  The first one that    *)
(* names a single room decides; after one that names several, the room most *)
(* often seen in all of them (any, of equals).                              *)
RoomsBehind(orders, read) ==
  LET telling == {n \in read : OwnRooms(orders[n]) # {}}
      rooms == UNION {OwnRooms(orders[n]) : n \in telling}
      single == {n \in telling : /\ \A m \in telling : n <= m
                                 /\ Cardinality(OwnRooms(orders[n])) = 1}
  IN IF telling = {} THEN {None}
     ELSE IF single # {} THEN UNION {OwnRooms(orders[n]) : n \in single}
     ELSE {room \in rooms : \A other \in rooms :
             Tally(orders, read, other) <= Tally(orders, read, room)}

(* Looked up only behind "GTY", and best-effort.                            *)
AssignedRooms(show) ==
  IF show.stateroom # Gty THEN {None}
  ELSE {None} \cup UNION {RoomsBehind(show.orders, read) :
                           read \in SUBSET DOMAIN show.orders}

(* RCG decks are derived from the cabin, so a summary names none.           *)
RcgSummaries(show) ==
  {[res |-> show.res, stateroom |-> show.stateroom, assigned |-> room,
    detail |-> None] : room \in AssignedRooms(show)}

(* Princess: booking/summary is best-effort, so no cabin, a cabin without   *)
(* its deck, or a cabin with it.                                            *)
PrincessSummaries(show) ==
  {[res |-> show.res, stateroom |-> s, assigned |-> None, detail |-> d] :
     s \in {None, show.stateroom}, d \in {None, show.stateroom}}
  \ {[res |-> show.res, stateroom |-> None, assigned |-> None,
      detail |-> show.stateroom]}

(* What a login of u to this brand may list: at most one summary a          *)
(* reservation; a Princess login opens one booking, and none at all is an   *)
(* outcome of its own there (ListFails).                                    *)
Listing(u, brand) ==
  LET shows == {s[3] : s \in {t \in Shows : t[1] = u /\ t[2] = brand}}
      summaries == UNION {IF brand = "princess" THEN PrincessSummaries(s)
                          ELSE RcgSummaries(s) : s \in shows}
  IN IF brand = "princess"
     THEN {{s} : s \in summaries}
     ELSE {S \in SUBSET summaries : \A s, t \in S : s.res = t.res => s = t}

NoPass == [op |-> "none", at |-> "free", user |-> None, line |-> "rcg",
           cred |-> 0, todo |-> {}, acct |-> None, left |-> <<>>,
           outcome |-> "failed", old |-> None, found |-> {}, cur |-> None,
           tell |-> {}]
PassState ==
  [op : {"none", "register", "refresh", "scrape"},
   at : {"free", "user", "account", "next", "login", "store", "subscribe",
         "lookup", "tell", "record"},
   user : User \cup {None}, line : Line, cred : 0..MaxCred,
   todo : SUBSET Account, acct : Account \cup {None},
   left : {<<>>} \cup {<<b>> : b \in Brand} \cup {BrandsOf("rcg")},
   outcome : {"ok", "failed"},
   old : [Reservation -> Booking \cup {None}] \cup {None},
   found : SUBSET Summary, cur : Summary \cup {None}, tell : SUBSET User]

TypeOK ==
  /\ status \in [User -> {"absent", "active", "inactive"}]
  /\ accounts \in SUBSET Account
  /\ verdict \in [Cred -> Verdict]
  /\ bookings \in [Reservation -> Booking \cup {None}]
  /\ subs \in SUBSET (User \X Reservation)
  /\ pass \in [Worker -> PassState]
  /\ issued \in 0..MaxCred
  /\ runs \in 0..MaxRun
  /\ shown \in SUBSET (User \X Line \X Reservation)
  /\ dead \in SUBSET Cred
  /\ untried \in SUBSET Cred
  /\ told \in SUBSET (User \X Reservation)
  /\ retold \in SUBSET (User \X Reservation)

Init ==
  /\ status = [u \in User |-> "absent"]
  /\ accounts = {}
  /\ verdict = [i \in Cred |-> Untested]
  /\ bookings = [r \in Reservation |-> None]
  /\ subs = {}
  /\ pass = [w \in Worker |-> NoPass]
  /\ issued = 0
  /\ runs = 0
  /\ shown = {}
  /\ dead = {}
  /\ untried = {}
  /\ told = {}
  /\ retold = {}
-----------------------------------------------------------------------------
(* Statements.                                                              *)

AccountsOf(u) == {a \in accounts : a.user = u}
AccountOf(u, line) == {a \in AccountsOf(u) : a.line = line}

(* Active accounts of active users; no statement ever clears               *)
(* cruise_accounts.active.                                                  *)
ActiveAccounts == {a \in accounts : status[a.user] = "active"}

(* INSERT, or replace login and password and clear last_login_error, but    *)
(* not last_login_at: what had failed looks as if it had worked.  The id of *)
(* a row survives the replacement.                                          *)
Upserted(u, line, cred) ==
  IF AccountOf(u, line) = {}
  THEN accounts \cup {[id |-> cred, user |-> u, line |-> line, cred |-> cred]}
  ELSE {IF a.user = u /\ a.line = line THEN [a EXCEPT !.cred = cred] ELSE a :
          a \in accounts}
Cleared(u, line) ==
  [i \in Cred |-> IF verdict[i].outcome = "failed"
                     /\ \E a \in AccountOf(u, line) : a.id = i
                  THEN [outcome |-> "ok", of |-> verdict[i].of]
                  ELSE verdict[i]]

(* The columns go with the rows.                                            *)
Erased(rows) ==
  [i \in Cred |-> IF \E a \in rows : a.id = i THEN Untested ELSE verdict[i]]

(* UPDATE ... WHERE id = acct.id: no row of that id, no effect.             *)
Recorded_ByLine(acct, outcome) ==  \* mutant: WHERE user_id and cruise_line
  [i \in Cred |-> IF \E a \in AccountOf(acct.user, acct.line) : a.id = i
                  THEN [outcome |-> outcome, of |-> acct.id] ELSE verdict[i]]
Recorded(acct, outcome) ==
  [i \in Cred |-> IF i = acct.id /\ \E a \in accounts : a.id = i
                  THEN [outcome |-> outcome, of |-> acct.id] ELSE verdict[i]]

(* The ON CONFLICT branch: what a refresh could not find is kept, and deck  *)
(* and category follow the displayed cabin.                                 *)
Merged_Coalesce(b, line, s) ==  \* mutant: every column kept on its own
  [line |-> line,
   stateroom |-> IF s.stateroom = None THEN b.stateroom ELSE s.stateroom,
   assigned |-> IF s.assigned = None THEN b.assigned ELSE s.assigned,
   detail |-> IF s.detail = None THEN b.detail ELSE s.detail]
Merged(b, line, s) ==
  [line |-> line,
   stateroom |-> IF s.stateroom = None THEN b.stateroom ELSE s.stateroom,
   assigned |-> IF s.assigned = None THEN b.assigned ELSE s.assigned,
   detail |-> IF s.stateroom = None THEN b.detail ELSE s.detail]

Stored(line, s) ==
  IF bookings[s.res] = None
  THEN [line |-> line, stateroom |-> s.stateroom, assigned |-> s.assigned,
        detail |-> s.detail]
  ELSE Merged(bookings[s.res], line, s)

(* The WHERE of the upsert: a row of the other line is left alone.          *)
SameLine_Any(line, r) == TRUE  \* mutant: the upsert has no WHERE
SameLine(line, r) == bookings[r] # None => bookings[r].line = line

SubscribersOf(r) == {u \in User : <<u, r>> \in subs /\ status[u] = "active"}

(* detect_cabin_event: the guarantee got its cabin, or the recovered room   *)
(* changed.                                                                 *)
CabinAssigned(old, new) == old.stateroom = Gty /\ new.stateroom \in Room
CabinEvent(old, new) ==
  \/ CabinAssigned(old, new)
  \/ /\ old.assigned # None
     /\ new.assigned # None
     /\ old.assigned # new.assigned
-----------------------------------------------------------------------------
(* How a pass begins.                                                       *)

Enter(w, state) == pass' = [pass EXCEPT ![w] = state]
At(w, at) == Enter(w, [pass[w] EXCEPT !.at = at])

(* register: validation and encryption change nothing; upsert_user makes    *)
(* the user active, whoever sends the request.                              *)
RegisterUser(q, u, line) ==
  /\ pass[q].at = "free"
  /\ <<u, line>> \in Links
  /\ issued < MaxCred
  /\ issued' = issued + 1
  /\ status' = [status EXCEPT ![u] = "active"]
  /\ Enter(q, [NoPass EXCEPT !.op = "register", !.at = "user", !.user = u,
                             !.line = line, !.cred = issued + 1])
  /\ UNCHANGED <<accounts, verdict, bookings, subs, runs, history>>

RegisterAccount(q) ==
  /\ pass[q].at = "user"
  /\ accounts' = Upserted(pass[q].user, pass[q].line, pass[q].cred)
  /\ verdict' = Cleared(pass[q].user, pass[q].line)
  /\ At(q, "account")
  /\ UNCHANGED <<status, bookings, subs, issued, runs, history>>

(* The row is read back by user and line; it may be gone (500) or another's *)
(* by now.                                                                  *)
FindAccount_Unwraps(q) ==  \* mutant: the row is taken to exist
  /\ pass[q].at = "account"
  /\ Enter(q, [pass[q] EXCEPT !.at = "next",
                 !.todo = IF AccountOf(pass[q].user, pass[q].line) = {}
                          THEN {None}
                          ELSE AccountOf(pass[q].user, pass[q].line)])
  /\ UNCHANGED <<tables, issued, runs, history>>
FindAccount(q) ==
  /\ pass[q].at = "account"
  /\ IF AccountOf(pass[q].user, pass[q].line) = {}
     THEN Enter(q, NoPass)
     ELSE Enter(q, [pass[q] EXCEPT !.at = "next",
                      !.todo = AccountOf(pass[q].user, pass[q].line)])
  /\ UNCHANGED <<tables, issued, runs, history>>

(* refresh: any chat with a users row; without an account it is answered at *)
(* once.                                                                    *)
Refresh(q, u) ==
  /\ pass[q].at = "free"
  /\ status[u] # "absent"
  /\ IF AccountsOf(u) = {} THEN pass' = pass
     ELSE Enter(q, [NoPass EXCEPT !.op = "refresh", !.at = "next", !.user = u,
                                  !.todo = AccountsOf(u)])
  /\ UNCHANGED <<tables, issued, runs, history>>

(* Phase A; with no account the run is over.                                *)
LoadAccounts ==
  /\ pass[Scraper].at = "free"
  /\ runs < MaxRun
  /\ ActiveAccounts # {}
  /\ runs' = runs + 1
  /\ untried' = {a.id : a \in ActiveAccounts}
  /\ Enter(Scraper, [NoPass EXCEPT !.op = "scrape", !.at = "next",
                                   !.todo = ActiveAccounts])
  /\ UNCHANGED <<tables, issued, shown, dead, told, retold>>
-----------------------------------------------------------------------------
(* discover_account, for the next account of the pass.                      *)

(* ORDER BY id for the scraper, by line for a user's own accounts.          *)
Next1(w) ==
  {a \in pass[w].todo :
     pass[w].op = "scrape" => \A b \in pass[w].todo : a.id <= b.id}

(* list_bookings before this account's pass stores anything; on failure the *)
(* snapshot is empty.  Only the scraper, which has a notifier, uses it.     *)
Snapshot_OncePerRun(w, a) ==  \* mutant: read once, before the first account
  IF pass[w].op # "scrape" \/ a.line # "rcg" THEN {None}
  ELSE IF pass[w].old # None THEN {pass[w].old}
  ELSE {bookings, [r \in Reservation |-> None]}
Snapshot(w, a) ==
  IF pass[w].op = "scrape" /\ a.line = "rcg"
  THEN {bookings, [r \in Reservation |-> None]}
  ELSE {None}

StartAccount(w) ==
  /\ pass[w].at = "next"
  /\ \E a \in Next1(w) :
       /\ \E old \in Snapshot(w, a) :
            Enter(w, [pass[w] EXCEPT
                        !.at = "login", !.user = a.user, !.line = a.line,
                        !.todo = @ \ {a}, !.acct = a, !.outcome = "failed",
                        !.left = BrandsOf(a.line), !.old = old])
       /\ untried' = IF w = Scraper THEN untried \ {a.id} ELSE untried
  /\ UNCHANGED <<tables, issued, runs, shown, dead, told, retold>>

(* RCG logs in to both brands' hosts; a brand that fails is skipped.        *)
BrandDone(state) ==
  [state EXCEPT !.left = Tail(@),
                !.at = IF Tail(state.left) = <<>> THEN "record" ELSE "login",
                !.found = {}, !.cur = None, !.tell = {}]

(* On to the next summary of this brand.                                    *)
SummaryDone(state) ==
  IF state.found = {} THEN BrandDone(state)
  ELSE [state EXCEPT !.at = "store", !.cur = None, !.tell = {}]

(* On to the next account; after the last one the pass is over.             *)
AccountDone(state) ==
  IF state.todo = {} THEN NoPass
  ELSE [state EXCEPT !.at = "next", !.acct = None]

(* The password does not decrypt (its key was changed): the account is      *)
(* reported and the pass goes on.  register has the password in its body.   *)
DecryptFails_Aborts(w) ==  \* mutant: the error ends the run
  /\ pass[w].at = "next"
  /\ pass[w].op # "register"
  /\ \E a \in Next1(w) :
       /\ Enter(w, NoPass)
       /\ untried' = IF w = Scraper THEN untried \ {a.id} ELSE untried
  /\ UNCHANGED <<tables, issued, runs, shown, dead, told, retold>>
DecryptFails(w) ==
  /\ pass[w].at = "next"
  /\ pass[w].op # "register"
  /\ \E a \in Next1(w) :
       /\ Enter(w, AccountDone([pass[w] EXCEPT !.todo = @ \ {a}]))
       /\ untried' = IF w = Scraper THEN untried \ {a.id} ELSE untried
  /\ UNCHANGED <<tables, issued, runs, shown, dead, told, retold>>

LoginFails(w) ==
  /\ pass[w].at = "login"
  /\ Enter(w, BrandDone(pass[w]))
  /\ UNCHANGED <<tables, issued, runs, history>>

(* The login succeeded, but nothing can be listed: an RCG account counts as *)
(* logged in, a Princess account without one open booking does not.         *)
ListFails(w) ==
  /\ pass[w].at = "login"
  /\ Enter(w, BrandDone([pass[w] EXCEPT
                 !.outcome = IF pass[w].line = "rcg" THEN "ok" ELSE @]))
  /\ UNCHANGED <<tables, issued, runs, history>>

LoginLists(w) ==
  /\ pass[w].at = "login"
  /\ \E S \in Listing(pass[w].user, Head(pass[w].left)) :
       /\ Enter(w, SummaryDone([pass[w] EXCEPT !.outcome = "ok",
                                               !.found = S]))
       /\ shown' = shown \cup
            {<<pass[w].user, pass[w].line, s.res>> : s \in S}
  /\ UNCHANGED <<tables, issued, runs, dead, untried, told, retold>>

(* A user told of a cabin may be told again once it is no longer the cabin. *)
Forget(r, new) ==
  IF new.stateroom \in Room THEN told ELSE {t \in told : t[2] # r}

StoreBooking(w) ==
  /\ pass[w].at = "store"
  /\ \E s \in pass[w].found :
       /\ SameLine(pass[w].line, s.res)
       /\ bookings' = [bookings EXCEPT ![s.res] = Stored(pass[w].line, s)]
       /\ told' = Forget(s.res, Stored(pass[w].line, s))
       /\ Enter(w, [pass[w] EXCEPT !.at = "subscribe", !.cur = s,
                                   !.found = @ \ {s}])
  /\ UNCHANGED <<status, accounts, verdict, subs, issued, runs, shown, dead,
                 untried, retold>>

(* CrossLineConflict, or the statement fails: the user is not subscribed.   *)
StoreFails_GoesOn(w) ==  \* mutant: the conflict is only logged
  /\ pass[w].at = "store"
  /\ \E s \in pass[w].found :
       Enter(w, [pass[w] EXCEPT !.at = "subscribe", !.cur = s,
                                !.found = @ \ {s}])
  /\ UNCHANGED <<tables, issued, runs, history>>
StoreFails(w) ==
  /\ pass[w].at = "store"
  /\ \E s \in pass[w].found :
       Enter(w, SummaryDone([pass[w] EXCEPT !.found = @ \ {s}]))
  /\ UNCHANGED <<tables, issued, runs, history>>

(* News is for a booking that existed before this pass.                     *)
IsNews(w) ==
  /\ pass[w].old # None
  /\ pass[w].old[pass[w].cur.res] # None
  /\ CabinEvent(pass[w].old[pass[w].cur.res], pass[w].cur)

Subscribe(w) ==
  /\ pass[w].at = "subscribe"
  /\ subs' = subs \cup {<<pass[w].user, pass[w].cur.res>>}
  /\ IF IsNews(w) THEN At(w, "lookup") ELSE Enter(w, SummaryDone(pass[w]))
  /\ UNCHANGED <<status, accounts, verdict, bookings, issued, runs, history>>

SubscribeFails(w) ==
  /\ pass[w].at = "subscribe"
  /\ Enter(w, SummaryDone(pass[w]))
  /\ UNCHANGED <<tables, issued, runs, history>>

(* list_subscribers_for_reservation; on failure nobody is told.             *)
LookupSubscribers(w) ==
  /\ pass[w].at = "lookup"
  /\ \E users \in {SubscribersOf(pass[w].cur.res), {}} :
       Enter(w, [pass[w] EXCEPT !.at = "tell", !.tell = users])
  /\ UNCHANGED <<tables, issued, runs, history>>

(* Every subscriber is tried once, whether or not the send succeeds.        *)
Tell(w) ==
  /\ pass[w].at = "tell"
  /\ Enter(w, SummaryDone(pass[w]))
  /\ LET r == pass[w].cur.res
         news == /\ CabinAssigned(pass[w].old[r], pass[w].cur)
                 /\ bookings[r].stateroom \in Room
         sent == IF news THEN pass[w].tell \X {r} ELSE {}
     IN /\ told' = told \cup sent
        /\ retold' = retold \cup (sent \cap told)
  /\ UNCHANGED <<tables, issued, runs, shown, dead, untried>>

RecordOutcome(w) ==
  /\ pass[w].at = "record"
  /\ verdict' = Recorded(pass[w].acct, pass[w].outcome)
  /\ Enter(w, AccountDone(pass[w]))
  /\ UNCHANGED <<status, accounts, bookings, subs, issued, runs, history>>

RecordFails(w) ==
  /\ pass[w].at = "record"
  /\ Enter(w, AccountDone(pass[w]))
  /\ UNCHANGED <<tables, issued, runs, history>>
-----------------------------------------------------------------------------
(* Leaving, killing, Next.                                                  *)

(* One transaction: the user's subscriptions of the line, then the account, *)
(* if there still is one.                                                   *)
RemoveAccount(u, line) ==
  /\ status[u] # "absent"
  /\ subs' = {p \in subs : ~ (p[1] = u /\ bookings[p[2]] # None
                                       /\ bookings[p[2]].line = line)}
  /\ accounts' = accounts \ AccountOf(u, line)
  /\ verdict' = Erased(AccountOf(u, line))
  /\ dead' = dead \cup {a.cred : a \in AccountOf(u, line)}
  /\ UNCHANGED <<status, bookings, pass, issued, runs, shown,
                 untried, told, retold>>

(* One transaction: the user is inactive and every login is deleted.        *)
Unregister_KeepsLogins(u) ==  \* mutant: only the user is deactivated
  /\ status[u] # "absent"
  /\ status' = [status EXCEPT ![u] = "inactive"]
  /\ dead' = dead \cup {a.cred : a \in AccountsOf(u)}
  /\ UNCHANGED <<accounts, verdict, bookings, subs, pass, issued, runs, shown,
                 untried, told, retold>>
Unregister(u) ==
  /\ status[u] # "absent"
  /\ status' = [status EXCEPT ![u] = "inactive"]
  /\ accounts' = accounts \ AccountsOf(u)
  /\ verdict' = Erased(AccountsOf(u))
  /\ dead' = dead \cup {a.cred : a \in AccountsOf(u)}
  /\ UNCHANGED <<bookings, subs, pass, issued, runs, shown, untried, told,
                 retold>>

(* A pod is killed, a client goes away, or a statement of register fails:   *)
(* the pass is gone, what it stored stays.                                  *)
Stop(w) ==
  /\ pass[w].at # "free"
  /\ Enter(w, NoPass)
  /\ untried' = IF w = Scraper THEN {} ELSE untried
  /\ UNCHANGED <<tables, issued, runs, shown, dead, told, retold>>

PassStep(w) ==
  \/ StartAccount(w) \/ DecryptFails(w)
  \/ LoginFails(w) \/ ListFails(w) \/ LoginLists(w)
  \/ StoreBooking(w) \/ StoreFails(w)
  \/ Subscribe(w) \/ SubscribeFails(w)
  \/ LookupSubscribers(w) \/ Tell(w)
  \/ RecordOutcome(w) \/ RecordFails(w)

RequestStep(q) == RegisterAccount(q) \/ FindAccount(q)

(* Everything but the bot.                                                  *)
WebAndScraper ==
  \/ \E q \in Request, u \in User, line \in Line : RegisterUser(q, u, line)
  \/ \E q \in Request, u \in User : Refresh(q, u)
  \/ LoadAccounts
  \/ \E q \in Request : RequestStep(q)
  \/ \E w \in Worker : PassStep(w)
  \/ \E u \in User, line \in Line : RemoveAccount(u, line)
  \/ \E w \in Worker : Stop(w)

Next == WebAndScraper \/ \E u \in User : Unregister(u)

Spec == Init /\ [][Next]_vars
-----------------------------------------------------------------------------
(* Properties.                                                              *)

(* Nobody holds a reservation he was not shown: a subscription rests on a   *)
(* login of that user, on the line the stored booking belongs to.  A        *)
(* booking number that two lines use never hands one line's booking to the  *)
(* other's customer (upsert_booking's guard, and discovery going on to the  *)
(* next summary when it refuses).                                           *)
OwnershipIsEarned ==
  \A p \in subs : /\ bookings[p[2]] # None
                  /\ <<p[1], bookings[p[2]].line, p[2]>> \in shown

(* A stored booking never moves to the other cruise line, whoever lists its *)
(* number later.                                                            *)
KeepsItsLine ==
  [][\A r \in Reservation :
       bookings[r] # None => /\ bookings'[r] # None
                             /\ bookings'[r].line = bookings[r].line]_vars

(* A login outcome never lands on an account linked after the one it was    *)
(* tried with was removed, however long the login takes                     *)
(* (record_login_outcome goes by id).                                       *)
OutcomeOfThisRow == \A i \in Cred : verdict[i].of \in {0, i}

(* The deck and category shown with a cabin are that cabin's, over every    *)
(* sequence of partial refreshes (upsert_booking's CASE expressions).       *)
DetailOfThisCabin ==
  \A r \in Reservation :
    bookings[r] # None => bookings[r].detail \in {None, bookings[r].stateroom}

(* The room recovered for a guarantee booking is one its own passengers     *)
(* have in some order, although orders are shared with guests of other      *)
(* cabins (collect_own_rooms, discover_assigned_stateroom).                 *)
RecoveredRoomIsOwn ==
  \A r \in Reservation :
    bookings[r] # None /\ bookings[r].assigned # None
      => \E s \in Shows : /\ s[3].res = r
                          /\ \E n \in DOMAIN s[3].orders :
                               \E i \in DOMAIN s[3].orders[n] :
                                  /\ s[3].orders[n][i].own
                                  /\ s[3].orders[n][i].room = bookings[r].assigned

(* The room recovered behind "GTY" is there only while the cabin is "GTY"   *)
(* (the comment of BookingSummary::assigned_stateroom); upsert_booking's    *)
(* COALESCE keeps it when the cabin has been assigned.                      *)
AssignedOnlyForGty ==
  \A r \in Reservation :
    bookings[r] # None /\ bookings[r].assigned # None
      => bookings[r].stateroom = Gty

(* A pass that starts after an account was removed or its user unregistered *)
(* never uses the credentials deleted then, even when the user links        *)
(* another line later (deactivate_user's comment).                          *)
NoDeletedLogin ==
  [][\A w \in Worker :
       \A a \in pass'[w].todo \ pass[w].todo : a.cred \notin dead]_vars

(* A subscriber hears of an assigned guarantee cabin once, although every   *)
(* partner's account lists the reservation and each run discovers it again  *)
(* (discover_with_clients compares with what was stored before this         *)
(* account's own pass).                                                     *)
AssignedToldOnce == retold = {}

(* One account that cannot be decrypted, logged in or stored keeps no other *)
(* account of the run from being tried.                                     *)
EveryAccountIsTried == pass[Scraper].at = "free" => untried = {}
=============================================================================
