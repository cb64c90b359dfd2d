------------------------------ MODULE MiniApp ------------------------------
(***************************************************************************)
(* The Mini App's requests on bookings, catalogs, watches and deck plans.  *)
(*                                                                         *)
(* A handler runs over several statements and calls; discovery stores      *)
(* bookings and subscribes users, accounts are removed, users unregister,  *)
(* watches come and go and midnight passes between any two of them.  A     *)
(* handler that fails, or whose client goes away, answers nothing, but     *)
(* what it stored stays.                                                   *)
(*                                                                         *)
(* Prices, titles and order are left out: a catalog row and a watch matter *)
(* as data of a reservation, a deck plan as a row of its key.  Discovery,  *)
(* the watch writes and the scraper have modules of their own; here they   *)
(* are the environment.                                                    *)
(***************************************************************************)
EXTENDS Integers, FiniteSets

CONSTANTS
  User,           \* users with a row: AuthedUser lets no one else in
  Reservation,
  Product,
  Watch,          \* ids of products_watched rows
  WatchOf,        \* [Watch -> Reservation]
  Sailing,        \* what a login may show of a booking
  Ship,
  Deck,           \* 1..25
  Request,        \* slots for requests in flight
  None,
  MaxDay          \* bound: midnights

ASSUME MiniAppAssumption ==
  /\ WatchOf \in [Watch -> Reservation]
  /\ Sailing \subseteq [res : Reservation, line : {"rcg", "princess"},
                        ship : Ship, sail : Nat, nights : Nat]
  /\ None \notin Sailing
  /\ MaxDay \in Nat

VARIABLES
  today,
  active,         \* users not unregistered
  bookings,       \* [Reservation -> its sailing, or None]
  subs,           \* booking_subscribers: <<user, reservation>>
  catalog,        \* catalog_cache: <<reservation, product>>
  watched,        \* active watches
  plans,          \* deck_plans: <<code, deck>>, the code as it was typed
  req,            \* [Request -> the handler]
  (* history *)
  held,           \* [Request -> <<reservation, ship>> its user has had since
                  \*   it came]
  fellows,        \* [Request -> <<user, reservation>>: other active users
                  \*   who have held it since]
  ended           \* [Request -> reservations over since before it came]

database == <<active, bookings, subs, catalog, watched, plans>>
vars == <<today, database, req, held, fellows, ended>>
-----------------------------------------------------------------------------
(* A ship's code, in the letters of our table or in others.                 *)
Code == [ship : Ship, exact : BOOLEAN]

Op == {"refresh", "browse", "search", "bookings", "watches", "history",
       "remove", "plan"}

(* `mine': what the handler still goes over; `out': what it will answer,    *)
(* reservations and the users they are shared with.                         *)
Handler == [op : Op, at : {"idle", "ask", "owned", "found", "each", "fetch",
                           "cache", "answered"},
            user : User \cup {None}, day : 0..MaxDay, res : Reservation \cup {None},
            watch : Watch \cup {None}, code : Code \cup {None},
            deck : Deck \cup {None},
            mine : SUBSET (Reservation \cup Watch \cup Product),
            out : SUBSET (Reservation \X SUBSET User), had : BOOLEAN]

TypeOK ==
  /\ today \in 0..MaxDay
  /\ active \in SUBSET User
  /\ bookings \in [Reservation -> Sailing \cup {None}]
  /\ subs \in SUBSET (User \X Reservation)
  /\ catalog \in SUBSET (Reservation \X Product)
  /\ watched \in SUBSET Watch
  /\ plans \in SUBSET ([ship : Ship, exact : {TRUE}] \X Deck)
  /\ req \in [Request -> Handler]
  /\ held \in [Request -> SUBSET (Reservation \X Ship)]
  /\ fellows \in [Request -> SUBSET (User \X Reservation)]
  /\ ended \in [Request -> SUBSET Reservation]

Free == [op |-> "browse", at |-> "idle", user |-> None,
         day |-> 0, res |-> None, watch |-> None, code |-> None, deck |-> None,
         mine |-> {}, out |-> {}, had |-> FALSE]

Init ==
  /\ today = 0
  /\ active = User
  /\ bookings = [r \in Reservation |-> None]
  /\ subs = {}
  /\ catalog = {}
  /\ watched = {}
  /\ plans = {}
  /\ req = [q \in Request |-> Free]
  /\ held = [q \in Request |-> {}]
  /\ fellows = [q \in Request |-> {}]
  /\ ended = [q \in Request |-> {}]
-----------------------------------------------------------------------------
(* What the statements and helpers read.                                    *)

Owns(u, r) == <<u, r>> \in subs
BookingsOf(u) == {r \in Reservation : Owns(u, r)}

HasDeparted(r, day) == bookings[r].sail <= day
HasEnded(r, day) == bookings[r].sail + bookings[r].nights < day

Current_All(u, day) == BookingsOf(u)  \* mutant: ended cruises stay
Current(u, day) == {r \in BookingsOf(u) : ~ HasEnded(r, day)}

Subscribers_Inactive(r) ==  \* mutant: u.active is not asked
  {u \in User : Owns(u, r)}
Subscribers(r) == {u \in active : Owns(u, r)}

(* search_catalog, whatever is typed and however many fit on the page.      *)
Found(u) == SUBSET {row[1] : row \in catalog \cap BookingsOf(u) \X Product}

(* The ownership test ignores the letters' case; ship_name does not.        *)
OnShip(u, code) == \E r \in BookingsOf(u) : bookings[r].ship = code.ship
ShipName_AnyCase(code) == TRUE  \* mutant: ship_name ignores it, too
ShipName(code) == code.exact
-----------------------------------------------------------------------------
Become(q, state) == req' = [req EXCEPT ![q] = state]
At(q, at) == Become(q, [req[q] EXCEPT !.at = at])
Plain(rs) == rs \X {{}}

(* An answer, or an error.                                                  *)
Answer(q, out) == Become(q, [req[q] EXCEPT !.at = "answered", !.mine = {},
                                           !.out = out])
Refuse(q) == Become(q, Free)

Quiet == UNCHANGED <<today, held, fellows, ended>>
Reads == Quiet /\ UNCHANGED database

(* What u and others hold, of given tables.                                 *)
Holds(u, b, s) == {<<p[2], b[p[2]].ship>> : p \in {x \in s : x[1] = u}}
Others(u, s, a) == {p \in s : p[1] # u /\ p[1] \in a}

(* AuthedUser: the request is signed by Telegram and the chat has a row.    *)
(* The lists take the day at once.                                          *)
Come(q, state) ==
  /\ req[q].at = "idle"
  /\ Become(q, [state EXCEPT !.day = today])
  /\ held' = [held EXCEPT ![q] = Holds(state.user, bookings, subs)]
  /\ fellows' = [fellows EXCEPT ![q] = Others(state.user, subs, active)]
  /\ ended' = [ended EXCEPT ![q] =
       {r \in Reservation : bookings[r] # None /\ HasEnded(r, today)}]
  /\ UNCHANGED <<today, database>>

AskReservation(q, u, op, r) ==
  Come(q, [Free EXCEPT !.op = op, !.at = "ask", !.user = u, !.res = r])
AskAll(q, u, op) == Come(q, [Free EXCEPT !.op = op, !.at = "ask", !.user = u])
AskWatch(q, u, op, w) ==
  Come(q, [Free EXCEPT !.op = op, !.at = "ask", !.user = u, !.watch = w])
AskPlan(q, u, code, deck) ==
  Come(q, [Free EXCEPT !.op = "plan", !.at = "ask", !.user = u, !.code = code,
             !.deck = deck,
             !.had = \E p \in plans : p[1].ship = code.ship /\ p[2] = deck])
-----------------------------------------------------------------------------
(* refresh_catalog and browse_catalog: user_owns_reservation first.         *)

CheckOwner_Skipped(q) ==  \* mutant: only that the booking exists
  /\ req[q].at = "ask"
  /\ req[q].op \in {"refresh", "browse"}
  /\ IF bookings[req[q].res] # None THEN At(q, "owned") ELSE Refuse(q)
  /\ Reads
CheckOwner(q) ==
  /\ req[q].at = "ask"
  /\ req[q].op \in {"refresh", "browse"}
  /\ IF Owns(req[q].user, req[q].res) THEN At(q, "owned") ELSE Refuse(q)
  /\ Reads

(* list_bookings, find, has_departed: 404 or 409.                           *)
FindBooking(q) ==
  LET r == req[q].res
  IN /\ req[q].at = "owned"
     /\ req[q].op = "refresh"
     /\ IF bookings[r] = None \/ HasDeparted(r, today) THEN Refuse(q)
        ELSE At(q, "fetch")
     /\ Reads

(* The catalog of the sailing as it was read.                               *)
FetchCatalog(q) ==
  /\ req[q].at = "fetch"
  /\ req[q].op = "refresh"
  /\ \E found \in SUBSET Product :
       Become(q, [req[q] EXCEPT !.at = "each", !.mine = found])
  /\ Reads

(* Entry by entry; one that fails is skipped.                               *)
UpsertEntry(q) ==
  /\ req[q].at = "each"
  /\ req[q].op = "refresh"
  /\ \E p \in req[q].mine :
       /\ catalog' \in {catalog \cup {<<req[q].res, p>>}, catalog}
       /\ Become(q, [req[q] EXCEPT !.mine = @ \ {p}])
  /\ Quiet
  /\ UNCHANGED <<active, bookings, subs, watched, plans>>

Browse(q) ==
  /\ req[q].at = "owned"
  /\ req[q].op = "browse"
  /\ Answer(q, Plain({r \in {req[q].res} : \E row \in catalog : row[1] = r}))
  /\ Reads

(* search_catalog is a single statement.                                    *)
Search(q) ==
  /\ req[q].at = "ask"
  /\ req[q].op = "search"
  /\ \E rs \in Found(req[q].user) : Answer(q, Plain(rs))
  /\ Reads
-----------------------------------------------------------------------------
(* list_bookings and list_watched begin with current_bookings_for.          *)

ListCurrent(q) ==
  /\ req[q].at = "ask"
  /\ req[q].op \in {"bookings", "watches"}
  /\ Become(q, [req[q] EXCEPT !.mine = Current(req[q].user, req[q].day),
                  !.at = IF req[q].op = "bookings" THEN "each" ELSE "owned"])
  /\ Reads

(* list_subscribers_for_reservation, booking by booking.                    *)
SharedWith(q) ==
  /\ req[q].at = "each"
  /\ req[q].op = "bookings"
  /\ \E r \in req[q].mine :
       Become(q, [req[q] EXCEPT !.mine = @ \ {r},
                    !.out = @ \cup {<<r, Subscribers(r) \ {req[q].user}>>}])
  /\ Reads

(* list_active_watched: everybody's; those of other reservations are        *)
(* dropped.                                                                 *)
PickWatches(q) ==
  /\ req[q].at = "owned"
  /\ req[q].op = "watches"
  /\ Become(q, [req[q] EXCEPT !.at = "each",
                  !.mine = {w \in watched : WatchOf[w] \in req[q].mine}])
  /\ Reads

(* latest_snapshot, watch by watch.                                         *)
LatestPrice(q) ==
  /\ req[q].at = "each"
  /\ req[q].op = "watches"
  /\ \E w \in req[q].mine :
       Become(q, [req[q] EXCEPT !.mine = @ \ {w},
                                !.out = @ \cup Plain({WatchOf[w]})])
  /\ Reads

(* The loops are over.                                                      *)
EachDone(q) ==
  /\ req[q].at = "each"
  /\ req[q].mine = {}
  /\ Answer(q, req[q].out)
  /\ Reads
-----------------------------------------------------------------------------
(* history and remove_watched: watch_belongs_to_user, two statements.       *)

FindWatch(q) ==
  /\ req[q].at = "ask"
  /\ req[q].op \in {"history", "remove"}
  /\ IF req[q].watch \in watched
     THEN Become(q, [req[q] EXCEPT !.at = "found",
                                   !.res = WatchOf[req[q].watch]])
     ELSE Refuse(q)
  /\ Reads

CheckWatcher(q) ==
  /\ req[q].at = "found"
  /\ req[q].op \in {"history", "remove"}
  /\ IF Owns(req[q].user, req[q].res) THEN At(q, "owned") ELSE Refuse(q)
  /\ Reads

History(q) ==
  /\ req[q].at = "owned"
  /\ req[q].op = "history"
  /\ Answer(q, Plain({req[q].res}))
  /\ Reads

RemoveWatch(q) ==
  /\ req[q].at = "owned"
  /\ req[q].op = "remove"
  /\ watched' = watched \ {req[q].watch}
  /\ Answer(q, Plain({req[q].res}))
  /\ Quiet
  /\ UNCHANGED <<active, bookings, subs, catalog, plans>>
-----------------------------------------------------------------------------
(* deck_plan.                                                               *)

(* An unknown deck is refused before the database is asked.                 *)
CheckShip(q) ==
  /\ req[q].at = "ask"
  /\ req[q].op = "plan"
  /\ IF OnShip(req[q].user, req[q].code) /\ ShipName(req[q].code)
     THEN At(q, "owned") ELSE Refuse(q)
  /\ Reads

PlanKey(q) == <<req[q].code, req[q].deck>>

(* get_deck_plan, by the code as typed.                                     *)
LookupPlan(q) ==
  /\ req[q].at = "owned"
  /\ req[q].op = "plan"
  /\ IF PlanKey(q) \in plans THEN Answer(q, {}) ELSE At(q, "fetch")
  /\ Reads

FetchPlan(q) ==
  /\ req[q].at = "fetch"
  /\ req[q].op = "plan"
  /\ At(q, "cache")
  /\ Reads

(* Answered even when the row cannot be stored.                             *)
CachePlan(q) ==
  /\ req[q].at = "cache"
  /\ plans' \in {plans \cup {PlanKey(q)}, plans}
  /\ Answer(q, {})
  /\ Quiet
  /\ UNCHANGED <<active, bookings, subs, catalog, watched>>
-----------------------------------------------------------------------------
(* A statement or a fetch fails, the client goes away, or the answer has    *)
(* been sent.                                                               *)
Leave(q) ==
  /\ req[q].at # "idle"
  /\ Refuse(q)
  /\ held' = [held EXCEPT ![q] = {}]
  /\ fellows' = [fellows EXCEPT ![q] = {}]
  /\ ended' = [ended EXCEPT ![q] = {}]
  /\ UNCHANGED <<today, database>>

Handles(q) ==
  \/ CheckOwner(q) \/ FindBooking(q) \/ FetchCatalog(q) \/ UpsertEntry(q)
  \/ Browse(q) \/ Search(q)
  \/ ListCurrent(q) \/ SharedWith(q) \/ PickWatches(q) \/ LatestPrice(q)
  \/ EachDone(q)
  \/ FindWatch(q) \/ CheckWatcher(q) \/ History(q) \/ RemoveWatch(q)
  \/ CheckShip(q) \/ LookupPlan(q) \/ FetchPlan(q) \/ CachePlan(q)
  \/ Leave(q)
-----------------------------------------------------------------------------
(* Beside the requests.                                                     *)

(* The history of the requests in flight, kept up with the tables.          *)
Witness(b, s, a) ==
  /\ held' = [q \in Request |->
       IF req[q].at = "idle" THEN {} ELSE held[q] \cup Holds(req[q].user, b, s)]
  /\ fellows' = [q \in Request |->
       IF req[q].at = "idle" THEN {} ELSE fellows[q] \cup Others(req[q].user, s, a)]

StoreBooking(s) ==
  /\ bookings[s.res] # None => bookings[s.res].line = s.line
  /\ bookings' = [bookings EXCEPT ![s.res] = s]
  /\ ended' = [q \in Request |-> ended[q] \ {s.res}]
  /\ Witness(bookings', subs, active)
  /\ UNCHANGED <<today, active, subs, catalog, watched, plans, req>>

Subscribe(u, r) ==
  /\ bookings[r] # None
  /\ subs' = subs \cup {<<u, r>>}
  /\ Witness(bookings, subs', active)
  /\ UNCHANGED <<today, active, bookings, catalog, watched, plans, req, ended>>

RemoveAccount(u, line) ==
  /\ subs' = {p \in subs : ~ (p[1] = u /\ bookings[p[2]].line = line)}
  /\ UNCHANGED <<today, active, bookings, catalog, watched, plans, req, held,
                 fellows, ended>>

Register(u) ==
  /\ active' = active \cup {u}
  /\ Witness(bookings, subs, active')
  /\ UNCHANGED <<today, bookings, subs, catalog, watched, plans, req, ended>>

Unregister(u) ==
  /\ active' = active \ {u}
  /\ UNCHANGED <<today, bookings, subs, catalog, watched, plans, req, held, fellows,
                 ended>>

AddWatch(w) ==
  /\ bookings[WatchOf[w]] # None
  /\ watched' = watched \cup {w}
  /\ UNCHANGED <<today, active, bookings, subs, catalog, plans, req, held, fellows,
                 ended>>

Midnight ==
  /\ today < MaxDay
  /\ today' = today + 1
  /\ UNCHANGED <<database, req, held, fellows, ended>>

Next ==
  \/ \E q \in Request, u \in User :
       \/ \E op \in {"refresh", "browse"}, r \in Reservation :
            AskReservation(q, u, op, r)
       \/ \E op \in {"search", "bookings", "watches"} : AskAll(q, u, op)
       \/ \E op \in {"history", "remove"}, w \in Watch : AskWatch(q, u, op, w)
       \/ \E code \in Code, deck \in Deck : AskPlan(q, u, code, deck)
  \/ \E q \in Request : Handles(q)
  \/ \E s \in Sailing : StoreBooking(s)
  \/ \E u \in User, r \in Reservation : Subscribe(u, r)
  \/ \E u \in User, line \in {"rcg", "princess"} : RemoveAccount(u, line)
  \/ \E u \in User : Register(u) \/ Unregister(u)
  \/ \E w \in Watch : AddWatch(w)
  \/ Midnight

Spec == Init /\ [][Next]_vars
-----------------------------------------------------------------------------
(* Properties.                                                              *)

(* Whatever a request answers or removes is of reservations its user held   *)
(* at some moment since it came, however the tables change between the      *)
(* check and the read (user_owns_reservation, watch_belongs_to_user,        *)
(* list_bookings_for_user, search_catalog's join).                          *)
AnswersAreOwn ==
  \A q \in Request : \A item \in req[q].out :
    \E p \in held[q] : p[1] = item[1]

(* A booking is shown as shared only with others who, at some moment since  *)
(* the request came, held it and were not unregistered (list_subscribers_for_reservation *)
(* and the filter of list_bookings).                                        *)
SharedAreFellows ==
  \A q \in Request : \A item \in req[q].out : \A u \in item[2] :
    u # req[q].user /\ <<u, item[1]>> \in fellows[q]

(* A cruise that was over when the request came, and was not booked anew    *)
(* since, is not listed, nor is a watch of it (current_bookings_for).       *)
EndedStayHidden ==
  \A q \in Request : req[q].op \in {"bookings", "watches"} =>
    \A item \in req[q].out : item[1] \notin ended[q]

(* A deck plan in the cache when the request came is not fetched again, in  *)
(* whatever letters the ship is typed (the cache's key is the code as       *)
(* typed).                                                                  *)
CachedPlanIsServed ==
  \A q \in Request : req[q].had => req[q].at \notin {"fetch", "cache"}
=============================================================================
