---------------------------- MODULE MiniAppProofs ----------------------------
(***************************************************************************)
(* Proofs about MiniApp, for any users, reservations, watches, ships and   *)
(* number of requests, and any number of midnights.                        *)
(*                                                                         *)
(* What a handler answers it has read at several moments; the tables move  *)
(* on in between.  The invariant says of every handler in flight what its  *)
(* stage has established, against the history of its request: what its     *)
(* user has held, who else has, and which cruises were over.  Each is      *)
(* stated of a handler's state x and a history given to it, so that a step *)
(* of one request says nothing of another.                                 *)
(***************************************************************************)
EXTENDS MiniApp, TLAPS

Own(h) == {p[1] : p \in h}

(* The arguments a handler came with.                                       *)
Argued(x) ==
  /\ x.at = "idle" => x = Free
  /\ x.at # "idle" => x.user \in User
  /\ x.at # "idle" /\ x.op \in {"refresh", "browse"} => x.res \in Reservation
  /\ x.at # "idle" /\ x.op = "plan" => x.code \in Code /\ x.deck \in Deck

(* A reservation past its owner test, the reservations gone over, those of  *)
(* the watches gone over, and the ones answered are its user's.             *)
GoesOverReservations(x) ==
  \/ x.op = "bookings" /\ x.at = "each"
  \/ x.op = "watches" /\ x.at = "owned"
GoesOverWatches(x) == x.op = "watches" /\ x.at = "each"

Owning(x, h) ==
  /\ x.at = "owned" /\ x.op \in {"browse", "history", "remove"} => x.res \in Own(h)
  /\ GoesOverReservations(x) => x.mine \subseteq Own(h)
  /\ GoesOverWatches(x) =>
       \A w \in x.mine : w \in Watch /\ WatchOf[w] \in Own(h)
  /\ x.op = "refresh" /\ x.at = "each" => x.mine \subseteq Product
  /\ \A item \in x.out : item[1] \in Own(h)

Sharing(x, f) ==
  \A item \in x.out : \A u \in item[2] : u # x.user /\ <<u, item[1]>> \in f

(* None of them was over when the request came.                             *)
Hiding(x, e) ==
  /\ GoesOverReservations(x) => \A r \in x.mine : r \notin e
  /\ GoesOverWatches(x) => \A w \in x.mine : WatchOf[w] \notin e
  /\ x.op \in {"bookings", "watches"} => \A item \in x.out : item[1] \notin e

(* Only codes in the letters of our table pass the ship test, so a plan     *)
(* that was cached is found under the key it is asked by.                   *)
Planning(x, pl) ==
  /\ x.had => /\ x.op = "plan"
              /\ x.at \notin {"fetch", "cache"}
              /\ \E p \in pl : p[1].ship = x.code.ship /\ p[2] = x.deck
  /\ x.op = "plan" /\ x.at \in {"owned", "fetch", "cache"} => x.code.exact
  /\ x.at = "cache" => x.op = "plan"

Fits(x, h, f, e, pl) ==
  Argued(x) /\ Owning(x, h) /\ Sharing(x, f) /\ Hiding(x, e) /\ Planning(x, pl)

(* The history of a request in flight covers the tables as they are.        *)
Covers(x, h, f, e) ==
  x.at # "idle" =>
    /\ Holds(x.user, bookings, subs) \subseteq h
    /\ Others(x.user, subs, active) \subseteq f
    /\ \A r \in e : bookings[r] # None /\ HasEnded(r, x.day)

(* Only what is booked is subscribed to.                                    *)
Booked == \A p \in subs : bookings[p[2]] # None

IInv ==
  /\ TypeOK
  /\ Booked
  /\ \A q \in Request : Fits(req[q], held[q], fellows[q], ended[q], plans)
  /\ \A q \in Request : Covers(req[q], held[q], fellows[q], ended[q])
-----------------------------------------------------------------------------
(* How a handler's state changes: its stage, its reservation, what it goes  *)
(* over and what it will answer; nothing else once it has come.             *)
Turns(y, x, at, res, mine, out) ==
  /\ y \in Handler
  /\ y.at = at /\ y.res = res /\ y.mine = mine /\ y.out = out
  /\ y.op = x.op /\ y.user = x.user /\ y.day = x.day /\ y.watch = x.watch
  /\ y.code = x.code /\ y.deck = x.deck /\ y.had = x.had

Stages == {"idle", "ask", "owned", "found", "each", "fetch", "cache", "answered"}
Mine == SUBSET (Reservation \cup Watch \cup Product)
Out == SUBSET (Reservation \X SUBSET User)

LEMMA TurnsAt ==
  ASSUME NEW x \in Handler, NEW at \in Stages
  PROVE  Turns([x EXCEPT !.at = at], x, at, x.res, x.mine, x.out)
BY DEF Turns, Handler, Stages

LEMMA TurnsOver ==
  ASSUME NEW x \in Handler, NEW at \in Stages, NEW mine \in Mine
  PROVE  Turns([x EXCEPT !.at = at, !.mine = mine], x, at, x.res, mine, x.out)
BY DEF Turns, Handler, Stages, Mine

LEMMA TurnsOut ==
  ASSUME NEW x \in Handler, NEW mine \in Mine, NEW out \in Out
  PROVE  Turns([x EXCEPT !.mine = mine, !.out = out], x, x.at, x.res, mine, out)
BY DEF Turns, Handler, Mine, Out

LEMMA TurnsAnswered ==
  ASSUME NEW x \in Handler, NEW out \in Out
  PROVE  Turns([x EXCEPT !.at = "answered", !.mine = {}, !.out = out],
               x, "answered", x.res, {}, out)
BY DEF Turns, Handler, Out

LEMMA FreeFits ==
  /\ Free \in Handler /\ Free.at = "idle"
  /\ \A h, f, e, pl : Fits(Free, h, f, e, pl)
<1>1. Free \in Handler
  BY MiniAppAssumption DEF Free, Handler, Op
<1> QED
  BY <1>1 DEF Free, Fits, Argued, Owning, Sharing, Hiding, Planning,
              GoesOverReservations, GoesOverWatches

LEMMA PlainTyped ==
  ASSUME NEW rs \in SUBSET Reservation
  PROVE  /\ Plain(rs) \in Out
         /\ \A item \in Plain(rs) : item[1] \in rs /\ item[2] = {}
BY DEF Plain, Out

(* A handler that answers what it had gathered fits, and so does one that   *)
(* answers anything of its user's that was not over.                        *)
LEMMA AnswerFits ==
  ASSUME NEW x \in Handler, NEW h, NEW f, NEW e, NEW pl, NEW out \in Out, NEW y,
         Fits(x, h, f, e, pl), x.at # "idle",
         \A item \in out : item[1] \in Own(h),
         \A item \in out : \A u \in item[2] : u # x.user /\ <<u, item[1]>> \in f,
         x.op \in {"bookings", "watches"} => \A item \in out : item[1] \notin e,
         Turns(y, x, "answered", x.res, {}, out)
  PROVE  Fits(y, h, f, e, pl)
<1>1. Sharing(y, f)
  BY DEF Sharing, Turns
<1>2. Argued(y) /\ Owning(y, h) /\ Hiding(y, e) /\ Planning(y, pl)
  BY DEF Turns, Fits, Argued, Owning, Hiding, Planning, GoesOverReservations,
         GoesOverWatches
<1> QED
  BY <1>1, <1>2 DEF Fits

(* An answer that names no one else shares nothing.                         *)
LEMMA PlainFits ==
  ASSUME NEW x \in Handler, NEW h, NEW f, NEW e, NEW pl, NEW rs \in SUBSET Reservation,
         NEW y, Fits(x, h, f, e, pl), x.at # "idle", rs \subseteq Own(h),
         x.op \notin {"bookings", "watches"},
         Turns(y, x, "answered", x.res, {}, Plain(rs))
  PROVE  Fits(y, h, f, e, pl)
  BY PlainTyped, AnswerFits
-----------------------------------------------------------------------------
(* What a statement of a request in flight reads.                           *)

LEMMA OwnedIsHeld ==
  ASSUME NEW x, NEW h, NEW f, NEW e, Covers(x, h, f, e), x.at # "idle",
         NEW r, Owns(x.user, r)
  PROVE  r \in Own(h)
<1> DEFINE p == <<x.user, r>>
<1>1. p \in {y \in subs : y[1] = x.user}
  BY DEF Owns
<1>2. <<p[2], bookings[p[2]].ship>> \in Holds(x.user, bookings, subs)
  BY <1>1 DEF Holds
<1>3. <<r, bookings[r].ship>> \in h
  BY <1>2 DEF Covers
<1> QED
  BY <1>3 DEF Own

LEMMA OwnTyped ==
  ASSUME TypeOK, NEW q \in Request PROVE Own(held[q]) \subseteq Reservation
BY DEF TypeOK, Own
-----------------------------------------------------------------------------
(* The steps of one request, each from what its stage has established.      *)

Continues(q, y) ==
  /\ y \in Handler
  /\ Become(q, y)
  /\ Fits(y, held[q], fellows[q], ended[q], plans)
  /\ y.at # "idle" => y.user = req[q].user /\ y.day = req[q].day

(* What the statements and calls leave of the tables.                       *)
Leaves(q) ==
  /\ Quiet
  /\ UNCHANGED <<active, bookings, subs>>
  /\ catalog' \subseteq Reservation \X Product
  /\ watched' \subseteq Watch
  /\ plans \subseteq plans'
  /\ plans' \subseteq [ship : Ship, exact : {TRUE}] \X Deck

LEMMA ReadsLeave ==
  ASSUME TypeOK, NEW q \in Request, Reads PROVE Leaves(q)
BY DEF TypeOK, Reads, Leaves, database

(* An error.                                                                *)
LEMMA RefuseContinues ==
  ASSUME NEW q \in Request, Refuse(q) PROVE Continues(q, Free)
BY FreeFits DEF Refuse, Continues

InFlight(q) ==
  /\ TypeOK
  /\ req[q] \in Handler
  /\ req[q].at # "idle"
  /\ Fits(req[q], held[q], fellows[q], ended[q], plans)
  /\ Covers(req[q], held[q], fellows[q], ended[q])
  /\ Own(held[q]) \subseteq Reservation

LEMMA CheckOwnerStep ==
  ASSUME NEW q \in Request, InFlight(q), CheckOwner(q)
  PROVE  \E y : Continues(q, y)
<1> DEFINE x == req[q]
<1>1. CASE Owns(x.user, x.res)
  <2> DEFINE y == [x EXCEPT !.at = "owned"]
  <2>1. x.res \in Own(held[q])
    BY <1>1, OwnedIsHeld DEF InFlight
  <2>2. Turns(y, x, "owned", x.res, x.mine, x.out)
    BY TurnsAt DEF InFlight, Stages
  <2>3. At(q, "owned") /\ x.op \in {"refresh", "browse"}
    BY <1>1 DEF CheckOwner
  <2> HIDE DEF x, y
  <2>4. Fits(y, held[q], fellows[q], ended[q], plans)
    BY <2>1, <2>2, <2>3 DEF Turns, InFlight, Fits, Argued, Owning, Sharing, Hiding,
       Planning, GoesOverReservations, GoesOverWatches, x
  <2> QED
    BY <2>2, <2>3, <2>4 DEF Continues, At, Turns, x, y
<1>2. CASE ~ Owns(x.user, x.res)
  BY <1>2, RefuseContinues DEF CheckOwner
<1> QED
  BY <1>1, <1>2

LEMMA FindBookingStep ==
  ASSUME NEW q \in Request, InFlight(q), FindBooking(q)
  PROVE  \E y : Continues(q, y)
<1> DEFINE x == req[q]
           y == [x EXCEPT !.at = "fetch"]
<1>1. CASE At(q, "fetch")
  <2>1. Turns(y, x, "fetch", x.res, x.mine, x.out)
    BY TurnsAt DEF InFlight, Stages
  <2>2. x.at = "owned" /\ x.op = "refresh"
    BY DEF FindBooking
  <2> HIDE DEF x, y
  <2>3. Fits(y, held[q], fellows[q], ended[q], plans)
    BY <2>1, <2>2 DEF Turns, InFlight, Fits, Argued, Owning, Sharing, Hiding,
       Planning, GoesOverReservations, GoesOverWatches, x
  <2> QED
    BY <1>1, <2>1, <2>3 DEF Continues, At, Turns, x, y
<1>2. CASE Refuse(q)
  BY <1>2, RefuseContinues
<1> QED
  BY <1>1, <1>2 DEF FindBooking

LEMMA FetchCatalogStep ==
  ASSUME NEW q \in Request, InFlight(q), FetchCatalog(q)
  PROVE  \E y : Continues(q, y)
<1> DEFINE x == req[q]
<1>1. PICK found \in SUBSET Product :
        Become(q, [x EXCEPT !.at = "each", !.mine = found])
  BY DEF FetchCatalog
<1> DEFINE y == [x EXCEPT !.at = "each", !.mine = found]
<1>2. Turns(y, x, "each", x.res, found, x.out)
  BY TurnsOver DEF InFlight, Stages, Mine
<1>3. x.at = "fetch" /\ x.op = "refresh" /\ Become(q, y)
  BY <1>1 DEF FetchCatalog
<1> HIDE DEF x, y
<1>4. Fits(y, held[q], fellows[q], ended[q], plans)
  BY <1>2, <1>3 DEF Turns, InFlight, Fits, Argued, Owning, Sharing, Hiding,
       Planning, GoesOverReservations, GoesOverWatches, x
<1> QED
  BY <1>2, <1>3, <1>4 DEF Continues, Turns, x

LEMMA UpsertEntryStep ==
  ASSUME NEW q \in Request, InFlight(q), UpsertEntry(q)
  PROVE  (\E y : Continues(q, y)) /\ Leaves(q)
<1> DEFINE x == req[q]
<1>1. PICK p \in x.mine :
        /\ catalog' \in {catalog \cup {<<x.res, p>>}, catalog}
        /\ Become(q, [x EXCEPT !.mine = @ \ {p}])
  BY DEF UpsertEntry
<1> DEFINE y == [x EXCEPT !.mine = @ \ {p}]
<1>2. x.at = "each" /\ x.op = "refresh" /\ Become(q, y)
  BY <1>1 DEF UpsertEntry
<1>3. x.mine \subseteq Product /\ x.res \in Reservation
  BY <1>2 DEF InFlight, Fits, Argued, Owning
<1>4. Turns(y, x, "each", x.res, x.mine \ {p}, x.out)
  BY <1>2, <1>3 DEF InFlight, Turns, Handler
<1>5. Leaves(q)
  <2>1. TypeOK
    BY DEF InFlight
  <2>2. <<x.res, p>> \in Reservation \X Product
    BY <1>3
  <2>3. catalog' \subseteq Reservation \X Product
    BY <1>1, <2>1, <2>2 DEF TypeOK
  <2> QED
    BY <2>1, <2>3 DEF UpsertEntry, Leaves, TypeOK
<1> HIDE DEF x, y
<1>6. Fits(y, held[q], fellows[q], ended[q], plans)
  BY <1>2, <1>3, <1>4 DEF Turns, InFlight, Fits, Argued, Owning, Sharing, Hiding,
       Planning, GoesOverReservations, GoesOverWatches, x
<1> QED
  BY <1>2, <1>4, <1>5, <1>6 DEF Continues, Turns, x

LEMMA BrowseStep ==
  ASSUME NEW q \in Request, InFlight(q), Browse(q)
  PROVE  \E y : Continues(q, y)
<1> DEFINE x == req[q]
           rs == {r \in {x.res} : \E row \in catalog : row[1] = r}
           y == [x EXCEPT !.at = "answered", !.mine = {}, !.out = Plain(rs)]
<1>1. x.at = "owned" /\ x.op = "browse" /\ Become(q, y)
  BY DEF Browse, Answer
<1>2. rs \subseteq Own(held[q]) /\ rs \in SUBSET Reservation
  BY <1>1 DEF InFlight, Fits, Owning
<1> HIDE DEF rs
<1>3. Turns(y, x, "answered", x.res, {}, Plain(rs))
  BY <1>2, PlainTyped, TurnsAnswered DEF InFlight
<1> HIDE DEF x, y
<1>4. Fits(y, held[q], fellows[q], ended[q], plans)
  BY <1>1, <1>2, <1>3, PlainFits DEF InFlight, x
<1> QED
  BY <1>1, <1>3, <1>4 DEF Continues, Turns, x

LEMMA SearchStep ==
  ASSUME NEW q \in Request, InFlight(q), Search(q)
  PROVE  \E y : Continues(q, y)
<1> DEFINE x == req[q]
<1>1. PICK rs \in Found(x.user) : Answer(q, Plain(rs))
  BY DEF Search
<1> DEFINE y == [x EXCEPT !.at = "answered", !.mine = {}, !.out = Plain(rs)]
<1>2. x.at = "ask" /\ x.op = "search" /\ Become(q, y)
  BY <1>1 DEF Search, Answer
<1>3. \A r \in rs : r \in Reservation /\ Owns(x.user, r)
  BY DEF Found, BookingsOf
<1>4. rs \subseteq Own(held[q]) /\ rs \in SUBSET Reservation
  BY <1>3, OwnedIsHeld DEF InFlight
<1>5. Turns(y, x, "answered", x.res, {}, Plain(rs))
  BY <1>4, PlainTyped, TurnsAnswered DEF InFlight
<1> HIDE DEF x, y
<1>6. Fits(y, held[q], fellows[q], ended[q], plans)
  BY <1>2, <1>4, <1>5, PlainFits DEF InFlight, x
<1> QED
  BY <1>2, <1>5, <1>6 DEF Continues, Turns, x

(* The lists begin with the current bookings: held, and not over.           *)
LEMMA ListCurrentStep ==
  ASSUME NEW q \in Request, InFlight(q), ListCurrent(q)
  PROVE  \E y : Continues(q, y)
<1> DEFINE x == req[q]
           mine == Current(x.user, x.day)
           at == IF x.op = "bookings" THEN "each" ELSE "owned"
           y == [x EXCEPT !.at = at, !.mine = mine]
<1>1. x.at = "ask" /\ x.op \in {"bookings", "watches"} /\ at \in Stages
  BY DEF ListCurrent, Stages
<1>2. mine \subseteq Reservation /\ mine \subseteq Own(held[q])
  BY OwnedIsHeld DEF InFlight, Current, BookingsOf
<1>3. \A r \in mine : r \notin ended[q]
  BY DEF InFlight, Current, Covers
<1>4. [x EXCEPT !.mine = mine, !.at = at] = y
  BY DEF InFlight, Handler
<1>5. Become(q, y)
  BY <1>4 DEF ListCurrent
<1> HIDE DEF mine
<1>6. Turns(y, x, at, x.res, mine, x.out)
  BY <1>1, <1>2, TurnsOver DEF InFlight, Mine
<1>7. /\ x.op = "bookings" => at = "each"
      /\ x.op = "watches" => at = "owned"
  OBVIOUS
<1> HIDE DEF x, y, at
<1>8. Fits(y, held[q], fellows[q], ended[q], plans)
  BY <1>1, <1>2, <1>3, <1>6, <1>7 DEF Turns, InFlight, Fits, Argued, Owning, Sharing, Hiding,
       Planning, GoesOverReservations, GoesOverWatches, x
<1> QED
  BY <1>5, <1>6, <1>8 DEF Continues, Turns, x

(* A booking's other subscribers are read when it is come to; they hold it  *)
(* at that moment, and are not unregistered.                                *)
LEMMA SharedWithStep ==
  ASSUME NEW q \in Request, InFlight(q), SharedWith(q)
  PROVE  \E y : Continues(q, y)
<1> DEFINE x == req[q]
<1>1. PICK r \in x.mine :
        Become(q, [x EXCEPT !.mine = @ \ {r},
                            !.out = @ \cup {<<r, Subscribers(r) \ {x.user}>>}])
  BY DEF SharedWith
<1> DEFINE item == <<r, Subscribers(r) \ {x.user}>>
           out == x.out \cup {item}
           mine == x.mine \ {r}
           y == [x EXCEPT !.mine = mine, !.out = out]
<1>2. x.at = "each" /\ x.op = "bookings"
  BY DEF SharedWith
<1>3. r \in Own(held[q]) /\ r \notin ended[q] /\ r \in Reservation
  BY <1>2 DEF InFlight, Fits, Owning, Hiding, GoesOverReservations
<1>4. \A u \in Subscribers(r) \ {x.user} :
        u \in User /\ u # x.user /\ <<u, r>> \in fellows[q]
  <2> SUFFICES ASSUME NEW u \in Subscribers(r) \ {x.user}
               PROVE  u \in User /\ u # x.user /\ <<u, r>> \in fellows[q]
    OBVIOUS
  <2>1. u \in active /\ <<u, r>> \in subs /\ u # x.user
    BY DEF Subscribers, Owns
  <2>2. <<u, r>> \in Others(x.user, subs, active)
    BY <2>1 DEF Others
  <2> QED
    BY <2>1, <2>2 DEF InFlight, Covers, TypeOK
<1>5. item \in Reservation \X SUBSET User
  BY <1>3, <1>4
<1>6. out \in Out /\ mine \in Mine
  BY <1>5 DEF InFlight, Handler, Out, Mine
<1>7. Become(q, y)
  BY <1>1
<1>8. \A i \in out : \/ i \in x.out
                     \/ i[1] = r /\ i[2] = Subscribers(r) \ {x.user}
  OBVIOUS
<1>9. mine \subseteq x.mine
  OBVIOUS
<1> HIDE DEF out, mine, item
<1>10. Turns(y, x, "each", x.res, mine, out)
  BY <1>2, <1>6, TurnsOut DEF InFlight
<1> HIDE DEF x, y
<1>11. Argued(y) /\ Planning(y, plans)
  BY <1>2, <1>10 DEF Turns, InFlight, Fits, Argued, Planning, x
<1>12. Owning(y, held[q]) /\ Hiding(y, ended[q])
  BY <1>2, <1>3, <1>8, <1>9, <1>10
     DEF Turns, InFlight, Fits, Owning, Hiding, GoesOverReservations, GoesOverWatches, x
<1>13. Sharing(y, fellows[q])
  BY <1>4, <1>8, <1>10 DEF Turns, InFlight, Fits, Sharing, x
<1>14. Fits(y, held[q], fellows[q], ended[q], plans)
  BY <1>11, <1>12, <1>13 DEF Fits
<1> QED
  BY <1>7, <1>10, <1>14 DEF Continues, Turns, x

LEMMA PickWatchesStep ==
  ASSUME NEW q \in Request, InFlight(q), PickWatches(q)
  PROVE  \E y : Continues(q, y)
<1> DEFINE x == req[q]
           mine == {w \in watched : WatchOf[w] \in x.mine}
           y == [x EXCEPT !.at = "each", !.mine = mine]
<1>1. x.at = "owned" /\ x.op = "watches" /\ Become(q, y)
  BY DEF PickWatches
<1>2. x.mine \subseteq Own(held[q]) /\ \A r \in x.mine : r \notin ended[q]
  BY <1>1 DEF InFlight, Fits, Owning, Hiding, GoesOverReservations
<1>3. \A w \in mine : w \in Watch /\ WatchOf[w] \in x.mine
  BY DEF InFlight, TypeOK
<1> HIDE DEF mine
<1>4. Turns(y, x, "each", x.res, mine, x.out)
  BY <1>3, TurnsOver DEF InFlight, Stages, Mine
<1> HIDE DEF x, y
<1>5. Fits(y, held[q], fellows[q], ended[q], plans)
  BY <1>1, <1>2, <1>3, <1>4 DEF Turns, InFlight, Fits, Argued, Owning, Sharing, Hiding,
       Planning, GoesOverReservations, GoesOverWatches, x
<1> QED
  BY <1>1, <1>4, <1>5 DEF Continues, Turns, x

LEMMA LatestPriceStep ==
  ASSUME NEW q \in Request, InFlight(q), LatestPrice(q)
  PROVE  \E y : Continues(q, y)
<1> DEFINE x == req[q]
<1>1. PICK w \in x.mine :
        Become(q, [x EXCEPT !.mine = @ \ {w}, !.out = @ \cup Plain({WatchOf[w]})])
  BY DEF LatestPrice
<1> DEFINE r == WatchOf[w]
           out == x.out \cup Plain({r})
           mine == x.mine \ {w}
           y == [x EXCEPT !.mine = mine, !.out = out]
<1>2. x.at = "each" /\ x.op = "watches"
  BY DEF LatestPrice
<1>3. r \in Own(held[q]) /\ r \notin ended[q] /\ r \in Reservation
  BY <1>2 DEF InFlight, Fits, Owning, Hiding, GoesOverWatches
<1>4. \A i \in out : \/ i \in x.out
                     \/ i[1] = r /\ i[2] = {}
  BY DEF Plain
<1>5. out \in Out /\ mine \in Mine /\ mine \subseteq x.mine
  BY <1>3, PlainTyped DEF InFlight, Handler, Out, Mine
<1>6. Become(q, y)
  BY <1>1
<1> HIDE DEF out, mine, r
<1>7. Turns(y, x, "each", x.res, mine, out)
  BY <1>2, <1>5, TurnsOut DEF InFlight
<1> HIDE DEF x, y
<1>8. Argued(y) /\ Planning(y, plans)
  BY <1>2, <1>7 DEF Turns, InFlight, Fits, Argued, Planning, x
<1>9. Owning(y, held[q]) /\ Hiding(y, ended[q])
  BY <1>2, <1>3, <1>4, <1>5, <1>7
     DEF Turns, InFlight, Fits, Owning, Hiding, GoesOverReservations, GoesOverWatches, x
<1>10. Sharing(y, fellows[q])
  BY <1>4, <1>7 DEF Turns, InFlight, Fits, Sharing, x
<1>11. Fits(y, held[q], fellows[q], ended[q], plans)
  BY <1>8, <1>9, <1>10 DEF Fits
<1> QED
  BY <1>6, <1>7, <1>11 DEF Continues, Turns, x

LEMMA EachDoneStep ==
  ASSUME NEW q \in Request, InFlight(q), EachDone(q)
  PROVE  \E y : Continues(q, y)
<1> DEFINE x == req[q]
           y == [x EXCEPT !.at = "answered", !.mine = {}, !.out = x.out]
<1>1. x.at = "each" /\ Become(q, y)
  BY DEF EachDone, Answer
<1>2. x.out \in Out
  BY DEF InFlight, Handler, Out
<1>3. Turns(y, x, "answered", x.res, {}, x.out)
  BY <1>2, TurnsAnswered DEF InFlight
<1> HIDE DEF x, y
<1>4. Fits(y, held[q], fellows[q], ended[q], plans)
  BY <1>1, <1>3 DEF Turns, InFlight, Fits, Argued, Owning, Sharing, Hiding,
       Planning, GoesOverReservations, GoesOverWatches, x
<1> QED
  BY <1>1, <1>3, <1>4 DEF Continues, Turns, x

LEMMA FindWatchStep ==
  ASSUME NEW q \in Request, InFlight(q), FindWatch(q)
  PROVE  \E y : Continues(q, y)
<1> DEFINE x == req[q]
           res == WatchOf[x.watch]
           y == [x EXCEPT !.at = "found", !.res = res]
<1>1. x.at = "ask" /\ x.op \in {"history", "remove"}
  BY DEF FindWatch
<1>2. CASE x.watch \in watched
  <2>1. Become(q, y)
    BY <1>2 DEF FindWatch
  <2>2. res \in Reservation
    BY <1>2, MiniAppAssumption DEF InFlight, TypeOK
  <2> HIDE DEF res
  <2>3. Turns(y, x, "found", res, x.mine, x.out)
    BY <2>2 DEF InFlight, Turns, Handler
  <2> HIDE DEF x, y
  <2>4. Fits(y, held[q], fellows[q], ended[q], plans)
    BY <1>1, <2>3 DEF Turns, InFlight, Fits, Argued, Owning, Sharing, Hiding,
       Planning, GoesOverReservations, GoesOverWatches, x
  <2> QED
    BY <2>1, <2>3, <2>4 DEF Continues, Turns, x
<1>3. CASE x.watch \notin watched
  BY <1>3, RefuseContinues DEF FindWatch
<1> QED
  BY <1>2, <1>3

LEMMA CheckWatcherStep ==
  ASSUME NEW q \in Request, InFlight(q), CheckWatcher(q)
  PROVE  \E y : Continues(q, y)
<1> DEFINE x == req[q]
           y == [x EXCEPT !.at = "owned"]
<1>1. CASE Owns(x.user, x.res)
  <2>1. x.res \in Own(held[q])
    BY <1>1, OwnedIsHeld DEF InFlight
  <2>2. Turns(y, x, "owned", x.res, x.mine, x.out)
    BY TurnsAt DEF InFlight, Stages
  <2>3. Become(q, y) /\ x.op \in {"history", "remove"} /\ x.at = "found"
    BY <1>1 DEF CheckWatcher, At
  <2> HIDE DEF x, y
  <2>4. Fits(y, held[q], fellows[q], ended[q], plans)
    BY <2>1, <2>2, <2>3 DEF Turns, InFlight, Fits, Argued, Owning, Sharing, Hiding,
       Planning, GoesOverReservations, GoesOverWatches, x
  <2> QED
    BY <2>2, <2>3, <2>4 DEF Continues, Turns, x
<1>2. CASE ~ Owns(x.user, x.res)
  BY <1>2, RefuseContinues DEF CheckWatcher
<1> QED
  BY <1>1, <1>2

(* history and remove_watched answer of the reservation they tested.        *)
LEMMA WatchAnswerStep ==
  ASSUME NEW q \in Request, InFlight(q), History(q) \/ RemoveWatch(q)
  PROVE  (\E y : Continues(q, y)) /\ Leaves(q)
<1> DEFINE x == req[q]
           rs == {x.res}
           y == [x EXCEPT !.at = "answered", !.mine = {}, !.out = Plain(rs)]
<1>1. x.at = "owned" /\ x.op \in {"history", "remove"} /\ Become(q, y)
  BY DEF History, RemoveWatch, Answer
<1>2. rs \subseteq Own(held[q]) /\ rs \in SUBSET Reservation
  BY <1>1 DEF InFlight, Fits, Owning
<1> HIDE DEF rs
<1>3. Turns(y, x, "answered", x.res, {}, Plain(rs))
  BY <1>2, PlainTyped, TurnsAnswered DEF InFlight
<1> HIDE DEF x, y
<1>4. Fits(y, held[q], fellows[q], ended[q], plans)
  BY <1>1, <1>2, <1>3, PlainFits DEF InFlight, x
<1>5. Leaves(q)
  <2>1. TypeOK
    BY DEF InFlight
  <2>2. CASE History(q)
    BY <2>1, <2>2, ReadsLeave DEF History
  <2>3. CASE RemoveWatch(q)
    BY <2>1, <2>3 DEF RemoveWatch, Leaves, TypeOK
  <2> QED
    BY <2>2, <2>3
<1> QED
  BY <1>1, <1>3, <1>4, <1>5 DEF Continues, Turns, x

LEMMA CheckShipStep ==
  ASSUME NEW q \in Request, InFlight(q), CheckShip(q)
  PROVE  \E y : Continues(q, y)
<1> DEFINE x == req[q]
           y == [x EXCEPT !.at = "owned"]
<1>1. CASE OnShip(x.user, x.code) /\ ShipName(x.code)
  <2>1. x.code.exact
    BY <1>1 DEF ShipName
  <2>2. Turns(y, x, "owned", x.res, x.mine, x.out)
    BY TurnsAt DEF InFlight, Stages
  <2>3. Become(q, y) /\ x.op = "plan" /\ x.at = "ask"
    BY <1>1 DEF CheckShip, At
  <2> HIDE DEF x, y
  <2>4. Fits(y, held[q], fellows[q], ended[q], plans)
    BY <2>1, <2>2, <2>3 DEF Turns, InFlight, Fits, Argued, Owning, Sharing, Hiding,
       Planning, GoesOverReservations, GoesOverWatches, x
  <2> QED
    BY <2>2, <2>3, <2>4 DEF Continues, Turns, x
<1>2. CASE ~ (OnShip(x.user, x.code) /\ ShipName(x.code))
  BY <1>2, RefuseContinues DEF CheckShip
<1> QED
  BY <1>1, <1>2

(* A plan cached when the request came is under the key asked for: both     *)
(* codes are in the letters of the table.                                   *)
LEMMA CachedIsFound ==
  ASSUME NEW q \in Request, InFlight(q), req[q].op = "plan", req[q].at = "owned",
         req[q].had
  PROVE  PlanKey(q) \in plans
<1> DEFINE x == req[q]
<1>1. PICK p \in plans : p[1].ship = x.code.ship /\ p[2] = x.deck
  BY DEF InFlight, Fits, Planning
<1>2. x.code \in [ship : Ship, exact : BOOLEAN] /\ x.code.exact
  BY DEF InFlight, Fits, Argued, Planning, Code
<1>3. p \in [ship : Ship, exact : {TRUE}] \X Deck
  BY DEF InFlight, TypeOK
<1>4. p[1] = x.code
  <2>1. p[1] \in [ship : Ship, exact : BOOLEAN] /\ p[1].exact = TRUE
    BY <1>3
  <2>2. x.code.exact = TRUE
    BY <1>2
  <2> QED
    BY <1>1, <1>2, <2>1, <2>2
<1> QED
  BY <1>1, <1>3, <1>4 DEF PlanKey

LEMMA LookupPlanStep ==
  ASSUME NEW q \in Request, InFlight(q), LookupPlan(q)
  PROVE  \E y : Continues(q, y)
<1> DEFINE x == req[q]
<1>1. x.at = "owned" /\ x.op = "plan"
  BY DEF LookupPlan
<1>2. CASE PlanKey(q) \in plans
  <2> DEFINE y == [x EXCEPT !.at = "answered", !.mine = {}, !.out = {}]
  <2>1. Become(q, y)
    BY <1>2 DEF LookupPlan, Answer
  <2>2. Turns(y, x, "answered", x.res, {}, {})
    BY TurnsAnswered DEF InFlight, Out
  <2> HIDE DEF x, y
  <2>3. Fits(y, held[q], fellows[q], ended[q], plans)
    BY <1>1, <2>2 DEF Turns, InFlight, Fits, Argued, Owning, Sharing, Hiding,
       Planning, GoesOverReservations, GoesOverWatches, x
  <2> QED
    BY <2>1, <2>2, <2>3 DEF Continues, Turns, x
<1>3. CASE PlanKey(q) \notin plans
  <2> DEFINE y == [x EXCEPT !.at = "fetch"]
  <2>1. Become(q, y)
    BY <1>3 DEF LookupPlan, At
  <2>2. ~ x.had
    BY <1>1, <1>3, CachedIsFound
  <2>3. Turns(y, x, "fetch", x.res, x.mine, x.out)
    BY TurnsAt DEF InFlight, Stages
  <2> HIDE DEF x, y
  <2>4. Fits(y, held[q], fellows[q], ended[q], plans)
    BY <1>1, <2>2, <2>3 DEF Turns, InFlight, Fits, Argued, Owning, Sharing, Hiding,
       Planning, GoesOverReservations, GoesOverWatches, x
  <2> QED
    BY <2>1, <2>3, <2>4 DEF Continues, Turns, x
<1> QED
  BY <1>2, <1>3

LEMMA FetchPlanStep ==
  ASSUME NEW q \in Request, InFlight(q), FetchPlan(q)
  PROVE  \E y : Continues(q, y)
<1> DEFINE x == req[q]
           y == [x EXCEPT !.at = "cache"]
<1>1. x.at = "fetch" /\ x.op = "plan" /\ Become(q, y)
  BY DEF FetchPlan, At
<1>2. Turns(y, x, "cache", x.res, x.mine, x.out)
  BY TurnsAt DEF InFlight, Stages
<1> HIDE DEF x, y
<1>3. Fits(y, held[q], fellows[q], ended[q], plans)
  BY <1>1, <1>2 DEF Turns, InFlight, Fits, Argued, Owning, Sharing, Hiding,
       Planning, GoesOverReservations, GoesOverWatches, x
<1> QED
  BY <1>1, <1>2, <1>3 DEF Continues, Turns, x

(* Only codes in the letters of the table are ever cached.                  *)
LEMMA CachePlanStep ==
  ASSUME NEW q \in Request, InFlight(q), CachePlan(q)
  PROVE  (\E y : Continues(q, y)) /\ Leaves(q)
<1> DEFINE x == req[q]
           y == [x EXCEPT !.at = "answered", !.mine = {}, !.out = {}]
<1>1. x.at = "cache" /\ Become(q, y)
  BY DEF CachePlan, Answer
<1>2. Turns(y, x, "answered", x.res, {}, {})
  BY TurnsAnswered DEF InFlight, Out
<1>3. Leaves(q)
  <2>1. TypeOK
    BY DEF InFlight
  <2>2. /\ x.code \in [ship : Ship, exact : BOOLEAN] /\ x.code.exact
        /\ x.deck \in Deck
    BY <1>1 DEF InFlight, Fits, Argued, Planning, Code
  <2>3. x.code \in [ship : Ship, exact : {TRUE}]
    BY <2>2
  <2>4. PlanKey(q) \in [ship : Ship, exact : {TRUE}] \X Deck
    BY <2>2, <2>3 DEF PlanKey
  <2>5. plans \subseteq plans' /\ plans' \subseteq [ship : Ship, exact : {TRUE}] \X Deck
    BY <2>1, <2>4 DEF CachePlan, TypeOK
  <2> QED
    BY <2>1, <2>5 DEF CachePlan, Leaves, TypeOK
<1> HIDE DEF x, y
<1>4. Fits(y, held[q], fellows[q], ended[q], plans)
  BY <1>1, <1>2 DEF Turns, InFlight, Fits, Argued, Owning, Sharing, Hiding,
       Planning, GoesOverReservations, GoesOverWatches, x
<1> QED
  BY <1>1, <1>2, <1>3, <1>4 DEF Continues, Turns, x
-----------------------------------------------------------------------------
(* Requests come, go on and leave.                                          *)

Serves(q) ==
  \/ CheckOwner(q) \/ FindBooking(q) \/ FetchCatalog(q) \/ UpsertEntry(q)
  \/ Browse(q) \/ Search(q)
  \/ ListCurrent(q) \/ SharedWith(q) \/ PickWatches(q) \/ LatestPrice(q)
  \/ EachDone(q)
  \/ FindWatch(q) \/ CheckWatcher(q) \/ History(q) \/ RemoveWatch(q)
  \/ CheckShip(q) \/ LookupPlan(q) \/ FetchPlan(q) \/ CachePlan(q)

LEMMA IsInFlight ==
  ASSUME IInv, NEW q \in Request, req[q].at # "idle" PROVE InFlight(q)
BY OwnTyped DEF IInv, InFlight, TypeOK

LEMMA ServesStep ==
  ASSUME IInv, NEW q \in Request, Serves(q)
  PROVE  (\E y : Continues(q, y)) /\ Leaves(q)
<1>1. InFlight(q)
  <2>1. req[q].at # "idle"
    BY DEF Serves, CheckOwner, FindBooking, FetchCatalog, UpsertEntry, Browse, Search,
       ListCurrent, SharedWith, PickWatches, LatestPrice, EachDone, FindWatch,
       CheckWatcher, History, RemoveWatch, CheckShip, LookupPlan, FetchPlan, CachePlan
  <2> QED
    BY <2>1, IsInFlight
<1>2. CASE UpsertEntry(q)
  BY <1>1, <1>2, UpsertEntryStep
<1>3. CASE History(q) \/ RemoveWatch(q)
  BY <1>1, <1>3, WatchAnswerStep
<1>4. CASE CachePlan(q)
  BY <1>1, <1>4, CachePlanStep
<1>5. ASSUME Reads PROVE Leaves(q)
  BY <1>5, ReadsLeave DEF IInv
<1>6. CASE CheckOwner(q)
  BY <1>1, <1>5, <1>6, CheckOwnerStep DEF CheckOwner
<1>7. CASE FindBooking(q)
  BY <1>1, <1>5, <1>7, FindBookingStep DEF FindBooking
<1>8. CASE FetchCatalog(q)
  BY <1>1, <1>5, <1>8, FetchCatalogStep DEF FetchCatalog
<1>9. CASE Browse(q)
  BY <1>1, <1>5, <1>9, BrowseStep DEF Browse
<1>10. CASE Search(q)
  BY <1>1, <1>5, <1>10, SearchStep DEF Search
<1>11. CASE ListCurrent(q)
  BY <1>1, <1>5, <1>11, ListCurrentStep DEF ListCurrent
<1>12. CASE SharedWith(q)
  BY <1>1, <1>5, <1>12, SharedWithStep DEF SharedWith
<1>13. CASE PickWatches(q)
  BY <1>1, <1>5, <1>13, PickWatchesStep DEF PickWatches
<1>14. CASE LatestPrice(q)
  BY <1>1, <1>5, <1>14, LatestPriceStep DEF LatestPrice
<1>15. CASE EachDone(q)
  BY <1>1, <1>5, <1>15, EachDoneStep DEF EachDone
<1>16. CASE FindWatch(q)
  BY <1>1, <1>5, <1>16, FindWatchStep DEF FindWatch
<1>17. CASE CheckWatcher(q)
  BY <1>1, <1>5, <1>17, CheckWatcherStep DEF CheckWatcher
<1>18. CASE CheckShip(q)
  BY <1>1, <1>5, <1>18, CheckShipStep DEF CheckShip
<1>19. CASE LookupPlan(q)
  BY <1>1, <1>5, <1>19, LookupPlanStep DEF LookupPlan
<1>20. CASE FetchPlan(q)
  BY <1>1, <1>5, <1>20, FetchPlanStep DEF FetchPlan
<1> QED
  BY <1>2, <1>3, <1>4, <1>6, <1>7, <1>8, <1>9, <1>10, <1>11, <1>12, <1>13, <1>14,
     <1>15, <1>16, <1>17, <1>18, <1>19, <1>20 DEF Serves

(* More history, more plans and less that is over make nothing unfit.       *)
LEMMA FitsOn ==
  ASSUME NEW x, NEW h, NEW f, NEW e, NEW pl, NEW h2, NEW f2, NEW e2, NEW pl2,
         Fits(x, h, f, e, pl), h \subseteq h2, f \subseteq f2, e2 \subseteq e,
         pl \subseteq pl2
  PROVE  Fits(x, h2, f2, e2, pl2)
<1>1. Own(h) \subseteq Own(h2)
  BY DEF Own
<1>2. Owning(x, h2)
  BY <1>1 DEF Fits, Owning
<1>3. Sharing(x, f2) /\ Hiding(x, e2) /\ Planning(x, pl2)
  BY DEF Fits, Sharing, Hiding, Planning
<1> QED
  BY <1>2, <1>3 DEF Fits

LEMMA HoldsTyped ==
  ASSUME NEW u \in User, NEW b \in [Reservation -> Sailing \cup {None}],
         NEW s \in SUBSET (User \X Reservation), NEW a \in SUBSET User,
         \A p \in s : b[p[2]] # None
  PROVE  /\ Holds(u, b, s) \subseteq Reservation \X Ship
         /\ Others(u, s, a) \subseteq User \X Reservation
<1>1. \A p \in s : p[2] \in Reservation /\ b[p[2]] \in Sailing
  OBVIOUS
<1>2. \A x \in Sailing : x.ship \in Ship
  BY MiniAppAssumption
<1>3. \A p \in s : <<p[2], b[p[2]].ship>> \in Reservation \X Ship
  BY <1>1, <1>2
<1> QED
  BY <1>3 DEF Holds, Others

(* A step of a request in flight keeps the invariant.                       *)
LEMMA ServesKeeps ==
  ASSUME IInv, NEW q \in Request, Serves(q) PROVE IInv'
<1>1. PICK y : Continues(q, y)
  BY ServesStep
<1>2. Leaves(q)
  BY ServesStep
<1>3. /\ y \in Handler /\ req' \in [Request -> Handler]
      /\ req'[q] = y /\ \A p \in Request : p # q => req'[p] = req[p]
  BY <1>1 DEF Continues, Become, IInv, TypeOK
<1>4. TypeOK' /\ Booked'
  BY <1>2, <1>3 DEF Leaves, Quiet, IInv, TypeOK, Booked
<1>5. UNCHANGED <<held, fellows, ended>> /\ plans \subseteq plans'
  BY <1>2 DEF Leaves, Quiet
<1>6. ASSUME NEW p \in Request
      PROVE  /\ Fits(req'[p], held'[p], fellows'[p], ended'[p], plans')
             /\ Covers(req[p], held[p], fellows[p], ended[p])'
  <2>1. Fits(req'[p], held[p], fellows[p], ended[p], plans)
    BY <1>1, <1>3 DEF Continues, IInv
  <2>2. Fits(req'[p], held'[p], fellows'[p], ended'[p], plans')
    BY <1>5, <2>1, FitsOn
  <2>3. Covers(req'[p], held[p], fellows[p], ended[p])
    <3>1. CASE p # q
      BY <1>3, <3>1 DEF IInv
    <3>2. CASE p = q
      <4>1. Covers(req[q], held[q], fellows[q], ended[q]) /\ req[q].at # "idle"
        BY DEF IInv, Serves, CheckOwner, FindBooking, FetchCatalog, UpsertEntry,
           Browse, Search, ListCurrent, SharedWith, PickWatches, LatestPrice, EachDone,
           FindWatch, CheckWatcher, History, RemoveWatch, CheckShip, LookupPlan,
           FetchPlan, CachePlan
      <4> QED
        BY <1>1, <1>3, <3>2, <4>1 DEF Continues, Covers
    <3> QED
      BY <3>1, <3>2
  <2>4. UNCHANGED <<bookings, subs, active>>
    BY <1>2 DEF Leaves
  <2> QED
    BY <1>5, <2>2, <2>3, <2>4 DEF Covers, HasEnded
<1> QED
  BY <1>4, <1>6 DEF IInv

(* A step that leaves every handler as it is.                               *)
LEMMA OutsideKeeps ==
  ASSUME IInv, UNCHANGED req, TypeOK', Booked', plans \subseteq plans',
         \A q \in Request : ended'[q] \subseteq ended[q],
         \A q \in Request : req[q].at # "idle" =>
           /\ held[q] \subseteq held'[q]
           /\ fellows[q] \subseteq fellows'[q]
           /\ Covers(req[q], held[q], fellows[q], ended[q])'
  PROVE  IInv'
<1>1. ASSUME NEW q \in Request
      PROVE  /\ Fits(req[q], held'[q], fellows'[q], ended'[q], plans')
             /\ Covers(req[q], held[q], fellows[q], ended[q])'
  <2>1. Fits(req[q], held[q], fellows[q], ended[q], plans)
    BY DEF IInv
  <2>2. CASE req[q].at # "idle"
    BY <2>1, <2>2, FitsOn
  <2>3. CASE req[q].at = "idle"
    <3>1. req[q] = Free
      BY <2>1, <2>3 DEF Fits, Argued
    <3> QED
      BY <2>3, <3>1, FreeFits DEF Covers
  <2> QED
    BY <2>2, <2>3
<1> QED
  BY <1>1 DEF IInv

(* Witness keeps the history up with the tables it is given.                *)
LEMMA WitnessKeeps ==
  ASSUME IInv, NEW b \in [Reservation -> Sailing \cup {None}],
         NEW s \in SUBSET (User \X Reservation), NEW a \in SUBSET User,
         \A p \in s : b[p[2]] # None, Witness(b, s, a)
  PROVE  /\ held' \in [Request -> SUBSET (Reservation \X Ship)]
         /\ fellows' \in [Request -> SUBSET (User \X Reservation)]
         /\ \A q \in Request : req[q].at # "idle" =>
              /\ held[q] \cup Holds(req[q].user, b, s) \subseteq held'[q]
              /\ fellows[q] \cup Others(req[q].user, s, a) \subseteq fellows'[q]
<1>1. \A q \in Request : req[q].at # "idle" => req[q].user \in User
  BY DEF IInv, Fits, Argued
<1>2. \A q \in Request : req[q].at # "idle" =>
        /\ Holds(req[q].user, b, s) \subseteq Reservation \X Ship
        /\ Others(req[q].user, s, a) \subseteq User \X Reservation
  BY <1>1, HoldsTyped
<1>3. held \in [Request -> SUBSET (Reservation \X Ship)]
      /\ fellows \in [Request -> SUBSET (User \X Reservation)]
  BY DEF IInv, TypeOK
<1> QED
  BY <1>2, <1>3 DEF Witness

(* A request comes: its history begins with the tables as they are.         *)
LEMMA ComeKeeps ==
  ASSUME IInv, NEW q \in Request, NEW state \in Handler, Come(q, state),
         state.at = "ask", state.user \in User, state.mine = {}, state.out = {},
         state.op \in {"refresh", "browse"} => state.res \in Reservation,
         state.op = "plan" => state.code \in Code /\ state.deck \in Deck,
         state.had => /\ state.op = "plan"
                      /\ \E p \in plans : p[1].ship = state.code.ship
                                          /\ p[2] = state.deck
  PROVE  IInv'
<1> DEFINE y == [state EXCEPT !.day = today]
<1>1. /\ y \in Handler /\ y.at = "ask" /\ y.user = state.user /\ y.day = today
      /\ y.mine = {} /\ y.out = {} /\ y.op = state.op /\ y.res = state.res
      /\ y.code = state.code /\ y.deck = state.deck /\ y.had = state.had
  BY DEF IInv, TypeOK, Handler
<1>2. Become(q, y)
  BY DEF Come
<1> HIDE DEF y
<1>3. /\ req' \in [Request -> Handler]
      /\ req'[q] = y /\ \A p \in Request : p # q => req'[p] = req[p]
  BY <1>1, <1>2 DEF Become, IInv, TypeOK
<1>4. /\ Holds(state.user, bookings, subs) \subseteq Reservation \X Ship
      /\ Others(state.user, subs, active) \subseteq User \X Reservation
  BY HoldsTyped DEF IInv, TypeOK, Booked
<1>5. UNCHANGED <<today, active, bookings, subs, catalog, watched, plans>>
  BY DEF Come, database
<1>6. /\ held' \in [Request -> SUBSET (Reservation \X Ship)]
      /\ fellows' \in [Request -> SUBSET (User \X Reservation)]
      /\ ended' \in [Request -> SUBSET Reservation]
      /\ held'[q] = Holds(state.user, bookings, subs)
      /\ fellows'[q] = Others(state.user, subs, active)
      /\ ended'[q] = {r \in Reservation : bookings[r] # None /\ HasEnded(r, today)}
      /\ \A p \in Request : p # q =>
           held'[p] = held[p] /\ fellows'[p] = fellows[p] /\ ended'[p] = ended[p]
  BY <1>4 DEF Come, IInv, TypeOK
<1>7. TypeOK' /\ Booked'
  BY <1>3, <1>5, <1>6 DEF IInv, TypeOK, Booked
<1>8. \A h, f, e : Fits(y, h, f, e, plans)
  BY <1>1 DEF Fits, Argued, Owning, Sharing, Hiding, Planning, GoesOverReservations,
              GoesOverWatches
<1>9. Covers(y, held'[q], fellows'[q], ended'[q])
  BY <1>1, <1>6 DEF Covers
<1>10. ASSUME NEW p \in Request
       PROVE  /\ Fits(req'[p], held'[p], fellows'[p], ended'[p], plans')
              /\ Covers(req[p], held[p], fellows[p], ended[p])'
  <2>1. /\ Fits(req'[p], held'[p], fellows'[p], ended'[p], plans)
        /\ Covers(req'[p], held'[p], fellows'[p], ended'[p])
    BY <1>3, <1>6, <1>8, <1>9 DEF IInv
  <2> QED
    BY <1>5, <2>1 DEF Covers, HasEnded
<1> QED
  BY <1>7, <1>10 DEF IInv

LEMMA AskKeeps ==
  ASSUME IInv, NEW q \in Request, NEW u \in User,
         \/ \E op \in {"refresh", "browse"}, r \in Reservation :
              AskReservation(q, u, op, r)
         \/ \E op \in {"search", "bookings", "watches"} : AskAll(q, u, op)
         \/ \E op \in {"history", "remove"}, w \in Watch : AskWatch(q, u, op, w)
         \/ \E code \in Code, deck \in Deck : AskPlan(q, u, code, deck)
  PROVE  IInv'
<1>0. Free \in Handler /\ Free.mine = {} /\ Free.out = {} /\ ~ Free.had
  BY FreeFits DEF Free
<1>1. ASSUME NEW op \in {"refresh", "browse"}, NEW r \in Reservation,
             AskReservation(q, u, op, r)
      PROVE  IInv'
  <2> DEFINE y == [Free EXCEPT !.op = op, !.at = "ask", !.user = u, !.res = r]
  <2>1. /\ y \in Handler /\ y.at = "ask" /\ y.user = u /\ y.mine = {} /\ y.out = {}
        /\ y.op = op /\ y.res = r /\ ~ y.had
    BY <1>0 DEF Handler, Op
  <2>2. Come(q, y)
    BY <1>1 DEF AskReservation
  <2> HIDE DEF y
  <2> QED
    BY <2>1, <2>2, ComeKeeps
<1>2. ASSUME NEW op \in {"search", "bookings", "watches"}, AskAll(q, u, op)
      PROVE  IInv'
  <2> DEFINE y == [Free EXCEPT !.op = op, !.at = "ask", !.user = u]
  <2>1. /\ y \in Handler /\ y.at = "ask" /\ y.user = u /\ y.mine = {} /\ y.out = {}
        /\ y.op = op /\ ~ y.had
    BY <1>0 DEF Handler, Op
  <2>2. Come(q, y)
    BY <1>2 DEF AskAll
  <2> HIDE DEF y
  <2> QED
    BY <2>1, <2>2, ComeKeeps
<1>3. ASSUME NEW op \in {"history", "remove"}, NEW w \in Watch, AskWatch(q, u, op, w)
      PROVE  IInv'
  <2> DEFINE y == [Free EXCEPT !.op = op, !.at = "ask", !.user = u, !.watch = w]
  <2>1. /\ y \in Handler /\ y.at = "ask" /\ y.user = u /\ y.mine = {} /\ y.out = {}
        /\ y.op = op /\ ~ y.had
    BY <1>0 DEF Handler, Op
  <2>2. Come(q, y)
    BY <1>3 DEF AskWatch
  <2> HIDE DEF y
  <2> QED
    BY <2>1, <2>2, ComeKeeps
<1>4. ASSUME NEW code \in Code, NEW deck \in Deck, AskPlan(q, u, code, deck)
      PROVE  IInv'
  <2> DEFINE had == \E p \in plans : p[1].ship = code.ship /\ p[2] = deck
             y == [Free EXCEPT !.op = "plan", !.at = "ask", !.user = u, !.code = code,
                               !.deck = deck, !.had = had]
  <2>0. had \in BOOLEAN
    OBVIOUS
  <2>1. Come(q, y)
    BY <1>4 DEF AskPlan
  <2>2. had => \E p \in plans : p[1].ship = code.ship /\ p[2] = deck
    OBVIOUS
  <2> HIDE DEF had
  <2>3. /\ y \in Handler /\ y.at = "ask" /\ y.user = u /\ y.mine = {} /\ y.out = {}
        /\ y.op = "plan" /\ y.code = code /\ y.deck = deck /\ y.had = had
    BY <1>0, <2>0 DEF Handler, Op
  <2> HIDE DEF y
  <2> QED
    BY <2>1, <2>2, <2>3, ComeKeeps
<1> QED
  BY <1>1, <1>2, <1>3, <1>4

(* The answer is sent, or the client is gone.                               *)
LEMMA LeaveKeeps ==
  ASSUME IInv, NEW q \in Request, Leave(q) PROVE IInv'
<1>1. /\ req' \in [Request -> Handler] /\ req'[q] = Free
      /\ \A p \in Request : p # q => req'[p] = req[p]
  BY FreeFits DEF Leave, Refuse, Become, IInv, TypeOK
<1>2. UNCHANGED <<today, active, bookings, subs, catalog, watched, plans>>
  BY DEF Leave, database
<1>3. /\ held' \in [Request -> SUBSET (Reservation \X Ship)]
      /\ fellows' \in [Request -> SUBSET (User \X Reservation)]
      /\ ended' \in [Request -> SUBSET Reservation]
      /\ \A p \in Request : p # q =>
           held'[p] = held[p] /\ fellows'[p] = fellows[p] /\ ended'[p] = ended[p]
  BY DEF Leave, IInv, TypeOK
<1>4. TypeOK' /\ Booked'
  BY <1>1, <1>2, <1>3 DEF IInv, TypeOK, Booked
<1>5. ASSUME NEW p \in Request
      PROVE  /\ Fits(req'[p], held'[p], fellows'[p], ended'[p], plans')
             /\ Covers(req[p], held[p], fellows[p], ended[p])'
  <2>1. CASE p = q
    BY <1>1, <2>1, FreeFits DEF Covers
  <2>2. CASE p # q
    BY <1>1, <1>2, <1>3, <2>2 DEF IInv, Covers, HasEnded
  <2> QED
    BY <2>1, <2>2
<1> QED
  BY <1>4, <1>5 DEF IInv
-----------------------------------------------------------------------------
(* What happens beside the requests.                                        *)

LEMMA StoreBookingKeeps ==
  ASSUME IInv, NEW s \in Sailing, StoreBooking(s) PROVE IInv'
<1>1. s.res \in Reservation /\ s # None
  BY MiniAppAssumption
<1>2. /\ bookings' \in [Reservation -> Sailing \cup {None}]
      /\ \A r \in Reservation : r # s.res => bookings'[r] = bookings[r]
      /\ bookings'[s.res] = s
  BY <1>1 DEF StoreBooking, IInv, TypeOK
<1>3. \A p \in subs : bookings'[p[2]] # None
  BY <1>1, <1>2 DEF IInv, Booked, TypeOK
<1>4. UNCHANGED <<today, active, subs, catalog, watched, plans, req>>
  BY DEF StoreBooking
<1>5. /\ held' \in [Request -> SUBSET (Reservation \X Ship)]
      /\ fellows' \in [Request -> SUBSET (User \X Reservation)]
      /\ \A q \in Request : req[q].at # "idle" =>
           /\ held[q] \cup Holds(req[q].user, bookings', subs) \subseteq held'[q]
           /\ fellows[q] \cup Others(req[q].user, subs, active) \subseteq fellows'[q]
  BY <1>2, <1>3, WitnessKeeps DEF StoreBooking, IInv, TypeOK
<1>6. /\ ended' \in [Request -> SUBSET Reservation]
      /\ \A q \in Request : ended'[q] = ended[q] \ {s.res}
  BY DEF StoreBooking, IInv, TypeOK
<1>7. TypeOK' /\ Booked'
  BY <1>2, <1>3, <1>4, <1>5, <1>6 DEF IInv, TypeOK, Booked
<1>8. ASSUME NEW q \in Request, req[q].at # "idle"
      PROVE  Covers(req[q], held[q], fellows[q], ended[q])'
  <2>1. \A r \in ended'[q] : bookings'[r] # None /\ HasEnded(r, req[q].day)'
    <3> SUFFICES ASSUME NEW r \in ended'[q]
                 PROVE  bookings'[r] # None /\ HasEnded(r, req[q].day)'
      OBVIOUS
    <3>1. r \in Reservation /\ r # s.res /\ r \in ended[q]
      BY <1>6 DEF IInv, TypeOK
    <3> QED
      BY <1>2, <1>4, <1>8, <3>1 DEF IInv, Covers, HasEnded
  <2> QED
    BY <1>4, <1>5, <1>8, <2>1 DEF Covers
<1> QED
  BY <1>4, <1>5, <1>6, <1>7, <1>8, OutsideKeeps

LEMMA SubscribeKeeps ==
  ASSUME IInv, NEW u \in User, NEW r \in Reservation, Subscribe(u, r) PROVE IInv'
<1>1. /\ subs' \in SUBSET (User \X Reservation)
      /\ \A p \in subs' : bookings[p[2]] # None
  BY DEF Subscribe, IInv, Booked, TypeOK
<1>2. UNCHANGED <<today, active, bookings, catalog, watched, plans, req, ended>>
  BY DEF Subscribe
<1>3. /\ held' \in [Request -> SUBSET (Reservation \X Ship)]
      /\ fellows' \in [Request -> SUBSET (User \X Reservation)]
      /\ \A q \in Request : req[q].at # "idle" =>
           /\ held[q] \cup Holds(req[q].user, bookings, subs') \subseteq held'[q]
           /\ fellows[q] \cup Others(req[q].user, subs', active) \subseteq fellows'[q]
  BY <1>1, WitnessKeeps DEF Subscribe, IInv, TypeOK
<1>4. TypeOK' /\ Booked'
  BY <1>1, <1>2, <1>3 DEF IInv, TypeOK, Booked
<1>5. \A q \in Request : req[q].at # "idle" =>
        Covers(req[q], held[q], fellows[q], ended[q])'
  BY <1>2, <1>3 DEF IInv, Covers, HasEnded
<1> QED
  BY <1>2, <1>3, <1>4, <1>5, OutsideKeeps

LEMMA RegisterKeeps ==
  ASSUME IInv, NEW u \in User, Register(u) PROVE IInv'
<1>1. active' \in SUBSET User
  BY DEF Register, IInv, TypeOK
<1>2. UNCHANGED <<today, bookings, subs, catalog, watched, plans, req, ended>>
  BY DEF Register
<1>3. /\ held' \in [Request -> SUBSET (Reservation \X Ship)]
      /\ fellows' \in [Request -> SUBSET (User \X Reservation)]
      /\ \A q \in Request : req[q].at # "idle" =>
           /\ held[q] \cup Holds(req[q].user, bookings, subs) \subseteq held'[q]
           /\ fellows[q] \cup Others(req[q].user, subs, active') \subseteq fellows'[q]
  BY <1>1, WitnessKeeps DEF Register, IInv, TypeOK, Booked
<1>4. TypeOK' /\ Booked'
  BY <1>1, <1>2, <1>3 DEF IInv, TypeOK, Booked
<1>5. \A q \in Request : req[q].at # "idle" =>
        Covers(req[q], held[q], fellows[q], ended[q])'
  BY <1>2, <1>3 DEF IInv, Covers, HasEnded
<1> QED
  BY <1>2, <1>3, <1>4, <1>5, OutsideKeeps

(* Less is held, nobody comes to hold more, watches come and midnight       *)
(* passes.                                                                  *)
LEMMA FewerKeeps ==
  ASSUME IInv,
         \/ \E u \in User, line \in {"rcg", "princess"} : RemoveAccount(u, line)
         \/ \E u \in User : Unregister(u)
         \/ \E w \in Watch : AddWatch(w)
         \/ Midnight
         \/ UNCHANGED vars
  PROVE  IInv'
<1>1. /\ UNCHANGED <<bookings, catalog, plans, req, held, fellows, ended>>
      /\ subs' \subseteq subs /\ active' \subseteq active
      /\ watched' \subseteq Watch /\ today' \in 0..MaxDay
  <2> USE DEF IInv, TypeOK, database
  <2>1. CASE \E u \in User, line \in {"rcg", "princess"} : RemoveAccount(u, line)
    BY <2>1 DEF RemoveAccount
  <2>2. CASE \E u \in User : Unregister(u)
    BY <2>2 DEF Unregister
  <2>3. CASE \E w \in Watch : AddWatch(w)
    BY <2>3 DEF AddWatch
  <2>4. CASE Midnight
    BY <2>4, MiniAppAssumption DEF Midnight
  <2>5. CASE UNCHANGED vars
    BY <2>5 DEF vars
  <2> QED
    BY <2>1, <2>2, <2>3, <2>4, <2>5
<1>2. TypeOK' /\ Booked'
  BY <1>1 DEF IInv, TypeOK, Booked
<1>3. \A u : /\ Holds(u, bookings, subs') \subseteq Holds(u, bookings, subs)
             /\ Others(u, subs', active') \subseteq Others(u, subs, active)
  BY <1>1 DEF Holds, Others
<1>4. \A q \in Request : req[q].at # "idle" =>
        Covers(req[q], held[q], fellows[q], ended[q])'
  BY <1>1, <1>3 DEF IInv, Covers, HasEnded
<1> QED
  BY <1>1, <1>2, <1>4, OutsideKeeps
-----------------------------------------------------------------------------
(* The theorems.                                                            *)

LEMMA InitHolds == Init => IInv
<1> SUFFICES ASSUME Init PROVE IInv
  OBVIOUS
<1>1. \A q \in Request : req[q] = Free
  BY DEF Init
<1>2. TypeOK /\ Booked
  BY FreeFits, MiniAppAssumption DEF Init, TypeOK, Booked
<1> QED
  BY <1>1, <1>2, FreeFits DEF IInv, Covers

LEMMA Inductive == Spec => []IInv
<1>1. IInv /\ [Next]_vars => IInv'
  <2> SUFFICES ASSUME IInv, [Next]_vars PROVE IInv'
    OBVIOUS
  <2>1. ASSUME NEW q \in Request, Handles(q) PROVE IInv'
    BY <2>1, ServesKeeps, LeaveKeeps DEF Handles, Serves
  <2> QED
    BY <2>1, AskKeeps, StoreBookingKeeps, SubscribeKeeps, RegisterKeeps, FewerKeeps
       DEF Next
<1> QED
  BY InitHolds, <1>1, PTL DEF Spec

(* The tables and every handler in flight are always in a state the code    *)
(* can represent.                                                           *)
THEOREM TypesHold == Spec => []TypeOK
<1>1. IInv => TypeOK
  BY DEF IInv
<1> QED
  BY Inductive, <1>1, PTL

(* Nothing is answered of a reservation its user has not held since the     *)
(* request came, though the ownership test and the read are statements of   *)
(* their own and the tables change in between.                              *)
THEOREM AnswersStayOwn == Spec => []AnswersAreOwn
<1>1. IInv => AnswersAreOwn
  BY DEF IInv, Fits, Owning, Own, AnswersAreOwn
<1> QED
  BY Inductive, <1>1, PTL

(* list_bookings shows a booking as shared only with others who held it     *)
(* and were not unregistered while the request was in flight.               *)
THEOREM SharedWithFellows == Spec => []SharedAreFellows
<1>1. IInv => SharedAreFellows
  BY DEF IInv, Fits, Sharing, SharedAreFellows
<1> QED
  BY Inductive, <1>1, PTL

(* A cruise over when the request came is neither listed nor are its        *)
(* watches, whatever midnights pass before the answer.                      *)
THEOREM EndedAreHidden == Spec => []EndedStayHidden
<1>1. IInv => EndedStayHidden
  BY DEF IInv, Fits, Hiding, EndedStayHidden
<1> QED
  BY Inductive, <1>1, PTL

(* deck_plan never fetches a plan that was cached when it was asked: the    *)
(* letters that pass the ship test are those the plan is kept under.        *)
THEOREM CachedPlansAreServed == Spec => []CachedPlanIsServed
<1>1. IInv => CachedPlanIsServed
  BY DEF IInv, Fits, Planning, CachedPlanIsServed
<1> QED
  BY Inductive, <1>1, PTL
=============================================================================
