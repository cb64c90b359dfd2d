--------------------------- MODULE DiscoveryProofs ---------------------------
(***************************************************************************)
(* Proofs about Discovery and Registration, for any number of users,       *)
(* requests and bookings: what a pass holds was shown to its user, what    *)
(* the tables hold was shown to somebody, and no login outlives its        *)
(* account's removal.                                                      *)
(***************************************************************************)
EXTENDS Registration, TLAPS

(* A stage with an account at hand, and those with a booking just stored.   *)
Listed == {"store", "subscribe", "lookup", "tell"}
Stored1 == {"subscribe", "lookup", "tell"}
Busy == Listed \cup {"login", "record"}

(* Some order of this reservation names the room for its own passenger.     *)
Own(r, room) ==
  \E s \in Shows : /\ s[3].res = r
                   /\ \E n \in DOMAIN s[3].orders :
                        \E i \in DOMAIN s[3].orders[n] :
                           /\ s[3].orders[n][i].own
                           /\ s[3].orders[n][i].room = room

(* What a summary says beside the cabin goes with the cabin.                *)
Consistent(s) ==
  /\ s.detail \in {None, s.stateroom}
  /\ s.assigned # None => Own(s.res, s.assigned)

(* The shape of a pass at each stage.                                       *)
Shape(p) ==
  /\ p \in PassState
  /\ p.at = "free" => p.todo = {}
  /\ p.at \in {"user", "account"} => p.user \in User /\ p.cred \in Cred
  /\ p.at \in Busy => p.user \in User /\ p.acct \in Account
  /\ p.at \in Listed \cup {"login"} => p.left # <<>>
  /\ p.at \in Stored1 => p.cur \in Summary
  /\ p.at \notin Listed => p.found = {}
  /\ \A s \in p.found : Consistent(s)
-----------------------------------------------------------------------------
(* Operators.                                                               *)

LEMMA TailOfLeft ==
  ASSUME NEW p \in PassState, p.left # <<>>
  PROVE  Tail(p.left) \in {<<>>} \cup {<<b>> : b \in Brand} \cup {BrandsOf("rcg")}
<1>1. CASE \E b \in Brand : p.left = <<b>>
  <2>1. PICK b \in Brand : p.left = <<b>>
    BY <1>1
  <2>2. Tail(<<b>>) = <<>>
    OBVIOUS
  <2> QED
    BY <2>1, <2>2
<1>2. CASE p.left = BrandsOf("rcg")
  <2>1. p.left = <<"royal", "celebrity">>
    BY <1>2 DEF BrandsOf
  <2>2. Tail(<<"royal", "celebrity">>) = <<"celebrity">>
    OBVIOUS
  <2>3. "celebrity" \in Brand
    BY DEF Brand
  <2> QED
    BY <2>1, <2>2, <2>3
<1> QED
  BY <1>1, <1>2 DEF PassState

LEMMA RoomsBehindOwn ==
  ASSUME NEW orders, NEW read \in SUBSET DOMAIN orders,
         NEW room \in RoomsBehind(orders, read)
  PROVE  /\ room \in Cabin
         /\ room # None => \E n \in DOMAIN orders : \E i \in DOMAIN orders[n] :
                             orders[n][i].own /\ orders[n][i].room = room
<1>1. \A n : OwnRooms(orders[n]) \subseteq Room
  BY DEF OwnRooms, OwnGuests
<1>2. room = None \/ \E n \in read : room \in OwnRooms(orders[n])
  BY DEF RoomsBehind
<1> QED
  BY <1>1, <1>2 DEF OwnRooms, OwnGuests, Cabin

LEMMA ListingTyped ==
  ASSUME NEW u, NEW brand, NEW S \in Listing(u, brand)
  PROVE  S \in SUBSET Summary /\ \A s \in S : Consistent(s)
<1> DEFINE shows == {s[3] : s \in {t \in Shows : t[1] = u /\ t[2] = brand}}
           summaries == UNION {IF brand = "princess" THEN PrincessSummaries(s)
                               ELSE RcgSummaries(s) : s \in shows}
<1>1. \A s \in shows : /\ s.res \in Reservation
                       /\ s.stateroom \in Cabin \cup {Gty}
                       /\ brand = "princess" => s.stateroom \in Cabin
                       /\ \E t \in Shows : t[3] = s
  BY DiscoveryAssumption DEF Cabin
<1>2. ASSUME NEW x \in summaries PROVE x \in Summary /\ Consistent(x)
  <2>1. PICK s \in shows : x \in (IF brand = "princess" THEN PrincessSummaries(s)
                                  ELSE RcgSummaries(s))
    BY <1>2
  <2> HIDE DEF shows
  <2>2. CASE brand = "princess"
    <3>1. PICK a \in {None, s.stateroom}, d \in {None, s.stateroom} :
            /\ x = [res |-> s.res, stateroom |-> a, assigned |-> None, detail |-> d]
            /\ x # [res |-> s.res, stateroom |-> None, assigned |-> None,
                    detail |-> s.stateroom]
      BY <2>1, <2>2 DEF PrincessSummaries
    <3>2. x \in Summary
      BY <1>1, <2>2, <3>1 DEF Summary, Cabin
    <3>3. d \in {None, a}
      BY <3>1
    <3> QED
      BY <3>1, <3>2, <3>3 DEF Consistent
  <2>3. CASE brand # "princess"
    <3>1. PICK room \in AssignedRooms(s) :
            x = [res |-> s.res, stateroom |-> s.stateroom, assigned |-> room,
                 detail |-> None]
      BY <2>1, <2>3 DEF RcgSummaries
    <3>2. room \in Cabin
      BY RoomsBehindOwn DEF AssignedRooms, Cabin
    <3>3. room # None => Own(s.res, room)
      <4>1. SUFFICES ASSUME room # None PROVE Own(s.res, room)
        OBVIOUS
      <4>2. PICK read \in SUBSET DOMAIN s.orders : room \in RoomsBehind(s.orders, read)
        BY <3>1, <4>1 DEF AssignedRooms
      <4>3. \E n \in DOMAIN s.orders : \E i \in DOMAIN s.orders[n] :
              s.orders[n][i].own /\ s.orders[n][i].room = room
        BY <4>1, <4>2, RoomsBehindOwn
      <4> QED
        BY <1>1, <2>1, <4>3 DEF Own
    <3> QED
      BY <1>1, <3>1, <3>2, <3>3 DEF Summary, Consistent, Cabin
  <2> QED
    BY <2>2, <2>3
<1>3. S \subseteq summaries
  BY DEF Listing
<1> QED
  BY <1>2, <1>3
-----------------------------------------------------------------------------
(* Transitions.                                                             *)

(* Only w's pass changes.                                                   *)
Only(w) == /\ pass' \in [Worker -> PassState]
           /\ \A v \in Worker : v # w => pass'[v] = pass[v]

Shapes == \A w \in Worker : Shape(pass[w])

LEMMA EnterFacts ==
  ASSUME NEW w \in Worker, NEW state \in PassState, Enter(w, state),
         pass \in [Worker -> PassState]
  PROVE  Only(w) /\ pass'[w] = state
BY DEF Enter, Only

LEMMA NoPassShape == Shape(NoPass)
<1>1. NoPass \in PassState
  BY DiscoveryAssumption DEF NoPass, PassState, Line
<1> QED
  BY <1>1 DEF Shape, NoPass, Busy, Listed, Stored1

(* The rest of a pass is as it was.                                         *)
SameAccount(p, q) ==
  /\ q.op = p.op /\ q.user = p.user /\ q.line = p.line /\ q.acct = p.acct
  /\ q.todo = p.todo /\ q.old = p.old /\ q.outcome = p.outcome

LEMMA BrandDoneFacts ==
  ASSUME NEW p \in PassState, p.user \in User, p.acct \in Account, p.left # <<>>
  PROVE  /\ Shape(BrandDone(p)) /\ SameAccount(p, BrandDone(p))
         /\ BrandDone(p).at \in {"record", "login"}
<1> DEFINE at == IF Tail(p.left) = <<>> THEN "record" ELSE "login"
           q == [p EXCEPT !.left = Tail(@), !.at = at, !.found = {},
                          !.cur = None, !.tell = {}]
<1>1. Tail(p.left) \in {<<>>} \cup {<<b>> : b \in Brand} \cup {BrandsOf("rcg")}
  BY TailOfLeft
<1>2. at \in {"record", "login"} /\ (at = "login" => Tail(p.left) # <<>>)
  OBVIOUS
<1>3. BrandDone(p) = q
  BY DEF BrandDone
<1> HIDE DEF at
<1>4. /\ q \in PassState /\ q.at = at /\ q.left = Tail(p.left) /\ q.found = {}
      /\ q.user = p.user /\ q.acct = p.acct /\ SameAccount(p, q)
  BY <1>1, <1>2 DEF PassState, SameAccount
<1> HIDE DEF q
<1> QED
  BY <1>2, <1>3, <1>4 DEF Shape, Busy, Listed, Stored1

LEMMA SummaryDoneFacts ==
  ASSUME NEW p \in PassState, p.user \in User, p.acct \in Account, p.left # <<>>,
         \A s \in p.found : Consistent(s)
  PROVE  /\ Shape(SummaryDone(p)) /\ SameAccount(p, SummaryDone(p))
         /\ \/ SummaryDone(p).at \in {"record", "login"}
            \/ SummaryDone(p).at = "store" /\ SummaryDone(p).found = p.found
<1>1. CASE p.found = {}
  BY <1>1, BrandDoneFacts DEF SummaryDone
<1>2. CASE p.found # {}
  <2> DEFINE q == [p EXCEPT !.at = "store", !.cur = None, !.tell = {}]
  <2>1. SummaryDone(p) = q
    BY <1>2 DEF SummaryDone
  <2>2. /\ q \in PassState /\ q.at = "store" /\ q.found = p.found
        /\ q.left = p.left /\ q.user = p.user /\ q.acct = p.acct /\ SameAccount(p, q)
    BY DEF PassState, SameAccount
  <2> HIDE DEF q
  <2> QED
    BY <2>1, <2>2 DEF Shape, Busy, Listed, Stored1
<1> QED
  BY <1>1, <1>2

LEMMA AccountDoneFacts ==
  ASSUME NEW p \in PassState, p.found = {}
  PROVE  /\ Shape(AccountDone(p)) /\ AccountDone(p).at \in {"free", "next"}
         /\ AccountDone(p).todo = p.todo
<1>1. CASE p.todo = {}
  BY <1>1, NoPassShape DEF AccountDone, NoPass
<1>2. CASE p.todo # {}
  <2> DEFINE q == [p EXCEPT !.at = "next", !.acct = None]
  <2>1. AccountDone(p) = q
    BY <1>2 DEF AccountDone
  <2>2. /\ q \in PassState /\ q.at = "next" /\ q.found = p.found
        /\ q.todo = p.todo
    BY DEF PassState
  <2> HIDE DEF q
  <2> QED
    BY <2>1, <2>2 DEF Shape, Busy, Listed, Stored1
<1> QED
  BY <1>1, <1>2
-----------------------------------------------------------------------------
(* What one step of discover_account does to its own pass.                  *)

Typed == TypeOK /\ Shapes

(* What the pass holds, it held.                                            *)
Goes(w) ==
  pass'[w].at \in Listed =>
    /\ pass'[w].user = pass[w].user /\ pass'[w].line = pass[w].line
    /\ pass'[w].found \subseteq pass[w].found
    /\ pass'[w].at \in Stored1 => /\ pass[w].at \in Stored1
                                  /\ pass'[w].cur = pass[w].cur

(* It was shown what it now holds.                                          *)
Lists(w) ==
  /\ pass'[w].at \notin Stored1
  /\ \A s \in pass'[w].found :
       <<pass'[w].user, pass'[w].line, s.res>> \in shown'

(* It stored one of those.                                                  *)
Stores(w) ==
  \E s \in pass[w].found :
    /\ pass'[w].at = "subscribe" /\ pass'[w].cur = s
    /\ pass'[w].found = pass[w].found \ {s}
    /\ pass'[w].user = pass[w].user /\ pass'[w].line = pass[w].line
    /\ SameLine(pass[w].line, s.res)
    /\ bookings' = [bookings EXCEPT ![s.res] = Stored(pass[w].line, s)]

Moves(w) ==
  /\ Only(w) /\ Shape(pass'[w]) /\ pass'[w].at # "user"
  /\ pass'[w].todo \subseteq pass[w].todo
  /\ pass'[w].todo = pass[w].todo \/ StartAccount(w) \/ DecryptFails(w)
  /\ Goes(w) \/ Lists(w) \/ Stores(w)

(* With news, the pass turns to the booking's subscribers.                  *)
LEMMA TurnsToSubscribers ==
  ASSUME Typed, NEW w \in Worker,
         (Subscribe(w) /\ IsNews(w)) \/ LookupSubscribers(w)
  PROVE  \E at \in {"lookup", "tell"}, users \in SUBSET User :
           /\ Enter(w, [pass[w] EXCEPT !.at = at, !.tell = users])
           /\ pass[w].at \in Stored1
<1> DEFINE p == pass[w]
<1>1. p \in PassState
  BY DEF Typed, TypeOK
<1>2. CASE Subscribe(w) /\ IsNews(w)
  <2>1. [p EXCEPT !.at = "lookup"] = [p EXCEPT !.at = "lookup", !.tell = p.tell]
    BY <1>1 DEF PassState
  <2>2. p.tell \in SUBSET User
    BY <1>1 DEF PassState
  <2> QED
    BY <1>2, <2>1, <2>2 DEF Subscribe, At, Stored1
<1>3. CASE LookupSubscribers(w)
  BY <1>3 DEF LookupSubscribers, SubscribersOf, Stored1
<1> QED
  BY <1>2, <1>3

LEMMA PassFacts ==
  ASSUME Typed, NEW w \in Worker, PassStep(w)
  PROVE  Moves(w)
<1> DEFINE p == pass[w]
<1>1. p \in PassState /\ Shape(p) /\ pass \in [Worker -> PassState]
  BY DEF Typed, TypeOK, Shapes
<1>2. ASSUME NEW q \in PassState, Enter(w, q), Shape(q), q.todo \subseteq p.todo,
             q.todo = p.todo \/ StartAccount(w) \/ DecryptFails(w),
             q.at \notin Listed \cup {"user"}
      PROVE  Moves(w)
  BY <1>1, <1>2, EnterFacts DEF Moves, Goes
<1>3. CASE StartAccount(w)
  <2>10. PICK a \in Next1(w) : \E old \in Snapshot(w, a) :
           Enter(w, [pass[w] EXCEPT
                       !.at = "login", !.user = a.user, !.line = a.line,
                       !.todo = @ \ {a}, !.acct = a, !.outcome = "failed",
                       !.left = BrandsOf(a.line), !.old = old])
    BY <1>3 DEF StartAccount
  <2>1. PICK old \in Snapshot(w, a) :
          Enter(w, [pass[w] EXCEPT
                      !.at = "login", !.user = a.user, !.line = a.line,
                      !.todo = @ \ {a}, !.acct = a, !.outcome = "failed",
                      !.left = BrandsOf(a.line), !.old = old])
    BY <2>10
  <2> DEFINE rest == p.todo \ {a}
             left == BrandsOf(a.line)
             q == [p EXCEPT
                     !.at = "login", !.user = a.user, !.line = a.line,
                     !.todo = rest, !.acct = a, !.outcome = "failed",
                     !.left = left, !.old = old]
  <2>2. a \in Account
    BY <1>1 DEF Next1, PassState
  <2>3. a.user \in User /\ a.line \in Line
    BY <2>2 DEF Account
  <2>4. old \in [Reservation -> Booking \cup {None}] \cup {None}
    BY DEF Snapshot, Typed, TypeOK
  <2>5. /\ left \in {<<>>} \cup {<<b>> : b \in Brand} \cup {BrandsOf("rcg")}
        /\ left # <<>>
    BY <2>3 DEF BrandsOf, Line, Brand
  <2>11. rest \in SUBSET Account
    BY <1>1 DEF PassState
  <2>8. Enter(w, q)
    BY <2>1
  <2> HIDE DEF rest, left
  <2>12. q \in PassState
    BY <1>1, <2>2, <2>3, <2>4, <2>5, <2>11, ZenonT(60) DEF PassState
  <2>6. /\ q.at = "login" /\ q.todo = rest
        /\ q.user = a.user /\ q.acct = a /\ q.left = left
        /\ q.found = p.found
    BY <1>1, SMTT(30) DEF PassState
  <2>7. p.at = "next"
    BY <1>3 DEF StartAccount
  <2> HIDE DEF q, p
  <2>9. Shape(q) /\ q.at \notin Listed \cup {"user"}
    BY <1>1, <2>2, <2>3, <2>5, <2>6, <2>7, <2>12 DEF Shape, Busy, Listed, Stored1
  <2> QED
    BY <1>2, <1>3, <2>6, <2>8, <2>9, <2>12 DEF rest
<1>4. CASE DecryptFails(w)
  <2>1. PICK a \in Next1(w) : Enter(w, AccountDone([pass[w] EXCEPT !.todo = @ \ {a}]))
    BY <1>4 DEF DecryptFails
  <2> DEFINE q == [p EXCEPT !.todo = @ \ {a}]
  <2>2. q \in PassState /\ q.todo = p.todo \ {a} /\ q.found = p.found
    BY <1>1 DEF PassState
  <2>3. p.found = {}
    BY <1>1, <1>4 DEF DecryptFails, Shape, Listed
  <2>4. Enter(w, AccountDone(q))
    BY <2>1
  <2> HIDE DEF q, p
  <2> QED
    BY <1>2, <1>4, <2>2, <2>3, <2>4, AccountDoneFacts DEF Shape, Listed
<1>5. CASE LoginFails(w)
  <2>1. /\ Enter(w, BrandDone(p)) /\ p.user \in User /\ p.acct \in Account
        /\ p.left # <<>>
    BY <1>1, <1>5 DEF LoginFails, Shape, Busy
  <2> HIDE DEF p
  <2> QED
    BY <1>1, <1>2, <2>1, BrandDoneFacts DEF Shape, Listed, SameAccount
<1>6. CASE ListFails(w)
  <2> DEFINE o == IF p.line = "rcg" THEN "ok" ELSE p.outcome
             q == [p EXCEPT !.outcome = o]
  <2>1. o \in {"ok", "failed"}
    BY <1>1 DEF PassState
  <2>2. Enter(w, BrandDone(q))
    BY <1>6 DEF ListFails
  <2>3. p.user \in User /\ p.acct \in Account /\ p.left # <<>>
    BY <1>1, <1>6 DEF ListFails, Shape, Busy
  <2> HIDE DEF o
  <2>4. /\ q \in PassState /\ q.user = p.user /\ q.acct = p.acct
        /\ q.left = p.left /\ q.todo = p.todo
    BY <1>1, <2>1 DEF PassState
  <2> HIDE DEF q, p
  <2> QED
    BY <1>2, <2>2, <2>3, <2>4, BrandDoneFacts DEF Shape, Listed, SameAccount
<1>7. CASE LoginLists(w)
  <2>1. PICK S \in Listing(pass[w].user, Head(pass[w].left)) :
          /\ Enter(w, SummaryDone([pass[w] EXCEPT !.outcome = "ok", !.found = S]))
          /\ shown' = shown \cup {<<pass[w].user, pass[w].line, s.res>> : s \in S}
    BY <1>7 DEF LoginLists
  <2> DEFINE q == [p EXCEPT !.outcome = "ok", !.found = S]
  <2>2. p.user \in User /\ p.acct \in Account /\ p.left # <<>>
    BY <1>1, <1>7 DEF LoginLists, Shape, Busy
  <2>3. S \in SUBSET Summary /\ \A s \in S : Consistent(s)
    BY ListingTyped
  <2>4. /\ q \in PassState /\ q.user = p.user /\ q.acct = p.acct /\ q.line = p.line
        /\ q.left = p.left /\ q.todo = p.todo /\ q.found = S
    BY <1>1, <2>3 DEF PassState
  <2>5. Enter(w, SummaryDone(q))
    BY <2>1
  <2>6. \A s \in S : <<p.user, p.line, s.res>> \in shown'
    BY <2>1
  <2> HIDE DEF q, p
  <2>7. /\ Shape(SummaryDone(q)) /\ SameAccount(q, SummaryDone(q))
        /\ SummaryDone(q).at \notin Stored1 \cup {"user"}
        /\ SummaryDone(q).found \subseteq S
    BY <2>2, <2>3, <2>4, SummaryDoneFacts DEF Shape, Listed, Stored1
  <2>8. Only(w) /\ pass'[w] = SummaryDone(q)
    BY <1>1, <2>5, <2>7, EnterFacts DEF Shape
  <2>9. Lists(w)
    BY <2>4, <2>6, <2>7, <2>8 DEF Lists, SameAccount
  <2> QED
    BY <2>4, <2>7, <2>8, <2>9 DEF Moves, SameAccount, p
<1>8. CASE StoreBooking(w)
  <2>1. PICK s \in pass[w].found :
          /\ SameLine(pass[w].line, s.res)
          /\ bookings' = [bookings EXCEPT ![s.res] = Stored(pass[w].line, s)]
          /\ Enter(w, [pass[w] EXCEPT !.at = "subscribe", !.cur = s,
                                      !.found = @ \ {s}])
    BY <1>8 DEF StoreBooking
  <2> DEFINE q == [p EXCEPT !.at = "subscribe", !.cur = s, !.found = @ \ {s}]
  <2>2. s \in Summary
    BY <1>1 DEF PassState
  <2>3. p.user \in User /\ p.acct \in Account /\ p.left # <<>>
    BY <1>1, <1>8 DEF StoreBooking, Shape, Busy, Listed
  <2>4. /\ q \in PassState /\ q.user = p.user /\ q.acct = p.acct /\ q.line = p.line
        /\ q.left = p.left /\ q.todo = p.todo /\ q.found = p.found \ {s}
        /\ q.at = "subscribe" /\ q.cur = s
    BY <1>1, <2>2 DEF PassState
  <2>5. Enter(w, q)
    BY <2>1
  <2> HIDE DEF q
  <2>6. Only(w) /\ pass'[w] = q
    BY <1>1, <2>4, <2>5, EnterFacts
  <2>7. Shape(q)
    BY <1>1, <2>2, <2>3, <2>4 DEF Shape, Busy, Listed, Stored1
  <2>8. Stores(w)
    BY <2>1, <2>4, <2>6 DEF Stores
  <2> QED
    BY <2>4, <2>6, <2>7, <2>8 DEF Moves
<1>9. ASSUME NEW q \in PassState, Enter(w, SummaryDone(q)), SameAccount(p, q),
             q.left = p.left, q.found \subseteq p.found, p.at \in Listed
      PROVE  Moves(w)
  <2>1. /\ q.user \in User /\ q.acct \in Account /\ q.left # <<>>
        /\ \A s \in q.found : Consistent(s)
    BY <1>1, <1>9 DEF Shape, Busy, Listed, SameAccount
  <2>2. /\ Shape(SummaryDone(q)) /\ SameAccount(q, SummaryDone(q))
        /\ SummaryDone(q).at \notin Stored1 \cup {"user"}
        /\ SummaryDone(q).found \subseteq q.found
    BY <2>1, SummaryDoneFacts DEF Shape, Listed, Stored1
  <2>3. Only(w) /\ pass'[w] = SummaryDone(q)
    BY <1>1, <1>9, <2>2, EnterFacts DEF Shape
  <2> QED
    BY <1>9, <2>2, <2>3 DEF Moves, Goes, SameAccount
<1>10. CASE StoreFails(w)
  <2>1. PICK s \in pass[w].found :
          Enter(w, SummaryDone([pass[w] EXCEPT !.found = @ \ {s}]))
    BY <1>10 DEF StoreFails
  <2> DEFINE q == [p EXCEPT !.found = @ \ {s}]
  <2>2. /\ q \in PassState /\ q.left = p.left /\ q.found = p.found \ {s}
        /\ SameAccount(p, q)
    BY <1>1 DEF PassState, SameAccount
  <2>3. Enter(w, SummaryDone(q)) /\ p.at \in Listed
    BY <1>10, <2>1 DEF StoreFails, Listed
  <2> HIDE DEF q, p
  <2> QED
    BY <1>9, <2>2, <2>3
<1>11. CASE Enter(w, SummaryDone(pass[w])) /\ pass[w].at \in Listed
  BY <1>1, <1>9, <1>11 DEF SameAccount
<1>12. CASE \/ Subscribe(w) /\ IsNews(w)
            \/ LookupSubscribers(w)
  <2>1. PICK at \in {"lookup", "tell"}, users \in SUBSET User :
          Enter(w, [p EXCEPT !.at = at, !.tell = users]) /\ p.at \in Stored1
    BY <1>12, TurnsToSubscribers
  <2> DEFINE q == [p EXCEPT !.at = at, !.tell = users]
  <2>2. /\ q \in PassState /\ q.left = p.left /\ q.found = p.found /\ q.cur = p.cur
        /\ q.at = at /\ q.user = p.user /\ q.acct = p.acct /\ q.line = p.line
        /\ q.todo = p.todo
    BY <1>1 DEF PassState
  <2>3. Enter(w, q)
    BY <2>1
  <2> HIDE DEF q
  <2>4. Shape(q)
    BY <1>1, <2>1, <2>2 DEF Shape, Busy, Listed, Stored1
  <2>5. Only(w) /\ pass'[w] = q
    BY <1>1, <2>2, <2>3, EnterFacts
  <2> QED
    BY <2>1, <2>2, <2>4, <2>5 DEF Moves, Goes
<1>13. CASE RecordOutcome(w) \/ RecordFails(w)
  <2>1. Enter(w, AccountDone(p)) /\ p.found = {}
    BY <1>1, <1>13 DEF RecordOutcome, RecordFails, Shape, Listed
  <2> HIDE DEF p
  <2> QED
    BY <1>1, <1>2, <2>1, AccountDoneFacts DEF Shape, Listed
<1>14. ASSUME SubscribeFails(w) \/ Tell(w) \/ (Subscribe(w) /\ ~ IsNews(w))
       PROVE  Enter(w, SummaryDone(pass[w])) /\ pass[w].at \in Listed
  BY <1>14 DEF SubscribeFails, Tell, Subscribe, Listed
<1> QED
  BY <1>3, <1>4, <1>5, <1>6, <1>7, <1>8, <1>10, <1>11, <1>12, <1>13, <1>14
     DEF PassStep
-----------------------------------------------------------------------------
(* How a pass begins and ends.                                              *)

Begins(w) ==
  \/ /\ w \in Request
     /\ \/ \E u \in User, line \in Line : RegisterUser(w, u, line)
        \/ RegisterAccount(w) \/ FindAccount(w)
        \/ \E u \in User : Refresh(w, u)
  \/ w = Scraper /\ LoadAccounts
  \/ Stop(w)

(* It holds no booking, and its accounts are of the table.                  *)
Begun(w) ==
  /\ Only(w) /\ Shape(pass'[w]) /\ pass'[w].at \notin Busy
  /\ pass'[w].todo \subseteq pass[w].todo \cup accounts
  /\ pass'[w].at = "user" =>
       /\ \E u \in User, line \in Line : RegisterUser(w, u, line)
       /\ pass'[w].cred = issued + 1

LEMMA BeginFacts ==
  ASSUME Typed, NEW w \in Worker, Begins(w)
  PROVE  Begun(w)
<1> DEFINE p == pass[w]
<1>1. /\ p \in PassState /\ Shape(p) /\ pass \in [Worker -> PassState]
      /\ accounts \in SUBSET Account
  BY DEF Typed, TypeOK, Shapes
<1>2. ASSUME NEW q \in PassState, Enter(w, q), Shape(q),
             q.at \notin Busy \cup {"user"}, q.todo \subseteq p.todo \cup accounts
      PROVE  Begun(w)
  BY <1>1, <1>2, EnterFacts DEF Begun
<1>3. NoPass \in PassState
  BY NoPassShape DEF Shape
<1>4. ASSUME NEW u \in User, NEW line \in Line, RegisterUser(w, u, line)
      PROVE  Begun(w)
  <2> DEFINE cred == issued + 1
             q == [NoPass EXCEPT !.op = "register", !.at = "user", !.user = u,
                                 !.line = line, !.cred = cred]
  <2>1. cred \in Cred
    BY <1>4, DiscoveryAssumption DEF RegisterUser, Cred, Typed, TypeOK
  <2>2. Enter(w, q)
    BY <1>4 DEF RegisterUser
  <2> HIDE DEF cred
  <2>3. /\ q \in PassState /\ q.at = "user" /\ q.user = u /\ q.cred = cred
        /\ q.found = NoPass.found /\ q.todo = NoPass.todo
    <3>1. cred \in 0..MaxCred
      BY <2>1, DiscoveryAssumption DEF Cred
    <3> QED
      BY <1>3, <3>1 DEF PassState
  <2>5. NoPass.found = {} /\ NoPass.todo = {}
    BY DEF NoPass
  <2> HIDE DEF q, p
  <2>4. Shape(q) /\ q.at \notin Busy
    BY <2>1, <2>3, <2>5 DEF Shape, Busy, Listed, Stored1
  <2>6. Only(w) /\ pass'[w] = q
    BY <1>1, <2>2, <2>3, EnterFacts
  <2> QED
    BY <1>4, <2>3, <2>4, <2>5, <2>6 DEF Begun, cred
<1>5. CASE RegisterAccount(w)
  <2> DEFINE q == [p EXCEPT !.at = "account"]
  <2>1. Enter(w, q) /\ p.at = "user"
    BY <1>5 DEF RegisterAccount, At
  <2>2. /\ q \in PassState /\ q.at = "account" /\ q.user = p.user /\ q.cred = p.cred
        /\ q.found = p.found /\ q.todo = p.todo
    BY <1>1 DEF PassState
  <2> HIDE DEF q, p
  <2>3. Shape(q) /\ q.at \notin Busy \cup {"user"}
    BY <1>1, <2>1, <2>2 DEF Shape, Busy, Listed, Stored1
  <2> QED
    BY <1>2, <2>1, <2>2, <2>3 DEF p
<1>6. ASSUME NEW q \in PassState, NEW found, NEW todo \in SUBSET accounts,
             q = [[found EXCEPT !.at = "next"] EXCEPT !.todo = todo],
             found \in PassState, found.found = {}, Enter(w, q)
      PROVE  Begun(w)
  <2>1. q.at = "next" /\ q.todo = todo /\ q.found = {}
    BY <1>6 DEF PassState
  <2>2. Shape(q) /\ q.at \notin Busy \cup {"user"}
    BY <1>6, <2>1 DEF Shape, Busy, Listed, Stored1
  <2> QED
    BY <1>2, <1>6, <2>1, <2>2
<1>7. CASE FindAccount(w)
  <2>1. CASE AccountOf(p.user, p.line) = {}
    <3>1. Enter(w, NoPass)
      BY <1>7, <2>1 DEF FindAccount
    <3> QED
      BY <1>2, <1>3, <3>1, NoPassShape DEF NoPass, Busy, Listed
  <2>2. CASE AccountOf(p.user, p.line) # {}
    <3> DEFINE todo == AccountOf(p.user, p.line)
               q == [[p EXCEPT !.at = "next"] EXCEPT !.todo = todo]
    <3>1. todo \in SUBSET accounts
      BY DEF AccountOf, AccountsOf
    <3>2. Enter(w, q) /\ p.at = "account"
      BY <1>7, <2>2 DEF FindAccount
    <3> HIDE DEF todo
    <3>3. q \in PassState
      BY <1>1, <3>1 DEF PassState
    <3>4. p.found = {}
      BY <1>1, <3>2 DEF Shape, Listed
    <3> QED
      BY <1>1, <1>6, <3>1, <3>2, <3>3, <3>4
  <2> QED
    BY <2>1, <2>2
<1>8. ASSUME NEW u \in User, Refresh(w, u)
      PROVE  Begun(w)
  <2>1. CASE AccountsOf(u) = {}
    BY <1>1, <1>8, <2>1 DEF Refresh, Only, Busy, Listed, Begun
  <2>2. CASE AccountsOf(u) # {}
    <3> DEFINE todo == AccountsOf(u)
               base == [NoPass EXCEPT !.op = "refresh", !.user = u]
               q == [[base EXCEPT !.at = "next"] EXCEPT !.todo = todo]
    <3>1. todo \in SUBSET accounts
      BY DEF AccountsOf
    <3>2. Enter(w, q)
      BY <1>8, <2>2 DEF Refresh, NoPass
    <3>3. base \in PassState /\ base.found = {}
      BY <1>3 DEF PassState, NoPass
    <3> HIDE DEF todo, base
    <3>5. todo \in SUBSET Account
      BY <1>1, <3>1
    <3>4. q \in PassState
      BY <3>3, <3>5 DEF PassState
    <3> QED
      BY <1>6, <3>1, <3>2, <3>3, <3>4
  <2> QED
    BY <2>1, <2>2
<1>9. CASE w = Scraper /\ LoadAccounts
  <2> DEFINE todo == ActiveAccounts
             base == [NoPass EXCEPT !.op = "scrape"]
             q == [[base EXCEPT !.at = "next"] EXCEPT !.todo = todo]
  <2>1. todo \in SUBSET accounts
    BY DEF ActiveAccounts
  <2>2. Enter(w, q)
    BY <1>9 DEF LoadAccounts, NoPass
  <2>3. base \in PassState /\ base.found = {}
    BY <1>3 DEF PassState, NoPass
  <2> HIDE DEF todo, base
  <2>5. todo \in SUBSET Account
    BY <1>1, <2>1
  <2>4. q \in PassState
    BY <2>3, <2>5 DEF PassState
  <2> QED
    BY <1>6, <2>1, <2>2, <2>3, <2>4
<1>10. CASE Stop(w)
  <2>1. Enter(w, NoPass)
    BY <1>10 DEF Stop
  <2> QED
    BY <1>2, <1>3, <2>1, NoPassShape DEF NoPass, Busy, Listed
<1> QED
  BY <1>4, <1>5, <1>7, <1>8, <1>9, <1>10 DEF Begins
-----------------------------------------------------------------------------
(* Types.                                                                   *)

LEMMA UpsertedTyped ==
  ASSUME NEW u \in User, NEW line \in Line, NEW cred \in Cred,
         accounts \in SUBSET Account, verdict \in [Cred -> Verdict]
  PROVE  /\ Upserted(u, line, cred) \in SUBSET Account
         /\ Cleared(u, line) \in [Cred -> Verdict]
<1>1. ASSUME NEW a \in accounts PROVE [a EXCEPT !.cred = cred] \in Account
  BY <1>1 DEF Account
<1>2. [id |-> cred, user |-> u, line |-> line, cred |-> cred] \in Account
  BY DEF Account
<1>3. \A i \in Cred : [outcome |-> "ok", of |-> verdict[i].of] \in Verdict
  BY DEF Verdict
<1>4. Upserted(u, line, cred) \in SUBSET Account
  BY <1>1, <1>2 DEF Upserted
<1> QED
  BY <1>3, <1>4 DEF Cleared

LEMMA RecordedTyped ==
  ASSUME NEW a \in Account, NEW outcome \in {"ok", "failed"},
         verdict \in [Cred -> Verdict]
  PROVE  Recorded(a, outcome) \in [Cred -> Verdict]
<1>1. [outcome |-> outcome, of |-> a.id] \in Verdict
  BY DiscoveryAssumption DEF Account, Verdict, Cred
<1> QED
  BY <1>1 DEF Recorded

LEMMA StoredTyped ==
  ASSUME NEW line \in Line, NEW s \in Summary,
         bookings \in [Reservation -> Booking \cup {None}]
  PROVE  /\ Stored(line, s) \in Booking /\ Stored(line, s).line = line
         /\ [bookings EXCEPT ![s.res] = Stored(line, s)]
              \in [Reservation -> Booking \cup {None}]
<1>1. s.res \in Reservation
  BY DEF Summary
<1>2. CASE bookings[s.res] = None
  BY <1>1, <1>2 DEF Stored, Summary, Booking
<1>3. CASE bookings[s.res] # None
  <2> DEFINE b == bookings[s.res]
  <2>1. b \in Booking
    BY <1>1, <1>3
  <2>2. /\ (IF s.stateroom = None THEN b.stateroom ELSE s.stateroom) \in Cabin \cup {Gty}
        /\ (IF s.assigned = None THEN b.assigned ELSE s.assigned) \in Cabin
        /\ (IF s.stateroom = None THEN b.detail ELSE s.detail) \in Cabin
    BY <2>1 DEF Summary, Booking
  <2>3. Merged(b, line, s) \in Booking /\ Merged(b, line, s).line = line
    BY <2>2 DEF Merged, Booking
  <2> QED
    BY <1>3, <2>3 DEF Stored
<1> QED
  BY <1>1, <1>2, <1>3

(* The tables and their history, all but the passes.                        *)
TablesOK ==
  /\ status \in [User -> {"absent", "active", "inactive"}]
  /\ accounts \in SUBSET Account
  /\ verdict \in [Cred -> Verdict]
  /\ bookings \in [Reservation -> Booking \cup {None}]
  /\ subs \in SUBSET (User \X Reservation)
  /\ issued \in 0..MaxCred
  /\ runs \in 0..MaxRun
  /\ shown \in SUBSET (User \X Line \X Reservation)
  /\ dead \in SUBSET Cred
  /\ untried \in SUBSET Cred
  /\ told \in SUBSET (User \X Reservation)
  /\ retold \in SUBSET (User \X Reservation)

LEMMA TypedByParts ==
  /\ Typed => TablesOK
  /\ TablesOK' /\ pass' \in [Worker -> PassState] /\ Shapes' => Typed'
BY DEF Typed, TypeOK, TablesOK

LEMMA PassTables ==
  ASSUME Typed, NEW w \in Worker, PassStep(w)
  PROVE  TablesOK'
<1> DEFINE p == pass[w]
<1>1. p \in PassState /\ Shape(p) /\ TablesOK
  BY TypedByParts DEF Typed, TypeOK, Shapes
<1>2. \A a \in Account : untried \ {a.id} \in SUBSET Cred
  BY <1>1 DEF TablesOK
<1>3. CASE StartAccount(w) \/ DecryptFails(w)
  BY <1>1, <1>3 DEF StartAccount, DecryptFails, tables, TablesOK
<1>4. CASE LoginFails(w) \/ ListFails(w)
  BY <1>1, <1>4 DEF LoginFails, ListFails, tables, history, TablesOK
<1>5. CASE LoginLists(w)
  <2>1. PICK S \in Listing(p.user, Head(p.left)) :
          shown' = shown \cup {<<p.user, p.line, s.res>> : s \in S}
    BY <1>5 DEF LoginLists
  <2>2. S \in SUBSET Summary /\ p.user \in User /\ p.line \in Line
    BY <1>1, <1>5, ListingTyped DEF LoginLists, Shape, Busy, PassState
  <2>3. shown' \in SUBSET (User \X Line \X Reservation)
    BY <1>1, <2>1, <2>2 DEF TablesOK, Summary
  <2> QED
    BY <1>1, <1>5, <2>3 DEF LoginLists, tables, TablesOK
<1>6. CASE StoreBooking(w)
  <2>1. PICK s \in p.found :
          /\ bookings' = [bookings EXCEPT ![s.res] = Stored(p.line, s)]
          /\ told' = Forget(s.res, Stored(p.line, s))
    BY <1>6 DEF StoreBooking
  <2>2. s \in Summary /\ p.line \in Line
    BY <1>1 DEF PassState
  <2>3. bookings' \in [Reservation -> Booking \cup {None}]
    BY <1>1, <2>1, <2>2, StoredTyped DEF TablesOK
  <2>4. told' \in SUBSET (User \X Reservation)
    BY <1>1, <2>1 DEF Forget, TablesOK
  <2> QED
    BY <1>1, <1>6, <2>3, <2>4 DEF StoreBooking, TablesOK
<1>7. CASE StoreFails(w) \/ SubscribeFails(w) \/ LookupSubscribers(w) \/ RecordFails(w)
  BY <1>1, <1>7 DEF StoreFails, SubscribeFails, LookupSubscribers, RecordFails,
     tables, history, TablesOK
<1>8. CASE Subscribe(w)
  <2>1. <<p.user, p.cur.res>> \in User \X Reservation
    BY <1>1, <1>8 DEF Subscribe, Shape, Busy, Listed, Stored1, Summary
  <2> QED
    BY <1>1, <1>8, <2>1 DEF Subscribe, history, TablesOK
<1>9. CASE Tell(w)
  <2>1. p.tell \X {p.cur.res} \subseteq User \X Reservation
    BY <1>1, <1>9 DEF Tell, Shape, Stored1, Summary, PassState
  <2>2. PICK sent \in SUBSET (p.tell \X {p.cur.res}) :
          told' = told \cup sent /\ retold' = retold \cup (sent \cap told)
    BY <1>9 DEF Tell
  <2> HIDE DEF p
  <2>3. UNCHANGED <<tables, issued, runs, shown, dead, untried>>
    BY <1>9 DEF Tell
  <2> QED
    BY <1>1, <2>1, <2>2, <2>3 DEF tables, TablesOK
<1>10. CASE RecordOutcome(w)
  <2>1. p.acct \in Account /\ p.outcome \in {"ok", "failed"}
    BY <1>1, <1>10 DEF RecordOutcome, Shape, Busy, PassState
  <2> QED
    BY <1>1, <1>10, <2>1, RecordedTyped DEF RecordOutcome, history, TablesOK
<1> QED
  BY <1>3, <1>4, <1>5, <1>6, <1>7, <1>8, <1>9, <1>10 DEF PassStep

LEMMA BeginTables ==
  ASSUME Typed, NEW w \in Worker, Begins(w)
  PROVE  TablesOK'
<1>1. pass[w] \in PassState /\ Shape(pass[w]) /\ TablesOK
  BY TypedByParts DEF Typed, TypeOK, Shapes
<1>2. ASSUME NEW u \in User, NEW line \in Line, RegisterUser(w, u, line)
      PROVE  TablesOK'
  BY <1>1, <1>2, DiscoveryAssumption DEF RegisterUser, history, TablesOK
<1>3. CASE RegisterAccount(w)
  <2>1. pass[w].user \in User /\ pass[w].line \in Line /\ pass[w].cred \in Cred
    BY <1>1, <1>3 DEF RegisterAccount, Shape, PassState
  <2> QED
    BY <1>1, <1>3, <2>1, UpsertedTyped DEF RegisterAccount, history, TablesOK
<1>4. CASE FindAccount(w) \/ \E u \in User : Refresh(w, u)
  BY <1>1, <1>4 DEF FindAccount, Refresh, tables, history, TablesOK
<1>5. CASE LoadAccounts
  <2>1. {a.id : a \in ActiveAccounts} \in SUBSET Cred
    BY <1>1 DEF ActiveAccounts, TablesOK, Account
  <2>2. runs' \in 0..MaxRun
    BY <1>1, <1>5, DiscoveryAssumption DEF LoadAccounts, TablesOK
  <2> QED
    BY <1>1, <1>5, <2>1, <2>2 DEF LoadAccounts, tables, TablesOK
<1>6. CASE Stop(w)
  BY <1>1, <1>6 DEF Stop, tables, TablesOK
<1> QED
  BY <1>2, <1>3, <1>4, <1>5, <1>6 DEF Begins

(* The transactions of one statement.                                       *)
Removes == \/ \E u \in User, line \in Line : RemoveAccount(u, line)
           \/ \E u \in User : Unregister(u)

LEMMA RemoveTables == ASSUME Typed, Removes PROVE TablesOK' /\ pass' = pass
<1>1. TablesOK
  BY TypedByParts
<1>2. Untested \in Verdict
  BY DiscoveryAssumption DEF Untested, Verdict
<1>3. ASSUME NEW u \in User, NEW line \in Line, RemoveAccount(u, line)
      PROVE  TablesOK' /\ pass' = pass
  <2>1. {a.cred : a \in AccountOf(u, line)} \in SUBSET Cred
    BY <1>1 DEF AccountOf, AccountsOf, TablesOK, Account
  <2>2. verdict' \in [Cred -> Verdict]
    BY <1>1, <1>2, <1>3 DEF RemoveAccount, Erased, TablesOK
  <2>3. accounts' \in SUBSET Account /\ subs' \in SUBSET (User \X Reservation)
        /\ dead' \in SUBSET Cred
    BY <1>1, <1>3, <2>1 DEF RemoveAccount, TablesOK
  <2> QED
    BY <1>1, <1>3, <2>2, <2>3 DEF RemoveAccount, TablesOK
<1>4. ASSUME NEW u \in User, Unregister(u) PROVE TablesOK' /\ pass' = pass
  <2>1. {a.cred : a \in AccountsOf(u)} \in SUBSET Cred
    BY <1>1 DEF AccountsOf, TablesOK, Account
  <2>2. verdict' \in [Cred -> Verdict]
    BY <1>1, <1>2, <1>4 DEF Unregister, Erased, TablesOK
  <2> QED
    BY <1>1, <1>4, <2>1, <2>2 DEF Unregister, TablesOK
<1> QED
  BY <1>3, <1>4 DEF Removes

(* Every step of Discovery is one of these three.                           *)
LEMMA ThreeKinds ==
  ASSUME Next
  PROVE  \/ \E w \in Worker : Begins(w) \/ PassStep(w)
         \/ Removes
BY DEF Next, WebAndScraper, RequestStep, Begins, Removes, Worker

LEMMA TypedStep == ASSUME Typed, Next PROVE Typed'
<1>1. ASSUME NEW w \in Worker, Only(w), Shape(pass'[w])
      PROVE  pass' \in [Worker -> PassState] /\ Shapes'
  BY <1>1 DEF Only, Shapes, Typed
<1>2. ASSUME NEW w \in Worker, Begins(w) PROVE Typed'
  BY <1>1, <1>2, BeginFacts, BeginTables, TypedByParts DEF Begun
<1>3. ASSUME NEW w \in Worker, PassStep(w) PROVE Typed'
  BY <1>1, <1>3, PassFacts, PassTables, TypedByParts DEF Moves
<1>4. CASE Removes
  <2>1. Shapes' /\ pass' \in [Worker -> PassState]
    BY <1>4, RemoveTables DEF Shapes, Typed, TypeOK
  <2> QED
    BY <1>4, <2>1, RemoveTables, TypedByParts
<1> QED
  BY <1>2, <1>3, <1>4, ThreeKinds
-----------------------------------------------------------------------------
(* What is stored.                                                          *)

Details == DetailOfThisCabin /\ RecoveredRoomIsOwn

StoresOne ==
  \E w \in Worker : \E s \in pass[w].found :
    /\ pass[w].at = "store" /\ SameLine(pass[w].line, s.res)
    /\ bookings' = [bookings EXCEPT ![s.res] = Stored(pass[w].line, s)]

LEMMA BookingsChange ==
  ASSUME Typed, Next
  PROVE  /\ UNCHANGED bookings \/ StoresOne
         /\ shown \subseteq shown'
<1>1. ASSUME NEW w \in Worker, Begins(w)
      PROVE  UNCHANGED <<bookings, shown>>
  BY <1>1 DEF Begins, RegisterUser, RegisterAccount, FindAccount, Refresh,
     LoadAccounts, Stop, tables, history
<1>2. ASSUME NEW w \in Worker, PassStep(w)
      PROVE  UNCHANGED bookings \/ StoresOne
  <2>1. CASE StoreBooking(w)
    BY <2>1 DEF StoreBooking, StoresOne
  <2> QED
    BY <1>2, <2>1 DEF PassStep, StartAccount, DecryptFails, LoginFails, ListFails,
       LoginLists, StoreFails, Subscribe, SubscribeFails, LookupSubscribers, Tell,
       RecordOutcome, RecordFails, tables
<1>3. ASSUME NEW w \in Worker, PassStep(w)
      PROVE  shown \subseteq shown'
  BY <1>3 DEF PassStep, StartAccount, DecryptFails, LoginFails, ListFails,
     LoginLists, StoreBooking, StoreFails, Subscribe, SubscribeFails,
     LookupSubscribers, Tell, RecordOutcome, RecordFails, history
<1>4. CASE Removes
  BY <1>4 DEF Removes, RemoveAccount, Unregister
<1> QED
  BY <1>1, <1>2, <1>3, <1>4, ThreeKinds

(* KeepsItsLine, of one step.                                               *)
LinesKept ==
  \A r \in Reservation :
    bookings[r] # None => /\ bookings'[r] # None
                          /\ bookings'[r].line = bookings[r].line

LEMMA LinesStep ==
  ASSUME Typed, UNCHANGED bookings \/ StoresOne
  PROVE  LinesKept
<1>1. CASE UNCHANGED bookings
  BY <1>1 DEF LinesKept
<1>2. CASE StoresOne
  <2>1. PICK w \in Worker : \E s \in pass[w].found :
          /\ SameLine(pass[w].line, s.res)
          /\ bookings' = [bookings EXCEPT ![s.res] = Stored(pass[w].line, s)]
    BY <1>2 DEF StoresOne
  <2>2. PICK s \in pass[w].found :
          /\ SameLine(pass[w].line, s.res)
          /\ bookings' = [bookings EXCEPT ![s.res] = Stored(pass[w].line, s)]
    BY <2>1
  <2>3. /\ s \in Summary /\ pass[w].line \in Line
        /\ bookings \in [Reservation -> Booking \cup {None}]
    BY DEF Typed, TypeOK, PassState
  <2>4. Stored(pass[w].line, s).line = pass[w].line
        /\ Stored(pass[w].line, s) \in Booking
    BY <2>3, StoredTyped
  <2> QED
    BY <2>2, <2>3, <2>4, NoneAssumption DEF LinesKept, SameLine
<1> QED
  BY <1>1, <1>2

LEMMA DetailsStep ==
  ASSUME Typed, Details, UNCHANGED bookings \/ StoresOne
  PROVE  Details'
<1> USE DEF Details, DetailOfThisCabin, RecoveredRoomIsOwn
<1>1. CASE UNCHANGED bookings
  BY <1>1
<1>2. CASE StoresOne
  <2>1. PICK w \in Worker : \E s \in pass[w].found :
          bookings' = [bookings EXCEPT ![s.res] = Stored(pass[w].line, s)]
    BY <1>2 DEF StoresOne
  <2>2. PICK s \in pass[w].found :
          bookings' = [bookings EXCEPT ![s.res] = Stored(pass[w].line, s)]
    BY <2>1
  <2> DEFINE line == pass[w].line
             b == bookings[s.res]
             c == Stored(line, s)
  <2>3. /\ s \in Summary /\ s.res \in Reservation /\ line \in Line /\ Consistent(s)
        /\ bookings \in [Reservation -> Booking \cup {None}]
    BY DEF Typed, TypeOK, PassState, Summary, Shapes, Shape
  <2>4. /\ c.detail \in {None, c.stateroom}
        /\ c.assigned # None => Own(s.res, c.assigned)
    <3>1. CASE b = None
      BY <2>3, <3>1 DEF Stored, Consistent
    <3>2. CASE b # None
      <4>1. /\ b.detail \in {None, b.stateroom}
            /\ b.assigned # None => Own(s.res, b.assigned)
        BY <2>3, <3>2 DEF Own
      <4>2. c = Merged(b, line, s)
        BY <3>2 DEF Stored
      <4> HIDE DEF b, c
      <4> QED
        BY <2>3, <4>1, <4>2 DEF Merged, Consistent
    <3> QED
      BY <3>1, <3>2
  <2> HIDE DEF c
  <2>5. \A r \in Reservation : bookings'[r] = IF r = s.res THEN c ELSE bookings[r]
    BY <2>2, <2>3 DEF c
  <2> QED
    BY <2>3, <2>4, <2>5 DEF Own
<1> QED
  BY <1>1, <1>2
-----------------------------------------------------------------------------
(* What was shown.                                                          *)

(* A pass holds only what its user was shown on its line, and stored what   *)
(* it is about to subscribe him to.                                         *)
Earned(p) ==
  /\ \A s \in p.found : <<p.user, p.line, s.res>> \in shown
  /\ p.at \in Stored1 =>
       /\ <<p.user, p.line, p.cur.res>> \in shown
       /\ bookings[p.cur.res] # None
       /\ bookings[p.cur.res].line = p.line

Owned == OwnershipIsEarned /\ \A w \in Worker : Earned(pass[w])

LEMMA EarnedStep ==
  ASSUME Typed, Next, \A w \in Worker : Earned(pass[w])
  PROVE  (\A w \in Worker : Earned(pass[w]))'
<1>1. LinesKept /\ shown \subseteq shown'
  BY BookingsChange, LinesStep
<1>2. \A w \in Worker : /\ pass[w] \in PassState /\ Shape(pass[w])
                        /\ pass[w].at \in Stored1 => pass[w].cur.res \in Reservation
  BY DEF Typed, TypeOK, Shapes, Shape, Summary
<1>3. ASSUME NEW w \in Worker, NEW p, p = pass'[w], p.found \subseteq pass[w].found,
             p.user = pass[w].user, p.line = pass[w].line,
             p.at \in Stored1 => pass[w].at \in Stored1 /\ p.cur = pass[w].cur
      PROVE  Earned(pass[w])'
  <2>1. Earned(pass[w])
    OBVIOUS
  <2>2. \A s \in p.found : <<p.user, p.line, s.res>> \in shown'
    BY <1>1, <1>3, <2>1 DEF Earned
  <2>3. p.at \in Stored1 => /\ <<p.user, p.line, p.cur.res>> \in shown'
                           /\ bookings'[p.cur.res] # None
                           /\ bookings'[p.cur.res].line = p.line
    BY <1>1, <1>2, <1>3, <2>1 DEF Earned, LinesKept
  <2> QED
    BY <1>3, <2>2, <2>3 DEF Earned
<1>4. ASSUME NEW w \in Worker, pass'[w] = pass[w] PROVE Earned(pass[w])'
  BY <1>3, <1>4
<1>5. ASSUME NEW w \in Worker, Shape(pass'[w]), pass'[w].at \notin Listed
      PROVE  Earned(pass[w])'
  BY <1>5 DEF Shape, Earned, Listed, Stored1
<1>6. ASSUME NEW w \in Worker, Begins(w)
      PROVE  \A v \in Worker : Earned(pass[v])'
  BY <1>4, <1>5, <1>6, BeginFacts DEF Begun, Only, Busy
<1>7. ASSUME NEW w \in Worker, PassStep(w)
      PROVE  \A v \in Worker : Earned(pass[v])'
  <2>1. Moves(w)
    BY <1>7, PassFacts
  <2>2. ASSUME Goes(w), pass'[w].at \in Listed PROVE Earned(pass[w])'
    BY <1>3, <2>2 DEF Goes
  <2>3. ASSUME Lists(w) PROVE Earned(pass[w])'
    BY <2>3 DEF Lists, Earned
  <2>4. ASSUME Stores(w) PROVE Earned(pass[w])'
    <3>1. PICK s \in pass[w].found :
            /\ pass'[w].at = "subscribe" /\ pass'[w].cur = s
            /\ pass'[w].found = pass[w].found \ {s}
            /\ pass'[w].user = pass[w].user /\ pass'[w].line = pass[w].line
            /\ bookings' = [bookings EXCEPT ![s.res] = Stored(pass[w].line, s)]
      BY <2>4 DEF Stores
    <3>2. /\ s \in Summary /\ s.res \in Reservation /\ pass[w].line \in Line
          /\ bookings \in [Reservation -> Booking \cup {None}]
      BY <1>2 DEF PassState, Summary, Typed, TypeOK
    <3>3. /\ bookings'[s.res] \in Booking
          /\ bookings'[s.res].line = pass[w].line
      BY <3>1, <3>2, StoredTyped
    <3>4. \A t \in pass[w].found : <<pass[w].user, pass[w].line, t.res>> \in shown'
      BY <1>1 DEF Earned
    <3> QED
      BY <3>1, <3>3, <3>4, NoneAssumption DEF Earned
  <2>5. Earned(pass[w])'
    BY <1>5, <2>1, <2>2, <2>3, <2>4 DEF Moves
  <2> QED
    BY <1>4, <2>1, <2>5 DEF Moves, Only
<1>8. CASE Removes
  BY <1>4, <1>8, RemoveTables
<1> QED
  BY <1>6, <1>7, <1>8, ThreeKinds

LEMMA OwnedStep == ASSUME Typed, Owned, Next PROVE Owned'
<1>1. LinesKept /\ shown \subseteq shown'
  BY BookingsChange, LinesStep
<1>2. (\A w \in Worker : Earned(pass[w]))'
  BY EarnedStep DEF Owned
<1>3. subs \in SUBSET (User \X Reservation)
  BY DEF Typed, TypeOK
<1>4. ASSUME subs' \subseteq subs PROVE OwnershipIsEarned'
  BY <1>1, <1>3, <1>4 DEF Owned, OwnershipIsEarned, LinesKept
<1>5. ASSUME NEW w \in Worker, Subscribe(w) PROVE OwnershipIsEarned'
  <2> DEFINE p == pass[w]
             new == <<p.user, p.cur.res>>
  <2>1. subs' = subs \cup {new} /\ p.at \in Stored1 /\ UNCHANGED <<bookings, shown>>
    BY <1>5 DEF Subscribe, Stored1, history
  <2>2. /\ bookings[p.cur.res] # None
        /\ <<p.user, bookings[p.cur.res].line, p.cur.res>> \in shown
    BY <2>1 DEF Owned, Earned
  <2> QED
    BY <2>1, <2>2 DEF Owned, OwnershipIsEarned
<1>6. (\E w \in Worker : Subscribe(w)) \/ subs' \subseteq subs
  <2>1. ASSUME NEW w \in Worker, Begins(w) PROVE subs' = subs
    BY <2>1 DEF Begins, RegisterUser, RegisterAccount, FindAccount, Refresh,
       LoadAccounts, Stop, tables
  <2>2. ASSUME NEW w \in Worker, PassStep(w) PROVE Subscribe(w) \/ subs' = subs
    BY <2>2 DEF PassStep, StartAccount, DecryptFails, LoginFails, ListFails,
       LoginLists, StoreBooking, StoreFails, SubscribeFails, LookupSubscribers,
       Tell, RecordOutcome, RecordFails, tables
  <2>3. CASE Removes
    BY <2>3 DEF Removes, RemoveAccount, Unregister
  <2> QED
    BY <2>1, <2>2, <2>3, ThreeKinds
<1> QED
  BY <1>2, <1>4, <1>5, <1>6 DEF Owned
-----------------------------------------------------------------------------
(* Credentials.  An account's were never deleted and are its alone; those   *)
(* of a handler that has yet to store them are nobody's.                    *)

Ledger ==
  /\ \A a \in accounts : a.cred \notin dead /\ a.cred <= issued
  /\ \A a, b \in accounts :
       a.cred = b.cred \/ (a.user = b.user /\ a.line = b.line) => a = b
  /\ \A d \in dead : d <= issued

InHand(c) == c <= issued /\ c \notin dead /\ \A a \in accounts : a.cred # c
Pending(w) == pass[w].at = "user"
Apart(c) == InHand(c) /\ \A w \in Worker : Pending(w) => pass[w].cred # c

Hands ==
  /\ \A w \in Worker : Pending(w) => InHand(pass[w].cred)
  /\ \A v, w \in Worker :
       Pending(v) /\ Pending(w) /\ pass[v].cred = pass[w].cred => v = w

CredInv == Ledger /\ Hands

LEMMA Upserting ==
  ASSUME TypeOK, Ledger, NEW u \in User, NEW line \in Line, NEW cred \in Cred,
         InHand(cred), accounts' = Upserted(u, line, cred), UNCHANGED <<issued, dead>>
  PROVE  /\ Ledger'
         /\ \A c : InHand(c) /\ c # cred => InHand(c)'
<1>1. \A a \in accounts : a \in Account /\ a.cred \in Cred
  BY DEF TypeOK, Account
<1>2. CASE AccountOf(u, line) = {}
  <2> DEFINE new == [id |-> cred, user |-> u, line |-> line, cred |-> cred]
  <2>1. accounts' = accounts \cup {new}
    BY <1>2 DEF Upserted
  <2>2. /\ new.user = u /\ new.line = line /\ new.cred = cred
        /\ \A a \in accounts : ~ (a.user = u /\ a.line = line)
    BY <1>2 DEF AccountOf, AccountsOf
  <2> HIDE DEF new
  <2> QED
    BY <2>1, <2>2 DEF Ledger, InHand
<1>3. CASE AccountOf(u, line) # {}
  <2>1. PICK old \in accounts : old.user = u /\ old.line = line
    BY <1>3 DEF AccountOf, AccountsOf
  <2>2. \A a \in accounts : a.user = u /\ a.line = line => a = old
    BY <2>1 DEF Ledger
  <2> DEFINE new == [old EXCEPT !.cred = cred]
  <2>3. accounts' = (accounts \ {old}) \cup {new}
    BY <1>3, <2>1, <2>2 DEF Upserted
  <2>4. new.user = u /\ new.line = line /\ new.cred = cred
    BY <1>1, <2>1 DEF Account
  <2> HIDE DEF new
  <2> QED
    BY <2>1, <2>2, <2>3, <2>4 DEF Ledger, InHand
<1> QED
  BY <1>2, <1>3

LEMMA Deleting ==
  ASSUME Ledger, NEW gone \in SUBSET accounts, accounts' = accounts \ gone,
         dead' = dead \cup {a.cred : a \in gone}, UNCHANGED issued
  PROVE  /\ Ledger'
         /\ \A c : InHand(c) => InHand(c)'
BY DEF Ledger, InHand

LEMMA Issuing ==
  ASSUME TypeOK, Ledger, issued' = issued + 1, UNCHANGED <<accounts, dead>>
  PROVE  /\ Ledger' /\ InHand(issued)'
         /\ \A c \in Cred : InHand(c) => InHand(c)' /\ c # issued + 1
<1>1. /\ issued \in Int /\ \A a \in accounts : a.cred \in Int
      /\ dead \in SUBSET Int
  BY DiscoveryAssumption DEF TypeOK, Account, Cred
<1>2. Ledger'
  BY <1>1 DEF Ledger
<1>3. InHand(issued)'
  BY <1>1 DEF Ledger, InHand
<1>4. ASSUME NEW c \in Cred, InHand(c) PROVE InHand(c)' /\ c # issued + 1
  BY <1>1, <1>4 DEF InHand, Cred
<1> QED
  BY <1>2, <1>3, <1>4

(* A step leaves the ledger in order, and hands nobody's credentials on.    *)
LEMMA CredStep ==
  ASSUME Typed, CredInv, Next
  PROVE  /\ CredInv'
         /\ \A c \in Cred : Apart(c) => Apart(c)'
<1>1. TypeOK /\ pass \in [Worker -> PassState] /\ Ledger /\ Hands
  BY DEF Typed, TypeOK, CredInv
<1>2. ASSUME NEW w \in Worker, Only(w), pass'[w].at # "user",
             UNCHANGED <<accounts, dead, issued>>
      PROVE  CredInv' /\ \A c \in Cred : Apart(c) => Apart(c)'
  BY <1>1, <1>2 DEF Only, CredInv, Ledger, Hands, Apart, InHand, Pending
<1>3. ASSUME NEW w \in Worker, w \in Request, NEW u \in User, NEW line \in Line,
             RegisterUser(w, u, line)
      PROVE  CredInv' /\ \A c \in Cred : Apart(c) => Apart(c)'
  <2>1. issued' = issued + 1 /\ UNCHANGED <<accounts, dead>>
    BY <1>3 DEF RegisterUser, history
  <2>2. /\ Ledger' /\ InHand(issued)'
        /\ \A c \in Cred : InHand(c) => InHand(c)' /\ c # issued + 1
    BY <1>1, <2>1, Issuing
  <2>3. Begins(w)
    BY <1>3 DEF Begins
  <2>4. Only(w) /\ (pass'[w].at = "user" => pass'[w].cred = issued + 1)
    BY <2>3, BeginFacts DEF Begun
  <2>5. \A v \in Worker : Pending(v) => pass[v].cred \in Cred
    BY DEF Typed, Shapes, Shape, Pending
  <2>6. \A v \in Worker : v # w /\ Pending(v)' =>
          /\ Pending(v) /\ pass'[v] = pass[v]
          /\ InHand(pass[v].cred)' /\ pass[v].cred # issued + 1
    BY <1>1, <2>2, <2>4, <2>5 DEF Only, Pending, Hands
  <2>7. Hands'
    BY <1>1, <2>1, <2>2, <2>4, <2>6 DEF Hands, Pending
  <2>8. ASSUME NEW c \in Cred, Apart(c) PROVE Apart(c)'
    BY <2>2, <2>4, <2>6, <2>8 DEF Apart, Pending
  <2> QED
    BY <2>2, <2>7, <2>8 DEF CredInv
<1>4. ASSUME NEW w \in Worker, w \in Request, RegisterAccount(w)
      PROVE  CredInv' /\ \A c \in Cred : Apart(c) => Apart(c)'
  <2>1. /\ Pending(w) /\ UNCHANGED <<issued, dead>>
        /\ accounts' = Upserted(pass[w].user, pass[w].line, pass[w].cred)
    BY <1>4 DEF RegisterAccount, Pending, history
  <2>2. pass[w].user \in User /\ pass[w].line \in Line /\ pass[w].cred \in Cred
    BY <1>1, <2>1 DEF Typed, Shapes, Shape, Pending, PassState
  <2>3. InHand(pass[w].cred)
    BY <1>1, <2>1 DEF Hands
  <2>4. Ledger' /\ \A c : InHand(c) /\ c # pass[w].cred => InHand(c)'
    BY <1>1, <2>1, <2>2, <2>3, Upserting
  <2>5. Only(w) /\ pass'[w].at # "user"
    <3>1. pass'[w].at = "account"
      BY <1>1, <1>4 DEF RegisterAccount, At, Enter, PassState
    <3> QED
      BY <1>4, <3>1, BeginFacts DEF Begins, Begun
  <2>6. Hands'
    BY <1>1, <2>1, <2>4, <2>5 DEF Hands, Pending, Only
  <2>7. ASSUME NEW c \in Cred, Apart(c) PROVE Apart(c)'
    BY <2>1, <2>4, <2>5, <2>7 DEF Apart, Pending, Only
  <2> QED
    BY <2>4, <2>6, <2>7 DEF CredInv
<1>5. ASSUME NEW w \in Worker,
             \/ w \in Request /\ FindAccount(w)
             \/ w \in Request /\ \E u \in User : Refresh(w, u)
             \/ w = Scraper /\ LoadAccounts
             \/ Stop(w)
      PROVE  CredInv' /\ \A c \in Cred : Apart(c) => Apart(c)'
  <2>1. UNCHANGED <<accounts, dead, issued>>
    BY <1>5 DEF FindAccount, Refresh, LoadAccounts, Stop, tables, history
  <2>2. Only(w) /\ (pass'[w].at = "user" => issued' = issued + 1)
    BY <1>5, BeginFacts DEF Begins, Begun, RegisterUser
  <2>3. issued' # issued + 1
    BY <1>1, <2>1, DiscoveryAssumption DEF TypeOK
  <2> QED
    BY <1>2, <2>1, <2>2, <2>3
<1>6. ASSUME NEW w \in Worker, PassStep(w)
      PROVE  CredInv' /\ \A c \in Cred : Apart(c) => Apart(c)'
  <2>1. UNCHANGED <<accounts, dead, issued>>
    BY <1>6 DEF PassStep, StartAccount, DecryptFails, LoginFails, ListFails,
       LoginLists, StoreBooking, StoreFails, Subscribe, SubscribeFails,
       LookupSubscribers, Tell, RecordOutcome, RecordFails, tables, history
  <2> QED
    BY <1>2, <1>6, <2>1, PassFacts DEF Moves
<1>7. CASE Removes
  <2>1. PICK gone \in SUBSET accounts :
          /\ accounts' = accounts \ gone
          /\ dead' = dead \cup {a.cred : a \in gone} /\ UNCHANGED issued
    BY <1>7 DEF Removes, RemoveAccount, Unregister, AccountOf, AccountsOf
  <2>2. Ledger' /\ (\A c : InHand(c) => InHand(c)') /\ pass' = pass
    BY <1>1, <1>7, <2>1, Deleting, RemoveTables
  <2> QED
    BY <1>1, <2>2 DEF CredInv, Hands, Apart, Pending
<1> QED
  BY <1>3, <1>4, <1>5, <1>6, <1>7, ThreeKinds DEF Begins

(* NoDeletedLogin, of one step.                                             *)
NoneDeleted ==
  \A w \in Worker : \A a \in pass'[w].todo \ pass[w].todo : a.cred \notin dead

LEMMA LoginsStep == ASSUME Typed, Ledger, Next PROVE NoneDeleted
<1>1. ASSUME NEW w \in Worker, Begins(w) PROVE NoneDeleted
  BY <1>1, BeginFacts DEF Begun, Only, NoneDeleted, Ledger
<1>2. ASSUME NEW w \in Worker, PassStep(w) PROVE NoneDeleted
  BY <1>2, PassFacts DEF Moves, Only, NoneDeleted
<1>3. CASE Removes
  BY <1>3, RemoveTables DEF NoneDeleted
<1> QED
  BY <1>1, <1>2, <1>3, ThreeKinds
-----------------------------------------------------------------------------
(* Outcomes of logins, and the scraper's run.                               *)

LEMMA ClearedOrRecorded ==
  ASSUME OutcomeOfThisRow,
         \/ \E u, line : verdict' = Cleared(u, line)
         \/ \E a, outcome : verdict' = Recorded(a, outcome)
         \/ \E rows : verdict' = Erased(rows)
         \/ verdict' = verdict
  PROVE  OutcomeOfThisRow'
BY DEF OutcomeOfThisRow, Cleared, Erased, Recorded, Untested

LEMMA OutcomeStep == ASSUME OutcomeOfThisRow, Next PROVE OutcomeOfThisRow'
<1>1. ASSUME NEW w \in Worker, Begins(w) PROVE OutcomeOfThisRow'
  <2>1. (\E u, line : verdict' = Cleared(u, line)) \/ verdict' = verdict
    BY <1>1 DEF Begins, RegisterUser, RegisterAccount, FindAccount, Refresh,
       LoadAccounts, Stop, tables
  <2> QED
    BY <2>1, ClearedOrRecorded
<1>2. ASSUME NEW w \in Worker, PassStep(w) PROVE OutcomeOfThisRow'
  <2>1. (\E a, outcome : verdict' = Recorded(a, outcome)) \/ verdict' = verdict
    BY <1>2 DEF PassStep, StartAccount, DecryptFails, LoginFails, ListFails,
       LoginLists, StoreBooking, StoreFails, Subscribe, SubscribeFails,
       LookupSubscribers, Tell, RecordOutcome, RecordFails, tables
  <2> QED
    BY <2>1, ClearedOrRecorded
<1>3. CASE Removes
  BY <1>3, ClearedOrRecorded DEF Removes, RemoveAccount, Unregister
<1> QED
  BY <1>1, <1>2, <1>3, ThreeKinds

(* The accounts not tried yet are still on the run's list.                  *)
Tries == untried \subseteq {a.id : a \in pass[Scraper].todo}

LEMMA TriesStep == ASSUME Typed, Tries, Next PROVE Tries'
<1> DEFINE p == pass[Scraper]
<1>1. Scraper \in Worker /\ pass \in [Worker -> PassState] /\ p \in PassState
  BY DEF Worker, Typed, TypeOK
<1>2. CASE pass'[Scraper] = p /\ untried' = untried
  BY <1>2 DEF Tries
<1>3. ASSUME NEW q \in PassState, Enter(Scraper, q), q.todo = p.todo, untried' = untried
      PROVE  Tries'
  BY <1>1, <1>3, EnterFacts DEF Tries
<1>4. ASSUME NEW w \in Worker, PassStep(w) PROVE Tries'
  <2>1. CASE w # Scraper
    <3>1. pass'[Scraper] = p
      BY <1>1, <1>4, <2>1, PassFacts DEF Moves, Only
    <3>2. untried' = untried
      BY <1>4, <2>1 DEF PassStep, StartAccount, DecryptFails, LoginFails, ListFails,
         LoginLists, StoreBooking, StoreFails, Subscribe, SubscribeFails,
         LookupSubscribers, Tell, RecordOutcome, RecordFails, history
    <3> QED
      BY <1>2, <3>1, <3>2
  <2>2. CASE w = Scraper /\ (StartAccount(w) \/ DecryptFails(w))
    <3>1. PICK a \in Next1(w) :
            untried' = untried \ {a.id} /\ pass'[w].todo = p.todo \ {a}
      <4>1. CASE StartAccount(w)
        <5>1. PICK a \in Next1(w) :
                /\ \E old \in Snapshot(w, a) :
                     Enter(w, [pass[w] EXCEPT
                        !.at = "login", !.user = a.user, !.line = a.line,
                        !.todo = @ \ {a}, !.acct = a, !.outcome = "failed",
                        !.left = BrandsOf(a.line), !.old = old])
                /\ untried' = untried \ {a.id}
          BY <2>2, <4>1 DEF StartAccount
        <5>2. pass'[w].todo = p.todo \ {a}
          BY <1>1, <2>2, <5>1 DEF Enter, PassState
        <5> QED
          BY <5>1, <5>2
      <4>2. CASE DecryptFails(w)
        <5>1. PICK a \in Next1(w) :
                /\ Enter(w, AccountDone([pass[w] EXCEPT !.todo = @ \ {a}]))
                /\ untried' = untried \ {a.id}
          BY <2>2, <4>2 DEF DecryptFails
        <5> DEFINE q == [pass[w] EXCEPT !.todo = @ \ {a}]
        <5>2. q \in PassState /\ q.todo = p.todo \ {a} /\ q.found = p.found
          BY <1>1, <2>2 DEF PassState
        <5>3. p.found = {}
          BY <1>1, <2>2, <4>2 DEF DecryptFails, Typed, Shapes, Shape, Listed
        <5>4. Enter(w, AccountDone(q))
          BY <5>1
        <5> HIDE DEF q
        <5> QED
          BY <1>1, <2>2, <5>1, <5>2, <5>3, <5>4, AccountDoneFacts DEF Enter
      <4> QED
        BY <2>2, <4>1, <4>2
    <3> QED
      BY <2>2, <3>1 DEF Tries
  <2>3. CASE w = Scraper /\ ~ StartAccount(w) /\ ~ DecryptFails(w)
    <3>1. untried' = untried
      BY <1>4, <2>3 DEF PassStep, LoginFails, ListFails,
         LoginLists, StoreBooking, StoreFails, Subscribe, SubscribeFails,
         LookupSubscribers, Tell, RecordOutcome, RecordFails, history
    <3>2. pass'[w].todo = pass[w].todo
      BY <1>4, <2>3, PassFacts DEF Moves
    <3> QED
      BY <2>3, <3>1, <3>2 DEF Tries
  <2> QED
    BY <2>1, <2>2, <2>3
<1>5. ASSUME NEW w \in Worker, Begins(w) PROVE Tries'
  <2>1. CASE w # Scraper
    <3>1. pass'[Scraper] = p
      BY <1>1, <1>5, <2>1, BeginFacts DEF Begun, Only
    <3>2. untried' = untried
      BY <1>5, <2>1 DEF Begins, RegisterUser, RegisterAccount, FindAccount, Refresh,
         Stop, history
    <3> QED
      BY <1>2, <3>1, <3>2
  <2>2. CASE w = Scraper /\ Stop(w)
    BY <2>2 DEF Stop, Tries
  <2>3. CASE w = Scraper /\ LoadAccounts
    BY <1>1, <2>3 DEF LoadAccounts, Enter, NoPass, Tries
  <2> QED
    BY <1>5, <2>1, <2>2, <2>3, DiscoveryAssumption DEF Begins
<1>6. CASE Removes
  BY <1>2, <1>6, RemoveTables DEF Removes, RemoveAccount, Unregister
<1> QED
  BY <1>4, <1>5, <1>6, ThreeKinds
-----------------------------------------------------------------------------
(* Discovery.                                                               *)

(* What the tables and the passes keep, beside the run's list.              *)
TablesInv == Typed /\ CredInv /\ Owned /\ Details /\ OutcomeOfThisRow

LEMMA InitHolds == ASSUME Init PROVE TablesInv /\ Tries
<1>1. NoPass \in PassState /\ Shape(NoPass)
  BY NoPassShape DEF Shape
<1>2. Typed
  <2>1. Untested \in Verdict
    BY DiscoveryAssumption DEF Untested, Verdict
  <2>2. pass \in [Worker -> PassState] /\ Shapes
    BY <1>1 DEF Init, Shapes
  <2>3. /\ verdict \in [Cred -> Verdict]
        /\ bookings \in [Reservation -> Booking \cup {None}]
        /\ status \in [User -> {"absent", "active", "inactive"}]
    BY <2>1 DEF Init
  <2>4. issued \in 0..MaxCred /\ runs \in 0..MaxRun
    BY DiscoveryAssumption DEF Init
  <2> QED
    BY <2>2, <2>3, <2>4 DEF Init, Typed, TypeOK
<1>3. \A w \in Worker : pass[w].at = "free" /\ pass[w].found = {}
  BY DEF Init, NoPass
<1>4. Scraper \in Worker
  BY DEF Worker
<1> QED
  BY <1>2, <1>3, <1>4 DEF Init, TablesInv, CredInv, Ledger, Hands, Pending, Owned,
     OwnershipIsEarned, Earned, Stored1, Details, DetailOfThisCabin,
     RecoveredRoomIsOwn, OutcomeOfThisRow, Untested, Tries

LEMMA TablesStep ==
  ASSUME TablesInv, Next
  PROVE  TablesInv' /\ LinesKept /\ NoneDeleted
<1>1. Typed /\ CredInv /\ Ledger /\ Owned /\ Details /\ OutcomeOfThisRow
  BY DEF TablesInv, CredInv
<1>2. Typed' /\ CredInv' /\ Owned' /\ OutcomeOfThisRow'
  BY <1>1, TypedStep, CredStep, OwnedStep, OutcomeStep
<1>3. Details' /\ LinesKept
  BY <1>1, BookingsChange, DetailsStep, LinesStep
<1> QED
  BY <1>1, <1>2, <1>3, LoginsStep DEF TablesInv

LEMMA TablesStutter ==
  ASSUME TablesInv, UNCHANGED vars
  PROVE  TablesInv' /\ LinesKept /\ NoneDeleted
<1> USE DEF vars, tables, history
<1>1. Typed' /\ CredInv'
  BY DEF TablesInv, Typed, TypeOK, Shapes, Shape, CredInv, Ledger, Hands, Pending, InHand
<1>2. Owned' /\ Details' /\ OutcomeOfThisRow'
  BY DEF TablesInv, Owned, OwnershipIsEarned, Earned, Details, DetailOfThisCabin,
     RecoveredRoomIsOwn, OutcomeOfThisRow
<1> QED
  BY <1>1, <1>2 DEF TablesInv, LinesKept, NoneDeleted

LEMMA Inductive == Spec => [](TablesInv /\ Tries)
<1>1. Init => TablesInv /\ Tries
  BY InitHolds
<1>2. TablesInv /\ Tries /\ [Next]_vars => (TablesInv /\ Tries)'
  <2>1. ASSUME TablesInv, Tries, UNCHANGED vars PROVE (TablesInv /\ Tries)'
    BY <2>1, TablesStutter DEF Tries, vars, history
  <2>2. ASSUME TablesInv, Tries, Next PROVE (TablesInv /\ Tries)'
    BY <2>2, TablesStep, TriesStep DEF TablesInv
  <2> QED
    BY <2>1, <2>2
<1> QED
  BY <1>1, <1>2, PTL DEF Spec

(* A subscription rests on a login of that user which listed the booking,   *)
(* on the line of the stored booking.                                       *)
THEOREM SubscribersWereShown == Spec => []OwnershipIsEarned
<1>1. TablesInv /\ Tries => OwnershipIsEarned
  BY DEF TablesInv, Owned
<1> QED
  BY Inductive, <1>1, PTL

(* One account that cannot be decrypted, logged in or stored does not keep  *)
(* the scraper's run from the others.                                       *)
THEOREM NoAccountIsSkipped == Spec => []EveryAccountIsTried
<1>1. TablesInv /\ Tries => EveryAccountIsTried
  BY DEF TablesInv, Typed, Shapes, Shape, Worker, Tries, EveryAccountIsTried
<1> QED
  BY Inductive, <1>1, PTL

(* The tables and the passes are always ones the code can represent.        *)
THEOREM DiscoveryTypes == Spec => []TypeOK
<1>1. TablesInv /\ Tries => TypeOK
  BY DEF TablesInv, Typed
<1> QED
  BY Inductive, <1>1, PTL
-----------------------------------------------------------------------------
(* News of an assigned cabin.                                               *)

(* What one account's pass of the run may still tell of: the bookings at    *)
(* hand, and those of the brands it has yet to log in to.                   *)
ShownBy(u, brands) ==
  {t[3].res : t \in {x \in Shows : x[1] = u /\ x[2] \in brands}}
BrandsIn(left) == {left[i] : i \in 1..Len(left)}

Open == Listed \cup {"login"}
AtHand(p) == p.found \cup IF p.at \in Stored1 THEN {p.cur} ELSE {}
Later(p) == BrandsIn(IF p.at = "login" THEN p.left ELSE Tail(p.left))
StillToCome(p) ==
  IF p.at \in Open
  THEN {s.res : s \in AtHand(p)} \cup ShownBy(p.user, Later(p)) ELSE {}

(* What is at hand was listed by the first brand left, each booking once.   *)
ListedOnce(found, u, left) ==
  /\ left \in {BrandsOf("rcg"), <<"celebrity">>}
  /\ \A s \in found : s.res \in ShownBy(u, {Head(left)})
  /\ \A s, t \in found : s.res = t.res => s = t
Orderly(p) ==
  p.at \in Open =>
    /\ ListedOnce(AtHand(p), p.user, p.left)
    /\ p.at \in Stored1 => p.cur \notin p.found

(* Of what is still to come and was a guarantee in the snapshot, nobody has *)
(* been told.                                                               *)
NoneTold(r) == \A x \in told : x[2] # r
Fresh(p) ==
  \A r \in StillToCome(p) :
    p.old[r] # None /\ p.old[r].stateroom = Gty => NoneTold(r)

(* Only a pass with a snapshot has news.                                    *)
Announced(p) ==
  p.at \in {"lookup", "tell"} => p.old # None /\ p.old[p.cur.res] # None

Quiet(p) == p.op # "scrape" /\ p.old = None /\ p.at \notin {"lookup", "tell"}

(* Whoever was told of a cabin, it is stored.                               *)
ToldHasRoom ==
  \A x \in told : bookings[x[2]] # None /\ bookings[x[2]].stateroom \in Room

NewsInv ==
  /\ ToldHasRoom
  /\ \A q \in Request : Quiet(pass[q])
  /\ pass[Scraper].old # None => Orderly(pass[Scraper]) /\ Fresh(pass[Scraper])
  /\ Announced(pass[Scraper])
  /\ AssignedToldOnce

LEMMA TwoBrands ==
  /\ BrandsOf("rcg") = <<"royal", "celebrity">>
  /\ Head(BrandsOf("rcg")) = "royal" /\ Tail(BrandsOf("rcg")) = <<"celebrity">>
  /\ Head(<<"celebrity">>) = "celebrity" /\ Tail(<<"celebrity">>) = <<>>
  /\ BrandsIn(BrandsOf("rcg")) = {"royal", "celebrity"}
  /\ BrandsIn(<<"celebrity">>) = {"celebrity"} /\ BrandsIn(<<>>) = {}
<1>1. BrandsOf("rcg") = <<"royal", "celebrity">>
  BY DEF BrandsOf
<1>2. BrandsIn(<<"royal", "celebrity">>) = {"royal", "celebrity"}
  BY DEF BrandsIn
<1>3. BrandsIn(<<"celebrity">>) = {"celebrity"} /\ BrandsIn(<<>>) = {}
  BY DEF BrandsIn
<1>4. /\ Head(<<"royal", "celebrity">>) = "royal"
      /\ Tail(<<"royal", "celebrity">>) = <<"celebrity">>
  OBVIOUS
<1>5. Head(<<"celebrity">>) = "celebrity" /\ Tail(<<"celebrity">>) = <<>>
  OBVIOUS
<1> QED
  BY <1>1, <1>2, <1>3, <1>4, <1>5

(* No booking is listed by the first brand and again by a later one.        *)
LEMMA BrandsApart ==
  ASSUME NEW u, NEW left \in {BrandsOf("rcg"), <<"celebrity">>},
         NEW r \in ShownBy(u, {Head(left)})
  PROVE  r \notin ShownBy(u, BrandsIn(Tail(left)))
<1>1. CASE left = BrandsOf("rcg")
  BY <1>1, TwoBrands, BrandAssumption DEF ShownBy
<1>2. CASE left = <<"celebrity">>
  BY <1>2, TwoBrands DEF ShownBy
<1> QED
  BY <1>1, <1>2

LEMMA ListingOnce ==
  ASSUME NEW u, NEW brand, NEW S \in Listing(u, brand)
  PROVE  /\ \A s, t \in S : s.res = t.res => s = t
         /\ \A s \in S : s.res \in ShownBy(u, {brand})
<1> DEFINE shows == {s[3] : s \in {t \in Shows : t[1] = u /\ t[2] = brand}}
           summaries == UNION {IF brand = "princess" THEN PrincessSummaries(s)
                               ELSE RcgSummaries(s) : s \in shows}
<1>1. \A s \in shows : s.res \in ShownBy(u, {brand})
  BY DEF ShownBy
<1>2. ASSUME NEW x \in summaries PROVE x.res \in ShownBy(u, {brand})
  <2>1. PICK s \in shows : x \in (IF brand = "princess" THEN PrincessSummaries(s)
                                  ELSE RcgSummaries(s))
    BY <1>2
  <2> HIDE DEF shows
  <2>2. \A a \in PrincessSummaries(s) \cup RcgSummaries(s) : a.res = s.res
    BY DEF PrincessSummaries, RcgSummaries
  <2> QED
    BY <1>1, <2>1, <2>2
<1>3. CASE brand = "princess"
  <2>1. PICK s \in summaries : S = {s}
    BY <1>3 DEF Listing
  <2> QED
    BY <1>2, <2>1
<1>4. CASE brand # "princess"
  <2>1. S \subseteq summaries /\ \A s, t \in S : s.res = t.res => s = t
    BY <1>4 DEF Listing
  <2> QED
    BY <1>2, <2>1
<1> QED
  BY <1>3, <1>4

LEMMA OnwardPass ==
  ASSUME NEW p \in PassState, p.user \in User, p.acct \in Account, p.left # <<>>,
         \A s \in p.found : Consistent(s)
  PROVE  /\ SummaryDone(p) \in PassState /\ SameAccount(p, SummaryDone(p))
         /\ \/ SummaryDone(p).at = "record"
            \/ /\ SummaryDone(p).at = "login" /\ SummaryDone(p).found = {}
               /\ SummaryDone(p).left = Tail(p.left) /\ Tail(p.left) # <<>>
            \/ /\ SummaryDone(p).at = "store" /\ SummaryDone(p).found = p.found
               /\ SummaryDone(p).left = p.left
<1>1. SummaryDone(p) \in PassState /\ SameAccount(p, SummaryDone(p))
  BY SummaryDoneFacts DEF Shape
<1>2. CASE p.found # {}
  <2>1. SummaryDone(p) = [p EXCEPT !.at = "store", !.cur = None, !.tell = {}]
    BY <1>2 DEF SummaryDone
  <2> QED
    BY <1>1, <2>1 DEF PassState
<1>3. CASE p.found = {}
  <2> DEFINE at == IF Tail(p.left) = <<>> THEN "record" ELSE "login"
             rest == Tail(p.left)
  <2>1. SummaryDone(p) = [p EXCEPT !.left = rest, !.at = at, !.found = {},
                                   !.cur = None, !.tell = {}]
    BY <1>3 DEF SummaryDone, BrandDone
  <2>2. at = "record" \/ (at = "login" /\ rest # <<>>)
    OBVIOUS
  <2> HIDE DEF at, rest
  <2>3. SummaryDone(p).at = at /\ SummaryDone(p).found = {} /\ SummaryDone(p).left = rest
    BY <2>1 DEF PassState
  <2> QED
    BY <1>1, <2>2, <2>3 DEF rest
<1> QED
  BY <1>2, <1>3

(* On to the next booking or brand: what is to come was to come.            *)
LEMMA Onward ==
  ASSUME NEW p \in PassState, p.user \in User, p.acct \in Account,
         \A s \in p.found : Consistent(s), ListedOnce(p.found, p.user, p.left)
  PROVE  /\ Orderly(SummaryDone(p))
         /\ StillToCome(SummaryDone(p)) \subseteq
              {s.res : s \in p.found} \cup ShownBy(p.user, BrandsIn(Tail(p.left)))
<1> DEFINE q == SummaryDone(p)
<1>1. p.left \in {BrandsOf("rcg"), <<"celebrity">>}
  BY DEF ListedOnce
<1>2. p.left # <<>>
  BY <1>1, TwoBrands
<1>3. /\ q.user = p.user
      /\ \/ q.at = "record"
         \/ q.at = "login" /\ q.found = {} /\ q.left = Tail(p.left) /\ Tail(p.left) # <<>>
         \/ q.at = "store" /\ q.found = p.found /\ q.left = p.left
  BY <1>2, OnwardPass DEF SameAccount
<1> HIDE DEF q
<1>4. CASE q.at = "record"
  BY <1>4 DEF Orderly, StillToCome, Open, Listed, q
<1>5. CASE q.at = "login"
  <2>1. q.found = {} /\ q.left = <<"celebrity">> /\ q.left = Tail(p.left)
    BY <1>1, <1>3, <1>5, TwoBrands
  <2>2. AtHand(q) = {} /\ Later(q) = BrandsIn(q.left)
    BY <1>5, <2>1 DEF AtHand, Later, Stored1
  <2>3. Orderly(q)
    BY <1>5, <2>1, <2>2 DEF Orderly, ListedOnce, Stored1
  <2>4. StillToCome(q) \subseteq ShownBy(p.user, BrandsIn(Tail(p.left)))
    BY <1>3, <2>1, <2>2 DEF StillToCome
  <2> QED
    BY <2>3, <2>4 DEF q
<1>6. CASE q.at = "store"
  <2>1. q.found = p.found /\ q.left = p.left
    BY <1>3, <1>6
  <2>2. AtHand(q) = p.found /\ Later(q) = BrandsIn(Tail(p.left))
    BY <1>6, <2>1 DEF AtHand, Later, Stored1
  <2> QED
    BY <1>3, <1>6, <2>1, <2>2 DEF Orderly, StillToCome, Stored1, q
<1> QED
  BY <1>3, <1>4, <1>5, <1>6
-----------------------------------------------------------------------------
(* What a step of w's pass leaves to come.                                  *)
Continues(w) ==
  /\ pass'[w].op \in {pass[w].op, "none"}
  /\ pass'[w].old \in {pass[w].old, None}
  /\ Announced(pass'[w])
  /\ pass'[w].at \in {"lookup", "tell"} => pass[w].old # None
  /\ pass[w].old # None =>
       /\ Orderly(pass'[w])
       /\ StillToCome(pass'[w]) \subseteq StillToCome(pass[w])
       /\ Tell(w) => pass[w].cur.res \notin StillToCome(pass'[w])

LEMMA ContinueFacts ==
  ASSUME Typed, NEW w \in Worker, PassStep(w), ~ StartAccount(w),
         Announced(pass[w]), pass[w].old # None => Orderly(pass[w])
  PROVE  Continues(w)
<1> DEFINE p == pass[w]
           rest == ShownBy(p.user, BrandsIn(Tail(p.left)))
<1>1. p \in PassState /\ Shape(p) /\ pass \in [Worker -> PassState]
  BY DEF Typed, TypeOK, Shapes
<1>2. ASSUME NEW q \in PassState, Enter(w, q), q.op \in {p.op, "none"},
             q.old \in {p.old, None}, q.at \notin Open
      PROVE  Continues(w)
  <2>1. pass'[w] = q
    BY <1>1, <1>2, EnterFacts
  <2> QED
    BY <1>2, <2>1 DEF Continues, Announced, Orderly, StillToCome, Open, Listed
(* On to the next summary, with what was at hand or has just been listed.   *)
<1>3. ASSUME NEW q \in PassState, Enter(w, SummaryDone(q)),
             q.op = p.op, q.old = p.old, q.user = p.user, q.left = p.left,
             q.acct = p.acct, p.at \in Open, \A s \in q.found : Consistent(s),
             p.old # None =>
               /\ ListedOnce(q.found, p.user, p.left)
               /\ {s.res : s \in q.found} \cup rest \subseteq StillToCome(p)
               /\ Tell(w) => p.cur.res \notin {s.res : s \in q.found} \cup rest
      PROVE  Continues(w)
  <2>1. q.user \in User /\ q.acct \in Account /\ q.left # <<>>
    BY <1>1, <1>3 DEF Shape, Open, Busy
  <2>2. /\ SummaryDone(q) \in PassState /\ SameAccount(q, SummaryDone(q))
        /\ SummaryDone(q).at \in {"record", "login", "store"}
    BY <1>3, <2>1, OnwardPass
  <2>3. pass'[w] = SummaryDone(q)
    BY <1>1, <1>3, <2>2, EnterFacts
  <2>4. ASSUME p.old # None
        PROVE  /\ Orderly(SummaryDone(q))
               /\ StillToCome(SummaryDone(q)) \subseteq {s.res : s \in q.found} \cup rest
    BY <1>3, <2>1, <2>4, Onward
  <2> HIDE DEF p, rest
  <2>5. /\ pass'[w].op = p.op /\ pass'[w].old = p.old
        /\ pass'[w].at \in {"record", "login", "store"}
    BY <1>3, <2>2, <2>3 DEF SameAccount
  <2> QED
    BY <1>3, <2>3, <2>4, <2>5 DEF Continues, Announced, p
<1>4. CASE DecryptFails(w)
  <2>1. PICK a \in Next1(w) : Enter(w, AccountDone([pass[w] EXCEPT !.todo = @ \ {a}]))
    BY <1>4 DEF DecryptFails
  <2> DEFINE q == [p EXCEPT !.todo = @ \ {a}]
  <2>2. q \in PassState /\ q.op = p.op /\ q.old = p.old /\ q.found = p.found
    BY <1>1 DEF PassState
  <2>3. Enter(w, AccountDone(q)) /\ p.found = {}
    BY <1>1, <1>4, <2>1 DEF DecryptFails, Shape, Listed
  <2> HIDE DEF q, p
  <2>4. /\ AccountDone(q) \in PassState /\ AccountDone(q).at \notin Open
        /\ AccountDone(q).op \in {q.op, "none"} /\ AccountDone(q).old \in {q.old, None}
    <3>1. AccountDone(q) \in PassState /\ AccountDone(q).at \in {"free", "next"}
      BY <2>2, <2>3, AccountDoneFacts DEF Shape
    <3>2. AccountDone(q).op \in {q.op, "none"} /\ AccountDone(q).old \in {q.old, None}
      BY <2>2 DEF AccountDone, NoPass, PassState
    <3> QED
      BY <3>1, <3>2 DEF Open, Listed
  <2> QED
    BY <1>2, <2>2, <2>3, <2>4
<1>5. CASE RecordOutcome(w) \/ RecordFails(w)
  <2>1. Enter(w, AccountDone(p)) /\ p.found = {}
    BY <1>1, <1>5 DEF RecordOutcome, RecordFails, Shape, Listed
  <2>2. AccountDone(p) \in PassState /\ AccountDone(p).at \in {"free", "next"}
    BY <1>1, <2>1, AccountDoneFacts DEF Shape
  <2>3. AccountDone(p).op \in {p.op, "none"} /\ AccountDone(p).old \in {p.old, None}
    BY <1>1 DEF AccountDone, NoPass, PassState
  <2> QED
    BY <1>2, <2>1, <2>2, <2>3 DEF Open, Listed
<1>6. CASE LoginFails(w) \/ ListFails(w)
  <2>1. PICK o \in {"ok", "failed"} : Enter(w, BrandDone([p EXCEPT !.outcome = o]))
    <3>1. CASE LoginFails(w)
      <4>1. p = [p EXCEPT !.outcome = p.outcome] /\ p.outcome \in {"ok", "failed"}
        BY <1>1 DEF PassState
      <4> QED
        BY <3>1, <4>1 DEF LoginFails
    <3>2. CASE ListFails(w)
      <4> DEFINE o == IF p.line = "rcg" THEN "ok" ELSE p.outcome
      <4>1. o \in {"ok", "failed"}
        BY <1>1 DEF PassState
      <4>2. Enter(w, BrandDone([p EXCEPT !.outcome = o]))
        BY <3>2 DEF ListFails
      <4> QED
        BY <4>1, <4>2
    <3> QED
      BY <1>6, <3>1, <3>2
  <2> DEFINE q == [p EXCEPT !.outcome = o]
  <2>2. p.at = "login" /\ p.found = {}
    BY <1>1, <1>6 DEF LoginFails, ListFails, Shape, Listed
  <2>3. /\ q \in PassState /\ q.op = p.op /\ q.old = p.old /\ q.user = p.user
        /\ q.left = p.left /\ q.acct = p.acct /\ q.found = {}
    BY <1>1, <2>2 DEF PassState
  <2>4. Enter(w, BrandDone(q))
    BY <2>1
  <2> HIDE DEF q
  <2>5. Enter(w, SummaryDone(q))
    BY <2>3, <2>4 DEF SummaryDone
  <2>6. p.old # None => /\ ListedOnce(q.found, p.user, p.left)
                        /\ rest \subseteq StillToCome(p)
    <3>1. SUFFICES ASSUME p.old # None
                   PROVE  ListedOnce({}, p.user, p.left) /\ rest \subseteq StillToCome(p)
      BY <2>3
    <3>2. p.left \in {BrandsOf("rcg"), <<"celebrity">>}
      BY <2>2, <3>1 DEF Orderly, ListedOnce, Open
    <3>3. BrandsIn(Tail(p.left)) \subseteq BrandsIn(p.left)
      BY <3>2, TwoBrands
    <3>4. rest \subseteq ShownBy(p.user, Later(p))
      BY <2>2, <3>3 DEF ShownBy, Later
    <3> QED
      BY <2>2, <3>2, <3>4 DEF ListedOnce, StillToCome, Open
  <2>7. ~ Tell(w)
    BY <2>2 DEF Tell
  <2> HIDE DEF p, rest
  <2> QED
    BY <1>3, <2>2, <2>3, <2>5, <2>6, <2>7 DEF Open
<1>7. CASE LoginLists(w)
  <2>1. PICK S \in Listing(pass[w].user, Head(pass[w].left)) :
          Enter(w, SummaryDone([pass[w] EXCEPT !.outcome = "ok", !.found = S]))
    BY <1>7 DEF LoginLists
  <2> DEFINE q == [p EXCEPT !.outcome = "ok", !.found = S]
  <2>2. S \in SUBSET Summary /\ \A s \in S : Consistent(s)
    BY ListingTyped
  <2>3. /\ q \in PassState /\ q.op = p.op /\ q.old = p.old /\ q.user = p.user
        /\ q.left = p.left /\ q.acct = p.acct /\ q.found = S
    BY <1>1, <2>2 DEF PassState
  <2>4. Enter(w, SummaryDone(q)) /\ p.at = "login"
    BY <1>7, <2>1 DEF LoginLists
  <2> HIDE DEF q
  <2>5. /\ \A s, t \in S : s.res = t.res => s = t
        /\ \A s \in S : s.res \in ShownBy(p.user, {Head(p.left)})
    BY ListingOnce
  <2>6. p.old # None => /\ ListedOnce(S, p.user, p.left)
                        /\ {s.res : s \in S} \cup rest \subseteq StillToCome(p)
    <3>1. SUFFICES ASSUME p.old # None
                   PROVE  /\ ListedOnce(S, p.user, p.left)
                          /\ {s.res : s \in S} \cup rest \subseteq StillToCome(p)
      OBVIOUS
    <3>2. p.left \in {BrandsOf("rcg"), <<"celebrity">>}
      BY <2>4, <3>1 DEF Orderly, ListedOnce, Open
    <3>3. {Head(p.left)} \cup BrandsIn(Tail(p.left)) \subseteq BrandsIn(p.left)
      BY <3>2, TwoBrands
    <3>4. ShownBy(p.user, {Head(p.left)}) \cup rest \subseteq ShownBy(p.user, Later(p))
      BY <2>4, <3>3 DEF ShownBy, Later
    <3> QED
      BY <2>4, <2>5, <3>2, <3>4 DEF ListedOnce, StillToCome, Open
  <2>7. ~ Tell(w)
    BY <2>4 DEF Tell
  <2> HIDE DEF p, rest
  <2> QED
    BY <1>3, <2>2, <2>3, <2>4, <2>6, <2>7 DEF Open
<1>8. CASE StoreBooking(w)
  <2>1. PICK s \in pass[w].found :
          Enter(w, [pass[w] EXCEPT !.at = "subscribe", !.cur = s, !.found = @ \ {s}])
    BY <1>8 DEF StoreBooking
  <2> DEFINE q == [p EXCEPT !.at = "subscribe", !.cur = s, !.found = @ \ {s}]
  <2>2. s \in Summary /\ p.at = "store"
    BY <1>1, <1>8 DEF PassState, StoreBooking
  <2>3. /\ q \in PassState /\ q.user = p.user /\ q.left = p.left
        /\ q.found = p.found \ {s} /\ q.at = "subscribe" /\ q.cur = s
        /\ q.op = p.op /\ q.old = p.old
    BY <1>1, <2>2 DEF PassState
  <2>4. Enter(w, q)
    BY <2>1
  <2> HIDE DEF q
  <2>5. pass'[w] = q
    BY <1>1, <2>3, <2>4, EnterFacts
  <2>6. AtHand(q) = AtHand(p) /\ Later(q) = Later(p) /\ q.cur \notin q.found
    BY <2>2, <2>3 DEF AtHand, Later, Stored1
  <2>7. p.old # None => Orderly(q) /\ StillToCome(q) = StillToCome(p)
    BY <2>2, <2>3, <2>6 DEF Orderly, StillToCome, Open, Listed
  <2>8. ~ Tell(w)
    BY <2>2 DEF Tell
  <2> HIDE DEF p
  <2> QED
    BY <2>3, <2>5, <2>7, <2>8 DEF Continues, Announced, p
(* What is left of what was at hand, with or without the booking just done. *)
<1>9. ASSUME NEW q \in PassState, Enter(w, SummaryDone(q)),
             q.op = p.op, q.old = p.old, q.user = p.user, q.left = p.left,
             q.acct = p.acct, p.at \in Listed, q.found \subseteq p.found
      PROVE  Continues(w)
  <2>1. \A s \in q.found : Consistent(s)
    BY <1>1, <1>9 DEF Shape
  <2>2. Later(p) = BrandsIn(Tail(p.left)) /\ p.at \in Open
    BY <1>9 DEF Later, Listed, Open
  <2>3. ASSUME p.old # None
        PROVE  /\ ListedOnce(q.found, p.user, p.left)
               /\ {s.res : s \in q.found} \cup rest \subseteq StillToCome(p)
    <3>1. ListedOnce(AtHand(p), p.user, p.left) /\ q.found \subseteq AtHand(p)
      BY <1>9, <2>2, <2>3 DEF Orderly, AtHand
    <3> QED
      BY <2>2, <3>1 DEF ListedOnce, StillToCome
  <2>4. ASSUME p.old # None, Tell(w)
        PROVE  p.cur.res \notin {s.res : s \in q.found} \cup rest
    <3>1. p.at \in Stored1
      BY <2>4 DEF Tell, Stored1
    <3>2. /\ ListedOnce(AtHand(p), p.user, p.left) /\ p.cur \notin p.found
          /\ p.cur \in AtHand(p) /\ p.found \subseteq AtHand(p)
      BY <2>2, <2>4, <3>1 DEF Orderly, AtHand
    <3>3. p.cur.res \notin {s.res : s \in q.found}
      BY <1>9, <3>2 DEF ListedOnce
    <3>4. p.cur.res \notin rest
      BY <3>2, BrandsApart DEF ListedOnce
    <3> QED
      BY <3>3, <3>4
  <2> HIDE DEF p, rest
  <2> QED
    BY <1>3, <1>9, <2>1, <2>2, <2>3, <2>4
<1>10. CASE StoreFails(w)
  <2>1. PICK s \in pass[w].found :
          Enter(w, SummaryDone([pass[w] EXCEPT !.found = @ \ {s}]))
    BY <1>10 DEF StoreFails
  <2> DEFINE q == [p EXCEPT !.found = @ \ {s}]
  <2>2. /\ q \in PassState /\ q.left = p.left /\ q.found = p.found \ {s}
        /\ q.op = p.op /\ q.old = p.old /\ q.user = p.user /\ q.acct = p.acct
    BY <1>1 DEF PassState
  <2>3. Enter(w, SummaryDone(q)) /\ p.at \in Listed
    BY <1>10, <2>1 DEF StoreFails, Listed
  <2> HIDE DEF q, p
  <2> QED
    BY <1>9, <2>2, <2>3
<1>11. CASE SubscribeFails(w) \/ Tell(w) \/ (Subscribe(w) /\ ~ IsNews(w))
  <2>1. Enter(w, SummaryDone(p)) /\ p.at \in Listed
    BY <1>11 DEF SubscribeFails, Tell, Subscribe, Listed
  <2> HIDE DEF p
  <2> QED
    BY <1>1, <1>9, <2>1
<1>12. CASE (Subscribe(w) /\ IsNews(w)) \/ LookupSubscribers(w)
  <2>1. PICK at \in {"lookup", "tell"}, users \in SUBSET User :
          Enter(w, [p EXCEPT !.at = at, !.tell = users]) /\ p.at \in Stored1
    BY <1>12, TurnsToSubscribers
  <2> DEFINE q == [p EXCEPT !.at = at, !.tell = users]
  <2>2. /\ q \in PassState /\ q.left = p.left /\ q.found = p.found /\ q.cur = p.cur
        /\ q.at = at /\ q.user = p.user /\ q.op = p.op /\ q.old = p.old
    BY <1>1 DEF PassState
  <2>3. Enter(w, q)
    BY <2>1
  <2> HIDE DEF q
  <2>4. pass'[w] = q
    BY <1>1, <2>2, <2>3, EnterFacts
  <2>5. q.at \in Stored1 /\ p.at \in Stored1 /\ p.at \in Open /\ q.at \in Open
    BY <2>1, <2>2 DEF Stored1, Open, Listed
  <2>6. AtHand(q) = AtHand(p) /\ Later(q) = Later(p)
    BY <2>2, <2>5 DEF AtHand, Later, Stored1
  <2>7. p.old # None => Orderly(q) /\ StillToCome(q) = StillToCome(p)
    BY <2>2, <2>5, <2>6 DEF Orderly, StillToCome
  <2>8. p.old # None /\ p.old[p.cur.res] # None
    <3>1. CASE Subscribe(w) /\ IsNews(w)
      BY <3>1 DEF IsNews
    <3>2. CASE LookupSubscribers(w)
      BY <3>2 DEF LookupSubscribers, Announced
    <3> QED
      BY <1>12, <3>1, <3>2
  <2>9. ~ Tell(w)
    BY <1>12 DEF Subscribe, LookupSubscribers, Tell
  <2> HIDE DEF p
  <2> QED
    BY <2>2, <2>4, <2>7, <2>8, <2>9 DEF Continues, Announced, p
<1> QED
  BY <1>4, <1>5, <1>6, <1>7, <1>8, <1>10, <1>11, <1>12 DEF PassStep
-----------------------------------------------------------------------------
(* An account's pass begins: none of what the snapshot has as a guarantee   *)
(* has been told as a cabin.                                                *)
LEMMA StartFacts ==
  ASSUME Typed, ToldHasRoom, NEW w \in Worker, StartAccount(w)
  PROVE  /\ pass'[w].at = "login" /\ pass'[w].op = pass[w].op
         /\ pass[w].op # "scrape" => pass'[w].old = None
         /\ pass'[w].old # None => Orderly(pass'[w]) /\ Fresh(pass'[w])
<1> DEFINE p == pass[w]
<1>1. p \in PassState /\ Shape(p) /\ pass \in [Worker -> PassState]
  BY DEF Typed, TypeOK, Shapes
<1>2. PICK a \in Next1(w) : \E old \in Snapshot(w, a) :
        Enter(w, [pass[w] EXCEPT
                    !.at = "login", !.user = a.user, !.line = a.line,
                    !.todo = @ \ {a}, !.acct = a, !.outcome = "failed",
                    !.left = BrandsOf(a.line), !.old = old])
  BY DEF StartAccount
<1>3. PICK old \in Snapshot(w, a) :
        Enter(w, [pass[w] EXCEPT
                    !.at = "login", !.user = a.user, !.line = a.line,
                    !.todo = @ \ {a}, !.acct = a, !.outcome = "failed",
                    !.left = BrandsOf(a.line), !.old = old])
  BY <1>2
<1> DEFINE left == BrandsOf(a.line)
           q == [p EXCEPT !.at = "login", !.user = a.user, !.line = a.line,
                          !.todo = @ \ {a}, !.acct = a, !.outcome = "failed",
                          !.left = left, !.old = old]
<1>4. pass'[w] = q
  BY <1>1, <1>3 DEF Enter
<1> HIDE DEF left
<1>5. /\ q.at = "login" /\ q.op = p.op /\ q.user = a.user /\ q.left = left
      /\ q.old = old /\ q.found = p.found
  BY <1>1, SMTT(30) DEF PassState
<1>6. p.found = {}
  BY <1>1 DEF StartAccount, Shape, Listed
<1> HIDE DEF q
<1>7. AtHand(q) = {} /\ StillToCome(q) \subseteq ShownBy(a.user, BrandsIn(left))
  BY <1>5, <1>6 DEF AtHand, StillToCome, Later, Stored1
<1>8. ASSUME old # None PROVE Orderly(q) /\ Fresh(q)
  <2>1. left = BrandsOf("rcg") /\ old \in {bookings, [r \in Reservation |-> None]}
    BY <1>8 DEF Snapshot, left
  <2>2. Orderly(q)
    BY <1>5, <1>7, <2>1 DEF Orderly, ListedOnce, Stored1
  <2>3. StillToCome(q) \subseteq Reservation
    BY <1>7, DiscoveryAssumption DEF ShownBy
  <2>4. Fresh(q)
    <3>1. SUFFICES ASSUME NEW r \in Reservation, old[r] # None,
                          old[r].stateroom = Gty
                   PROVE  NoneTold(r)
      BY <1>5, <2>3 DEF Fresh
    <3>2. old = bookings
      BY <2>1, <3>1
    <3> QED
      BY <3>1, <3>2, DiscoveryAssumption DEF NoneTold, ToldHasRoom
  <2> QED
    BY <2>2, <2>4
<1>9. p.op # "scrape" => old = None
  BY DEF Snapshot
<1> QED
  BY <1>4, <1>5, <1>8, <1>9

(* Only Tell tells anybody.                                                 *)
LEMMA ToldChange ==
  ASSUME NEW w \in Worker, Begins(w) \/ PassStep(w), ~ Tell(w)
  PROVE  told' \subseteq told /\ retold' = retold
<1>1. CASE Begins(w)
  BY <1>1 DEF Begins, RegisterUser, RegisterAccount, FindAccount, Refresh,
     LoadAccounts, Stop, history
<1>2. CASE StoreBooking(w)
  BY <1>2 DEF StoreBooking, Forget
<1>3. CASE PassStep(w) /\ ~ StoreBooking(w)
  BY <1>3 DEF PassStep, StartAccount, DecryptFails, LoginFails, ListFails,
     LoginLists, StoreFails, Subscribe, SubscribeFails, LookupSubscribers,
     RecordOutcome, RecordFails, history
<1> QED
  BY <1>1, <1>2, <1>3

LEMMA RoomsStep ==
  ASSUME Typed, Owned, ToldHasRoom, Next
  PROVE  ToldHasRoom'
<1>1. CASE told' \subseteq told /\ bookings' = bookings
  BY <1>1 DEF ToldHasRoom
<1>2. ASSUME NEW w \in Worker, StoreBooking(w) PROVE ToldHasRoom'
  <2>1. PICK s \in pass[w].found :
          /\ bookings' = [bookings EXCEPT ![s.res] = Stored(pass[w].line, s)]
          /\ told' = Forget(s.res, Stored(pass[w].line, s))
    BY <1>2 DEF StoreBooking
  <2> DEFINE new == Stored(pass[w].line, s)
  <2>2. /\ s \in Summary /\ s.res \in Reservation /\ pass[w].line \in Line
        /\ bookings \in [Reservation -> Booking \cup {None}]
        /\ told \in SUBSET (User \X Reservation)
    BY DEF Typed, TypeOK, PassState, Summary
  <2>3. new \in Booking /\ new # None
    BY <2>2, StoredTyped, NoneAssumption
  <2> HIDE DEF new
  <2>4. \A r \in Reservation : bookings'[r] = IF r = s.res THEN new ELSE bookings[r]
    BY <2>1, <2>2 DEF new
  <2>5. told' \subseteq told /\ (new.stateroom \notin Room => \A x \in told' : x[2] # s.res)
    BY <2>1 DEF Forget, new
  <2> QED
    BY <2>2, <2>3, <2>4, <2>5 DEF ToldHasRoom
<1>3. ASSUME NEW w \in Worker, Tell(w) PROVE ToldHasRoom'
  <2> DEFINE r == pass[w].cur.res
  <2>1. bookings[r] # None /\ bookings' = bookings
    BY <1>3 DEF Tell, Owned, Earned, Stored1, tables
  <2>2. \A x \in told' : x \in told \/ (x[2] = r /\ bookings[r].stateroom \in Room)
    BY <1>3 DEF Tell
  <2> QED
    BY <2>1, <2>2 DEF ToldHasRoom
<1>4. ASSUME NEW w \in Worker, Begins(w) \/ PassStep(w),
             ~ StoreBooking(w), ~ Tell(w)
      PROVE  ToldHasRoom'
  <2>1. Begins(w) => UNCHANGED bookings
    BY DEF Begins, RegisterUser, RegisterAccount, FindAccount, Refresh,
       LoadAccounts, Stop, tables
  <2>2. PassStep(w) => UNCHANGED bookings
    BY <1>4 DEF PassStep, StartAccount, DecryptFails, LoginFails, ListFails,
       LoginLists, StoreFails, Subscribe, SubscribeFails, LookupSubscribers,
       RecordOutcome, RecordFails, tables
  <2>3. UNCHANGED bookings
    BY <1>4, <2>1, <2>2
  <2> QED
    BY <1>1, <1>4, <2>3, ToldChange
<1>5. CASE Removes
  BY <1>1, <1>5 DEF Removes, RemoveAccount, Unregister
<1> QED
  BY <1>2, <1>3, <1>4, <1>5, ThreeKinds

(* No pass but the scraper's has a snapshot to compare with.                *)
LEMMA QuietStep ==
  ASSUME Typed, ToldHasRoom, \A q \in Request : Quiet(pass[q]), Next
  PROVE  \A q \in Request : Quiet(pass'[q])
<1>1. Request \subseteq Worker /\ Scraper \notin Request /\ pass \in [Worker -> PassState]
  BY DiscoveryAssumption DEF Worker, Typed, TypeOK
<1>2. ASSUME NEW q \in Request, Begins(q) PROVE Quiet(pass'[q])
  <2>1. pass[q] \in PassState /\ Quiet(pass[q])
    BY <1>1
  <2>2. Quiet(NoPass)
    BY DEF NoPass, Quiet
  <2> USE <1>1, <1>2, <2>1, <2>2
  <2>3. CASE Stop(q)
    BY <2>3 DEF Stop, Enter
  <2>4. CASE \E u \in User, line \in Line : RegisterUser(q, u, line)
    BY <2>4 DEF RegisterUser, Enter, NoPass, Quiet
  <2>5. CASE RegisterAccount(q)
    BY <2>5 DEF RegisterAccount, At, Enter, Quiet, PassState
  <2>6. CASE FindAccount(q)
    <3>1. CASE pass'[q] = NoPass
      BY <3>1
    <3>2. CASE pass'[q] = [pass[q] EXCEPT !.at = "next",
                             !.todo = AccountOf(pass[q].user, pass[q].line)]
      BY <3>2 DEF Quiet, PassState
    <3> QED
      BY <2>6, <3>1, <3>2 DEF FindAccount, Enter
  <2>7. CASE \E u \in User : Refresh(q, u)
    <3>1. PICK u \in User : Refresh(q, u)
      BY <2>7
    <3>2. CASE pass' = pass
      BY <3>2
    <3>3. CASE pass' # pass
      <4>1. pass'[q] = [NoPass EXCEPT !.op = "refresh", !.at = "next", !.user = u,
                                      !.todo = AccountsOf(u)]
        BY <3>1, <3>3 DEF Refresh, Enter
      <4> QED
        BY <4>1 DEF NoPass, Quiet
    <3> QED
      BY <3>2, <3>3
  <2> QED
    BY <2>3, <2>4, <2>5, <2>6, <2>7 DEF Begins
<1>3. ASSUME NEW q \in Request, PassStep(q) PROVE Quiet(pass'[q])
  <2>1. Quiet(pass[q]) /\ q \in Worker
    BY <1>1
  <2>2. CASE StartAccount(q)
    BY <2>1, <2>2, StartFacts DEF Quiet
  <2>3. CASE ~ StartAccount(q)
    <3>1. Continues(q)
      BY <1>3, <2>1, <2>3, ContinueFacts DEF Quiet, Announced
    <3> QED
      BY <2>1, <3>1 DEF Continues, Quiet
  <2> QED
    BY <2>2, <2>3
<1>4. ASSUME NEW q \in Request, pass'[q] = pass[q] PROVE Quiet(pass'[q])
  BY <1>4
<1>5. ASSUME NEW w \in Worker, Begins(w) \/ PassStep(w)
      PROVE  \A q \in Request : q # w => pass'[q] = pass[q]
  BY <1>1, <1>5, BeginFacts, PassFacts DEF Begun, Moves, Only
<1>6. CASE Removes
  BY <1>6, RemoveTables
<1> QED
  BY <1>2, <1>3, <1>4, <1>5, <1>6, ThreeKinds

LEMMA NewsStep ==
  ASSUME TablesInv, NewsInv, Next
  PROVE  NewsInv'
<1> DEFINE p == pass[Scraper]
<1>1. Typed /\ Owned /\ ToldHasRoom /\ Scraper \in Worker
  BY DEF TablesInv, NewsInv, Worker
<1>2. ToldHasRoom' /\ \A q \in Request : Quiet(pass'[q])
  BY <1>1, RoomsStep, QuietStep DEF NewsInv
<1>3. ASSUME pass'[Scraper] = p, told' \subseteq told, retold' = retold
      PROVE  NewsInv'
  BY <1>2, <1>3 DEF NewsInv, Fresh, NoneTold, AssignedToldOnce
<1>4. ASSUME NEW w \in Worker, Tell(w) PROVE w = Scraper /\ p.old # None
  BY <1>4 DEF NewsInv, Quiet, Tell, Worker, Announced
<1>5. CASE StartAccount(Scraper)
  <2>1. /\ pass'[Scraper].at = "login"
        /\ pass'[Scraper].old # None => Orderly(pass'[Scraper]) /\ Fresh(pass'[Scraper])
    BY <1>1, <1>5, StartFacts
  <2>2. told' = told /\ retold' = retold
    BY <1>5 DEF StartAccount
  <2> QED
    BY <1>2, <2>1, <2>2 DEF NewsInv, Announced, Fresh, NoneTold, AssignedToldOnce
<1>6. CASE PassStep(Scraper) /\ ~ StartAccount(Scraper)
  <2>1. Continues(Scraper)
    BY <1>1, <1>6, ContinueFacts DEF NewsInv
  <2>2. ASSUME ~ Tell(Scraper) PROVE NewsInv'
    <3>1. told' \subseteq told /\ retold' = retold
      BY <1>1, <1>6, <2>2, ToldChange
    <3>2. pass'[Scraper].old # None => Fresh(pass[Scraper])'
      BY <2>1, <3>1 DEF NewsInv, Continues, Fresh, NoneTold
    <3> QED
      BY <1>2, <2>1, <3>1, <3>2 DEF NewsInv, Continues, AssignedToldOnce
  <2>3. ASSUME Tell(Scraper) PROVE NewsInv'
    <3> DEFINE r == p.cur.res
               news == /\ CabinAssigned(p.old[r], p.cur)
                       /\ bookings[r].stateroom \in Room
               sent == IF news THEN p.tell \X {r} ELSE {}
    <3>1. p.old # None /\ p.old[r] # None /\ p.at \in Open /\ p.at \in Stored1
      BY <1>4, <2>3 DEF NewsInv, Announced, Tell, Open, Listed, Stored1
    <3>2. r \in StillToCome(p)
      BY <3>1 DEF StillToCome, AtHand
    <3>3. told' = told \cup sent /\ retold' = retold \cup (sent \cap told)
      BY <2>3 DEF Tell
    <3>4. \A x \in sent : x[2] = r /\ p.old[r].stateroom = Gty
      BY DEF CabinAssigned
    <3> HIDE DEF sent
    <3>5. sent \cap told = {}
      BY <3>1, <3>2, <3>4 DEF NewsInv, Fresh, NoneTold
    <3>6. AssignedToldOnce'
      BY <3>3, <3>5 DEF NewsInv, AssignedToldOnce
    <3>7. pass'[Scraper].old # None => Fresh(pass[Scraper])'
      BY <2>1, <2>3, <3>1, <3>3, <3>4 DEF NewsInv, Continues, Fresh, NoneTold
    <3> QED
      BY <1>2, <2>1, <3>1, <3>6, <3>7 DEF NewsInv, Continues
  <2> QED
    BY <2>2, <2>3
<1>7. ASSUME NEW w \in Worker, w # Scraper, Begins(w) \/ PassStep(w)
      PROVE  NewsInv'
  <2>1. pass'[Scraper] = p
    BY <1>1, <1>7, BeginFacts, PassFacts DEF Begun, Moves, Only
  <2>2. told' \subseteq told /\ retold' = retold
    BY <1>4, <1>7, ToldChange
  <2> QED
    BY <1>3, <2>1, <2>2
<1>8. CASE Begins(Scraper)
  <2>1. told' = told /\ retold' = retold
    BY <1>8 DEF Begins, RegisterUser, RegisterAccount, FindAccount, Refresh,
       LoadAccounts, Stop, history
  <2>2. pass'[Scraper] = NoPass \/ pass'[Scraper].old = None
    <3>1. pass \in [Worker -> PassState] /\ Scraper \notin Request
      BY <1>1, DiscoveryAssumption DEF Typed, TypeOK
    <3> QED
      BY <1>1, <1>8, <3>1 DEF Begins, LoadAccounts, Stop, Enter, NoPass
  <2>3. pass'[Scraper].at \notin {"lookup", "tell"}
    BY <1>1, <1>8, BeginFacts DEF Begun, Busy, Listed
  <2> QED
    BY <1>2, <2>1, <2>2, <2>3 DEF NewsInv, NoPass, Announced, AssignedToldOnce
<1>9. CASE Removes
  <2>1. told' = told /\ retold' = retold
    BY <1>9 DEF Removes, RemoveAccount, Unregister
  <2> QED
    BY <1>1, <1>3, <1>9, <2>1, RemoveTables
<1> QED
  BY <1>1, <1>5, <1>6, <1>7, <1>8, <1>9, ThreeKinds DEF PassStep

LEMMA NewsInit == ASSUME Init PROVE NewsInv
BY DEF Init, NewsInv, ToldHasRoom, Quiet, NoPass, Worker, Announced, AssignedToldOnce

(* A subscriber hears of an assigned guarantee cabin once, although every   *)
(* partner's account lists the reservation and each run discovers it again. *)
THEOREM AssignmentsAreToldOnce == Spec => []AssignedToldOnce
<1>1. Init => NewsInv
  BY NewsInit
<1>2. (TablesInv /\ Tries) /\ NewsInv /\ [Next]_vars => NewsInv'
  <2>1. ASSUME NewsInv, UNCHANGED vars PROVE NewsInv'
    BY <2>1 DEF vars, tables, history, NewsInv, ToldHasRoom, Orderly, Fresh,
       NoneTold, Announced, AssignedToldOnce
  <2> QED
    BY <2>1, NewsStep
<1>3. NewsInv => AssignedToldOnce
  BY DEF NewsInv
<1> QED
  BY Inductive, <1>1, <1>2, <1>3, PTL DEF Spec
-----------------------------------------------------------------------------
(* Registration.                                                            *)

(* A handler that has yet to store credentials has its own.                 *)
Keeping(u) == bot[u].at \in {"user", "account"}

ChatTyped ==
  /\ dialog \in [User -> Dialogue] /\ bot \in [User -> Handler]
  /\ wanted \in SUBSET User
  /\ \A u \in User : Keeping(u) => bot[u].cred \in Cred

BotHands ==
  /\ \A u \in User : Keeping(u) => Apart(bot[u].cred)
  /\ \A u, v \in User :
       Keeping(u) /\ Keeping(v) /\ bot[u].cred = bot[v].cred => u = v

Wants == \A u \in User : dialog[u].at # "idle" => u \in wanted

ChatInv == TablesInv /\ ChatTyped /\ BotHands /\ Wants

LinksWanted ==
  \A u \in User : bot[u].at = "free" /\ bot'[u].at = "user" => u \in wanted

LEMMA ChatInitHolds == ASSUME ChatInit PROVE ChatInv
<1>1. TablesInv
  BY InitHolds DEF ChatInit
<1>2. dialog \in [User -> Dialogue] /\ bot \in [User -> Handler]
  BY DiscoveryAssumption DEF ChatInit, Idle, Ready, Dialogue, Handler, Line
<1>3. \A u \in User : dialog[u].at = "idle" /\ bot[u].at = "free"
  BY DEF ChatInit, Idle, Ready
<1> QED
  BY <1>1, <1>2, <1>3 DEF ChatInit, ChatInv, ChatTyped, BotHands, Wants, Keeping

(* The three kinds of a step: on the tables, on the chat, on both.          *)
OnTables == Next /\ UNCHANGED chat
OnChat(u) ==
  \/ SendRegister(u) \/ SendCancel(u) \/ SendTest(u)
  \/ \E line \in Line : PressLine(u, line)
  \/ TypeLogin(u) \/ LinkFails(u) \/ LinkStored(u)

LEMMA ChatKinds ==
  ASSUME ChatNext
  PROVE  \/ OnTables
         \/ \E u \in User : \/ OnChat(u)
                            \/ TypePassword(u) \/ LinkUser(u) \/ LinkAccount(u)
                            \/ TestLogin(u)
         \/ Restart
<1>1. ASSUME NEW u \in User, SendUnregister(u) PROVE OnTables
  BY <1>1 DEF SendUnregister, OnTables, Next
<1>2. ASSUME NEW u \in User, NEW line \in Line, PressRemove(u, line) PROVE OnTables
  BY <1>2 DEF PressRemove, OnTables, Next, WebAndScraper
<1> QED
  BY <1>1, <1>2 DEF ChatNext, ChatStep, BotStep, OnTables, OnChat, Next

LEMMA OnTablesStep ==
  ASSUME ChatInv, OnTables
  PROVE  ChatInv' /\ LinesKept /\ NoneDeleted /\ LinksWanted
<1>1. TablesInv' /\ LinesKept /\ NoneDeleted
  BY TablesStep DEF ChatInv, OnTables
<1>2. \A c \in Cred : Apart(c) => Apart(c)'
  BY CredStep DEF ChatInv, OnTables, TablesInv
<1>3. BotHands'
  <2>1. bot' = bot
    BY DEF OnTables, chat
  <2>2. \A u \in User : Keeping(u) => bot[u].cred \in Cred
    BY DEF ChatInv, ChatTyped
  <2> QED
    BY <1>2, <2>1, <2>2 DEF ChatInv, BotHands, Keeping
<1> QED
  BY <1>1, <1>3 DEF ChatInv, ChatTyped, Keeping, Wants, OnTables, chat, LinksWanted

LEMMA OnChatStep ==
  ASSUME ChatInv, NEW u \in User, OnChat(u)
  PROVE  ChatInv' /\ LinesKept /\ NoneDeleted /\ LinksWanted
<1>1. UNCHANGED vars
  BY DEF OnChat, SendRegister, SendCancel, SendTest, PressLine, TypeLogin, LinkFails,
     LinkStored
<1>2. TablesInv' /\ LinesKept /\ NoneDeleted
  BY <1>1, TablesStutter DEF ChatInv
<1>3. \A c : Apart(c) => Apart(c)'
  BY <1>1 DEF Apart, InHand, Pending, vars, tables, history
<1>4. /\ dialog \in [User -> Dialogue] /\ bot \in [User -> Handler]
      /\ wanted \in SUBSET User /\ accounts \in SUBSET Account
      /\ bot[u] \in Handler /\ dialog[u] \in Dialogue
  BY DEF ChatInv, ChatTyped, TablesInv, Typed, TypeOK
<1>5. bot' \in [User -> Handler] /\ \A v \in User :
         bot'[v].at \in {"user", "account"} => bot'[v] = bot[v]
  <2>1. CASE bot' = bot
    BY <1>4, <2>1
  <2>2. CASE SendTest(u)
    <3> DEFINE todo == AccountsOf(u)
               q == [Ready EXCEPT !.at = "test", !.todo = todo]
    <3>1. todo \in SUBSET Account
      BY <1>4 DEF AccountsOf
    <3>2. bot' = [bot EXCEPT ![u] = q]
      BY <2>2 DEF SendTest, Handles
    <3> HIDE DEF todo
    <3>4. Ready \in Handler
      BY DiscoveryAssumption DEF Ready, Handler, Line
    <3>3. q \in Handler /\ q.at = "test"
      BY <3>1, <3>4 DEF Handler
    <3> HIDE DEF q
    <3> QED
      BY <1>4, <3>2, <3>3
  <2>3. CASE LinkFails(u) \/ LinkStored(u)
    <3>1. PICK q \in {Ready, [bot[u] EXCEPT !.at = "test"]} : bot' = [bot EXCEPT ![u] = q]
      BY <2>3 DEF LinkFails, LinkStored, Handles
    <3>2. q \in Handler /\ q.at \in {"free", "test"}
      <4>1. Ready \in Handler /\ Ready.at = "free"
        BY DiscoveryAssumption DEF Ready, Handler, Line
      <4>2. [bot[u] EXCEPT !.at = "test"] \in Handler
              /\ [bot[u] EXCEPT !.at = "test"].at = "test"
        BY <1>4 DEF Handler
      <4> QED
        BY <4>1, <4>2
    <3> QED
      BY <1>4, <3>1, <3>2
  <2> QED
    BY <2>1, <2>2, <2>3 DEF OnChat, SendRegister, SendCancel, PressLine, TypeLogin
<1>6. ChatTyped' /\ BotHands' /\ LinksWanted
  <2>1. dialog' \in [User -> Dialogue] /\ wanted' \in SUBSET User
    BY <1>4 DEF OnChat, SendRegister, SendCancel, SendTest, PressLine, TypeLogin,
       LinkFails, LinkStored, Says, Idle, Dialogue, Line
  <2> QED
    BY <1>3, <1>5, <2>1 DEF ChatInv, ChatTyped, BotHands, Keeping, LinksWanted
<1>7. Wants'
  <2> USE DEF ChatInv, Wants, Says, Idle
  <2>1. CASE SendRegister(u)
    BY <1>4, <2>1 DEF SendRegister
  <2>2. CASE SendCancel(u)
    BY <1>4, <2>2 DEF SendCancel
  <2>3. ASSUME NEW line \in Line, PressLine(u, line) PROVE Wants'
    BY <1>4, <2>3 DEF PressLine
  <2>4. CASE TypeLogin(u)
    BY <1>4, <2>4 DEF TypeLogin
  <2>5. CASE SendTest(u) \/ LinkFails(u) \/ LinkStored(u)
    BY <2>5 DEF SendTest, LinkFails, LinkStored
  <2> QED
    BY <2>1, <2>2, <2>3, <2>4, <2>5 DEF OnChat
<1> QED
  BY <1>2, <1>6, <1>7 DEF ChatInv

(* The password: the last step of a dialogue.                               *)
LEMMA TypePasswordStep ==
  ASSUME ChatInv, NEW u \in User, TypePassword(u)
  PROVE  ChatInv' /\ LinesKept /\ NoneDeleted /\ LinksWanted
<1>1. /\ UNCHANGED <<tables, pass, runs, history>> /\ issued' = issued + 1
      /\ issued < MaxCred
  BY DEF TypePassword
<1>2. /\ TypeOK /\ Typed /\ Ledger /\ Hands /\ bot \in [User -> Handler]
      /\ dialog \in [User -> Dialogue] /\ wanted \in SUBSET User
  BY DEF ChatInv, ChatTyped, TablesInv, Typed, CredInv
<1>3. /\ Ledger' /\ InHand(issued)'
      /\ \A c \in Cred : InHand(c) => InHand(c)' /\ c # issued + 1
  BY <1>1, <1>2, Issuing DEF tables, history
<1>4. \A w \in Worker : Pending(w) => pass[w].cred \in Cred
  BY <1>2 DEF Typed, Shapes, Shape, Pending
<1>5. issued' \in Cred /\ issued' \in 0..MaxCred
  BY <1>1, <1>2, DiscoveryAssumption DEF TypeOK, Cred
<1>6. TablesInv'
  <2>1. Typed'
    BY <1>1, <1>2, <1>5 DEF Typed, TypeOK, Shapes, Shape, tables, history
  <2>2. Hands'
    BY <1>1, <1>2, <1>3, <1>4 DEF Hands, Pending
  <2>3. Owned' /\ Details' /\ OutcomeOfThisRow'
    BY <1>1 DEF ChatInv, TablesInv, Owned, OwnershipIsEarned, Earned, Details,
       DetailOfThisCabin, RecoveredRoomIsOwn, OutcomeOfThisRow, tables, history
  <2> QED
    BY <1>3, <2>1, <2>2, <2>3 DEF TablesInv, CredInv
<1>7. \A c \in Cred : Apart(c) => Apart(c)' /\ c # issued'
  BY <1>1, <1>3 DEF Apart, Pending
<1>8. Apart(issued)'
  BY <1>1, <1>3, <1>4 DEF Apart, Pending, Hands, ChatInv, TablesInv, CredInv
<1>9. PICK q \in Handler :
        bot' = [bot EXCEPT ![u] = q] /\ q.at = "user" /\ q.cred = issued'
  <2> DEFINE line == dialog[u].line
             cred == issued + 1
             q == [Ready EXCEPT !.at = "user", !.line = line, !.cred = cred]
  <2>1. line \in Line /\ cred \in 0..MaxCred /\ cred = issued'
    BY <1>1, <1>2, <1>5 DEF Dialogue
  <2>2. bot' = [bot EXCEPT ![u] = q]
    BY DEF TypePassword, Handles
  <2>3. Ready \in Handler
    BY DiscoveryAssumption DEF Ready, Handler, Line
  <2> HIDE DEF line, cred
  <2>4. q \in Handler /\ q.at = "user" /\ q.cred = cred
    BY <2>1, <2>3 DEF Handler
  <2> HIDE DEF q
  <2> QED
    BY <2>1, <2>2, <2>4
<1>10. /\ dialog' = [dialog EXCEPT ![u] = Idle] /\ wanted' = wanted \ {u}
       /\ dialog[u].at = "password" /\ bot[u].at = "free"
  BY DEF TypePassword
<1>11. ChatTyped' /\ BotHands'
  <2>1. Idle \in Dialogue
    BY DEF Idle, Dialogue, Line
  <2>2. dialog' \in [User -> Dialogue] /\ wanted' \in SUBSET User
    BY <1>2, <1>10, <2>1
  <2>3. bot' \in [User -> Handler] /\ bot'[u] = q
        /\ \A v \in User : v # u => bot'[v] = bot[v]
    BY <1>2, <1>9
  <2>4. \A v \in User : Keeping(v) => bot[v].cred \in Cred /\ Apart(bot[v].cred)
    BY DEF ChatInv, ChatTyped, BotHands
  <2>5. ChatTyped'
    BY <1>5, <1>9, <2>2, <2>3, <2>4 DEF ChatTyped, Keeping
  <2>6. \A v \in User : v # u /\ Keeping(v)' =>
          /\ Keeping(v) /\ Apart(bot[v].cred)' /\ bot[v].cred # issued'
    BY <1>7, <2>3, <2>4 DEF Keeping
  <2>7. BotHands'
    BY <1>8, <1>9, <2>3, <2>6 DEF ChatInv, BotHands, Keeping
  <2> QED
    BY <2>5, <2>7
<1>12. Wants' /\ LinksWanted
  BY <1>2, <1>9, <1>10 DEF Wants, LinksWanted, ChatInv, Idle
<1>13. LinesKept /\ NoneDeleted
  BY <1>1 DEF LinesKept, NoneDeleted, tables
<1> QED
  BY <1>6, <1>11, <1>12, <1>13 DEF ChatInv

(* What a step that leaves bookings, subscriptions and what was shown alone *)
(* keeps.                                                                   *)
LEMMA Untouched ==
  ASSUME Owned, Details, UNCHANGED <<bookings, subs, shown, pass>>
  PROVE  Owned' /\ Details' /\ LinesKept /\ NoneDeleted
BY DEF Owned, OwnershipIsEarned, Earned, Details, DetailOfThisCabin,
   RecoveredRoomIsOwn, LinesKept, NoneDeleted

LEMMA LinkUserStep ==
  ASSUME ChatInv, NEW u \in User, LinkUser(u)
  PROVE  ChatInv' /\ LinesKept /\ NoneDeleted /\ LinksWanted
<1>1. /\ UNCHANGED <<accounts, verdict, bookings, subs, pass, issued, runs, history,
                     dialog, wanted>>
      /\ status' = [status EXCEPT ![u] = "active"]
      /\ bot' = [bot EXCEPT ![u] = [bot[u] EXCEPT !.at = "account"]]
      /\ bot[u].at = "user"
  BY DEF LinkUser, Handles
<1>2. Typed' /\ CredInv' /\ OutcomeOfThisRow'
  BY <1>1 DEF ChatInv, TablesInv, Typed, TypeOK, Shapes, Shape, CredInv, Ledger, Hands,
     Pending, InHand, OutcomeOfThisRow, history
<1>3. Owned' /\ Details' /\ LinesKept /\ NoneDeleted
  BY <1>1, Untouched DEF ChatInv, TablesInv, history
<1>4. bot \in [User -> Handler] /\ bot[u] \in Handler
  BY DEF ChatInv, ChatTyped
<1>5. PICK q \in Handler : /\ bot' = [bot EXCEPT ![u] = q] /\ q.at = "account"
                          /\ q.cred = bot[u].cred
  <2> DEFINE q == [bot[u] EXCEPT !.at = "account"]
  <2>1. q \in Handler /\ q.at = "account" /\ q.cred = bot[u].cred
    BY <1>4 DEF Handler
  <2> QED
    BY <1>1, <2>1
<1>6. ChatTyped' /\ BotHands' /\ LinksWanted /\ Wants'
  <2>1. \A c : Apart(c) => Apart(c)'
    BY <1>1 DEF Apart, InHand, Pending, history
  <2> QED
    BY <1>1, <1>4, <1>5, <2>1 DEF ChatInv, ChatTyped, BotHands, Keeping, Wants,
       LinksWanted
<1> QED
  BY <1>2, <1>3, <1>6 DEF ChatInv, TablesInv

LEMMA LinkAccountStep ==
  ASSUME ChatInv, NEW u \in User, LinkAccount(u)
  PROVE  ChatInv' /\ LinesKept /\ NoneDeleted /\ LinksWanted
<1>1. /\ UNCHANGED <<status, bookings, subs, pass, issued, runs, history, dialog, wanted>>
      /\ accounts' = Upserted(u, bot[u].line, bot[u].cred)
      /\ verdict' = Cleared(u, bot[u].line)
      /\ bot[u].at = "account"
  BY DEF LinkAccount
<1>2. /\ TypeOK /\ Typed /\ Ledger /\ Hands /\ bot \in [User -> Handler]
      /\ bot[u] \in Handler /\ bot[u].line \in Line /\ bot[u].cred \in Cred
      /\ Apart(bot[u].cred) /\ InHand(bot[u].cred) /\ Keeping(u)
  BY <1>1 DEF ChatInv, ChatTyped, TablesInv, Typed, CredInv, BotHands, Keeping, Handler,
     Apart
<1>3. /\ accounts' \in SUBSET Account /\ verdict' \in [Cred -> Verdict]
  BY <1>1, <1>2, UpsertedTyped DEF TypeOK
<1>4. /\ Ledger'
      /\ \A c : InHand(c) /\ c # bot[u].cred => InHand(c)'
  BY <1>1, <1>2, Upserting DEF history
<1>5. \A c : Apart(c) /\ c # bot[u].cred => Apart(c)'
  BY <1>1, <1>4 DEF Apart, Pending
<1>6. TablesInv' /\ LinesKept /\ NoneDeleted
  <2>1. Typed'
    BY <1>1, <1>2, <1>3 DEF Typed, TypeOK, Shapes, Shape, history
  <2>2. Hands'
    BY <1>1, <1>2, <1>4 DEF Hands, Pending, Apart
  <2>3. Owned' /\ Details' /\ LinesKept /\ NoneDeleted
    BY <1>1, Untouched DEF ChatInv, TablesInv, history
  <2>4. OutcomeOfThisRow'
    BY <1>1, ClearedOrRecorded DEF ChatInv, TablesInv
  <2> QED
    BY <1>4, <2>1, <2>2, <2>3, <2>4 DEF TablesInv, CredInv
<1>7. PICK q \in Handler : bot' = [bot EXCEPT ![u] = q] /\ q.at = "stored"
  <2> DEFINE todo == {a \in Upserted(u, bot[u].line, bot[u].cred) :
                        a.user = u /\ a.line = bot[u].line}
             q == [bot[u] EXCEPT !.at = "stored", !.todo = todo]
  <2>1. todo \in SUBSET Account
    BY <1>1, <1>3
  <2>2. bot' = [bot EXCEPT ![u] = q]
    BY DEF LinkAccount, Handles
  <2> HIDE DEF todo
  <2>3. q \in Handler /\ q.at = "stored"
    BY <1>2, <2>1 DEF Handler
  <2> QED
    BY <2>2, <2>3
<1>8. ChatTyped' /\ BotHands' /\ LinksWanted /\ Wants'
  <2>1. \A v \in User : v # u => bot'[v] = bot[v]
    BY <1>2, <1>7
  <2>2. bot'[u].at = "stored" /\ bot' \in [User -> Handler]
    BY <1>2, <1>7
  <2>3. \A v \in User : Keeping(v)' => /\ v # u /\ Keeping(v) /\ bot'[v] = bot[v]
                                      /\ Apart(bot[v].cred) /\ bot[v].cred # bot[u].cred
    BY <1>2, <2>1, <2>2 DEF ChatInv, BotHands, Keeping
  <2>4. BotHands'
    BY <1>5, <2>3 DEF ChatInv, BotHands
  <2> QED
    BY <1>1, <2>1, <2>2, <2>3, <2>4 DEF ChatInv, ChatTyped, Wants, LinksWanted
<1> QED
  BY <1>6, <1>8 DEF ChatInv

LEMMA TestLoginStep ==
  ASSUME ChatInv, NEW u \in User, TestLogin(u)
  PROVE  ChatInv' /\ LinesKept /\ NoneDeleted /\ LinksWanted
<1>1. PICK a \in bot[u].todo : \E outcome \in {"ok", "failed"} :
        /\ verdict' \in {Recorded(a, outcome), verdict}
        /\ \E rest \in {bot[u].todo \ {a}, {}} :
             Handles(u, IF rest = {} THEN Ready ELSE [bot[u] EXCEPT !.todo = rest])
  BY DEF TestLogin
<1>2. PICK outcome \in {"ok", "failed"} :
        /\ verdict' \in {Recorded(a, outcome), verdict}
        /\ \E rest \in {bot[u].todo \ {a}, {}} :
             Handles(u, IF rest = {} THEN Ready ELSE [bot[u] EXCEPT !.todo = rest])
  BY <1>1
<1>3. /\ UNCHANGED <<status, accounts, bookings, subs, pass, issued, runs, history, dialog,
                     wanted>>
      /\ bot[u].at = "test"
  BY DEF TestLogin
<1>4. bot \in [User -> Handler] /\ bot[u] \in Handler /\ a \in Account
  BY DEF ChatInv, ChatTyped, Handler
<1>5. PICK q \in Handler : bot' = [bot EXCEPT ![u] = q] /\ q.at \in {"free", "test"}
  <2>1. PICK rest \in {bot[u].todo \ {a}, {}} :
          Handles(u, IF rest = {} THEN Ready ELSE [bot[u] EXCEPT !.todo = rest])
    BY <1>2
  <2>2. CASE rest = {}
    <3>1. Ready \in Handler /\ Ready.at = "free"
      BY DiscoveryAssumption DEF Ready, Handler, Line
    <3> QED
      BY <2>1, <2>2, <3>1 DEF Handles
  <2>3. CASE rest # {}
    <3> DEFINE q == [bot[u] EXCEPT !.todo = rest]
    <3>1. rest \in SUBSET Account
      BY <1>4 DEF Handler
    <3>2. q \in Handler /\ q.at = "test"
      BY <1>3, <1>4, <3>1 DEF Handler
    <3> QED
      BY <2>1, <2>3, <3>2 DEF Handles
  <2> QED
    BY <2>2, <2>3
<1>6. TablesInv' /\ LinesKept /\ NoneDeleted
  <2>1. verdict' \in [Cred -> Verdict]
    BY <1>2, <1>4, RecordedTyped DEF ChatInv, TablesInv, Typed, TypeOK
  <2>2. OutcomeOfThisRow'
    BY <1>2, ClearedOrRecorded DEF ChatInv, TablesInv
  <2>3. Typed' /\ CredInv'
    BY <1>3, <2>1 DEF ChatInv, TablesInv, Typed, TypeOK, Shapes, Shape, CredInv, Ledger,
       Hands, Pending, InHand, history
  <2>4. Owned' /\ Details' /\ LinesKept /\ NoneDeleted
    BY <1>3, Untouched DEF ChatInv, TablesInv, history
  <2> QED
    BY <2>2, <2>3, <2>4 DEF TablesInv
<1>7. \A c : Apart(c) => Apart(c)'
  BY <1>3 DEF Apart, InHand, Pending, history
<1>8. ChatTyped' /\ BotHands' /\ LinksWanted /\ Wants'
  BY <1>3, <1>4, <1>5, <1>7 DEF ChatInv, ChatTyped, BotHands, Keeping, Wants, LinksWanted
<1> QED
  BY <1>6, <1>8 DEF ChatInv

LEMMA RestartStep ==
  ASSUME ChatInv, Restart
  PROVE  ChatInv' /\ LinesKept /\ NoneDeleted /\ LinksWanted
<1>1. /\ UNCHANGED <<tables, issued, runs, history>>
      /\ \A w \in Worker : pass'[w] \in {NoPass, pass[w]}
      /\ pass' \in [Worker -> PassState]
  BY NoPassShape DEF Restart, Shape, ChatInv, TablesInv, Typed, TypeOK
<1>2. NoPass.at = "free" /\ NoPass.found = {} /\ NoPass.todo = {}
  BY DEF NoPass
<1>3. Typed'
  <2>1. Shapes'
    BY <1>1, NoPassShape DEF Shapes, ChatInv, TablesInv, Typed
  <2> QED
    BY <1>1, <2>1 DEF ChatInv, TablesInv, Typed, TypeOK, tables, history
<1>4. CredInv' /\ OutcomeOfThisRow' /\ Details' /\ LinesKept
  BY <1>1, <1>2 DEF ChatInv, TablesInv, CredInv, Ledger, Hands, Pending, InHand,
     OutcomeOfThisRow, Details, DetailOfThisCabin, RecoveredRoomIsOwn, LinesKept,
     tables, history
<1>5. Owned' /\ NoneDeleted
  BY <1>1, <1>2 DEF ChatInv, TablesInv, Owned, OwnershipIsEarned, Earned, Stored1,
     NoneDeleted, tables, history
<1>6. /\ dialog' = [u \in User |-> Idle] /\ bot' = [u \in User |-> Ready]
      /\ wanted' = {}
  BY DEF Restart
<1>7. Idle \in Dialogue /\ Idle.at = "idle" /\ Ready \in Handler /\ Ready.at = "free"
  BY DiscoveryAssumption DEF Idle, Dialogue, Ready, Handler, Line
<1> QED
  BY <1>3, <1>4, <1>5, <1>6, <1>7 DEF ChatInv, TablesInv, ChatTyped, BotHands, Keeping,
     Wants, LinksWanted

LEMMA ChatStepHolds ==
  ASSUME ChatInv, [ChatNext]_chatVars
  PROVE  ChatInv' /\ LinesKept /\ NoneDeleted /\ LinksWanted
<1>1. CASE UNCHANGED chatVars
  <2>1. TablesInv' /\ LinesKept /\ NoneDeleted
    BY <1>1, TablesStutter DEF ChatInv, chatVars
  <2> QED
    BY <1>1, <2>1 DEF ChatInv, ChatTyped, BotHands, Keeping, Apart, InHand, Pending,
       Wants, LinksWanted, chatVars, chat, vars, tables, history
<1> QED
  BY <1>1, ChatKinds, OnTablesStep, OnChatStep, TypePasswordStep, LinkUserStep,
     LinkAccountStep, TestLoginStep, RestartStep

LEMMA ChatInductive == ChatSpec => []ChatInv
<1>1. ChatInit => ChatInv
  BY ChatInitHolds
<1>2. ChatInv /\ [ChatNext]_chatVars => ChatInv'
  BY ChatStepHolds
<1> QED
  BY <1>1, <1>2, PTL DEF ChatSpec

(* Tables, passes, dialogues and handlers are always ones the code can      *)
(* represent, with the bot beside the web requests and the scraper.         *)
THEOREM ChatTypes == ChatSpec => []ChatTypeOK
<1>1. ChatInv => ChatTypeOK
  BY DEF ChatInv, TablesInv, Typed, ChatTyped, ChatTypeOK
<1> QED
  BY ChatInductive, <1>1, PTL

(* The deck and category stored with a cabin are that cabin's, over any     *)
(* sequence of partial refreshes (upsert_booking's CASE expressions).       *)
THEOREM DetailsFollowTheCabin == ChatSpec => []DetailOfThisCabin
<1>1. ChatInv => DetailOfThisCabin
  BY DEF ChatInv, TablesInv, Details
<1> QED
  BY ChatInductive, <1>1, PTL

(* The room stored for a guarantee booking is one its own passengers have   *)
(* in one of its orders (collect_own_rooms).                                *)
THEOREM RecoveredRoomsAreOwn == ChatSpec => []RecoveredRoomIsOwn
<1>1. ChatInv => RecoveredRoomIsOwn
  BY DEF ChatInv, TablesInv, Details
<1> QED
  BY ChatInductive, <1>1, PTL

(* A login's outcome is recorded on the row whose credentials were tried,   *)
(* whatever removes, relinks and tests accounts meanwhile.                  *)
THEOREM OutcomesStayWithTheirRow == ChatSpec => []OutcomeOfThisRow
<1>1. ChatInv => OutcomeOfThisRow
  BY DEF ChatInv, TablesInv
<1> QED
  BY ChatInductive, <1>1, PTL

(* A stored booking never changes its cruise line (upsert_booking's WHERE). *)
THEOREM LinesAreKept == ChatSpec => KeepsItsLine
<1>1. ChatInv /\ [ChatNext]_chatVars =>
        [\A r \in Reservation :
           bookings[r] # None => /\ bookings'[r] # None
                                 /\ bookings'[r].line = bookings[r].line]_vars
  BY ChatStepHolds DEF LinesKept
<1> QED
  BY ChatInductive, <1>1, PTL DEF ChatSpec, KeepsItsLine

(* No pass that begins after a removal or an /unregister logs in with the   *)
(* credentials deleted then (remove_cruise_account, deactivate_user).       *)
THEOREM DeletedLoginsStayDeleted == ChatSpec => NoDeletedLogin
<1>1. ChatInv /\ [ChatNext]_chatVars =>
        [\A w \in Worker :
           \A a \in pass'[w].todo \ pass[w].todo : a.cred \notin dead]_vars
  BY ChatStepHolds DEF NoneDeleted
<1> QED
  BY ChatInductive, <1>1, PTL DEF ChatSpec, NoDeletedLogin

(* The bot stores a login only at the end of a dialogue begun by /register  *)
(* and neither cancelled nor lost (on_callback, on_message).                *)
THEOREM LinkingIsWanted == ChatSpec => LinksOnlyAfterRegister
<1>1. ChatInv /\ [ChatNext]_chatVars =>
        [\A u \in User :
           bot[u].at = "free" /\ bot'[u].at = "user" => u \in wanted]_chatVars
  BY ChatStepHolds DEF LinksWanted
<1> QED
  BY ChatInductive, <1>1, PTL DEF ChatSpec, LinksOnlyAfterRegister

(* The bot's steps and its restart leave the scraper's pass, the bookings   *)
(* and who was told of what alone.                                          *)
LEMMA ChatNewsStep ==
  ASSUME ChatInv, NewsInv, Tries, [ChatNext]_chatVars
  PROVE  NewsInv' /\ Tries'
<1>1. Typed /\ TablesInv /\ pass \in [Worker -> PassState]
  BY DEF ChatInv, TablesInv, Typed, TypeOK
<1>2. CASE OnTables
  BY <1>1, <1>2, NewsStep, TriesStep DEF OnTables
<1>3. ASSUME UNCHANGED <<bookings, history>>, pass'[Scraper] = pass[Scraper],
             \A q \in Request : pass'[q] \in {NoPass, pass[q]}
      PROVE  NewsInv' /\ Tries'
  <2>1. \A q \in Request : Quiet(pass'[q])
    BY <1>3 DEF NewsInv, Quiet, NoPass
  <2> QED
    BY <1>3, <2>1 DEF NewsInv, ToldHasRoom, Orderly, Fresh, NoneTold, Announced,
       AssignedToldOnce, Tries, history
<1>4. CASE UNCHANGED <<bookings, pass, history>>
  BY <1>3, <1>4
<1>5. CASE UNCHANGED chatVars
  BY <1>4, <1>5 DEF chatVars, vars, tables
<1>6. ASSUME NEW u \in User, OnChat(u) PROVE UNCHANGED <<bookings, pass, history>>
  BY <1>6 DEF OnChat, SendRegister, SendCancel, SendTest, PressLine, TypeLogin,
     LinkFails, LinkStored, vars, tables
<1>7. ASSUME NEW u \in User,
             TypePassword(u) \/ LinkUser(u) \/ LinkAccount(u) \/ TestLogin(u)
      PROVE  UNCHANGED <<bookings, pass, history>>
  BY <1>7 DEF TypePassword, LinkUser, LinkAccount, TestLogin, tables
<1>8. CASE Restart
  <2>1. Scraper \in Worker /\ Scraper \notin Request /\ Request \subseteq Worker
    BY DiscoveryAssumption DEF Worker
  <2> QED
    BY <1>3, <1>8, <2>1 DEF Restart, tables
<1> QED
  BY <1>2, <1>4, <1>5, <1>6, <1>7, <1>8, ChatKinds

(* What discovery promises about subscriptions, runs and news, it keeps     *)
(* with the bot beside it: linking, testing, removing, a pod that restarts. *)
THEOREM ChatKeepsThePromises ==
  ChatSpec => [](OwnershipIsEarned /\ EveryAccountIsTried /\ AssignedToldOnce)
<1>1. ChatInit => ChatInv /\ NewsInv /\ Tries
  BY ChatInitHolds, NewsInit, InitHolds DEF ChatInit
<1>2. ChatInv /\ NewsInv /\ Tries /\ [ChatNext]_chatVars
        => (ChatInv /\ NewsInv /\ Tries)'
  BY ChatStepHolds, ChatNewsStep
<1>3. ChatInv /\ NewsInv /\ Tries
        => OwnershipIsEarned /\ EveryAccountIsTried /\ AssignedToldOnce
  <2>1. TablesInv /\ Tries => EveryAccountIsTried
    BY DEF TablesInv, Typed, Shapes, Shape, Worker, Tries, EveryAccountIsTried
  <2> QED
    BY <2>1 DEF ChatInv, TablesInv, Owned, NewsInv
<1> QED
  BY <1>1, <1>2, <1>3, PTL DEF ChatSpec
=============================================================================
