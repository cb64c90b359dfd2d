------------------------ MODULE PrincessGatewayProofs ------------------------
(***************************************************************************)
(* Proofs about PrincessGateway, for any number of requests and any        *)
(* intervals, lives and back-offs: who fetches holds the lock of what it   *)
(* fetches, who has passed the limiter passed it alone, and the caches'    *)
(* own clocks agree with the rests their fetches owe.                      *)
(***************************************************************************)
EXTENDS PrincessGateway, TLAPS

(* The parts of the inductive invariant.  A task asleep in the limiter      *)
(* holds it, and sleeps at least as long as the interval lasts.             *)
Sleeps ==
  \A t \in Task : task[t].at \in {"paced", "mintPaced"} =>
    limiter = t /\ gap <= task[t].due

(* Who fetches holds the lock; who is about to peek again, too.             *)
HoldsRefresh ==
  \A t \in Task :
    \/ Fetching(t, "schedule")
    \/ task[t].at = "locked"
    => refresh = t
Waits ==
  \A t \in Task :
    task[t].at \in {"peeked", "waiting", "locked"} => task[t].what = "schedule"
HoldsSlot ==
  \A t \in Task : Fetching(t, "extras") => slot[task[t].currency] = t

(* A token rejected is not held on to.                                      *)
Relinquished ==
  \A t \in Task :
    task[t].at \in {"token", "slot"} /\ task[t].reauthed => t \notin holders

(* The rests still owed are those the caches count.                         *)
OwesSchedule == restSchedule \in {0, fresh, blocked}
OwesExtras ==
  \A c \in Currency : /\ restExtras[c] = extras[c].left
                      /\ extras[c].is = "absent" => extras[c].left = 0

(* A failure never takes the schedule away, and an answer for want of one   *)
(* is given only when there was none; who waits at a slot asks for products.*)
Serves ==
  /\ everCached = cached
  /\ NeverRefusedAgain
  /\ \A t \in Task : task[t].at = "slot" => task[t].what = "excursions"

(* A retry is left only while there are some.                               *)
MayRetry == \A t \in Task : task[t].at = "backoff" => task[t].attempt < MaxRetries
-----------------------------------------------------------------------------
(* Types.                                                                   *)

TypeInv == TypeOK /\ MayRetry

LEMMA BecomeTyped ==
  ASSUME NEW t \in Task, NEW state \in Handler, task \in [Task -> Handler],
         Become(t, state)
  PROVE  /\ task' \in [Task -> Handler]
         /\ task'[t] = state
         /\ \A u \in Task : u # t => task'[u] = task[u]
BY DEF Become

LEMMA Zeros == 0 \in 0..Pages /\ 0 \in 0..MaxRetries /\ 0 \in 0..MinInterval
BY GatewayAssumption

LEMMA AnsweredTyped ==
  ASSUME TypeOK, NEW t \in Task, NEW ok \in BOOLEAN
  PROVE  /\ Answered(t, ok) \in Handler
         /\ Answered(t, ok).at = "idle"
         /\ Answered(t, ok).what = "schedule"
         /\ ~ Answered(t, ok).reauthed
<1>1. task[t].currency \in Currency
  BY DEF TypeOK, Handler
<1>3. (~ ok /\ task[t].what = "schedule" /\ everCached) \in BOOLEAN
  OBVIOUS
<1> QED
  BY <1>1, <1>3, Zeros DEF Answered, Handler, Stage, What

(* Only t's handler changes, and becomes what Q says of it.                 *)
Others(t) ==
  /\ task' \in [Task -> Handler]
  /\ \A u \in Task : u # t => task'[u] = task[u]

(* The end of a fetch, for what it fetched.                                 *)
LEMMA FetchedFacts ==
  ASSUME TypeInv, NEW t \in Task, NEW ok \in BOOLEAN, Fetched(t, ok)
  PROVE  /\ Others(t)
         /\ task'[t].at \in {"idle", "slot"} /\ ~ task'[t].reauthed
         /\ CASE task[t].what = "schedule" -> ScheduleFetched(t, ok)
              [] task[t].what = "excursions" -> FetchGoesOn
              [] task[t].what = "extras" -> ExtrasFetched(t, ok)
<1>1. task[t] \in Handler /\ task \in [Task -> Handler]
  BY DEF TypeInv, TypeOK
<1>2. CASE task[t].what = "schedule"
  <2>1. ScheduleFetched(t, ok)
    BY <1>2 DEF Fetched
  <2>2. (ok \/ cached) \in BOOLEAN
    OBVIOUS
  <2> QED
    BY <1>1, <1>2, <2>1, <2>2, AnsweredTyped, BecomeTyped
       DEF ScheduleFetched, Answer, Others, TypeInv
<1>3. CASE task[t].what = "excursions"
  <2>1. ExcursionsFetched(t, ok)
    BY <1>3 DEF Fetched
  <2> DEFINE s == [task[t] EXCEPT !.at = "slot", !.half = ok, !.calls = 0,
                                  !.reauthed = FALSE, !.attempt = 0]
  <2>2. s \in Handler /\ s.at = "slot" /\ ~ s.reauthed
    BY <1>1, Zeros DEF Handler, Stage
  <2>3. Become(t, s) /\ FetchGoesOn
    BY <2>1 DEF ExcursionsFetched, FetchGoesOn
  <2> HIDE DEF s
  <2> QED
    BY <1>1, <1>3, <2>2, <2>3, BecomeTyped DEF Others
<1>4. CASE task[t].what = "extras"
  <2>1. ExtrasFetched(t, ok)
    BY <1>4 DEF Fetched
  <2>2. (ok \/ task[t].half) \in BOOLEAN
    OBVIOUS
  <2> QED
    BY <1>1, <1>4, <2>1, <2>2, AnsweredTyped, BecomeTyped
       DEF ExtrasFetched, Answer, Others, TypeInv
<1> QED
  BY <1>1, <1>2, <1>3, <1>4 DEF Handler, What

(* An answer is the end of the fetch or of one call of it.                  *)
GoesOn(t) ==
  /\ Others(t)
  /\ task'[t].at \in {"backoff", "drop", "token"}
  /\ task'[t].what = task[t].what /\ task'[t].currency = task[t].currency
  /\ task'[t].at = "backoff" => task'[t].attempt < MaxRetries
  /\ task'[t].at = "token" => ~ task'[t].reauthed
  /\ FetchGoesOn

AnswerTo(t) == MintFails(t) \/ CallFails(t) \/ CallSucceeds(t) \/ Unauthorized(t)

LEMMA RetryOrFailFacts ==
  ASSUME TypeInv, NEW t \in Task, RetryOrFail(t)
  PROVE  GoesOn(t) \/ Fetched(t, FALSE)
<1>1. task[t] \in Handler /\ task \in [Task -> Handler]
  BY DEF TypeInv, TypeOK
<1>2. CASE task[t].attempt < MaxRetries
  <2> DEFINE s == [task[t] EXCEPT !.at = "backoff"]
  <2>1. /\ s \in Handler /\ s.at = "backoff" /\ s.attempt = task[t].attempt
        /\ s.what = task[t].what /\ s.currency = task[t].currency
    BY <1>1 DEF Handler, Stage
  <2>2. Become(t, s) /\ FetchGoesOn
    BY <1>2 DEF RetryOrFail, At
  <2> HIDE DEF s
  <2> QED
    BY <1>1, <1>2, <2>1, <2>2, BecomeTyped DEF GoesOn, Others
<1> QED
  BY <1>2 DEF RetryOrFail

LEMMA AnswerFacts ==
  ASSUME TypeInv, NEW t \in Task, AnswerTo(t)
  PROVE  /\ task[t].at \in {"sent", "mintSent"}
         /\ UNCHANGED <<token, gap, limiter>>
         /\ tokenLock' \in {tokenLock, None}
         /\ granted' = granted \ {t} /\ holders' \subseteq holders
         /\ GoesOn(t) \/ \E ok \in BOOLEAN : Fetched(t, ok)
<1>1. task[t] \in Handler /\ task \in [Task -> Handler]
  BY DEF TypeInv, TypeOK
<1>2. CASE MintFails(t)
  BY <1>2, RetryOrFailFacts DEF MintFails
<1>3. CASE CallFails(t)
  BY <1>3, RetryOrFailFacts DEF CallFails, client
<1>4. CASE CallSucceeds(t)
  <2>1. CASE task[t].calls > 1
    <3> DEFINE s == [task[t] EXCEPT !.at = "token", !.calls = @ - 1,
                                    !.reauthed = FALSE, !.attempt = 0]
    <3>1. task[t].calls - 1 \in 0..Pages
      BY <1>1, <2>1, GatewayAssumption DEF Handler
    <3>2. /\ s \in Handler /\ s.at = "token" /\ ~ s.reauthed
          /\ s.what = task[t].what /\ s.currency = task[t].currency
      BY <1>1, <3>1, Zeros DEF Handler, Stage
    <3>3. Become(t, s) /\ FetchGoesOn
      BY <1>4, <2>1 DEF CallSucceeds
    <3> HIDE DEF s
    <3>4. GoesOn(t)
      BY <1>1, <3>2, <3>3, BecomeTyped DEF GoesOn, Others
    <3> QED
      BY <1>4, <3>4 DEF CallSucceeds, client
  <2> QED
    BY <1>4, <2>1 DEF CallSucceeds, client
<1>5. CASE Unauthorized(t)
  <2>1. CASE ~ task[t].reauthed
    <3> DEFINE s == [task[t] EXCEPT !.at = "drop", !.reauthed = TRUE]
    <3>1. /\ s \in Handler /\ s.at = "drop"
          /\ s.what = task[t].what /\ s.currency = task[t].currency
      BY <1>1 DEF Handler, Stage
    <3>3. Become(t, s) /\ FetchGoesOn
      BY <1>5, <2>1 DEF Unauthorized
    <3> HIDE DEF s
    <3>2. GoesOn(t)
      BY <1>1, <3>1, <3>3, BecomeTyped DEF GoesOn, Others
    <3> QED
      BY <1>5, <2>1, <3>2 DEF Unauthorized, client
  <2> QED
    BY <1>5, <2>1 DEF Unauthorized, client
<1> QED
  BY <1>2, <1>3, <1>4, <1>5 DEF AnswerTo

(* A request comes.                                                         *)
LEMMA AskFacts ==
  ASSUME TypeInv, NEW t \in Task,
         AskSchedule(t) \/ \E c \in Currency : AskProducts(t, c)
  PROVE  /\ Others(t)
         /\ ~ task'[t].reauthed
         /\ \/ task'[t].at \in {"idle", "peeked"} /\ task'[t].what = "schedule"
            \/ task'[t].at = "token" /\ task'[t].what = "excursions"
         /\ UNCHANGED <<client, schedule, extrasCache, rests, granted, holders>>
<1>1. task \in [Task -> Handler]
  BY DEF TypeInv, TypeOK
<1>2. CASE AskSchedule(t) /\ Peek = "refresh"
  <2> DEFINE s == [[Answered(t, TRUE) EXCEPT !.what = "schedule"]
                     EXCEPT !.at = "peeked", !.half = cached]
  <2>1. s \in Handler /\ s.at = "peeked" /\ s.what = "schedule" /\ ~ s.reauthed
    <3>1. Answered(t, TRUE) \in Handler /\ ~ Answered(t, TRUE).reauthed
      BY AnsweredTyped DEF TypeInv
    <3>2. cached \in BOOLEAN
      BY DEF TypeInv, TypeOK
    <3> QED
      BY <3>1, <3>2 DEF Handler, Stage, What
  <2>2. Become(t, s)
    BY <1>2 DEF AskSchedule
  <2> HIDE DEF s
  <2> QED
    BY <1>1, <1>2, <2>1, <2>2, BecomeTyped DEF AskSchedule, Others
<1>3. CASE AskSchedule(t) /\ Peek # "refresh"
  <2>1. Become(t, Answered(t, cached)) /\ cached \in BOOLEAN
    BY <1>3 DEF AskSchedule, Answer, TypeInv, TypeOK
  <2> QED
    BY <1>1, <1>3, <2>1, AnsweredTyped, BecomeTyped DEF AskSchedule, Others, TypeInv
<1>4. ASSUME NEW c \in Currency, AskProducts(t, c)
      PROVE  Others(t) /\ ~ task'[t].reauthed
             /\ task'[t].at = "token" /\ task'[t].what = "excursions"
  <2> DEFINE s == [Answered(t, TRUE) EXCEPT !.at = "token", !.calls = 1,
                                            !.what = "excursions", !.currency = c]
  <2>1. s \in Handler /\ s.at = "token" /\ s.what = "excursions" /\ ~ s.reauthed
    <3>1. 1 \in 0..Pages
      BY GatewayAssumption
    <3> QED
      BY <3>1, AnsweredTyped DEF Handler, Stage, What, TypeInv
  <2>2. Become(t, s)
    BY <1>4 DEF AskProducts
  <2> HIDE DEF s
  <2> QED
    BY <1>1, <2>1, <2>2, BecomeTyped DEF Others
<1> QED
  BY <1>2, <1>3, <1>4 DEF AskProducts, AskSchedule

(* products_shared, at its slot.                                            *)
LEMMA AskExtrasFacts ==
  ASSUME TypeInv, NEW t \in Task, AskExtras(t)
  PROVE  /\ Others(t)
         /\ task[t].at = "slot" /\ slot[task[t].currency] = None
         /\ \/ task'[t].at = "idle" /\ UNCHANGED slot
            \/ /\ task'[t].at = "token" /\ task'[t].what = "extras"
               /\ task'[t].currency = task[t].currency
               /\ task'[t].reauthed = task[t].reauthed
               /\ slot' = [slot EXCEPT ![task[t].currency] = t]
               /\ ExtrasStep(extras[task[t].currency]) = "fetch"
         /\ UNCHANGED <<client, schedule, extras, rests, granted, holders>>
<1> DEFINE step == ExtrasStep(extras[task[t].currency])
<1>1. task[t] \in Handler /\ task \in [Task -> Handler]
  BY DEF TypeInv, TypeOK
<1>2. CASE step = "fetch"
  <2> DEFINE s == [task[t] EXCEPT !.at = "token", !.what = "extras", !.calls = Pages]
  <2>1. /\ s \in Handler /\ s.at = "token" /\ s.what = "extras"
        /\ s.currency = task[t].currency /\ s.reauthed = task[t].reauthed
    <3>1. Pages \in 0..Pages
      BY GatewayAssumption
    <3> QED
      BY <1>1, <3>1 DEF Handler, Stage, What
  <2>2. Become(t, s)
    BY <1>2 DEF AskExtras
  <2> HIDE DEF s
  <2> QED
    BY <1>1, <1>2, <2>1, <2>2, BecomeTyped DEF AskExtras, Others
<1>3. CASE step # "fetch"
  <2>1. (step = "use" \/ task[t].half) \in BOOLEAN
    OBVIOUS
  <2>2. Become(t, Answered(t, step = "use" \/ task[t].half)) /\ UNCHANGED slot
    BY <1>3 DEF AskExtras, Answer
  <2> QED
    BY <1>1, <2>1, <2>2, AnsweredTyped, BecomeTyped DEF AskExtras, Others, TypeInv
<1> QED
  BY <1>2, <1>3
-----------------------------------------------------------------------------
(* TypeOK, with the bound of the retries.                                   *)

LEMMA LessTyped ==
  ASSUME NEW b \in Nat, NEW n \in 0..b
  PROVE  Less(n) \in 0..b /\ Less(n) <= n
BY DEF Less

LEMMA TypeStep == ASSUME TypeInv, [Next]_vars PROVE TypeInv'
<1>1. task \in [Task -> Handler] /\ TypeOK /\ MayRetry
  BY DEF TypeInv, TypeOK
<1>2. ASSUME NEW t \in Task, AskSchedule(t) \/ \E c \in Currency : AskProducts(t, c)
      PROVE  TypeInv'
  BY <1>1, <1>2, AskFacts
     DEF TypeInv, TypeOK, MayRetry, Others, client, schedule, extrasCache, rests
<1>3. ASSUME NEW t \in Task, Locks(t) PROVE TypeInv'
  <2>1. task[t] \in Handler
    BY <1>1
  <2>2. CASE Enter(t)
    BY <1>1, <2>1, <2>2 DEF Enter, Become, TypeInv, TypeOK, MayRetry, Handler, Stage,
       Holding, schedule, extrasCache, rests
  <2>3. CASE TakeToken(t)
    BY <1>1, <2>1, <2>3 DEF TakeToken, At, Become, TypeInv, TypeOK, MayRetry, Handler,
       Stage, client, schedule, extrasCache, rests
  <2>4. CASE BeginMint(t)
    BY <1>1, <2>1, <2>4 DEF BeginMint, At, Become, TypeInv, TypeOK, MayRetry, Handler,
       Stage, Holding, schedule, extrasCache, rests
  <2>5. CASE DropToken(t)
    BY <1>1, <2>1, <2>5, GatewayAssumption DEF DropToken, At, Become, TypeInv, TypeOK,
       MayRetry, Handler, Stage, schedule, extrasCache, rests
  <2>6. CASE WaitRefresh(t)
    BY <1>1, <2>1, <2>6 DEF WaitRefresh, At, Become, TypeInv, TypeOK, MayRetry,
       Handler, Stage, client, extrasCache, rests
  <2>7. CASE AskExtras(t)
    <3>1. task[t].currency \in Currency
      BY <2>1 DEF Handler
    <3> QED
      BY <1>1, <2>7, <3>1, AskExtrasFacts DEF TypeInv, TypeOK, MayRetry, Others,
         client, schedule, rests
  <2> QED
    BY <1>3, <2>2, <2>3, <2>4, <2>5, <2>6, <2>7 DEF Locks
<1>4. ASSUME NEW t \in Task, Runs(t) PROVE TypeInv'
  <2>1. task[t] \in Handler
    BY <1>1
  <2>2. CASE Pass(t)
    BY <1>1, <2>1, <2>2, GatewayAssumption DEF Pass, At, Become, TypeInv, TypeOK,
       MayRetry, Handler, Stage, Holding, schedule, extrasCache, rests
  <2>3. CASE Minted(t)
    BY <1>1, <2>1, <2>3, GatewayAssumption DEF Minted, At, Become, TypeInv, TypeOK,
       MayRetry, Handler, Stage, Holding, schedule, extrasCache, rests
  <2>4. CASE Retry(t)
    <3>1. task[t].attempt + 1 \in 0..MaxRetries
      BY <1>1, <2>1, <2>4, GatewayAssumption DEF Retry, MayRetry, Handler
    <3> QED
      BY <1>1, <2>1, <2>4, <3>1 DEF Retry, Become, TypeInv, TypeOK, MayRetry, Handler,
         Stage, client, schedule, extrasCache, rests
  <2>5. CASE TryRefresh(t) \/ PeekAgain(t)
    <3>1. /\ Others(t) /\ task'[t].at \in {"locked", "pace", "waiting", "idle"}
          /\ refresh' \in Task \cup {None}
      <4>1. CASE \E ok \in BOOLEAN : Answer(t, ok)
        BY <1>1, <2>5, <4>1, AnsweredTyped, BecomeTyped
           DEF TryRefresh, PeekAgain, Answer, Others, TypeOK
      <4>2. CASE \E at \in {"locked", "waiting", "pace"} : At(t, at)
        <5>1. PICK at \in {"locked", "waiting", "pace"} : At(t, at)
          BY <4>2
        <5>2. [task[t] EXCEPT !.at = at] \in Handler
          BY <2>1 DEF Handler, Stage
        <5>3. Others(t) /\ task'[t].at = at
          BY <1>1, <2>1, <5>1, <5>2 DEF At, Become, Others, Handler
        <5>4. refresh' \in Task \cup {None}
          BY <1>1, <2>5 DEF TryRefresh, PeekAgain, TypeOK
        <5> QED
          BY <5>1, <5>3, <5>4
      <4> QED
        BY <1>1, <2>5, <4>1, <4>2 DEF TryRefresh, PeekAgain, TypeOK
    <3> QED
      BY <1>1, <2>5, <3>1 DEF TryRefresh, PeekAgain, TypeInv, TypeOK, MayRetry, Others,
         client, extrasCache, rests
  <2>6. CASE AnswerTo(t)
    <3>1. /\ UNCHANGED <<token, gap, limiter>> /\ tokenLock' \in {tokenLock, None}
          /\ granted' \in SUBSET Task /\ holders' \in SUBSET Task
      BY <1>1, <2>6, AnswerFacts DEF TypeOK
    <3>2. CASE GoesOn(t)
      BY <1>1, <3>1, <3>2 DEF GoesOn, Others, FetchGoesOn, TypeInv, TypeOK, MayRetry,
         schedule, extrasCache, rests
    <3>3. ASSUME NEW ok \in BOOLEAN, Fetched(t, ok) PROVE TypeInv'
      <4>1. Others(t) /\ MayRetry'
        BY <1>1, <3>3, FetchedFacts DEF Others, MayRetry
      <4>2. CASE task[t].what = "schedule"
        <5>1. ScheduleFetched(t, ok)
          BY <3>3, <4>2, FetchedFacts
        <5>2. /\ cached' \in BOOLEAN /\ everCached' \in BOOLEAN
              /\ fresh' \in 0..ScheduleTtl /\ blocked' \in 0..ScheduleRetry
              /\ restSchedule' \in 0..ScheduleTtl \cup 0..ScheduleRetry
          BY <1>1, <5>1, GatewayAssumption DEF ScheduleFetched, TypeOK
        <5> QED
          BY <1>1, <3>1, <4>1, <5>1, <5>2
             DEF Others, ScheduleFetched, TypeInv, TypeOK, extrasCache
      <4>3. CASE task[t].what = "excursions"
        BY <1>1, <3>1, <3>3, <4>1, <4>3, FetchedFacts
           DEF Others, FetchGoesOn, TypeInv, TypeOK, schedule, extrasCache, rests
      <4>4. CASE task[t].what = "extras"
        <5>1. ExtrasFetched(t, ok) /\ task[t].currency \in Currency
          BY <2>1, <3>3, <4>4, FetchedFacts DEF Handler
        <5>2. /\ extras' \in [Currency -> ExtrasEntry]
              /\ restExtras' \in [Currency -> 0..ExtrasTtl \cup 0..ExtrasRetry]
              /\ slot' \in [Currency -> Task \cup {None}]
          BY <1>1, <5>1, GatewayAssumption DEF ExtrasFetched, ExtrasEntry, TypeOK
        <5> QED
          BY <1>1, <3>1, <4>1, <5>1, <5>2
             DEF Others, ExtrasFetched, TypeInv, TypeOK, schedule
      <4> QED
        BY <2>1, <4>2, <4>3, <4>4 DEF Handler, What
    <3> QED
      BY <2>6, <3>2, <3>3, AnswerFacts
  <2> QED
    BY <1>4, <2>2, <2>3, <2>4, <2>5, <2>6 DEF Runs, AnswerTo
<1>5. ASSUME NEW t \in Task, Cancel(t) PROVE TypeInv'
  <2>1. Others(t) /\ task'[t].at = "idle"
    BY <1>1, <1>5, AnsweredTyped, BecomeTyped DEF Cancel, Answer, Others
  <2> QED
    <3>1. /\ {tokenLock, limiter, refresh}' \subseteq Task \cup {None}
          /\ slot' \in [Currency -> Task \cup {None}]
      BY <1>1, <1>5 DEF Cancel, Released, TypeOK
    <3>2. MayRetry'
      BY <1>1, <2>1 DEF Others, MayRetry
    <3> QED
      BY <1>1, <1>5, <2>1, <3>1, <3>2 DEF Cancel, Others, rests, TypeInv, TypeOK
<1>6. CASE Tick
  <2>1. \A t \in Task : [task[t] EXCEPT !.due = Less(@)] \in Handler
    BY <1>1, LessTyped, GatewayAssumption DEF Handler
  <2>2. \A c \in Currency : [extras[c] EXCEPT !.left = Less(@)] \in ExtrasEntry
    BY <1>1, LessTyped, GatewayAssumption DEF ExtrasEntry, TypeOK
  <2>3. /\ token' \in 0..TokenLife /\ gap' \in 0..MinInterval
        /\ fresh' \in 0..ScheduleTtl /\ blocked' \in 0..ScheduleRetry
        /\ restSchedule' \in 0..ScheduleTtl \cup 0..ScheduleRetry
        /\ restExtras' \in [Currency -> 0..ExtrasTtl \cup 0..ExtrasRetry]
    BY <1>1, <1>6, LessTyped, GatewayAssumption DEF Tick, TypeOK
  <2>4. MayRetry'
    BY <1>1, <1>6 DEF Tick, MayRetry, Handler
  <2> QED
    BY <1>1, <1>6, <2>1, <2>2, <2>3, <2>4 DEF Tick, TypeInv, TypeOK
<1>7. CASE UNCHANGED vars
  BY <1>1, <1>7 DEF vars, client, schedule, extrasCache, rests, TypeInv, TypeOK, MayRetry
<1> QED
  BY <1>2, <1>3, <1>4, <1>5, <1>6, <1>7 DEF Next
-----------------------------------------------------------------------------
(* The limiter.                                                             *)

Paced == Sleeps /\ EverySendIsPaced

LEMMA PacedStep ==
  ASSUME TypeInv, Paced, [Next]_vars
  PROVE  Paced' /\ (granted' \ granted # {} => gap = 0)
<1> USE DEF Paced, Sleeps, EverySendIsPaced
<1>1. task \in [Task -> Handler] /\ gap \in 0..MinInterval /\ None \notin Task
  BY GatewayAssumption DEF TypeInv, TypeOK
<1>2. ASSUME NEW t \in Task, AskSchedule(t) \/ \E c \in Currency : AskProducts(t, c)
      PROVE  Paced' /\ granted' = granted
  BY <1>1, <1>2, AskFacts DEF Others, client
<1>3. ASSUME NEW t \in Task, Locks(t) PROVE Paced' /\ granted' = granted
  <2>1. task[t] \in Handler
    BY <1>1
  <2>2. CASE Enter(t)
    BY <1>1, <2>1, <2>2 DEF Enter, Become, Paces, Handler
  <2>3. CASE TakeToken(t) \/ BeginMint(t) \/ DropToken(t) \/ WaitRefresh(t)
    BY <1>1, <2>1, <2>3 DEF TakeToken, BeginMint, DropToken, WaitRefresh, At, Become,
       client, Handler
  <2>4. CASE AskExtras(t)
    BY <1>1, <2>4, AskExtrasFacts DEF Others, client
  <2> QED
    BY <1>3, <2>2, <2>3, <2>4 DEF Locks
<1>4. ASSUME NEW t \in Task, Runs(t)
      PROVE  Paced' /\ (granted' \ granted # {} => gap = 0)
  <2>1. task[t] \in Handler
    BY <1>1
  <2>2. CASE Pass(t)
    BY <1>1, <2>1, <2>2 DEF Pass, At, Become, Handler
  <2>3. CASE Minted(t)
    BY <1>1, <2>1, <2>3 DEF Minted, At, Become, Handler
  <2>4. CASE Retry(t)
    BY <1>1, <2>1, <2>4 DEF Retry, Become, client, Handler
  <2>5. CASE TryRefresh(t) \/ PeekAgain(t)
    BY <1>1, <2>1, <2>5 DEF TryRefresh, PeekAgain, Answer, Answered, At, Become,
       client, Handler
  <2>6. CASE AnswerTo(t)
    <3>1. Others(t) /\ task'[t].at \in {"backoff", "drop", "token", "idle", "slot"}
      BY <2>6, AnswerFacts, FetchedFacts DEF GoesOn
    <3> QED
      BY <1>1, <2>6, <3>1, AnswerFacts DEF Others
  <2> QED
    BY <1>4, <2>2, <2>3, <2>4, <2>5, <2>6 DEF Runs, AnswerTo
<1>5. ASSUME NEW t \in Task, Cancel(t) PROVE Paced' /\ granted' \subseteq granted
  BY <1>1, <1>5 DEF Cancel, Answer, Answered, Become, Released
<1>6. CASE Tick
  BY <1>1, <1>6, GatewayAssumption DEF Tick, Less, Handler
<1>7. CASE UNCHANGED vars
  BY <1>7 DEF vars, client
<1> QED
  BY <1>2, <1>3, <1>4, <1>5, <1>6, <1>7 DEF Next
-----------------------------------------------------------------------------
(* The refresh lock and the slots.                                          *)

Single == HoldsRefresh /\ HoldsSlot /\ Waits

LEMMA SingleStep == ASSUME TypeInv, Single, [Next]_vars PROVE Single'
<1> USE DEF Single, HoldsRefresh, HoldsSlot, Waits, Fetching, Holding
<1>1. /\ task \in [Task -> Handler] /\ None \notin Task
      /\ slot \in [Currency -> Task \cup {None}]
  BY GatewayAssumption DEF TypeInv, TypeOK
<1>2. ASSUME NEW t \in Task, AskSchedule(t) \/ \E c \in Currency : AskProducts(t, c)
      PROVE  Single'
  BY <1>1, <1>2, AskFacts DEF Others, schedule, extrasCache
<1>3. ASSUME NEW t \in Task, Locks(t) PROVE Single'
  <2>1. task[t] \in Handler
    BY <1>1
  <2>2. CASE Enter(t)
    BY <1>1, <2>1, <2>2 DEF Enter, Become, Paces, Handler, schedule, extrasCache
  <2>3. CASE TakeToken(t)
    BY <1>1, <2>1, <2>3 DEF TakeToken, At, Become, Handler, schedule, extrasCache
  <2>6. CASE BeginMint(t)
    BY <1>1, <2>1, <2>6 DEF BeginMint, At, Become, Handler, schedule, extrasCache
  <2>7. CASE DropToken(t)
    BY <1>1, <2>1, <2>7 DEF DropToken, At, Become, Handler, schedule, extrasCache
  <2>4. CASE WaitRefresh(t)
    BY <1>1, <2>1, <2>4 DEF WaitRefresh, At, Become, Handler, extrasCache
  <2>5. CASE AskExtras(t)
    BY <1>1, <2>1, <2>5, AskExtrasFacts DEF Others, schedule, Handler
  <2> QED
    BY <1>3, <2>2, <2>3, <2>4, <2>5, <2>6, <2>7 DEF Locks
<1>4. ASSUME NEW t \in Task, Runs(t) PROVE Single'
  <2>1. task[t] \in Handler
    BY <1>1
  <2>2. CASE Pass(t)
    BY <1>1, <2>1, <2>2 DEF Pass, At, Become, Handler, schedule, extrasCache
  <2>3. CASE Minted(t)
    BY <1>1, <2>1, <2>3 DEF Minted, At, Become, Handler, schedule, extrasCache
  <2>4. CASE Retry(t)
    BY <1>1, <2>1, <2>4 DEF Retry, Become, Handler, schedule, extrasCache
  <2>5. CASE TryRefresh(t)
    <3>1. Others(t) /\ UNCHANGED slot
          /\ task[t].at = "peeked"
          /\ \/ /\ refresh = None /\ refresh' = t
                /\ task'[t].at = "locked" /\ task'[t].what = task[t].what
             \/ UNCHANGED refresh /\ task'[t].at = "idle"
             \/ /\ UNCHANGED refresh
                /\ task'[t].at = "waiting" /\ task'[t].what = task[t].what
      <4>1. CASE refresh = None
        BY <1>1, <2>1, <2>5, <4>1 DEF TryRefresh, At, Become, Others, extrasCache,
           Handler, Stage
      <4>3. CASE refresh # None /\ ~ task[t].half
        BY <1>1, <2>1, <2>5, <4>3 DEF TryRefresh, At, Become, Others, extrasCache,
           Handler, Stage
      <4>2. CASE refresh # None /\ task[t].half
        BY <1>1, <2>5, <4>2, AnsweredTyped, BecomeTyped DEF TryRefresh, Answer, Others,
           extrasCache, TypeInv
      <4> QED
        BY <4>1, <4>2, <4>3
    <3> QED
      BY <1>1, <2>1, <3>1 DEF Others
  <2>6. CASE PeekAgain(t)
    <3>1. Others(t) /\ UNCHANGED slot
          /\ \/ /\ UNCHANGED refresh
                /\ task'[t].at = "pace" /\ task'[t].what = task[t].what
             \/ refresh' = None /\ task'[t].at = "idle"
      <4>1. CASE Peek = "refresh"
        BY <1>1, <2>1, <2>6, <4>1 DEF PeekAgain, At, Become, Others, extrasCache,
           Handler, Stage
      <4>2. CASE Peek # "refresh"
        <5>1. cached \in BOOLEAN
          BY DEF TypeInv, TypeOK
        <5> QED
          BY <1>1, <2>6, <4>2, <5>1, AnsweredTyped, BecomeTyped DEF PeekAgain, Answer,
             Others, extrasCache, TypeInv
      <4> QED
        BY <4>1, <4>2
    <3>2. refresh = t /\ task[t].what = "schedule"
      BY <2>6 DEF PeekAgain
    <3> QED
      BY <1>1, <3>1, <3>2 DEF Others
  <2>7. CASE AnswerTo(t)
    <3>1. CASE GoesOn(t)
      BY <1>1, <2>7, <3>1, AnswerFacts DEF GoesOn, Others, FetchGoesOn, schedule,
         extrasCache
    <3>2. ASSUME NEW ok \in BOOLEAN, Fetched(t, ok) PROVE Single'
      <4>1. Others(t) /\ task'[t].at \in {"idle", "slot"}
        BY <3>2, FetchedFacts
      <4>2. CASE task[t].what = "schedule"
        BY <1>1, <2>7, <3>2, <4>1, <4>2, FetchedFacts, AnswerFacts
           DEF Others, ScheduleFetched, extrasCache
      <4>3. CASE task[t].what = "excursions"
        BY <1>1, <3>2, <4>1, <4>3, FetchedFacts
           DEF Others, FetchGoesOn, schedule, extrasCache
      <4>4. CASE task[t].what = "extras"
        <5> DEFINE c == task[t].currency
        <5>1. /\ c \in Currency /\ slot[c] = t /\ slot' = [slot EXCEPT ![c] = None]
              /\ UNCHANGED refresh
          BY <1>1, <2>1, <2>7, <3>2, <4>4, FetchedFacts, AnswerFacts
             DEF ExtrasFetched, schedule, Handler
        <5>2. \A u \in Task : task[u].currency \in Currency
          BY <1>1 DEF Handler
        <5> HIDE DEF c
        <5> QED
          BY <1>1, <4>1, <5>1, <5>2 DEF Others
      <4> QED
        BY <2>1, <4>2, <4>3, <4>4 DEF Handler, What
    <3> QED
      BY <2>7, <3>1, <3>2, AnswerFacts
  <2> QED
    BY <1>4, <2>2, <2>3, <2>4, <2>5, <2>6, <2>7 DEF Runs, AnswerTo
<1>5. ASSUME NEW t \in Task, Cancel(t) PROVE Single'
  <2>1. Others(t) /\ task'[t].at = "idle"
    BY <1>1, <1>5, AnsweredTyped, BecomeTyped DEF Cancel, Answer, Others, TypeInv
  <2> QED
    BY <1>1, <1>5, <2>1 DEF Cancel, Released, Others, Handler
<1>6. CASE Tick
  BY <1>1, <1>6 DEF Tick, Handler
<1>7. CASE UNCHANGED vars
  BY <1>7 DEF vars, schedule, extrasCache
<1> QED
  BY <1>2, <1>3, <1>4, <1>5, <1>6, <1>7 DEF Next
-----------------------------------------------------------------------------
(* A token rejected.                                                        *)

LEMMA RelinquishedStep ==
  ASSUME TypeInv, Relinquished, [Next]_vars PROVE Relinquished'
<1> USE DEF Relinquished
<1>1. task \in [Task -> Handler]
  BY DEF TypeInv, TypeOK
<1>2. ASSUME NEW t \in Task, AskSchedule(t) \/ \E c \in Currency : AskProducts(t, c)
      PROVE  Relinquished'
  BY <1>1, <1>2, AskFacts DEF Others
<1>3. ASSUME NEW t \in Task, Locks(t) PROVE Relinquished'
  <2>1. task[t] \in Handler
    BY <1>1
  <2>2. CASE Enter(t)
    BY <1>1, <2>1, <2>2 DEF Enter, Become, Paces, Handler
  <2>3. CASE TakeToken(t)
    BY <1>1, <2>1, <2>3 DEF TakeToken, At, Become, Handler
  <2>4. CASE BeginMint(t)
    BY <1>1, <2>1, <2>4 DEF BeginMint, At, Become, Handler
  <2>5. CASE DropToken(t)
    BY <1>1, <2>1, <2>5 DEF DropToken, At, Become, Handler
  <2>6. CASE WaitRefresh(t)
    BY <1>1, <2>1, <2>6 DEF WaitRefresh, At, Become, Handler
  <2>7. CASE AskExtras(t)
    BY <1>1, <2>7, AskExtrasFacts DEF Others
  <2> QED
    BY <1>3, <2>2, <2>3, <2>4, <2>5, <2>6, <2>7 DEF Locks
<1>4. ASSUME NEW t \in Task, Runs(t) PROVE Relinquished'
  <2>1. task[t] \in Handler
    BY <1>1
  <2>2. CASE Pass(t)
    BY <1>1, <2>1, <2>2 DEF Pass, At, Become, Handler
  <2>3. CASE Minted(t)
    BY <1>1, <2>1, <2>3 DEF Minted, At, Become, Handler
  <2>4. CASE Retry(t)
    BY <1>1, <2>1, <2>4 DEF Retry, Become, Handler
  <2>5. CASE TryRefresh(t) \/ PeekAgain(t)
    BY <1>1, <2>1, <2>5 DEF TryRefresh, PeekAgain, Answer, Answered, At, Become, Handler
  <2>6. CASE AnswerTo(t)
    <3>1. /\ Others(t) /\ holders' \subseteq holders
          /\ task'[t].at \in {"token", "slot"} => ~ task'[t].reauthed
      BY <2>6, AnswerFacts, FetchedFacts DEF GoesOn
    <3> QED
      BY <1>1, <3>1 DEF Others
  <2> QED
    BY <1>4, <2>2, <2>3, <2>4, <2>5, <2>6 DEF Runs, AnswerTo
<1>5. ASSUME NEW t \in Task, Cancel(t) PROVE Relinquished'
  BY <1>1, <1>5 DEF Cancel, Answer, Answered, Become
<1>6. CASE Tick
  BY <1>1, <1>6 DEF Tick, Handler
<1>7. CASE UNCHANGED vars
  BY <1>7 DEF vars
<1> QED
  BY <1>2, <1>3, <1>4, <1>5, <1>6, <1>7 DEF Next
-----------------------------------------------------------------------------
(* The rests.                                                               *)

Owes == OwesSchedule /\ OwesExtras

(* No fetch begins but after the cache was asked.                           *)
RestsNow ==
  \A t \in Task :
    /\ ~ Fetching(t, "schedule") /\ Fetching(t, "schedule")'
         => restSchedule = 0
    /\ ~ Fetching(t, "extras") /\ Fetching(t, "extras")'
         => restExtras[task[t].currency] = 0

LEMMA OwesStep == ASSUME TypeInv, Owes, [Next]_vars PROVE Owes'
<1> USE DEF Owes, OwesSchedule, OwesExtras
<1>1. /\ fresh \in Nat /\ blocked \in Nat /\ restSchedule \in Nat
      /\ extras \in [Currency -> ExtrasEntry]
      /\ restExtras \in [Currency -> 0..ExtrasTtl \cup 0..ExtrasRetry]
  BY GatewayAssumption DEF TypeInv, TypeOK
<1>2. ASSUME NEW t \in Task, AskSchedule(t) \/ \E c \in Currency : AskProducts(t, c)
      PROVE  Owes'
  BY <1>2, AskFacts DEF schedule, extrasCache, rests
<1>3. ASSUME NEW t \in Task, Locks(t) PROVE Owes'
  <2>1. UNCHANGED <<fresh, blocked, extras, rests>>
    BY <1>3 DEF Locks, Enter, TakeToken, BeginMint, DropToken, WaitRefresh, AskExtras,
       schedule, extrasCache
  <2> QED
    BY <2>1 DEF rests
<1>4. ASSUME NEW t \in Task, Runs(t) PROVE Owes'
  <2>1. CASE Pass(t) \/ Minted(t) \/ Retry(t) \/ TryRefresh(t) \/ PeekAgain(t)
    BY <2>1 DEF Pass, Minted, Retry, TryRefresh, PeekAgain, schedule, extrasCache, rests
  <2>2. CASE AnswerTo(t)
    <3>1. CASE GoesOn(t)
      BY <3>1 DEF GoesOn, FetchGoesOn, schedule, extrasCache, rests
    <3>2. ASSUME NEW ok \in BOOLEAN, Fetched(t, ok) PROVE Owes'
      <4>1. CASE task[t].what = "schedule"
        BY <3>2, <4>1, FetchedFacts DEF ScheduleFetched, extrasCache
      <4>2. CASE task[t].what = "excursions"
        BY <3>2, <4>2, FetchedFacts DEF FetchGoesOn, schedule, extrasCache, rests
      <4>3. CASE task[t].what = "extras"
        <5> DEFINE c == task[t].currency
                   entry == IF ok THEN [is |-> "ok", left |-> ExtrasTtl]
                            ELSE [is |-> "failed", left |-> ExtrasRetry]
        <5>1. /\ extras' = [extras EXCEPT ![c] = entry]
              /\ restExtras' = [restExtras EXCEPT ![c] = entry.left]
              /\ UNCHANGED <<fresh, blocked, restSchedule>>
          BY <3>2, <4>3, FetchedFacts DEF ExtrasFetched, schedule
        <5>2. entry.is # "absent"
          OBVIOUS
        <5> HIDE DEF c, entry
        <5> QED
          BY <1>1, <5>1, <5>2
      <4> QED
        BY <4>1, <4>2, <4>3 DEF TypeInv, TypeOK, Handler, What
    <3> QED
      BY <2>2, <3>1, <3>2, AnswerFacts
  <2> QED
    BY <1>4, <2>1, <2>2 DEF Runs, AnswerTo
<1>5. ASSUME NEW t \in Task, Cancel(t) PROVE Owes'
  BY <1>5 DEF Cancel, rests
<1>6. CASE Tick
  BY <1>1, <1>6 DEF Tick, Less, ExtrasEntry
<1>7. CASE UNCHANGED vars
  BY <1>7 DEF vars, schedule, extrasCache, rests
<1> QED
  BY <1>2, <1>3, <1>4, <1>5, <1>6, <1>7 DEF Next

LEMMA RestsStep == ASSUME TypeInv, Owes, Waits, [Next]_vars PROVE RestsNow
<1> USE DEF RestsNow, Fetching, Holding
<1>1. task \in [Task -> Handler]
  BY DEF TypeInv, TypeOK
<1>2. ASSUME NEW t \in Task, AskSchedule(t) \/ \E c \in Currency : AskProducts(t, c)
      PROVE  RestsNow
  BY <1>1, <1>2, AskFacts DEF Others
<1>3. ASSUME NEW t \in Task, Locks(t) PROVE RestsNow
  <2>1. task[t] \in Handler
    BY <1>1
  <2>2. CASE Enter(t)
    BY <1>1, <2>1, <2>2 DEF Enter, Become, Paces, Handler
  <2>3. CASE TakeToken(t)
    BY <1>1, <2>1, <2>3 DEF TakeToken, At, Become, Handler
  <2>4. CASE BeginMint(t)
    BY <1>1, <2>1, <2>4 DEF BeginMint, At, Become, Handler
  <2>5. CASE DropToken(t)
    BY <1>1, <2>1, <2>5 DEF DropToken, At, Become, Handler
  <2>6. CASE WaitRefresh(t)
    BY <1>1, <2>1, <2>6 DEF WaitRefresh, At, Become, Handler
  <2>7. CASE AskExtras(t)
    <3>1. /\ task[t].currency \in Currency
          /\ extras[task[t].currency] \in ExtrasEntry
      BY <2>1 DEF Handler, TypeInv, TypeOK
    <3>2. ExtrasStep(extras[task[t].currency]) = "fetch"
            => restExtras[task[t].currency] = 0
      BY <3>1, GatewayAssumption DEF ExtrasStep, ExtrasEntry, Owes, OwesExtras
    <3> QED
      BY <1>1, <2>7, <3>1, <3>2, AskExtrasFacts DEF Others
  <2> QED
    BY <1>3, <2>2, <2>3, <2>4, <2>5, <2>6, <2>7 DEF Locks
<1>4. ASSUME NEW t \in Task, Runs(t) PROVE RestsNow
  <2>1. task[t] \in Handler
    BY <1>1
  <2>2. CASE Pass(t)
    BY <1>1, <2>1, <2>2 DEF Pass, At, Become, Handler
  <2>3. CASE Minted(t)
    BY <1>1, <2>1, <2>3 DEF Minted, At, Become, Handler
  <2>4. CASE Retry(t)
    BY <1>1, <2>1, <2>4 DEF Retry, Become, Handler
  <2>5. CASE TryRefresh(t)
    BY <1>1, <2>1, <2>5 DEF TryRefresh, Answer, Answered, At, Become, Handler
  <2>6. CASE PeekAgain(t)
    <3>1. CASE Peek = "refresh"
      <4>1. restSchedule = 0
        BY <3>1, GatewayAssumption DEF Peek, Step, Owes, OwesSchedule, TypeInv, TypeOK
      <4>2. task[t].what = "schedule"
        BY <2>6 DEF PeekAgain, Waits
      <4> QED
        BY <1>1, <2>1, <2>6, <3>1, <4>1, <4>2 DEF PeekAgain, At, Become, Handler
    <3>2. CASE Peek # "refresh"
      BY <1>1, <2>1, <2>6, <3>2 DEF PeekAgain, Answer, Answered, Become
    <3> QED
      BY <3>1, <3>2
  <2>7. CASE AnswerTo(t)
    BY <1>1, <2>7, AnswerFacts, FetchedFacts DEF GoesOn, Others
  <2> QED
    BY <1>4, <2>2, <2>3, <2>4, <2>5, <2>6, <2>7 DEF Runs, AnswerTo
<1>5. ASSUME NEW t \in Task, Cancel(t) PROVE RestsNow
  BY <1>1, <1>5 DEF Cancel, Answer, Answered, Become
<1>6. CASE Tick
  BY <1>1, <1>6 DEF Tick, Handler
<1>7. CASE UNCHANGED vars
  BY <1>7 DEF vars
<1> QED
  BY <1>2, <1>3, <1>4, <1>5, <1>6, <1>7 DEF Next
-----------------------------------------------------------------------------
(* The schedule kept.                                                       *)

LEMMA NotRefused ==
  ASSUME NEW t \in Task, NEW ok \in BOOLEAN, task \in [Task -> Handler], Answer(t, ok),
         ok \/ task[t].what # "schedule" \/ ~ everCached
  PROVE  ~ task'[t].refused /\ task'[t].at = "idle"
<1>1. task'[t] = Answered(t, ok)
  BY DEF Answer, Become
<1>2. ~ Answered(t, ok).refused /\ Answered(t, ok).at = "idle"
  BY DEF Answered
<1> QED
  BY <1>1, <1>2

(* An answer that does not end the fetch says nothing to the client.        *)
LEMMA GoesOnSilently ==
  ASSUME TypeInv, NEW t \in Task, AnswerTo(t)
  PROVE  \/ \E ok \in BOOLEAN : Fetched(t, ok)
         \/ /\ \A u \in Task : task'[u].refused = task[u].refused
            /\ \A u \in Task : task'[u].at = "slot" => task'[u] = task[u]
            /\ FetchGoesOn
<1>1. task[t] \in Handler /\ task \in [Task -> Handler]
  BY DEF TypeInv, TypeOK
<1>2. CASE RetryOrFail(t)
  BY <1>1, <1>2 DEF RetryOrFail, At, Become, Handler
<1>3. CASE Unauthorized(t)
  BY <1>1, <1>3 DEF Unauthorized, Become, Handler
<1>4. CASE CallSucceeds(t)
  <2>1. CASE task[t].calls > 1
    <3> DEFINE s == [task[t] EXCEPT !.at = "token", !.calls = @ - 1,
                                    !.reauthed = FALSE, !.attempt = 0]
    <3>1. s.refused = task[t].refused /\ s.at = "token"
      BY <1>1 DEF Handler
    <3>2. task' = [task EXCEPT ![t] = s] /\ FetchGoesOn
      BY <1>4, <2>1 DEF CallSucceeds, Become
    <3> HIDE DEF s
    <3> QED
      BY <1>1, <3>1, <3>2
  <2>2. CASE ~ (task[t].calls > 1)
    BY <1>4, <2>2 DEF CallSucceeds
  <2> QED
    BY <2>1, <2>2
<1> QED
  BY <1>2, <1>3, <1>4 DEF AnswerTo, MintFails, CallFails

LEMMA ServesStep == ASSUME TypeInv, Serves, [Next]_vars PROVE Serves'
<1> USE DEF Serves, NeverRefusedAgain
<1>1. /\ task \in [Task -> Handler]
      /\ cached \in BOOLEAN /\ everCached \in BOOLEAN
  BY DEF TypeInv, TypeOK
<1>2. ASSUME NEW t \in Task, AskSchedule(t) \/ \E c \in Currency : AskProducts(t, c)
      PROVE  Serves'
  <2>1. Others(t) /\ task'[t].at # "slot" /\ UNCHANGED <<cached, everCached>>
    BY <1>2, AskFacts DEF schedule, rests
  <2>2. ~ task'[t].refused
    <3>1. CASE AskSchedule(t) /\ Peek # "refresh"
      BY <1>1, <3>1, NotRefused DEF AskSchedule
    <3>2. ~ Answered(t, TRUE).refused
      BY DEF Answered
    <3>3. CASE AskSchedule(t) /\ Peek = "refresh"
      <4>1. task'[t].refused = Answered(t, TRUE).refused
        BY <1>1, <3>3 DEF AskSchedule, Become, Answered
      <4> QED
        BY <3>2, <4>1
    <3>4. ASSUME NEW c \in Currency, AskProducts(t, c) PROVE ~ task'[t].refused
      <4>1. task'[t].refused = Answered(t, TRUE).refused
        BY <1>1, <3>4 DEF AskProducts, Become, Answered
      <4> QED
        BY <3>2, <4>1
    <3> QED
      BY <1>2, <3>1, <3>3, <3>4
  <2> QED
    BY <2>1, <2>2 DEF Others
<1>3. ASSUME NEW t \in Task, Locks(t) PROVE Serves'
  <2>1. task[t] \in Handler
    BY <1>1
  <2>2. CASE Enter(t)
    BY <1>1, <2>1, <2>2 DEF Enter, Become, Paces, Handler, schedule, rests
  <2>3. CASE TakeToken(t)
    BY <1>1, <2>1, <2>3 DEF TakeToken, At, Become, Handler, schedule, rests
  <2>4. CASE BeginMint(t)
    BY <1>1, <2>1, <2>4 DEF BeginMint, At, Become, Handler, schedule, rests
  <2>5. CASE DropToken(t)
    BY <1>1, <2>1, <2>5 DEF DropToken, At, Become, Handler, schedule, rests
  <2>6. CASE WaitRefresh(t)
    BY <1>1, <2>1, <2>6 DEF WaitRefresh, At, Become, Handler, rests
  <2>7. CASE AskExtras(t)
    <3>1. Others(t) /\ task'[t].at # "slot" /\ UNCHANGED <<cached, everCached>>
      BY <2>7, AskExtrasFacts DEF schedule, rests
    <3>2. task[t].what = "excursions"
      BY <2>7 DEF AskExtras
    <3>3. ~ task'[t].refused
      <4> DEFINE step == ExtrasStep(extras[task[t].currency])
      <4>1. CASE step = "fetch"
        BY <1>1, <2>1, <2>7, <4>1 DEF AskExtras, Become, Handler
      <4>2. CASE step # "fetch"
        <5>1. (step = "use" \/ task[t].half) \in BOOLEAN
          OBVIOUS
        <5>2. Answer(t, step = "use" \/ task[t].half)
          BY <2>7, <4>2 DEF AskExtras
        <5> QED
          BY <1>1, <3>2, <5>1, <5>2, NotRefused
      <4> QED
        BY <4>1, <4>2
    <3> QED
      BY <3>1, <3>3 DEF Others
  <2> QED
    BY <1>3, <2>2, <2>3, <2>4, <2>5, <2>6, <2>7 DEF Locks
<1>4. ASSUME NEW t \in Task, Runs(t) PROVE Serves'
  <2>1. task[t] \in Handler
    BY <1>1
  <2>2. CASE Pass(t)
    BY <1>1, <2>1, <2>2 DEF Pass, At, Become, Handler, schedule, rests
  <2>3. CASE Minted(t)
    BY <1>1, <2>1, <2>3 DEF Minted, At, Become, Handler, schedule, rests
  <2>4. CASE Retry(t)
    BY <1>1, <2>1, <2>4 DEF Retry, Become, Handler, schedule, rests
  <2>5. CASE TryRefresh(t)
    BY <1>1, <2>1, <2>5 DEF TryRefresh, Answer, Answered, At, Become, Handler, rests
  <2>6. CASE PeekAgain(t)
    <3>1. CASE Peek = "refresh"
      BY <1>1, <2>1, <2>6, <3>1 DEF PeekAgain, At, Become, Handler, rests
    <3>2. CASE Peek # "refresh"
      <4>1. ~ task'[t].refused /\ task'[t].at = "idle"
        BY <1>1, <2>6, <3>2, NotRefused DEF PeekAgain
      <4> QED
        BY <1>1, <2>6, <3>2, <4>1 DEF PeekAgain, Answer, Become, rests
    <3> QED
      BY <3>1, <3>2
  <2>7. CASE AnswerTo(t)
    <3>1. ASSUME \A u \in Task : task'[u].refused = task[u].refused,
                 \A u \in Task : task'[u].at = "slot" => task'[u] = task[u],
                 FetchGoesOn
          PROVE  Serves'
      BY <3>1 DEF FetchGoesOn, schedule, rests
    <3>2. ASSUME NEW ok \in BOOLEAN, Fetched(t, ok) PROVE Serves'
      <4>1. Others(t)
        BY <3>2, FetchedFacts
      <4>2. CASE task[t].what = "schedule"
        <5>1. ScheduleFetched(t, ok)
          BY <3>2, <4>2, FetchedFacts
        <5>2. ~ task'[t].refused /\ task'[t].at = "idle"
          BY <1>1, <5>1 DEF ScheduleFetched, Answer, Answered, Become
        <5>3. everCached' = cached'
          BY <5>1 DEF ScheduleFetched
        <5> QED
          BY <4>1, <5>2, <5>3 DEF Others
      <4>3. CASE task[t].what = "excursions"
        <5>1. ExcursionsFetched(t, ok)
          BY <3>2, <4>3 DEF Fetched
        <5>2. task'[t].what = "excursions" /\ task'[t].refused = task[t].refused
          BY <1>1, <2>1, <4>3, <5>1 DEF ExcursionsFetched, Become, Handler
        <5> QED
          BY <4>1, <5>1, <5>2 DEF Others, ExcursionsFetched, schedule, rests
      <4>4. CASE task[t].what = "extras"
        <5>1. ExtrasFetched(t, ok)
          BY <3>2, <4>4, FetchedFacts
        <5>2. ~ task'[t].refused /\ task'[t].at = "idle"
          BY <1>1, <4>4, <5>1 DEF ExtrasFetched, Answer, Answered, Become
        <5> QED
          BY <4>1, <5>1, <5>2 DEF Others, ExtrasFetched, schedule
      <4> QED
        BY <2>1, <4>2, <4>3, <4>4 DEF Handler, What
    <3> QED
      BY <2>7, <3>1, <3>2, GoesOnSilently
  <2> QED
    BY <1>4, <2>2, <2>3, <2>4, <2>5, <2>6, <2>7 DEF Runs, AnswerTo
<1>5. ASSUME NEW t \in Task, Cancel(t) PROVE Serves'
  BY <1>1, <1>5 DEF Cancel, Answer, Answered, Become, rests
<1>6. CASE Tick
  BY <1>1, <1>6 DEF Tick, Handler
<1>7. CASE UNCHANGED vars
  BY <1>7 DEF vars, schedule, rests
<1> QED
  BY <1>2, <1>3, <1>4, <1>5, <1>6, <1>7 DEF Next
-----------------------------------------------------------------------------
(* The theorems.                                                            *)

IInv == TypeInv /\ Paced /\ Single /\ Relinquished /\ Owes /\ Serves

LEMMA InitHolds == Init => IInv
<1> SUFFICES ASSUME Init PROVE IInv
  OBVIOUS
<1>1. \A t \in Task :
        task[t].at = "idle" /\ ~ task[t].reauthed /\ ~ task[t].refused
  BY DEF Init
<1>2. TypeOK
  <2>1. (CHOOSE c \in Currency : TRUE) \in Currency
    BY GatewayAssumption
  <2>2. task \in [Task -> Handler]
    BY <2>1, Zeros DEF Init, Handler, Stage, What
  <2> QED
    <3>1. Absent \in ExtrasEntry
      BY GatewayAssumption DEF Absent, ExtrasEntry
    <3>2. extras \in [Currency -> ExtrasEntry]
      BY <3>1 DEF Init
    <3>3. restExtras \in [Currency -> 0..ExtrasTtl \cup 0..ExtrasRetry]
      BY GatewayAssumption DEF Init
    <3>4. slot \in [Currency -> Task \cup {None}]
      BY DEF Init
    <3>5. /\ token \in 0..TokenLife /\ gap \in 0..MinInterval
          /\ fresh \in 0..ScheduleTtl /\ blocked \in 0..ScheduleRetry
          /\ restSchedule \in 0..ScheduleTtl \cup 0..ScheduleRetry
      BY GatewayAssumption DEF Init
    <3>6. /\ {tokenLock, limiter, refresh} \subseteq Task \cup {None}
          /\ cached \in BOOLEAN /\ everCached \in BOOLEAN
          /\ granted \in SUBSET Task /\ holders \in SUBSET Task
      BY DEF Init
    <3> QED
      BY <2>2, <3>2, <3>3, <3>4, <3>5, <3>6 DEF TypeOK
<1>3. Owes
  BY DEF Init, Owes, OwesSchedule, OwesExtras, Absent
<1>4. Serves
  BY <1>1 DEF Init, Serves, NeverRefusedAgain
<1> QED
  BY <1>1, <1>2, <1>3, <1>4 DEF IInv, TypeInv, MayRetry, Paced, Sleeps, EverySendIsPaced,
     Single, HoldsRefresh, HoldsSlot, Waits, Fetching, Holding, Relinquished

LEMMA Inductive == Spec => []IInv
<1>1. IInv /\ [Next]_vars => IInv'
  BY TypeStep, PacedStep, SingleStep, RelinquishedStep, OwesStep, ServesStep DEF IInv
<1> QED
  BY InitHolds, <1>1, PTL DEF Spec

(* The state of the handlers, caches and locks is always one the code can   *)
(* represent: no attempt beyond max_retries and no entry past its life.     *)
THEOREM TypesHold == Spec => []TypeOK
<1>1. IInv => TypeOK
  BY DEF IInv, TypeInv
<1> QED
  BY Inductive, <1>1, PTL

(* However many requests come, princess_schedule has one fetch in flight    *)
(* and products_shared one per currency, because whoever fetches holds the  *)
(* refresh lock or the slot, and gives it up only with the fetch.           *)
THEOREM OneFetchAtATime == Spec => []SingleFlight
<1>1. IInv => SingleFlight
  BY DEF IInv, Single, HoldsRefresh, HoldsSlot, SingleFlight
<1> QED
  BY Inductive, <1>1, PTL

(* No request, retry or minting of a token is sent without having passed    *)
(* RateLimiter::wait for itself.                                            *)
THEOREM SendsArePaced == Spec => []EverySendIsPaced
<1>1. IInv => EverySendIsPaced
  BY DEF IInv, Paced
<1> QED
  BY Inductive, <1>1, PTL

(* RateLimiter::wait lets two requests pass only min_interval apart,        *)
(* because one sleeps with the lock held and `last' as it read it.          *)
THEOREM PassesArePaced == Spec => PassesAreApart
<1>1. IInv /\ [Next]_vars => [granted' \ granted # {} => gap = 0]_vars
  BY PacedStep DEF IInv
<1> QED
  BY Inductive, <1>1, PTL DEF Spec, PassesAreApart

(* A fetch starts only after the last one's freshness or back-off ran out,  *)
(* because the cache is asked again under the lock.                         *)
THEOREM FetchesAreRested == Spec => FetchesRest
<1>1. IInv /\ [Next]_vars => [RestsNow]_vars
  BY RestsStep DEF IInv, Single
<1> QED
  BY Inductive, <1>1, PTL DEF Spec, FetchesRest, RestsNow

(* The request repeated after a 401 takes another token than the rejected   *)
(* one: dropping it precedes the repetition, whoever mints the next.        *)
THEOREM RetriesAreFresh == Spec => RetriesWithFreshToken
<1>1. IInv => [\A t \in Task :
                 /\ task[t].at = "token" /\ task[t].reauthed /\ task'[t].at = "pace"
                 => t \notin holders]_vars
  BY DEF IInv, Relinquished
<1> QED
  BY Inductive, <1>1, PTL DEF Spec, RetriesWithFreshToken

(* Once princess_schedule has served a schedule it serves one for ever      *)
(* after: store_failure keeps the last good one, and every way to answer    *)
(* asks for it.                                                             *)
THEOREM NeverRefused == Spec => []NeverRefusedAgain
<1>1. IInv => NeverRefusedAgain
  BY DEF IInv, Serves
<1> QED
  BY Inductive, <1>1, PTL
=============================================================================
