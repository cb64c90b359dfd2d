--------------------------- MODULE PrincessGateway ---------------------------
(***************************************************************************)
(* How the web server talks to Princess: requests in flight that share one *)
(* guest client (a token, a rate limiter), one schedule cache and one      *)
(* cache of fleet-wide extras per currency.                                *)
(*                                                                         *)
(* A "schedule" request runs princess_schedule.  A "products" request runs *)
(* products_shared (refresh_catalog and the public price lookup): the      *)
(* excursions of one voyage, then the extras of its currency.  Four kinds  *)
(* of lock are held across awaits, taken in the order slot, token,         *)
(* limiter; the schedule's refresh lock is held around the limiter.  A     *)
(* client that goes away drops its handler at any await, with its locks.   *)
(*                                                                         *)
(* Time is discrete.  Every deadline is kept as the ticks left to it, so   *)
(* runs are unbounded and the state is not.  A sleep ends at any time      *)
(* after its due time (which covers the jitter).  What the answers hold,   *)
(* and whether the answer to an attempt is good, are choices; the HTTP     *)
(* client times out after 30 s, so some answer always comes.               *)
(***************************************************************************)
EXTENDS Integers, FiniteSets

CONSTANTS
  Task,           \* slots for web requests in flight
  Currency,
  None,
  MinInterval,    \* PacingConfig::min_interval
  MaxRetries,     \* PacingConfig::max_retries
  TokenLife,      \* a token's time to live, less TOKEN_SKEW
  ScheduleTtl,
  ScheduleRetry,
  ExtrasTtl,
  ExtrasRetry,
  Pages           \* calls one fetch of extras takes

ASSUME GatewayAssumption ==
  /\ None \notin Task /\ Currency # {}
  /\ {MinInterval, MaxRetries, TokenLife} \subseteq Nat
  /\ {ScheduleTtl, ScheduleRetry, ExtrasTtl, ExtrasRetry} \subseteq Nat
  /\ Pages \in Nat \ {0}

VARIABLES
  task,           \* [Task -> the state of the request's handler]
  (* the guest client *)
  token,          \* ticks until the stored token is refreshed; 0: mint one
  tokenLock,      \* holder of the token mutex, or None
  gap,            \* ticks until min_interval has passed since `last'
  limiter,        \* holder of the limiter's mutex, or None
  (* ScheduleCache *)
  cached,         \* there is a schedule
  fresh,          \* ticks it is still fresh
  blocked,        \* ticks until retry_after
  refresh,        \* holder of the refresh mutex, or None
  (* PrincessExtrasCache *)
  extras,         \* [Currency -> ExtrasEntry]
  slot,           \* [Currency -> holder of its slot, or None]
  (* history *)
  everCached,     \* a schedule was fetched once
  restSchedule,   \* ticks until the schedule may be fetched again
  restExtras,     \* [Currency -> the same for its extras]
  granted,        \* tasks the limiter let pass that have not sent since
  holders         \* tasks whose call in progress has the stored token

client == <<token, tokenLock, gap, limiter>>
schedule == <<cached, fresh, blocked, refresh>>
extrasCache == <<extras, slot>>
rests == <<everCached, restSchedule, restExtras>>
vars == <<task, client, schedule, extrasCache, rests, granted, holders>>
-----------------------------------------------------------------------------
What == {"schedule", "excursions", "extras"}

(* `at' is where the handler is: at its cache ("peeked", "waiting",         *)
(* "locked", "slot"), in a call of the client, or between requests.         *)
Holding == {"minting", "mintPaced", "mintSent"}
Stage == Holding \cup
  {"idle", "peeked", "waiting", "locked", "slot", "token", "pace", "paced",
   "sent", "drop", "backoff"}

Handler == [at : Stage, what : What, currency : Currency, calls : 0..Pages,
            reauthed : BOOLEAN, attempt : 0..MaxRetries, due : 0..MinInterval,
            half : BOOLEAN, refused : BOOLEAN]

ExtrasEntry == [is : {"absent", "ok", "failed"},
                left : 0..ExtrasTtl \cup 0..ExtrasRetry]
Absent == [is |-> "absent", left |-> 0]

TypeOK ==
  /\ task \in [Task -> Handler]
  /\ token \in 0..TokenLife
  /\ gap \in 0..MinInterval
  /\ {tokenLock, limiter, refresh} \subseteq Task \cup {None}
  /\ cached \in BOOLEAN /\ everCached \in BOOLEAN
  /\ fresh \in 0..ScheduleTtl
  /\ blocked \in 0..ScheduleRetry
  /\ extras \in [Currency -> ExtrasEntry]
  /\ slot \in [Currency -> Task \cup {None}]
  /\ restSchedule \in 0..ScheduleTtl \cup 0..ScheduleRetry
  /\ restExtras \in [Currency -> 0..ExtrasTtl \cup 0..ExtrasRetry]
  /\ granted \in SUBSET Task
  /\ holders \in SUBSET Task

Init ==
  /\ task = [t \in Task |->
               [at |-> "idle", what |-> "schedule",
                currency |-> CHOOSE c \in Currency : TRUE, calls |-> 0,
                reauthed |-> FALSE, attempt |-> 0, due |-> 0, half |-> FALSE,
                refused |-> FALSE]]
  /\ token = 0 /\ tokenLock = None
  /\ gap = 0 /\ limiter = None
  /\ cached = FALSE /\ fresh = 0 /\ blocked = 0 /\ refresh = None
  /\ extras = [c \in Currency |-> Absent]
  /\ slot = [c \in Currency |-> None]
  /\ everCached = FALSE /\ restSchedule = 0
  /\ restExtras = [c \in Currency |-> 0]
  /\ granted = {} /\ holders = {}

Become(t, state) == task' = [task EXCEPT ![t] = state]
At(t, at) == Become(t, [task[t] EXCEPT !.at = at])

(* A handler that returned is gone.  `ok': with a 200, not a 502; `refused' *)
(* is history: a 502 for want of a schedule that had been fetched before.   *)
Answered(t, ok) ==
  [at |-> "idle", what |-> "schedule", currency |-> task[t].currency,
   calls |-> 0, reauthed |-> FALSE, attempt |-> 0, due |-> 0, half |-> FALSE,
   refused |-> ~ ok /\ task[t].what = "schedule" /\ everCached]
Answer(t, ok) == Become(t, Answered(t, ok))
-----------------------------------------------------------------------------
(* RateLimiter::wait.  The lock is held while sleeping; the due time is     *)
(* taken from `last' under it.                                              *)

Paces == {"minting", "pace"}
Enter_Unlocked(t) ==  \* mutant: the lock is released before the sleep
  /\ task[t].at \in Paces
  /\ Become(t, [task[t] EXCEPT
                  !.at = IF @ = "pace" THEN "paced" ELSE "mintPaced",
                  !.due = gap])
  /\ UNCHANGED <<client, schedule, extrasCache, rests, granted, holders>>
Enter(t) ==
  /\ task[t].at \in Paces
  /\ limiter = None
  /\ limiter' = t
  /\ Become(t, [task[t] EXCEPT
                  !.at = IF @ = "pace" THEN "paced" ELSE "mintPaced",
                  !.due = gap])
  /\ UNCHANGED <<token, tokenLock, gap, schedule, extrasCache, rests, granted,
                 holders>>

Pass(t) ==
  /\ task[t].at \in {"paced", "mintPaced"}
  /\ task[t].due = 0
  /\ gap' = MinInterval
  /\ limiter' = None
  /\ granted' = granted \cup {t}
  /\ At(t, IF task[t].at = "paced" THEN "sent" ELSE "mintSent")
  /\ UNCHANGED <<token, tokenLock, schedule, extrasCache, rests, holders>>
-----------------------------------------------------------------------------
(* Where a fetch goes when it is over.                                      *)

(* store_ok, store_failure: a failure keeps the last good schedule.         *)
ScheduleFetched_Clears(t, ok) ==  \* mutant: a failure drops the schedule
  /\ cached' = ok
  /\ everCached' = (everCached \/ ok)
  /\ fresh' = IF ok THEN ScheduleTtl ELSE 0
  /\ blocked' = IF ok THEN 0 ELSE ScheduleRetry
  /\ restSchedule' = IF ok THEN ScheduleTtl ELSE ScheduleRetry
  /\ refresh' = None
  /\ Answer(t, ok)
  /\ UNCHANGED <<extrasCache, restExtras>>
ScheduleFetched(t, ok) ==
  /\ cached' = (cached \/ ok)
  /\ everCached' = (everCached \/ ok)
  /\ fresh' = IF ok THEN ScheduleTtl ELSE fresh
  /\ blocked' = IF ok THEN 0 ELSE ScheduleRetry
  /\ restSchedule' = IF ok THEN ScheduleTtl ELSE ScheduleRetry
  /\ refresh' = None
  /\ Answer(t, ok \/ cached)
  /\ UNCHANGED <<extrasCache, restExtras>>

(* The excursions are half of the products; the extras come next either     *)
(* way.                                                                     *)
ExcursionsFetched(t, ok) ==
  /\ Become(t, [task[t] EXCEPT !.at = "slot", !.half = ok, !.calls = 0,
                               !.reauthed = FALSE, !.attempt = 0])
  /\ UNCHANGED <<schedule, extrasCache, rests>>

(* A failure replaces even an expired good entry.                           *)
ExtrasFetched(t, ok) ==
  LET c == task[t].currency
  IN /\ extras' = [extras EXCEPT ![c] =
                     IF ok THEN [is |-> "ok", left |-> ExtrasTtl]
                     ELSE [is |-> "failed", left |-> ExtrasRetry]]
     /\ restExtras' = [restExtras EXCEPT ![c] =
                         IF ok THEN ExtrasTtl ELSE ExtrasRetry]
     /\ slot' = [slot EXCEPT ![c] = None]
     /\ Answer(t, ok \/ task[t].half)
     /\ UNCHANGED <<schedule, everCached, restSchedule>>

Fetched(t, ok) ==
  CASE task[t].what = "schedule" -> ScheduleFetched(t, ok)
    [] task[t].what = "excursions" -> ExcursionsFetched(t, ok)
    [] task[t].what = "extras" -> ExtrasFetched(t, ok)

FetchGoesOn == UNCHANGED <<schedule, extrasCache, rests>>

(* retry_with_pacing: an attempt failed with an error worth retrying.       *)
RetryOrFail_OneMore(t) ==  \* mutant: attempt <= max_retries
  IF task[t].attempt <= MaxRetries
  THEN /\ At(t, "backoff")
       /\ FetchGoesOn
  ELSE Fetched(t, FALSE)
RetryOrFail(t) ==
  IF task[t].attempt < MaxRetries
  THEN /\ At(t, "backoff")
       /\ FetchGoesOn
  ELSE Fetched(t, FALSE)
-----------------------------------------------------------------------------
(* PrincessGuestClient::get_json and bearer.                                *)

TakeToken(t) ==
  /\ task[t].at = "token"
  /\ tokenLock = None
  /\ token > 0
  /\ holders' = holders \cup {t}
  /\ At(t, "pace")
  /\ UNCHANGED <<client, schedule, extrasCache, rests, granted>>

(* The lock is held while the new token is paced and fetched.               *)
BeginMint(t) ==
  /\ task[t].at = "token"
  /\ tokenLock = None
  /\ token = 0
  /\ tokenLock' = t
  /\ At(t, "minting")
  /\ UNCHANGED <<token, gap, limiter, schedule, extrasCache, rests, granted,
                 holders>>

Minted(t) ==
  /\ task[t].at = "mintSent"
  /\ token' = TokenLife
  /\ tokenLock' = None
  /\ holders' = {t}
  /\ granted' = granted \ {t}
  /\ At(t, "pace")
  /\ UNCHANGED <<gap, limiter, schedule, extrasCache, rests>>

MintFails(t) ==
  /\ task[t].at = "mintSent"
  /\ tokenLock' = None
  /\ granted' = granted \ {t}
  /\ RetryOrFail(t) \/ Fetched(t, FALSE)
  /\ UNCHANGED <<token, gap, limiter, holders>>

(* A 401 drops the stored token, whoever minted it, and is tried once more  *)
(* in the same attempt.                                                     *)
Unauthorized_Always(t) ==  \* mutant: already_retried is not asked
  /\ task[t].at = "sent"
  /\ task[t].what # "schedule"
  /\ granted' = granted \ {t}
  /\ Become(t, [task[t] EXCEPT !.at = "drop", !.reauthed = TRUE])
  /\ FetchGoesOn
  /\ UNCHANGED <<client, holders>>
Unauthorized(t) ==
  /\ task[t].at = "sent"
  /\ task[t].what # "schedule"
  /\ granted' = granted \ {t}
  /\ IF task[t].reauthed
     THEN /\ Fetched(t, FALSE)
          /\ holders' = holders \ {t}
     ELSE /\ Become(t, [task[t] EXCEPT !.at = "drop", !.reauthed = TRUE])
          /\ FetchGoesOn
          /\ UNCHANGED holders
  /\ UNCHANGED client

DropToken_Keeps(t) ==  \* mutant: tried again with what is stored
  /\ task[t].at = "drop"
  /\ tokenLock = None
  /\ At(t, "token")
  /\ UNCHANGED <<client, schedule, extrasCache, rests, granted, holders>>
DropToken(t) ==
  /\ task[t].at = "drop"
  /\ tokenLock = None
  /\ token' = 0
  /\ holders' = {}
  /\ At(t, "token")
  /\ UNCHANGED <<tokenLock, gap, limiter, schedule, extrasCache, rests, granted>>

(* fetch_schedule is a single attempt.                                      *)
CallFails(t) ==
  /\ task[t].at = "sent"
  /\ granted' = granted \ {t} /\ holders' = holders \ {t}
  /\ \/ Fetched(t, FALSE)
     \/ task[t].what # "schedule" /\ RetryOrFail(t)
  /\ UNCHANGED client

CallSucceeds(t) ==
  /\ task[t].at = "sent"
  /\ granted' = granted \ {t} /\ holders' = holders \ {t}
  /\ IF task[t].calls > 1
     THEN /\ Become(t, [task[t] EXCEPT !.at = "token", !.calls = @ - 1,
                                       !.reauthed = FALSE, !.attempt = 0])
          /\ FetchGoesOn
     ELSE Fetched(t, TRUE)
  /\ UNCHANGED client

(* A new attempt starts over, token and limiter included.                   *)
Retry_InPlace(t) ==  \* mutant: the limiter is outside the retried closure
  /\ task[t].at = "backoff"
  /\ Become(t, [task[t] EXCEPT !.at = "sent", !.attempt = @ + 1,
                               !.reauthed = FALSE])
  /\ UNCHANGED <<client, schedule, extrasCache, rests, granted, holders>>
Retry(t) ==
  /\ task[t].at = "backoff"
  /\ Become(t, [task[t] EXCEPT !.at = "token", !.attempt = @ + 1,
                               !.reauthed = FALSE])
  /\ UNCHANGED <<client, schedule, extrasCache, rests, granted, holders>>
-----------------------------------------------------------------------------
(* princess_schedule.                                                       *)

Step(isCached, isFresh, isBlocked) ==
  CASE isFresh -> "serve"
    [] ~ isFresh /\ ~ isBlocked -> "refresh"
    [] ~ isFresh /\ isBlocked /\ isCached -> "serveStale"
    [] ~ isFresh /\ isBlocked /\ ~ isCached -> "unavailable"
Peek == Step(cached, fresh > 0, blocked > 0)

AskSchedule(t) ==
  /\ task[t].at = "idle"
  /\ LET asked == [Answered(t, TRUE) EXCEPT !.what = "schedule"]
     IN IF Peek = "refresh"
        THEN Become(t, [asked EXCEPT !.at = "peeked", !.half = cached])
        ELSE Answer(t, cached)
  /\ UNCHANGED <<client, schedule, extrasCache, rests, granted, holders>>

(* try_lock; on failure the copy of the first peek (`half') is served, and  *)
(* without one the request waits.                                           *)
TryRefresh(t) ==
  /\ task[t].at = "peeked"
  /\ IF refresh = None
     THEN /\ refresh' = t
          /\ At(t, "locked")
     ELSE /\ IF task[t].half THEN Answer(t, TRUE) ELSE At(t, "waiting")
          /\ UNCHANGED refresh
  /\ UNCHANGED <<client, cached, fresh, blocked, extrasCache, rests, granted,
                 holders>>

WaitRefresh(t) ==
  /\ task[t].at = "waiting"
  /\ refresh = None
  /\ refresh' = t
  /\ At(t, "locked")
  /\ UNCHANGED <<client, cached, fresh, blocked, extrasCache, rests, granted,
                 holders>>

(* A refresh may have completed since the first peek.                       *)
PeekAgain_Skips(t) ==  \* mutant: the first peek decides
  /\ task[t].at = "locked"
  /\ At(t, "pace")
  /\ UNCHANGED <<client, schedule, extrasCache, rests, granted, holders>>
PeekAgain(t) ==
  /\ task[t].at = "locked"
  /\ IF Peek = "refresh"
     THEN /\ At(t, "pace")
          /\ UNCHANGED refresh
     ELSE /\ Answer(t, cached)
          /\ refresh' = None
  /\ UNCHANGED <<client, cached, fresh, blocked, extrasCache, rests, granted,
                 holders>>
-----------------------------------------------------------------------------
(* products_shared.  The excursion search is one call here: further pages   *)
(* repeat it as the extras' calls do.                                       *)

AskProducts(t, c) ==
  /\ task[t].at = "idle"
  /\ Become(t, [Answered(t, TRUE) EXCEPT !.at = "token", !.calls = 1,
                                          !.what = "excursions",
                                          !.currency = c])
  /\ UNCHANGED <<client, schedule, extrasCache, rests, granted, holders>>

(* extras_step, asked under the slot's lock.                                *)
ExtrasStep(entry) ==
  CASE entry.is = "ok" /\ entry.left > 0 -> "use"
    [] entry.is = "failed" /\ entry.left > 0 -> "blocked"
    [] OTHER -> "fetch"

AskExtras_Unlocked(t) ==  \* mutant: the slot is released before the fetch
  LET c == task[t].currency
      step == ExtrasStep(extras[c])
  IN /\ task[t].at = "slot"
     /\ IF step = "fetch"
        THEN Become(t, [task[t] EXCEPT !.at = "token", !.what = "extras",
                                       !.calls = Pages])
        ELSE Answer(t, step = "use" \/ task[t].half)
     /\ UNCHANGED <<client, schedule, extrasCache, rests, granted, holders>>
AskExtras(t) ==
  LET c == task[t].currency
      step == ExtrasStep(extras[c])
  IN /\ task[t].at = "slot"
     /\ slot[c] = None
     /\ IF step = "fetch"
        THEN /\ slot' = [slot EXCEPT ![c] = t]
             /\ Become(t, [task[t] EXCEPT !.at = "token", !.what = "extras",
                                          !.calls = Pages])
        ELSE /\ Answer(t, step = "use" \/ task[t].half)
             /\ UNCHANGED slot
     /\ UNCHANGED <<client, schedule, extras, rests, granted, holders>>
-----------------------------------------------------------------------------
(* The client goes away; the caches keep what they had.                     *)
Released(lock, t) == IF lock = t THEN None ELSE lock
Cancel(t) ==
  /\ task[t].at # "idle"
  /\ Answer(t, TRUE)
  /\ tokenLock' = Released(tokenLock, t)
  /\ limiter' = Released(limiter, t)
  /\ refresh' = Released(refresh, t)
  /\ slot' = [c \in Currency |-> Released(slot[c], t)]
  /\ granted' = granted \ {t}
  /\ holders' = holders \ {t}
  /\ UNCHANGED <<token, gap, cached, fresh, blocked, extras, rests>>

Less(n) == IF n = 0 THEN 0 ELSE n - 1
Tick ==
  /\ task' = [t \in Task |-> [task[t] EXCEPT !.due = Less(@)]]
  /\ token' = Less(token)
  /\ gap' = Less(gap)
  /\ fresh' = Less(fresh)
  /\ blocked' = Less(blocked)
  /\ extras' = [c \in Currency |-> [extras[c] EXCEPT !.left = Less(@)]]
  /\ restSchedule' = Less(restSchedule)
  /\ restExtras' = [c \in Currency |-> Less(restExtras[c])]
  /\ UNCHANGED <<tokenLock, limiter, cached, refresh, slot, everCached,
                 granted, holders>>

(* Steps that wait for a lock, and steps that do not.                       *)
Locks(t) ==
  \/ Enter(t) \/ TakeToken(t) \/ BeginMint(t) \/ DropToken(t)
  \/ WaitRefresh(t) \/ AskExtras(t)
Runs(t) ==
  \/ Pass(t) \/ Minted(t) \/ MintFails(t) \/ Unauthorized(t) \/ CallFails(t)
  \/ CallSucceeds(t) \/ Retry(t) \/ TryRefresh(t) \/ PeekAgain(t)

Next ==
  \/ \E t \in Task : AskSchedule(t) \/ \E c \in Currency : AskProducts(t, c)
  \/ \E t \in Task : Locks(t) \/ Runs(t) \/ Cancel(t)
  \/ Tick

(* A tokio mutex is handed over in the order it was asked for, so a waiter  *)
(* is not overtaken for ever.                                               *)
Fairness ==
  /\ \A t \in Task : WF_vars(Runs(t)) /\ SF_vars(Locks(t))
  /\ WF_vars(Tick)

Spec == Init /\ [][Next]_vars /\ Fairness
-----------------------------------------------------------------------------
(* Properties.                                                              *)

Fetching(t, what) == task[t].what = what /\ task[t].at \in
  Holding \cup {"token", "pace", "paced", "sent", "drop", "backoff"}

(* At most one request fetches the schedule, and one the extras of a        *)
(* currency, whoever waits, is served meanwhile or goes away.               *)
SingleFlight ==
  /\ \A t, u \in Task :
       Fetching(t, "schedule") /\ Fetching(u, "schedule") => t = u
  /\ \A t, u \in Task :
       /\ Fetching(t, "extras") /\ Fetching(u, "extras")
       /\ task[t].currency = task[u].currency
       => t = u

(* No fetch starts while what the last one brought is fresh, nor within the *)
(* back-off after the last one failed; requests that queued up behind a     *)
(* failing fetch do not each repeat it.                                     *)
FetchesRest ==
  [][\A t \in Task :
       /\ ~ Fetching(t, "schedule") /\ Fetching(t, "schedule")'
            => restSchedule = 0
       /\ ~ Fetching(t, "extras") /\ Fetching(t, "extras")'
            => restExtras[task[t].currency] = 0]_vars

(* A schedule once fetched is served for ever after: no failure, back-off   *)
(* or refresh in progress ever takes it away.                               *)
NeverRefusedAgain == \A t \in Task : ~ task[t].refused

(* Whichever requests share the client, the limiter lets two of them pass   *)
(* only min_interval apart.                                                 *)
PassesAreApart == [][granted' \ granted # {} => gap = 0]_vars

(* Every request sent to Princess, a retry, a re-authenticated one and the  *)
(* minting of a token included, has passed the limiter on its own.          *)
EverySendIsPaced ==
  \A t \in Task : task[t].at \in {"sent", "mintSent"} => t \in granted

(* A request repeated after a 401 never carries the token that was          *)
(* rejected, even when others drop and mint tokens in between.              *)
RetriesWithFreshToken ==
  [][\A t \in Task :
       /\ task[t].at = "token" /\ task[t].reauthed /\ task'[t].at = "pace"
       => t \notin holders]_vars

(* Every request is answered or has left: no two of them wait for each      *)
(* other's locks.                                                           *)
RequestsEnd == \A t \in Task : task[t].at # "idle" ~> task[t].at = "idle"
=============================================================================
