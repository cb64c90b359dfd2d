# royaltracker in TLA+

royaltracker watches the prices of cruise add-ons (drink packages, excursions)
and tells people when one drops. This directory models its core logic,
model-checks it with TLC on small instances and proves the central results with
TLAPS for every instance.

## The system

One database (SQLite or Postgres) is shared by three programs:

- the **scraper**, a CronJob with `concurrencyPolicy: Forbid` and
  `restartPolicy: OnFailure`: public sweep, discovery of every account's
  bookings, price check of every watch, in that order, then exit;
- the **bot**, a long-lived Telegram process that registers and unlinks
  accounts and serves the web API;
- the **web API**, inside the bot: a Telegram Mini App for registered users and
  a public, login-free tier.

Nothing else is shared. Every statement is its own transaction except where the
code opens one, so any two programs interleave between any two statements.

### Inventory

| component | state | operations | what is hard | what makes it correct |
|---|---|---|---|---|
| alert rules (`core/src/diff.rs`, `public_sweep.rs::qualifies`, `types/src/lib.rs`) | none | `detect_diff`, `qualifies`, `has_departed`, `has_ended` | two floors, a strict crossing, two copies of one rule, date edges | one alert per crossing; both tiers agree; what is hidden is not priced |
| authenticated price watch (`core/src/scrape.rs`) | `products_watched`, `price_snapshots`, `diffs`; the loop's locals, a subscriber cache, ids to mark | `run_scrape_cycle` | crash between insert, send and mark; partly failed fan-out; stale cache; web requests between its statements | every diff is a real drop; nobody is told twice; a mark is honest; only subscribers are told; a cycle ends |
| watch handlers (`web/src/handlers.rs`) | the same tables | `add_watched`, `remove_watched`, `set_alert` | check-then-act across awaits, seeding a price history | a seed is the first snapshot (it is not, see known departures); answers are the user's own |
| users and cruise accounts (`storage`, `handlers.rs`, bot) | `users`, `cruise_accounts`, `booking_subscribers` | register, refresh, unlink, unregister | credentials replaced while a login is in flight, removal while a discovery is persisting | outcomes belong to the credentials that were tried |
| booking discovery (`core/src/bookings.rs`, `princess.rs`) | `bookings`, subscriptions, the login outcome of an account | `discover_account`, `discover_with_clients`, `discover_princess`, `upsert_booking` | several people on one booking, partial failures, two lines claiming one reservation number, columns refreshed by halves | a booking never changes line; a subscription rests on a login; no account is skipped; cabin news is sent once; deck and recovered room are the cabin's |
| public sweep (`core/src/public_sweep.rs`) | `tracked_products`, `sailing_snapshots`, `sailing_diffs`, failure counters, public channels | `run_public_sweep`, `sweep_one` | one fetch for many products, gone push endpoints, lookups that record between two sweeps | only qualifying active subscribers are told; failures are counted, not swallowed |
| public web tier (`web/src/public.rs`) | public channels and subscriptions | `prices`, `subscribe`, `remove_subscription` | concurrent lookups, device cookies shared by endpoints | a device manages only its own subscriptions |
| Princess caches (`core/src/princess.rs`, `web/src/public.rs`) | extras per currency, one schedule, one per-run price cache | `get`, `princess_schedule`, `products` | concurrent callers, a lock held across a fetch, back-off after failure | one fetch at a time, none during back-off, stale data only when a refresh fails |
| API clients (`api/src`) | rate limiter, session token, guest token | `wait`, `retry_with_pacing`, `ensure_token` | concurrent token refresh, retries beside the limiter | requests are spaced; a token is fetched once |
| catalog refresh (`core/src/catalog.rs`, `handlers.rs`) | `catalog_cache` | `refresh_catalog`, `browse_catalog`, `search_catalog` | a long copy beside rebookings and removals | nobody reads or fills another's catalog |
| Mini App reads (`web/src/handlers.rs`, `auth.rs`) | `deck_plans`, and the tables above | `list_bookings`, `list_watched`, `history`, `deck_plan` | ownership checked in one statement and used in the next, midnight, the spelling of a ship | answers are the user's own; ended cruises are hidden; a plan is fetched once |
| bot dialogue (`bins/royaltracker-bot`) | per-chat dialogue in memory | commands, messages, callbacks | restart loses the dialogue, updates of one chat interleave | a password is used only for the line it was asked for |
| migrations, cabin tables, notification rendering, crypto, configuration, front end | | | | formatting, I/O or stateless; see `PROJECT.json` |

## Modules

`AlertRules` holds the pure rules; the other modules extend it.

`PriceWalk` drives the rules alone over every short history of one watch.

`WatchScrape` is the core: `run_scrape_cycle` one database statement, send or
fetch at a time (`pc` is where its loop is), together with the three watch
handlers as requests with a program counter of their own (`req[q].at`), the
operations that change who is subscribed, and the crash of the scraper. The
correspondence:

| code | model |
|---|---|
| `list_active_watched`, `watches_to_price` | `BeginCycle` fills `todo` |
| every `continue` before `latest_snapshot` | `SkipWatch` |
| a quote and its `Utc::now()` | `FetchPrice`; `fetched`, `clock` |
| `latest_snapshot(..).ok().flatten()` | `ReadPrevious`; `prev` |
| `insert_snapshot`, then `detect_diff` | `StoreSnapshot`, `StoreSnapshotFails` |
| `insert_diff` | `InsertDiff`, `InsertDiffFails` |
| `subscribers_cache` | `cached` (its keys), `cache` (its values) |
| `list_subscribers_for_reservation(..).unwrap_or_default()` | `LookupSubscribers` |
| one `notify_price_drop` | `Notify(u, ok)` |
| `diffs_to_mark`, `mark_notified` | `toMark`, `MarkNotified(ok)` |
| pod killed, job restarted | `Crash`, `BeginCycle` |
| `add_watched` | `AddCheck`, `AddUpsert`, `AddLooks`, `AddStamps`, `AddSeeds` |
| `remove_watched`, `set_alert` | `ChangeCheck`, then `RemoveWatched` / `SetAlert` |
| an error or a dead web process | `RequestEnds` |

The reads a handler makes before its first write are one step: what they see
can go out of date before that write either way. `attempts`, `acked`, `nobody`
and `seen` are history and guard nothing.

`PublicSweep` is the login-free tier: `run_public_sweep` one statement, fetch or
send at a time beside the web requests that look prices up, subscribe and
unsubscribe. The correspondence:

| code | model |
|---|---|
| `list_sailings_to_scrape` and the `HashMap` of groups | `Targets`, `BeginSweep`, `GroupOf` (a group is a sailing) |
| `princess.is_none()`, `continue` | `SkipPrincess` |
| the group's fetch: catalog, error, planner not open | `FetchGroup(s, result)` |
| `note_fetch_failure` | `NoteFailure(p, ok)` |
| `latest_sailing_snapshot`, `Utc::now()` | `ReadPrevious`; `prev`, `fetched` |
| the two statements of `record_public_price` | `StorePrice`, `ResetFailures` and their failures; the comparison follows the second |
| `insert_sailing_diff(..).ok()` | `InsertDiff`, `InsertDiffFails` |
| `list_public_subscriptions_for(..).unwrap_or_default()`, `qualifies` | `ListSubscriptions`; `pending` keeps the rule as it was listed |
| `notify_price_drop`: ok, `SubscriptionGone`, other error | `Send(x, outcome)` |
| `deactivate_channel_by_endpoint` | `Deactivate(ok)` |
| `any_sent \|\| subs.is_empty()`, `mark_sailing_notified` | `EndFanOut`, `Mark(ok)` |
| `prices` | `LookupFetches`, then per product `LookupTracks`, `LookupStores`, `LookupResets` |
| `subscribe` | `SubscribeTracks`, `SubscribeChannel`, `SubscribeRow` |
| `remove_subscription` | `RemoveSubscription` |

The clock only moves on when somebody stamps a price or time passes, so stamps
never repeat; two prices stamped in the same nanosecond would overwrite one
another in the code. `drops`, `alerts`, `acked`, `nobody`, `seen` and `gone`
are history and guard nothing.

`AlertLedger` is the abstract specification of the alerts: drops are recorded,
told to each user at most once while open, closed, and marked only if they
reached somebody or had nobody to reach. `WatchScrape` implements it under the
mapping in `Ledger`.

`Discovery` is the accounts and their bookings: `discover_account` one statement
or login at a time, in the scraper's Phase A and inside the web requests
`register` and `refresh`, beside removals, `/unregister` and kills. `Registration`
extends it with the bot's dialogue on the same tables.

| code | model |
|---|---|
| `register`: `upsert_user`, `upsert_cruise_account`, the read back | `RegisterUser`, `RegisterAccount`, `FindAccount` |
| `refresh`; the scraper's `list_active_cruise_accounts` | `Refresh`; `LoadAccounts` (`todo` holds the rows as they were read) |
| `decrypt` failing; `discover_account` | `DecryptFails`; `StartAccount` (`old` is the snapshot of `list_bookings`) |
| one brand's login and `list_bookings_for`; Princess's login and summary | `LoginFails`, `ListFails`, `LoginLists` (what is listed is a choice among `Shows`) |
| `discover_assigned_stateroom`, `collect_own_rooms` | `RoomsBehind` over the orders and every set of them that could be read |
| `upsert_booking`: the sailing, the merge and the guard, one transaction | `StoreBooking`, `StoreFails`; `Stored`, `Merged`, `SameLine` |
| `subscribe_user_to_booking`; `detect_cabin_event` | `Subscribe`, `SubscribeFails`; `CabinEvent`, `IsNews` |
| `list_subscribers_for_reservation(..).unwrap_or_default()`, the sends | `LookupSubscribers`, `Tell` |
| `record_login_outcome` | `RecordOutcome`, `RecordFails` |
| `remove_cruise_account`, `deactivate_user` | `RemoveAccount`, `Unregister` (each one transaction) |
| a killed pod, a client that leaves, an early `?` | `Stop` |
| `DialogueState`, in memory | `dialog` |
| `/register`, `/cancel`, `/unregister`, `/test`; the keyboards | `SendRegister` ... `SendTest`; `PressLine`, `PressRemove` |
| `on_message`; `link_account`; `test_account` | `TypeLogin`, `TypePassword`; `LinkUser`, `LinkAccount`, `LinkStored`; `TestLogin` |
| the bot's pod restarted | `Restart` |

`shown`, `dead`, `untried`, `told`, `retold` and `wanted` are history.

`PrincessGateway` is how web requests in flight reach Princess: the schedule and
extras caches over the guest client they share. Every deadline is the ticks
left to it, so runs are unbounded and the state is not; a sleep ends at any
time after its due time, which covers the jitter and the back-off's length.

| code | model |
|---|---|
| `RateLimiter::wait`, its mutex held while it sleeps | `Enter`, `Pass`; `limiter`, `gap` |
| `bearer`, its mutex held while a token is minted | `TakeToken`, `BeginMint`, `Minted`, `MintFails`; `token`, `tokenLock` |
| `get_json`: a 401 drops the token and tries once more | `Unauthorized`, `DropToken` |
| `retry_with_pacing` | `RetryOrFail`, `Retry` (`attempt`) |
| `search_all`, `fetch_extras`, `fetch_schedule` | `calls` of one fetch; `CallSucceeds`, `CallFails` |
| `schedule_step`, `peek`, `store_ok`, `store_failure` | `Step`, `Peek`, `ScheduleFetched` |
| `princess_schedule`: first peek, `try_lock`, waiting, second peek | `AskSchedule`, `TryRefresh`, `WaitRefresh`, `PeekAgain` |
| `products_shared`: excursions, then `PrincessExtrasCache::get` | `AskProducts`, `ExcursionsFetched`, `AskExtras`, `ExtrasFetched` |
| a client that goes away: its handler is dropped, its locks released | `Cancel` |

The search for excursions is one call, although `search_all` may ask for further
pages: a second page is a call like the extras' second one. The `std::sync` mutexes
around a single read or write are no steps. `restSchedule`,
`restExtras`, `everCached`, `granted`, `holders` and `refused` are history.

`MiniApp` is the requests that answer from the tables: catalog refresh, browse
and search, the lists of bookings and watches, a watch's history and removal,
deck plans. A request is a state record (`req[q]`: which handler, how far, what
it still goes over and what it will answer); `CheckOwner` ... `CachePlan` are its
statements in order and `Leave` is every way to end early. Discovery, the bot
and `add_watched` are its environment: `StoreBooking` (which also rebooks),
`Subscribe`, `RemoveAccount`, `Register`, `Unregister`, `AddWatch`, `Midnight`.
A ship's code is a ship and whether it is typed in the letters of the table:
the ownership test ignores case, `ship_name` does not. `held`, `fellows` and
`ended` record what was true at some moment since the request came.

`MC*` modules give constants their values for TLC; `*Proofs` modules hold the
proofs.

Boundary: prices are integer cents. The code compares `f64` dollars, so at the
exact one-dollar or one-percent boundary its answer can differ by rounding; the
modules say nothing about that last digit. Dates are day numbers in UTC.

## Runs

| run | bounds | shows |
|---|---|---|
| `price_walk` | five prices around the two floors, two thresholds, four days, lengths -2, 0, 2 | threshold alerts are one-shot per crossing, the tiers agree, a booking alerted on is not hidden the day after |
| `watch_race` | one watch, one request at a time beside the scraper, two prices and no promo, a threshold between them, four stamps | diffs are real drops; one drop is one diff, but for a seed that overtakes a quote in hand and is compared with twice |
| `watch_fanout` | two users, two watches of one reservation, three stamps, one crash, no requests | alerts at most once, to subscribers of the cycle, honest marks, the ledger |
| `watch_live` | two users, one diff, no crash | cycles end; what reached somebody is marked |
| `public_history` | one product, two browsers, one lookup at a time beside the sweep, two prices and no promo, a threshold between them, four stamps, two diffs, one crash | drops are real, threshold alerts come once per crossing, marks are honest |
| `public_fanout` | one browser, two products of a sailing, one subscribe request at a time, three stamps | only wanted alerts; a gone endpoint is not retried |
| `public_live` | two sailings, one of them Princess without a client, one crash, no web requests | a pass ends |
| `discovery` | two partners on one guarantee booking, one web request beside one scraper run, two credentials | outcomes stay with their row, a cabin is told once, no account is skipped |
| `registration` | one user with both lines, both listing one booking number; two orders, one naming two rooms and one shared with another cabin; one web request beside the dialogue | subscriptions rest on a login, a booking keeps its line, deck and recovered room are the cabin's, linking needs a `/register` that goes on, deleted logins stay deleted |
| `assigned_stale` | one user, one guarantee booking | finding, below |
| `princess_gateway` | two requests, one currency, one retry, lifetimes of one or two ticks, two calls for extras | one fetch at a time and none too soon, every send paced, rejected tokens not sent again, no schedule lost, no deadlock |
| `mini_app` | two partners, two reservations of one ship, one of them over after the first day and rebookable, one request at a time, one midnight | answers are one's own, fellows are fellows, ended cruises hidden, no deck plan fetched twice |

Why the bounds are enough: four stamps allow two full checks and two seeds, the
shortest history in which a seed can separate two comparisons of one price; two
watches of one reservation are what it takes to hit the subscriber cache; two
users are what it takes for a fan-out to fail in part; one crash with the three
stamps leaves room for a full cycle after it. `watch_race` keeps everybody
subscribed and `watch_fanout` has no requests: the two halves meet only in
`watched` and `ruleOf`, which a cycle copies when it begins, and the proofs
cover both together. Deadlock is not checked where the bounds stop the model.

The public runs split in the same way. Four stamps allow two drops of one product
with a lookup's price before, between or after them; two products of one
sailing are what it takes for an endpoint to be found gone by one and tried by
the other; two browsers are what it takes for a fan-out to fail in part.
`public_fanout` and `public_live` begin with one stored price, so that a pass can
find a drop at once. `FRESH_HOURS` is no time at all in these instances, so
that a second lookup fits; a longer one only disables lookups.

`discovery` needs two accounts of different users to show one booking twice to one
run, and two credentials to remove and relink an account during a login;
`registration` has no scraper run, whose passes differ from a request's only in
the snapshot and the sends that `discovery` covers. In `princess_gateway` two
requests already meet at every lock, three different lifetimes (fresh, back-off,
token) expire in every order, and one retry is the bound and one past it. In
`mini_app` the other requests are what its environment does to the tables; two
requests share nothing else, except the deck plans, which are only ever added.
None of these three stops, so deadlock is checked in all of them.

Fairness: `watch_live` asks weak fairness of `ScraperStep` only. The schedule
starts the scraper again and again and its loop waits on no other program; users,
requests and crashes owe nothing. It adds that no crash happens and
`mark_notified` succeeds, because the code keeps neither promise otherwise.
`public_live` asks weak fairness of `SweepStep` alone: the sweep is a loop that
waits on no other program, the API clients time out after 30 seconds, and an
error is a step like any other. That a push service answers at all is an
assumption: the web push client has no time-out, and a send that hangs would hold
the job, and with `concurrencyPolicy: Forbid` every later one. It has no web requests because they can neither take
nor hold anything the sweep waits for.
`PrincessGateway` asks weak fairness of every step that waits for no lock (the
HTTP client times out after 30 seconds, sleeps end) and of time, and strong
fairness of taking a lock: tokio's mutexes are first come, first served. Clients
need not ever leave.

## Findings

- `assigned_stale`: `upsert_booking` keeps `assigned_stateroom` whenever a refresh
  brings none, and discovery brings none once the cabin is no longer "GTY". The
  room recovered earlier stays beside the officially assigned one, and
  `list_bookings` takes deck and location from it, although `types/src/lib.rs`
  says the field is set only while the cabin is "GTY".

## Known departures

Where the code does less than a comment of its own suggests; each follows from
the code as it is modelled and none is a run of its own.

- `repo.rs:196-197` documents a one-day grace for `list_sailings_to_scrape` that
  neither backend implements (`sail_date > today`): what the sweep does on the sail
  day contradicts the trait's comment, and no property says which is right. The
  backends' own comment and `has_departed` go with the code.
- `add_watched` looks for a snapshot and seeds in separate statements, so a snapshot
  the scraper stores between them is followed by the seed that the comment at
  `handlers.rs:628-631` means to avoid. A seed that overtakes a quote stamped but
  not stored is the baseline of two successive cycles, and one crossing is alerted
  twice, against the one-shot of `diff.rs:13-15`. `OneDiffPerDrop` shows that no
  later diff compares with it, and leaves out of its other claims the watches that
  have a seed stamped after a scraped price.
- A diff whose sends all failed stays unmarked and nothing reads unmarked diffs;
  the comment at `scrape.rs:189` speaks of re-processing.
- `record_public_price` is two statements: the price can be stored and the failure
  counter keep its value, and the sweep then returns without comparing.
- A visitor's lookup moves the baseline of the public sweep without comparing, so a
  drop that is looked up first reaches no subscriber.
- Two registers of one line that overlap read the account back by user and line,
  so one is tried with the other's login and its own password.
- A register in flight during `/unregister` stores its account afterwards: the user
  is inactive with a stored login, which the next `upsert_user` revives, against
  the comment of `deactivate_user`.
- A cabin change stored first by a web refresh, which has no notifier, is never
  told. A pass in flight during `remove_cruise_account` subscribes the user again.
- `/unregister` in the middle of a dialogue leaves the dialogue; finishing it links
  the user again. After a restart the message with a password typed next is no
  longer deleted from the chat.
- A failed refetch of the extras replaces even a good entry that has expired,
  while the schedule keeps its stale copy. A 401 drops the stored token even if
  another request has minted it since.
- `handlers.rs:376-377` says that ended cruises are hidden everywhere in the Mini
  App. `current_bookings_for` filters the two lists of `EndedStayHidden`; search,
  browse and history do not filter.
- Catalog rows are never removed, and a refresh that read a booking before it was
  rebooked stores the products of its old sailing.
- The two backends differ where the models do not look: the order of search results,
  `%` and `_` in a search, the precision of timestamps.

Two comments of `public_sweep.rs` that the model contradicts without a run of
their own: line 280 counts a missing Princess client as a failure, but
`SkipPrincess` never reaches `fetch_princess`; line 271 marks a diff when there
was no one to reach, but a listing whose rules all fail to qualify is not empty.

## Proofs

For every set of users, reservations, watches, requests and prices and every
bound, from the named assumptions on the constants alone (`PriceAssumption`,
`ScrapeAssumption`, `SweepAssumption`, `DiscoveryAssumption`, `NoneAssumption`,
`GatewayAssumption`, `MiniAppAssumption`; `AssignmentsAreToldOnce` and its copy for
the bot also from `BrandAssumption`):

- `WatchScrapeProofs`: `TypeCorrect`, `DropsAreReal` and `DropsAreToldOnce`. The
  invariant `TypeInv` adds what the scraper holds at each `pc` (a watch and a quote
  after the fetch, a baseline that made a diff, the diff's id), without which the
  later steps have no type. `DropInv` follows a quote from its stamp, newest when
  taken and overtaken only by seeds, to its row, stored before the diff, and keeps
  the baseline a stored snapshot of the same watch. `OrderInv` adds that the
  baseline in hand is no older than the end of any diff of its watch, that the
  quote in hand is newer than all that any diff compared, hence that the diffs of a
  watch follow each other (`InSequence`), and that no two scraped prices have one
  stamp. Where besides no seed is stamped after a scraped price, the later diff's
  baseline is the price at or above the threshold between two threshold alerts.
- `WatchAlertProofs`: `AlertedOnce`, `MarksAreHonest`, `AlertsReachSubscribers`
  and the refinement `ScraperImplementsLedger`. None of the properties is
  inductive. `AlertInv` says that row ids are unique and unused ids have no
  history, that the diff in hand is a row of the watch in hand, that whoever is
  pending has not been tried, that `any_sent` means an acknowledgement, that what
  is queued for marking has earned it, and that cached and pending subscribers
  were seen active in this cycle.
- `AlertRulesProofs`: `SameAlerts`, `OneShot` and `AlertsAreShown` for all
  prices, thresholds and dates; `StillBelow` says that a spent threshold is still
  above the last quote, `FiredInTime` that the day after an alert is no later than
  the sail date.

- `PublicSweepProofs`: `PublicTypeCorrect`, where `TypeInv` again adds what the sweep
  and each request hold at each point; `PublicMarksAreHonest`, where `MarkInv` says
  that `any_sent` is lowered before a diff is inserted and, once raised, belongs
  to the diff at hand; and the action properties `PublicAlertsAreWanted` and
  `GoneStaysGone`, where `WantInv` says that what is active has been seen active
  and is not gone, and that an endpoint is pending once, so that the dead one is
  not among those still to be tried.
- `PublicDropProofs`: `PublicDropsAreReal`, `NothingDetectedTwice` and
  `PublicCrossingOnce`. `DropInv` says that stamps lie in the past and are unique
  among stored prices, the sweep's and every lookup's; that the baseline is
  stored, older than the quote in hand and no older than the end of any drop of
  that product; and that pending and sent alerts qualify. The last theorem follows
  from the first two: two crossings that do not overlap are separated by the
  later one's baseline.

- `PrincessGatewayProofs`: `TypesHold`, `OneFetchAtATime`, `SendsArePaced`,
  `PassesArePaced`, `FetchesAreRested`, `RetriesAreFresh`, `NeverRefused`. None is
  inductive. The invariant says that whoever sleeps in the limiter holds it and is
  due no sooner
  than `gap` runs out, which makes passes lie apart; that whoever fetches holds
  the refresh lock or the slot of its currency (and mints holding the token's),
  which makes fetches single; that a request that answered a 401 and is about to
  take a token has let go of the rejected one; and that the rest owed to a
  schedule or to extras is never longer than the freshness or back-off the cache
  itself keeps, which is why a fetch that the cache allows is allowed. `Serves`
  says that nothing empties the schedule cache once it is filled, so that whoever
  finds the refresh taken, the back-off running or the fetch failed has one to
  answer with.

- `MiniAppProofs`: `TypesHold`, `AnswersStayOwn`, `SharedWithFellows`, `EndedAreHidden`
  and `CachedPlansAreServed`. The tables may change between any two statements of
  a request, so none is inductive. `Booked` says that a subscription is to a stored
  booking; `Fits` relates what a request carries at each stage to what was true
  at some moment since it came: the arguments of its operation (`Argued`), the
  reservations it has checked or listed to `held` (`Owning`), the names beside them
  to `fellows` (`Sharing`), what it has read of dates to `ended` (`Hiding`), and a plan
  found in the cache to the cache as it is now (`Planning`); `Covers` says that the
  histories hold at least what the tables hold now.
- `DiscoveryProofs` (of `Discovery` and `Registration`): `SubscribersWereShown`,
  `AssignmentsAreToldOnce`, `ChatKeepsThePromises`,
  `OutcomesStayWithTheirRow`, `DetailsFollowTheCabin`, `RecoveredRoomsAreOwn`,
  `LinesAreKept`, `DeletedLoginsStayDeleted`, `LinkingIsWanted`, `NoAccountIsSkipped` and the types.
  `TablesInv` says that every credential and account id in the tables and in
  anybody's hands has been issued, that ids belong to one user and line, and that
  no stored account holds deleted credentials; that what a pass is about to
  store or subscribe to was shown to its user on its line; and that
  a summary's deck and recovered room are the cabin's before it is merged.
  `Tries` says that what a run has not tried is still in its hands. `NewsInv` says
  that whoever was told of a cabin, it is stored; that no pass but the scraper's
  has a snapshot; and that of the bookings an account's pass has at hand or may
  still list, nobody has been told of one that was "GTY" in its snapshot. So a told
  booking leaves what is still to come: a login lists it once (`Orderly`), and no
  later brand lists it. The last is `BrandAssumption`: `list_bookings_for` asks each
  host for the bookings of its own brand (`?brand=R`, `?brand=C`). It is needed:
  the snapshot is taken once for both logins, and with a reservation listed by both
  TLC finds a subscriber told twice by one account's pass. Of `Shows`
  it is assumed that cabins are cabins and that Princess shows no "GTY", and of
  `None` that it is no row.

Not in a run because proved for every instance: the type invariants of `PriceWalk`,
`WatchScrape`, `PublicSweep` and `Registration`, and `DropsDoNotOverlap`, from which
`CrossingOnce` follows.

With that every invariant and action property that a passing run checks is
proved. Only model-checked are the liveness properties (`CycleEnds`,
`AckedIsMarked`, `SweepEnds`, `RequestsEnd`), which are out of the prover's reach.

## Not modelled

- What the cruise lines' and the push services' answers look like: parsing, with
  its tests, changes no state. An answer is a choice among outcomes.
- `PrincessPriceCache`, which lives for one run and fetches each key once; the RCG
  client's pacing, whose retries repeat the send without the limiter.
- Listing handlers of the public tier, `get_me` and `list_accounts`: one or two reads.
- Cabin numbers, deck tables, money formatting, message texts: data and wording.
- Migrations (they run before anything else), HMAC and encryption (library calls),
  configuration, the front end, the charts beyond the CronJob's policy.
