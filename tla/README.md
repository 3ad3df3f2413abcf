# ev-betting-engine in TLA+

A verification project for the betting engine of this repository: TLA+ modules of
its core, TLC configurations that check them on small instances, and TLAPS proofs
of the safety properties for every value of the constants. Paths of the program
are relative to the repository (`src/src/...` is the Python package).

1. [The system](#1-the-system)
2. [What is hard, and what has to hold](#2-what-is-hard-and-what-has-to-hold)
3. [Modules](#3-modules)
4. [Runs](#4-runs)
5. [Bounds, and why they are enough](#5-bounds-and-why-they-are-enough)
6. [Fairness](#6-fairness)
7. [Proofs](#7-proofs)
8. [Findings](#8-findings)
9. [Abstractions, and what is not modelled](#9-abstractions-and-what-is-not-modelled)
10. [Plan](#10-plan)

## 1. The system

One asyncio process: a FastAPI application with an APScheduler job inside. Every
request and every tick opens a database session and, if it runs the pipeline, a
headless browser.

| Component | State it keeps | Operations | Correct when |
|---|---|---|---|
| Session layer (`persistence/session.py`, `upserts.py`, `models.py`) | engine and session factory of the process; per session its uncommitted rows and locks | open, upsert of a team, league, bookmaker, match or player, insert of a quote, stats row, bet, settlement or factor, flush, close | a row is created once; sessions that wait for each other end |
| Repositories (`persistence/repositories/*`) | none (the session) | `save` (flushes, never commits), reads | what is saved is what is read back in the session |
| Run pipeline (`run_pipeline.py`, `ingest_*.py`) | local variables of the coroutine: slate, answers, bets so far | per match: sharp odds, local odds, player stats, match bets, prop bets | bets rest on rows saved before; the result is what was saved; any exception ends the run |
| Detection (`detect_match_value_bets.py`, `detect_player_prop_value_bets.py`) | lists of detections | group by market, skip or price, save; resolve player, price, save | a group or prop without data is skipped, not priced |
| Settlement (`settle_bet.py`) | none | look a bet up by its natural key, insert its result | only bets on file are settled |
| Calibration (`calibration/*.py`, `compute_correction_factors.py`, `get_calibration_report.py`) | none (the settled bets on file) | recompute factors, report | factors and report speak of the same bets; a factor calibrates the bets it came from |
| Scraping (`providers/scraping/*`) | driver, browser, context, pages outside of the process | start, new page, navigate, click, read, parse, close | nothing outlives a session; errors are translated; retries are bounded |
| The Odds API, Sportmonks adapters (`providers/api/*`) | an HTTP client | GET with retries, mapping of answers | failures are `ProviderError`s; quotes go to the outcome they are about, forms are of the latest matches |
| Row mappers (`persistence/mappers.py`), list filters (`list_value_bets.py`) | none | entity to row and back; `GET /value-bets` | rows read back as saved; the list follows the schedule |
| Market, match and player models (`domain/services/*`) | none | devig, EV, Kelly; Dixon-Coles; Poisson props, confidence | a bet exceeds the threshold under each opinion it claims; no discount makes value |
| Scheduler, application (`scheduler.py`, `app.py`) | the job, the cached engine | tick, start, shutdown | ticks do not overlap; shutdown leaves nothing |
| HTTP API (`routers/*`, `exception_handlers.py`, `dependencies.py`) | none | 7 routes; exception to status | every request is answered, its session and browser closed |
| Web panel (`frontend/`) | query cache, forms | list, run, settle | what it shows is what is on file |

How they interact. A tick (`scheduler.py:24`), `POST /pipeline/run` and
`POST /value-bets/query` build the same `RunPipelineUseCase` over a session and a
browser of their own. The use case calls the ingestion and detection use cases in
sequence; they await providers (a web page, two HTTP APIs) and save through
repositories, which flush into the session's transaction: every row touched is
locked until the session ends. `POST /value-bets/settle` and the two calibration
requests use a session alone. Sessions meet in the database only: in the rows they
upsert, and in what is committed.

## 2. What is hard, and what has to hold

`PROJECT.json` lists the hazards with their lines. The main ones:

* **Transactions across awaits.** A run flushes rows of its first match and keeps
  their locks while it waits for pages and APIs, for all of its slate. Runs,
  queries and settlements interleave at every await and flush, wait for each
  other's rows, deadlock (PostgreSQL) or are refused (SQLite).
* **Failure at any point.** Nothing between a provider and the exception handlers
  catches; one player without statistics, one totals line, one unreachable page
  ends a run of many matches, after rows were flushed.
* **Two records of one thing.** The result a run returns against the rows it
  saved; the match the loop holds against the match the odds API has reported;
  the segments of the factors against those of the report.
* **Resources outside of the process.** Half-started browsers, pages of failed
  calls, a close that raises inside a close.
* **Numbers at a border.** A bucket border, a segment without a win, pushes.

## 3. Modules

```
UnitOfWork  <-- Pipeline <-- Service <-- MCService         (TLC)
    ^                           ^   \--> RunContract       (INSTANCE: refinement)
    |                           |
    |                      ServiceProofs <-- ResultProofs  (TLAPS)
    |--- UnitOfWorkProofs (TLAPS)
    \--- Calibration <-- MCCalibration (TLC), CalibrationProofs (TLAPS)

Ratios <-- Pricing <-- Market, Props \
  ^  \---- Goals -------------------- Offers <-- MCPricing (TLC), PricingProofs (TLAPS)
  \------- Records <-- MCRecords (TLC), RecordsProofs (TLAPS)

HttpClient <-- Lifecycle (TLC) <-- LifecycleProofs (TLAPS)
Scraping (TLC) <-- ScrapingProofs (TLAPS)
```

**UnitOfWork** is the session layer over an external database. `own[s]` is a
session's uncommitted version of each reference row, `ledger[s]` the append-only
rows it inserted, `writes[s]` the statements a repository call has issued and not
yet run; `stored` and `disk` are what is committed. `Open`, `Issue`, `Get`, `Flush`,
`Refuse` and `Close` are `async with session_factory()`, a `save` call, the
`session.get` of an upsert, a flushed statement, a busy timeout or deadlock victim,
and the end of the context manager. An upsert is two steps, as in `upserts.py`: `Get`
decides between an INSERT, an UPDATE and nothing from what the session sees
(`Decided`), `Flush` runs what was decided, and other sessions act in between. An INSERT
of a row that is there by then fails the session (`Duplicate`, phase `collided`).
`Serialized` selects the write locking: one writer (SQLite, the default
`DATABASE_URL`) or row locks and unique keys (PostgreSQL). `UowSpec` is the layer
used in any way at all: the abstract specification that `Service` implements.

**Pipeline** is `RunPipelineUseCase.execute` with the use cases it calls. One action
is one await of a provider with the repository calls made on its answer, or one
turn of a detection loop; statements are flushed one by one in between, so another
session can act between any two. `pc[s]` is the await the coroutine stands at,
`work[s]` its local variables. `Raises(step)` are the exceptions an await can end
with, and `Answer` with `StatusOf` is `exception_handlers.py`.

**Service** is the process: any number of sessions that are ticks, runs, queries or
settlements, ticks never two at once. `Next` is the event loop.

**RunContract** is what a caller of a run may rely on: it works through a slate
match by match, adds bets of the match at hand only, and returns all of it or
nothing. `KeepsRunContract` is the refinement from `Service` (bets of completed
matches; `running` from the moment the slate is known).

**Calibration** takes every table of settled bets over a small set of rows, and the
two requests over it. Probabilities are integers out of `Unit`. Sums are exact:
a factor is a pair of sums, and a prediction on the border of two buckets may fall
in either, as a float division may. `correction_factor.py` and
`calibration_service.py` segment on their own and are modelled apart
(`SegmentsOf`, `ReportedIn`), so that their agreement is a property.

**Scraping** is one `PlaywrightBrowserSession` and the calls made in it. `alive` is
what exists outside of the process, `fields` what the session has a reference to,
`todo` what `close()` has yet to release; `refused` and `faults` are history.
Playwright may raise at any operation, any close may raise, and `Crash` may kill
the browser at any moment.

**Ratios** is exact rational arithmetic, in lowest terms, for the modules that
follow. **Pricing** is what both detectors share: edge, threshold, Kelly stake.

**Market** takes an event of The Odds API to sharp quotes (`Label` is the mapping of
names to Home, Draw, Away; `Unmappable` a price that `DecimalOdds` rejects), devigs
them (`Multiplicative`, `Additive`, with what they raise), and detects:
`MarketDetect`, `DetectIndependent` and `DetectWithConfirmation` are the detectors of
`detector.py` and `match_value_detector.py`.

**Goals** takes score events to the form of a team (`TeamForm`), forms to strengths
and expected goals, and those to the grid of scores with its low-score correction
and the markets summed from it (`MatchProbabilities`). The stable sort of the results
is written as what it puts ahead of each (`Ahead`), and the slice as those with fewer
than `FormWindow` ahead. The grid is normalised in the code, so the common factor of the
two Poisson distributions cancels and everything stays rational.

**Props** takes lineups and injury reports of Sportmonks through the use case's
dictionaries (`Resolved`, `LineupOf`, `InjuryOf`: the later entry wins) and the model:
minutes, the weighted rate, the expected count, the confidence and what it leaves of
a probability.

**Offers** puts the pricing modules to use: a behaviour chooses a configuration and
what it is about (an event, scores, two forms, a lineup with its injury report) and
receives it line by line or entry by entry, from providers that are external; the
properties compare what the modules make of it. Its assumptions are the validation of
`Settings`, `Stake`, `Probability`, `DecimalOdds` and `TeamForm`.

**Records** is the tables behind a bet: `SaveBet`, `SaveMatch` (the upsert that moves a
match), `Settle` with the unordered lookup of `settle_bet.py`, `Listed` with the
filters, and the mappings between rows and entities. `enforced` says whether the
database checks `String(64)`: PostgreSQL does, SQLite does not.

**HttpClient** is a provider call of `client.py` with its retries: `Ask`, `Retry`,
`Accept` (an unconfirmed lineup asks once more per player) and `Fail`, which
translates what the last attempt met into the error that reaches the use case.
**Lifecycle** is the process around those calls: `Startup`, `Signal`, `Drained`, `Stop`,
`Dispose` and `Forget` are the lifespan of `app.py` down to the two halves of
`reset_session_factory`, `Due` and `SchedulerStops` the interval job, and a task (the tick
or a request) opens its session on the cached engine, makes its calls and leaves.

**MCService**, **MCCalibration**, **MCPricing** and **MCRecords** give the constants
their values. **UnitOfWorkProofs**, **ServiceProofs**, **ResultProofs**,
**CalibrationProofs**, **PricingProofs**, **RecordsProofs**, **ScrapingProofs** and
**LifecycleProofs** hold the theorems (section 7).

Operators marked `[mutant]` are variants of the definition after them with a
plausible bug: each is named in `PROJECT.json` with the property that notices it.

## 4. Runs

| Run | Instance | States | Shows |
|---|---|---|---|
| `service_flow` | 1 session, 2 matches, 2 players, 3 market groups; every kind of answer and exception; both modes; three committed stores | 243 k | types; bets follow the quotes and stats they rest on; the result is what was saved; slate order; what becomes of a re-read kickoff; refinement of `RunContract` |
| `service_postgres` | 2 sessions (runs, queries, settlements) over one slate, row locks; matches that kick off apart and at once, bookmakers known and new | 68 k | no get-then-add collides; runs never deadlock over their matches alone; everybody is answered, deadlock victims included (liveness) |
| `service_sqlite` | 2 sessions (ticks, runs, queries, settlements), one writer | 33 k | everybody is answered, refused writers included (liveness) |
| `calibration` | every table of at most 4 of 5 kinds of settled bets, 2 requests, buckets of width 0.3 | 42 k | factors calibrate their own bets; the report's segments, curve and filters agree with the factors |
| `scraping` | any number of calls in a session, 3 attempts | 2 k | nothing abandoned; pages closed; translated errors; retry budget; termination |
| `pricing` | every payload, form, lineup and report of small sets, four configurations | 91 k | both opinions agree with what each would do alone; neither order nor spelling nor a discount makes value; markets of a match are coherent |
| `records` | 3 bets and a settlement on 2 matches that move, two kinds of database | 192 k | rows read back as saved; a settlement is worth the odds asked for; the list follows the schedule |
| `lifecycle` | the tick and a request from startup to shutdown, 4 attempts per call, every kind of answer | 19 k | engines accounted for; transport failures are 502; ticks keep coming; shutdown ends (liveness) |
| `service_persist`, `service_uncovered`, `calibration_zero_win`, `scraping_leak` | as above | | violations, section 8 |

The safety properties in words:

* `NothingIsCreatedTwice`: between the get that finds no row and the INSERT decided on,
  other sessions may create the same match, player or bookmaker, and no session ever runs
  into such a row. What makes it true is the lock of the unique key, which makes the
  second INSERT wait, and that the first session rolls back when it ends: a commit in
  the repositories (a repair that finding 1 may suggest, and the mutant of this
  property) breaks it, as does one at the end of a session, and `upserts.py` would have to
  retry.
* `CirclesNeedASharedRow`: sessions that wait for each other in a circle always wait for
  a row that matches share (a bookmaker, a player), or for two matches that kick off at
  one time. Matches alone make no deadlock: runs take them in the order of the kickoffs
  that `list_upcoming` returns, and hold none of a later match before an earlier one.
  Both kinds of circle do arise in the run.
* `EveryRequestEnds` (liveness): every session that starts ends, closed, whatever it
  waits for.
* `BetsFollowQuotes`, `PropsFollowStats`: in the order of inserts, a match bet
  comes after its local quote and, in CONFIRMATION mode, after the sharp quote of
  its match; a prop bet after the stats of its player.
* `ReturnedBetsAreSaved`: the answer of a run is the sequence of bets it inserted.
* `LedgerInKickoffOrder`: what is inserted when something fails is about a prefix
  of the slate in kickoff order.
* `LocalQuotesRestoreKickoff`: a characterisation rather than a wish: the kickoff
  the odds API reported is overwritten with the older one as soon as a local quote
  of the match is saved.
* `CorrectionIsCalibrated`: multiplied with its factor, the mean prediction of a
  segment is the frequency of wins in it. `OverallWithinMarkets`: the overall
  factor lies between those of the markets, if all are trusted.
  `ReportMatchesFactors`: a trusted segment has one report entry with the same
  sample and sums. `BucketsBracketPredictions`: every prediction is counted in a
  bucket whose bounds contain it, for every width, but for what lies beyond the last
  bucket of a width whose buckets end short of 1 (section 9). `FilterIsASegment`: a
  filtered report is the segment of the full one.
* `ConfirmedIsTheIntersection`: a bet in CONFIRMATION mode is on an outcome that each
  model would bet on alone, and the other way round: the second check, on the
  blend, never drops one. `ValueBeatsTheSharpPrice`: with a margin and distinct
  labels, a bet is at longer odds than the sharp quote of its outcome.
  `MisnamedMarketIsNeverPriced`: a team spelt in another way is labelled Draw, and
  no full market is priced against such an event.
* `FormIgnoresPayloadOrder`: a form does not depend on how the scores are listed, if no
  two usable results are at one time (of two that are, the window takes the one listed
  first).
  `ScoreMarketsAreCoherent`: whatever the low-score correction does, the markets are
  probabilities, monotone in the line.
* `DiscountScalesTheEdge`: confidence scales the edge, so no prop is a bet that would
  not be one at full confidence. `FullConfidenceNeedsEvidence`: full confidence means
  the player himself is in an official lineup, and the last readable report on him
  calls him fit; his expected count is then that of the minutes the lineup gives him.
* `RowsReadBackAsSaved`, `SettledAtTheOddsAsked`, `ListingFollowsTheSchedule`: a bet reads
  back as saved but for its match, which is as last announced; whichever of the
  rows at the same odds a settlement takes, profit per unit and closing line value
  are those of the request; a bet is listed where its match was last announced, and
  what the list shows suffices to settle it.
* `EnginesAreAccountedFor`: at most one engine is left undisposed (a tick that asks for
  the factory after the reset makes one), and no request works on a disposed one.
  `TransportFailuresAre502`: it excludes a 429 with a date for `Retry-After` and a
  payload that an entity rejects (both in section 9).
  `TicksKeepComing`, `WindsDown` (liveness): no failure or 429 keeps the one instance of
  the job, and a signalled process comes to rest.
* `NothingIsAbandoned`, `PagesAreClosed`, `OnlyClosingLeaks`, `RetryBudget`: see
  the comments in `Scraping.tla`.

## 5. Bounds, and why they are enough

* **Two sessions.** Lock conflicts are between pairs; with two matches, two players
  and two bookmakers they can touch rows in opposite orders, so the deadlock and
  the refusal both happen (both are reached in the runs: `Refuse` fires). The
  safety theorems hold for any number. The runs of two sessions have one answer of each
  kind, and neither lineups nor props: rows of players are locked like those of
  bookmakers. `service_postgres` leaves out ticks, which are runs that never overlap, and
  its matches have a totals line only, which is skipped: what a bet inserts locks no row
  that another session wants. `service_sqlite` has both.
* **Three databases** in `service_postgres`: both bookmakers new; both known, so that
  runs contend for matches only; both known, with matches that kick off at once.
* **Two matches, two players.** Slates of 0, 1 and 2 matches, one of them not known in one
  of the databases: an empty run, a query that is answered 404, a run
  that fails on the first and on the second, and bets of two matches to confuse.
  Of the players one is in the lineup and covered, one only injured, without stats
  or unknown.
* **Three market groups.** 1X2 (quoted by the sharp book), a totals line the model
  prices, and one it does not.
* **Sharp answers**: none, full, partial, with an earlier, equal or later kickoff.
* **Kickoffs 0..3 and `Now` = 1**: a past match, one that starts now, later ones.
* **Four settled bets of five kinds, `MinSampleSize` 2, buckets of width 3 out of 10
  (three, the last ending at 9), predictions on their borders and beyond**: segments below, at and above the minimum; pushes;
  bets without a bookmaker and props without a type.
* **Three attempts** (the default of `base.py`): first, middle and last.
* **Pricing**: three lines of one event out of four names and four prices (the
  invalid 1, two that differ little, one long shot), after at most one line that
  belongs to another book or market; full and partial local groups; weights 0, 1/2
  and 1, thresholds 0, 2 % and 10 %, the two rational devig strategies. Four score
  events out of eight (three of them unusable, two at one time) with a window of three
  (`_FORM_WINDOW` is ten): more results than the window holds. All pairs of the forms of
  one match up to 3:3 and lopsided ones of three that take the correction below zero; `MaxGoals` 2 (the code's 10
  only lengthens the sums). Two lineup and two report entries over three players of
  whom two share a name.
* **Records**: three bets of four kinds, one settlement, four announcements
  (`MaxBets`, `MaxSettled`, `MaxSchedule`): two rows at the odds asked for and one that
  is not, and a match that moves before and after it is bet on.
* **Lifecycle**: one request beside the tick, four attempts as in the code, lineups
  of up to two unconfirmed players and two calls per run (`MaxEntries`, `MaxCalls`).
  Tasks meet only in the engine and in the lifespan, so pairs suffice; the safety
  theorems hold for any number.

## 6. Fairness

`FairSpec` of `Service`: weak fairness of a session's steps: a coroutine that can
go on does, and an awaited provider answers, raises or times out (httpx and
Playwright have default timeouts); strong fairness of `FlushNext`: a database hands
a released lock to whoever waits and does not starve it for ever. Nothing is
assumed of callers: `Start` and `BeginSettle` may never come. Deadlocks need no
fairness of their own: `DatabaseError` is one of a session's steps.

`FairSpec` of `Lifecycle`: weak fairness of startup, of the lifespan after its signal
(uvicorn goes on when the requests have ended), of the scheduler's queued shutdown,
of the interval timer while the scheduler runs, and of each task's steps: awaits
end, by answer, error or timeout. None for `Signal` and `Accepted`: the server may
run for ever and no request need come.

`FairSpec` of `Scraping`: weak fairness of starting, of the steps of a call and of
closing, and of leaving after a failure. `Crash` and the caller have none.

## 7. Proofs

TLAPS proves, for every value of the constants under the `ASSUME`s of the modules:

* `UnitOfWorkProofs`: lemmas on the session layer, used by both modules of requests.
  `UowInv == UowTypeOK /\ RowExclusion /\ GetsHold /\ NothingIsCreatedTwice` is
  preserved by every step of it. `RowExclusion` (no two sessions hold a version of one
  row; with one writer, at most one session has written) and `GetsHold` (a session that is
  about to create a row still sees none) are what makes the last conjunct inductive. They
  say how the database is modelled and are not results about the code.
* `ServiceProofs`: `Spec => []Inv`, with `Inv == UowInv /\ RunInv`; `CreatesOnce` is its
  part on the session layer. `RunInv` adds the
  types of the run's variables, that a session writes nothing before its first answer,
  and that every slate is of known matches, of which the run is in the middle when its `pc`
  says so: without it `Current` and `Group` have no type. Steps of a run are
  first shown to be one step of `UnitOfWork` or none (`ServiceUsesUnitOfWork`, the
  refinement `Spec => UowSpec`), which carries the invariants of the layer over.
  `BetsRestOnQuotes` and `PropsRestOnStats` need more: `TraceInv`, that what a run
  remembers of its answers (`local`, `cover`, `history`, `props`) is in its ledger or
  still pending in `writes` ahead of anything that rests on it (`LedgerFollows`,
  `PendingFollows`, `Remembers`, `Prices`).
* `ResultProofs`: what a run leaves and what it returns. `ResultInv` says, per session:
  the slate is in the order of the committed kickoffs (`SlateSorted`); nothing is
  inserted before the first provider answers and nothing is left to flush after the
  answer (`Bounded`); the rows inserted, followed by those still to be flushed,
  contain exactly the bets of the coroutine's lists, in their order, and come match by
  match, none about a match the run has not come to (`Trails`); a local quote that is
  inserted has put the committed kickoff back, and one that is pending comes after the
  upsert that will (`Restored`). From it follow `ReturnsWhatItSaved`,
  `SavesInKickoffOrder` and `QuotesPutKickoffBack`, for slates of any length. None of the
  three is inductive alone: the lists grow when statements are issued and the ledger
  when they are flushed, so the invariant relates the two at every await between.
  `MatchesMakeNoCircle` rests on one more conjunct, `Climbs`: the matches a session holds
  kick off no later than its current one, and what it has yet to write of matches is the
  current one. So a session waits for a row of its current match, held by one that is
  at a match that kicks off no earlier; the two wait for different rows, of
  different kickoffs unless they tie; along a circle kickoffs would rise for ever, and a
  set of naturals has an earliest (`EarliestOf`).
  `KeptInv` (the bets to be returned are about the current match or earlier ones) then
  gives the refinement `Spec => KeepsRunContract`, action by action: a step of a session
  is, to the caller of its run, one step of `RunContract` or none.
* `CalibrationProofs`: from `CalInv == UowInv /\ CalTypes /\ FactorsOnly /\ Reported`
  follow the six properties of the `calibration` run, for every finite table, `Unit`,
  `BucketWidth` and `MinSampleSize`, and the refinement `Spec => UowSpec`. `FactorsOnly`
  says that what sessions insert are factors of the committed settled bets, `Reported`
  that an answer is a report on them, for one of the filters. The
  rest is lemmas on sums over finite sets: they split over disjoint sets, are monotone
  and bounded, and a sum over all bets is the sum over the markets of their sums, which
  is what `OverallWithinMarkets` needs.
* `RecordsProofs`: from `RecordsInv == RecordsType /\ Current /\ Named /\ Filed /\ Paired`
  follow the three properties of the `records` run, for any announcements, bets and
  requests. `Current` says that the match table holds the last announcement of each
  match, `Filed` that each row of bets is the image of the bet saved at its place and
  refers to rows that exist, `Named` that a bookmaker is filed under its
  own name, `Paired` that each settlement copies a row at the odds asked for, with the
  result and the closing odds asked for.
* `PricingProofs`: the invariant, `OffersInv`, is only the types of what was received;
  the work is in the operators. `ConfirmationIntersects`: the blend of two
  probabilities whose edges exceed the threshold has an edge that does, at every
  weight in [0, 1], so the second check of `_try_build_value_bet` never drops a bet, and
  the loops of `DetectWithConfirmation` and of the two single detectors select the same
  outcomes. `ValueIsAboveTheSharpPrice`: with a margin, neither devig method gives an
  outcome more than its raw implied probability, so only longer odds have an edge.
  `MisspeltTeamsAreRefused`: a full market needs both `Home` and `Away`, and only the
  names of the fixture get those labels. `DiscountsMakeNoValue`: the edge is linear in
  the probability, and the stake grows with it. `FullConfidenceIsEarned`: a product of
  two factors of at most one is one only if both are, and the last of the entries on a
  player, which every dictionary of the use case keeps, decides his minutes and his
  status. `FormIsOfTheLatest`: a rearrangement of the payload moves the window along
  with it (`LastPlayedMoves`), and keeps sizes and sums. `FormsAreValid`: the sort is a
  strict order of all results, so all others of the window are ahead of its earliest,
  and they are fewer than `FormWindow`. `MarketsOfAMatchAgree`: the cells of the grid are
  naturals, the markets sums over parts of it, and one cell is always positive: 0-0
  unless rho is above 0, and then 0-1. No real rho leaves the grid empty, and
  "underflowed to zero" (`xg_model.py:190-195`) is only reached by floats. Under these
  are lemmas on fractions
  (sums, products, order, `Gcd` and `Reduced`) and on the loops, which the modules write
  as recursive functions and which are first shown to have a value for every input.
* `ScrapingProofs`: from `ScrapingInv == TypeOK /\ Accounted /\ Faultless /\ Budgeted`
  follow `NothingIsAbandoned`, `PagesAreClosed`, `OnlyClosingLeaks` and the action property
  `RetryBudget`, for any `MaxAttempts`. `Accounted` relates what is alive to what the
  session or its `close()` still refers to, `Faultless` says which errors can be
  under way at each step, and `Budgeted` bounds the attempt counter of a call.
* `LifecycleProofs`: from `LifecycleInv == TypeOK /\ OneEngine /\ RequestsAreOver /\
  TransportFailuresAre502` follow `EnginesAreAccountedFor` and the other two invariants of
  the `lifecycle` run, for any tasks, attempts and lengths of a lineup. `OneEngine` says
  that what is not disposed is what `session.py` holds, with the window between the
  dispose and the forgetting of the engine spelt out; `RequestsAreOver` that the
  lifespan only goes on without requests. `FactoryIsHeld` is the lemma on
  `get_session_factory()`, and `FailuresAre502` the one on the translation of errors.

The theorems name the properties that the runs check; TLC has checked those first.

Induction. The library's induction theorems take a predicate as a parameter, which
no backend can instantiate. `WFMin` does not: a non-empty set has a minimal element
under a well-founded relation. Applied to sets of sets under strict inclusion it gives
induction over finite sets (`SubsetInduction`) and over numbers (`NumberInduction` in
`PricingProofs`), with a set in the place of the predicate. That is how sums over finite
sets, the greatest common divisor, powers and the loops of the pricing modules are
reasoned about. The lemmas on sums stand in both `CalibrationProofs` and
`PricingProofs`.

Lengths. The SMT encoding of tlapm 1.4.5 takes `Len(s) = n` for any `s` to mean
`DOMAIN s = 1 .. n`. That is right for sequences only: an obligation in which `Len` meets
a function on, say, `0 .. n` can be proved from the contradiction alone. The lemmas on
loops are therefore stated for a number `k` and without `Len`, definitions that mention a
length are hidden where a function on `0 .. k` is picked, and every SMT obligation
of the eight modules has also been solved by Z3 with that axiom restricted to the direction
that holds (`DOMAIN s = 1 .. n` gives `Len(s) = n`), or is proved by Zenon.

What is assumed of the constants, beyond types, and where the code says so:

* `DistinctAssumption`: matches, players and bookmakers are different rows, and the two
  bookmakers are different (they are keys of different tables in `models.py`; the local
  bookmaker is one of the scraped pages, the sharp one is `pinnacle` by default,
  `sharp_odds_provider.py:22`).
* `KindsAssumption`, `AnswersAssumption`: the shapes of what callers and providers send.
* `TablesAssumption`: which row holds what; kickoffs are naturals, a datetime having a first
  (`datetime.min`).
* `CalibrationAssumption`, `ArchivesAssumption`: predictions are in [0, 1] (`Probability`),
  results are the three of `BetResult`, widths and minimal samples are positive, and
  committed tables are finite.
* `BetAssumption`: a saved bet has odds above 1 (`DecimalOdds`) and an edge above its own
  threshold (`detector.py` builds no other). `RequestAssumption`: what
  `SettleBetRequest` lets through. `NullAssumption`: NULL is none of the values.
* `SettingsAssumption`: `config.py` bounds the threshold from below by 0, the Kelly
  fraction and the market weight to [0, 1]. `OffersAssumption`: model probabilities are
  in [0, 1], odds above 1. `HistoryAssumption`: minutes and counts are naturals and
  `ewma_alpha` is in (0, 1]. `GoalsAssumption`: the league average, the home advantage and
  the size of the grid are positive (`config.py:36`, `xg_model.py:125-128`); rho is any
  fraction. A form that is priced is one that `TeamForm` accepts, of at least one match
  (`team_strength.py:69-70`). `PenaltyAssumption`: `player_model.py` rejects penalties
  outside of [0, 1].

Only model-checked:

* liveness (`EveryRequestEnds`, `TicksKeepComing`, `WindsDown`, `EveryCallEnds`): fairness
  and ENABLED are out of the prover's reach. Every other property of a passing run is
  stated by a theorem.

## 8. Findings

Each is a run that TLC finds violated, with the lines in `PROJECT.json`:

1. `SuccessPersists`: no code path commits. A run that was answered 200 has its
   rows rolled back when its session closes, and so do settlements and factors.
   `README.md:44` and `MANUAL.md:97` say they are persisted.
2. `UncoveredPlayersAreSkipped`: a prop with a line on a player of the lineup or the injury
   report for whom the stats provider has nothing ends the run with a `ValueError`; the
   docstring of `detect_player_prop_value_bets.py` says it is skipped. (A prop without a
   line raises by design, `player_prop_detector.py:87-91`.)
3. `TrustedSegmentsAreCorrected`: a segment with enough bets and no win makes
   `CorrectionFactor` raise, so that the recompute answers 400 and no segment gets
   a factor; `README.md:70` promises one for each.
4. `NoPlaywrightErrorLeaks`: `new_page` (and the closes) are outside of every
   translation; `base.py:13-14` says that no Playwright exception may leak.

## 9. Abstractions, and what is not modelled

* A match is its kickoff, a market group one quote, a player's recent matches one
  stats row of a match he played; teams and leagues are written together with
  their match. Whether a priced group or prop is value is a choice, and a group
  yields at most one bet.
* Committed bets and settlements in the initial states (`Archives`) stand for a
  database filled by other means, since the program itself commits nothing.
* The database is external: its locks and refusals are modelled from what
  `session.py` and `upserts.py` rely on. What only restates that (who may hold a row, that
  a rollback leaves nothing) is a lemma or nothing, never a property.
* A `get` reads the session's own version or the committed row. The identity map of
  SQLAlchemy may answer with a copy read earlier; no session commits, so the two agree.
* HTML is abstracted to whether it parses; a JSON body to what the adapters can
  make of it (`HttpClient!Responses`), or to its lines where `Market`, `Goals` and
  `Props` map it.
* Odds, probabilities and stakes are exact fractions. The code uses floats: a
  probability a rounding error away from a threshold may fall on the other side.
  The Poisson tail of a prop is an input (`Chances`): it needs the exponential of a
  fraction.
* In `Records` a call that succeeds keeps its rows. That nothing commits them is
  `SuccessPersists`; here the question is what the rows would mean.
* The requests of two provider calls of one run are made one after the other, as
  `RunPipelineUseCase` does; a tick is cancelled at its next await when the scheduler
  stops, as APScheduler's asyncio executor does.

Seen while modelling, and stated as the code behaves rather than as a run:

* The last 429 of a call with an HTTP date for `Retry-After` raises `ValueError` in its own
  translation (`client.py:157`, and the Sportmonks client at its line 129), and is answered
  400 in place of 502; `exceptions.py:1-8` says that adapters translate every failure of
  the transport. `TransportFailuresAre502` names it as an exception, so it does not guard
  this line.
* With a width that does not divide 1, such as 0.3, the buckets may end short of 1, and the
  last one, reported as [0.6, 0.9], holds predictions up to 1.0
  (`calibration_service.py:116`); the docstring of `CalibrationBucket` calls a bucket one
  range of predictions.
* A payload that an entity rejects raises `ValueError`, answered 400.
  `TransportFailuresAre502` names it.
* A browser that does not come up is a 502 when Playwright's launch fails and a 500 when its
  driver does (`browser.py:52-64`, `Lifecycle!LaunchFails`); `README.md:141` has the first in
  mind.
* An injury status that the mapper does not know is dropped rather than guessed as
  fit (the docstring of `player_stats/mappers.py:138-143`), and a player without a
  report has the confidence of a fit one. `FullConfidenceNeedsEvidence` is about the
  readable ones.
* An outcome of more than 64 characters is a 500 on PostgreSQL and a row on SQLite.
* No path closes the HTTP clients that each request and tick builds.

Not modelled:

* Shin and Power devig (bisection over the reals; neither is wired), log loss and
  Brier score, the exponential in the Poisson tail.
* `absence_adjustment.py`, `latest_by_segment`, `apply_correction_factor`, the trainable
  models (`NotImplementedError`), the batch variants of the odds client: nothing calls
  them.
* Migrations (a chain of DDL scripts, run by hand), rendering, and the web panel but
  for what it needs of the list (`ListingFollowsTheSchedule`).
* Rows of quotes, forms, players and stats, which the mappers copy field by field.

## 10. Plan

In order, all done.

1. `UnitOfWork`, `Pipeline`, `Service`, `MCService`: the core, with its runs.
2. `UnitOfWorkProofs`, `ServiceProofs`.
3. `RunContract`, the abstract run, and the refinement.
4. `Calibration`.
5. `Scraping`, `ScrapingProofs`.
6. `Ratios`, `Pricing`, `Market`, `Goals`, `Props`, `Offers`, `MCPricing`: adapters'
   mappings, models and detectors in exact fractions.
7. `Records`, `MCRecords`: the rows behind a bet, their listing and settlement.
8. `HttpClient`, `Lifecycle`, `LifecycleProofs`: provider calls under startup and
   shutdown.
9. `ResultProofs`: results, order and restored kickoffs, and the refinement of
   `RunContract`.
10. `CalibrationProofs`, `RecordsProofs`, `PricingProofs`.
11. The form and the grid of scores in `PricingProofs`: the sort as an order of
    positions, the powers as a recursive function, with the lemmas on those.
