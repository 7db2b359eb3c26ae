# A verification of the TCPA dial-compliance gateway

This directory holds a TLA+ model of the dial gateway in `src/`, the TLC
configurations that check it on small instances, and TLAPS proofs of its
invariants and refinements for every value of its parameters.

The gateway is a FastAPI service with one real job. A dialer posts a call it
would like to place; the service says `ALLOW` or `BLOCK` with a reason and
leaves a hashed row in an append-only audit ledger. A second endpoint asks a
local language model whether a transcript contains an opt-out.

## 1. Inventory

| Component | Source (below `src/`) | State it keeps | Operations |
|---|---|---|---|
| dial-check route | `app/routers/dial_check.py` | the request and its decision, between awaits | evaluate, stage the audit row, commit, roll back, reply |
| compliance engine | `app/services/compliance_engine.py` | results of three concurrent checks | consent gate, `_check_dnc`, `_check_time_window`, `_check_rnd_safe`, verdict, fail-safe block |
| DNC cache loader | `app/services/compliance_engine.py` | `_dnc_cache`, a process-wide set | `load_dnc_cache`, once at start-up |
| RND registry mock | `app/services/mock_registry.py` | none | answer by the last digit, or hang |
| area codes and zones | `app/core/timezone_maps.py` | a constant table | `resolve_phone` |
| audit ledger | `app/core/security.py`, `app/database/models.py` | `compliance_audit_ledger`, unique `call_id` | `append_audit_record`, `verify_record_hash` |
| engine, pool, sessions | `app/database/connection.py` | pooled connections, SQLite's write lock and WAL | checkout, release, `init_db` |
| start-up | `app/main.py` | whether the app serves | `init_db`, then `load_dnc_cache`, then serve |
| transcript analysis | `app/services/local_llm.py` | one question to the model | ask, time out, strip fences, parse |
| schemas | `app/schemas/validation.py` | none | which payloads and responses exist |
| configuration | `app/core/config.py` | constants | none |
| health endpoint | `app/main.py` | none | reads the cache size |
| DNC generator | `data/generate_dnc.py` | the set of numbers drawn; the CSV file | draw, sort, empty the file, write it |

How they interact:

    dialer --HTTP--> dial_check --await--> evaluate_dial --gather--> _check_dnc          (reads _dnc_cache)
                         |                                      +--> _check_time_window  (session: pool, rules table)
                         |                                      +--> _check_rnd_safe     (mock registry, 2 s budget)
                         +--await--> append_audit_record (flush) --await--> commit | rollback
                         +--> reply

All handlers are coroutines of one event loop. They share `_dnc_cache` (written
once, before serving), the connection pool, SQLite's single write lock and the
ledger. The database outlives the process, and so does the CSV file, which the
generator may rewrite while the application reads it; nothing else does.

What is hard about it, and what makes each part correct:

* **Route and ledger.** The verdict, the flush and the commit are separate
  awaits, so another request with the same `call_id`, a database fault or a
  crash can come between them. Correct means: at most one row per `call_id`;
  every row is the genuine, verifiable row of a decision some request took; a
  handler's idea of its audit write is true; nothing is answered with the write
  still in the air; no path keeps a connection or the lock.
* **Engine.** Three checks finish in any order, may fail, time out or raise, and
  `gather` returns early when one raises. Correct means: an `ALLOW` only if
  every rule holds; the reason of a `BLOCK` true and first in the fixed order;
  the same payload gets the same definitive answer twice.
* **Calling windows.** Zones with and without daylight saving, zones ahead of
  UTC, states with an earlier cutoff, an exclusive end. Correct means: agrees
  with the statute's hours at every boundary, to the second.
* **DNC cache.** The file may be missing, or reading may stop half-way; the
  process must not serve before the list is there, nor after a restart.
* **Pool and lock.** Each request holds a connection from its rule query until
  its audit write has ended, and waits for the write lock while holding it.
  Correct means: nobody waits for ever.
* **Crash and power.** A process crash loses no commit; a power failure may lose
  those the WAL has not synced (`synchronous=NORMAL`), never older ones.
* **Start-up.** Tables, indexes and seeds are created statement by statement,
  and the process may die between any two, start again, perhaps as another
  release, while an operator edits the rules. Correct means: one window per
  state, shipped windows complete before anybody is served, no row altered.
* **Record hash.** `call_id` is free text and may hold the separator the fields
  are joined with. Correct means: verification notices every edit of what was
  hashed and reports no other.
* **DNC file.** Nothing keeps writer and reader apart. Correct means: a line read
  in two pieces never becomes somebody else's number, a finished list is
  enforced whole, every run of the generator writes the same file.
* **Transcript analysis.** The model may not answer, or answer anything at all.
  Correct means: only a clear answer clears a consumer, and everyone who asks is
  answered.

`PROJECT.json` lists each of these at its line under `hazards`, with the
properties that cover it, or a note where none does yet.

## 2. Modules

| Module | Models |
|---|---|
| `DialRules` | the pure part: payloads, decisions, consent gate, DNC normalisation, number resolution, calling window, RND parity, verdict order, ledger row and its hash |
| `AreaCodes` | the routing table of `timezone_maps.py`, all 334 codes |
| `CallingWindows` | the tables the gateway ships: seeded rules, offsets of 2026, `AreaCodes` as the routing table (`ShippedTables`); and the statute's reading of the calling windows (early cutoff code by code, hours from UTC by state), with which `MatchesStatuteTable` compares the verdicts |
| `DialCheck` | the gateway: coroutines, pool, write lock, ledger, faults; its properties; the inductive invariant; the refinement of `Gatekeeper` |
| `Gatekeeper` | the abstract gateway: one permitted decision per request, a set of rows with at most one per `call_id`, which only a power failure can shrink, and never by a row that has been kept |
| `MCDialCheck` | data for TLC: DNC file, payloads, instants; the constants are the tables of `CallingWindows` (`RunsShippedTables`) |
| `InitDb` | the lifespan around its database: `create_all`, seeding, serving, death between statements; the refinement of `RuleBook` |
| `RuleBook` | the abstract rule table: gaps are filled all at once, nothing is altered, nobody is served before |
| `AuditHash` | one ledger row, the text its hash is taken of, edits, `verify_record_hash` |
| `DncList` | the generator and the loader, on one file, character by character |
| `OptOut` | `/analyze-transcript`: question, timeout, fence stripping, parser |
| `MCInitDb`, `MCAuditHash`, `MCDncList`, `MCOptOut` | data for TLC |
| `DialCheckProofs`, `DecisionProofs`, `PromiseProofs`, `WindowProofs` | theorems about `DialCheck`: its invariant; the audit trail and the reasons of decisions; the refinement; the shipped calling windows |
| `InitDbProofs`, `AuditHashProofs`, `DncListProofs`, `OptOutProofs` | theorems about these modules |

`CallingWindows` gives `DialCheck` the tables it runs with in practice; `DialCheck`
itself, and all theorems but one, take any tables. The other modules share no
state with `DialCheck`; each looks closer at something
`DialCheck` takes as given. `InitDb` delivers the rule table (one row per state,
all seeds before serving) and the unique index on `call_id`; `AuditHash` the
injective hash; `DncList` the lines of the DNC file.

Operators whose comment begins with "Mutant:" belong to no specification. They
are the plausible bugs each property has been tried against; `PROJECT.json`
pairs them.

### DialCheck: state and actions

One action is everything a handler does between two awaits. The program counter
`pc[r]` names the await request `r` stands at:

    idle --consent gate blocks----------------------------+
      |                                                   v
      +--ForkChecks--> gather --GatherReturns/Raises--> evaluated
                                                          |  Connect (if it has no connection yet)
             StageDuplicate, StageFails                   |
        undo <--------------------------------------------+
         ^ |                                              | StageRow
         | | Rollback                CommitRow            v
         | +--------> replying <----------------------- staged
         +--------------------------CommitFails-----------+
                         |
                         +--Reply--> done          Crash, PowerLoss: in flight -> lost

| Variable | In the code |
|---|---|
| `up` | `lifespan` has yielded |
| `cache` | `_dnc_cache` |
| `ledger`, `synced` | committed rows; how many a WAL checkpoint has made durable |
| `payload`, `checks`, `answer` | locals of `dial_check` and `evaluate_dial`; once `evaluate_dial` has returned, `checks` is a history of what `gather` gave it, which only properties read |
| `audit` | which branch of the route's `try` was taken |
| `conns` | sessions with a connection checked out |
| `writer` | the session whose transaction has SQLite's write lock |

| Action | In the code |
|---|---|
| `Startup` | `lifespan`, `load_dnc_cache` |
| `RejectAtConsentGate`, `ForkChecks` | stage 1 of `evaluate_dial`, and the call to `gather` |
| `LookupDnc` | `_check_dnc`; it never suspends and is created first, so it ends before the other two take a step |
| `RejectUnknownZone`, `Connect`, `QueryWindow`, `QueryRaises`, `CheckoutRaises` | `_check_time_window`: unknown zone, first use of the session, the query, its two ways of raising |
| `RegistryAnswers`, `RegistryTimesOut`, `RegistryFails` | `_check_rnd_safe` |
| `GatherReturns`, `GatherRaises` | stage 3 of `evaluate_dial`, and its `except` |
| `StageRow`, `StageDuplicate`, `StageFails` | `append_audit_record`: the flush succeeds, meets the unique index, fails otherwise |
| `CommitRow`, `CommitFails`, `Rollback`, `Reply` | the rest of the route and the end of `get_db` |
| `Crash`, `PowerLoss`, `Checkpoint` | the process, the machine and SQLite (external) |

### The other state machines

| Module | State | Actions, in the order of the code |
|---|---|---|
| `InitDb` | `phase`, `schema`, `rules`, `ledger`; `todo`, `unseeded`, `staged`, `shipped` of the start under way | `Start` and `Create`: `create_all` looks once which tables are missing, then creates each with its index; `BeginSeeding`, `InsertSeed`, `CommitSeeds`: the seed loop and its commit; `Serve`; `Record`: an audit row; `Amend`: an operator's edit; `Die` |
| `AuditHash` | `row`, `written`, `verdict` | `AppendAuditRecord`; `Edit`: somebody changes a column of the table; `Verify` |
| `DncList` | `gen`, `drawn`, `numbers`, `file`; `reader`, `pos`, `header`, `fresh`, `cache` | generator: `Generate`, `Draw`, `Truncate` (`open(.., "w")`), `Flush`, `Close`, `GeneratorDies`; application: `StartLoading`, `ReadLine`, `PublishCache`, `AppStops` |
| `OptOut` | `stage`, `content`, `result` | `RejectBlank`: the early return; `Ask`; `ModelReplies`, `ModelTimesOut`, `ModelFails`: the three kinds of end |

### Abstractions

* A telephone number is a country-code flag, an area code and a natural number.
  The schema admits only `+1` and ten digits, so `resolve_phone` is a table
  lookup with a fallback.
* Instants are UTC seconds. `AREA_CODE_MAP`, the tz database and
  `state_dialing_rules` are constants. The proofs hold for any tables of the
  right type; TLC uses the whole routing table, the seeded rules and the offsets
  of 2026.
* SHA-256 has no collisions. In `DialCheck` a hash is the tuple of its fields;
  `AuditHash` shows that the joined text earns this.
* In `AuditHash` destination, decision and timestamp never hold the separator: the
  first is E.164, the second `ALLOW` or `BLOCK`, the third an ISO 8601 time.
* In `DncList` a file is a sequence of digits, plus signs, letters and newlines,
  the random stream a fixed cycle, and a first write may end anywhere while a
  second one brings the rest. A carriage return would be dropped like a letter
  and is left out.
* In `InitDb` a window is a model value, and the ledger only counts rows.
* One worker process. The write lock would serialise several processes just the
  same, but each would have its own cache and pool.
* A session rolls its transaction back in `flush` and again in the route; the
  model keeps the second. `rollback` itself does not fail.
* When `gather` raises, the registry task goes on alone. It touches no shared
  state and is dropped.
* Display fields (`evaluated_state`, `local_call_time`, `processing_ms`),
  logging and the health endpoint are left out.
* In `OptOut`, text is a sequence of the pieces fence stripping can tell apart,
  and a JSON value is what `bool()`, `float()` and the schema can tell apart. The
  JSON may run over several lines and a string in it may quote a fence; stripping
  that cuts the JSON itself leaves something that is not JSON.

## 3. Runs

| Run | Instance | What it shows |
|---|---|---|
| `rules` | 1 request; ten area codes x 4 numbers x every window boundary, all 334 codes at the edges of their own window in both seasons, every consent with every call type; all registry endings | `AllowIsCompliant`, `BlockIsJustified`, `MatchesStatuteTable` over the input matrix |
| `faults` | 2 requests, reused `call_id`, 2 connections; lock and database errors, registry timeouts, crashes | ledger properties, true reasons, nothing leaks, every call answered, `KeepsPromise`: `DialCheck` implements `Gatekeeper` |
| `contention` | 3 requests, 2 connections, one `call_id`; checkout timeouts, database errors, crashes | waits never close a circle (`NoCircularWait`), nobody starves, the invariant (with one row per `call_id` in it) holds, the `call_id` gets its row or every handler knows why not |
| `restart` | 2 requests; crashes, power failures, checkpoints | listed numbers stay blocked after a restart, the invariant holds, and `KeepsPromise` holds with power failures too: rows a checkpoint has synced survive |
| `startup` | 3 starts, 2 windows, 2 seeded states of 3; death outside `create_all` | one rule per state, `KeepsRuleBook`: `InitDb` implements `RuleBook`, every start that is not cut short serves |
| `audit_hash` | texts of up to two characters, `call_id`s with separators; any series of edits | `VerifyIsExact` |
| `dnc_list` | 2 runs of the generator, killed or not, against starts and stops of the application | `CacheIsGenuine`, `FinishedListEnforced`, `FileReproducible`, the generator ends |
| `optout` | every key combination, every wrapping, JSON that quotes a fence or not, not answering | only an explicit answer clears a consumer; wrappers are transparent; every transcript is answered |
| `unrecorded`, `partial_cache`, `malformed_flag`, `torn_rules` | | section 6 |

Why the bounds are enough to be interesting:

* **Requests.** Two suffice for a race on a `call_id`, on the write lock or on
  the last connection. The third one in `contention` waits while one holds the
  lock and another a connection. A request stands for one HTTP call; a retry of
  the same payload is another request.
* **PoolSize** is 2 where requests compete: with two requests the write lock is
  the bottleneck, with three the pool as well.
* **Payloads.** In `rules`, ten area codes against every boundary: the plain
  case, the states with an early cutoff in their own and in another zone, zones
  without daylight saving, one ahead of UTC, one the map lacks (999), and one
  (670) whose zone the host's tz database is taken to lack, which the real one
  does not. All 334 codes are tried at their own opening and closing, one second
  before and at each, as `UtcHours` and `HoursOpen` give it: the early cutoffs are
  listed there code by code, the hours from UTC go by the state. Instants: every
  hour some window opens or closes, one second before, in January and July, and
  the two days the clocks change. In the concurrent runs, payloads that are
  allowed, blocked for one reason, and blocked for two reasons at once; in `faults`
  also a listed number that no rule lets pass (`AllWrong`).
* **DNC file.** In `DialCheck`: a header, a blank line, one number in E.164, two
  as bare digits. In `DncList`: two numbers (`Target`) from a stream that repeats
  one, with leading zeros to lose; two runs (`MaxRuns`), so that a finished file
  is rewritten while it is read.
* **Starts** (`MaxStarts`): one that is cut short, one that repairs, one of another
  release after that. `MaxRows` 2 lets a duplicate row happen if it can.
* **Deadlock** is checked except in `startup` and `torn_rules`, where the last
  allowed start may die and nothing is left to do. `Quiescent` and `Done` are the
  states in which everything has been dealt with.

### Fairness

`FairSpec` assumes weak fairness of each request's own steps, `Handler(r)`: the
event loop runs ready coroutines, `asyncio.timeout` bounds the registry, and
SQLite statements return. Arrivals, faults, crashes and restarts carry no
fairness. Weak fairness is enough: while a handler waits for the lock or the
pool, whoever holds it can always step, and a finite number of requests can
take it away only finitely often. In `OptOut` only `ModelTimesOut` is fair: the
model itself need never answer. In `InitDb` the steps of a start (`Boot`) and in
`DncList` those of the generator (`GeneratorStep`) are weakly fair, being
straight-line code; deaths, starts, edits and the reader carry no fairness.

## 4. Proofs

The theorems hold for every value of the constants that satisfies the named
assumptions (`TablesAssumption`, `NoReasonAssumption`, `DialCheckAssumption`,
`InitDbAssumption`, `AuditHashAssumption`, `DncListAssumption`,
`OptOutAssumption`), which say what kind of thing each constant is: any set of
requests, payloads, tables, DNC file, pool size, faults, any seeds and windows,
any alphabet, any stream of draws and any target it can reach, any text a model
sends.

| Module | Theorem | Statement |
|---|---|---|
| `DialCheckProofs` | `TypeCorrect` | `Spec => []TypeOK` |
| | `UniqueCallIds` | `Spec => []OneRowPerCall` |
| | `ResourcesReturned` | `Spec => []NothingLeaks` |
| | `NoUnlawfulAllow` | `Spec => []AllowIsCompliant` |
| | `NoDeadlock` | `Spec => []NoCircularWait` |
| | `Invariant` | `Spec => []IInv` |
| | `AppendOnly` | `Spec => LedgerAppendOnly`, if `"power" \notin Faults` |
| | `StepsAdvance` | `Spec => [][Advances]_vars`: each step of a handler raises its request's rank (0 to 11), no step lowers any |
| `DecisionProofs` | `GenuineRows` | `Spec => []RowsAreGenuine` |
| | `HonestOutcomes` | `Spec => []AuditOutcomeHonest` |
| | `NoSilentGap` | `Spec => []Accounted`, if `"power" \notin Faults`: an answered call has a row under its `call_id`, or its handler knows why not |
| | `TrueReasons` | `Spec => []BlockIsJustified` |
| | `RetriesAgree` | `Spec => []RetryAgrees` |
| `PromiseProofs` | `Refinement` | `Spec => KeepsPromise`, every fault included |
| `WindowProofs` | `StatuteKept` | `Spec => []MatchesStatuteTable`, if `ShippedTables` |
| `InitDbProofs` | `TypeCorrect` | `Spec => []TypeOK` |
| | `RulesUnique`, `CallIdsUnique` | `Spec => []OneRulePerState`, `Spec => []OneRowPerCallId`, if `"ddl" \notin Faults` |
| | `Refinement` | `Spec => KeepsRuleBook`, if `"ddl" \notin Faults` |
| | `StartsAdvance` | `Spec => [][WorkShrinks]_vars`, if `Seeded` is finite: each statement of a start lowers `Work` (at most the number of seeds and 7), nothing but a new start raises it |
| `AuditHashProofs` | `HashBindsFields` | equal hashes mean equal fields, one by one |
| | `VerificationIsExact` | `Spec => []VerifyIsExact` |
| `DncListProofs` | `TypeCorrect` | `Spec => []TypeOK` |
| | `SameFile` | `Spec => []FileReproducible` |
| | `AsManyAsAskedFor` | a finished file has exactly `Target` rows |
| | `NobodyElse` | `Spec => []CacheIsGenuine` |
| | `AllOfIt` | `Spec => []FinishedListEnforced` |
| | `GeneratorAdvances` | `Spec => [][GeneratorSteps]_vars`: each step of a run lowers `StepsLeft` (at most `Len(Stream) + 4`), no step of the application raises it |
| | `LoaderAdvances` | `Spec => [][LoaderSteps]_vars`: each line read moves the loader forward, never past `2 + 13 * Target` characters |
| `OptOutProofs` | `TypeCorrect` | `Spec => []TypeOK` |
| | `OnlyAnswersClear` | `Spec => []FailsClosed` |
| | `FencesComeOff` | `Spec => []WrappersAreTransparent` |

Two kinds of assumption exclude a fault, because the statement is false with it: a
power failure may take back rows of the ledger (`AppendOnly`, `NoSilentGap`), and
a death inside `create_all` (`"ddl"`) leaves a table without its index, which the
run `torn_rules` shows. `ShippedTables` is no such restriction but the subject of
`StatuteKept`: it says which tables are meant. The constants of the runs satisfy
it (TLC evaluates `RunsShippedTables`), in `rules` with a host that lacks a zone.

### The gateway

None of its safety properties is inductive alone. `IInv` has two halves.

* **The ledger** (`LedgerInv`). A commit must not add a second row for its
  `call_id`. `CommitRow` does not look at the ledger: the row was checked when
  it was staged. So the invariant says that a staged row has the write lock and
  is still fresh (`StagedIsFresh`). It stays fresh because nobody else can
  commit without the lock, and the lock does not change hands before the
  transaction ends (`NothingLeaks`). `HandlerState` says what a handler has at
  hand at each stage.
* **The verdict** (`VerdictInv`). An `ALLOW` uses results of checks that ran
  earlier, against a cache that may have been lost and reloaded in between. So
  each passed check must be passed by the payload as it is (`ChecksAreSound`),
  which for the DNC check needs the whole list in the cache of every serving
  process whose load cannot fail (`CacheComplete`). A crash forgets all checks
  in flight, so no result outlives the cache it came from.

`LedgerInv` also rules out a deadlock (`NoDeadlock`): whoever holds the lock has a
connection and waits for nothing, and if nobody holds it, nobody with a
connection waits. `StepsAdvance` is the other half of termination: `Rank(r)`
counts how far request `r` has come, every step of its handler raises it,
failing ones included, and neither another request nor a crash lowers it. What
is missing for liveness is only that the scheduler lets the steps happen.

On top of `IInv` two more invariants are inductive:

* `AuditInv` (`DecisionProofs`) adds when a handler knows the outcome of its write
  (`OutcomeKnown`): nothing before the flush ends, always after. A committed row
  then stays the row of its request, whose payload and answer no longer change.
* `DecisionInv` (`DecisionProofs`) adds that every result, not only a passed one,
  is what the payload calls for or, the registry's only, a timeout or a fault
  (`ResultsAreTrue`), and that the cache holds nothing that is not on the file
  (`CacheIsListed`). A decision keeps the results it was made from, so its reason
  can be ranked: whatever comes before it had passed, for a timeout and a system
  fault too, unless the rule query raised (`Justified`). Two justified decisions on one payload name the same first
  broken rule, which is `RetryAgrees`.

The refinement of `Gatekeeper` needs all of it. Its mapping hides the cache, the
checks, the pool and the lock, and shows a payload only once it is decided.
`VerdictPermitted` shows that whatever `gather` yields, the verdict is one the
payload permits; `StagedIsFresh` makes a commit an abstract `Record`; a crash is
an abstract `Lose` of exactly the requests in flight. A checkpoint is an abstract
`Keep` of the rows committed so far, and a power failure a `Lose` that may take
any others: rows are committed in order, so what it cuts off lies behind
`synced`. Everything else stutters.

`StatuteKept` compares two readings of the calling windows:
the code goes by zone, with a table row for each area code and a rule row for
some states; the statute side lists the codes with the early cutoff one by one and takes
the hours from UTC by state, with the exceptions named at the
top of `timezone_maps.py`. The two share one column of the table, the state, where
it decides on the hours from UTC: a row that is wrong in state and zone alike, so
that the two still agree, would go unnoticed, as would a wrong state that changes
no hours. The proof takes the table section by section
(`EasternRow` to `IslandRow`, with `EasternCutoff` to `IslandCutoff` for the early
codes): in every row, the zone and the state (or the
exception for that code) give the same hours from UTC and the same answer on
daylight saving. What is left is arithmetic on one local day (`SinceOpening`),
and the nights the clocks change: the two sides switch at different instants,
but in between every window is closed either way (`NightOfChange`). TLC tries this at the boundaries in `rules`; the
theorem is about every second.

### The others

* `InitDb`: once `create_all` has been through, all objects exist (`SchemaKnown`);
  a staged seed has no committed row, and the seeds the loop has passed are
  staged or there (`SeedsKnown`). A commit therefore fills exactly the gaps.
* `AuditHash`: of two joined texts whose last part has no separator the last
  separators coincide (`SplitAtLast`); three times over, all fields coincide.
* `DncList`, the file: what the generator has drawn is a prefix of the stream, so
  what it writes is always one text, `Full`, and the file a prefix of that
  (`WriterInv`). `Full` is a header line and rows of 13 characters (`Layout`):
  numbers of fixed width are injective in the number (`Padded*`, `E164`), and
  sorting loses and repeats none (`SortedRows`). All of this rests on lemmas
  about decimal digits and on the uniqueness of recursive functions
  (`OneRecursion`).
* `DncList`, the cache: a loader may stand anywhere in the file, and the file may
  be emptied and grow again under it. What it takes for a line still lies within
  one row, and a piece of a row that normalises to a dialable number is the
  whole number (`PieceNormalized`): a shorter piece has too few digits, or
  begins with the country code. So whatever is collected was drawn (`Genuine`);
  a loader that is left alone stands between two rows and has exactly those
  before it (`Undisturbed`).
* `OptOut`: fence stripping keeps a contiguous piece of the text (`Stripped`,
  `OpeningDropped`, `ClosingDropped`), so if one JSON value is left, it stood
  alone or between fences to begin with (`LoadedIsWhole`); a cut inside the JSON
  leaves none. In the other direction, each of the known wrappers is stripped to
  the bare document, whichever kind of JSON it holds (`WrapperLoads`).
  `Wrappers` leaves out the two combinations in which the code cuts the JSON:
  several lines of JSON that begin on the fence's own line, and a fence never
  closed around JSON that quotes one. Both are answered fail-closed.

TLC checks `IInv` in `contention` and `restart`, its parts and the properties of
the theorems in the runs of section 3.

### Only model-checked

* Liveness (`EveryCallAnswered`, `EveryCallRecorded`, `EveryStartEnds`,
  `GeneratorEnds`, `EveryTranscriptAnswered`): the prover has no rule for
  `ENABLED`. Its safety part is proved for each of the loops: `NoDeadlock`,
  `StepsAdvance` and `NoSilentGap` for the gateway, `StartsAdvance` for a start,
  `GeneratorAdvances` and `LoaderAdvances` for the DNC file. So what the runs add
  is that a step with work left to do is enabled, and taken if the scheduler is
  fair. `EveryTranscriptAnswered` has no loop: each request takes two steps.

## 5. Not modelled

* Configuration and the health endpoint: no state changes. The two settings that
  matter, the registry budget and `SIMULATE_RND_TIMEOUT`, appear as
  `RndOutcomes`.
* `PIPELINE_TIMEOUT_SECONDS`: the code never uses it, so nothing bounds the
  pipeline as a whole.
* Parsing of numbers that are not E.164: the schema lets none through. (Its `\d`
  also admits digits other than 0 to 9; these are left out.)
* Timestamps within a day of the years 1 and 9999: `astimezone` raises on them
  (`compliance_engine.py:160`), which is answered `SYSTEM_FAULT` like a rule query
  that raises.
* Where a number of an area code the table lacks really belongs: the code gives
  it the clock of New York, and says nothing to compare that with.

## 6. Where the code and its documentation disagree

Each of these has a run in which TLC finds the disagreement.

1. `unrecorded`. "Every evaluated call produces a SHA-256 record" (`README.md`).
   A second request under a used `call_id` is evaluated and answered, and its
   row is dropped: the ledger can say `BLOCK` where the dialer was told `ALLOW`.
2. `partial_cache`. The log says "engine starting with empty cache" after a
   failed read; in fact it starts with what had been read. Whether the file is
   torn, unreadable or missing, the service starts and allows listed numbers,
   although "No compliance check is ever skipped on error" (`README.md`).
   (`AllowIsCompliant` is therefore stated with this exception.)
3. `malformed_flag`. The parser "applies safe defaults for any missing or
   malformed keys"; `opt_out_detected: null`, `0` or `""` clears the consumer.
4. `torn_rules`. "Create all tables (idempotent)" (`connection.py`). A process
   that dies between `CREATE TABLE` and `CREATE UNIQUE INDEX` leaves a table that
   later starts take for complete. The run shows it for the rules: every one of
   them then seeds every state again, and the query for a rule raises. The same death at the other table
   leaves a ledger that accepts a `call_id` twice; `OneRowPerCallId` is checked
   with that death excluded, and no run of its own shows it.

Noted in reading, without a run: a number of an unlisted area code (840 in
California, say) is given New York's hours; a blocked consent check reports state
`US` whatever the number; `block_reason` and `created_at` are not hashed, though
`security.py` speaks of "any field" and `models.py:37` has the hash bind
`created_at`; `verify_record_hash` cannot be used for a
row without the timestamp of the very request that wrote it, so a dialer that
sent the same `call_id` twice may get a false alarm; a confidence of NaN becomes
1.0; an opening fence that is never closed around JSON that quotes ``` makes
`_strip_markdown_fences` cut the JSON, and the answer is the fail-closed one; a
listed number whose rule query raises is blocked for `SYSTEM_FAULT`, not for the
list.

## 7. Plan

Done: the gateway with its invariants and refinement, start-up, the record hash,
the DNC file, the transcript parser, and theorems for each. Every safety
property of the passing runs is a theorem.
What would add most next:

1. Several worker processes: one `DialCheck` cache and pool per worker over one
   database.
2. `InitDb` under `DialCheck`: one specification in which the rule table and the
   unique index the handlers use are those a torn start has left.

## 8. Running it

    tlc -config faults.cfg MCDialCheck.tla   # also rules, contention, restart,
                                             # unrecorded, partial_cache
    tlc -config startup.cfg MCInitDb.tla     # also torn_rules
    tlc -config audit_hash.cfg MCAuditHash.tla
    tlc -config dnc_list.cfg MCDncList.tla
    tlc -config optout.cfg MCOptOut.tla      # also malformed_flag
    tlapm DialCheckProofs.tla                # likewise for each other *Proofs
