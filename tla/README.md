# Ludrum: TLA+ models, model checking and proofs

Ludrum is an option-market platform: a Go back end (`src/ludrum`) polls an
option chain and listens to an index feed, keeps short histories, derives
signals, stores rows and events in PostgreSQL, publishes payloads through Redis
and WebSockets, paper-trades on them, and runs one polling runtime per user with
a linked broker account. A React front end (`src/ludrum-front`) shows the
result. This directory holds TLA+ models of the stateful parts of both, the TLC
configurations that check them, and TLAPS proofs.

`PROJECT.json` is the index: components, runs, mutants (a plausible bug of the
code for every checked property, which the property catches), the map from
definitions to source lines, findings, hazards and theorems. Paths below are
relative to `src/ludrum` unless they start with `src/`.

    tlc -workers 2 -config RuntimeManager.cfg MCRuntimeManager
    tlapm RuntimeProofs.tla

## 1. Inventory

| Component | Source | State it keeps | Operations | Hard behaviour |
|---|---|---|---|---|
| User runtimes and their manager | `internal/runtime` | `Manager.runtimes`, `leaderKey`; per runtime `persistShared`, `lastSharedSnapshotBucket`, `revision`, payload | `EnsureUserRuntime`, `StopUserRuntime`, `run`/`runCycle` | goroutine started before its role is decided, role sampled under a lock and used after it, hand-over, restart |
| Runtime snapshots and OI history | `internal/runtime`, `user_runtime_repo.go`, `api/oi_events.go` | OI events of a runtime, stored copies | record, merge, cap, filter, store, answer | readers filter in place, entry by entry, an array the cycle appends to; fallbacks between memory, copies and shared tables |
| Option storage | `internal/storage/postgres` (options, OI change events) | `option_chain`, `option_oi_change_events`, process-wide caches under `optionWriteMu` | `SaveOptionsBatch`, `SaveOptionsAndOIEvents`, `ResetOptionEventState` | two writers, one goroutine per call, caches updated before the insert, reload from the table |
| Live collector | `apps/market-collector/live` | session, ticker state, row cache, pair channel | start and stop by market hours, poll, minute writer, shutdown | nobody waits for a cancelled session; two callers start and stop |
| Simulator and trade API | `internal/simulator`, `internal/api/trade-sim.go` | positions, last prices, portfolio | `OnPriceUpdate`, `/trade`, `/exit` | price read under the lock and traded at later; `Execute` and its merge take no lock, field by field |
| WebSocket hub | `internal/api/ws.go` | client map, `send` and `broadcast` channels, `done` | register, unregister, broadcast, push per user, write, read | four goroutines per connection, bounded channels that drop, select order, payloads published by goroutines of their own |
| Terminal page | `src/ludrum-front/src/store`, `ws`, `components/OptionTable.tsx` | option map, polling | socket message, `/pairs` answer, reload | two feeds that do not know of each other; `/pairs` answered from three places; changes taken against its own last value |
| Option pipeline and engines | `internal/processor`, `internal/engine`, ring buffer in `internal/models` | change detector, ring buffers, tick counter | `Pipeline.Process` | detector and buffers have different lifetimes, partial changes, ring arithmetic |
| Index tick feed | `internal/ingestion/data`, `internal/parser`, `internal/ltp-series` | market store, channel, ATM tracker, tracked strikes | message, consume, alpha, publish, stop | shared pointer read twice without its lock, closing the channel |
| Sign-in and broker link | `internal/api/auth.go`, `broker_fyers.go`, `internal/storage/postgres` (auth, fyers) | users, codes, sessions, accounts, tokens, the runtime's token | login, resend, verify, connect, callback, data request | one request is several statements, each may fail; requests overlap |
| Backtest | `internal/backtest` | the position of one run | load, two folds over rows or ticks | rows and changes of a poll arrive by themselves while a run reads them; which strike prices a position, what is left open at the end |
| REST server | `internal/api/server.go` | none of its own | configuration, ensure, read | time between loading a token and applying it |

Left out, with reasons, in section 7: replay, broker client, payload builder but
for its trade, settings, tools, the other pages.

**Interaction.** The collector and the leading runtime both poll the broker and
call the option storage. The collector's poll then passes through the pipeline,
which feeds the simulator and publishes to Redis; the index feed publishes there
too. The hub delivers from Redis (no runtime manager) or from each user's
runtime; a page listens to it and asks `/pairs` besides. The sign-in handlers
give the manager the configuration a runtime polls with; the manager decides
which runtime writes the shared tables.

**What makes each correct.** One writer of shared rows, and it is the leader's;
changes of open interest counted once, in the tables and on the page; one
collector session at a time, which follows the market and leaves nothing
behind; an account that never pays out what it does not have; a position that is
what was traded; a client that gets newer payloads in order and leaves no
goroutine behind; windows and prices that are of this tick; a feed that ends
when it is stopped; a token, a status and a runtime that agree; a backtest that
answers what was asked. `hazards` in `PROJECT.json` lists what threatens these,
line by line, with the properties that cover it.

## 2. Modules

| Module | Used by | Models |
|---|---|---|
| `RuntimeManager`, `Lease` | `MCRuntimeManager`, `RuntimeProofs` | manager and runtime goroutines; the abstract lease they implement |
| `RuntimeHistory` | `MCRuntimeHistory`, `RuntimeProofs` | a runtime's events and pairs, their copies, the two handlers that answer them |
| `OptionEvents` | `MCOptionEvents`, `OptionEventsProofs` | the two option tables and their caches |
| `Collectors` | `MCCollectors`, `MarketDayProofs` | main, scheduler, sessions, polls, minute writers, pair worker |
| `Simulator` | `MCSimulator`, `SimulatorProofs` | simulator and its handlers |
| `WSHub` | `Terminal`, `TerminalProofs` | hub, connections, Redis subscribers |
| `Terminal` (extends `WSHub`) | `MCTerminal`, `TerminalProofs` | the page, composed with the hub that feeds it |
| `Signals`, `Pipeline` | `MCPipeline`, `PipelineProofs` | pure signals; the pipeline around one strike |
| `TickFeed` | `MCTickFeed`, `TickFeedProofs` | socket, store, consumer, ATM hook, alpha |
| `Access` | `MCAccess`, `AccessProofs` | credentials, codes, sessions, broker link, runtime token |
| `Backtest` | `MCBacktest`, `MarketDayProofs` | loading, folding and answering |

`Terminal` runs the page together with the hub. The others meet at named points:
`RuntimeManager`'s `SaveShared`, and `Collectors`' poll, are the calls that
`OptionEvents` models in detail; `Access`'s `runtime` is the token of the one
runtime whose life `RuntimeManager` follows and whose memory is `RuntimeHistory`;
`Pipeline`'s `payload.fed` is what enters `Simulator` as `OnPriceUpdate`; a session
of `Collectors` runs one `TickFeed`. Definitions under the name "mutant" are
variants no action uses.

**RuntimeManager.** A runtime is an object plus a program counter; one action per
stretch of `run` and `runCycle` between two points at which another goroutine
may matter (locks, database calls, the clock). `EnsureUserRuntime` is two
actions with `starting` marking the held mutex, because `Start` launches the
goroutine before the role is decided; `StopUserRuntime` is two because `Stop` is
called after the mutex is released. `Restart` keeps only the tables.
`Lease` knows keys and a holder; the refinement maps the keys of the map to its
members and `leaderKey` to its holder.

**RuntimeHistory.** Time is a counter of instants; days, sessions and minutes are
arithmetic on it. The events are an array of which the map holds the end
(`arrays`, `first`): an append writes into it or makes a new one, as Go's capacity
decides, and a merge replaces the last entry, both without a lock. A reader
(`reading`) ranges over the slice it found, and copies and writes back one entry per
step; several may do so at once. Histories say which disturbances have happened:
`shifted` (an entry was moved to another place), `crossed` (the last event was merged
while a reader was at work), `quiet` of a reader (the array was not changed under it).
The final sort of `GetOIEvents` is `Sorted`.
It shares no name with `RuntimeManager` (`HistorySpec`, `instant`, `ProcessEnds`),
so that `RuntimeProofs` can extend both.

**OptionEvents.** A poll is a quote for every option; its two storage calls wait
in `rowsDue` and `eventsDue`. The mutex is `holder`; the loop compares one option
per step; on a cache miss it reads the newest row or event of the session, or,
when that query fails, nothing. `ledger` is a history variable.

**Collectors.** main and the scheduler are two program counters that may both be
inside `startCollectors` or `stopCollectors` by turns; each session has a poll
and a minute writer with their own. The row cache holds the session its rows
are of, so that "stale rows" can be said.

**Simulator.** `Execute` takes no lock: find, check, charge, then enter a new
position, or merge with the one found. `mergePosition` is one step per assignment: a
case is chosen with the quantity read then (`BeginMerge`), and `Follows` says which
field comes after which until one of `LastOnes`. Between any two of them prices and
exits, which hold the lock, may close the position, and another order may merge with
it. Positions are numbered objects, because the pointer `Execute` has found may no
longer be the one in the map. Quantity and average price are separate fields; money is
in half rupees, so that the margin factor 1.5 is the integer 3, and an average is
rounded down. Histories: `settled`, what a position held when it was last entered or
wholly merged; `torn`, positions on which two merges met or that were closed half
merged.

**WSHub, Terminal.** Payloads are numbered; each goroutine has its own small state;
`held` is what it has in hand. `hubCur`, `"drop"` and `"retry"` are the
non-blocking sends of the broadcast loop. Without user runtimes every payload is
published, and a snapshot stored, by goroutines of its own (`flight`, `saving`): they
reach the hub in any order or not at all, and `latest:payload` may end with an older
one. `given` is the order the subscribers happened to give, and a broadcast message
carries its place in it. The page is one leg of one strike, what it shows, and the
`/pairs` answers on their way. `/pairs` answers with the runtime's newest payload if
that has pairs (`FetchNewest`), else with the stored copy, else with the shared
`EngineState` (`FetchElse`); `Blank` are the payloads without pairs.

**Signals, Pipeline.** Windows of quotes and operators on them; one strike and
its two legs. Other strikes enter only through `many`, the number that narrows
the range.

**TickFeed.** `Update`'s two assignments are two steps, and the consumer's look at
the store is two reads (alpha, payload), as the pointer it got is written through
by the socket's goroutine. Prices are counted in the exchange's ticks of 0.05, so that
`ComputeAlpha`'s noise filter of half a point (`Noise`, 10 ticks) hides small moves that
are not zero, and so that a price can cross the middle of two strikes by little.

**Access.** One user; `Handlers` are requests in flight; every SQL statement that
changes a row is a step and may fail where its error is handled.

**Backtest.** The day is two tables. A poll's rows and its changes of open interest
are inserted by two goroutines of the collector: `SaveOptionsBatch` and
`SaveOIEvents` of any minute happen in any order, or never. `Run` reads them by two
queries, between which either may happen, and folds `Advance` over rows or ticks;
`looked` is the day it saw. The properties compare its trades with a definition that has
no fold: the first match after the last trade, left at the first reason to. The
loops that collect rows and ticks (`Chosen`) and the fold are recursive functions
over the numbers up to a length. It shares no name with `Collectors`
(`BacktestSpec`, `backtestVars`), so that `MarketDayProofs`, about the day one
stores and the other reads, can extend both.

## 3. Runs

All runs use the modules as they are; a `.cfg` only gives constants their values.

| Run | Shows | Bounds, and why they are enough | States |
|---|---|---|---|
| `runtime_manager` | one persister, one row set per minute and runtime, no `stopped` row, a dropped runtime ends, the lease is implemented | 2 keys of which one is stopped, 2 objects, 2 minutes, 2 and 1 cycles: a hand-over, a repeated ensure and a minute change can all fall between sampling and marking | 1,913,010 |
| `runtime_minute` | **violation**: see findings | 1 key, no stop, restart within the minute | 1,612 |
| `runtime_history` | answers in order, newest first; pairs do not go back | a rising and a falling change, 3 events kept, 2 answered, two days; the request that is followed, and one more that filters: cap, merge, append into the array and beside it, a session boundary, both fallbacks, failed writes, restarts, and two filters at work on one array | 7,539,901 |
| `option_events` | emitted changes add up; a reload hides the move | 1 option (options are independent: each has its own cache entry), interest 0..2, price 0..1, 3 polls of both writers | 5,851,861 |
| `collectors` | one session, its own rows, follows the market, sessions end | 2 sessions, 2 market changes, pair channel of 1 so that it fills across sessions | 85,852 |
| `simulator` | never overdrawn, margin covers, position is net, only long exits pay | 1 option, 2 handlers, prices 60 and 120 (averages over up to 6 lots are whole), 3 orders of 1 or 2 lots with a stop and a target: open, average, reduce, flip, remove, exit, every overlap of two orders and every place within a merge | 2,682,164 |
| `terminal` | map and `done` agree, newest kept, order, no leftover goroutine, catching up, shown changes add up, page settles | 1 connection and its page, with and without user runtimes, channels of 1 so that every one fills; 2 payloads, the first without pairs, which arrive in either order or not at all, and stored or shared pairs of another run without data for the leg; full liveness graph | 329,010 |
| `pipeline` | ring and detector agree, fresh prices, trade and signals consistent | 4 quotes covering rising, falling, spiking; in and out of range; ring of 4 wraps within 5 ticks; cleanup every 3; periods scaled down | 518,043 |
| `pipeline_drop` | **violation**: see findings | as above | 488 |
| `tick_feed` | coherent payloads, tracked strikes, consumer ends, newest published | 3 prices: two a tenth of a point apart on both sides of a strike's middle, one two strikes away; channel of 2, history of 3, 5 ticks: both fill and lose their oldest | 232,859 |
| `access` | one session per code, token, status and runtime agree | 2 requests, 2 codes, sessions, tokens: every overlap of two requests | 8,088,454 |
| `backtest` | the trades asked for, no match lost, no look-ahead | 3 minutes of 3 options, 6 polls with quotes or none and 2 sets of changes, in any order; 5 requests that between them use every exit, both sides, both folds, a change of open interest, a window and a strike | 2,305,800 |

States are distinct states; a violation run stops at its counterexample. A bound
is a guard of the action that would exceed it (`MaxRevision`, `MaxPoll`,
`MaxTick`, ...). Deadlock checking is off where reaching a bound, or an ended
session, is a stop the model allows; `pipeline`, `access`, `backtest` and
`runtime_history` check it. Symmetry is used where no liveness is checked.
Two runs have a view. `PageView` leaves out dead values: what a goroutine once held, a
channel's contents after its reader has gone, and of `first` and `tally` all but the
balance `ChangesAddUp` is about. `AnswerView` keeps what the followed endpoint's
answers depend on: `/oi-events` and `/pairs` share only the clock and the cycle. What
is left out changes no property, and no step that a state can take as far as the view
shows it, so that states with one view may stand for one another.

### Fairness

Only goroutines that are already running are fair; requests, prices, the clock,
the market, stops, failures of calls and crashes are the environment's.

- `RuntimeManager`: weak fairness of `EnsureInsert`, `StopCancel` and every
  goroutine's `Step`: Go's scheduler runs a runnable goroutine. Which ready case
  a select takes is left open, but `StoppedEnds` does not need more: the next
  request with a cancelled context fails, and a failed cycle leaves.
- `WSHub`: weak fairness of the hub and of each goroutine's step. Registration
  and unregistration have strong fairness: they are cases of the hub's select,
  which picks uniformly among ready cases, so one that is ready again and again
  is taken.
- `Terminal`: the hub's, plus weak fairness of the page's timer when its runtime can
  be asked (`FetchNewest`) and strong fairness of the arrival of an answer with its
  newest payload: not every one of them is lost. Nothing is assumed of Redis, of the stored
  copy, or of a database that answers.
- `Collectors`: weak fairness of main, scheduler, poll, writer and worker; strong
  fairness of `PollSends` (senders queue on a channel) and of `PollLeaves` (a done
  context in a select beside a ticker).
- `TickFeed`: weak fairness of connecting (it answers or fails), the handler's
  two steps, closing and the consumer.

## 4. Properties

The comment above each definition says what it promises of the code. The ones
that took thought:

- `OnePersister`: the hand-over in `StopUserRuntime` leaves two objects with
  `persistShared` set; only the one not being stopped counts. `LeaseSpec` says the
  same without objects or goroutines.
- `OncePerMinute`: the bucket is sampled, used and marked in three places; it
  survives repeated ensures because setting the same role does not clear it.
- `Conserved`: the sum of emitted changes is the distance the cache has moved, in
  any order of calls. It holds of what was *emitted*; a failed insert loses stored
  events, which `EndEvents` shows.
- `ReloadHidesMove`: after a reset the leader's own rows are already stored, so
  the first move is not reported. The exceptions are named in the property.
- `NewestFirst`, `NewestAnswered`: the code breaks both in places, and each property
  names the place. A read that drops events of an earlier session leaves copies of the
  others behind (`shifted`), so later answers list some twice. `NewestAnswered` holds
  through that, through the cap, restarts and every fallback, but not through a write
  that crosses the read: the cycle records an event or another reader changes the array
  meanwhile (`quiet`), or an equal change was merged into the last event while a reader
  was at work, which may write the older one back over it (`crossed`): then later
  answers begin with the older one as well, until the next event.
- `RowsOfSession`: resetting the caches when stopping is not enough, since a poll in
  flight fills them again; the reset when starting is what holds.
- `FollowsMarket`: with the exception `missed`, a market that changes between
  main's read and the scheduler's.
- `MarginCovers`, `OnlyLongExitsPay`, `PositionIsNet`, `NeverOverdrawn`: hold however
  the steps of several orders, the assignments of their merges, prices and exits
  overlap, until a position is `torn`: two merges met on it, or it was closed between
  two assignments of one. There the code does go wrong (section 6). `PositionIsNet`
  excuses only the option the torn position belongs to, or of which a trade entered a
  position other than the open one (`mislaid`), and speaks of a position when no merge
  is in the middle of it. `NeverOverdrawn` excuses also two orders that had both passed
  the check. Books are those of `settled`: an order is counted as charged until its
  merge is complete.
- `LiveInOrder`, `NewestKept`: what a client is pushed is in the order of its
  runtime's revisions, what is broadcast in the order the hub was given it, although
  the hub drops and the initial sender races; only the initial payload may be late.
  Nothing is claimed of the order in which Redis gives payloads: it may be any.
- `ChangesAddUp`: the page takes changes against what it shows, which is why payloads
  that come twice or backwards, by any feed, do no harm to the sum.
- `Settles`: the page of a user runtime shows the runtime's last payload again and
  again, if it has pairs, by `/pairs` even when its socket is gone and stored or
  shared pairs were answered in between. Without user runtimes, or when the last
  payload has no pairs, a page may end with an older one.
- `FreshPrices`, `WindowIsRecent`, `TradeIffStrong`, `SignalsAgree`: a price is of
  this tick; the wrapped reading of the ring is the last quotes in order; a
  recommendation never contradicts the leg it names.
- `MoneyTracked`: the strike nearest to the price is among those polled while its tick
  is handled, however far the index jumped. It holds with and without the band the
  code announces and does not have (section 6).
- `PayloadCoherent`, `ConsumerLeaves`: two reads of a moving store; a consumer
  that ends, unless the channel is closed under a handler's send, which panics.
  Whether the broker library can call the handler after `CloseConnection` is not
  decided by this repository, so nothing is claimed of it.
- `OneSessionPerCode`, `LinkedHasToken`, `NewestTokenStored`, `RuntimeFollows`: hold
  with the exceptions the code really has (overlapping verifications, a callback
  stopped half way, a late request), each carried by a history variable so that
  nothing else is excused.
- `NoMatchLost`: with the exception of a position the last row does not price.
- `NoLookAhead`: two answers agree on every trade left at its own exit as long as what
  they looked at is the same up to that minute. It says nothing more, since a change
  of open interest, or a poll, that arrives late does change what was answered before.

## 5. Proofs

Checked by TLAPS for every value of the constants, under the named `ASSUME`s of
the modules (which TLC evaluates in the runs). Each module proves `Init => Inv`,
one lemma per action or group of actions for the step, and the theorems from it.

| Module | Theorems | Inductive invariant, and why it is needed |
|---|---|---|
| `RuntimeProofs` | `TypeCorrect`, `LeaderAlwaysMapped`, `SharedFollowsLeader`, `AtMostOnePersister` | `RoleInv`: types, both role properties, plus who owns a mapped object (`Owned`), what the object being started looks like (`Fresh`), and that an unmapped live object is starting, stopping or cancelled (`Orphan`). Without `Orphan` a dropped runtime could persist unnoticed |
| | `RolesAreALease` | every step of the manager is a step of `Lease` or leaves it alone, from the same invariant: a refinement |
| | `MinuteOncePerRuntime` | `MinuteInv`: only the cycle itself moves the bucket of a runtime that persists, so what it sampled is still true when it stores (`Sampled`); a stored minute is at most the bucket, or is being marked, or its runtime is dead (`StoredBefore`) |
| | `StoppedIsNeverStored` | a goroutine that has left has a cancelled context |
| | `PairsOnlyAdvance` | `PairsInv`: while every payload is stored, the copy lags behind the memory only between the cycle's two steps, and both have what was answered, but for the copy while a payload with pairs is on its way and no handler reads the copies |
| | `AnswersStartWithNewest`, `AnswersGoBackInTime` | `RowsInv`: every stored row was recorded before, and none has the time of another. `MemoryInv`: the slice in the map ends with the event recorded last, unless a merge has crossed a read (`LastIsNewest`); what each reader has read and moved lies inside its array, and what a quiet one has kept ends, once it is through, with the event recorded last (`QuietReads`); until an entry has been moved, times increase along every array (`Ordered`). Each must survive append, merge, cap and each single write of any number of readers |
| `OptionEventsProofs` | `TypeCorrect`, `AlwaysConserved` | types and both sums together (the step that emits one change rebases the other) |
| | `ReloadAlwaysHidesMove` | rows of the leader are settled before its events start (`RowsBeforeEvents`) |
| `MarketDayProofs` | `OneCollectorAlways`, `RowsAlwaysOfSession` | `IInv`: who is inside the starting or stopping code (`Mutex`), which session is named, and for every row in the cache or stored, a poll or writer recorded as outliving its session (`Allowed`). So a stored row is of the session that stores it, but for rows of exactly the polls, and exactly the writers, that had not ended when the cache was reset for a later session |
| | `BacktestInvAlways`, `TradesAlwaysAsAsked`, `MatchesNeverLost` | `BacktestInv`: the answer is that of the quotes last looked at; these are those of a day (`Joined`) whose rows and changes have stayed as they were seen and of which only later arrivals are missing (`Still`); and they are good (`GoodQuotes`: sorted, of the request's type and strike, one at most of each time and strike, which is what makes `EntryOf` find the entry of a trade). Inside it the fold has an invariant of its own over the quotes (`FoldInv`): every closed trade is as asked (`AsAsked`), and either no position is open and no match has been passed over since the last one (`IsFlat`), or the one entered at the first such match is, was not due so far, remembers the price of the quote that priced it last, and counts the falls up to there (`Holds`; `FallsGoOn` is the step of that count) |
| | `NeverLooksAhead` | from `BacktestInv`: two days alike up to a minute are loaded as the same quotes up to there, whatever follows, and the fold only adds to what it has closed |
| `SimulatorProofs` | `TypeCorrect`, `PositionAlwaysNet` | `TradeInv`: no two options share a position, the position an order has found belongs to the order's option or to none, and the number an order would give a new one is nobody's. And what a position holds in the middle of a merge: at each assignment the fields already written are the order's, the others those it held when it was last settled, unless it is torn. Without these a merge could change another option's quantity, or its last assignment complete something else than it began |
| | `NeverOverdrawnAlways` | `CapitalInv`: without an overlap one order at a time is between check and charge, and what it has checked is still there |
| | `MarginAlwaysCovers` | `MarginInv`, until a position is torn: the margin covers the settled books of the short positions *and* what orders were charged but have not entered or wholly merged, `mislaid` ones only adding to it. A position that is closed is then the settled one |
| | `OnlyLongExitsEverPay` | from `TradeInv`: what each action does to the sums over positions and orders in flight (`Assets`); a step changes one term of each |
| `TerminalProofs` | `DoneExactlyWhenDropped`, `TypeCorrect` | the property, plus that a connection not up yet is neither in the map nor done |
| | `LivePayloadsInOrder` | `OrderInv`: what writer, channel, hub, broadcast channel and pusher hold of live payloads (revisions, or places in `given`) increases along that line |
| | `NewestAlwaysKept` | `RetryInv`: after the hub has dropped, the channel has room, unless the initial payload took it |
| | `ChangesAlwaysAddUp` | `PageInv`: the sum, and that an answer on its way is of a payload, as are what is stored and what is shared; with `Real`: every message in the hub carries a payload |
| | `PageHearsInOrder` | the page's steps leave the hub alone (`PageIsHub`), so the hub's theorem, with the order it speaks of, carries over to the composition |
| `PipelineProofs` | `WindowsAreRecent` | `WindowInv`: each ring *holds* the quotes seen since its buffer was made (slot, index and size against the sequence, modulo the ring's size), and the last of them is the detector's |
| | `PricesAreFresh`, `TradesAreStrong`, `DetectorsAgree` | `PayloadInv`: a payload has at most one pair, each leg of which is absent or analysed from a window that ends with this tick's quote. The rest is arithmetic on such a window: a strong pair rose twice (`TradesAreStrong` follows for every window, which settles a finding of section 6) |
| `TickFeedProofs` | `TypeCorrect`, `PayloadAlwaysCoherent` | `InStep`: where the newest tick and its price are between the handler's two assignments, and that a tick off the channel is the newest only while the handler holds none (`Known`) |
| | `MoneyAlwaysTracked` | the last strike announced is the rounded price of the tick that is handled, as two multiples of the step less than half a step apart are one (`NearStrikes`): the band never keeps an old one |
| | `AlphasAgree` | no invariant: a fact about two operators, every history and every level of noise. A BUY or SELL of the index is the options' too; the other way round only for moves above the noise |
| `AccessProofs` | `TypeCorrect`, `SessionsHaveTheirCode`, `LinkedAccountsHaveTokens`, `StoredTokenIsNewest`, `RuntimeFollowsToken` | `CodeInv` (the code a request has verified is consumed, and two requests that hold one code are known to share it) and `BrokerInv` (the token each request holds has been given; without overlap one callback at a time, and the newest token is stored, on its way or lost) |

**Induction.** The library's induction theorems take an operator as a parameter
and cannot be used by the installed provers. Where a proof needs induction over
data it takes a counterexample that is minimal instead: the least number
(`LeastNumber`, `Inductive`) or a smallest finite set (`SmallestSet`), both from
the library's `WFMin`. That is how sums over sets (`SimulatorProofs`) and the newest of a
set of events (`RuntimeProofs`, `NewestExists`) are reasoned about. For the folds of
`Backtest` the same least number gives induction as a fact about sets
(`MarketDayProofs`, `Inductive`: a set of naturals with 0 and every successor is
`Nat`); the set is "the numbers up to which the claim holds". That a recursive
function satisfies its equation needs such an induction too (`ChosenToExists`,
`FoldToExists`).

**Assumptions** are the `ASSUME`s of the modules: ranges of constants, bounds that
are numbers, finite sets of options and clients (sums range over them), and
model values (`None`, `NoKey`) that are no value of the kind they stand in for.

Every safety property and every action property the passing runs check is also
proved. Only model-checked are the liveness properties (`StoppedEnds`,
`FollowsMarket`, `SessionEnds`, `LeavesNothing`, `CatchesUp`, `Settles`,
`ConsumerLeaves`, `NewestPublished`): fairness and ENABLED are out of the prover's
reach.

## 6. Findings

Disagreements of the code with what it says of itself; the first two each a violation run:

1. `runtime_minute`: `snapshot.go:13` says minute rows are stored once per minute;
   the rule is a field of the runtime object, so a restart within the minute
   stores them again.
2. `pipeline_drop`: `pair-engine.go:154` says only truly empty signals are dropped;
   a leg whose price falls with its interest scores 0, disappears from the
   payload, and the simulator's stop loss never hears of it.

A third one has no run, as it follows from one line: `atm_tracker.go:19` announces a
`HYSTERESIS BUFFER (25 pts)`, and line 21 compares the *rounded* strike with the last
one. Two strikes are a whole step apart, so `< step/2` is true only of the strike that
is tracked already: the index moving from 22024.90 to 22025 and back swaps the tracked
strikes twice. `NewATM` is the code's comparison; no property depends on the band's being
there or not.

Seen while modelling, without a line of documentation to contradict:

- a strong pair has just risen twice, so the entry engine's pullback bonus and the
  exit engine's fading can never apply to it (`TradeIffStrong`: always 85, which is proved for any quotes);
- two overlapping orders can overdraw the account, and an order merged into a
  position that has been closed meanwhile is charged and then lost (`overlapped`,
  `mislaid`);
- `mergePosition` is several assignments without the lock that prices and exits hold: a
  position closed between new quantity and new price, or new price and new side
  (`execution.go:149-151`), pays, or releases margin, for lots at a price or a side
  that never belonged together; and of two merges that read the quantity before either
  writes it (`execution.go:123-125`) one order is lost (`torn`);
- filtering OI events in place leaves copies of events in a runtime's memory from
  the second day on (`shifted`, the exception of `NewestFirst`); an event merged while
  a reader is at work may be overwritten with the one before it (`crossed`, the
  exception of `NewestAnswered`); and the event map is written without a lock;
- after a reset the leader's first comparison finds its own row: the change across
  a restart is never reported (`ReloadHidesMove`);
- a market that opens between main's read and the scheduler's first is not
  collected until it changes again (the exception of `FollowsMarket`);
- the collector's minute writer and the leading runtime each store the minute's
  rows; neither knows of the other;
- index ticks and snapshots share the Redis key `latest:payload`, and each SET and each
  PUBLISH runs in a goroutine of its own, so the key may hold a tick or an older
  payload, and a delta may overtake the snapshot before it;
- `/pairs` answers with the stored copy when the newest payload of the runtime has no
  pairs, which may be that of an earlier cycle, or of an earlier process;
- a page never reopens its socket: pairs go on by `/pairs`, the spot it shows does not;
- `ConnectStart` sets a linked account back to pending while its runtime runs on,
  and a request that loaded a token before a link completed puts the old one back
  into the runtime (the exception of `RuntimeFollows`);
- rows and changes of a poll are inserted by two goroutines: a backtest that runs
  between them sees no change, and may exit by a rule of which the same run, later,
  knows better; an answer of the running day is final only as far as everything has
  arrived (`NoLookAhead` says of what it depends);
- a backtest position still open at the end is missing from the answer unless the
  last row prices it (`NoMatchLost`), and without a strike filter the tick fold
  prices a position with any strike's next tick (`AnyStrikePrices`);
- `PEOIEvents` has no cap, `CEOIEvents` has; closing `marketChan` while a handler is
  sending would panic.

## 7. Not modelled, and why

- `internal/analytics` is imported by nothing.
- Replay groups stored rows by time and hands them to the pipeline that is modelled;
  it keeps no state. It compares the spot with itself, so the spot of a group is
  that of whichever strike its map yields first.
- Broker client and REST ingestion: HTTP and decoding without state; that a fetch
  may fail is in `RuntimeManager` and `Collectors`, what it answers in `OptionEvents`.
- Redis: keys, channels and streams that only receive. What the server hears from it, and
  that it may come in any order or not at all, is in `WSHub`.
- The LTP poller's own five-price store, which feeds a channel nobody reads; its
  signal is `PlainSignal`.
- Mail, admin endpoints and overviews, configuration, logging, database set-up and
  the settings row, command-line tools, containers, backups: no protocol of their
  own.
- Two writes that meet inside one map or field have no defined result in Go; the
  models interleave whole assignments, those of `mergePosition` and of the filter of OI
  events one by one.
- Payload parts no program reads back (market summary, risk, logged signals), the
  backtest's summary and page, and the pages of the front end other than the
  terminal: layout, sums and forms.
