# Verification of Shadow-Radar

Shadow-Radar is a Solana daemon: it streams DEX trades over gRPC, keeps a profile
of every wallet it sees in memory, runs four filters over a wallet after each of
its trades, and writes the wallets that pass to `targets.db`, which an execution
bot polls. It also has a `replay` mode, a one-shot scan of past trades.

This directory holds TLA+ modules for both modes, the TLC configurations
that check them, and proofs for TLAPS about the live daemon and the parser. `PROJECT.json`
lists the runs, the source lines that each definition models, and the hazards that the
properties are for.

## 1. The system

### Inventory

| component | source | state | operations | what makes it correct |
|---|---|---|---|---|
| T0 token registry | `token_registry.rs` | mint -> lowest slot seen, in a moka cache (24h, capacity) | `record_observation`, `get_t0_slot`, eviction | T0 is never raised while cached; each lowering is reported to the caller; eviction racing a call loses no more than the eviction |
| Per-wallet state | `wallet_state.rs` | window of 20 annotated trades, open positions, 200 completed cycles, stored metrics | `ingest_trade`, `re_annotate_token`, `recompute_metrics` | every SOL in one place; the 90% rule splits open from closed; metrics describe the present window |
| Per-token buy list | `cache.rs` | sorted list of at most 1000 buys | `index_buy`, `count_copycats`, eviction | sorted under any arrival order; no follower in the list escapes the count |
| Cache orchestrator | `cache.rs` | the three caches above | `process_trade`, `re_annotate_token_across_wallets`, `run_maintenance` | annotations in all windows follow the lowest slot seen |
| Live heuristics | `heuristics.rs` | none | five filters, `evaluate_wallet` | a verdict agrees with the trades really seen; what is written is what was judged |
| Live tasks | `main.rs`, `grpc_streamer.rs` | channel of 100000 trades, shutdown flag, task positions | stream, reconnect, receive, process, maintain, stop | no trade lost, repeated or reordered; stops when and only when it should |
| Target database | `db.rs`, `main.rs` | `qualified_wallets`, `discovery_log`, the mutex | upsert, log, demote stale | log and rows agree; only stale targets are demoted, and all of them in the end |
| Historical streamer | `grpc_streamer.rs` | window, statistics | stream a time window | every trade of the window, then an end |
| Replay aggregator, filters, ranker | `aggregator.rs`, `filters.rs`, `ranker.rs` | maps of profiles and trades | FIFO matching, filters A-D, sort | each buy and each sell matched at most once, oldest buy first; who is ranked was judged by all trades of the window |
| Transaction parser | `transaction_parser.rs` | none but the clock | `parse_all_events`: AMM V4 by its balances, events by discriminator or length | each readable swap becomes the one trade it was: no default overrules what is said, its own amount, time and mint are read where they are clear, and where they are not it is known what may be read instead |
| Models, configuration, output | `models.rs`, `config.rs`, `output.rs` | none | types, parsing, formatting | - |

### How the parts interact

    gRPC server --messages--> streamer --mpsc channel--> processor --> InsiderCache
                                                             |            |- TokenRegistry
                                    watch channel            |            |- wallets
      Ctrl+C ------(shutdown)-----> all three loops          v            `- token_buys
                                                          try_lock
      maintenance (every 5 min) --> caches' pending tasks    |
                      `------------ try_lock ------------> targets.db --> bot

Replay mode is a pipeline of its own:

    gRPC server --messages--> streamer --mpsc channel--> aggregator
                                (ends: sender dropped) --> profiles --> filters A-D --> ranking --> report

Both streamers hand each transaction to the parser, which keeps no state between two of
them. The modes share nothing else. The main task is the aggregator and
everything after it; it goes on when the channel is closed, and joins the streamer then.

In live mode only the processor calls `process_trade`, so one trade is in the caches at a time;
eviction is the one actor that runs beside it. Processor and maintenance share the
database through a mutex both only *try* to take. The main task ends the daemon as
soon as one of the three tasks ends.

### What is hard here

* **Order.** Trades arrive out of slot order, so T0 is lowered after trades were
  annotated with it, buys are inserted in the middle of lists, and cycles close out
  of order.
* **Eviction between steps.** Each moka cache drops entries by age and capacity at
  any await point; the registry may forget a token between two steps of one call, and
  the buy list is both the herd evidence and the record of whom to re-annotate.
* **Tasks.** A full channel, a silent stream, an error, an orderly end and a signal
  all meet in one `select!`.
* **Replay.** Trades arrive in any order, sort keys are shared, and the filters compare
  two maps that were filled one after the other.
* **Layouts.** An event says neither its program nor its version: bytes are claimed by length
  and read at guessed offsets, with fallbacks to the log, the balances and the clock.
* **Database.** Two statements without a transaction, a skipped `try_lock`, crashes,
  and a clock that is compared with timestamps taken from trades.

## 2. The modules

| module | models | state and actions |
|---|---|---|
| `EarliestSlot` | what the registry promises | an atomic register per token: `Observe`, `Forget` |
| `TokenRegistry` | `token_registry.rs` at its awaits | `Get` takes the entry, `Insert`/`Update` lock and write it, `Evict` anywhere between; `orphan` is the T0 in an entry the cache has dropped but the call still holds |
| `WalletOps` | `wallet_state.rs` as operators | `Annotate`, `AddBuy`, `AddSell`, `IngestTrade`, `ReAnnotateToken`, `RecomputeMetrics`, ... |
| `WalletState` | one wallet over time | `Ingest`, `Revise`, `Forget`; `ledger` and `open` are history that only properties read |
| `BuyIndexOps`, `BuyIndex` | the buy list of `cache.rs` | `Search` (any match of the binary search), `Capped`, `Copycats`; `IndexBuy`, `EvictList` |
| `InsiderCache` | `process_trade` | `Observe`, `LookUp`, `Ingest`, `Index`, `Collect`, `ReAnnotateWallet`, `Return`, one per step of the code, and `EvictToken`, `EvictBuys`, `EvictWallet` |
| `Heuristics` | `heuristics.rs` as operators | `FilterWinRate`, ..., `EvaluateWallet`, `Qualified` |
| `Screening` | `InsiderCache` and `Heuristics` together | adds `seen`, the history of trades, to say what the verdicts should be |
| `LivePipeline` | the tasks of `run_live_mode`, `stream_live_trades` | one action per await of each loop, `CtrlC`, `Exit` |
| `TargetDb`, `LiveTargets` | `db.rs` and its two users | a statement per action, `Lock`/`MaintenanceLock` (try_lock), `Crash` |
| `EventLayouts` | the layouts of `transaction_parser.rs` as operators | `ParseSwapStandard`, `ParseSwapCompact`, `ParseTradeLog`, `ParsePumpFun`, `ParseRaydium146`, `ParseEventBuffer`; `Timestamp`, `IsBuy`, `ExtractTokenMint`; `BalanceDiff` for AMM V4 |
| `TransactionParser` | `parse_all_events` | `Receive`, `ParseBalances`, one `ParseInner` per inner instruction, `Return`, and the clock's `Tick` between any two; `origin` and the `swap` of an event are history |
| `DexEvents` | what the programs write for a swap (external) | `ReportsSwap`, `ReportsTradeLog`, `ReportsPumpFun`, `ReportsLaunchpad`, `BalancesReport`: relations between an event, or balances, and a swap |
| `ReplayOps` | `aggregator.rs`, `filters.rs`, `ranker.rs` as operators | `MatchTradeCycles`, `BuildProfile`, `FilterA` to `FilterD`, `Score`, `Rankings` |
| `Replay` | `run_replay_mode` with `stream_historical_trades` | `Attempt`, `Request`, `Deliver`, `Send`, `StreamEnds` of the streamer; `Aggregate`, `Build`, `Join`, `PassA` to `PassD`, `Rank`, `Report` of the main task |

`InsiderCache` uses the registry through `EarliestSlot`, which `TokenRegistry` is
proved to implement. `WalletState` takes T0 from outside as far as `EarliestSlot`
allows. `LivePipeline` leaves out what processing a trade does, `InsiderCache` and
`LiveTargets` leave out where the trades come from, and `LiveTargets` lets a verdict
be any: the three overlap in the processor only, which is sequential. `TransactionParser`
says what the trades that all of them take as inputs can be: any order of slots and times,
`tx_index` the index of a group, and times ahead of the clock (`Skew` in `LiveTargets`).

Definitions named "Defect" in a module are plausible bugs; each shows that a property
would notice it. The specifications do not use them.

### Abstractions

* A trade keeps wallet, mint, side, SOL, tokens, slot and position in the slot. SOL is
  a natural number in a unit of the model's choice; 90%, 70%, 80% and 60% are exact
  ratios by cross-multiplication. Rounding of `f64` at such a boundary is not modelled.
* An event buffer is its length, its discriminators, the u64s at the offsets that some
  layout reads, the mint, one byte and the words "buy" and "sell" in it; bytes that no
  layout reads are not there. An `Option` is a set of at most one value, so `?` is a bound
  of a set constructor. Token amounts and prices are left out, since nothing decides on
  them, but not the overflow that drops a trade. `DexEvents` is the other side: it is
  inferred from the offsets and comments of the parser, and each event carries the swap it
  stands for, which only the properties read. A layout there says what is at the offsets it
  gives a meaning; every other word of the event may be any number. On AMM V4 a
  transaction carries what the wallet was charged besides the swap (`cost`: the fee and rent in
  lamports, what it wrapped in wrapped SOL), any integer; its token accounts change in the
  token of the swap only.
* `WalletState` and `InsiderCache` use the slot as time, `TargetDb` uses hours.
* A wallet that is not cached is a new one: both have an empty window. `Tracked` tells
  them apart where the code's `get` does.
* `per_token_positions` is total: `NoPosition` is an absent entry.
* The sells of a position are kept as the number of those above 70%: the only question
  the daemon asks of the list. `avg_sell_tranches` and `avg_max_single_sell_pct` are
  written to the row and judged by nobody, and are left out.
* In `ReplayOps` a cycle is the pair of positions of its buy and sell in the sorted trades;
  its profit is in whole percent, and whether it is a win is exact. The order in which a
  `HashMap` is walked is a choice (`Rankings`) or matters to nothing (cycles are a set).
  The trades of one transaction share wallet and slot, as the parser makes them.
* `discovery_log` is kept as the last entry of each event per wallet.
* Inside one step of `InsiderCache` an `Arc` is taken out of a cache and locked at the
  next await. An eviction in between loses the write, just as an eviction right after
  the write would. For the registry `TokenCacheProofs` proves it; the wallets and the
  buy lists follow the same pattern, with the same single caller.
* Not modelled because nothing calls them: `evict_stale_cycles`, `demote_wallet`,
  `insert_trade`, `insert_trades_batch`; `prune_old_trades` deletes from a table nothing
  fills. The heartbeat tasks share no state with the others. `find_dominant_dex` and the
  statistics of a replay are lines of its report.

## 3. What TLC checks

Passing runs:

| run | bounds | what it shows |
|---|---|---|
| `registry` | 2 tokens, 4 slots | `NoClobber`, and that the registry implements `EarliestSlot`: T0 only falls, and the caller is told |
| `wallet` | 2 tokens, 6 trade kinds, 6 ingests, window 2, 2 cycles | `ThresholdSplitsPositions`, `OneTrancheIsADump`, `LedgerBalances`, `MetricsFresh` |
| `buy_index` | 2 wallets, 4 slots, 2 positions in a block, 5 buys, cap 3 | `ListSorted`, `KeepsLatest`, `CountsEveryFollower` |
| `screening` | 2 wallets, 2 tokens, 3 slots, 4 of 6 trades, cap 3, all caches evicting, thresholds of one | `AnnotationsCurrent`, `BuyersIndexed`, `DeltasNeverShrink` of the cache; `InsidersAreInside`, `RowSaysWhatWasJudged`, `HerdsAreSeen` of the verdicts |
| `pipeline` | channel 2, messages of up to 3, 6 trades | `NothingLost`, `StopsForAReason`, `ShutdownStops`, `ArrivedIsProcessed` |
| `targets` | 1 wallet, 4 hours, clock skew, failing statements, 2 crashes | `LogFollowsRow`, `RowStandsUntilLogged`, `FirstQualificationKept`, `StaleIsDemoted` |
| `replay` | 2 wallets, 2 tokens, 8 kinds of transaction, 5 trades, channel 2, 2 attempts | `BothViewsComplete`, `CyclesAreFifo`, `RankedAreSafe`, `ReplayEnds` |
| `parser` | 154 events of all layouts, alone or before or after another, 4 logs, 5 lists of balances; 640 more events with a small, large or impossible field before the amount, other words that look like a time, amounts at and beyond the limits; 448 V4 transactions, with and without wrapped SOL, with fee, rent and wrapping, first buys and closing sells, swaps smaller than their cost; 2 moments | `SwapsAreReadBack`, `SidesAreAsSaid`, `EverySwapIsRead`, `StampsAreTheSwaps`, `NoStampAhead` |

**Why the bounds are enough.** Each limit of the code is a constant and is set so low
that TLC crosses it: a window of two trades loses its oldest, a third cycle pushes one
out, a fourth buy drains the list, a message of three overfills the channel, the clock
passes the age of staleness. Two wallets are enough for one to lower T0 under the other
and for one to copy the other; two tokens are enough to share a window. The database
needs one wallet: the tasks contend for the mutex, and no two rows for anything. `MaxTrades`,
`MaxIngests`, `MaxIndexed`, `MaxArrived`, `MaxNow` and `MaxCrashes` bound the length of a behaviour
only; where a model ends at such a bound it stutters (`Bounded`) instead of
deadlocking. In a replay five trades let each filter disqualify somebody, a wallet have
two cycles, a sell find no buy or two, two trades share their sort key, and two
candidates with equal scores compete for the one place. In the parser's run lamports, the
factor of the price and seconds since 1970 are all divided by 10^5: a reserve overflows
above the same 18.4 SOL, and the time of the day still looks like 1.7 SOL, which the
short layout may take for an amount. The two days and the hour are a few units, so that
a swap is on either side of them, and crosses the first while the clock goes on.

**Fairness.** Only where a liveness property is checked. In `LivePipeline` the runtime
polls a task that can go on (weak fairness of each task's own steps), timers fire
(`Retry`, `Tick`) and the main task is woken (`Exit`); nothing is assumed of the server,
of a connection attempt or of the signal. In `LiveTargets` both tasks run, and a demotion
that is tried again and again succeeds some time (strong fairness of `Demote`);
evaluations, which depend on the stream, are not fair. In `Replay` attempts to connect
come to an end (`RETRY_DELAY_SECS` between them), a send goes on when there is room and
the main task is polled; the server need not send or end anything, so `ReplayEnds` says
that the run ends once the stream has.

**What holds under a condition.** `AnnotationsCurrent`, `BuyersIndexed`,
`DeltasNeverShrink`, `InsidersAreInside` and `HerdsAreSeen` speak of tokens that have
lost no cache entry (`disturbed`). The runs below show what happens to the others.
`SwapsAreReadBack` claims the amount of a short swap event where it is the first number looked
at and at most 1000 SOL, or follows a field above that and is of a usual size
(`AmountIsClear`); otherwise only that what is read is some word of the event, of at most 1000
SOL. On AMM V4 it claims the swap's amount with what else changed the compared balance
(`Net`). It claims the mint where the event has it or the first three balances do
(`MintIsClear`). `StampsAreTheSwaps` claims the swap's time unless that is two days old or
ahead, or at 104 behind another number that looks like one (`TimeIsUnclear`); then only that
the time is the clock's or a word of the event that could be true. `EverySwapIsRead` claims the
swaps whose price fits a u64, the short events in which a usual amount is where it is looked
for first, and AMM V4's whose token account is still there and which are larger than their
cost (`EventIsReadable`, `BalancesAreReadable`).

### Where source and documentation disagree

Four runs have a single property that states the quoted text, and TLC refutes it.

| run | property | the text | what the code does |
|---|---|---|---|
| `sold_out` | `SoldOutIsClosed` | `wallet_state.rs:240` | a token sold out at a loss of over 10% stays open and never counts as a loss |
| `copycats` | `CopycatsAreFollowers` | `heuristics.rs:327` | buyers of earlier slots count if their index is higher |
| `all_affected` | `AllAffectedReAnnotated` | `README.md:96` | wallets drained from the buy list are not re-annotated |
| `pumpfun` | `PumpFunIsSupported` | `transaction_parser.rs:4`, :805 | a product for the unused price overflows above a virtual reserve of 18.4 SOL, and the trade is dropped |

Other disagreements that the modules show without a run of their own:

* The live stream "runs forever (or until the sender channel is closed / shutdown signal is
  received)" (`grpc_streamer.rs:289-291`), but the orderly end of a stream stops the daemon
  (`EndOfStream` in `LivePipeline`; `StopsForAReason` names it as one of the reasons).
* A wallet is demoted "when a wallet's metrics decay below thresholds during periodic
  re-evaluation" (`db.rs:199-200`); `demote_wallet` has no caller, and in `LiveTargets` a
  verdict that is not a qualification writes nothing (`Evaluate`): the target stays active
  until it is stale.
* A replay's stream "blocks until the full replay window has been consumed or a fatal error
  occurs" (`grpc_streamer.rs:38-39`), but an error in the stream ends it with `Ok`
  (`StreamEnds`) and the report of part of the window looks like any other. The request
  names no slot to start from (`grpc_streamer.rs:117-129`).
* Filter B counts buys, not wallets, and takes those of an earlier slot for the same block
  (`filters.rs:142`, against :94-97): it may disqualify a wallet that nobody copied.
  `RankedAreSafe` is the other direction, which holds.
* Trades of one wallet with equal slot and `tx_index` are matched in the order of their
  arrival, so two replays of the same trades may differ.
* Without a losing cycle the average loss is 1%, "minimal" (`aggregator.rs:235`), but a
  wallet whose losses average less than that gets a higher expectancy still.
* A position's first buy counts twice: `NewPosition` has `buy_count` 1 and `AddBuy`
  adds one (`wallet_state.rs:153`, :173, :185). Nothing reads the count.
* Cycles are in order of arrival, not chronological (`wallet_state.rs:504`), and the
  ratios count all annotated buys, not "only first buys per token" (:478).
* A trade that was ingested without a T0 (`LookUp` after `EvictToken`) is not annotated
  when the token is observed anew (`wallet_state.rs:60-61`), and after such a start T0
  can be higher than the one that trades were annotated with. So wallets can qualify
  although buys without a T0 are the majority of their entries (`README.md:94`).
* Once the buy list is evicted no buy counts as herded (`README.md:100`).
* A failed upsert is logged all the same, and a crash between the two statements leaves a row
  without its log entry (`main.rs:292`); `LogFollowsRow` exempts both, nothing repairs them.
* No demotion is logged (`README.md:208`); a failed `try_lock` skips the write of a
  qualified wallet (`README.md:13`); `last_updated` and `qualified_at` are the trade's
  timestamp and not the time of writing (`main.rs:332`, `db.rs:155`).
* `tx_index` is the index of the instruction group in its transaction
  (`transaction_parser.rs:875`), not of the transaction in its block (`models.rs:61`).
* The timestamp of a trade is the "on-chain" one (`models.rs:55`) only if it is found; it is
  the parser's clock for Launchpad and AMM V4 trades. For PumpSwap swaps more than two days old,
  as in a replay, it is the clock too, or the first number at one of seven offsets that looks like
  a time of the last two days (`transaction_parser.rs:781`), which an amount of some 1.7 SOL does,
  at 104 for instance (:262): `TimeIsUnclear`. The times of PumpFun events and
  trade logs are not compared with the clock at all: a target with one far ahead is never stale.
* The direction is a length-prefixed string "at the very end" (`transaction_parser.rs:157`), but
  the words are looked for in the whole buffer, "buy" first. Without one, and without the log
  saying, the long layout assumes a buy and the short ones a sell (:325-342, :415-418).
* A short swap event may have "fee/flags" at 48, before the amount (`transaction_parser.rs:460`).
  Only a field above 1000 SOL is recognised as one (:403); a smaller one is read as the
  amount. Behind a larger one, an amount outside of 0.001 to 1000 SOL is passed over for the
  next number inside, such as the time, and a swap of more than 1000 SOL in a short event is
  read as one of its other words, or not at all: `AmountIsClear`.
* An AMM V4 swap is read from the token balances (`transaction_parser.rs:890`), but a wallet without
  an account of wrapped SOL is charged in lamports, of which the difference is taken as it is
  (:967-972): the wallet pays fee and rent from the same balance (:131-134), so they are in the
  amount, and a sale that brings less than they take is dropped as ambiguous
  (:990-1000). `Net` is what is read.
* Wrapped SOL is skipped as a mint (`transaction_parser.rs:110`), up to the third balance: if
  the first three are wrapped SOL, it is the mint of the trade (`ExtractTokenMint`).
* For AMM V4 the balances are used "instead of inner-instruction parsing"
  (`transaction_parser.rs:849-850`); the inner instructions are parsed too, so the SOL of a
  route through both is counted twice. A sale that closes its token account leaves no later
  balance and is not seen (`BalancesAreReadable`).

## 4. What is proved

The theorems hold for all values of the constants that satisfy the modules' named
assumptions (slots are natural numbers, caps are positive, and so on).

| module | theorems | argument |
|---|---|---|
| `TokenCacheProofs` | `TypeCorrect`, `NeverClobbers`, `RefinesEarliestSlot`; `IndexTypeCorrect`, `StaysSorted`, `DropsEarliest`, `MissesNoFollower` | Of a token's two cache entries. T0: `NoClobber` is inductive with the types: an insert finds no entry because the only other writer is eviction. The refinement maps the cached T0 to the promised one and the outcome to that of the last finished call; an eviction under a call in progress is `ObserveAndForget`, the write into the orphaned entry a stutter. The buy list: the key is a total preorder; every place the search may return keeps the order; at the cap only the head falls. `KeepsLatest` is inductive with `ListSorted` and `AllUntilFull`: nothing has been dropped while there is room. |
| `WalletLemmas`, `WalletStateProofs` | `TypeCorrect`, `ThresholdSplits`, `OneTrancheDumps`, `StoredMetrics`, `LedgerHolds` | Lemmas say what each operator returns and keeps. `Split` puts every open position on one side of the 90% line and every cycle on the other; a trade moves a position along the line, and only a sell that crosses it makes a cycle. It needs, beyond the two properties, that a position without sells has sold nothing. `StoredMetrics`: each operation ends in `recompute_metrics`, whose result is fresh whatever was stored (`FreshFor`). `LedgerHolds`: `SumOf` over a sequence is shown to exist by induction on its length (`PrefixSumsExist`), then that appending a cycle and dropping the head move it by one term; what is booked is in the cycles, the position or the dropped. It needs `FlatIsEmpty`, that a position not held has booked nothing. |
| `LivePipelineProofs` | `TypeCorrect`, `LosesNothing`, `StopsForCause` | The types need `Quiet`, that a task holds trades only while it works on them. Processed, held, dropped, queued and unsent trades, read in a row, are the numbers up to `arrived`: a step moves a head to the tail before it (`MoveHead`), or counts on at the end (`CountOn`). `Reasons` gives each ended task its reason, which may be another task's. |
| `LiveTargetsProofs` | `TypeCorrect`, `StandsUntilLogged`, `LogFollows`, `FirstStays` | The mutex excludes a demotion between the two statements; `Past` says that nothing was written in the future, so a log entry made now follows the write. |
| `InsiderCacheProofs` | `TypeCorrect`, `Annotations`, `Buyers`, `DeltasGrow`, `UsesEarliestSlot`, `InsidersTrulyInside`, `RowsTell`, `HerdsSeen` | For a token whose registry entry and buy list have lost nothing, every trade in a window was observed, so its T0 is cached, no higher than its slot, and was no lower when the trade was annotated (`WindowsObserved`); and while a revision is in progress the registry still holds the slot that caused it (`CallOK`). `Collect` then finds every wallet to reach because of `BuyersIndexed`, and each `ReAnnotateWallet` takes its wallet out of `Pending`. Both invariants are inductive only together. Of `Screening`, `SInv` adds that what the registry holds is the lowest slot seen (`LowestSeen`), that the buy list of a token that has lost nothing holds every buy seen but the one in process (`BuysListed`), and that stored metrics are those of the window. Then the annotated deltas a filter counts are the true ones, set by set, the stored ratios are the fresh ones, and the followers in the list are all the followers. |
| `TransactionParserProofs` | `TypeCorrect`, `SidesSaid`, `StampsBounded`, `SwapsReadBack`, `SwapsRead`, `StampsTrue` | A lemma per layout says of any buffer and log what side and time its trade gets, and that there is at most the one. `IInv` carries it from the push of a trade to its return: that a trade was right by its event when it was pushed stays true because the transaction does not change under the walk, and the clock only goes on. For the last three `WInv` adds that each trade is what one instruction gave at some time since the start, and that each instruction walked over gave a trade or could not; the rest is about one event at one time: `StampRead` and `SwapAmountRead` say what the searches for a time and an amount find, whatever the other words are, `EventReadBack` and `EventIsRead` what every layout makes of the event, `BalancesReadBack` and `BalancesAreRead` the same of AMM V4 and its cost. |
| `ReplayProofs` | `TypeCorrect`, `ViewsComplete`, `FifoCycles`, `RankedSafely` | `Kept` (the elements of a sequence that are in a set) is shown to exist for every length and to distribute over concatenation; then what arrived for a key is its list and what is still coming for it, in a row: a delivery adds to both sides (`DeliverKeeps`), `Aggregate` moves the head of the one part behind the other (`ViewMoves`), and `Quiet` says that nothing is coming once the main task goes on. `ProfilesSay` carries a profile's trades and cycles through the filters, which write only verdicts. `FifoSoFar` is the loop invariant of `match_trade_cycles`: the pending buys are in order and younger than every matched one, each buy is pending or matched, and a sell that is not matched had no buy before it that was left. `Place` numbers the trades in the order of slot and `tx_index` without a gap (`PlaceFacts`), so that sorting neither loses a trade nor repeats one. `RankedSafely`: `Judged` says what the verdict of each filter was and that it still holds of the profiles that remain, up to the ranking; `IsReading` says that a list is read out of `arrived`, position by position, and carries from `Kept` through the sort to a profile, so that the sets the filters counted are at least as large as the true ones (`CountAtMost`), and the buys at most as many (`CountAtLeast`). |

They are the properties of the runs above, by name, so that a run shows each on a small
instance. What the proofs assume: `SlotsAssumption` and `EntriesAssumption` (slots and
positions are natural numbers, as `u64` and `u32`), `TradesAssumption` (amounts too), `WalletsAssumption` (a trade is by a wallet),
`UnitAssumption`, `ClockAssumption` and `TransactionAssumption` (words are u64s, the clock does
not go back), `WindowAssumption`, `BuyIndexAssumption`, `SizesAssumption` (caps are positive, as the
constants of the code are), `ThresholdsAssumption`, `DeltaAssumption`, `SkewAssumption`,
`StreamAssumption`, `ReplayAssumption` and `MessagesAssumption` (a transaction's trades
are a sequence, their slots and indices unsigned). `ReportsAssumption` is about the programs, not the parser: an event that stands for a swap is
one of `DexEvents`, of any length, mint, amount and time that its layout allows and with any
other numbers in it, and of an AMM V4 swap that nothing else but the cost changed the balances
compared. Only the last three theorems of the parser use it; TLC evaluates it
on every transaction of the run. The bounds for TLC
(`MaxTrades`, `MaxIndexed`, `MaxIngests`, `MaxNow`, `MaxCrashes`) are arbitrary in the
proofs.

**Induction.** The library's induction theorems take an operator, which the provers here
cannot instantiate. Where an induction over numbers is needed it is over a set instead:
`LeastNumber` (a non-empty set of natural numbers has a least one, from the well-foundedness
of < in the library) and `InductionOn` in `WalletLemmas` and `ReplayProofs` say it for any
set of natural numbers, and each use names the set of the numbers for which its claim holds.
`RecursionOn` builds the function that a step defines up to any number: a recursive function
of the model, such as `Matching`, has the value that its definition gives it.

Only model-checked: the liveness properties (`ShutdownStops`, `ArrivedIsProcessed`,
`StaleIsDemoted`, `ReplayEnds`), which rest on fairness and ENABLED. Every other property of
a passing run is a theorem.

## 5. Plan

Done: the live daemon from the stream to the database, in the order registry, wallet, buy
list, orchestrator, filters, tasks, database; replay mode from the stream to the ranking;
the parser that both read; the proofs of section 4. Left for later:

1. Proofs: that `MatchTradeCycles` is the only matching that `IsFifoMatching` allows, and that
   a ranking of `Rankings` is best first, for any scores.

Not modelled: `config.rs` reads the command line and the environment, and its values are the
constants here; `output.rs` formats the report and writes one file. Neither decides anything
that the other parts see.
