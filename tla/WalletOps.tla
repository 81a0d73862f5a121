----------------------------- MODULE WalletOps ------------------------------
(***************************************************************************)
(* What one wallet's state is and what each operation on it computes       *)
(* (src/src/wallet_state.rs), as operators that WalletState and            *)
(* InsiderCache build their actions from.                                  *)
(*                                                                         *)
(* SOL amounts are natural numbers in a unit of the model's choice; the    *)
(* code's f64 thresholds (90% to close, 70% for a dump) are exact ratios   *)
(* of them.  Time is the slot: a block's timestamp grows with its slot.    *)
(***************************************************************************)
EXTENDS Integers, Sequences, FiniteSets

CONSTANTS Mints,          \* token mint addresses
          Trades,         \* the ParsedTrades the parser may deliver
          RecentWindow,   \* RECENT_TRADES_WINDOW, 20
          MaxCycles,      \* MAX_COMPLETED_CYCLES, 200
          MinSlotDelta,   \* anti_sniper_min_slot_delta, 3
          MaxSlotDelta    \* anti_sniper_max_slot_delta, 15

\* A trade has the fields of ParsedTrade that tell wallets and tokens apart;
\* `tokens` is its token_amount, which the wallet state never reads.
ASSUME TradesAssumption ==
    \A t \in Trades : /\ t.mint \in Mints
                      /\ t.is_buy \in BOOLEAN
                      /\ t.sol \in Nat /\ t.tokens \in Nat
                      /\ t.slot \in Nat /\ t.tx \in Nat
ASSUME WindowAssumption == RecentWindow \in Nat \ {0} /\ MaxCycles \in Nat \ {0}
ASSUME DeltaAssumption  == /\ MinSlotDelta \in Nat
                           /\ MaxSlotDelta \in Nat
                           /\ MinSlotDelta <= MaxSlotDelta

None == -1   \* Option::None of a slot or a slot delta

-----------------------------------------------------------------------------
(* Annotation: a trade with its slot distance from the token's T0.         *)

Classes == {"unknown", "sniper", "insider", "retail"}

\* u64::saturating_sub
SatSub(a, b) == IF a > b THEN a - b ELSE 0

\* is_sniper, is_in_insider_window and is_retail: exactly one is true.
Classify(delta) == IF delta < MinSlotDelta THEN "sniper"
                   ELSE IF delta <= MaxSlotDelta THEN "insider"
                   ELSE "retail"

\* AnnotatedTrade::annotate.  "unknown" is t0_was_known = false.
Annotate(trade, t0) ==
    IF t0 = None THEN [trade |-> trade, delta |-> None, class |-> "unknown"]
    ELSE LET delta == SatSub(trade.slot, t0)
         IN  [trade |-> trade, delta |-> delta, class |-> Classify(delta)]

\* Defect: the distance is taken from the trade to T0, not from T0.
ReAnnotateSwapped(a, t0) ==
    LET delta == SatSub(t0, a.trade.slot)
    IN  [trade |-> a.trade, delta |-> delta, class |-> Classify(delta)]

\* AnnotatedTrade::re_annotate with a T0 that is known.
ReAnnotate(a, t0) ==
    LET delta == SatSub(a.trade.slot, t0)
    IN  [trade |-> a.trade, delta |-> delta, class |-> Classify(delta)]

Annotated == [trade : Trades, delta : Nat \cup {None}, class : Classes]

-----------------------------------------------------------------------------
(* Positions: one per token the wallet holds.                              *)

\* No entry in per_token_positions.  A position that exists has counted at
\* least its first buy.
NoPosition == [bought |-> 0, sold |-> 0, buy_count |-> 0, sell_count |-> 0,
               dumps |-> 0]
Positions  == [bought : Nat, sold : Nat, buy_count : Nat, sell_count : Nat,
               dumps : Nat]

Held(p) == p.buy_count > 0

\* TokenPosition::new as ingest_trade calls it, with no SOL bought yet.
NewPosition == [NoPosition EXCEPT !.buy_count = 1]

AddBuy(p, sol) == [p EXCEPT !.bought = @ + sol, !.buy_count = @ + 1]

\* Defect: the operands of the comparison are swapped.
DumpsSwapped(p, sol) == p.bought = 0 \/ p.bought * 10 > sol * 7

\* A sell is a dump when it returns more than 70% of what was bought so far.
\* The sells are kept as the number of dumps: max_single_sell_pct is asked one
\* question only, whether it is above that (filter_sizing, heuristics.rs:420).
Dumps(p, sol) == p.bought = 0 \/ sol * 10 > p.bought * 7

AddSell(p, sol) == [p EXCEPT !.sold = @ + sol, !.sell_count = @ + 1,
                             !.dumps = @ + (IF Dumps(p, sol) THEN 1 ELSE 0)]

\* Defect: the slippage allowance is half of the position.
ClosedEarly(p) == p.sold * 10 >= p.bought * 5

\* total_sold_sol >= 0.90 * total_bought_sol
Closed(p) == p.sold * 10 >= p.bought * 9

\* CompletedCycle of a position that has just closed.
CycleOf(mint, p, now) ==
    [mint      |-> mint,
     buy       |-> p.bought,
     sell      |-> p.sold,
     is_win    |-> p.bought > 0 /\ p.sold > p.bought,
     tranches  |-> p.sell_count,
     dumps     |-> p.dumps,
     closed_at |-> now]

Cycles == [mint : Mints, buy : Nat, sell : Nat, is_win : BOOLEAN,
           tranches : Nat, dumps : Nat, closed_at : Nat]

-----------------------------------------------------------------------------
(* The wallet.                                                             *)

\* Stored metrics: wins of the last cycles; SOL that each buy of the window
\* spent and the number of buys, whose quotient is avg_entry_size_sol; and the
\* buys in the window by class.  (avg_sell_tranches and
\* avg_max_single_sell_pct are only displayed.)
NoMetrics == [wins |-> 0, cycles |-> 0,
              spent |-> [i \in 1..RecentWindow |-> 0], buys |-> 0,
              sniper |-> 0, insider |-> 0, retail |-> 0, annotated |-> 0]
Metrics   == [wins : Nat, cycles : Nat,
              spent : [1..RecentWindow -> Nat], buys : Nat,
              sniper : Nat, insider : Nat, retail : Nat, annotated : Nat]

\* WalletState::new.  A wallet that is not in the cache is not told apart
\* from a new one: both have an empty window.
NewWallet == [recent       |-> << >>,
              positions    |-> [m \in Mints |-> NoPosition],
              cycles       |-> << >>,
              last_updated |-> 0,
              metrics      |-> NoMetrics]

WalletStates == [recent       : Seq(Annotated),
                 positions    : [Mints -> Positions],
                 cycles       : Seq(Cycles),
                 last_updated : Nat,
                 metrics      : Metrics]

Tracked(w) == w.recent # << >>

\* Defect: nothing is ever popped.
PushUncapped(s, x, cap) == Append(s, x)

\* VecDeque::push_back, then pop_front past the cap.
PushCapped(s, x, cap) == LET t == Append(s, x)
                         IN  IF Len(t) > cap THEN Tail(t) ELSE t

BuysIn(recent) == {i \in DOMAIN recent : recent[i].trade.is_buy}
AnnotatedBuysIn(recent) == {i \in BuysIn(recent) : recent[i].class # "unknown"}
OfClass(recent, class) == {i \in BuysIn(recent) : recent[i].class = class}

SpentIn(recent) == [i \in 1..RecentWindow |->
                      IF i \in BuysIn(recent) THEN recent[i].trade.sol ELSE 0]

\* The cycles that the win rate looks at, and those of them that won.
LastCycles(cycles) == {i \in DOMAIN cycles : i > Len(cycles) - RecentWindow}
LastWins(cycles)   == {i \in LastCycles(cycles) : cycles[i].is_win}

\* Defect: the ratios are not recomputed.
RecomputeWinsOnly(old, recent, cycles) ==
    [old EXCEPT !.wins    = Cardinality(LastWins(cycles)),
                !.cycles  = Cardinality(LastCycles(cycles)),
                !.spent   = SpentIn(recent),
                !.buys    = Cardinality(BuysIn(recent))]

\* recompute_metrics.  Without an annotated buy the old ratios stay.
RecomputeMetrics(old, recent, cycles) ==
    LET ratios == AnnotatedBuysIn(recent) # {}
        Count(S, was) == IF ratios THEN Cardinality(S) ELSE was
    IN [wins      |-> Cardinality(LastWins(cycles)),
        cycles    |-> Cardinality(LastCycles(cycles)),
        spent     |-> SpentIn(recent),
        buys      |-> Cardinality(BuysIn(recent)),
        sniper    |-> Count(OfClass(recent, "sniper"), old.sniper),
        insider   |-> Count(OfClass(recent, "insider"), old.insider),
        retail    |-> Count(OfClass(recent, "retail"), old.retail),
        annotated |-> Count(AnnotatedBuysIn(recent), old.annotated)]

\* A sell of a token the wallet holds, after which 90% are sold.  A sell of a
\* token it does not hold is an orphan and touches no position.
Closes(p, t) == ~t.is_buy /\ Held(p) /\ Closed(AddSell(p, t.sol))

\* Defect: the position that closed stays open, to close again.
PositionAfterKept(p, t) ==
    IF t.is_buy THEN AddBuy(IF Held(p) THEN p ELSE NewPosition, t.sol)
    ELSE IF Held(p) THEN AddSell(p, t.sol)
    ELSE p

\* What ingest_trade makes of the position in the trade's token.
PositionAfter(p, t) ==
    IF t.is_buy THEN AddBuy(IF Held(p) THEN p ELSE NewPosition, t.sol)
    ELSE IF Closes(p, t) THEN NoPosition
    ELSE IF Held(p) THEN AddSell(p, t.sol)
    ELSE p

\* What it makes of the completed cycles.
CyclesAfter(cycles, p, t) ==
    IF Closes(p, t)
      THEN PushCapped(cycles, CycleOf(t.mint, AddSell(p, t.sol), t.slot), MaxCycles)
      ELSE cycles

\* ingest_trade: window, position, cycles, then the metrics.
IngestTrade(w, a) ==
    LET t      == a.trade
        recent == PushCapped(w.recent, a, RecentWindow)
        cycles == CyclesAfter(w.cycles, w.positions[t.mint], t)
    IN  [recent       |-> recent,
         positions    |-> [w.positions EXCEPT ![t.mint] = PositionAfter(@, t)],
         cycles       |-> cycles,
         last_updated |-> t.slot,
         metrics      |-> RecomputeMetrics(w.metrics, recent, cycles)]

\* Defect: the metrics are left as they were.
ReAnnotateTokenStale(w, m, t0) ==
    [w EXCEPT !.recent = [i \in DOMAIN w.recent |->
                            IF w.recent[i].trade.mint = m THEN ReAnnotate(w.recent[i], t0)
                                                          ELSE w.recent[i]]]

\* re_annotate_token: every trade of the token in the window, then the metrics.
ReAnnotateToken(w, m, t0) ==
    LET recent == [i \in DOMAIN w.recent |->
                     IF w.recent[i].trade.mint = m THEN ReAnnotate(w.recent[i], t0)
                                                   ELSE w.recent[i]]
    IN  [recent       |-> recent,
         positions    |-> w.positions,
         cycles       |-> w.cycles,
         last_updated |-> w.last_updated,
         metrics      |-> RecomputeMetrics(w.metrics, recent, w.cycles)]
=============================================================================
