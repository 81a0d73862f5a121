----------------------------- MODULE ReplayOps ------------------------------
(***************************************************************************)
(* The batch analysis of replay mode as operators: a wallet's profile and  *)
(* its FIFO cycles (src/src/aggregator.rs), filters A to D                 *)
(* (src/src/filters.rs) and the ranking (src/src/ranker.rs).               *)
(*                                                                         *)
(* A cycle is the pair of positions of its buy and its sell in the         *)
(* profile's trades, which holds what TradeCycle copies; the order of the  *)
(* cycles is that of a HashMap and nothing depends on it, so they are a    *)
(* set.  A cycle's profit is in whole percent; averages, rates and scores  *)
(* are exact: they are compared by cross-multiplication.                   *)
(***************************************************************************)
EXTENDS Integers, Sequences, FiniteSets, SequencesExt

CONSTANTS MinTrades,           \* --min-trades, 10
          MinCycles,           \* --min-cycles, 5
          Top,                 \* --top, 5
          MinAvgSol,           \* min_avg_trade_sol, 0.1 SOL
          MaxAvgSol,           \* max_avg_trade_sol, 2 SOL
          FollowerThreshold,   \* mev_follower_threshold, 3
          SniperMaxDelta,      \* sniper_max_slot_delta, 2
          MomentumSecs,        \* momentum_entry_min_secs..max_secs, 300..900
          MinGainPct,          \* min_avg_gain_pct, 100
          Volume               \* Volume[n]: 1000 + 100 * ln(n), rounded; n >= 1

ASSUME ReplayAssumption ==
    /\ {MinTrades, MinCycles, Top, MinAvgSol, MaxAvgSol,
        FollowerThreshold, SniperMaxDelta, MinGainPct} \subseteq Nat
    /\ MomentumSecs \subseteq Nat

Sum(f(_), S) == FoldSet(LAMBDA x, acc : f(x) + acc, 0, S)

Positions(s) == [k \in DOMAIN s |-> k]

\* The elements of a sequence that are in a set, in their order: SelectSeq with
\* a set for its test.
Kept(s, S) ==
    LET upTo[n \in 0..Len(s)] ==
          IF n = 0 THEN << >>
          ELSE IF s[n] \in S THEN Append(upTo[n - 1], s[n]) ELSE upTo[n - 1]
    IN  upTo[Len(s)]

-----------------------------------------------------------------------------
(* Order and matching.                                                     *)

\* By (slot, tx_index), then by position.
Earlier(s, i, j) == \/ s[i].slot < s[j].slot
                    \/ s[i].slot = s[j].slot /\ s[i].tx < s[j].tx
                    \/ s[i].slot = s[j].slot /\ s[i].tx = s[j].tx /\ i < j

\* Sorted by (slot, tx_index); the sort is stable.  A trade's place is the number
\* of the trades up to it.
Place(s, i) == Cardinality({j \in DOMAIN s : j = i \/ Earlier(s, j, i)})
Chronological(s) == [k \in DOMAIN s |-> s[CHOOSE i \in DOMAIN s : Place(s, i) = k]]

\* Defect: a sell is matched to the newest pending buy.
MatchNewest(trades, m) ==
    LET Step(acc, i) ==
          IF trades[i].mint # m THEN acc
          ELSE IF trades[i].is_buy
            THEN [acc EXCEPT !.pending = Append(@, i)]
          ELSE IF acc.pending = << >> THEN acc
          ELSE [pending |-> Front(acc.pending), cycles |-> acc.cycles \cup {<<Last(acc.pending), i>>}]
    IN  FoldLeft(Step, [pending |-> << >>, cycles |-> {}], Positions(trades)).cycles

\* One trade in match_trade_cycles: a sell takes the oldest pending buy of its
\* token, and is ignored if there is none.
MatchTrade(trades, m, acc, i) ==
    IF trades[i].mint # m THEN acc
    ELSE IF trades[i].is_buy
      THEN [pending |-> Append(acc.pending, i), cycles |-> acc.cycles]
    ELSE IF acc.pending = << >> THEN acc
    ELSE [pending |-> Tail(acc.pending),
          cycles  |-> acc.cycles \cup {<<Head(acc.pending), i>>}]

\* The pending buys and the cycles of a token after each trade.
Matching(trades, m) ==
    LET after[i \in 0..Len(trades)] ==
          IF i = 0 THEN [pending |-> << >>, cycles |-> {}]
          ELSE MatchTrade(trades, m, after[i - 1], i)
    IN  after

\* One token of match_trade_cycles.
MatchToken(trades, m) == Matching(trades, m)[Len(trades)].cycles

MatchTradeCycles(trades) ==
    UNION {MatchToken(trades, m) : m \in {trades[i].mint : i \in DOMAIN trades}}

\* What the matching is: by token, a sell and an earlier buy each at most
\* once, in the order of the buys, and no sell left over that an unsold buy
\* precedes.
IsFifoMatching(trades, cycles) ==
    /\ \A c \in cycles : /\ c[1] < c[2]
                         /\ trades[c[1]].is_buy /\ ~trades[c[2]].is_buy
                         /\ trades[c[1]].mint = trades[c[2]].mint
    /\ \A c, d \in cycles : trades[c[1]].mint = trades[d[1]].mint =>
                              (c[1] < d[1] <=> c[2] < d[2])
    /\ \A b, s \in DOMAIN trades :
         /\ b < s /\ trades[b].mint = trades[s].mint
         /\ trades[b].is_buy /\ ~trades[s].is_buy
         => (\E c \in cycles : c[1] = b /\ c[2] <= s) \/ (\E c \in cycles : c[2] = s)
    /\ \A c \in cycles, b \in DOMAIN trades :
         trades[b].is_buy /\ b < c[1] /\ trades[b].mint = trades[c[1]].mint =>
           \E d \in cycles : d[1] = b

-----------------------------------------------------------------------------
(* Profiles.                                                               *)

\* WalletProfile; is_sniper, which only filter C reads, and the stored
\* metrics, which are functions of the trades and cycles, are left out.
Profile(trades) ==
    [trades   |-> trades,
     cycles   |-> MatchTradeCycles(trades),
     herded   |-> 0,
     momentum |-> FALSE,
     reasons  |-> << >>]

Disqualified(p) == p.reasons # << >>

Disqualify(p, reason) == [p EXCEPT !.reasons = Append(@, reason)]

\* build_profile
BuildProfile(trades) ==
    LET p == Profile(Chronological(trades))
    IN  IF Cardinality(p.cycles) < MinCycles THEN Disqualify(p, "cycles") ELSE p

BuysOf(p) == {i \in DOMAIN p.trades : p.trades[i].is_buy}

\* pnl_pct, in whole percent; a buy for nothing gains nothing.
Pct(p, c) == LET buy == p.trades[c[1]].sol
             IN  IF buy > 0 THEN ((p.trades[c[2]].sol - buy) * 100) \div buy ELSE 0

WinsOf(p)   == {c \in p.cycles : 0 < p.trades[c[1]].sol
                                    /\ p.trades[c[1]].sol < p.trades[c[2]].sol}
LossesOf(p) == p.cycles \ WinsOf(p)

GainsOf(p) == Sum(LAMBDA c : Pct(p, c), WinsOf(p))
LostBy(p)  == Sum(LAMBDA c : -Pct(p, c), LossesOf(p))

\* win_rate * (avg_winning_pct / avg_losing_pct) as numerator and denominator.
\* Without losses the average loss is 1; if it is 0 it is not divided by.
Expectancy(p) ==
    IF LostBy(p) > 0
      THEN <<GainsOf(p) * Cardinality(LossesOf(p)), Cardinality(p.cycles) * LostBy(p)>>
      ELSE <<GainsOf(p), Cardinality(p.cycles)>>

-----------------------------------------------------------------------------
(* The filters.  Each leaves a disqualified profile alone; tokens is the   *)
(* map of the trades of each token.                                        *)

FilterA(p) ==
    LET total == Sum(LAMBDA i : p.trades[i].sol, DOMAIN p.trades)
    IN  IF \/ total < MinAvgSol * Len(p.trades)
           \/ total > MaxAvgSol * Len(p.trades)
          THEN Disqualify(p, "A") ELSE p

\* Defect: the next block is left out.
CopiesInBlock(buy, trades) ==
    {j \in DOMAIN trades :
       LET other == trades[j]
           delta == IF other.slot > buy.slot THEN other.slot - buy.slot ELSE 0
       IN  /\ other.is_buy /\ other.wallet # buy.wallet
           /\ delta = 0 /\ other.tx > buy.tx}

\* The buys that filter B counts as copies of a buy: the delta saturates, so
\* one of an earlier slot is compared by its tx_index.
CopiesOf(buy, trades) ==
    {j \in DOMAIN trades :
       LET other == trades[j]
           delta == IF other.slot > buy.slot THEN other.slot - buy.slot ELSE 0
       IN  /\ other.is_buy /\ other.wallet # buy.wallet
           /\ \/ delta = 0 /\ other.tx > buy.tx
              \/ delta = 1}

FilterB(p, tokens) ==
    LET herded == {i \in BuysOf(p) :
                     Cardinality(CopiesOf(p.trades[i], tokens[p.trades[i].mint]))
                       >= FollowerThreshold}
        judged == [p EXCEPT !.herded = Cardinality(herded)]
    IN  IF BuysOf(p) = {} THEN p
        ELSE IF 2 * Cardinality(herded) >= Cardinality(BuysOf(p))
               THEN Disqualify(judged, "B") ELSE judged

\* The trades of a token whose time is known, and the first of them.
DatedIn(trades) == {j \in DOMAIN trades : trades[j].ts > 0}
FirstTrade(trades) ==
    trades[CHOOSE j \in DatedIn(trades) :
             \A k \in DatedIn(trades) : j = k \/ Earlier(trades, j, k)]

FilterC(p, tokens) ==
    LET known(i)  == DatedIn(tokens[p.trades[i].mint]) # {}
        first(i)  == FirstTrade(tokens[p.trades[i].mint])
        sniped    == {i \in BuysOf(p) :
                        known(i) /\ p.trades[i].slot <= first(i).slot + SniperMaxDelta}
        delta(i)  == IF p.trades[i].ts > first(i).ts THEN p.trades[i].ts - first(i).ts ELSE 0
        momentum  == {i \in BuysOf(p) :
                        known(i) /\ p.trades[i].ts > 0 /\ delta(i) \in MomentumSecs}
        buys      == Cardinality(BuysOf(p))
        judged    == [p EXCEPT !.momentum = 10 * Cardinality(momentum) >= 6 * buys]
    IN  IF BuysOf(p) = {} THEN p
        ELSE IF 2 * Cardinality(sniped) >= buys THEN Disqualify(judged, "C") ELSE judged

\* 60% of the cycles won, and a gain of MinGainPct on average; without a win
\* the average gain is 0.
FilterD(p) ==
    LET wins == Cardinality(WinsOf(p))
        all  == Cardinality(p.cycles)
    IN  IF \/ all = 0
           \/ wins * 10 < all * 6
           \/ IF wins = 0 THEN MinGainPct > 0 ELSE GainsOf(p) < MinGainPct * wins
          THEN Disqualify(p, "D") ELSE p

-----------------------------------------------------------------------------
(* The ranking.                                                            *)

\* compute_composite_score, as numerator and denominator: expectancy, momentum
\* bonus, share of buys that are not herded, volume.  Who has no buy has no
\* cycle and an expectancy of 0.
Score(p) ==
    LET buys == Cardinality(BuysOf(p))
        all  == Cardinality(p.cycles)
    IN  IF all = 0 THEN <<0, 1>>
        ELSE <<Expectancy(p)[1] * (IF p.momentum THEN 12 ELSE 10) * (buys - p.herded) * Volume[all],
               Expectancy(p)[2] * buys>>

Below(a, b) == a[1] * b[2] < b[1] * a[2]

\* rank_wallets: what a sort by descending score may leave of the candidates,
\* whose order the HashMap chooses, cut at Top.
Candidates(profiles) == {w \in DOMAIN profiles : ~Disqualified(profiles[w])}

Rankings(profiles) ==
    LET size   == IF Cardinality(Candidates(profiles)) < Top
                    THEN Cardinality(Candidates(profiles)) ELSE Top
        scores == [w \in Candidates(profiles) |-> Score(profiles[w])]
    IN  {r \in UNION {SetToSeqs(S) : S \in SUBSET Candidates(profiles)} :
           /\ Len(r) = size
           /\ \A i, j \in DOMAIN r : i < j => ~Below(scores[r[i]], scores[r[j]])
           /\ \A w \in Candidates(profiles) \ ToSet(r) : \A i \in DOMAIN r :
                ~Below(scores[r[i]], scores[w])}
=============================================================================
