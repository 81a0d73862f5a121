----------------------------- MODULE Heuristics -----------------------------
(***************************************************************************)
(* The filters that qualify a wallet (src/src/heuristics.rs), as operators *)
(* on a wallet's state and, for the copycats, on the tokens' buy lists.    *)
(* The ratios of HeuristicConfig::default are exact here: a quotient of    *)
(* counts is compared with a fraction by cross-multiplication.             *)
(***************************************************************************)
EXTENDS WalletOps, BuyIndexOps

CONSTANTS MinCyclesForWinRate,     \* 5
          MinAnnotatedBuys,        \* 5
          MinBuysForAverage,       \* 3
          MaxAvgEntrySol,          \* 5 SOL
          MinBuysForHerd,          \* 5
          MinCorrelatedBuys,       \* copycat_min_correlated_buys, 4
          MinPositionsForSizing,   \* 3
          MinSellTranches,         \* 2
          SufficientCycles,        \* 5
          SufficientTrades         \* 10

ASSUME ThresholdsAssumption ==
    {MinCyclesForWinRate, MinAnnotatedBuys, MinBuysForAverage, MaxAvgEntrySol,
     MinBuysForHerd, MinCorrelatedBuys, MinPositionsForSizing, MinSellTranches,
     SufficientCycles, SufficientTrades} \subseteq Nat \ {0}

Verdicts == {"pass", "fail", "insufficient"}

Verdict(enough, good) == IF ~enough THEN "insufficient" ELSE IF good THEN "pass" ELSE "fail"

\* Filter 1, on the stored win rate: at least 80% of the last cycles won.
FilterWinRate(w) ==
    Verdict(Len(w.cycles) >= MinCyclesForWinRate,
            w.metrics.wins * 10 >= w.metrics.cycles * 8)

\* Filter 2, on a fresh count of the window: half of the annotated buys are
\* insider buys.
FilterAntiSniper(w) ==
    LET annotated == Cardinality(AnnotatedBuysIn(w.recent))
    IN  Verdict(annotated >= MinAnnotatedBuys,
                Cardinality(OfClass(w.recent, "insider")) * 2 >= annotated)

\* Filter 3a, on the stored average entry.
FilterAntiWhale(w) ==
    Verdict(Cardinality(BuysIn(w.recent)) >= MinBuysForAverage,
            FoldFunction(LAMBDA x, y : x + y, 0, w.metrics.spent)
              <= MaxAvgEntrySol * w.metrics.buys)

\* A buy of the window that enough wallets copied, says the token's list.
Herded(t, lists) ==
    Cardinality(Copycats(lists[t.mint], t.wallet, t.slot, t.tx)) >= MinCorrelatedBuys

\* Filter 3b: less than half of the buys in the window are herded.
FilterAntiHerd(w, lists) ==
    LET ours   == BuysIn(w.recent)
        herded == {i \in ours : Herded(w.recent[i].trade, lists)}
    IN  Verdict(Cardinality(ours) >= MinBuysForHerd,
                Cardinality(herded) * 2 < Cardinality(ours))

\* A cycle sold in tranches, none of which dumped more than 70%.
Compliant(c) == c.tranches >= MinSellTranches /\ c.dumps = 0

\* Filter 4: 60% of all the cycles are compliant.
FilterSizing(w) ==
    Verdict(Len(w.cycles) >= MinPositionsForSizing,
            Cardinality({i \in DOMAIN w.cycles : Compliant(w.cycles[i])}) * 10
              >= Len(w.cycles) * 6)

\* has_sufficient_data: below it the processor does not evaluate a wallet.
HasSufficientData(w) == /\ Len(w.cycles) >= SufficientCycles
                        /\ Len(w.recent) >= SufficientTrades

\* evaluate_wallet: the five verdicts; insufficient is not a pass.
EvaluateWallet(w, lists) ==
    [win_rate    |-> FilterWinRate(w),
     anti_sniper |-> FilterAntiSniper(w),
     anti_whale  |-> FilterAntiWhale(w),
     anti_herd   |-> FilterAntiHerd(w, lists),
     sizing      |-> FilterSizing(w)]

Qualified(w, lists) ==
    LET eval == EvaluateWallet(w, lists)
    IN  HasSufficientData(w) /\ \A f \in DOMAIN eval : eval[f] = "pass"
=============================================================================
