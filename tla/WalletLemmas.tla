---------------------------- MODULE WalletLemmas ----------------------------
(***************************************************************************)
(* Facts about the wallet operators, for every window, every trade and     *)
(* every threshold: what they return and which of the window they keep.    *)
(***************************************************************************)
EXTENDS WalletOps, FiniteSetTheorems, WellFoundedInduction, TLAPS

\* Pushing onto a capped window keeps its type and its cap, leaves it
\* non-empty, and invents no element.
LEMMA PushCappedFacts ==
  ASSUME NEW S, NEW s \in Seq(S), NEW x \in S, NEW cap \in Nat \ {0}, Len(s) <= cap
  PROVE  /\ PushCapped(s, x, cap) \in Seq(S)
         /\ Len(PushCapped(s, x, cap)) <= cap
         /\ PushCapped(s, x, cap) # << >>
         /\ \A i \in DOMAIN PushCapped(s, x, cap) :
              \/ PushCapped(s, x, cap)[i] = x
              \/ \E j \in DOMAIN s : PushCapped(s, x, cap)[i] = s[j]
<1> DEFINE t == Append(s, x)
<1>1. /\ t \in Seq(S) /\ Len(t) = Len(s) + 1 /\ t # << >>
      /\ \A i \in DOMAIN t : t[i] = x \/ \E j \in DOMAIN s : t[i] = s[j]
  OBVIOUS
<1>2. CASE Len(t) > cap
  <2>1. PushCapped(s, x, cap) = Tail(t)
    BY <1>2 DEF PushCapped
  <2>2. Tail(t) \in Seq(S) /\ Len(Tail(t)) = Len(s) /\ Len(s) = cap
    BY <1>1, <1>2
  <2>3. \A i \in DOMAIN Tail(t) : Tail(t)[i] = t[i + 1] /\ i + 1 \in DOMAIN t
    BY <1>1, <2>2
  <2>4. Tail(t) # << >>
    BY <2>2
  <2> QED
    BY <1>1, <2>1, <2>2, <2>3, <2>4
<1>3. CASE ~(Len(t) > cap)
  <2>1. PushCapped(s, x, cap) = t
    BY <1>3 DEF PushCapped
  <2> QED
    BY <1>1, <1>3, <2>1
<1> QED
  BY <1>2, <1>3

\* An annotation is an annotated trade, T0 known or not.
LEMMA AnnotateType ==
  ASSUME NEW t \in Trades, NEW t0 \in Nat \cup {None}
  PROVE  Annotate(t, t0) \in Annotated /\ Annotate(t, t0).trade = t
BY TradesAssumption, DeltaAssumption
   DEF Annotate, Annotated, Classify, Classes, SatSub, None

\* Annotating again with a known T0 is annotating the trade with it: nothing
\* of the earlier annotation remains.
LEMMA ReAnnotateIsAnnotate ==
  ASSUME NEW a, NEW t0 \in Nat
  PROVE  ReAnnotate(a, t0) = Annotate(a.trade, t0)
BY DEF ReAnnotate, Annotate, None

\* Counting positions of a window gives a number.
LEMMA CountType ==
  ASSUME NEW X, NEW s \in Seq(X), NEW S \in SUBSET (DOMAIN s)
  PROVE  Cardinality(S) \in Nat
<1>1. DOMAIN s = 1..Len(s) /\ Len(s) \in Nat
  OBVIOUS
<1>2. IsFiniteSet(1..Len(s))
  BY <1>1, FS_Interval
<1> QED
  BY <1>1, <1>2, FS_Subset, FS_CardinalityType

\* recompute_metrics returns metrics.
LEMMA MetricsType ==
  ASSUME NEW old \in Metrics, NEW recent \in Seq(Annotated), NEW cycles \in Seq(Cycles)
  PROVE  RecomputeMetrics(old, recent, cycles) \in Metrics
<1>1. \A S \in SUBSET (DOMAIN recent) : Cardinality(S) \in Nat
  BY CountType
<1>2. \A S \in SUBSET (DOMAIN cycles) : Cardinality(S) \in Nat
  BY CountType
<1>3. /\ BuysIn(recent) \in SUBSET (DOMAIN recent)
      /\ AnnotatedBuysIn(recent) \in SUBSET (DOMAIN recent)
      /\ \A c : OfClass(recent, c) \in SUBSET (DOMAIN recent)
  BY DEF BuysIn, AnnotatedBuysIn, OfClass
<1>4. /\ LastCycles(cycles) \in SUBSET (DOMAIN cycles)
      /\ LastWins(cycles) \in SUBSET (DOMAIN cycles)
  BY DEF LastCycles, LastWins
<1>5. SpentIn(recent) \in [1..RecentWindow -> Nat]
  <2>1. \A i \in BuysIn(recent) : recent[i].trade.sol \in Nat
    <3>1. \A i \in BuysIn(recent) : recent[i] \in Annotated
      BY <1>3
    <3>2. \A i \in BuysIn(recent) : recent[i].trade \in Trades
      BY <3>1 DEF Annotated
    <3> QED
      BY <3>2, TradesAssumption
  <2> QED
    BY <2>1 DEF SpentIn
<1> QED
  BY <1>1, <1>2, <1>3, <1>4, <1>5 DEF RecomputeMetrics, Metrics

\* The empty wallet is a wallet.
LEMMA NewWalletType == NewWallet \in WalletStates
BY WindowAssumption
   DEF NewWallet, WalletStates, NoPosition, Positions, NoMetrics, Metrics

\* What ingest_trade makes of a position is a position.
LEMMA PositionType ==
  ASSUME NEW p \in Positions, NEW t \in Trades
  PROVE  PositionAfter(p, t) \in Positions /\ AddSell(p, t.sol) \in Positions
<1>1. t.sol \in Nat
  BY TradesAssumption
<1>2. NoPosition \in Positions /\ NewPosition \in Positions
  BY DEF Positions, NoPosition, NewPosition
<1>3. AddSell(p, t.sol) \in Positions
  <2>1. PICK sold \in Nat, sells \in Nat, dumps \in Nat :
          AddSell(p, t.sol) = [p EXCEPT !.sold = sold, !.sell_count = sells, !.dumps = dumps]
    <3>1. /\ p.sold + t.sol \in Nat
          /\ p.sell_count + 1 \in Nat
          /\ p.dumps + (IF Dumps(p, t.sol) THEN 1 ELSE 0) \in Nat
      BY <1>1 DEF Positions
    <3> QED
      BY <3>1 DEF AddSell
  <2> QED
    BY <2>1 DEF Positions
<1>4. ASSUME NEW q \in Positions
      PROVE  AddBuy(q, t.sol) \in Positions
  <2>1. PICK bought \in Nat, buys \in Nat :
          AddBuy(q, t.sol) = [q EXCEPT !.bought = bought, !.buy_count = buys]
    <3>1. q.bought + t.sol \in Nat /\ q.buy_count + 1 \in Nat
      BY <1>1 DEF Positions
    <3> QED
      BY <3>1 DEF AddBuy
  <2> QED
    BY <2>1 DEF Positions
<1> QED
  BY <1>2, <1>3, <1>4 DEF PositionAfter

\* What it makes of the completed cycles are cycles, within their cap.
LEMMA CyclesType ==
  ASSUME NEW p \in Positions, NEW t \in Trades, NEW cycles \in Seq(Cycles),
         Len(cycles) <= MaxCycles
  PROVE  CyclesAfter(cycles, p, t) \in Seq(Cycles) /\ Len(CyclesAfter(cycles, p, t)) <= MaxCycles
<1> DEFINE c == CycleOf(t.mint, AddSell(p, t.sol), t.slot)
<1>1. c \in Cycles
  <2>1. AddSell(p, t.sol) \in Positions
    BY PositionType
  <2> QED
    BY <2>1, TradesAssumption DEF CycleOf, Cycles, Positions
<1>2. PushCapped(cycles, c, MaxCycles) \in Seq(Cycles) /\ Len(PushCapped(cycles, c, MaxCycles)) <= MaxCycles
  BY <1>1, PushCappedFacts, WindowAssumption
<1> QED
  BY <1>2 DEF CyclesAfter

\* ingest_trade maps wallets to wallets, keeps both caps, and leaves a window
\* of old trades and the new one.
LEMMA IngestFacts ==
  ASSUME NEW w \in WalletStates, NEW a \in Annotated,
         Len(w.recent) <= RecentWindow
  PROVE  /\ IngestTrade(w, a).recent = PushCapped(w.recent, a, RecentWindow)
         /\ Len(IngestTrade(w, a).recent) <= RecentWindow
         /\ IngestTrade(w, a).recent \in Seq(Annotated)
         /\ Len(w.cycles) <= MaxCycles =>
              IngestTrade(w, a) \in WalletStates /\ Len(IngestTrade(w, a).cycles) <= MaxCycles
<1> DEFINE recent == PushCapped(w.recent, a, RecentWindow)
           cycles == CyclesAfter(w.cycles, w.positions[a.trade.mint], a.trade)
           positions == [w.positions EXCEPT ![a.trade.mint] = PositionAfter(@, a.trade)]
           metrics == RecomputeMetrics(w.metrics, recent, cycles)
<1>1. IngestTrade(w, a) = [recent |-> recent, positions |-> positions, cycles |-> cycles,
                           last_updated |-> a.trade.slot, metrics |-> metrics]
  BY DEF IngestTrade
<1>2. recent \in Seq(Annotated) /\ Len(recent) <= RecentWindow
  BY PushCappedFacts, WindowAssumption DEF WalletStates
<1>3. ASSUME Len(w.cycles) <= MaxCycles
      PROVE  IngestTrade(w, a) \in WalletStates /\ Len(cycles) <= MaxCycles
  <2>1. a.trade \in Trades /\ a.trade.mint \in Mints /\ a.trade.slot \in Nat
    BY TradesAssumption DEF Annotated
  <2>2. w.positions[a.trade.mint] \in Positions
    BY <2>1 DEF WalletStates
  <2>3. positions \in [Mints -> Positions]
    BY <2>1, <2>2, PositionType DEF WalletStates
  <2>4. cycles \in Seq(Cycles) /\ Len(cycles) <= MaxCycles
    BY <1>3, <2>1, <2>2, CyclesType DEF WalletStates
  <2>5. metrics \in Metrics
    <3>1. w.metrics \in Metrics
      BY DEF WalletStates
    <3> HIDE DEF recent, cycles
    <3> QED
      BY <3>1, <2>4, <1>2, MetricsType
  <2> HIDE DEF recent, cycles, positions, metrics
  <2> QED
    BY <1>1, <1>2, <2>1, <2>3, <2>4, <2>5 DEF WalletStates
<1> HIDE DEF recent, cycles, positions, metrics
<1>4. IngestTrade(w, a).recent = recent /\ IngestTrade(w, a).cycles = cycles
  BY <1>1
<1> QED
  BY <1>2, <1>3, <1>4 DEF recent

\* re_annotate_token maps wallets to wallets, keeps every trade of the window
\* where it was, and annotates those of the token from the new T0.
LEMMA ReAnnotateTokenFacts ==
  ASSUME NEW w \in WalletStates, NEW m \in Mints, NEW t0 \in Nat
  PROVE  /\ ReAnnotateToken(w, m, t0) \in WalletStates
         /\ ReAnnotateToken(w, m, t0).cycles = w.cycles
         /\ ReAnnotateToken(w, m, t0).positions = w.positions
         /\ Len(ReAnnotateToken(w, m, t0).recent) = Len(w.recent)
         /\ DOMAIN ReAnnotateToken(w, m, t0).recent = DOMAIN w.recent
         /\ \A i \in DOMAIN w.recent :
              ReAnnotateToken(w, m, t0).recent[i] =
                IF w.recent[i].trade.mint = m THEN Annotate(w.recent[i].trade, t0)
                                              ELSE w.recent[i]
<1> DEFINE recent == [i \in DOMAIN w.recent |->
                        IF w.recent[i].trade.mint = m THEN ReAnnotate(w.recent[i], t0)
                                                      ELSE w.recent[i]]
           metrics == RecomputeMetrics(w.metrics, recent, w.cycles)
<1>1. ReAnnotateToken(w, m, t0) = [recent |-> recent, positions |-> w.positions,
                                   cycles |-> w.cycles, last_updated |-> w.last_updated,
                                   metrics |-> metrics]
  BY DEF ReAnnotateToken
<1>2. w.recent \in Seq(Annotated) /\ DOMAIN w.recent = 1..Len(w.recent) /\ Len(w.recent) \in Nat
  BY DEF WalletStates
<1>3. \A i \in DOMAIN w.recent :
        /\ recent[i] = IF w.recent[i].trade.mint = m THEN Annotate(w.recent[i].trade, t0)
                                                     ELSE w.recent[i]
        /\ recent[i] \in Annotated
  <2> TAKE i \in DOMAIN w.recent
  <2>0. w.recent[i] \in Annotated
    BY <1>2
  <2>1. w.recent[i] \in Annotated /\ w.recent[i].trade \in Trades
    BY <2>0 DEF Annotated
  <2>2. ReAnnotate(w.recent[i], t0) = Annotate(w.recent[i].trade, t0)
    BY ReAnnotateIsAnnotate
  <2>3. Annotate(w.recent[i].trade, t0) \in Annotated
    BY <2>1, AnnotateType
  <2> QED
    BY <2>1, <2>2, <2>3
<1>4. recent \in Seq(Annotated) /\ Len(recent) = Len(w.recent)
  <2>1. recent \in [1..Len(w.recent) -> Annotated]
    BY <1>2, <1>3
  <2> QED
    BY <1>2, <2>1
<1>5. metrics \in Metrics
  <2> HIDE DEF recent
  <2> QED
    BY <1>4, MetricsType DEF WalletStates
<1> HIDE DEF metrics
<1>6. DOMAIN recent = DOMAIN w.recent
  OBVIOUS
<1> HIDE DEF recent
<1>7. ReAnnotateToken(w, m, t0) \in WalletStates
  BY <1>1, <1>4, <1>5 DEF WalletStates
<1>8. /\ ReAnnotateToken(w, m, t0).recent = recent
      /\ ReAnnotateToken(w, m, t0).cycles = w.cycles
      /\ ReAnnotateToken(w, m, t0).positions = w.positions
  BY <1>1
<1> QED
  BY <1>3, <1>4, <1>6, <1>7, <1>8

-----------------------------------------------------------------------------
(* The stored metrics.                                                     *)

\* What metrics say of a window and of cycles when they have been recomputed:
\* the ratios are told only of a window with an annotated buy.
FreshFor(x, recent, cycles) ==
    /\ x.wins = Cardinality(LastWins(cycles))
    /\ x.cycles = Cardinality(LastCycles(cycles))
    /\ x.spent = SpentIn(recent) /\ x.buys = Cardinality(BuysIn(recent))
    /\ AnnotatedBuysIn(recent) # {} =>
         /\ x.annotated = Cardinality(AnnotatedBuysIn(recent))
         /\ x.sniper    = Cardinality(OfClass(recent, "sniper"))
         /\ x.insider   = Cardinality(OfClass(recent, "insider"))
         /\ x.retail    = Cardinality(OfClass(recent, "retail"))
    /\ x.sniper + x.insider + x.retail = x.annotated

\* The sizes of disjoint sets add up.
LEMMA DisjointUnion ==
  ASSUME NEW A, NEW B, IsFiniteSet(A), IsFiniteSet(B), A \cap B = {}
  PROVE  Cardinality(A \cup B) = Cardinality(A) + Cardinality(B)
<1>1. Cardinality(A \cup B) = Cardinality(A) + Cardinality(B) - Cardinality(A \cap B)
  BY FS_Union
<1>2. Cardinality(A \cap B) = 0
  <2>1. Cardinality({}) = 0
    BY FS_EmptySet
  <2> QED
    BY <2>1
<1>3. Cardinality(A) \in Nat /\ Cardinality(B) \in Nat
  BY FS_CardinalityType
<1> QED
  BY <1>1, <1>2, <1>3

\* Every annotated buy is of exactly one class: the three counts add up.
LEMMA ClassesAddUp ==
  ASSUME NEW recent \in Seq(Annotated)
  PROVE  Cardinality(OfClass(recent, "sniper")) + Cardinality(OfClass(recent, "insider"))
           + Cardinality(OfClass(recent, "retail")) = Cardinality(AnnotatedBuysIn(recent))
<1> DEFINE S == OfClass(recent, "sniper")
           I == OfClass(recent, "insider")
           R == OfClass(recent, "retail")
<1>1. \A i \in DOMAIN recent : recent[i].class \in Classes
  <2>1. \A i \in DOMAIN recent : recent[i] \in Annotated
    OBVIOUS
  <2> QED
    BY <2>1 DEF Annotated
<1>2. /\ S \in SUBSET DOMAIN recent /\ I \in SUBSET DOMAIN recent /\ R \in SUBSET DOMAIN recent
      /\ S \cap I = {} /\ (S \cup I) \cap R = {}
  BY DEF OfClass, BuysIn
<1>3. AnnotatedBuysIn(recent) = (S \cup I) \cup R
  BY <1>1 DEF AnnotatedBuysIn, OfClass, BuysIn, Classes
<1> HIDE DEF S, I, R
<1>4. IsFiniteSet(S) /\ IsFiniteSet(I) /\ IsFiniteSet(R) /\ IsFiniteSet(S \cup I)
  <2>1. DOMAIN recent = 1..Len(recent) /\ Len(recent) \in Nat
    OBVIOUS
  <2>2. IsFiniteSet(DOMAIN recent)
    BY <2>1, FS_Interval
  <2> QED
    BY <1>2, <2>2, FS_Subset
<1>5. /\ Cardinality(S) \in Nat /\ Cardinality(I) \in Nat /\ Cardinality(R) \in Nat
      /\ Cardinality(S \cup I) \in Nat
  BY <1>4, FS_CardinalityType
<1>6. Cardinality(S \cup I) = Cardinality(S) + Cardinality(I)
  BY <1>2, <1>4, DisjointUnion
<1>7. Cardinality((S \cup I) \cup R) = Cardinality(S \cup I) + Cardinality(R)
  BY <1>2, <1>4, DisjointUnion
<1> QED
  BY <1>3, <1>5, <1>6, <1>7 DEF S, I, R

\* recompute_metrics makes metrics fresh, if the ratios it keeps for want of an
\* annotated buy add up.
LEMMA RecomputeFresh ==
  ASSUME NEW old, old.sniper + old.insider + old.retail = old.annotated,
         NEW recent \in Seq(Annotated), NEW cycles
  PROVE  FreshFor(RecomputeMetrics(old, recent, cycles), recent, cycles)
<1> DEFINE x == RecomputeMetrics(old, recent, cycles)
<1>1. /\ x.wins = Cardinality(LastWins(cycles)) /\ x.cycles = Cardinality(LastCycles(cycles))
      /\ x.spent = SpentIn(recent) /\ x.buys = Cardinality(BuysIn(recent))
  BY DEF RecomputeMetrics
<1>2. CASE AnnotatedBuysIn(recent) # {}
  <2>1. /\ x.annotated = Cardinality(AnnotatedBuysIn(recent))
        /\ x.sniper    = Cardinality(OfClass(recent, "sniper"))
        /\ x.insider   = Cardinality(OfClass(recent, "insider"))
        /\ x.retail    = Cardinality(OfClass(recent, "retail"))
    BY <1>2 DEF RecomputeMetrics
  <2> HIDE DEF x
  <2>2. x.sniper + x.insider + x.retail = x.annotated
    BY <2>1, ClassesAddUp
  <2> QED
    BY <1>1, <2>1, <2>2 DEF FreshFor, x
<1>3. CASE AnnotatedBuysIn(recent) = {}
  <2>1. /\ x.annotated = old.annotated /\ x.sniper = old.sniper
        /\ x.insider = old.insider /\ x.retail = old.retail
    BY <1>3 DEF RecomputeMetrics
  <2> QED
    BY <1>1, <1>3, <2>1 DEF FreshFor
<1> QED
  BY <1>2, <1>3

\* Both operations on a wallet leave its metrics fresh.
LEMMA OperationsFresh ==
  ASSUME NEW w \in WalletStates, FreshFor(w.metrics, w.recent, w.cycles),
         Len(w.recent) <= RecentWindow
  PROVE  /\ \A a \in Annotated :
              LET x == IngestTrade(w, a) IN FreshFor(x.metrics, x.recent, x.cycles)
         /\ \A m \in Mints, t0 \in Nat :
              LET x == ReAnnotateToken(w, m, t0) IN FreshFor(x.metrics, x.recent, x.cycles)
<1>1. w.metrics.sniper + w.metrics.insider + w.metrics.retail = w.metrics.annotated
  BY DEF FreshFor
<1>2. ASSUME NEW a \in Annotated
      PROVE  LET x == IngestTrade(w, a) IN FreshFor(x.metrics, x.recent, x.cycles)
  <2> DEFINE x == IngestTrade(w, a)
  <2>1. x.metrics = RecomputeMetrics(w.metrics, x.recent, x.cycles)
    BY DEF IngestTrade
  <2>2. x.recent \in Seq(Annotated)
    BY IngestFacts
  <2> HIDE DEF x
  <2>3. FreshFor(x.metrics, x.recent, x.cycles)
    BY <1>1, <2>1, <2>2, RecomputeFresh
  <2> QED
    BY <2>3 DEF x
<1>3. ASSUME NEW m \in Mints, NEW t0 \in Nat
      PROVE  LET x == ReAnnotateToken(w, m, t0) IN FreshFor(x.metrics, x.recent, x.cycles)
  <2> DEFINE x == ReAnnotateToken(w, m, t0)
  <2>1. x.metrics = RecomputeMetrics(w.metrics, x.recent, x.cycles)
    BY DEF ReAnnotateToken
  <2>2. x \in WalletStates
    BY ReAnnotateTokenFacts
  <2>3. x.recent \in Seq(Annotated)
    BY <2>2 DEF WalletStates
  <2> HIDE DEF x
  <2>4. FreshFor(x.metrics, x.recent, x.cycles)
    BY <1>1, <2>1, <2>3, RecomputeFresh
  <2> QED
    BY <2>4 DEF x
<1> QED
  BY <1>2, <1>3

\* The metrics of a new wallet are those of nothing.
LEMMA NewWalletFresh == FreshFor(NewWallet.metrics, NewWallet.recent, NewWallet.cycles)
<1>1. NewWallet.recent = << >> /\ NewWallet.cycles = << >> /\ NewWallet.metrics = NoMetrics
  BY DEF NewWallet
<1>2. BuysIn(<< >>) = {} /\ AnnotatedBuysIn(<< >>) = {} /\ LastCycles(<< >>) = {} /\ LastWins(<< >>) = {}
  BY DEF BuysIn, AnnotatedBuysIn, LastCycles, LastWins
<1>3. SpentIn(<< >>) = [i \in 1..RecentWindow |-> 0]
  BY <1>2 DEF SpentIn
<1>4. Cardinality({}) = 0
  BY FS_EmptySet
<1>5. /\ NoMetrics.wins = 0 /\ NoMetrics.cycles = 0 /\ NoMetrics.buys = 0
      /\ NoMetrics.spent = SpentIn(<< >>)
      /\ NoMetrics.sniper + NoMetrics.insider + NoMetrics.retail = NoMetrics.annotated
  BY <1>3 DEF NoMetrics
<1>6. FreshFor(NoMetrics, << >>, << >>)
  BY <1>2, <1>4, <1>5 DEF FreshFor
<1> QED
  BY <1>1, <1>6

-----------------------------------------------------------------------------
(* Induction, on a set of numbers rather than on a predicate.              *)

LEMMA LeastNumber ==
  ASSUME NEW T \in SUBSET Nat, T # {}
  PROVE  \E n \in T : \A k \in T : n <= k
<1> DEFINE R == OpToRel(<, Nat)
<1>1. IsWellFoundedOn(R, Nat)
  BY NatLessThanWellFounded
<1>2. \A x, y \in Nat : x < y => <<x, y>> \in R
  BY DEF OpToRel
<1> HIDE DEF R
<1>3. PICK n \in T : \A k \in T : ~(<<k, n>> \in R)
  BY <1>1, WFMin
<1>4. ASSUME NEW k \in T PROVE n <= k
  <2>1. ~(k < n)
    BY <1>2, <1>3
  <2> QED
    BY <2>1
<1> QED
  BY <1>4

LEMMA InductionOn ==
  ASSUME NEW S, 0 \in S, \A n \in Nat : n \in S => n + 1 \in S
  PROVE  Nat \subseteq S
<1> DEFINE T == Nat \ S
<1> SUFFICES ASSUME T # {} PROVE FALSE
  OBVIOUS
<1>1. PICK n \in T : \A k \in T : n <= k
  BY LeastNumber
<1>2. n # 0 /\ n - 1 \in Nat /\ n - 1 \notin T
  BY <1>1
<1> QED
  BY <1>2
=============================================================================
