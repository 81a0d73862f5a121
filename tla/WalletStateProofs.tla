------------------------- MODULE WalletStateProofs --------------------------
(***************************************************************************)
(* For every set of trades, window and cap: the wallet keeps its types and *)
(* bounds, the 90% rule splits positions from cycles, a cycle closed by    *)
(* one sell is a dump, the stored metrics are those of the window and the  *)
(* cycles, and every SOL booked is somewhere, once.                        *)
(***************************************************************************)
EXTENDS WalletState, WalletLemmas, SequenceTheorems

\* What the environment may pass is typed: slots of trades are numbers.
LEMMA SlotsType ==
  ASSUME NEW m \in Mints
  PROVE  SlotsOf(m) \subseteq Nat
BY TradesAssumption DEF SlotsOf

LEMMA TypeInductive == TypeOK /\ [Next]_vars => TypeOK'
<1> SUFFICES ASSUME TypeOK, [Next]_vars PROVE TypeOK'
  OBVIOUS
<1> USE DEF TypeOK
<1>1. ASSUME NEW t \in Trades, NEW slot \in SlotsOf(t.mint) \cup {None}, Ingest(t, slot)
      PROVE  TypeOK'
  <2>1. t.mint \in Mints /\ slot \in Nat \cup {None}
    BY SlotsType, TradesAssumption
  <2>2. Annotate(t, slot) \in Annotated
    BY <2>1, AnnotateType
  <2>3. wallet' = IngestTrade(wallet, Annotate(t, slot)) /\ t0' = [t0 EXCEPT ![t.mint] = slot]
    BY <1>1 DEF Ingest
  <2> QED
    BY <2>1, <2>2, <2>3, IngestFacts
<1>2. ASSUME NEW m \in Mints, NEW slot \in SlotsOf(m), Revise(m, slot)
      PROVE  TypeOK'
  <2>1. slot \in Nat
    BY SlotsType
  <2>2. wallet' = ReAnnotateToken(wallet, m, slot) /\ t0' = [t0 EXCEPT ![m] = slot]
    BY <1>2 DEF Revise
  <2> QED
    BY <2>1, <2>2, ReAnnotateTokenFacts
<1>3. ASSUME NEW m \in Mints, Forget(m) PROVE TypeOK'
  BY <1>3 DEF Forget
<1>4. CASE Bounded
  BY <1>4 DEF Bounded, vars
<1>5. CASE UNCHANGED vars
  BY <1>5 DEF vars
<1> QED
  BY <1>1, <1>2, <1>3, <1>4, <1>5 DEF Next

\* Every reachable wallet is well typed, its window and its cycles within
\* their caps.
THEOREM TypeCorrect == Spec => []TypeOK
<1>1. Init => TypeOK
  BY NewWalletType, WindowAssumption DEF Init, TypeOK, NewWallet
<1> QED
  BY <1>1, TypeInductive, PTL DEF Spec

-----------------------------------------------------------------------------
\* The inductive invariant: positions that are open and cycles that are closed
\* lie on either side of the 90% line, and a position counts its sells.
Split == ThresholdSplitsPositions /\ OneTrancheIsADump

\* The two sides of the line for one position and one cycle.
OpenSide(p)   == /\ p.sell_count > 0 => p.sold * 10 < p.bought * 9
                 /\ p.sell_count = 0 => p.sold = 0 /\ p.dumps = 0
ClosedSide(c) == /\ c.sell * 10 >= c.buy * 9
                 /\ c.tranches > 0
                 /\ c.tranches = 1 => c.dumps = 1

LEMMA SplitBySide ==
  Split <=> /\ \A m \in Mints : OpenSide(wallet.positions[m])
            /\ \A i \in DOMAIN wallet.cycles : ClosedSide(wallet.cycles[i])
BY DEF Split, ThresholdSplitsPositions, OneTrancheIsADump, OpenSide, ClosedSide

\* A trade leaves the position in its token on the open side of the line, and
\* the cycle it completes, if any, is on the closed side.
LEMMA TradeKeepsSides ==
  ASSUME NEW p \in Positions, NEW t \in Trades, OpenSide(p)
  PROVE  /\ OpenSide(PositionAfter(p, t))
         /\ Closes(p, t) => ClosedSide(CycleOf(t.mint, AddSell(p, t.sol), t.slot))
<1>1. /\ t.sol \in Nat
      /\ p.bought \in Nat /\ p.sold \in Nat /\ p.sell_count \in Nat /\ p.dumps \in Nat
  BY TradesAssumption DEF Positions
<1> DEFINE q == AddSell(p, t.sol)
<1>2. /\ q.bought = p.bought /\ q.sold = p.sold + t.sol /\ q.sell_count = p.sell_count + 1
      /\ q.dumps = p.dumps + (IF Dumps(p, t.sol) THEN 1 ELSE 0)
  BY DEF AddSell, Positions
<1>3. OpenSide(NoPosition) /\ OpenSide(NewPosition)
  BY DEF OpenSide, NoPosition, NewPosition
<1>4. ASSUME NEW r \in Positions, OpenSide(r)
      PROVE  OpenSide(AddBuy(r, t.sol))
  <2>1. /\ AddBuy(r, t.sol).bought = r.bought + t.sol /\ AddBuy(r, t.sol).sold = r.sold
        /\ AddBuy(r, t.sol).sell_count = r.sell_count /\ AddBuy(r, t.sol).dumps = r.dumps
    BY DEF AddBuy, Positions
  <2>2. r.bought \in Nat /\ r.sold \in Nat
    BY DEF Positions
  <2> QED
    BY <1>1, <1>4, <2>1, <2>2 DEF OpenSide
<1>5. ASSUME ~Closed(q) PROVE OpenSide(q)
  BY <1>1, <1>2, <1>5 DEF OpenSide, Closed
<1>6. ASSUME Closed(q) PROVE ClosedSide(CycleOf(t.mint, q, t.slot))
  <2>1. /\ CycleOf(t.mint, q, t.slot).buy = p.bought
        /\ CycleOf(t.mint, q, t.slot).sell = p.sold + t.sol
        /\ CycleOf(t.mint, q, t.slot).tranches = p.sell_count + 1
        /\ CycleOf(t.mint, q, t.slot).dumps = q.dumps
    BY <1>2 DEF CycleOf
  <2>2. (p.sold + t.sol) * 10 >= p.bought * 9
    BY <1>2, <1>6 DEF Closed
  <2>3. ASSUME p.sell_count = 0 PROVE q.dumps = 1
    <3>1. p.sold = 0 /\ p.dumps = 0
      BY <2>3 DEF OpenSide
    <3>2. Dumps(p, t.sol)
      BY <1>1, <2>2, <3>1 DEF Dumps
    <3> QED
      BY <1>2, <3>1, <3>2
  <2> QED
    BY <1>1, <2>1, <2>2, <2>3 DEF ClosedSide
<1>7. NewPosition \in Positions
  BY DEF NewPosition, NoPosition, Positions
<1> QED
  BY <1>3, <1>4, <1>5, <1>6, <1>7 DEF PositionAfter, Closes

LEMMA SplitInductive == TypeOK /\ Split /\ [Next]_vars => Split'
<1> SUFFICES ASSUME TypeOK, Split, [Next]_vars PROVE Split'
  OBVIOUS
<1> USE DEF TypeOK
<1>0. /\ \A m \in Mints : OpenSide(wallet.positions[m])
      /\ \A i \in DOMAIN wallet.cycles : ClosedSide(wallet.cycles[i])
      /\ wallet.positions \in [Mints -> Positions]
      /\ wallet.cycles \in Seq(Cycles)
  BY SplitBySide DEF WalletStates
<1>1. ASSUME NEW t \in Trades, NEW slot \in SlotsOf(t.mint) \cup {None}, Ingest(t, slot)
      PROVE  Split'
  <2> DEFINE p == wallet.positions[t.mint]
             c == CycleOf(t.mint, AddSell(p, t.sol), t.slot)
  <2>1. t.mint \in Mints /\ p \in Positions /\ OpenSide(p)
    BY <1>0, TradesAssumption
  <2>2. /\ wallet'.positions = [wallet.positions EXCEPT ![t.mint] = PositionAfter(p, t)]
        /\ wallet'.cycles = CyclesAfter(wallet.cycles, p, t)
    <3>1. Annotate(t, slot).trade = t
      BY DEF Annotate
    <3>2. wallet' = IngestTrade(wallet, Annotate(t, slot))
      BY <1>1 DEF Ingest
    <3> QED
      BY <3>1, <3>2 DEF IngestTrade
  <2>3. OpenSide(PositionAfter(p, t)) /\ (Closes(p, t) => ClosedSide(c))
    BY <2>1, TradeKeepsSides
  <2>4. \A m \in Mints : OpenSide(wallet'.positions[m])
    <3> HIDE DEF p
    <3> QED
      BY <1>0, <2>1, <2>2, <2>3
  <2>5. \A i \in DOMAIN wallet'.cycles : ClosedSide(wallet'.cycles[i])
    <3>1. CASE Closes(p, t)
      <4>1. wallet'.cycles = PushCapped(wallet.cycles, c, MaxCycles)
        BY <2>2, <3>1 DEF CyclesAfter
      <4>2. \A i \in DOMAIN PushCapped(wallet.cycles, c, MaxCycles) :
              \/ PushCapped(wallet.cycles, c, MaxCycles)[i] = c
              \/ \E j \in DOMAIN wallet.cycles :
                   PushCapped(wallet.cycles, c, MaxCycles)[i] = wallet.cycles[j]
        <5>1. c \in Cycles
          <6>1. AddSell(p, t.sol) \in Positions
            BY <2>1, PositionType
          <6> QED
            BY <6>1, TradesAssumption DEF CycleOf, Cycles, Positions
        <5> HIDE DEF c
        <5> QED
          BY <1>0, <5>1, PushCappedFacts, WindowAssumption
      <4> HIDE DEF c, p
      <4> QED
        BY <1>0, <2>3, <3>1, <4>1, <4>2
    <3>2. CASE ~Closes(p, t)
      BY <1>0, <2>2, <3>2 DEF CyclesAfter
    <3> QED
      BY <3>1, <3>2
  <2> QED
    BY <2>4, <2>5 DEF Split, ThresholdSplitsPositions, OneTrancheIsADump, OpenSide, ClosedSide
<1>2. ASSUME NEW m \in Mints, NEW slot \in SlotsOf(m), Revise(m, slot)
      PROVE  Split'
  <2>1. wallet' = ReAnnotateToken(wallet, m, slot)
    BY <1>2 DEF Revise
  <2>2. wallet'.positions = wallet.positions /\ wallet'.cycles = wallet.cycles
    BY <2>1 DEF ReAnnotateToken
  <2> QED
    BY <2>2 DEF Split, ThresholdSplitsPositions, OneTrancheIsADump
<1>3. CASE wallet' = wallet
  BY <1>3 DEF Split, ThresholdSplitsPositions, OneTrancheIsADump
<1> QED
  BY <1>1, <1>2, <1>3 DEF Next, Forget, Bounded, vars

\* However buys and sells interleave, what is open is below the 90% line and
\* what is recorded is not: no recorded cycle lost more than a tenth.
THEOREM ThresholdSplits == Spec => []ThresholdSplitsPositions
<1>1. Init => Split
  BY DEF Init, NewWallet, NoPosition, Split, ThresholdSplitsPositions, OneTrancheIsADump
<1>2. Split => ThresholdSplitsPositions
  BY DEF Split
<1> QED
  BY <1>1, <1>2, TypeCorrect, SplitInductive, PTL DEF Spec

\* The tranche count of filter_sizing rejects no cycle that its 70% rule
\* accepts: a cycle of one sell is a dump.
THEOREM OneTrancheDumps == Spec => []OneTrancheIsADump
<1>1. Init => Split
  BY DEF Init, NewWallet, NoPosition, Split, ThresholdSplitsPositions, OneTrancheIsADump
<1>2. Split => OneTrancheIsADump
  BY DEF Split
<1> QED
  BY <1>1, <1>2, TypeCorrect, SplitInductive, PTL DEF Spec

-----------------------------------------------------------------------------
(* The stored metrics.                                                     *)

LEMMA FreshIsFresh == MetricsFresh <=> FreshFor(wallet.metrics, wallet.recent, wallet.cycles)
BY DEF MetricsFresh, FreshFor

LEMMA FreshInductive == TypeOK /\ MetricsFresh /\ [Next]_vars => MetricsFresh'
<1> SUFFICES ASSUME TypeOK, MetricsFresh, [Next]_vars PROVE MetricsFresh'
  OBVIOUS
<1>0. /\ wallet \in WalletStates /\ Len(wallet.recent) <= RecentWindow
      /\ FreshFor(wallet.metrics, wallet.recent, wallet.cycles)
  BY FreshIsFresh DEF TypeOK
<1>1. ASSUME NEW t \in Trades, NEW slot \in SlotsOf(t.mint) \cup {None}, Ingest(t, slot)
      PROVE  FreshFor(wallet'.metrics, wallet'.recent, wallet'.cycles)
  <2>1. Annotate(t, slot) \in Annotated
    BY SlotsType, TradesAssumption, AnnotateType
  <2>2. wallet' = IngestTrade(wallet, Annotate(t, slot))
    BY <1>1 DEF Ingest
  <2> DEFINE a == Annotate(t, slot)
  <2> HIDE DEF a
  <2>3. a \in Annotated /\ wallet' = IngestTrade(wallet, a)
    BY <2>1, <2>2 DEF a
  <2> QED
    BY <1>0, <2>3, OperationsFresh
<1>2. ASSUME NEW m \in Mints, NEW slot \in SlotsOf(m), Revise(m, slot)
      PROVE  FreshFor(wallet'.metrics, wallet'.recent, wallet'.cycles)
  <2>1. slot \in Nat /\ wallet' = ReAnnotateToken(wallet, m, slot)
    BY <1>2, SlotsType DEF Revise
  <2> QED
    BY <1>0, <2>1, OperationsFresh
<1>3. ASSUME wallet' = wallet
      PROVE  FreshFor(wallet'.metrics, wallet'.recent, wallet'.cycles)
  BY <1>0, <1>3
<1>4. FreshFor(wallet'.metrics, wallet'.recent, wallet'.cycles)
  BY <1>1, <1>2, <1>3 DEF Next, Forget, Bounded, vars
<1> QED
  BY <1>4 DEF MetricsFresh, FreshFor

\* Whatever mix of ingests and re-annotations came before, the stored metrics are
\* those of the present window and cycles, their class counts add up, and only the
\* ratios outlive the last annotated buy (wallet_state.rs:435-495).
THEOREM StoredMetrics == Spec => []MetricsFresh
<1>1. Init => MetricsFresh
  BY NewWalletFresh, FreshIsFresh DEF Init
<1> QED
  BY <1>1, TypeCorrect, FreshInductive, PTL DEF Spec

-----------------------------------------------------------------------------
(* The ledger.  Sums first: the function that SumOf defines by recursion   *)
(* exists and is unique, by induction on the length.                       *)

PrefixSums(f, s) == f = [n \in 0..Len(s) |-> IF n = 0 THEN 0 ELSE f[n - 1] + s[n]]

LEMMA PrefixSumsAt ==
  ASSUME NEW s \in Seq(Int), NEW f, PrefixSums(f, s)
  PROVE  /\ DOMAIN f = 0..Len(s) /\ f = [n \in 0..Len(s) |-> f[n]]
         /\ f[0] = 0 /\ \A n \in 1..Len(s) : f[n] = f[n - 1] + s[n]
<1> DEFINE h == [n \in 0..Len(s) |-> IF n = 0 THEN 0 ELSE f[n - 1] + s[n]]
<1>1. f = h
  BY DEF PrefixSums
<1>2. /\ DOMAIN h = 0..Len(s) /\ h = [n \in 0..Len(s) |-> h[n]]
      /\ h[0] = 0 /\ \A n \in 1..Len(s) : h[n] = f[n - 1] + s[n]
  OBVIOUS
<1> HIDE DEF h
<1> QED
  BY <1>1, <1>2

LEMMA PrefixSumsUnique ==
  ASSUME NEW s \in Seq(Int), NEW f, NEW g, PrefixSums(f, s), PrefixSums(g, s)
  PROVE  f = g
<1>0. Len(s) \in Nat
  OBVIOUS
<1>1. /\ f[0] = 0 /\ \A n \in 1..Len(s) : f[n] = f[n - 1] + s[n]
      /\ g[0] = 0 /\ \A n \in 1..Len(s) : g[n] = g[n - 1] + s[n]
  BY PrefixSumsAt
<1> DEFINE S == {k \in Nat : k <= Len(s) => f[k] = g[k]}
<1>2. 0 \in S
  BY <1>1
<1>3. ASSUME NEW n \in Nat, n \in S PROVE n + 1 \in S
  <2> SUFFICES ASSUME n + 1 <= Len(s) PROVE f[n + 1] = g[n + 1]
    OBVIOUS
  <2>1. n + 1 \in 1..Len(s) /\ (n + 1) - 1 = n /\ n <= Len(s)
    BY <1>0
  <2>2. f[n] = g[n]
    BY <1>3, <2>1
  <2> QED
    BY <1>1, <2>1, <2>2
<1> HIDE DEF S
<1>4. Nat \subseteq S
  BY <1>2, <1>3, InductionOn
<1>5. \A n \in 0..Len(s) : f[n] = g[n]
  BY <1>0, <1>4 DEF S
<1>6. f = [n \in 0..Len(s) |-> f[n]] /\ g = [n \in 0..Len(s) |-> g[n]]
  BY PrefixSumsAt
<1> QED
  BY <1>5, <1>6

LEMMA PrefixSumsExist ==
  ASSUME NEW s \in Seq(Int)
  PROVE  \E f \in [0..Len(s) -> Int] : PrefixSums(f, s)
<1>0. Len(s) \in Nat /\ \A n \in 1..Len(s) : s[n] \in Int
  OBVIOUS
<1> DEFINE Sums(f, k) == f[0] = 0 /\ \A n \in 1..k : f[n] = f[n - 1] + s[n]
           S == {k \in Nat : k <= Len(s) => \E f \in [0..k -> Int] : Sums(f, k)}
<1>1. 0 \in S
  <2> DEFINE f == [n \in 0..0 |-> 0]
  <2>1. f \in [0..0 -> Int] /\ Sums(f, 0)
    OBVIOUS
  <2> QED
    BY <2>1
<1>2. ASSUME NEW k \in Nat, k \in S PROVE k + 1 \in S
  <2> SUFFICES ASSUME k + 1 <= Len(s) PROVE \E f \in [0..k + 1 -> Int] : Sums(f, k + 1)
    OBVIOUS
  <2>1. PICK f \in [0..k -> Int] : Sums(f, k)
    <3>1. k <= Len(s)
      BY <1>0
    <3> HIDE DEF Sums
    <3> QED
      BY <1>2, <3>1
  <2> DEFINE g == [n \in 0..k + 1 |-> IF n = k + 1 THEN f[k] + s[k + 1] ELSE f[n]]
  <2>2. g \in [0..k + 1 -> Int]
    BY <1>0
  <2>3. g[0] = 0
    BY <2>1
  <2>4. ASSUME NEW n \in 1..k + 1 PROVE g[n] = g[n - 1] + s[n]
    <3>1. n - 1 \in 0..k /\ n - 1 # k + 1 /\ g[n - 1] = f[n - 1]
      OBVIOUS
    <3>2. CASE n = k + 1
      BY <3>1, <3>2
    <3>3. CASE n # k + 1
      <4>1. n \in 1..k /\ g[n] = f[n]
        BY <3>3
      <4> QED
        BY <2>1, <3>1, <4>1
    <3> QED
      BY <3>2, <3>3
  <2> HIDE DEF g
  <2> QED
    BY <2>2, <2>3, <2>4
<1> HIDE DEF S
<1>3. Len(s) \in S
  BY <1>0, <1>1, <1>2, InductionOn
<1>4. PICK f \in [0..Len(s) -> Int] : Sums(f, Len(s))
  BY <1>0, <1>3 DEF S
<1>5. \A n \in 0..Len(s) : f[n] = IF n = 0 THEN 0 ELSE f[n - 1] + s[n]
  BY <1>0, <1>4
<1>6. f = [n \in 0..Len(s) |-> f[n]]
  OBVIOUS
<1>7. PrefixSums(f, s)
  BY <1>5, <1>6 DEF PrefixSums
<1> QED
  BY <1>7

\* SumOf is the last of the prefix sums, and what a step of the recursion says.
LEMMA SumOfFacts ==
  ASSUME NEW s \in Seq(Int)
  PROVE  /\ SumOf(s) \in Int
         /\ \A f : PrefixSums(f, s) => SumOf(s) = f[Len(s)]
<1> DEFINE upTo == CHOOSE f : PrefixSums(f, s)
<1>1. PICK f \in [0..Len(s) -> Int] : PrefixSums(f, s)
  BY PrefixSumsExist
<1>2. PrefixSums(upTo, s)
  BY <1>1
<1>3. SumOf(s) = upTo[Len(s)]
  BY DEF SumOf, PrefixSums
<1> HIDE DEF upTo
<1>4. \A g : PrefixSums(g, s) => g = upTo
  BY <1>2, PrefixSumsUnique
<1> QED
  BY <1>1, <1>3, <1>4

\* A push adds what is pushed, and dropping the head takes it off.
LEMMA SumOfAppend ==
  ASSUME NEW s \in Seq(Int), NEW x \in Int
  PROVE  SumOf(Append(s, x)) = SumOf(s) + x
<1> DEFINE t == Append(s, x)
<1>0. /\ Len(s) \in Nat /\ t \in Seq(Int) /\ Len(t) = Len(s) + 1
      /\ t[Len(s) + 1] = x /\ \A n \in 1..Len(s) : t[n] = s[n]
  OBVIOUS
<1>1. PICK f \in [0..Len(s) -> Int] : PrefixSums(f, s)
  BY PrefixSumsExist
<1>2. f[0] = 0 /\ \A n \in 1..Len(s) : f[n] = f[n - 1] + s[n]
  BY <1>1, PrefixSumsAt
<1> HIDE DEF t
<1> DEFINE g == [n \in 0..Len(s) + 1 |-> IF n = Len(s) + 1 THEN f[Len(s)] + x ELSE f[n]]
<1>3. ASSUME NEW n \in 0..Len(s) + 1 PROVE g[n] = IF n = 0 THEN 0 ELSE g[n - 1] + t[n]
  <2>1. CASE n = 0
    BY <1>0, <1>2, <2>1
  <2>2. CASE n \in 1..Len(s)
    <3>1. n - 1 \in 0..Len(s) /\ n # Len(s) + 1 /\ n - 1 # Len(s) + 1
      BY <1>0, <2>2
    <3>2. g[n] = f[n] /\ g[n - 1] = f[n - 1]
      BY <1>0, <3>1
    <3> QED
      BY <1>0, <1>2, <2>2, <3>2
  <2>3. CASE n = Len(s) + 1
    <3>1. g[n] = f[Len(s)] + x /\ g[Len(s)] = f[Len(s)]
      BY <1>0, <2>3
    <3>2. n # 0 /\ n - 1 = Len(s)
      BY <1>0, <2>3
    <3> QED
      BY <1>0, <2>3, <3>1, <3>2
  <2> QED
    BY <1>0, <2>1, <2>2, <2>3
<1>4. g = [n \in 0..Len(t) |-> g[n]] /\ g[Len(t)] = f[Len(s)] + x
  BY <1>0
<1> HIDE DEF g
<1>5. PrefixSums(g, t)
  BY <1>0, <1>3, <1>4 DEF PrefixSums
<1>6. SumOf(s) = f[Len(s)] /\ SumOf(t) = g[Len(t)]
  BY <1>0, <1>1, <1>5, SumOfFacts
<1> QED
  BY <1>4, <1>6 DEF t

LEMMA SumOfTail ==
  ASSUME NEW s \in Seq(Int), s # << >>
  PROVE  SumOf(Tail(s)) = SumOf(s) - s[1]
<1> DEFINE t == Tail(s)
<1>0. /\ Len(s) \in Nat \ {0} /\ t \in Seq(Int) /\ Len(t) = Len(s) - 1
      /\ \A n \in 1..Len(s) - 1 : t[n] = s[n + 1]
      /\ \A n \in 1..Len(s) : s[n] \in Int
  OBVIOUS
<1>1. PICK f \in [0..Len(s) -> Int] : PrefixSums(f, s)
  BY PrefixSumsExist
<1>2. f[0] = 0 /\ \A n \in 1..Len(s) : f[n] = f[n - 1] + s[n]
  BY <1>1, PrefixSumsAt
<1> HIDE DEF t
<1> DEFINE g == [n \in 0..Len(s) - 1 |-> f[n + 1] - s[1]]
<1>3. ASSUME NEW n \in 0..Len(s) - 1 PROVE g[n] = IF n = 0 THEN 0 ELSE g[n - 1] + t[n]
  <2>0. g[n] = f[n + 1] - s[1] /\ n + 1 \in 1..Len(s) /\ (n + 1) - 1 = n
    BY <1>0
  <2>1. CASE n = 0
    <3>1. 1 \in 1..Len(s) /\ 0 + 1 = 1 /\ 1 - 1 = 0
      BY <1>0
    <3>2. f[1] = 0 + s[1] /\ s[1] \in Int
      BY <1>0, <1>2, <3>1
    <3> QED
      BY <2>0, <2>1, <3>1, <3>2
  <2>2. CASE n # 0
    <3>1. n \in 1..Len(s) - 1 /\ n - 1 \in 0..Len(s) - 1 /\ (n - 1) + 1 = n
      BY <1>0, <2>2
    <3>2. g[n - 1] = f[n] - s[1]
      BY <3>1
    <3>3. f[n + 1] = f[n] + s[n + 1] /\ t[n] = s[n + 1]
      BY <1>0, <1>2, <2>0, <3>1
    <3>4. f[n] \in Int /\ s[1] \in Int /\ s[n + 1] \in Int
      <4>1. n \in 0..Len(s) /\ 1 \in 1..Len(s)
        BY <1>0, <3>1
      <4> QED
        BY <1>0, <2>0, <4>1
    <3> HIDE DEF g
    <3> QED
      BY <2>0, <2>2, <3>2, <3>3, <3>4
  <2> QED
    BY <2>1, <2>2
<1>4. g = [n \in 0..Len(t) |-> g[n]] /\ g[Len(t)] = f[Len(s)] - s[1]
  <2>1. Len(s) - 1 \in 0..Len(s) - 1 /\ (Len(s) - 1) + 1 = Len(s)
    BY <1>0
  <2> QED
    BY <1>0, <2>1
<1> HIDE DEF g
<1>5. PrefixSums(g, t)
  BY <1>0, <1>3, <1>4 DEF PrefixSums
<1>6. SumOf(s) = f[Len(s)] /\ SumOf(t) = g[Len(t)]
  BY <1>0, <1>1, <1>5, SumOfFacts
<1> QED
  BY <1>4, <1>6 DEF t

LEMMA SumOfPush ==
  ASSUME NEW s \in Seq(Int), NEW x \in Int, NEW cap \in Nat \ {0}, Len(s) <= cap
  PROVE  SumOf(PushCapped(s, x, cap)) = SumOf(s) + x - (IF Len(s) = cap THEN s[1] ELSE 0)
<1> DEFINE t == Append(s, x)
<1>1. /\ Len(s) \in Nat /\ t \in Seq(Int) /\ Len(t) = Len(s) + 1 /\ t # << >>
      /\ Len(s) # 0 => t[1] = s[1] /\ s[1] \in Int
  <2>1. Len(s) \in Nat /\ t \in Seq(Int) /\ Len(t) = Len(s) + 1 /\ t # << >>
    OBVIOUS
  <2>2. \A i \in 1..Len(s) : t[i] = s[i] /\ s[i] \in Int
    OBVIOUS
  <2>3. Len(s) # 0 => 1 \in 1..Len(s)
    BY <2>1
  <2> QED
    BY <2>1, <2>2, <2>3
<1>2. SumOf(t) = SumOf(s) + x /\ SumOf(s) \in Int
  BY SumOfAppend, SumOfFacts
<1>3. PushCapped(s, x, cap) = IF Len(t) > cap THEN Tail(t) ELSE t
  BY DEF PushCapped
<1>4. SumOf(Tail(t)) = SumOf(t) - t[1]
  BY <1>1, SumOfTail
<1> HIDE DEF t
<1>5. CASE Len(s) = cap
  BY <1>1, <1>2, <1>3, <1>4, <1>5
<1>6. CASE Len(s) # cap
  <2>1. ~(Len(t) > cap)
    <3>1. \A a, b \in Nat : a <= b /\ a # b => a + 1 <= b
      OBVIOUS
    <3> QED
      BY <1>1, <1>6, <3>1
  <2> QED
    BY <1>2, <1>3, <1>6, <2>1
<1> QED
  BY <1>5, <1>6

\* The same of the values that G gives to the elements of a sequence.
SumOver(G, s) == SumOf([i \in DOMAIN s |-> G[s[i]]])

LEMMA SumOverPush ==
  ASSUME NEW C, NEW s \in Seq(C), NEW c \in C, NEW G \in [C -> Int],
         NEW cap \in Nat \ {0}, Len(s) <= cap
  PROVE  SumOver(G, PushCapped(s, c, cap))
           = SumOver(G, s) + G[c] - (IF Len(s) = cap THEN G[s[1]] ELSE 0)
<1> DEFINE t == PushCapped(s, c, cap)
           u == Append(s, c)
           Image(z) == [i \in DOMAIN z |-> G[z[i]]]
<1>1. ASSUME NEW z \in Seq(C)
      PROVE  /\ Image(z) \in Seq(Int) /\ Len(Image(z)) = Len(z) /\ DOMAIN Image(z) = 1..Len(z)
             /\ \A i \in 1..Len(z) : Image(z)[i] = G[z[i]]
  <2>1. DOMAIN z = 1..Len(z) /\ Len(z) \in Nat /\ \A i \in 1..Len(z) : G[z[i]] \in Int
    OBVIOUS
  <2>2. Image(z) \in [1..Len(z) -> Int]
    BY <2>1
  <2>3. Image(z) \in Seq(Int) /\ Len(Image(z)) = Len(z)
    BY <2>1, <2>2
  <2> QED
    BY <2>1, <2>3
<1>2. /\ u \in Seq(C) /\ Len(u) = Len(s) + 1 /\ Len(s) \in Nat /\ u[Len(s) + 1] = c
      /\ \A i \in 1..Len(s) : u[i] = s[i]
  OBVIOUS
<1>3. Image(s) \in Seq(Int) /\ Len(Image(s)) = Len(s) /\ G[c] \in Int
  BY <1>1
<1> DEFINE v == Append(Image(s), G[c])
<1>4. /\ v \in Seq(Int) /\ Len(v) = Len(s) + 1 /\ DOMAIN v = 1..Len(s) + 1
      /\ \A i \in 1..Len(s) : v[i] = Image(s)[i]
      /\ v[Len(s) + 1] = G[c]
  <2> HIDE DEF Image
  <2> QED
    BY <1>3
<1>5. Image(u) = v
  <2>1. \A i \in 1..Len(s) + 1 : Image(u)[i] = v[i]
    <3> TAKE i \in 1..Len(s) + 1
    <3>0. Image(u)[i] = G[u[i]]
      BY <1>1, <1>2
    <3>1. CASE i = Len(s) + 1
      BY <1>2, <1>4, <3>0, <3>1
    <3>2. CASE i \in 1..Len(s)
      BY <1>1, <1>2, <1>4, <3>0, <3>2
    <3> QED
      BY <1>2, <3>1, <3>2
  <2>2. Image(u) = [i \in 1..Len(s) + 1 |-> Image(u)[i]] /\ v = [i \in 1..Len(s) + 1 |-> v[i]]
    <3>1. DOMAIN u = 1..Len(s) + 1
      BY <1>2
    <3>2. Image(u) = [i \in 1..Len(s) + 1 |-> Image(u)[i]]
      BY <3>1
    <3> HIDE DEF v, Image
    <3>3. v = [i \in DOMAIN v |-> v[i]]
      BY <1>4
    <3> QED
      BY <1>4, <3>2, <3>3
  <2> HIDE DEF Image, v, u
  <2> QED
    BY <2>1, <2>2
<1>6. Image(t) = PushCapped(Image(s), G[c], cap)
  <2>1. t = IF Len(u) > cap THEN Tail(u) ELSE u
    BY DEF PushCapped
  <2>2. PushCapped(Image(s), G[c], cap) = IF Len(v) > cap THEN Tail(v) ELSE v
    BY DEF PushCapped
  <2>3. Image(Tail(u)) = Tail(v)
    <3>1. /\ Tail(u) \in Seq(C) /\ Len(Tail(u)) = Len(s)
          /\ \A i \in 1..Len(s) : Tail(u)[i] = u[i + 1] /\ i + 1 \in 1..Len(s) + 1
      BY <1>2
    <3>2. /\ Tail(v) \in Seq(Int) /\ Len(Tail(v)) = Len(s)
          /\ \A i \in 1..Len(s) : Tail(v)[i] = v[i + 1]
      <4> HIDE DEF v
      <4> QED
        BY <1>2, <1>4
    <3>3. /\ Image(Tail(u)) \in Seq(Int) /\ Len(Image(Tail(u))) = Len(s)
          /\ \A i \in 1..Len(s) : Image(Tail(u))[i] = G[Tail(u)[i]]
      BY <1>1, <3>1
    <3>4. \A i \in 1..Len(s) : Image(Tail(u))[i] = Tail(v)[i]
      <4> TAKE i \in 1..Len(s)
      <4>1. Image(u)[i + 1] = G[u[i + 1]]
        BY <1>1, <1>2, <3>1
      <4> HIDE DEF Image, v, u
      <4> QED
        BY <1>5, <3>1, <3>2, <3>3, <4>1
    <3> HIDE DEF Image, v, u
    <3> QED
      BY <3>2, <3>3, <3>4, SeqEqual
  <2> HIDE DEF Image, v, u, t
  <2> QED
    BY <1>2, <1>4, <1>5, <2>1, <2>2, <2>3
<1>7. Len(s) = cap => Image(s)[1] = G[s[1]]
  BY <1>1
<1> HIDE DEF t, Image
<1>8. SumOf(Image(t)) = SumOf(Image(s)) + G[c] - (IF Len(s) = cap THEN G[s[1]] ELSE 0)
  BY <1>3, <1>6, <1>7, SumOfPush
<1> QED
  BY <1>8 DEF t, Image, SumOver

\* A cycle pushed adds what it cost and returned, and the one that falls off
\* the cap takes its own with it.
LEMMA TotalsAfterPush ==
  ASSUME NEW cycles \in Seq(Cycles), NEW c \in Cycles, Len(cycles) <= MaxCycles, NEW m \in Mints
  PROVE  LET t == PushCapped(cycles, c, MaxCycles)
             full == Len(cycles) = MaxCycles
         IN  /\ Bought(t, m) = Bought(cycles, m) + BoughtOf(c, m)
                                 - (IF full THEN BoughtOf(cycles[1], m) ELSE 0)
             /\ Sold(t, m) = Sold(cycles, m) + SoldOf(c, m)
                               - (IF full THEN SoldOf(cycles[1], m) ELSE 0)
<1> DEFINE t == PushCapped(cycles, c, MaxCycles)
           B == [x \in Cycles |-> BoughtOf(x, m)]
           S == [x \in Cycles |-> SoldOf(x, m)]
<1>1. B \in [Cycles -> Int] /\ S \in [Cycles -> Int]
  BY DEF BoughtOf, SoldOf, Cycles
<1>2. MaxCycles \in Nat \ {0}
  BY WindowAssumption
<1>3. t \in Seq(Cycles)
  BY <1>2, PushCappedFacts
<1>4. \A x \in Cycles : B[x] = BoughtOf(x, m) /\ S[x] = SoldOf(x, m)
  OBVIOUS
<1>5. Len(cycles) = MaxCycles => cycles[1] \in Cycles
  BY <1>2
<1> HIDE DEF t, B, S
<1>6. ASSUME NEW z \in Seq(Cycles)
      PROVE  Bought(z, m) = SumOver(B, z) /\ Sold(z, m) = SumOver(S, z)
  <2>1. \A i \in DOMAIN z : z[i] \in Cycles
    OBVIOUS
  <2>2. /\ [i \in DOMAIN z |-> BoughtOf(z[i], m)] = [i \in DOMAIN z |-> B[z[i]]]
        /\ [i \in DOMAIN z |-> SoldOf(z[i], m)] = [i \in DOMAIN z |-> S[z[i]]]
    BY <1>4, <2>1
  <2> QED
    BY <2>2 DEF Bought, Sold, SumOver
<1>7. SumOver(B, t) = SumOver(B, cycles) + B[c]
                        - (IF Len(cycles) = MaxCycles THEN B[cycles[1]] ELSE 0)
  BY <1>1, <1>2, SumOverPush DEF t
<1>8. SumOver(S, t) = SumOver(S, cycles) + S[c]
                        - (IF Len(cycles) = MaxCycles THEN S[cycles[1]] ELSE 0)
  BY <1>1, <1>2, SumOverPush DEF t
<1>9. /\ Bought(t, m) = Bought(cycles, m) + BoughtOf(c, m)
                          - (IF Len(cycles) = MaxCycles THEN BoughtOf(cycles[1], m) ELSE 0)
      /\ Sold(t, m) = Sold(cycles, m) + SoldOf(c, m)
                        - (IF Len(cycles) = MaxCycles THEN SoldOf(cycles[1], m) ELSE 0)
  BY <1>3, <1>4, <1>5, <1>6, <1>7, <1>8
<1> QED
  BY <1>9 DEF t

\* The totals are numbers.
LEMMA TotalsType ==
  ASSUME NEW cycles \in Seq(Cycles), NEW m \in Mints
  PROVE  Bought(cycles, m) \in Int /\ Sold(cycles, m) \in Int
<1>1. ASSUME NEW z, z \in [DOMAIN cycles -> Int] PROVE SumOf(z) \in Int
  <2>1. z \in Seq(Int)
    BY <1>1
  <2> QED
    BY <2>1, SumOfFacts
<1>2. \A i \in DOMAIN cycles : BoughtOf(cycles[i], m) \in Int /\ SoldOf(cycles[i], m) \in Int
  <2>1. \A i \in DOMAIN cycles : cycles[i] \in Cycles
    OBVIOUS
  <2> QED
    BY <2>1 DEF BoughtOf, SoldOf, Cycles
<1> QED
  BY <1>1, <1>2 DEF Bought, Sold

\* The inductive invariant: the ledger is typed, a mint that is not held has
\* nothing in its position, and the books balance.
Books == [booked  : [spent : Nat, earned : Nat], dropped : [spent : Nat, earned : Nat]]

FlatIsEmpty == \A m \in Mints : ~Held(wallet.positions[m]) =>
                 wallet.positions[m].bought = 0 /\ wallet.positions[m].sold = 0

LedgerInv == ledger \in [Mints -> Books] /\ FlatIsEmpty /\ LedgerBalances

\* What a trade does to the position in its token.
LEMMA PositionStep ==
  ASSUME NEW p \in Positions, NEW t \in Trades, ~Held(p) => p.bought = 0 /\ p.sold = 0
  PROVE  LET q == PositionAfter(p, t)
         IN  /\ Held(p) /\ ~Held(q) <=> Closes(p, t)
             /\ ~Held(q) => q.bought = 0 /\ q.sold = 0
             /\ t.is_buy => q.bought = p.bought + t.sol /\ q.sold = p.sold
             /\ ~t.is_buy /\ ~Closes(p, t) =>
                  q.bought = p.bought /\ q.sold = p.sold + (IF Held(p) THEN t.sol ELSE 0)
             /\ Closes(p, t) => Held(p) /\ ~t.is_buy /\ q.bought = 0 /\ q.sold = 0
<1>1. /\ t.sol \in Nat
      /\ p.bought \in Nat /\ p.sold \in Nat /\ p.buy_count \in Nat
  BY TradesAssumption DEF Positions
<1>2. ASSUME NEW r \in Positions
      PROVE  /\ AddBuy(r, t.sol).bought = r.bought + t.sol /\ AddBuy(r, t.sol).sold = r.sold
             /\ AddBuy(r, t.sol).buy_count = r.buy_count + 1
             /\ AddSell(r, t.sol).bought = r.bought /\ AddSell(r, t.sol).sold = r.sold + t.sol
             /\ AddSell(r, t.sol).buy_count = r.buy_count
  BY DEF AddBuy, AddSell, Positions
<1>3. /\ NewPosition \in Positions
      /\ NewPosition.bought = 0 /\ NewPosition.sold = 0 /\ NewPosition.buy_count = 1
      /\ NoPosition.bought = 0 /\ NoPosition.sold = 0 /\ NoPosition.buy_count = 0
  BY DEF NewPosition, NoPosition, Positions
<1>4. CASE t.is_buy
  <2>1. PositionAfter(p, t) = AddBuy(IF Held(p) THEN p ELSE NewPosition, t.sol) /\ ~Closes(p, t)
    BY <1>4 DEF PositionAfter, Closes
  <2>2. CASE Held(p)
    BY <1>1, <1>2, <1>4, <2>1, <2>2 DEF Held
  <2>3. CASE ~Held(p)
    BY <1>1, <1>2, <1>3, <1>4, <2>1, <2>3 DEF Held
  <2> QED
    BY <2>2, <2>3
<1>5. CASE Closes(p, t)
  <2>1. PositionAfter(p, t) = NoPosition /\ Held(p) /\ ~t.is_buy
    BY <1>5 DEF PositionAfter, Closes
  <2> QED
    BY <1>3, <1>5, <2>1 DEF Held
<1>6. CASE ~t.is_buy /\ ~Closes(p, t)
  <2>1. PositionAfter(p, t) = IF Held(p) THEN AddSell(p, t.sol) ELSE p
    BY <1>6 DEF PositionAfter
  <2> QED
    BY <1>1, <1>2, <1>6, <2>1 DEF Held
<1> QED
  BY <1>4, <1>5, <1>6

\* What a trade books under each mint, and what falls off with the oldest cycle.
LEMMA BookStep ==
  ASSUME NEW t \in Trades, NEW next, TypeOK, ledger \in [Mints -> Books],
         DroppedBy(t, next) \in {{}, {wallet.cycles[1]}},
         DroppedBy(t, next) # {} => wallet.cycles[1] \in Cycles
  PROVE  LET held   == Held(wallet.positions[t.mint])
             Out(m) == DroppedBy(t, next) # {} /\ wallet.cycles[1].mint = m
         IN  /\ Book(t, next) \in [Mints -> Books]
             /\ \A m \in Mints :
                  LET b == Book(t, next)[m] IN
                  /\ b.booked.spent = ledger[m].booked.spent
                                        + (IF m = t.mint /\ t.is_buy THEN t.sol ELSE 0)
                  /\ b.booked.earned = ledger[m].booked.earned
                                         + (IF m = t.mint /\ ~t.is_buy /\ held THEN t.sol ELSE 0)
                  /\ b.dropped.spent = ledger[m].dropped.spent
                                         + (IF Out(m) THEN wallet.cycles[1].buy ELSE 0)
                  /\ b.dropped.earned = ledger[m].dropped.earned
                                          + (IF Out(m) THEN wallet.cycles[1].sell ELSE 0)
<1> DEFINE Pages == [spent : Nat, earned : Nat]
           held == Held(wallet.positions[t.mint])
           Out(m) == DroppedBy(t, next) # {} /\ wallet.cycles[1].mint = m
           page == IF t.is_buy THEN Add(ledger[t.mint].booked, t.sol, 0)
                   ELSE IF held THEN Add(ledger[t.mint].booked, 0, t.sol)
                   ELSE ledger[t.mint].booked
           booked == [ledger EXCEPT ![t.mint].booked = page]
<1>1. t.mint \in Mints /\ t.sol \in Nat
  BY TradesAssumption
<1>2. ASSUME NEW b \in Pages, NEW x \in Nat, NEW y \in Nat
      PROVE  Add(b, x, y) \in Pages /\ Add(b, x, y).spent = b.spent + x /\ Add(b, x, y).earned = b.earned + y
  BY DEF Add
<1>3. \A m \in Mints : /\ ledger[m] \in Books /\ ledger[m].booked \in Pages /\ ledger[m].dropped \in Pages
                        /\ ledger[m] = [booked |-> ledger[m].booked, dropped |-> ledger[m].dropped]
  BY DEF Books
<1>4. page \in Pages /\ page.spent = ledger[t.mint].booked.spent + (IF t.is_buy THEN t.sol ELSE 0)
      /\ page.earned = ledger[t.mint].booked.earned + (IF ~t.is_buy /\ held THEN t.sol ELSE 0)
  <2>1. ledger[t.mint].booked \in Pages
    BY <1>1, <1>3
  <2>2. ledger[t.mint].booked.spent \in Nat /\ ledger[t.mint].booked.earned \in Nat
    BY <2>1
  <2> HIDE DEF Pages
  <2> DEFINE b == ledger[t.mint].booked
  <2> HIDE DEF b
  <2>3. CASE t.is_buy
    <3>1. page = Add(b, t.sol, 0) /\ b = ledger[t.mint].booked
      BY <2>3 DEF b
    <3> HIDE DEF page
    <3>2. b \in Pages /\ 0 \in Nat
      BY <2>1, <3>1
    <3>3. page \in Pages /\ page.spent = b.spent + t.sol /\ page.earned = b.earned + 0
      BY <1>1, <1>2, <3>1, <3>2
    <3> QED
      BY <2>2, <2>3, <3>1, <3>3
  <2>4. CASE ~t.is_buy /\ held
    <3>1. page = Add(b, 0, t.sol) /\ b = ledger[t.mint].booked
      BY <2>4 DEF b
    <3> HIDE DEF page
    <3>2. b \in Pages /\ 0 \in Nat
      BY <2>1, <3>1
    <3>3. page \in Pages /\ page.spent = b.spent + 0 /\ page.earned = b.earned + t.sol
      BY <1>1, <1>2, <3>1, <3>2
    <3> QED
      BY <2>2, <2>4, <3>1, <3>3
  <2>5. CASE ~t.is_buy /\ ~held
    BY <2>1, <2>2, <2>5
  <2> QED
    BY <2>3, <2>4, <2>5
<1>5. Book(t, next) =
        [m \in Mints |-> [booked[m] EXCEPT !.dropped =
           IF \E c \in DroppedBy(t, next) : c.mint = m
             THEN Add(@, wallet.cycles[1].buy, wallet.cycles[1].sell) ELSE @]]
  BY DEF Book
<1> HIDE DEF page
<1>6. \A m \in Mints : booked[m] = [booked |-> IF m = t.mint THEN page ELSE ledger[m].booked,
                                    dropped |-> ledger[m].dropped]
  BY <1>1, <1>3
<1> HIDE DEF booked, Pages
<1> DEFINE paid == [m \in Mints |-> IF m = t.mint THEN page ELSE ledger[m].booked]
           gone == [m \in Mints |-> IF Out(m) THEN Add(ledger[m].dropped, wallet.cycles[1].buy, wallet.cycles[1].sell)
                                      ELSE ledger[m].dropped]
<1>7. ASSUME NEW m \in Mints PROVE Book(t, next)[m] = [booked |-> paid[m], dropped |-> gone[m]]
  <2>1. Book(t, next)[m] = [booked[m] EXCEPT !.dropped =
                              IF \E c \in DroppedBy(t, next) : c.mint = m
                                THEN Add(booked[m].dropped, wallet.cycles[1].buy, wallet.cycles[1].sell)
                                ELSE booked[m].dropped]
    BY <1>5
  <2>2. booked[m] = [booked |-> paid[m], dropped |-> ledger[m].dropped]
    BY <1>6
  <2>3. (\E c \in DroppedBy(t, next) : c.mint = m) <=> Out(m)
    OBVIOUS
  <2>4. booked[m].dropped = ledger[m].dropped
    BY <2>2
  <2>5. Book(t, next)[m] = [booked[m] EXCEPT !.dropped = gone[m]]
    BY <2>1, <2>3, <2>4
  <2> HIDE DEF paid, gone
  <2> QED
    BY <2>2, <2>5
<1>8. ASSUME NEW m \in Mints
      PROVE  /\ paid[m] \in Pages /\ gone[m] \in Pages
             /\ paid[m].spent = ledger[m].booked.spent + (IF m = t.mint /\ t.is_buy THEN t.sol ELSE 0)
             /\ paid[m].earned = ledger[m].booked.earned
                                 + (IF m = t.mint /\ ~t.is_buy /\ held THEN t.sol ELSE 0)
             /\ gone[m].spent = ledger[m].dropped.spent + (IF Out(m) THEN wallet.cycles[1].buy ELSE 0)
             /\ gone[m].earned = ledger[m].dropped.earned + (IF Out(m) THEN wallet.cycles[1].sell ELSE 0)
  <2>1. ledger[m].booked \in Pages /\ ledger[m].dropped \in Pages
    BY <1>3
  <2>2. /\ ledger[m].dropped.spent \in Nat /\ ledger[m].dropped.earned \in Nat
        /\ ledger[m].booked.spent \in Nat /\ ledger[m].booked.earned \in Nat
    BY <2>1 DEF Pages
  <2>3. Out(m) => wallet.cycles[1].buy \in Nat /\ wallet.cycles[1].sell \in Nat
    BY DEF Cycles
  <2>4. /\ gone[m] \in Pages
        /\ gone[m].spent = ledger[m].dropped.spent + (IF Out(m) THEN wallet.cycles[1].buy ELSE 0)
        /\ gone[m].earned = ledger[m].dropped.earned + (IF Out(m) THEN wallet.cycles[1].sell ELSE 0)
    <3>1. CASE Out(m)
      BY <1>2, <2>1, <2>3, <3>1
    <3>2. CASE ~Out(m)
      BY <2>1, <2>2, <3>2
    <3> QED
      BY <3>1, <3>2
  <2>5. CASE m = t.mint
    BY <1>4, <2>4, <2>5
  <2>6. CASE m # t.mint
    BY <2>1, <2>2, <2>4, <2>6
  <2> QED
    BY <2>5, <2>6
<1> HIDE DEF paid, gone
<1>9. Book(t, next) \in [Mints -> Books]
  <2>1. ASSUME NEW m \in Mints PROVE Book(t, next)[m] \in Books
    <3>1. Book(t, next)[m] = [booked |-> paid[m], dropped |-> gone[m]]
      BY <1>7
    <3>2. paid[m] \in Pages /\ gone[m] \in Pages
      BY <1>8
    <3> QED
      BY <3>1, <3>2 DEF Books, Pages
  <2> QED
    BY <1>5, <2>1
<1>10. ASSUME NEW m \in Mints
       PROVE  Book(t, next)[m].booked = paid[m] /\ Book(t, next)[m].dropped = gone[m]
  <2>1. Book(t, next)[m] = [booked |-> paid[m], dropped |-> gone[m]]
    BY <1>7
  <2> QED
    BY <2>1
<1> QED
  BY <1>8, <1>9, <1>10

LEMMA LedgerIngest ==
  ASSUME TypeOK, LedgerInv, NEW t \in Trades, NEW slot \in SlotsOf(t.mint) \cup {None}, Ingest(t, slot)
  PROVE  LedgerInv'
<1> DEFINE p == wallet.positions[t.mint]
           q == PositionAfter(p, t)
           c == CycleOf(t.mint, AddSell(p, t.sol), t.slot)
           old == wallet.cycles
           new == wallet'.cycles
           Out(m) == Closes(p, t) /\ Len(old) = MaxCycles /\ old[1].mint = m
<1>1. /\ t.mint \in Mints /\ t.sol \in Nat
      /\ wallet.positions \in [Mints -> Positions] /\ p \in Positions
      /\ old \in Seq(Cycles) /\ Len(old) <= MaxCycles /\ MaxCycles \in Nat \ {0}
  BY TradesAssumption, WindowAssumption DEF TypeOK, WalletStates
<1>2. /\ wallet'.positions = [wallet.positions EXCEPT ![t.mint] = q]
      /\ new = CyclesAfter(old, p, t)
      /\ ledger' = Book(t, wallet')
  <2>1. Annotate(t, slot).trade = t
    BY DEF Annotate
  <2>2. wallet' = IngestTrade(wallet, Annotate(t, slot)) /\ ledger' = Book(t, wallet')
    BY DEF Ingest
  <2> QED
    BY <2>1, <2>2 DEF IngestTrade
<1>3. /\ Held(p) /\ ~Held(q) <=> Closes(p, t)
      /\ ~Held(q) => q.bought = 0 /\ q.sold = 0
      /\ t.is_buy => q.bought = p.bought + t.sol /\ q.sold = p.sold
      /\ ~t.is_buy /\ ~Closes(p, t) =>
           q.bought = p.bought /\ q.sold = p.sold + (IF Held(p) THEN t.sol ELSE 0)
      /\ Closes(p, t) => Held(p) /\ ~t.is_buy /\ q.bought = 0 /\ q.sold = 0
  <2>1. ~Held(p) => p.bought = 0 /\ p.sold = 0
    BY <1>1 DEF LedgerInv, FlatIsEmpty
  <2> HIDE DEF p
  <2> QED
    BY <1>1, <2>1, PositionStep
<1>4. p.bought \in Nat /\ p.sold \in Nat /\ (Len(old) = MaxCycles => old[1] \in Cycles)
  <2>1. p.bought \in Nat /\ p.sold \in Nat
    BY <1>1 DEF Positions
  <2>2. Len(old) = MaxCycles => old[1] \in Cycles
    <3> HIDE DEF old
    <3> QED
      BY <1>1
  <2> QED
    BY <2>1, <2>2
<1>5. c \in Cycles /\ c.mint = t.mint /\ c.buy = p.bought /\ c.sell = p.sold + t.sol
  <2>1. AddSell(p, t.sol) \in Positions
    BY <1>1, PositionType
  <2>2. c \in Cycles
    BY <2>1, TradesAssumption DEF CycleOf, Cycles, Positions
  <2>3. AddSell(p, t.sol).bought = p.bought /\ AddSell(p, t.sol).sold = p.sold + t.sol
    BY <1>1 DEF AddSell, Positions
  <2> QED
    BY <2>2, <2>3 DEF CycleOf
<1> HIDE DEF c, q
<1>6. /\ wallet'.positions[t.mint] = q
      /\ \A m \in Mints : m # t.mint => wallet'.positions[m] = wallet.positions[m]
  <2> HIDE DEF p
  <2> QED
    BY <1>1, <1>2
<1>7. DroppedBy(t, wallet') = IF Closes(p, t) /\ Len(old) = MaxCycles THEN {old[1]} ELSE {}
  BY <1>3, <1>6 DEF DroppedBy
<1>8. /\ ledger' \in [Mints -> Books]
      /\ \A m \in Mints :
           /\ ledger'[m].booked.spent = ledger[m].booked.spent
                                          + (IF m = t.mint /\ t.is_buy THEN t.sol ELSE 0)
           /\ ledger'[m].booked.earned = ledger[m].booked.earned
                                           + (IF m = t.mint /\ ~t.is_buy /\ Held(p) THEN t.sol ELSE 0)
           /\ ledger'[m].dropped.spent = ledger[m].dropped.spent
                                           + (IF Out(m) THEN old[1].buy ELSE 0)
           /\ ledger'[m].dropped.earned = ledger[m].dropped.earned
                                            + (IF Out(m) THEN old[1].sell ELSE 0)
  <2> DEFINE next == wallet'
  <2>1. DroppedBy(t, next) \in {{}, {wallet.cycles[1]}}
    BY <1>7
  <2>2. DroppedBy(t, next) # {} => Closes(p, t) /\ Len(old) = MaxCycles /\ wallet.cycles[1] \in Cycles
    BY <1>4, <1>7
  <2>3. Closes(p, t) /\ Len(old) = MaxCycles => DroppedBy(t, next) # {}
    BY <1>7
  <2>4. ledger \in [Mints -> Books] /\ ledger' = Book(t, next)
    BY <1>2 DEF LedgerInv
  <2> HIDE DEF next
  <2>5. Book(t, next) \in [Mints -> Books]
    BY <2>1, <2>2, <2>4, BookStep
  <2>6. ASSUME NEW m \in Mints
        PROVE  LET b == Book(t, next)[m]
                   gone == DroppedBy(t, next) # {} /\ wallet.cycles[1].mint = m
               IN  /\ b.booked.spent = ledger[m].booked.spent
                                         + (IF m = t.mint /\ t.is_buy THEN t.sol ELSE 0)
                   /\ b.booked.earned = ledger[m].booked.earned
                                          + (IF m = t.mint /\ ~t.is_buy /\ Held(p) THEN t.sol ELSE 0)
                   /\ b.dropped.spent = ledger[m].dropped.spent
                                          + (IF gone THEN wallet.cycles[1].buy ELSE 0)
                   /\ b.dropped.earned = ledger[m].dropped.earned
                                           + (IF gone THEN wallet.cycles[1].sell ELSE 0)
    BY <2>1, <2>2, <2>4, BookStep
  <2> QED
    BY <2>2, <2>3, <2>4, <2>5, <2>6
<1>9. ASSUME NEW m \in Mints
      PROVE  /\ Bought(new, m) = Bought(old, m) + (IF Closes(p, t) /\ m = t.mint THEN p.bought ELSE 0)
                                   - (IF Out(m) THEN old[1].buy ELSE 0)
             /\ Sold(new, m) = Sold(old, m) + (IF Closes(p, t) /\ m = t.mint THEN p.sold + t.sol ELSE 0)
                                 - (IF Out(m) THEN old[1].sell ELSE 0)
  <2>1. Bought(old, m) \in Int /\ Sold(old, m) \in Int
    BY <1>1, TotalsType
  <2>2. CASE Closes(p, t)
    <3>1. new = PushCapped(old, c, MaxCycles)
      BY <1>2, <2>2 DEF CyclesAfter, c
    <3>2. /\ Bought(new, m) = Bought(old, m) + BoughtOf(c, m)
                                - (IF Len(old) = MaxCycles THEN BoughtOf(old[1], m) ELSE 0)
          /\ Sold(new, m) = Sold(old, m) + SoldOf(c, m)
                              - (IF Len(old) = MaxCycles THEN SoldOf(old[1], m) ELSE 0)
      BY <1>1, <1>5, <3>1, TotalsAfterPush
    <3>3. /\ BoughtOf(c, m) = IF m = t.mint THEN p.bought ELSE 0
          /\ SoldOf(c, m) = IF m = t.mint THEN p.sold + t.sol ELSE 0
      BY <1>5 DEF BoughtOf, SoldOf
    <3>4. /\ (IF Len(old) = MaxCycles THEN BoughtOf(old[1], m) ELSE 0) = IF Out(m) THEN old[1].buy ELSE 0
          /\ (IF Len(old) = MaxCycles THEN SoldOf(old[1], m) ELSE 0) = IF Out(m) THEN old[1].sell ELSE 0
      BY <2>2 DEF BoughtOf, SoldOf
    <3> HIDE DEF old, new, p, Out
    <3> QED
      BY <2>2, <3>2, <3>3, <3>4
  <2>3. CASE ~Closes(p, t)
    <3>1. new = old
      BY <1>2, <2>3 DEF CyclesAfter
    <3>2. ~Out(m)
      BY <2>3
    <3> HIDE DEF old, new, p, Out
    <3> QED
      BY <2>1, <2>3, <3>1, <3>2
  <2> QED
    BY <2>2, <2>3
<1>10. FlatIsEmpty'
  BY <1>1, <1>3, <1>6 DEF FlatIsEmpty, LedgerInv
<1>11. ASSUME NEW m \in Mints
       PROVE  /\ ledger'[m].booked.spent = wallet'.positions[m].bought + Bought(new, m) + ledger'[m].dropped.spent
              /\ ledger'[m].booked.earned = wallet'.positions[m].sold + Sold(new, m) + ledger'[m].dropped.earned
  <2> DEFINE P == wallet.positions[m]
             Q == wallet'.positions[m]
             L == ledger[m]
             M == ledger'[m]
  <2>1. /\ L.booked.spent = P.bought + Bought(old, m) + L.dropped.spent
        /\ L.booked.earned = P.sold + Sold(old, m) + L.dropped.earned
    BY DEF LedgerInv, LedgerBalances
  <2>2. /\ P.bought \in Nat /\ P.sold \in Nat /\ L.dropped.spent \in Nat /\ L.dropped.earned \in Nat
        /\ Bought(old, m) \in Int /\ Sold(old, m) \in Int
    <3>1. P \in Positions /\ L \in Books
      BY <1>1 DEF LedgerInv
    <3>2. Bought(old, m) \in Int /\ Sold(old, m) \in Int
      BY <1>1, TotalsType
    <3> QED
      BY <3>1, <3>2 DEF Positions, Books
  <2>3. Out(m) => old[1].buy \in Nat /\ old[1].sell \in Nat
    BY <1>4 DEF Cycles
  <2>4. /\ M.booked.spent = L.booked.spent + (IF m = t.mint /\ t.is_buy THEN t.sol ELSE 0)
        /\ M.booked.earned = L.booked.earned + (IF m = t.mint /\ ~t.is_buy /\ Held(p) THEN t.sol ELSE 0)
        /\ M.dropped.spent = L.dropped.spent + (IF Out(m) THEN old[1].buy ELSE 0)
        /\ M.dropped.earned = L.dropped.earned + (IF Out(m) THEN old[1].sell ELSE 0)
    BY <1>8
  <2>5. /\ m = t.mint => P = p /\ Q = q
        /\ m # t.mint => Q = P
    BY <1>6
  <2> HIDE DEF P, Q, L, M, p, old, new
  <2>6. /\ M.booked.spent = Q.bought + Bought(new, m) + M.dropped.spent
        /\ M.booked.earned = Q.sold + Sold(new, m) + M.dropped.earned
    <3> DEFINE bought == IF m = t.mint /\ t.is_buy THEN t.sol ELSE 0
               sold   == IF m = t.mint /\ ~t.is_buy /\ Held(p) THEN t.sol ELSE 0
               cost   == IF Closes(p, t) /\ m = t.mint THEN p.bought ELSE 0
               gain   == IF Closes(p, t) /\ m = t.mint THEN p.sold + t.sol ELSE 0
               lostB  == IF Out(m) THEN old[1].buy ELSE 0
               lostS  == IF Out(m) THEN old[1].sell ELSE 0
    <3>1. Q.bought = P.bought + bought - cost /\ Q.sold = P.sold + sold - gain
      <4>1. CASE m # t.mint
        BY <2>2, <2>5, <4>1
      <4>2. CASE m = t.mint
        <5>0. P = p /\ Q = q /\ p.bought \in Nat /\ p.sold \in Nat /\ t.sol \in Nat
          BY <1>1, <1>4, <2>5, <4>2
        <5>1. CASE t.is_buy
          <6>1. bought = t.sol /\ sold = 0 /\ cost = 0 /\ gain = 0
            BY <1>3, <4>2, <5>1
          <6>2. q.bought = p.bought + t.sol /\ q.sold = p.sold
            BY <1>3, <5>1
          <6> HIDE DEF bought, sold, cost, gain
          <6> QED
            BY <5>0, <6>1, <6>2
        <5>2. CASE Closes(p, t)
          <6>1. bought = 0 /\ sold = t.sol /\ cost = p.bought /\ gain = p.sold + t.sol
            BY <1>3, <4>2, <5>2
          <6>2. q.bought = 0 /\ q.sold = 0
            BY <1>3, <5>2
          <6> HIDE DEF bought, sold, cost, gain
          <6> QED
            BY <5>0, <6>1, <6>2
        <5>3. CASE ~t.is_buy /\ ~Closes(p, t)
          <6>1. bought = 0 /\ sold = (IF Held(p) THEN t.sol ELSE 0) /\ cost = 0 /\ gain = 0
            BY <4>2, <5>3
          <6>2. q.bought = p.bought /\ q.sold = p.sold + (IF Held(p) THEN t.sol ELSE 0)
            BY <1>3, <5>3
          <6> HIDE DEF bought, sold, cost, gain
          <6> QED
            BY <5>0, <6>1, <6>2
        <5> QED
          BY <5>1, <5>2, <5>3
      <4> QED
        BY <4>1, <4>2
    <3>2. bought \in Int /\ sold \in Int /\ cost \in Int /\ gain \in Int /\ lostB \in Int /\ lostS \in Int
      BY <1>1, <1>4, <2>3
    <3>3. /\ Bought(new, m) = Bought(old, m) + cost - lostB
          /\ Sold(new, m) = Sold(old, m) + gain - lostS
      BY <1>9
    <3>4. /\ M.booked.spent = L.booked.spent + bought /\ M.booked.earned = L.booked.earned + sold
          /\ M.dropped.spent = L.dropped.spent + lostB /\ M.dropped.earned = L.dropped.earned + lostS
      BY <2>4
    <3> HIDE DEF bought, sold, cost, gain, lostB, lostS, Out
    <3> QED
      BY <2>1, <2>2, <3>1, <3>2, <3>3, <3>4
  <2> QED
    BY <2>6 DEF P, Q, L, M, new
<1>12. LedgerBalances'
  BY <1>11 DEF LedgerBalances
<1> QED
  BY <1>8, <1>10, <1>12 DEF LedgerInv

LEMMA LedgerInductive == TypeOK /\ LedgerInv /\ [Next]_vars => LedgerInv'
<1> SUFFICES ASSUME TypeOK, LedgerInv, [Next]_vars PROVE LedgerInv'
  OBVIOUS
<1>1. ASSUME NEW m \in Mints, NEW slot \in SlotsOf(m), Revise(m, slot)
      PROVE  LedgerInv'
  <2>1. wallet' = ReAnnotateToken(wallet, m, slot) /\ ledger' = ledger
    BY <1>1 DEF Revise
  <2>2. wallet'.positions = wallet.positions /\ wallet'.cycles = wallet.cycles
    BY <2>1 DEF ReAnnotateToken
  <2> QED
    BY <2>1, <2>2 DEF LedgerInv, FlatIsEmpty, LedgerBalances
<1>2. ASSUME wallet' = wallet, ledger' = ledger PROVE LedgerInv'
  BY <1>2 DEF LedgerInv, FlatIsEmpty, LedgerBalances
<1> QED
  BY <1>1, <1>2, LedgerIngest DEF Next, Forget, Bounded, vars

\* Every SOL booked under a mint is in its open position, in one completed cycle
\* or in a cycle that fell off the cap, and in one of them only, however trades
\* interleave and however many fall off (wallet_state.rs:367-408).
THEOREM LedgerHolds == Spec => []LedgerBalances
<1>1. Init => LedgerInv
  <2> SUFFICES ASSUME Init PROVE LedgerInv
    OBVIOUS
  <2>1. /\ wallet.cycles = << >>
        /\ \A m \in Mints : wallet.positions[m].bought = 0 /\ wallet.positions[m].sold = 0
    BY DEF Init, NewWallet, NoPosition
  <2>2. /\ ledger \in [Mints -> Books]
        /\ \A m \in Mints : /\ ledger[m].booked.spent = 0 /\ ledger[m].booked.earned = 0
                            /\ ledger[m].dropped.spent = 0 /\ ledger[m].dropped.earned = 0
    BY DEF Init, EmptyBook, Books
  <2>3. SumOf(<< >>) = 0
    <3>1. << >> \in Seq(Int) /\ Len(<< >>) = 0
      OBVIOUS
    <3>2. PICK f \in [0..0 -> Int] : PrefixSums(f, << >>)
      BY <3>1, PrefixSumsExist
    <3> QED
      BY <3>1, <3>2, PrefixSumsAt, SumOfFacts
  <2>4. \A m \in Mints : Bought(<< >>, m) = 0 /\ Sold(<< >>, m) = 0
    <3>1. \A m : /\ [i \in DOMAIN << >> |-> BoughtOf(<< >>[i], m)] = << >>
                 /\ [i \in DOMAIN << >> |-> SoldOf(<< >>[i], m)] = << >>
      OBVIOUS
    <3> QED
      BY <2>3, <3>1 DEF Bought, Sold
  <2> QED
    BY <2>1, <2>2, <2>4 DEF LedgerInv, FlatIsEmpty, LedgerBalances
<1>2. LedgerInv => LedgerBalances
  BY DEF LedgerInv
<1> QED
  BY <1>1, <1>2, TypeCorrect, LedgerInductive, PTL DEF Spec
=============================================================================
