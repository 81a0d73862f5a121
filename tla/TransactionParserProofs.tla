----------------------- MODULE TransactionParserProofs ----------------------
(***************************************************************************)
(* Proofs about TransactionParser: for any transactions, the walk over the *)
(* instructions, the sides of the trades and the bound of their stamps;    *)
(* for transactions that report their swaps as DexEvents has it            *)
(* (ReportsAssumption), that the swaps are read, all of them, as they are. *)
(***************************************************************************)
EXTENDS DexEvents, WellFoundedInduction, TLAPS

-----------------------------------------------------------------------------
(* What one event can become.                                              *)

\* A u64 read from a buffer is a natural number.
LEMMA WordIsNat ==
    ASSUME NEW b, BufferOK(b), NEW off
    PROVE  U64(b, off) \in Nat
  BY UnitAssumption DEF BufferOK, U64

\* A nonempty set of natural numbers has a least one.
LEMMA LeastIn ==
    ASSUME NEW S \in SUBSET Nat, S # {}
    PROVE  Min(S) \in S /\ \A y \in S : Min(S) <= y
  <1> DEFINE R == OpToRel(<, Nat)
  <1>1. IsWellFoundedOn(R, Nat)
    BY NatLessThanWellFounded
  <1>2. \A x, y \in Nat : x < y => <<x, y>> \in R
    BY DEF OpToRel
  <1>3. PICK x \in S : \A y \in S : ~(<<y, x>> \in R)
    <2> HIDE DEF R
    <2>1. QED BY <1>1, WFMin
  <1> HIDE DEF R
  <1>4. ASSUME NEW y \in S PROVE x <= y
    <2>1. x \in Nat /\ y \in Nat /\ ~(y < x)
      BY <1>2, <1>3
    <2>2. QED BY <2>1
  <1>5. QED BY <1>4 DEF Min

\* A time found in a buffer is not more than an hour ahead.
LEMMA StampBounded ==
    ASSUME NEW b, BufferOK(b), NEW clock \in Nat
    PROVE  Timestamp(b, clock) \in Nat /\ Timestamp(b, clock) <= clock + Hour
  <1> DEFINE hits == {k \in DOMAIN TimestampOffsets :
                        \E v \in ParseU64(b, TimestampOffsets[k]) : Recent(v, clock)}
  <1>1. hits \in SUBSET Nat
    BY DEF TimestampOffsets
  <1>2. CASE hits = {}
    BY <1>2, UnitAssumption DEF Timestamp
  <1>3. CASE hits # {}
    <2>1. Min(hits) \in hits
      BY <1>1, <1>3, LeastIn
    <2>2. PICK v \in ParseU64(b, TimestampOffsets[Min(hits)]) : Recent(v, clock)
      BY <2>1
    <2>3. v = U64(b, TimestampOffsets[Min(hits)])
      BY <2>2 DEF ParseU64
    <2>4. Timestamp(b, clock) = v
      BY <1>3, <2>3 DEF Timestamp
    <2>5. QED
      BY <2>2, <2>3, <2>4, WordIsNat DEF Recent
  <1>4. QED
    BY <1>2, <1>3

\* Every layout of the swap event yields trades with its side and a time near now.
SwapTrade(t, b, e, clock) ==
    \E wallet, mint, sol, otherwise :
      /\ otherwise \in {HasBuyInstruction(t) \/ ~HasSellInstruction(t), HasBuyInstruction(t)}
      /\ e = Trade(wallet, mint, IsBuy(b, otherwise), sol, Timestamp(b, clock), "PumpSwap")

LEMMA SwapYields ==
    ASSUME NEW t, NEW b, NEW wallet, NEW clock, NEW e \in ParseSwap(t, b, wallet, clock)
    PROVE  SwapTrade(t, b, e, clock)
  <1>1. CASE e \in ParseSwapStandard(t, b, wallet, clock)
    BY <1>1 DEF ParseSwapStandard, SwapTrade
  <1>2. CASE e \in ParseSwapCompact(t, b, wallet, clock)
    <2>1. PICK mint \in ActualMint(t, b), sol \in ParseU64(b, 48) :
            \/ e \in ParseSwapCompactAlt(t, b, wallet, mint, clock)
            \/ e = Trade(wallet, mint, IsBuy(b, HasBuyInstruction(t)), sol,
                         Timestamp(b, clock), "PumpSwap")
      BY <1>2 DEF ParseSwapCompact
    <2>2. CASE e \in ParseSwapCompactAlt(t, b, wallet, mint, clock)
      BY <2>2 DEF ParseSwapCompactAlt, SwapTrade
    <2>3. QED
      BY <2>1, <2>2 DEF SwapTrade
  <1>3. QED
    BY <1>1, <1>2 DEF ParseSwap

\* The side that an event or else the log states.
SaidOf(t, b) == IF b.sub = "swap" /\ b.text # {} THEN b.text ELSE t.logs

\* What is assumed without a word in the event never overrules the log.
LEMMA SideIsSaid ==
    ASSUME NEW t, NEW b, b.sub = "swap", NEW side \in BOOLEAN, SaidOf(t, b) = {Side(side)},
           NEW otherwise \in {HasBuyInstruction(t) \/ ~HasSellInstruction(t), HasBuyInstruction(t)}
    PROVE  IsBuy(b, otherwise) = side
  <1>1. CASE side
    <2>1. SaidOf(t, b) = {"buy"} BY <1>1 DEF Side
    <2>2. QED BY <1>1, <2>1 DEF SaidOf, IsBuy, HasBuyInstruction, HasSellInstruction
  <1>2. CASE ~side
    <2>1. SaidOf(t, b) = {"sell"} BY <1>2 DEF Side
    <2>2. QED BY <1>2, <2>1 DEF SaidOf, IsBuy, HasBuyInstruction, HasSellInstruction
  <1>3. QED BY <1>1, <1>2

IsTrade(e) == \E wallet, mint, is_buy, sol, ts, dex : e = Trade(wallet, mint, is_buy, sol, ts, dex)

\* Near the clock, or taken as it was found.
StampOK(b, e, clock) == \/ e.ts \in Nat /\ e.ts <= clock + Hour
                        \/ e.dex = "PumpFun"
                        \/ b.sub = "trade_log"

SideOK(t, b, e) == b.main => \A side \in BOOLEAN : SaidOf(t, b) = {Side(side)} => e.is_buy = side

\* Whichever layout claims a buffer.
LEMMA EventYields ==
    ASSUME NEW t, NEW b, BufferOK(b), NEW clock \in Nat,
           NEW e \in ParseEventBuffer(t, b, clock)
    PROVE  IsTrade(e) /\ StampOK(b, e, clock) /\ SideOK(t, b, e)
  <1>1. PICK wallet \in t.signer :
          \/ b.main /\ b.sub = "swap" /\ e \in ParseSwap(t, b, wallet, clock)
          \/ b.main /\ b.sub = "trade_log" /\ e \in ParseTradeLog(t, b, wallet)
          \/ ~b.main /\ e \in ParsePumpFun(b, wallet)
          \/ ~b.main /\ e \in ParseRaydium146(t, b, wallet, clock)
    BY DEF ParseEventBuffer
  <1>2. CASE b.main /\ b.sub = "swap" /\ e \in ParseSwap(t, b, wallet, clock)
    <2>1. PICK w, mint, sol, otherwise :
            /\ otherwise \in {HasBuyInstruction(t) \/ ~HasSellInstruction(t), HasBuyInstruction(t)}
            /\ e = Trade(w, mint, IsBuy(b, otherwise), sol, Timestamp(b, clock), "PumpSwap")
      BY <1>2, SwapYields DEF SwapTrade
    <2>2. IsTrade(e) BY <2>1 DEF IsTrade
    <2>3. e.ts = Timestamp(b, clock) BY <2>1 DEF Trade
    <2>4. StampOK(b, e, clock) BY <2>3, StampBounded DEF StampOK
    <2>5. e.is_buy = IsBuy(b, otherwise) BY <2>1 DEF Trade
    <2>6. SideOK(t, b, e) BY <1>2, <2>1, <2>5, SideIsSaid DEF SideOK
    <2>7. QED BY <2>2, <2>4, <2>6
  <1>3. CASE b.main /\ b.sub = "trade_log" /\ e \in ParseTradeLog(t, b, wallet)
    <2>1. PICK mint : e = Trade(wallet, mint, HasBuyInstruction(t) \/ ~HasSellInstruction(t),
                                U64(b, 24), U64(b, 16), "PumpSwap")
      BY <1>3 DEF ParseTradeLog
    <2>2. e.is_buy = (HasBuyInstruction(t) \/ ~HasSellInstruction(t)) BY <2>1 DEF Trade
    <2>3. ASSUME NEW side \in BOOLEAN, t.logs = {Side(side)}
          PROVE  e.is_buy = side
      <3>1. CASE side
        <4>1. t.logs = {"buy"} BY <2>3, <3>1 DEF Side
        <4>2. QED BY <2>2, <3>1, <4>1 DEF HasBuyInstruction
      <3>2. CASE ~side
        <4>1. t.logs = {"sell"} BY <2>3, <3>2 DEF Side
        <4>2. QED BY <2>2, <3>2, <4>1 DEF HasBuyInstruction, HasSellInstruction
      <3>3. QED BY <3>1, <3>2
    <2>4. SideOK(t, b, e) BY <1>3, <2>3 DEF SideOK, SaidOf
    <2>5. QED BY <1>3, <2>1, <2>4 DEF IsTrade, StampOK
  <1>4. CASE ~b.main /\ e \in ParsePumpFun(b, wallet)
    <2>1. PICK mint : e = Trade(wallet, mint, b.flag = 1, U64(b, 48), U64(b, 97), "PumpFun")
      BY <1>4 DEF ParsePumpFun
    <2>2. e.dex = "PumpFun" BY <2>1 DEF Trade
    <2>3. QED BY <1>4, <2>1, <2>2 DEF IsTrade, StampOK, SideOK
  <1>5. CASE ~b.main /\ e \in ParseRaydium146(t, b, wallet, clock)
    <2>1. PICK mint, flag : e = Trade(wallet, mint, flag # 1, AbsDiff(U64(b, 96), U64(b, 80)),
                                      clock, "RaydiumLaunchpad")
      BY <1>5 DEF ParseRaydium146
    <2>2. e.ts = clock BY <2>1 DEF Trade
    <2>3. QED BY <1>5, <2>1, <2>2, UnitAssumption DEF IsTrade, StampOK, SideOK
  <1>6. QED BY <1>1, <1>2, <1>3, <1>4, <1>5

\* A trade made from the balances has the clock's time.
LEMMA BalancesYield ==
    ASSUME NEW t, NEW clock \in Nat, NEW e \in BalanceDiff(t, clock)
    PROVE  IsTrade(e) /\ e.ts = clock
  BY DEF BalanceDiff, IsTrade, Trade

-----------------------------------------------------------------------------
(* The walk.  TypeOK is not inductive: what is pushed must be known to go   *)
(* onto sequences, and a transaction to be received with nothing left of    *)
(* the last one.                                                            *)

\* What holds of the k-th trade when the clock shows the given time.
TradeOK(k, clock) ==
    /\ origin[k] \in 0..(at - 1)
    /\ \A j \in 1..(k - 1) : origin[j] < origin[k]
    /\ trades[k].slot = txn.slot
    /\ origin[k] = 0 => trades[k].ts \in Nat /\ trades[k].ts <= clock + Hour
    /\ origin[k] # 0 => /\ StampOK(EventOf(origin[k]), trades[k], clock)
                        /\ SideOK(txn, EventOf(origin[k]), trades[k])

IInv ==
    /\ pc \in {"receive", "balances", "walk"}
    /\ at \in Nat \ {0} /\ at <= Len(txn.inner) + 1
    /\ now \in Nat
    /\ TransactionOK(txn)
    /\ \E T : trades \in Seq(T)
    /\ origin \in Seq(Nat)
    /\ Len(origin) = Len(trades)
    /\ pc # "walk" => at = 1 /\ trades = << >>
    /\ \A k \in 1..Len(trades) : TradeOK(k, now)

LEMMA Appended ==
    ASSUME NEW T, NEW s \in Seq(T), NEW e
    PROVE  /\ Append(s, e) \in Seq(T \cup {e})
           /\ Len(Append(s, e)) = Len(s) + 1 /\ Len(s) \in Nat
           /\ \A k \in 1..Len(s) : Append(s, e)[k] = s[k]
           /\ Append(s, e)[Len(s) + 1] = e
  <1>1. s \in Seq(T \cup {e}) OBVIOUS
  <1>2. QED BY <1>1

\* Filling in slot and index leaves the rest of a trade alone.
LEMMA Filled ==
    ASSUME NEW e, IsTrade(e), NEW slot, NEW tx
    PROVE  LET f == [e EXCEPT !.slot = slot, !.tx = tx]
           IN  f.slot = slot /\ f.ts = e.ts /\ f.dex = e.dex /\ f.is_buy = e.is_buy
  BY DEF IsTrade, Trade

LEMMA InitInv == Init => IInv
  <1> SUFFICES ASSUME Init PROVE IInv OBVIOUS
  <1>1. TransactionOK(txn)
    BY DEF Init, NoTransaction, TransactionOK
  <1>2. trades \in Seq({}) /\ origin \in Seq(Nat)
    BY DEF Init
  <1>3. QED
    BY <1>1, <1>2, ClockAssumption DEF Init, NoTransaction, IInv

LEMMA Before == ASSUME NEW i \in Nat, NEW n \in Nat, i < n PROVE i \in 0..(n - 1)
  OBVIOUS

\* One trade is pushed, from a place in the walk behind all others.
LEMMA PushInv ==
    ASSUME IInv, NEW e, NEW tx, NEW from \in 0..at, Push(e, tx, from), IsTrade(e),
           UNCHANGED <<txn, now>>, at' \in {at, at + 1}, from < at',
           \A k \in 1..Len(trades) : origin[k] < from,
           from = 0 => e.ts \in Nat /\ e.ts <= now + Hour,
           from # 0 => StampOK(EventOf(from), e, now) /\ SideOK(txn, EventOf(from), e)
    PROVE  /\ \E T : trades' \in Seq(T)
           /\ origin' \in Seq(Nat)
           /\ Len(origin') = Len(trades')
           /\ \A k \in 1..Len(trades') : TradeOK(k, now)'
  <1> DEFINE f == [e EXCEPT !.slot = txn.slot, !.tx = tx]
  <1>1. f.slot = txn.slot /\ f.ts = e.ts /\ f.dex = e.dex /\ f.is_buy = e.is_buy
    BY Filled
  <1>2. trades' = Append(trades, f) /\ origin' = Append(origin, from)
    BY DEF Push
  <1> HIDE DEF f
  <1>3. PICK T : trades \in Seq(T)
    BY DEF IInv
  <1>4. /\ trades' \in Seq(T \cup {f}) /\ Len(trades) \in Nat
        /\ Len(trades') = Len(trades) + 1
        /\ \A k \in 1..Len(trades) : trades'[k] = trades[k]
        /\ trades'[Len(trades) + 1] = f
    BY <1>2, <1>3, Appended
  <1>5. /\ origin' \in Seq(Nat) /\ Len(origin') = Len(origin) + 1
        /\ \A k \in 1..Len(trades) : origin'[k] = origin[k]
        /\ origin'[Len(trades) + 1] = from
    <2>1. origin \in Seq(Nat) /\ Len(origin) = Len(trades) /\ from \in Nat /\ at \in Nat
      BY DEF IInv
    <2>2. QED BY <1>2, <2>1
  <1>6. ASSUME NEW k \in 1..Len(trades)
        PROVE  TradeOK(k, now)'
    <2>1. TradeOK(k, now) BY <1>6 DEF IInv
    <2>2. trades'[k] = trades[k] /\ origin'[k] = origin[k] /\ \A j \in 1..(k - 1) : origin'[j] = origin[j]
      BY <1>4, <1>5, <1>6
    <2>3. at \in Nat /\ at <= at' BY DEF IInv
    <2>4. EventOf(origin[k])' = EventOf(origin[k]) BY <2>2 DEF EventOf
    <2>5. QED
      BY <2>1, <2>2, <2>3, <2>4 DEF TradeOK
  <1>7. ASSUME NEW n, n = Len(trades) + 1
        PROVE  TradeOK(n, now)'
    <2>1. trades'[n] = f /\ origin'[n] = from BY <1>4, <1>5, <1>7
    <2>2. EventOf(origin[n])' = EventOf(from) BY <2>1 DEF EventOf
    <2>3. from # 0 => StampOK(EventOf(from), f, now) /\ SideOK(txn, EventOf(from), f)
      BY <1>1 DEF StampOK, SideOK
    <2>4. \A j \in 1..(n - 1) : origin'[j] < from
      BY <1>4, <1>5, <1>7
    <2>5. at \in Nat BY DEF IInv
    <2>6. from \in 0..(at' - 1)
      <3>1. from \in Nat /\ at' \in Nat /\ from < at' BY <2>5
      <3>2. QED BY <3>1, Before
    <2>7. QED
      BY <1>1, <2>1, <2>2, <2>3, <2>4, <2>6 DEF TradeOK
  <1>8. QED
    <2>1. ASSUME NEW k \in 1..Len(trades') PROVE TradeOK(k, now)'
      <3>1. k \in 1..Len(trades) \/ k = Len(trades) + 1 BY <1>4
      <3>2. CASE k \in 1..Len(trades) BY <3>2, <1>6
      <3>3. CASE k = Len(trades) + 1 BY <3>3, <1>7
      <3>4. QED BY <3>1, <3>2, <3>3
    <2>2. Len(origin') = Len(trades') BY <1>4, <1>5 DEF IInv
    <2>3. QED BY <1>4, <1>5, <2>1, <2>2

LEMMA NextInv == IInv /\ [Next]_vars => IInv'
  <1> SUFFICES ASSUME IInv, [Next]_vars PROVE IInv' OBVIOUS
  <1>1. CASE Receive
    <2>1. TransactionOK(txn') BY <1>1, TransactionAssumption DEF Receive
    <2>2. at' = 1 /\ trades' = << >> /\ origin' = origin /\ now' = now /\ pc' = "balances"
      BY <1>1 DEF Receive, IInv
    <2>3. trades' \in Seq({}) /\ Len(trades') = 0 BY <2>2
    <2>4. Len(origin') = Len(trades') /\ origin' \in Seq(Nat) /\ now' \in Nat
      BY <1>1, <2>2 DEF Receive, IInv
    <2>5. at' <= Len(txn') + 1 BY <2>1, <2>2 DEF TransactionOK
    <2>6. QED BY <2>1, <2>2, <2>3, <2>4, <2>5 DEF IInv
  <1>2. CASE ParseBalances
    <2>1. trades = << >> /\ at = 1 /\ Len(trades) = 0 /\ now \in Nat BY <1>2 DEF ParseBalances, IInv
    <2>2. at' = at /\ pc' = "walk" /\ UNCHANGED <<txn, now>> BY <1>2 DEF ParseBalances
    <2>3. ASSUME NEW e \in IF txn.v4 THEN BalanceDiff(txn, now) ELSE {}, Push(e, 0, 0)
          PROVE  /\ \E T : trades' \in Seq(T)
                 /\ origin' \in Seq(Nat)
                 /\ Len(origin') = Len(trades')
                 /\ \A k \in 1..Len(trades') : TradeOK(k, now)'
      <3>1. IsTrade(e) /\ e.ts = now BY <2>1, <2>3, BalancesYield
      <3>2. e.ts \in Nat /\ e.ts <= now + Hour BY <2>1, <3>1, UnitAssumption
      <3>3. QED BY <2>1, <2>2, <2>3, <3>1, <3>2, PushInv
    <2>4. CASE UNCHANGED <<trades, origin>>
      <3>1. QED BY <2>1, <2>2, <2>4 DEF IInv
    <2>5. QED
      <3>1. /\ \E T : trades' \in Seq(T)
            /\ origin' \in Seq(Nat)
            /\ Len(origin') = Len(trades')
            /\ \A k \in 1..Len(trades') : TradeOK(k, now)'
        <4>1. CASE UNCHANGED <<trades, origin>>
          BY <2>1, <4>1 DEF IInv
        <4>2. QED BY <1>2, <2>3, <4>1 DEF ParseBalances, PushAny
      <3>2. QED BY <2>1, <2>2, <3>1 DEF IInv
  <1>3. CASE ParseInner
    <2> DEFINE b == txn.inner[at].data
    <2>1. /\ at \in Nat \ {0} /\ at' = at + 1 /\ pc = "walk" /\ pc' = "walk" /\ UNCHANGED <<txn, now>>
          /\ now \in Nat /\ at \in 1..Len(txn.inner) /\ BufferOK(b) /\ Len(txn.inner) \in Nat
      BY <1>3 DEF ParseInner, IInv, TransactionOK
    <2>2. ASSUME NEW e \in ParseEventBuffer(txn, b, now), Push(e, txn.inner[at].group, at)
          PROVE  /\ \E T : trades' \in Seq(T)
                 /\ origin' \in Seq(Nat)
                 /\ Len(origin') = Len(trades')
                 /\ \A k \in 1..Len(trades') : TradeOK(k, now)'
      <3>1. IsTrade(e) /\ StampOK(b, e, now) /\ SideOK(txn, b, e) BY <2>1, <2>2, EventYields
      <3>2. StampOK(EventOf(at), e, now) /\ SideOK(txn, EventOf(at), e) BY <3>1 DEF EventOf
      <3>3. ASSUME NEW k \in 1..Len(trades) PROVE origin[k] < at
        <4>1. origin[k] \in 0..(at - 1) BY <3>3 DEF IInv, TradeOK
        <4>2. QED BY <2>1, <4>1
      <3>4. at \in 0..at /\ at < at' BY <2>1
      <3>5. QED BY <2>1, <2>2, <3>1, <3>2, <3>3, <3>4, PushInv
    <2>3. CASE UNCHANGED <<trades, origin>>
      <3>1. ASSUME NEW k \in 1..Len(trades) PROVE TradeOK(k, now)'
        <4>1. TradeOK(k, now) BY <3>1 DEF IInv
        <4>2. EventOf(origin[k])' = EventOf(origin[k]) BY <2>1, <2>3 DEF EventOf
        <4>3. QED BY <2>1, <2>3, <4>1, <4>2 DEF TradeOK
      <3>2. QED BY <2>1, <2>3, <3>1 DEF IInv
    <2>4. /\ \E T : trades' \in Seq(T)
          /\ origin' \in Seq(Nat)
          /\ Len(origin') = Len(trades')
          /\ \A k \in 1..Len(trades') : TradeOK(k, now)'
      <3>1. CASE UNCHANGED <<trades, origin>> BY <2>3, <3>1 DEF IInv
      <3>2. QED BY <1>3, <2>2, <3>1 DEF ParseInner, PushAny
    <2>5. TransactionOK(txn') BY <2>1 DEF IInv
    <2>6. QED BY <2>1, <2>4, <2>5 DEF IInv
  <1>4. CASE Return
    <2>1. pc' = "receive" /\ at' = 1 /\ trades' = << >> /\ origin' = << >> /\ now' = now
      BY <1>4 DEF Return
    <2>2. TransactionOK(txn') /\ Len(txn'.inner) = 0
      BY <1>4 DEF Return, NoTransaction, TransactionOK
    <2>3. trades' \in Seq({}) /\ origin' \in Seq(Nat) BY <2>1
    <2>4. QED BY <2>1, <2>2, <2>3 DEF IInv
  <1>5. CASE Tick
    <2>1. PICK d \in Ticks : now' = now + d /\ UNCHANGED <<pc, txn, at, trades, origin>>
      BY <1>5 DEF Tick
    <2>2. d \in Nat /\ now \in Nat /\ now' \in Nat /\ now <= now' BY <2>1, ClockAssumption DEF IInv
    <2>3. ASSUME NEW k \in 1..Len(trades) PROVE TradeOK(k, now)'
      <3>1. TradeOK(k, now) BY <2>3 DEF IInv
      <3>2. EventOf(origin[k])' = EventOf(origin[k]) BY <2>1 DEF EventOf
      <3>3. QED BY <2>1, <2>2, <3>1, <3>2, UnitAssumption DEF TradeOK, StampOK, SideOK
    <2>4. QED BY <2>1, <2>2, <2>3 DEF IInv
  <1>6. CASE UNCHANGED vars
    <2>1. ASSUME NEW k \in 1..Len(trades) PROVE TradeOK(k, now)'
      <3>1. TradeOK(k, now) BY <2>1 DEF IInv
      <3>2. EventOf(origin[k])' = EventOf(origin[k]) BY <1>6 DEF EventOf, vars
      <3>3. QED BY <1>6, <3>1, <3>2 DEF TradeOK, vars
    <2>2. QED BY <1>6, <2>1 DEF IInv, vars
  <1>7. QED BY <1>1, <1>2, <1>3, <1>4, <1>5, <1>6 DEF Next

LEMMA Inductive == Spec => []IInv
  BY InitInv, NextInv, PTL DEF Spec

\* The invariant gives the properties.
LEMMA Gives == IInv => TypeOK /\ SidesAreAsSaid /\ NoStampAhead
  <1> SUFFICES ASSUME IInv PROVE TypeOK /\ SidesAreAsSaid /\ NoStampAhead OBVIOUS
  <1>1. PICK T : trades \in Seq(T) BY DEF IInv
  <1>2. DOMAIN trades = 1..Len(trades) BY <1>1
  <1>3. TypeOK BY <1>2 DEF IInv, TypeOK, TradeOK, TransactionOK
  <1>4. SidesAreAsSaid BY <1>2 DEF IInv, SidesAreAsSaid, TradeOK, SideOK, SaidOf, Said
  <1>5. NoStampAhead BY <1>2 DEF IInv, NoStampAhead, TradeOK, StampOK
  <1>6. QED BY <1>3, <1>4, <1>5

\* The trades of a transaction come from its own instructions, in their order and at
\* most one from each, whatever the transactions are (transaction_parser.rs:812-882).
THEOREM TypeCorrect == Spec => []TypeOK
  BY Inductive, Gives, PTL

\* No default of any layout overrules a side that is stated, for any event, log and
\* length (transaction_parser.rs:325-342, :415-418, :488-491, :577).
THEOREM SidesSaid == Spec => []SidesAreAsSaid
  BY Inductive, Gives, PTL

\* Whatever the bytes of an event, the time given to its trade is at most an hour
\* ahead, unless it is a trade log or PumpFun's (transaction_parser.rs:775-799).
THEOREM StampsBounded == Spec => []NoStampAhead
  BY Inductive, Gives, PTL
-----------------------------------------------------------------------------
(* Events that stand for a swap.                                           *)

LEMMA LeastIs ==
    ASSUME NEW S \in SUBSET Int, NEW x \in S, \A y \in S : x <= y
    PROVE  Min(S) = x
  <1>1. \E z \in S : \A y \in S : z <= y
    OBVIOUS
  <1>2. Min(S) \in S /\ \A y \in S : Min(S) <= y
    BY <1>1 DEF Min
  <1>3. Min(S) \in Int /\ x \in Int /\ Min(S) <= x /\ x <= Min(S)
    BY <1>2
  <1>4. QED BY <1>3

\* What is read at an offset is a number of the event.
LEMMA WordIsIn ==
    ASSUME NEW b, NEW off
    PROVE  U64(b, off) \in WordsOf(b)
  BY DEF U64, WordsOf

-----------------------------------------------------------------------------
(* What is read of them: the swap, and at least that.                      *)

\* The time of the swap if it is clear, or else one that could be of now.
LEMMA StampRead ==
    ASSUME NEW i \in Nat \ {0}, BufferOK(EventOf(i)), NEW s, SwapOK(s),
           ReportsSwap(EventOf(i), s), NEW clock \in Nat
    PROVE  LET ts == Timestamp(EventOf(i), clock)
           IN  \/ ts = s.ts
               \/ /\ TimeIsUnclear(i, s, clock) /\ Recent(ts, clock)
                  /\ ts \in {clock} \cup WordsOf(EventOf(i))
  <1> DEFINE b    == EventOf(i)
             hits == {k \in DOMAIN TimestampOffsets :
                        \E v \in ParseU64(b, TimestampOffsets[k]) : Recent(v, clock)}
             ts   == Timestamp(b, clock)
  <1>1. /\ DOMAIN TimestampOffsets = 1..7 /\ TimestampOffsets[1] = 96
        /\ TimestampOffsets[2] = 16 /\ TimestampOffsets[3] = 104
    BY DEF TimestampOffsets
  <1>2. /\ b.len \in Nat /\ b.len >= 104
        /\ \/ U64(b, 96) = s.ts
           \/ U64(b, 104) = s.ts /\ b.len >= 112
    BY DEF ReportsSwap, BufferOK
  <1>3. Recent(s.ts, clock) =>
          \/ 1 \in hits /\ U64(b, 96) = s.ts
          \/ U64(b, 96) # s.ts /\ 3 \in hits /\ U64(b, 104) = s.ts
    <2>1. CASE U64(b, 96) = s.ts
      <3>1. U64(b, 96) \in ParseU64(b, 96)
        BY <1>2 DEF ParseU64
      <3>2. Recent(s.ts, clock) => 1 \in hits
        BY <1>1, <2>1, <3>1
      <3>3. QED BY <2>1, <3>2
    <2>2. CASE U64(b, 96) # s.ts /\ U64(b, 104) = s.ts /\ b.len >= 112
      <3>1. U64(b, 104) \in ParseU64(b, 104)
        BY <1>2, <2>2 DEF ParseU64
      <3>2. QED BY <1>1, <2>2, <3>1
    <2>3. QED BY <1>2, <2>1, <2>2
  <1>4. ASSUME NEW k \in hits
        PROVE  Recent(U64(b, TimestampOffsets[k]), clock)
    BY <1>4 DEF ParseU64
  <1>5. ts = IF hits = {} THEN clock ELSE U64(b, TimestampOffsets[Min(hits)])
    BY DEF Timestamp
  <1>6. hits \in SUBSET (1..7)
    BY <1>1
  <1> HIDE DEF hits, ts
  <1>7. CASE hits = {}
    <2>1. ts = clock /\ Recent(clock, clock)
      BY <1>5, <1>7, UnitAssumption DEF Recent
    <2>2. TimeIsUnclear(i, s, clock)
      BY <1>3, <1>7 DEF TimeIsUnclear
    <2>3. QED BY <2>1, <2>2 DEF ts
  <1>8. CASE hits # {}
    <2> DEFINE h == Min(hits)
    <2>1. h \in hits /\ \A y \in hits : h <= y
      BY <1>6, <1>8, LeastIn
    <2>2. ts = U64(b, TimestampOffsets[h]) /\ Recent(ts, clock) /\ ts \in WordsOf(b)
      BY <1>4, <1>5, <1>8, <2>1, WordIsIn
    <2> HIDE DEF h
    <2>3. CASE 1 \in hits /\ U64(b, 96) = s.ts
      <3>1. h = 1
        BY <1>6, <2>1, <2>3
      <3>2. QED BY <1>1, <2>2, <2>3, <3>1 DEF ts
    <2>4. CASE U64(b, 96) # s.ts /\ 3 \in hits /\ U64(b, 104) = s.ts
      <3>1. h \in {1, 2, 3}
        BY <1>6, <2>1, <2>4
      <3>2. CASE h = 1
        <4>1. Recent(U64(b, 96), clock)
          BY <1>1, <1>4, <2>1, <3>2
        <4>2. TimeIsUnclear(i, s, clock)
          BY <2>4, <4>1 DEF TimeIsUnclear
        <4>3. QED BY <2>2, <4>2 DEF ts
      <3>3. CASE h = 2
        <4>1. Recent(U64(b, 16), clock)
          BY <1>1, <1>4, <2>1, <3>3
        <4>2. TimeIsUnclear(i, s, clock)
          BY <2>4, <4>1 DEF TimeIsUnclear
        <4>3. QED BY <2>2, <4>2 DEF ts
      <3>4. CASE h = 3
        BY <1>1, <2>2, <2>4, <3>4 DEF ts
      <3>5. QED BY <3>1, <3>2, <3>3, <3>4
    <2>5. CASE ~Recent(s.ts, clock)
      <3>1. TimeIsUnclear(i, s, clock)
        BY <2>5 DEF TimeIsUnclear
      <3>2. QED BY <2>2, <3>1 DEF ts
    <2>6. QED BY <1>3, <2>3, <2>4, <2>5
  <1>9. QED BY <1>7, <1>8

\* The mint of the balances is found where it is clear.
LEMMA MintFound ==
    ASSUME txn.post \in Seq(ToSet(txn.post)), NEW mint, mint # Wsol,
           NEW k \in DOMAIN txn.post \cap 1..3, txn.post[k].mint = mint,
           \A j \in 1..(k - 1) : txn.post[j].mint = Wsol
    PROVE  ExtractTokenMint(txn) = {mint}
  <1> DEFINE n      == IF Len(txn.post) < 3 THEN Len(txn.post) ELSE 3
             tokens == {j \in 1..n : txn.post[j].mint # Wsol}
  <1>1. Len(txn.post) \in Nat /\ DOMAIN txn.post = 1..Len(txn.post)
    OBVIOUS
  <1>2. n \in Nat /\ n # 0 /\ k \in 1..n
    BY <1>1
  <1>3. k \in tokens /\ tokens \in SUBSET Int
    BY <1>2
  <1>4. ASSUME NEW j \in tokens PROVE k <= j
    <2>1. j \in Int /\ k \in Int /\ j >= 1 /\ txn.post[j].mint # Wsol
      BY <1>2, <1>4
    <2>2. ~(j <= k - 1)
      BY <2>1
    <2>3. QED BY <2>1, <2>2
  <1>5. ExtractTokenMint(txn) = IF n = 0 THEN {} ELSE
                                  {txn.post[IF tokens = {} THEN n ELSE Min(tokens)].mint}
    BY DEF ExtractTokenMint
  <1> HIDE DEF n, tokens
  <1>6. Min(tokens) = k
    BY <1>3, <1>4, LeastIs
  <1>7. QED BY <1>2, <1>3, <1>5, <1>6

\* There is one if there is a balance.
LEMMA MintThere ==
    ASSUME txn.post \in Seq(ToSet(txn.post)), txn.post # << >>
    PROVE  ExtractTokenMint(txn) # {}
  <1> DEFINE n      == IF Len(txn.post) < 3 THEN Len(txn.post) ELSE 3
             tokens == {j \in 1..n : txn.post[j].mint # Wsol}
  <1>1. n # 0
    OBVIOUS
  <1>2. ExtractTokenMint(txn) = IF n = 0 THEN {} ELSE
                                  {txn.post[IF tokens = {} THEN n ELSE Min(tokens)].mint}
    BY DEF ExtractTokenMint
  <1> HIDE DEF n, tokens
  <1>3. QED BY <1>1, <1>2

\* The amount of a swap, or what is taken for it.
AmountRead(i, s, sol) ==
    IF AmountIsClear(i, s) THEN sol = Net(i, s)
    ELSE sol \in WordsOf(EventOf(i)) /\ sol <= 1000 * Sol

\* Its time, or what is taken for that.
StampOf(i, s, e, clock) ==
    \/ e.ts = s.ts
    \/ /\ e.dex = "PumpSwap"
       /\ TimeIsUnclear(i, s, clock)
       /\ Recent(e.ts, clock)
       /\ e.ts \in {clock} \cup WordsOf(EventOf(i))
    \/ e.dex \in {"RaydiumAmmV4", "RaydiumLaunchpad"} /\ e.ts = clock

\* What the trade e read from instruction i at some time has of the swap.
ReadBack(i, s, e, clock) ==
    /\ e.wallet \in txn.signer
    /\ AmountRead(i, s, e.sol)
    /\ MintIsClear(i, s.mint) => e.mint = s.mint
    /\ i = 0 \/ ~EventOf(i).main => e.is_buy = s.is_buy
    /\ StampOf(i, s, e, clock)

\* The mint of an event, or that of the balances if it is wrapped SOL there.
LEMMA MintRead ==
    ASSUME txn.post \in Seq(ToSet(txn.post)), NEW i \in Nat \ {0}, NEW mint, mint # Wsol,
           MintIsClear(i, mint)
    PROVE  /\ EventOf(i).mint = Wsol => ExtractTokenMint(txn) = {mint}
           /\ EventOf(i).mint \in {mint, Wsol} =>
                \A m \in ActualMint(txn, EventOf(i)) : m = mint
  <1>1. CASE EventOf(i).mint = mint
    BY <1>1 DEF ActualMint, ParsePubkey
  <1>2. CASE EventOf(i).mint # mint
    <2>1. PICK k \in DOMAIN txn.post \cap 1..3 :
            txn.post[k].mint = mint /\ \A j \in 1..(k - 1) : txn.post[j].mint = Wsol
      BY <1>2 DEF MintIsClear
    <2>2. ExtractTokenMint(txn) = {mint}
      BY <2>1, MintFound
    <2>3. QED BY <1>2, <2>2 DEF ActualMint, ParsePubkey
  <1>3. QED BY <1>1, <1>2

\* The word at 48, or behind one above 1000 SOL the first that may be an amount.
LEMMA SwapAmountRead ==
    ASSUME NEW i \in Nat \ {0}, BufferOK(EventOf(i)), NEW s, SwapOK(s),
           ReportsSwap(EventOf(i), s), NEW wallet, NEW clock,
           NEW e \in ParseSwap(txn, EventOf(i), wallet, clock)
    PROVE  \E m, sol, is_buy :
             /\ m \in ActualMint(txn, EventOf(i))
             /\ e = Trade(wallet, m, is_buy, sol, Timestamp(EventOf(i), clock), "PumpSwap")
             /\ AmountRead(i, s, sol)
  <1> DEFINE b == EventOf(i)
  <1>1. /\ b.len \in Nat /\ b.len >= 104 /\ b.main /\ b.sub = "swap"
        /\ s.sol \in Nat /\ s.is_buy \in BOOLEAN /\ Sol \in Nat
    BY UnitAssumption DEF ReportsSwap, BufferOK, SwapOK
  <1>2. ParseU64(b, 48) = {U64(b, 48)} /\ U64(b, 48) \in Nat /\ U64(b, 48) \in WordsOf(b)
    BY <1>1, WordIsNat, WordIsIn DEF ParseU64
  <1>3. Net(i, s) = s.sol
    BY <1>1 DEF Net
  <1>4. CASE e \in ParseSwapStandard(txn, b, wallet, clock) /\ b.len >= 260
    <2>1. U64(b, 48) = s.sol
      BY <1>1, <1>4 DEF ReportsSwap
    <2>2. AmountIsClear(i, s)
      BY <1>1, <1>4 DEF AmountIsClear
    <2>3. AmountRead(i, s, U64(b, 48))
      BY <1>3, <2>1, <2>2 DEF AmountRead
    <2>4. QED BY <1>2, <1>4, <2>3 DEF ParseSwapStandard
  <1>5. CASE e \in ParseSwapCompact(txn, b, wallet, clock) /\ b.len < 260
    <2>1. PICK m \in ActualMint(txn, b) :
            e \in IF U64(b, 48) > 1000 * Sol THEN ParseSwapCompactAlt(txn, b, wallet, m, clock)
                  ELSE {Trade(wallet, m, IsBuy(b, HasBuyInstruction(txn)), U64(b, 48),
                              Timestamp(b, clock), "PumpSwap")}
      BY <1>2, <1>5 DEF ParseSwapCompact
    <2>2. CASE U64(b, 48) > 1000 * Sol
      <3> DEFINE hits == {off \in {48 + 8 * k : k \in 0..((b.len - 57) \div 8)} :
                            Realistic(U64(b, off))}
                 sol  == U64(b, Min(hits))
      <3>1. hits # {} /\ e = Trade(wallet, m, IsBuy(b, HasBuyInstruction(txn)), sol,
                                   Timestamp(b, clock), "PumpSwap")
        BY <2>1, <2>2 DEF ParseSwapCompactAlt
      <3>2. (b.len - 57) \div 8 \in Nat
        BY <1>1
      <3>3. Min(hits) \in hits /\ \A y \in hits : Min(hits) <= y
        <4>1. hits \in SUBSET Nat
          BY <3>2
        <4> HIDE DEF hits
        <4>2. QED BY <3>1, <4>1, LeastIn
      <3>4. Realistic(sol) /\ sol \in WordsOf(b)
        BY <3>3, WordIsIn
      <3>5. sol <= 1000 * Sol
        BY <3>4 DEF Realistic
      <3>6. ASSUME AmountIsClear(i, s) PROVE sol = s.sol
        <4>1. U64(b, 56) = s.sol /\ s.sol \in (Sol \div 1000)..(1000 * Sol)
          BY <1>1, <1>2, <1>5, <2>2, <3>6 DEF AmountIsClear
        <4>2. Realistic(U64(b, 56))
          BY <1>1, <4>1 DEF Realistic
        <4>3. 56 \in hits
          <5>1. 56 = 48 + 8 * 1 /\ 1 \in 0..((b.len - 57) \div 8)
            BY <1>1
          <5>2. QED BY <4>2, <5>1
        <4>4. Min(hits) # 48
          BY <1>1, <1>2, <2>2, <3>5
        <4>5. PICK k \in 0..((b.len - 57) \div 8) : Min(hits) = 48 + 8 * k
          BY <3>3
        <4>6. Min(hits) <= 56
          BY <3>3, <4>3
        <4> HIDE DEF hits
        <4>7. k \in Nat /\ k # 0 /\ k <= 1
          BY <3>2, <4>4, <4>5, <4>6
        <4>8. Min(hits) = 56
          BY <4>5, <4>7
        <4>9. QED BY <4>1, <4>8
      <3> HIDE DEF hits, sol
      <3>7. AmountRead(i, s, sol)
        BY <1>3, <3>4, <3>5, <3>6 DEF AmountRead
      <3>8. QED BY <2>1, <3>1, <3>7
    <2>3. CASE ~(U64(b, 48) > 1000 * Sol)
      <3>1. U64(b, 48) <= 1000 * Sol
        BY <1>1, <1>2, <2>3
      <3>2. AmountIsClear(i, s) => U64(b, 48) = s.sol
        BY <1>1, <1>5, <2>3 DEF AmountIsClear
      <3>3. AmountRead(i, s, U64(b, 48))
        BY <1>2, <1>3, <3>1, <3>2 DEF AmountRead
      <3>4. QED BY <2>1, <2>3, <3>3
    <2>4. QED BY <2>2, <2>3
  <1>6. QED BY <1>1, <1>4, <1>5 DEF ParseSwap

LEMMA SwapReadBack ==
    ASSUME txn.post \in Seq(ToSet(txn.post)), NEW i \in Nat \ {0}, BufferOK(EventOf(i)),
           NEW s, SwapOK(s), ReportsSwap(EventOf(i), s), NEW clock \in Nat,
           NEW wallet \in txn.signer, NEW e \in ParseSwap(txn, EventOf(i), wallet, clock)
    PROVE  ReadBack(i, s, e, clock)
  <1>1. PICK m, sol, is_buy :
          /\ m \in ActualMint(txn, EventOf(i))
          /\ e = Trade(wallet, m, is_buy, sol, Timestamp(EventOf(i), clock), "PumpSwap")
          /\ AmountRead(i, s, sol)
    BY SwapAmountRead
  <1>2. /\ e.wallet = wallet /\ e.mint = m /\ e.sol = sol /\ e.dex = "PumpSwap"
        /\ e.ts = Timestamp(EventOf(i), clock)
    BY <1>1 DEF Trade
  <1>3. MintIsClear(i, s.mint) => m = s.mint
    BY <1>1, MintRead DEF ReportsSwap, SwapOK
  <1>4. StampOf(i, s, e, clock)
    BY <1>2, StampRead DEF StampOf
  <1>5. EventOf(i).main
    BY DEF ReportsSwap
  <1>6. QED BY <1>1, <1>2, <1>3, <1>4, <1>5 DEF ReadBack

\* Outside the short swap events the amount is the event's.
LEMMA ClearAmount ==
    ASSUME NEW i \in Nat \ {0}, EventOf(i).sub # "swap" \/ ~EventOf(i).main, NEW s, s.sol \in Nat
    PROVE  AmountRead(i, s, s.sol)
  <1>1. AmountIsClear(i, s)
    BY DEF AmountIsClear
  <1>2. Net(i, s) = s.sol
    BY DEF Net
  <1>3. QED BY <1>1, <1>2 DEF AmountRead

\* Whichever layout claims the event of a swap.
LEMMA EventReadBack ==
    ASSUME txn.post \in Seq(ToSet(txn.post)), NEW i \in Nat \ {0}, BufferOK(EventOf(i)),
           NEW s, SwapOK(s), EventReports(EventOf(i), s), NEW clock \in Nat,
           NEW e \in ParseEventBuffer(txn, EventOf(i), clock)
    PROVE  ReadBack(i, s, e, clock)
  <1> DEFINE b == EventOf(i)
  <1>1. ReportsSwap(b, s) \/ ReportsTradeLog(b, s) \/ ReportsPumpFun(b, s) \/ ReportsLaunchpad(b, s)
    BY DEF EventReports
  <1>2. s.mint # Wsol /\ s.sol \in Nat /\ s.is_buy \in BOOLEAN
    BY DEF SwapOK
  <1>3. CASE ReportsSwap(b, s)
    <2>1. PICK wallet \in txn.signer : e \in ParseSwap(txn, b, wallet, clock)
      BY <1>3 DEF ParseEventBuffer, ReportsSwap
    <2>2. QED BY <1>3, <2>1, SwapReadBack
  <1>4. CASE ReportsTradeLog(b, s)
    <2>1. PICK wallet \in txn.signer : e \in ParseTradeLog(txn, b, wallet)
      BY <1>4 DEF ParseEventBuffer, ReportsTradeLog
    <2>2. PICK m, is_buy :
            /\ m \in ExtractTokenMint(txn)
            /\ e = Trade(wallet, m, is_buy, U64(b, 24), U64(b, 16), "PumpSwap")
      BY <2>1 DEF ParseTradeLog
    <2>3. e.wallet = wallet /\ e.mint = m /\ e.sol = s.sol /\ e.ts = s.ts
      BY <1>4, <2>2 DEF Trade, ReportsTradeLog
    <2>4. MintIsClear(i, s.mint) => e.mint = s.mint
      BY <1>2, <1>4, <2>2, <2>3, MintRead DEF ReportsTradeLog
    <2>5. AmountRead(i, s, s.sol)
      BY <1>2, <1>4, ClearAmount DEF ReportsTradeLog
    <2>6. QED BY <1>4, <2>1, <2>3, <2>4, <2>5 DEF ReadBack, StampOf, ReportsTradeLog
  <1>5. CASE ReportsPumpFun(b, s)
    <2>1. PICK wallet \in txn.signer : e \in ParsePumpFun(b, wallet)
      BY <1>5 DEF ParseEventBuffer, ReportsPumpFun
    <2>2. e = Trade(wallet, b.mint, b.flag = 1, U64(b, 48), U64(b, 97), "PumpFun")
      BY <2>1 DEF ParsePumpFun, ParsePubkey
    <2>3. e.wallet = wallet /\ e.mint = s.mint /\ e.sol = s.sol /\ e.ts = s.ts
      BY <1>5, <2>2 DEF Trade, ReportsPumpFun
    <2>4. e.is_buy = s.is_buy
      BY <1>2, <1>5, <2>2 DEF Trade, ReportsPumpFun
    <2>5. AmountRead(i, s, s.sol)
      BY <1>2, <1>5, ClearAmount DEF ReportsPumpFun
    <2>6. QED BY <2>1, <2>3, <2>4, <2>5 DEF ReadBack, StampOf
  <1>6. CASE ReportsLaunchpad(b, s)
    <2>1. PICK wallet \in txn.signer : e \in ParseRaydium146(txn, b, wallet, clock)
      BY <1>6 DEF ParseEventBuffer, ReportsLaunchpad
    <2>2. PICK m \in ExtractTokenMint(txn) :
            e = Trade(wallet, m, b.flag # 1, AbsDiff(U64(b, 96), U64(b, 80)), clock,
                      "RaydiumLaunchpad")
      BY <2>1 DEF ParseRaydium146, ParseU8
    <2>3. AbsDiff(U64(b, 96), U64(b, 80)) = s.sol
      <3>1. U64(b, 96) \in Nat /\ U64(b, 80) \in Nat
        BY WordIsNat
      <3>2. QED BY <1>2, <1>6, <3>1 DEF ReportsLaunchpad, AbsDiff
    <2>4. /\ e.wallet = wallet /\ e.mint = m /\ e.sol = s.sol /\ e.ts = clock
          /\ e.dex = "RaydiumLaunchpad" /\ e.is_buy = (b.flag # 1)
      BY <2>2, <2>3 DEF Trade
    <2>5. e.is_buy = s.is_buy
      BY <1>2, <1>6, <2>4 DEF ReportsLaunchpad
    <2>6. MintIsClear(i, s.mint) => e.mint = s.mint
      BY <1>2, <1>6, <2>2, <2>4, MintRead DEF ReportsLaunchpad
    <2>7. AmountRead(i, s, s.sol)
      BY <1>2, <1>6, ClearAmount DEF ReportsLaunchpad
    <2>8. QED BY <2>1, <2>4, <2>5, <2>6, <2>7 DEF ReadBack, StampOf
  <1>7. QED BY <1>1, <1>3, <1>4, <1>5, <1>6

\* A swap event reaches to its time.
LEMMA SwapLength ==
    ASSUME NEW b, BufferOK(b), NEW s, ReportsSwap(b, s)
    PROVE  b.len >= 104
  BY DEF ReportsSwap, BufferOK

\* A readable event of a swap is read.
LEMMA EventIsRead ==
    ASSUME txn.post \in Seq(ToSet(txn.post)), NEW i \in Nat \ {0}, BufferOK(EventOf(i)),
           NEW s, SwapOK(s), EventReports(EventOf(i), s),
           EventIsReadable(EventOf(i)), txn.signer # {}, NEW clock
    PROVE  ParseEventBuffer(txn, EventOf(i), clock) # {}
  <1> DEFINE b == EventOf(i)
  <1>1. ReportsSwap(b, s) \/ ReportsTradeLog(b, s) \/ ReportsPumpFun(b, s) \/ ReportsLaunchpad(b, s)
    BY DEF EventReports
  <1>2. PICK wallet \in txn.signer : TRUE
    OBVIOUS
  <1>3. s.mint # Wsol /\ s.sol \in Nat /\ Sol \in Nat /\ b.len \in Nat
    BY UnitAssumption DEF SwapOK, BufferOK
  <1>4. b.mint = Wsol => ExtractTokenMint(txn) # {}
    BY MintThere DEF EventIsReadable
  <1>5. CASE ReportsSwap(b, s)
    <2>0. b.len >= 104
      BY <1>5, SwapLength
    <2>1. b.main /\ b.sub = "swap" /\ b.len >= 104
      BY <1>5, <2>0 DEF ReportsSwap
    <2>2. ActualMint(txn, b) # {}
      BY <1>3, <1>4, <2>1 DEF ActualMint, ParsePubkey
    <2>3. PICK m \in ActualMint(txn, b) : TRUE
      BY <2>2
    <2>4. ParseU64(b, 48) = {U64(b, 48)}
      BY <1>3, <2>1 DEF ParseU64
    <2>5. CASE b.len >= 260
      <3>1. ParseSwapStandard(txn, b, wallet, clock) # {}
        <4>1. Trade(wallet, m, IsBuy(b, HasBuyInstruction(txn) \/ ~HasSellInstruction(txn)),
                    U64(b, 48), Timestamp(b, clock), "PumpSwap")
                \in ParseSwapStandard(txn, b, wallet, clock)
          BY <2>3, <2>4 DEF ParseSwapStandard
        <4>2. QED BY <4>1
      <3>2. ParseSwap(txn, b, wallet, clock) # {}
        BY <1>3, <2>1, <2>5, <3>1 DEF ParseSwap
      <3>3. QED BY <1>2, <1>3, <2>1, <3>2 DEF ParseEventBuffer
    <2>6. CASE ~(b.len >= 260)
      <3>2. CASE U64(b, 48) > 1000 * Sol
        <4> DEFINE hits == {off \in {48 + 8 * k : k \in 0..((b.len - 57) \div 8)} :
                              Realistic(U64(b, off))}
        <4>1. U64(b, 56) \in (Sol \div 1000)..(1000 * Sol)
          BY <1>3, <2>1, <2>6, <3>2 DEF EventIsReadable
        <4>2. 56 \in hits
          <5>1. 56 = 48 + 8 * 1 /\ 1 \in 0..((b.len - 57) \div 8)
            BY <1>3, <2>1
          <5>2. Realistic(U64(b, 56))
            BY <1>3, <4>1 DEF Realistic
          <5>3. QED BY <5>1, <5>2
        <4>3. ParseSwapCompactAlt(txn, b, wallet, m, clock) # {}
          BY <4>2 DEF ParseSwapCompactAlt
        <4>4. ParseSwapCompact(txn, b, wallet, clock) # {}
          BY <2>3, <2>4, <3>2, <4>3 DEF ParseSwapCompact
        <4>5. ParseSwap(txn, b, wallet, clock) # {}
          BY <1>3, <2>1, <2>6, <4>4 DEF ParseSwap
        <4>6. QED BY <1>2, <1>3, <2>1, <4>5 DEF ParseEventBuffer
      <3>3. CASE ~(U64(b, 48) > 1000 * Sol)
        <4>1. ParseSwapCompact(txn, b, wallet, clock) # {}
          <5> DEFINE Reads(mint, sol) ==
                       IF sol > 1000 * Sol THEN ParseSwapCompactAlt(txn, b, wallet, mint, clock)
                       ELSE {Trade(wallet, mint, IsBuy(b, HasBuyInstruction(txn)), sol,
                                   Timestamp(b, clock), "PumpSwap")}
          <5>1. ParseSwapCompact(txn, b, wallet, clock) =
                  UNION {Reads(mint, sol) : mint \in ActualMint(txn, b), sol \in ParseU64(b, 48)}
            BY DEF ParseSwapCompact
          <5>2. Reads(m, U64(b, 48)) # {}
            BY <3>3
          <5> HIDE DEF Reads
          <5>3. Reads(m, U64(b, 48)) \subseteq ParseSwapCompact(txn, b, wallet, clock)
            BY <2>3, <2>4, <5>1
          <5>4. QED BY <5>2, <5>3
        <4>2. ParseSwap(txn, b, wallet, clock) # {}
          BY <1>3, <2>1, <2>6, <4>1 DEF ParseSwap
        <4>3. QED BY <1>2, <1>3, <2>1, <4>2 DEF ParseEventBuffer
      <3>4. QED BY <3>2, <3>3
    <2>7. QED BY <2>5, <2>6
  <1>6. CASE ReportsTradeLog(b, s)
    <2>1. PICK m \in ExtractTokenMint(txn) : TRUE
      BY <1>4, <1>6 DEF ReportsTradeLog
    <2>2. /\ U64(b, 16) \in Stamps /\ U64(b, 24) \in 1..(10000 * Sol)
          /\ U64(b, 40) > 0 => PriceFits(U64(b, 56))
          /\ b.main /\ b.sub = "trade_log" /\ b.len = 384
      BY <1>6 DEF ReportsTradeLog, EventIsReadable
    <2>3. ParseTradeLog(txn, b, wallet) # {}
      BY <2>1, <2>2 DEF ParseTradeLog
    <2>4. QED BY <1>2, <2>2, <2>3 DEF ParseEventBuffer
  <1>7. CASE ReportsPumpFun(b, s)
    <2>1. ~b.main /\ b.len \in {266, 170, 138} /\ PriceFits(U64(b, 105))
      BY <1>7 DEF ReportsPumpFun, EventIsReadable
    <2>2. b.mint \in ParsePubkey(b, 16)
      BY <2>1 DEF ParsePubkey
    <2>3. ParsePumpFun(b, wallet) # {}
      BY <2>1, <2>2 DEF ParsePumpFun
    <2>4. QED BY <1>2, <2>1, <2>3 DEF ParseEventBuffer
  <1>8. CASE ReportsLaunchpad(b, s)
    <2>1. PICK m \in ExtractTokenMint(txn) : TRUE
      BY <1>4, <1>8 DEF ReportsLaunchpad
    <2>2. ~b.main /\ b.len = 146 /\ b.flag \in ParseU8(b, 144)
      BY <1>8 DEF ReportsLaunchpad, ParseU8
    <2>3. Trade(wallet, m, b.flag # 1, AbsDiff(U64(b, 96), U64(b, 80)), clock,
                "RaydiumLaunchpad")
            \in ParseRaydium146(txn, b, wallet, clock)
      BY <2>1, <2>2 DEF ParseRaydium146
    <2>4. QED BY <1>2, <2>2, <2>3 DEF ParseEventBuffer
  <1>9. QED BY <1>1, <1>5, <1>6, <1>7, <1>8
-----------------------------------------------------------------------------
(* A swap on AMM V4, read from the balances.                               *)

LEMMA GreatestIn ==
    ASSUME NEW n \in Nat, NEW S \in SUBSET (1..n), S # {}
    PROVE  Max(S) \in S
  <1> DEFINE T == {n - x : x \in S}
  <1>1. T \in SUBSET Nat /\ T # {}
    <2>1. \A x \in S : n - x \in Nat
      OBVIOUS
    <2>2. QED BY <2>1
  <1>2. PICK y \in T : \A z \in T : y <= z
    <2> HIDE DEF T
    <2>1. QED BY <1>1, LeastIn
  <1>3. PICK x \in S : y = n - x
    BY <1>2
  <1>4. ASSUME NEW z \in S PROVE x >= z
    <2>1. n - z \in T /\ x \in Nat /\ z \in Nat
      BY <1>3, <1>4
    <2>2. n - x <= n - z
      BY <1>2, <1>3, <2>1
    <2>3. QED BY <2>1, <2>2
  <1>5. QED BY <1>4 DEF Max

\* The last balance of some, and what it says of the swap.
LEMMA LastLegs ==
    ASSUME txn.post \in Seq(ToSet(txn.post)), NEW s, SwapOK(s), BalancesReport(txn, s)
    PROVE  /\ \A leg \in LastOf(TokenLegs(txn)) :
                leg \in TokenLegs(txn) /\ txn.post[leg].mint = s.mint
                /\ (Delta(txn, leg) > 0 <=> s.is_buy)
           /\ TokenLegs(txn) # {} => LastOf(TokenLegs(txn)) # {}
           /\ SolLegs(txn) # {} \/ txn.lamports # {} => SolDelta(txn) # {}
  <1>1. Len(txn.post) \in Nat /\ DOMAIN txn.post = 1..Len(txn.post)
    OBVIOUS
  <1>2. /\ TokenLegs(txn) \in SUBSET (1..Len(txn.post))
        /\ TokenLegs(txn) \subseteq Owned(txn) \ SolLegs(txn)
    BY <1>1 DEF TokenLegs, SolLegs, Owned
  <1>3. \A leg \in LastOf(TokenLegs(txn)) : leg \in TokenLegs(txn)
    BY <1>1, <1>2, GreatestIn DEF LastOf
  <1>4. \A leg \in LastOf(TokenLegs(txn)) :
          txn.post[leg].mint = s.mint /\ (Delta(txn, leg) > 0 <=> s.is_buy)
    BY <1>2, <1>3 DEF BalancesReport
  <1>5. /\ TokenLegs(txn) # {} => LastOf(TokenLegs(txn)) # {}
        /\ SolLegs(txn) # {} => LastOf(SolLegs(txn)) # {}
    BY DEF LastOf
  <1>6. SolLegs(txn) # {} \/ txn.lamports # {} => SolDelta(txn) # {}
    BY <1>5 DEF SolDelta
  <1>7. QED BY <1>3, <1>4, <1>5, <1>6

\* What the SOL that is compared says of it.
LEMMA SolLeft ==
    ASSUME txn.post \in Seq(ToSet(txn.post)), NEW s, SwapOK(s), BalancesReport(txn, s)
    PROVE  /\ Net(0, s) \in Int
           /\ \A sol \in SolDelta(txn) : sol = IF s.is_buy THEN -Net(0, s) ELSE Net(0, s)
  <1>1. \A leg \in LastOf(SolLegs(txn)) : leg \in SolLegs(txn)
    <2>1. Len(txn.post) \in Nat /\ DOMAIN txn.post = 1..Len(txn.post)
      OBVIOUS
    <2>2. SolLegs(txn) \in SUBSET (1..Len(txn.post))
      BY <2>1 DEF SolLegs, Owned
    <2>3. QED BY <2>1, <2>2, GreatestIn DEF LastOf
  <1>2. s.sol \in Nat /\ s.is_buy \in BOOLEAN /\ txn.cost.wrapped \in Int /\ txn.cost.lamports \in Int
    BY DEF SwapOK, BalancesReport
  <1>3. CASE SolLegs(txn) # {}
    <2>1. Net(0, s) = IF s.is_buy THEN s.sol + txn.cost.wrapped ELSE s.sol - txn.cost.wrapped
      BY <1>3 DEF Net
    <2>2. \A sol \in SolDelta(txn) :
            sol = (IF s.is_buy THEN -s.sol ELSE s.sol) - txn.cost.wrapped
      BY <1>1, <1>3 DEF SolDelta, BalancesReport
    <2>3. QED BY <1>2, <2>1, <2>2
  <1>4. CASE SolLegs(txn) = {}
    <2>1. Net(0, s) = IF s.is_buy THEN s.sol + txn.cost.lamports ELSE s.sol - txn.cost.lamports
      BY <1>4 DEF Net
    <2>2. \A sol \in SolDelta(txn) :
            sol = (IF s.is_buy THEN -s.sol ELSE s.sol) - txn.cost.lamports
      BY <1>4 DEF SolDelta, BalancesReport
    <2>3. QED BY <1>2, <2>1, <2>2
  <1>5. QED BY <1>3, <1>4

LEMMA BalancesReadBack ==
    ASSUME txn.post \in Seq(ToSet(txn.post)), NEW s, SwapOK(s), BalancesReport(txn, s),
           NEW clock, NEW e \in BalanceDiff(txn, clock)
    PROVE  ReadBack(0, s, e, clock)
  <1>1. PICK wallet \in txn.signer, sol \in SolDelta(txn), leg \in LastOf(TokenLegs(txn)) :
          /\ e = Trade(wallet, txn.post[leg].mint, sol < 0, AbsDiff(sol, 0), clock, "RaydiumAmmV4")
          /\ sol # 0 /\ (sol < 0 <=> Delta(txn, leg) > 0)
    BY DEF BalanceDiff
  <1>2. /\ e.wallet = wallet /\ e.mint = txn.post[leg].mint /\ e.is_buy = (sol < 0)
        /\ e.sol = AbsDiff(sol, 0) /\ e.dex = "RaydiumAmmV4" /\ e.ts = clock
    BY <1>1 DEF Trade
  <1>3. /\ leg \in TokenLegs(txn) /\ txn.post[leg].mint = s.mint
        /\ Delta(txn, leg) > 0 <=> s.is_buy
        /\ sol = (IF s.is_buy THEN -Net(0, s) ELSE Net(0, s)) /\ Net(0, s) \in Int
    BY <1>1, LastLegs, SolLeft
  <1>4. sol # 0 /\ (sol < 0 <=> s.is_buy) /\ s.is_buy \in BOOLEAN
    BY <1>1, <1>3 DEF SwapOK
  <1>5. AbsDiff(sol, 0) = Net(0, s)
    BY <1>3, <1>4 DEF AbsDiff
  <1>6. (sol < 0) = s.is_buy
    BY <1>4
  <1>7. AmountRead(0, s, e.sol)
    BY <1>2, <1>5 DEF AmountRead, AmountIsClear
  <1>8. QED BY <1>1, <1>2, <1>3, <1>6, <1>7 DEF ReadBack, StampOf

LEMMA BalancesAreRead ==
    ASSUME txn.post \in Seq(ToSet(txn.post)), NEW s \in txn.swap, SwapOK(s),
           BalancesReport(txn, s), BalancesAreReadable, txn.signer # {}, NEW clock
    PROVE  txn.v4 /\ BalanceDiff(txn, clock) # {}
  <1>1. PICK wallet \in txn.signer : TRUE
    OBVIOUS
  <1>2. PICK i \in Owned(txn) : txn.post[i].mint = s.mint
    BY DEF BalancesAreReadable
  <1>3. i \in TokenLegs(txn)
    BY <1>2 DEF TokenLegs, SolLegs, SwapOK, BalancesReport
  <1>4. PICK leg \in LastOf(TokenLegs(txn)) : Delta(txn, leg) > 0 <=> s.is_buy
    BY <1>3, LastLegs
  <1>5. PICK sol \in SolDelta(txn) : TRUE
    <2>1. SolLegs(txn) # {} \/ txn.lamports # {}
      BY DEF BalancesAreReadable
    <2>2. QED BY <2>1, LastLegs
  <1>6. \A x \in SolDelta(txn) : x = IF s.is_buy THEN -Net(0, s) ELSE Net(0, s)
    BY SolLeft
  <1>7. /\ Net(0, s) \in Int /\ Net(0, s) > 0
        /\ Net(0, s) \in (Sol \div 10000)..(50000 * Sol)
        /\ s.is_buy \in BOOLEAN /\ txn.v4
    BY SolLeft DEF SwapOK, BalancesReport, BalancesAreReadable
  <1>9. \A x \in SolDelta(txn) :
          /\ AbsDiff(x, 0) \in (Sol \div 10000)..(50000 * Sol)
          /\ x # 0 /\ (x < 0 <=> Delta(txn, leg) > 0)
    <2> DEFINE net == Net(0, s)
    <2> HIDE DEF net
    <2>1. ASSUME NEW x \in SolDelta(txn)
          PROVE  /\ AbsDiff(x, 0) \in (Sol \div 10000)..(50000 * Sol)
                 /\ x # 0 /\ (x < 0 <=> Delta(txn, leg) > 0)
      <3>1. x = (IF s.is_buy THEN -net ELSE net) /\ net \in Int /\ net > 0
        BY <1>6, <1>7, <2>1 DEF net
      <3>2. AbsDiff(x, 0) = net
        BY <3>1, <1>7 DEF AbsDiff
      <3>3. net \in (Sol \div 10000)..(50000 * Sol)
        BY <1>7 DEF net
      <3>4. AbsDiff(x, 0) \in (Sol \div 10000)..(50000 * Sol)
        BY <3>2, <3>3
      <3>5. x # 0 /\ (x < 0 <=> s.is_buy)
        BY <1>7, <3>1
      <3>6. QED BY <1>4, <3>4, <3>5
    <2>2. QED BY <2>1
  <1>10. Trade(wallet, txn.post[leg].mint, sol < 0, AbsDiff(sol, 0), clock, "RaydiumAmmV4")
           \in BalanceDiff(txn, clock)
    BY <1>1, <1>4, <1>5, <1>9 DEF BalanceDiff
  <1>11. QED BY <1>7, <1>10
-----------------------------------------------------------------------------
(* The walk over reported swaps: each trade is what one instruction gave at *)
(* some time since the start, and each instruction walked gave its trade.   *)

\* What instruction i gives at a time; 0 stands for the balances.
Parsed(i, clock) ==
    IF i = 0 THEN (IF txn.v4 THEN BalanceDiff(txn, clock) ELSE {})
    ELSE ParseEventBuffer(txn, EventOf(i), clock)

Completed(e, k) == [e EXCEPT !.slot = txn.slot, !.tx = trades[k].tx]

FromParsed(k, clock) ==
    \E c \in Start..clock : \E e \in Parsed(origin[k], c) :
      IsTrade(e) /\ trades[k] = Completed(e, k)

WalkedOver(i, clock) ==
    \/ \E c \in Start..clock : Parsed(i, c) = {}
    \/ \E k \in 1..Len(trades) : origin[k] = i

WInv ==
    /\ IInv
    /\ now \in Nat /\ Start \in Nat /\ Start <= now
    /\ Reported(txn)
    /\ \A k \in 1..Len(trades) : FromParsed(k, now)
    /\ pc = "walk" => \A i \in 0..(at - 1) : WalkedOver(i, now)

LEMMA InitWalk == Init => WInv
  <1> SUFFICES ASSUME Init PROVE WInv OBVIOUS
  <1>1. IInv
    BY InitInv
  <1>2. txn = NoTransaction /\ trades = << >> /\ now = Start /\ pc = "receive"
    BY DEF Init
  <1>3. /\ txn.post = << >> /\ txn.swap = {} /\ txn.inner = << >>
    BY <1>2 DEF NoTransaction
  <1>4. Reported(txn)
    <2>1. txn.post \in Seq(ToSet(txn.post))
      BY <1>3
    <2>2. DOMAIN txn.inner = {}
      BY <1>3
    <2>3. QED BY <1>3, <2>1, <2>2 DEF Reported
  <1>5. Len(trades) = 0
    BY <1>2
  <1>6. QED BY <1>1, <1>2, <1>4, <1>5, ClockAssumption DEF WInv

\* A step that pushes what an instruction gives now, and walks over it.
LEMMA WalkOn ==
    ASSUME WInv, IInv', NEW from \in Nat, NEW tx, PushAny(Parsed(from, now), tx, from),
           UNCHANGED <<txn, now>>, pc = "walk" => from = at, pc' = "walk",
           from = at' - 1, from # 0 => pc = "walk" /\ from \in DOMAIN txn.inner
    PROVE  WInv'
  <1>1. now \in Nat /\ Start \in Nat /\ Start <= now /\ now \in Start..now
    BY DEF WInv
  <1>2. PICK T : trades \in Seq(T)
    BY DEF WInv, IInv
  <1>3. origin \in Seq(Nat) /\ Len(origin) = Len(trades) /\ Len(trades) \in Nat
    BY <1>2 DEF WInv, IInv
  <1>4. \A i, c : Parsed(i, c)' = Parsed(i, c)
    BY DEF Parsed, EventOf
  <1>5. /\ \A k \in 1..Len(trades') : FromParsed(k, now)'
        /\ WalkedOver(from, now)'
        /\ \A i : WalkedOver(i, now) => WalkedOver(i, now)'
    <2>1. CASE Parsed(from, now) = {} /\ UNCHANGED <<trades, origin>>
      <3>1. \A k \in 1..Len(trades') : FromParsed(k, now)'
        BY <1>4, <2>1 DEF WInv, FromParsed, Completed
      <3>2. QED BY <1>1, <1>4, <2>1, <3>1 DEF WalkedOver
    <2>2. CASE \E e \in Parsed(from, now) : Push(e, tx, from)
      <3>1. PICK e \in Parsed(from, now) : Push(e, tx, from)
        BY <2>2
      <3> DEFINE f == [e EXCEPT !.slot = txn.slot, !.tx = tx]
      <3>2. trades' = Append(trades, f) /\ origin' = Append(origin, from)
        BY <3>1 DEF Push
      <3>3. IsTrade(e)
        <4>1. CASE from = 0
          BY <1>1, <3>1, <4>1, BalancesYield DEF Parsed
        <4>2. CASE from # 0
          <5>1. e \in ParseEventBuffer(txn, EventOf(from), now)
            BY <3>1, <4>2 DEF Parsed
          <5>2. BufferOK(EventOf(from))
            BY <4>2 DEF WInv, IInv, TransactionOK, EventOf
          <5>3. QED BY <1>1, <5>1, <5>2, EventYields
        <4>3. QED BY <4>1, <4>2
      <3>4. f.tx = tx
        BY <3>3 DEF IsTrade, Trade
      <3> HIDE DEF f
      <3>5. /\ Len(trades') = Len(trades) + 1
            /\ \A k \in 1..Len(trades) : trades'[k] = trades[k] /\ origin'[k] = origin[k]
            /\ trades'[Len(trades) + 1] = f /\ origin'[Len(trades) + 1] = from
        BY <1>2, <1>3, <3>2
      <3>6. ASSUME NEW k \in 1..Len(trades) PROVE FromParsed(k, now)'
        <4>1. PICK c \in Start..now : \E x \in Parsed(origin[k], c) :
                IsTrade(x) /\ trades[k] = Completed(x, k)
          BY DEF WInv, FromParsed
        <4>2. PICK x \in Parsed(origin[k], c) : IsTrade(x) /\ trades[k] = Completed(x, k)
          BY <4>1
        <4>3. trades'[k] = Completed(x, k)' /\ x \in Parsed(origin[k], c)'
          BY <1>4, <3>5, <3>6, <4>2 DEF Completed
        <4>4. QED BY <4>2, <4>3 DEF FromParsed
      <3>7. ASSUME NEW n, n = Len(trades) + 1 PROVE FromParsed(n, now)'
        <4>1. trades'[n] = f /\ origin'[n] = from
          BY <3>5, <3>7
        <4>2. f = Completed(e, n)'
          BY <3>4, <4>1 DEF f, Completed
        <4>3. e \in Parsed(origin[n], now)'
          BY <1>4, <3>1, <4>1
        <4>4. QED BY <1>1, <3>3, <4>1, <4>2, <4>3 DEF FromParsed
      <3>8. \A k \in 1..Len(trades') : FromParsed(k, now)'
        <4>1. ASSUME NEW k \in 1..Len(trades') PROVE FromParsed(k, now)'
          <5>1. k \in 1..Len(trades) \/ k = Len(trades) + 1
            BY <1>3, <3>5
          <5>2. QED BY <3>6, <3>7, <5>1
        <4>2. QED BY <4>1
      <3>9. Len(trades) + 1 \in 1..Len(trades')
        BY <1>3, <3>5
      <3>10. WalkedOver(from, now)'
        BY <3>5, <3>9 DEF WalkedOver
      <3>11. ASSUME NEW i, WalkedOver(i, now) PROVE WalkedOver(i, now)'
        <4>1. CASE \E c \in Start..now : Parsed(i, c) = {}
          BY <1>4, <4>1 DEF WalkedOver
        <4>2. CASE \E k \in 1..Len(trades) : origin[k] = i
          <5>1. PICK k \in 1..Len(trades) : origin[k] = i
            BY <4>2
          <5>2. k \in 1..Len(trades') /\ origin'[k] = i
            BY <1>3, <3>5, <5>1
          <5>3. QED BY <5>2 DEF WalkedOver
        <4>3. QED BY <3>11, <4>1, <4>2 DEF WalkedOver
      <3>12. QED BY <3>8, <3>10, <3>11
    <2>3. QED BY <2>1, <2>2 DEF PushAny
  <1>6. ASSUME NEW i \in 0..(at' - 1) PROVE WalkedOver(i, now)'
    <2>1. CASE i = from
      BY <1>5, <2>1
    <2>2. CASE i # from
      <3>1. at \in Nat /\ at' \in Nat
        BY DEF WInv, IInv
      <3>2. i \in Nat /\ i < from
        <4>1. i \in 0..from
          OBVIOUS
        <4>2. QED BY <2>2, <4>1
      <3>3. pc = "walk" /\ from = at
        BY <3>2
      <3>4. i \in 0..(at - 1)
        BY <3>1, <3>2, <3>3, Before
      <3>5. WalkedOver(i, now)
        BY <3>3, <3>4 DEF WInv
      <3>6. QED BY <1>5, <3>5
    <2>3. QED BY <2>1, <2>2
  <1>7. Reported(txn)'
    BY DEF WInv
  <1>8. QED BY <1>1, <1>5, <1>6, <1>7 DEF WInv

LEMMA NextWalk == WInv /\ [Next]_vars => WInv'
  <1> SUFFICES ASSUME WInv, [Next]_vars PROVE WInv' OBVIOUS
  <1>1. IInv /\ IInv' /\ now \in Nat /\ Start \in Nat /\ Start <= now
    BY NextInv DEF WInv
  <1>2. CASE Receive
    <2>1. txn' \in Transactions /\ trades' = << >> /\ now' = now /\ pc' = "balances"
      BY <1>1, <1>2 DEF Receive, IInv
    <2>2. Len(trades') = 0
      BY <2>1
    <2>3. QED BY <1>1, <2>1, <2>2, ReportsAssumption DEF WInv
  <1>3. CASE ParseBalances
    <2>1. /\ pc = "balances" /\ pc' = "walk" /\ UNCHANGED <<txn, at, now>> /\ at = 1
          /\ PushAny(IF txn.v4 THEN BalanceDiff(txn, now) ELSE {}, 0, 0)
      BY <1>1, <1>3 DEF ParseBalances, IInv
    <2>2. PushAny(Parsed(0, now), 0, 0)
      BY <2>1 DEF Parsed
    <2>3. QED BY <1>1, <2>1, <2>2, WalkOn
  <1>4. CASE ParseInner
    <2>1. /\ pc = "walk" /\ pc' = "walk" /\ UNCHANGED <<txn, now>> /\ at' = at + 1
          /\ at \in DOMAIN txn.inner /\ at \in Nat \ {0}
          /\ PushAny(ParseEventBuffer(txn, txn.inner[at].data, now), txn.inner[at].group, at)
      BY <1>1, <1>4 DEF ParseInner, IInv
    <2>2. PushAny(Parsed(at, now), txn.inner[at].group, at)
      BY <2>1 DEF Parsed, EventOf
    <2>3. QED BY <1>1, <2>1, <2>2, WalkOn
  <1>5. CASE Return
    <2>1. pc' = "receive" /\ txn' = NoTransaction /\ trades' = << >> /\ now' = now
      BY <1>5 DEF Return
    <2>2. Reported(txn')
      <3>1. txn'.post = << >> /\ txn'.swap = {} /\ txn'.inner = << >>
        BY <2>1 DEF NoTransaction
      <3>2. txn'.post \in Seq(ToSet(txn'.post)) /\ DOMAIN txn'.inner = {}
        BY <3>1
      <3>3. QED BY <3>1, <3>2 DEF Reported
    <2>3. Len(trades') = 0
      BY <2>1
    <2>4. QED BY <1>1, <2>1, <2>2, <2>3 DEF WInv
  <1>6. CASE Tick \/ UNCHANGED vars
    <2>1. /\ UNCHANGED <<pc, txn, at, trades, origin>>
          /\ now' \in Nat /\ now <= now'
      <3>1. CASE Tick
        BY <1>1, <3>1, ClockAssumption DEF Tick
      <3>2. CASE UNCHANGED vars
        BY <1>1, <3>2 DEF vars
      <3>3. QED BY <1>6, <3>1, <3>2
    <2>2. Start..now \subseteq Start..now'
      BY <1>1, <2>1
    <2>3. \A i, c : Parsed(i, c)' = Parsed(i, c)
      BY <2>1 DEF Parsed, EventOf
    <2>4. ASSUME NEW k \in 1..Len(trades) PROVE FromParsed(k, now)'
      BY <2>1, <2>2, <2>3 DEF WInv, FromParsed, Completed
    <2>5. ASSUME NEW i, WalkedOver(i, now) PROVE WalkedOver(i, now)'
      BY <2>1, <2>2, <2>3, <2>5 DEF WalkedOver
    <2>6. Start <= now'
      BY <1>1, <2>1
    <2>7. QED BY <1>1, <2>1, <2>4, <2>5, <2>6 DEF WInv
  <1>7. QED BY <1>2, <1>3, <1>4, <1>5, <1>6 DEF Next

LEMMA WalkInductive == Spec => []WInv
  BY InitWalk, NextWalk, PTL DEF Spec

\* What was read has slot and index filled in, and nothing else changed.
LEMMA Same ==
    ASSUME NEW e, IsTrade(e), NEW k, trades[k] = Completed(e, k)
    PROVE  /\ trades[k].wallet = e.wallet /\ trades[k].mint = e.mint /\ trades[k].sol = e.sol
           /\ trades[k].is_buy = e.is_buy /\ trades[k].ts = e.ts /\ trades[k].dex = e.dex
  BY DEF IsTrade, Trade, Completed

\* A trade of a swap is the swap as it was read at some time since the start.
LEMMA TradeReadBack ==
    ASSUME WInv, NEW k \in 1..Len(trades), NEW s \in SwapOf(origin[k])
    PROVE  \E c \in Start..now : \E e :
             /\ ReadBack(origin[k], s, e, c)
             /\ IsTrade(e) /\ trades[k] = Completed(e, k)
  <1> DEFINE i == origin[k]
  <1>1. PICK c \in Start..now : \E e \in Parsed(i, c) : IsTrade(e) /\ trades[k] = Completed(e, k)
    BY DEF WInv, FromParsed
  <1>0. PICK e \in Parsed(i, c) : IsTrade(e) /\ trades[k] = Completed(e, k)
    BY <1>1
  <1>2. c \in Nat
    BY DEF WInv
  <1>3. txn.post \in Seq(ToSet(txn.post))
    BY DEF WInv, Reported
  <1>4. CASE i = 0
    <2>1. s \in txn.swap /\ e \in BalanceDiff(txn, c)
      BY <1>0, <1>4 DEF SwapOf, Parsed
    <2>2. SwapOK(s) /\ BalancesReport(txn, s)
      BY <2>1 DEF WInv, Reported
    <2>3. QED BY <1>0, <1>3, <1>4, <2>1, <2>2, BalancesReadBack
  <1>5. CASE i # 0
    <2>1. i \in DOMAIN txn.inner /\ i \in Nat \ {0}
      <3>1. TradeOK(k, now) /\ at \in Nat /\ at <= Len(txn.inner) + 1 /\ TransactionOK(txn)
        BY DEF WInv, IInv
      <3>2. i \in 0..(at - 1) /\ Len(txn.inner) \in Nat /\ DOMAIN txn.inner = 1..Len(txn.inner)
        BY <3>1 DEF TradeOK, TransactionOK
      <3> HIDE DEF i
      <3>3. QED BY <1>5, <3>1, <3>2
    <2>2. SwapOK(s) /\ EventReports(EventOf(i), s) /\ BufferOK(EventOf(i))
      BY <1>5, <2>1 DEF SwapOf, EventOf, WInv, IInv, Reported, TransactionOK
    <2>3. e \in ParseEventBuffer(txn, EventOf(i), c)
      BY <1>0, <1>5 DEF Parsed
    <2>4. ReadBack(i, s, e, c)
      BY <1>2, <1>3, <2>1, <2>2, <2>3, EventReadBack
    <2>5. QED BY <1>0, <2>4
  <1>6. QED BY <1>4, <1>5

LEMMA WalkGives == WInv => SwapsAreReadBack /\ StampsAreTheSwaps /\ EverySwapIsRead
  <1> SUFFICES ASSUME WInv PROVE SwapsAreReadBack /\ StampsAreTheSwaps /\ EverySwapIsRead
    OBVIOUS
  <1>1. DOMAIN trades = 1..Len(trades)
    BY DEF WInv, IInv
  <1>2. SwapsAreReadBack
    <2> SUFFICES ASSUME NEW k \in 1..Len(trades), NEW s \in SwapOf(origin[k])
        PROVE  /\ trades[k].wallet \in txn.signer
               /\ AmountRead(origin[k], s, trades[k].sol)
               /\ MintIsClear(origin[k], s.mint) => trades[k].mint = s.mint
               /\ origin[k] = 0 \/ ~EventOf(origin[k]).main => trades[k].is_buy = s.is_buy
      BY <1>1 DEF SwapsAreReadBack, AmountRead
    <2>1. PICK c \in Start..now : \E e : /\ ReadBack(origin[k], s, e, c)
                                       /\ IsTrade(e) /\ trades[k] = Completed(e, k)
      BY TradeReadBack
    <2>2. QED BY <2>1, Same DEF ReadBack
  <1>3. StampsAreTheSwaps
    <2> SUFFICES ASSUME NEW k \in 1..Len(trades), NEW s \in SwapOf(origin[k]),
                        trades[k].ts # s.ts
        PROVE  \E clock \in Start..now : StampOf(origin[k], s, trades[k], clock)
      BY <1>1 DEF StampsAreTheSwaps, StampOf
    <2>1. PICK c \in Start..now : \E e : /\ ReadBack(origin[k], s, e, c)
                                       /\ IsTrade(e) /\ trades[k] = Completed(e, k)
      BY TradeReadBack
    <2>2. QED BY <2>1, Same DEF ReadBack, StampOf
  <1>4. EverySwapIsRead
    <2> SUFFICES ASSUME Walked, txn.signer # {}, NEW i \in 0..Len(txn.inner),
                        SwapOf(i) # {},
                        IF i = 0 THEN BalancesAreReadable ELSE EventIsReadable(EventOf(i))
        PROVE  \E k \in DOMAIN trades : origin[k] = i
      BY DEF EverySwapIsRead
    <2>1. /\ at \in Nat /\ at <= Len(txn.inner) + 1 /\ at # 0 /\ TransactionOK(txn)
          /\ Len(txn.inner) \in Nat /\ DOMAIN txn.inner = 1..Len(txn.inner)
          /\ pc = "walk" /\ at \notin DOMAIN txn.inner
      BY DEF WInv, IInv, TransactionOK, Walked
    <2>2. i \in 0..(at - 1)
      BY <2>1
    <2>3. WalkedOver(i, now)
      BY <2>1, <2>2 DEF WInv
    <2>4. PICK s \in SwapOf(i) : TRUE
      OBVIOUS
    <2>5. txn.post \in Seq(ToSet(txn.post))
      BY DEF WInv, Reported
    <2>6. \A c : Parsed(i, c) # {}
      <3>1. CASE i = 0
        <4>1. s \in txn.swap
          BY <2>4, <3>1 DEF SwapOf
        <4>2. SwapOK(s) /\ BalancesReport(txn, s)
          BY <4>1 DEF WInv, Reported
        <4>3. QED BY <2>5, <3>1, <4>1, <4>2, BalancesAreRead DEF Parsed
      <3>2. CASE i # 0
        <4>1. i \in DOMAIN txn.inner /\ i \in Nat \ {0}
          BY <2>1, <3>2
        <4>2. SwapOK(s) /\ EventReports(EventOf(i), s) /\ BufferOK(EventOf(i))
          BY <2>1, <2>4, <3>2, <4>1 DEF SwapOf, EventOf, WInv, Reported, TransactionOK
        <4>3. EventIsReadable(EventOf(i))
          BY <3>2
        <4>4. ASSUME NEW c PROVE ParseEventBuffer(txn, EventOf(i), c) # {}
          BY <2>4, <2>5, <4>1, <4>2, <4>3, EventIsRead
        <4>5. QED BY <3>2, <4>4 DEF Parsed
      <3>3. QED BY <3>1, <3>2
    <2>7. QED BY <1>1, <2>3, <2>6 DEF WalkedOver
  <1>5. QED BY <1>2, <1>3, <1>4

\* Whichever layout claims the event of a swap, its trade is the swap: wallet, amount,
\* mint and side where they are clear, the amount with fee and rent on AMM V4, and in
\* doubt some word of the event of at most 1000 SOL; for any reported swaps, any other
\* words in their events and any other events in the transaction
\* (transaction_parser.rs:179-248, :285-799, :893-1060).
THEOREM SwapsReadBack == Spec => []SwapsAreReadBack
  BY WalkInductive, WalkGives, PTL

\* No readable swap is missed, whatever else is in its transaction: a V4 swap next to
\* events, several events (transaction_parser.rs:812-882).
THEOREM SwapsRead == Spec => []EverySwapIsRead
  BY WalkInductive, WalkGives, PTL

\* A trade has its swap's time unless that was unclear when it was parsed, and then a
\* time that could have been true, the clock's or a number of the event's, whatever
\* numbers are in it (transaction_parser.rs:775-799).
THEOREM StampsTrue == Spec => []StampsAreTheSwaps
  BY WalkInductive, WalkGives, PTL
=============================================================================
