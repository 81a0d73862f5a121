------------------------- MODULE InsiderCacheProofs -------------------------
(***************************************************************************)
(* Proofs about InsiderCache and about Screening, which adds the filters   *)
(* to it, for any trades, tokens, wallets, caps and thresholds, and        *)
(* whichever caches evict.                                                 *)
(***************************************************************************)
EXTENDS Screening, WalletLemmas, SequenceTheorems

-----------------------------------------------------------------------------
(* The inductive invariant.                                                *)

\* The cycles of a wallet keep their cap too.
CyclesCapped == \A w \in Wallets : Len(wallets[w].cycles) <= MaxCycles

\* What the steps of a call rely on while the token keeps its entry.
CallOK ==
    /\ pc \in {"collect", "reannotate"} => outcome = "revised"
    /\ pc # "idle" /\ trade.mint \notin disturbed =>
         /\ registry[trade.mint] \in Slots
         /\ registry[trade.mint] <= trade.slot
         /\ outcome = "revised" => registry[trade.mint] = trade.slot
         /\ pc = "ingest" => t0 = registry[trade.mint]

\* A trade in a window, a sell as well as a buy, was observed, so T0 is no
\* higher than its slot; and its delta is from a T0 that was no lower.
Observed(a) == LET T == registry[a.trade.mint]
               IN  T \in Slots /\ T <= a.trade.slot /\ a.delta <= a.trade.slot - T

WindowsObserved ==
    \A w \in Wallets : \A i \in DOMAIN wallets[w].recent :
      wallets[w].recent[i].trade.mint \notin disturbed => Observed(wallets[w].recent[i])

IInv == /\ TypeOK
        /\ CyclesCapped
        /\ CallOK
        /\ WindowsObserved
        /\ BuyersIndexed
        /\ AnnotationsCurrent

-----------------------------------------------------------------------------
(* What the operators and the steps leave behind.                          *)

LEMMA SlotsType == Slots \subseteq Nat /\ None \notin Slots
BY TradesAssumption DEF Slots, None

LEMMA TradeType ==
  ASSUME NEW t \in Trades
  PROVE  t.mint \in Mints /\ t.slot \in Slots /\ t.slot \in Nat /\ t.wallet \in Wallets /\ t.tx \in Nat
BY TradesAssumption, WalletsAssumption DEF Slots

\* Inserting an element loses none.
LEMMA InsertKeeps ==
  ASSUME NEW S, NEW s \in Seq(S), NEW e \in S, NEW p \in 1..Len(s) + 1
  PROVE  /\ InsertAt(s, p, e) \in Seq(S)
         /\ Len(InsertAt(s, p, e)) = Len(s) + 1
         /\ \A i \in DOMAIN s : \E k \in DOMAIN InsertAt(s, p, e) : InsertAt(s, p, e)[k] = s[i]
         /\ \E k \in DOMAIN InsertAt(s, p, e) : InsertAt(s, p, e)[k] = e
<1>0. p \in Nat \ {0} /\ Len(s) \in Nat /\ p <= Len(s) + 1
  OBVIOUS
<1> DEFINE a == SubSeq(s, 1, p - 1)
           c == SubSeq(s, p, Len(s))
<1>1. /\ a \in Seq(S) /\ Len(a) = p - 1
      /\ \A i \in 1..p - 1 : a[i] = s[i]
  <2>1. \A i \in 1..p - 1 : s[i] \in S
    BY <1>0
  <2>2. /\ a \in Seq(S) /\ Len(a) = IF 1 <= p - 1 THEN (p - 1) - 1 + 1 ELSE 0
        /\ \A i \in 1..(p - 1) - 1 + 1 : a[i] = s[1 + i - 1]
    BY <1>0, <2>1, SubSeqProperties
  <2> QED
    BY <1>0, <2>2
<1>2. /\ c \in Seq(S) /\ Len(c) = Len(s) + 1 - p
      /\ \A i \in 1..Len(s) + 1 - p : c[i] = s[p + i - 1]
  <2>1. \A i \in p..Len(s) : s[i] \in S
    BY <1>0
  <2>2. /\ c \in Seq(S) /\ Len(c) = IF p <= Len(s) THEN Len(s) - p + 1 ELSE 0
        /\ \A i \in 1..Len(s) - p + 1 : c[i] = s[p + i - 1]
    BY <1>0, <2>1, SubSeqProperties
  <2> QED
    BY <1>0, <2>2
<1>3. <<e>> \in Seq(S) /\ Len(<<e>>) = 1 /\ <<e>>[1] = e
  OBVIOUS
<1> DEFINE b == a \o <<e>>
           t == b \o c
<1>4. InsertAt(s, p, e) = t
  BY DEF InsertAt
<1> HIDE DEF a, c
<1>5. /\ b \in Seq(S) /\ Len(b) = p
      /\ \A i \in 1..p : b[i] = IF i <= p - 1 THEN a[i] ELSE <<e>>[i - (p - 1)]
  BY <1>0, <1>1, <1>3, ConcatProperties
<1>6. /\ \A i \in 1..p - 1 : b[i] = s[i]
      /\ b[p] = e
  <2>1. p \in 1..p /\ ~(p <= p - 1) /\ p - (p - 1) = 1
    BY <1>0
  <2>2. b[p] = e
    BY <1>3, <1>5, <2>1
  <2>3. ASSUME NEW i \in 1..p - 1 PROVE b[i] = s[i]
    <3>1. i \in 1..p /\ i <= p - 1
      BY <1>0
    <3> QED
      BY <1>1, <1>5, <3>1
  <2> QED
    BY <2>2, <2>3
<1> HIDE DEF b
<1>7. /\ t \in Seq(S) /\ Len(t) = Len(s) + 1
      /\ \A i \in 1..Len(s) + 1 : t[i] = IF i <= p THEN b[i] ELSE c[i - p]
  BY <1>0, <1>2, <1>5, ConcatProperties
<1> HIDE DEF t
<1>8. DOMAIN t = 1..Len(s) + 1 /\ DOMAIN s = 1..Len(s)
  BY <1>7
<1>9. ASSUME NEW i \in 1..Len(s) PROVE \E k \in 1..Len(s) + 1 : t[k] = s[i]
  <2>1. CASE i < p
    BY <1>0, <1>6, <1>7, <2>1
  <2>2. CASE i >= p
    <3>1. i + 1 - p \in 1..Len(s) + 1 - p /\ p + (i + 1 - p) - 1 = i /\ i + 1 \in 1..Len(s) + 1
      BY <1>0, <2>2
    <3>2. c[i + 1 - p] = s[i] /\ ~(i + 1 <= p)
      BY <1>0, <1>2, <2>2, <3>1
    <3>3. t[i + 1] = c[i + 1 - p]
      BY <1>7, <3>1, <3>2
    <3> QED
      BY <3>1, <3>2, <3>3
  <2> QED
    BY <1>0, <2>1, <2>2
<1>10. p \in 1..Len(s) + 1 /\ t[p] = e
  BY <1>0, <1>6, <1>7
<1> QED
  BY <1>4, <1>7, <1>8, <1>9, <1>10

\* index_buy keeps the cap, and loses no entry while there is room.
LEMMA IndexedFacts ==
  ASSUME NEW S, NEW s \in Seq(S), Len(s) <= BuyCap, NEW e \in S, NEW list \in Indexed(s, e)
  PROVE  /\ list \in Seq(S) /\ Len(list) <= BuyCap
         /\ Len(s) # BuyCap => /\ BuyersIn(s) \subseteq BuyersIn(list) /\ e.wallet \in BuyersIn(list)
                               /\ ToSet(s) \subseteq ToSet(list) /\ e \in ToSet(list)
<1>0. BuyCap \in Nat \ {0} /\ Len(s) \in Nat /\ DOMAIN s = 1..Len(s)
  BY BuyIndexAssumption
<1>1. PICK p \in Search(s, e) : list = Capped(InsertAt(s, p, e))
  BY DEF Indexed
<1>2. p \in 1..Len(s) + 1
  BY <1>0 DEF Search
<1> DEFINE t == InsertAt(s, p, e)
<1>3. /\ t \in Seq(S) /\ Len(t) = Len(s) + 1
      /\ \A i \in DOMAIN s : \E k \in DOMAIN t : t[k] = s[i]
      /\ \E k \in DOMAIN t : t[k] = e
  BY <1>2, InsertKeeps
<1>4. list = Capped(t)
  BY <1>1
<1> HIDE DEF t
<1>5. CASE Len(s) # BuyCap
  <2>0. /\ Len(t) = Len(s) + 1
        /\ Len(s) < BuyCap
    <3>1. Len(t) = Len(s) + 1
      BY <1>3
    <3>2. Len(s) < BuyCap
      <4>1. \A x, y \in Nat : x <= y /\ x # y => x < y
        OBVIOUS
      <4>2. Len(s) \in Nat /\ BuyCap \in Nat /\ Len(s) <= BuyCap
        BY <1>0
      <4> QED
        BY <1>5, <4>1, <4>2
    <3> QED
      BY <3>1, <3>2
  <2>1. list = t
    BY <1>0, <1>4, <2>0 DEF Capped
  <2>2. list \in Seq(S) /\ Len(list) <= BuyCap
    BY <1>0, <1>3, <2>0, <2>1
  <2>3. BuyersIn(s) \subseteq BuyersIn(t)
    <3> SUFFICES ASSUME NEW i \in DOMAIN s PROVE s[i].wallet \in BuyersIn(t)
      BY DEF BuyersIn
    <3>1. PICK k \in DOMAIN t : t[k] = s[i]
      BY <1>3
    <3> QED
      BY <3>1 DEF BuyersIn
  <2>4. e.wallet \in BuyersIn(t)
    BY <1>3 DEF BuyersIn
  <2>5. ToSet(s) \subseteq ToSet(t) /\ e \in ToSet(t)
    <3> SUFFICES ASSUME NEW i \in DOMAIN s PROVE s[i] \in ToSet(t)
      BY <1>3 DEF ToSet
    <3>1. PICK k \in DOMAIN t : t[k] = s[i]
      BY <1>3
    <3> QED
      BY <3>1 DEF ToSet
  <2> QED
    BY <2>1, <2>2, <2>3, <2>4, <2>5
<1>6. CASE Len(s) = BuyCap
  <2>1. list = SubSeq(t, 2, BuyCap + 1)
    BY <1>0, <1>3, <1>4, <1>6 DEF Capped
  <2>2. \A i \in 2..BuyCap + 1 : t[i] \in S
    BY <1>0, <1>3, <1>6
  <2>3. list \in Seq(S) /\ Len(list) = IF 2 <= BuyCap + 1 THEN BuyCap + 1 - 2 + 1 ELSE 0
    BY <1>0, <2>1, <2>2, SubSeqProperties
  <2> QED
    BY <1>0, <1>6, <2>3
<1> QED
  BY <1>5, <1>6

\* What an observation does to the registry.
LEMMA ObserveFacts ==
  ASSUME TypeOK, NEW t \in Trades, Observe(t)
  PROVE  /\ registry' \in [Mints -> Slots \cup {None}]
         /\ outcome' \in Reg!Outcomes
         /\ registry'[t.mint] \in Slots /\ registry'[t.mint] <= t.slot
         /\ registry'[t.mint] \in {t.slot, registry[t.mint]}
         /\ outcome' = "revised" => registry'[t.mint] = t.slot
         /\ outcome' # "revised" /\ registry[t.mint] # None => registry'[t.mint] = registry[t.mint]
         /\ registry[t.mint] # None => registry'[t.mint] <= registry[t.mint]
         /\ \A m \in Mints : m # t.mint => registry'[m] = registry[m]
<1>1. t.mint \in Mints /\ t.slot \in Slots /\ t.slot \in Nat /\ Slots \subseteq Nat /\ None \notin Slots
  BY TradeType, SlotsType
<1>2. registry \in [Mints -> Slots \cup {None}] /\ registry[t.mint] \in Slots \cup {None}
  BY <1>1 DEF TypeOK
<1>3. Reg!None = None
  BY DEF Reg!None, None
<1>4. CASE Reg!ObserveNew(t.mint, t.slot)
  <2>1. /\ registry[t.mint] = None /\ outcome' = "new"
        /\ registry' = [registry EXCEPT ![t.mint] = t.slot]
    BY <1>3, <1>4 DEF Reg!ObserveNew
  <2> QED
    BY <1>1, <1>2, <2>1 DEF Reg!Outcomes
<1>5. CASE Reg!ObserveLower(t.mint, t.slot)
  <2>1. /\ registry[t.mint] \in Slots /\ t.slot < registry[t.mint] /\ outcome' = "revised"
        /\ registry' = [registry EXCEPT ![t.mint] = t.slot]
    BY <1>2, <1>3, <1>5 DEF Reg!ObserveLower
  <2>2. /\ registry'[t.mint] = t.slot
        /\ \A m \in Mints : m # t.mint => registry'[m] = registry[m]
        /\ registry' \in [Mints -> Slots \cup {None}]
    BY <1>1, <1>2, <2>1
  <2>3. t.slot <= t.slot /\ t.slot <= registry[t.mint]
    <3>1. registry[t.mint] \in Nat
      BY <1>1, <2>1
    <3> QED
      BY <1>1, <2>1, <3>1
  <2> QED
    BY <1>1, <2>1, <2>2, <2>3 DEF Reg!Outcomes
<1>6. CASE Reg!ObserveLater(t.mint, t.slot)
  <2>1. /\ registry[t.mint] \in Slots /\ t.slot >= registry[t.mint] /\ outcome' = "unchanged"
        /\ registry' = registry
    BY <1>2, <1>3, <1>6 DEF Reg!ObserveLater
  <2>2. registry[t.mint] <= t.slot /\ registry[t.mint] <= registry[t.mint]
    <3>1. registry[t.mint] \in Nat
      BY <1>1, <2>1
    <3> QED
      BY <1>1, <2>1, <3>1
  <2> QED
    BY <1>1, <1>2, <2>1, <2>2 DEF Reg!Outcomes
<1> QED
  BY <1>4, <1>5, <1>6 DEF Observe, Reg!Observe

\* Ingesting adds the annotated trade to one window.
LEMMA IngestWindow ==
  ASSUME TypeOK, CyclesCapped, Ingest
  PROVE  /\ wallets' \in [Wallets -> WalletStates]
         /\ \A w \in Wallets : Len(wallets'[w].recent) <= RecentWindow /\ Len(wallets'[w].cycles) <= MaxCycles
         /\ \A w \in Wallets : \A i \in DOMAIN wallets'[w].recent :
              \/ w = trade.wallet /\ wallets'[w].recent[i] = Annotate(trade, t0)
              \/ \E j \in DOMAIN wallets[w].recent : wallets'[w].recent[i] = wallets[w].recent[j]
<1> DEFINE u == trade.wallet
           a == Annotate(trade, t0)
           x == IngestTrade(wallets[u], a)
<1>1. trade \in Trades /\ u \in Wallets /\ t0 \in Nat \cup {None}
  BY TradeType, SlotsType DEF TypeOK
<1>2. a \in Annotated
  BY <1>1, AnnotateType
<1>3. wallets[u] \in WalletStates /\ Len(wallets[u].recent) <= RecentWindow /\ Len(wallets[u].cycles) <= MaxCycles
  BY <1>1 DEF TypeOK, CyclesCapped
<1> HIDE DEF a
<1>4. /\ x.recent = PushCapped(wallets[u].recent, a, RecentWindow)
      /\ Len(x.recent) <= RecentWindow
      /\ x \in WalletStates /\ Len(x.cycles) <= MaxCycles
  BY <1>2, <1>3, IngestFacts
<1>5. wallets[u].recent \in Seq(Annotated)
  BY <1>3 DEF WalletStates
<1>6. \A i \in DOMAIN x.recent : x.recent[i] = a \/ \E j \in DOMAIN wallets[u].recent : x.recent[i] = wallets[u].recent[j]
  BY <1>2, <1>3, <1>4, <1>5, PushCappedFacts, WindowAssumption
<1>7. wallets' = [wallets EXCEPT ![u] = x]
  BY DEF Ingest, a
<1> HIDE DEF x, u
<1>8. wallets \in [Wallets -> WalletStates]
  BY DEF TypeOK
<1>9. wallets'[u] = x /\ \A w \in Wallets : w # u => wallets'[w] = wallets[w]
  BY <1>1, <1>7, <1>8
<1>10. wallets' \in [Wallets -> WalletStates]
  BY <1>1, <1>4, <1>7, <1>8
<1> QED
  BY <1>4, <1>6, <1>9, <1>10 DEF TypeOK, CyclesCapped, a, u

\* Annotating again changes annotations of one token in one window.
LEMMA ReAnnotateWindow ==
  ASSUME TypeOK, CyclesCapped, NEW v \in Wallets, ReAnnotateWallet(v)
  PROVE  /\ wallets' \in [Wallets -> WalletStates]
         /\ \A w \in Wallets :
              /\ Len(wallets'[w].recent) <= RecentWindow /\ Len(wallets'[w].cycles) <= MaxCycles
              /\ DOMAIN wallets'[w].recent = DOMAIN wallets[w].recent
              /\ \A i \in DOMAIN wallets[w].recent :
                   wallets'[w].recent[i] =
                     IF w = v /\ wallets[w].recent[i].trade.mint = trade.mint
                       THEN Annotate(wallets[w].recent[i].trade, trade.slot)
                       ELSE wallets[w].recent[i]
<1>1. /\ trade.mint \in Mints /\ trade.slot \in Nat
      /\ wallets \in [Wallets -> WalletStates] /\ wallets[v] \in WalletStates
      /\ \A w \in Wallets : Len(wallets[w].recent) <= RecentWindow /\ Len(wallets[w].cycles) <= MaxCycles
  BY TradeType DEF TypeOK, CyclesCapped
<1>2. CASE Tracked(wallets[v])
  <2> DEFINE x == ReAnnotateToken(wallets[v], trade.mint, trade.slot)
  <2>1. /\ x \in WalletStates
        /\ x.cycles = wallets[v].cycles
        /\ Len(x.recent) = Len(wallets[v].recent)
        /\ DOMAIN x.recent = DOMAIN wallets[v].recent
        /\ \A i \in DOMAIN wallets[v].recent :
             x.recent[i] = IF wallets[v].recent[i].trade.mint = trade.mint
                             THEN Annotate(wallets[v].recent[i].trade, trade.slot)
                             ELSE wallets[v].recent[i]
    BY <1>1, ReAnnotateTokenFacts
  <2>2. wallets' = [wallets EXCEPT ![v] = x]
    BY <1>2 DEF ReAnnotateWallet
  <2> HIDE DEF x
  <2>3. wallets'[v] = x /\ \A w \in Wallets : w # v => wallets'[w] = wallets[w]
    BY <1>1, <2>2
  <2>4. wallets' \in [Wallets -> WalletStates]
    BY <1>1, <2>1, <2>2
  <2> QED
    BY <1>1, <2>1, <2>3, <2>4
<1>3. CASE ~Tracked(wallets[v])
  <2>1. wallets' = wallets /\ wallets[v].recent = << >>
    BY <1>3 DEF ReAnnotateWallet, Tracked
  <2> QED
    BY <1>1, <2>1
<1> QED
  BY <1>2, <1>3

\* A wallet that is evicted has an empty window.
LEMMA EvictWindow ==
  ASSUME TypeOK, CyclesCapped, NEW v \in Wallets, EvictWallet(v)
  PROVE  /\ wallets' \in [Wallets -> WalletStates]
         /\ \A w \in Wallets : Len(wallets'[w].recent) <= RecentWindow /\ Len(wallets'[w].cycles) <= MaxCycles
         /\ \A w \in Wallets : \A i \in DOMAIN wallets'[w].recent : wallets'[w] = wallets[w]
<1>1. /\ NewWallet \in WalletStates /\ NewWallet.recent = << >> /\ NewWallet.cycles = << >>
  BY NewWalletType DEF NewWallet
<1>2. wallets' = [wallets EXCEPT ![v] = NewWallet] /\ wallets \in [Wallets -> WalletStates]
  BY DEF EvictWallet, TypeOK
<1>3. wallets'[v] = NewWallet /\ \A w \in Wallets : w # v => wallets'[w] = wallets[w]
  BY <1>2
<1>4. wallets' \in [Wallets -> WalletStates]
  BY <1>1, <1>2
<1>5. ASSUME NEW w \in Wallets
      PROVE  /\ Len(wallets'[w].recent) <= RecentWindow /\ Len(wallets'[w].cycles) <= MaxCycles
             /\ \A i \in DOMAIN wallets'[w].recent : wallets'[w] = wallets[w]
  <2>1. CASE w = v
    <3>1. wallets'[w].recent = << >> /\ wallets'[w].cycles = << >>
      BY <1>1, <1>3, <2>1
    <3> QED
      BY <3>1, WindowAssumption
  <2>2. CASE w # v
    BY <1>3, <2>2 DEF TypeOK, CyclesCapped
  <2> QED
    BY <2>1, <2>2
<1> QED
  BY <1>4, <1>5

\* What is in a window.
LEMMA WindowType ==
  ASSUME TypeOK, NEW w \in Wallets, NEW i \in DOMAIN wallets[w].recent
  PROVE  /\ wallets[w].recent[i] \in Annotated
         /\ wallets[w].recent[i].trade \in Trades
         /\ wallets[w].recent[i].trade.mint \in Mints
         /\ wallets[w].recent[i].trade.slot \in Nat
         /\ wallets[w].recent[i].delta \in Int
<1>1. wallets[w].recent \in Seq(Annotated)
  BY DEF TypeOK, WalletStates
<1>2. wallets[w].recent[i] \in Annotated
  BY <1>1
<1>3. wallets[w].recent[i].trade \in Trades /\ wallets[w].recent[i].delta \in Nat \cup {None}
  BY <1>2 DEF Annotated
<1> QED
  BY <1>2, <1>3, TradeType DEF None

\* The distance from a T0 that is no higher is their difference.
LEMMA AnnotateFacts ==
  ASSUME NEW t \in Trades, NEW T \in Slots, T <= t.slot
  PROVE  Annotate(t, T).trade = t /\ Annotate(t, T).delta = t.slot - T
<1>1. t.slot \in Nat /\ T \in Nat /\ T # None
  BY TradeType, SlotsType
<1>2. Annotate(t, T) = [trade |-> t, delta |-> SatSub(t.slot, T), class |-> Classify(SatSub(t.slot, T))]
  BY <1>1 DEF Annotate
<1>3. SatSub(t.slot, T) = t.slot - T
  BY <1>1 DEF SatSub
<1> QED
  BY <1>2, <1>3

-----------------------------------------------------------------------------
(* One lemma per step.                                                     *)

LEMMA ObserveKeeps == ASSUME IInv, NEW t \in Trades, Observe(t) PROVE IInv'
<1>0. /\ TypeOK /\ CyclesCapped /\ CallOK /\ WindowsObserved /\ BuyersIndexed /\ AnnotationsCurrent
      /\ t.mint \in Mints /\ t.slot \in Nat
  BY TradeType DEF IInv
<1>1. /\ pc = "idle" /\ pc' = "lookup" /\ trade' = t /\ count' = count + 1
      /\ UNCHANGED <<wallets, buys, t0, affected, disturbed>>
  BY DEF Observe
<1>2. /\ registry' \in [Mints -> Slots \cup {None}]
      /\ outcome' \in Reg!Outcomes
      /\ registry'[t.mint] \in Slots /\ registry'[t.mint] <= t.slot
      /\ outcome' = "revised" => registry'[t.mint] = t.slot
      /\ outcome' # "revised" /\ registry[t.mint] # None => registry'[t.mint] = registry[t.mint]
      /\ registry[t.mint] # None => registry'[t.mint] <= registry[t.mint]
      /\ \A m \in Mints : m # t.mint => registry'[m] = registry[m]
  BY <1>0, ObserveFacts
<1>3. TypeOK' /\ CyclesCapped'
  <2>1. wallets' \in [Wallets -> WalletStates] /\ buys' \in [Mints -> Seq([wallet : Wallets, slot : Slots, tx : Nat])]
    BY <1>0, <1>1 DEF TypeOK
  <2>2. /\ \A w \in Wallets : Len(wallets'[w].recent) <= RecentWindow /\ Len(wallets'[w].cycles) <= MaxCycles
        /\ \A m \in Mints : Len(buys'[m]) <= BuyCap
    BY <1>0, <1>1 DEF TypeOK, CyclesCapped
  <2>3. /\ pc' \in {"idle", "lookup", "ingest", "index", "collect", "reannotate"}
        /\ trade' \in Trades /\ t0' \in Slots \cup {None} /\ affected' \subseteq Wallets
        /\ count' \in Nat /\ disturbed' \subseteq Mints
    BY <1>0, <1>1 DEF TypeOK
  <2> QED
    BY <1>2, <2>1, <2>2, <2>3 DEF TypeOK, CyclesCapped
<1>4. CallOK'
  BY <1>1, <1>2 DEF CallOK
<1>5. WindowsObserved'
  <2> SUFFICES ASSUME NEW w \in Wallets, NEW i \in DOMAIN wallets[w].recent,
                      wallets[w].recent[i].trade.mint \notin disturbed
               PROVE  Observed(wallets[w].recent[i])'
    BY <1>1 DEF WindowsObserved
  <2> DEFINE a == wallets[w].recent[i]
             m == a.trade.mint
  <2>1. m \in Mints /\ a.trade.slot \in Nat /\ a.delta \in Int /\ a' = a
    BY <1>0, <1>1, WindowType
  <2>2. registry[m] \in Slots /\ registry[m] <= a.trade.slot /\ a.delta <= a.trade.slot - registry[m]
    BY <1>0 DEF WindowsObserved, Observed
  <2>3. registry'[m] \in Slots /\ registry'[m] <= registry[m]
    <3>1. registry[m] \in Nat /\ registry[m] # None
      BY <2>2, SlotsType
    <3>2. CASE m = t.mint
      BY <1>2, <3>1, <3>2
    <3>3. CASE m # t.mint
      BY <1>2, <2>1, <2>2, <3>1, <3>3
    <3> QED
      BY <3>2, <3>3
  <2>4. registry[m] \in Nat /\ registry'[m] \in Nat
    BY <2>2, <2>3, SlotsType
  <2> HIDE DEF m
  <2>5. registry'[m] <= a.trade.slot /\ a.delta <= a.trade.slot - registry'[m]
    BY <2>1, <2>2, <2>3, <2>4
  <2> QED
    BY <2>1, <2>3, <2>5 DEF Observed, m
<1>6. BuyersIndexed'
  BY <1>0, <1>1 DEF BuyersIndexed
<1>7. AnnotationsCurrent'
  <2> SUFFICES ASSUME NEW m \in Mints \ disturbed', NEW w \in Wallets, ~Pending(w, m)',
                      NEW i \in BuysIn(wallets'[w].recent), wallets'[w].recent[i].trade.mint = m
               PROVE  Current(wallets[w].recent[i])'
    BY DEF AnnotationsCurrent
  <2>1. ~(outcome' = "revised" /\ t.mint = m)
    BY <1>1 DEF Pending
  <2>2. ~Pending(w, m)
    BY <1>1 DEF Pending
  <2>3. Current(wallets[w].recent[i]) /\ wallets[w].recent[i].trade.mint = m
    BY <1>0, <1>1, <2>2 DEF AnnotationsCurrent
  <2>4. registry[m] # None
    BY <2>3 DEF Current
  <2>5. registry'[m] = registry[m]
    BY <1>2, <2>1, <2>4
  <2> QED
    BY <1>1, <2>3, <2>5 DEF Current
<1> QED
  BY <1>3, <1>4, <1>5, <1>6, <1>7 DEF IInv

LEMMA LookUpKeeps == ASSUME IInv, LookUp PROVE IInv'
<1>0. /\ TypeOK /\ CyclesCapped /\ CallOK /\ WindowsObserved /\ BuyersIndexed /\ AnnotationsCurrent
      /\ trade.mint \in Mints
  BY TradeType DEF IInv, TypeOK
<1>1. /\ pc = "lookup" /\ pc' = "ingest" /\ t0' = registry[trade.mint]
      /\ UNCHANGED <<registry, outcome, wallets, buys, trade, affected, count, disturbed>>
  BY DEF LookUp
<1>2. TypeOK' /\ CyclesCapped'
  BY <1>0, <1>1 DEF TypeOK, CyclesCapped
<1>3. CallOK'
  BY <1>0, <1>1 DEF CallOK
<1>4. WindowsObserved' /\ BuyersIndexed'
  BY <1>0, <1>1 DEF WindowsObserved, Observed, BuyersIndexed
<1>5. AnnotationsCurrent'
  BY <1>0, <1>1 DEF AnnotationsCurrent, Pending, Current
<1> QED
  BY <1>2, <1>3, <1>4, <1>5 DEF IInv

LEMMA IngestKeeps == ASSUME IInv, Ingest PROVE IInv'
<1>0. /\ TypeOK /\ CyclesCapped /\ CallOK /\ WindowsObserved /\ BuyersIndexed /\ AnnotationsCurrent
      /\ trade \in Trades /\ t0 \in Nat \cup {None}
  BY SlotsType DEF IInv, TypeOK
<1>1. /\ pc = "ingest" /\ pc' = IF trade.is_buy THEN "index" ELSE AfterIngest
      /\ UNCHANGED <<registry, outcome, buys, trade, t0, affected, count, disturbed>>
  BY DEF Ingest
<1> DEFINE x == Annotate(trade, t0)
<1>2. x.trade = trade
  BY <1>0, AnnotateType
<1>3. /\ wallets' \in [Wallets -> WalletStates]
      /\ \A w \in Wallets : Len(wallets'[w].recent) <= RecentWindow /\ Len(wallets'[w].cycles) <= MaxCycles
      /\ \A w \in Wallets : \A i \in DOMAIN wallets'[w].recent :
           \/ w = trade.wallet /\ wallets'[w].recent[i] = x
           \/ \E j \in DOMAIN wallets[w].recent : wallets'[w].recent[i] = wallets[w].recent[j]
  BY <1>0, IngestWindow
<1>4. trade.mint \notin disturbed =>
        /\ t0 = registry[trade.mint] /\ t0 \in Slots /\ t0 <= trade.slot
  BY <1>0, <1>1 DEF CallOK
<1>5. trade.mint \notin disturbed => x.delta = trade.slot - t0
  BY <1>0, <1>4, AnnotateFacts
<1>6. trade.mint \notin disturbed => Observed(x) /\ Current(x)
  <2> SUFFICES ASSUME trade.mint \notin disturbed PROVE Observed(x) /\ Current(x)
    OBVIOUS
  <2>1. trade.slot \in Nat /\ t0 \in Nat /\ t0 # None
    BY <1>0, <1>4, TradeType, SlotsType
  <2>2. x.delta <= trade.slot - t0
    BY <1>5, <2>1
  <2>3. x = Annotate(x.trade, registry[x.trade.mint])
    BY <1>2, <1>4
  <2> HIDE DEF x
  <2> QED
    BY <1>2, <1>4, <2>1, <2>2, <2>3 DEF Observed, Current
<1> HIDE DEF x
<1>7. TypeOK' /\ CyclesCapped'
  BY <1>0, <1>1, <1>3 DEF TypeOK, CyclesCapped, AfterIngest
<1>8. CallOK'
  BY <1>0, <1>1 DEF CallOK, AfterIngest
<1>9. WindowsObserved'
  <2> SUFFICES ASSUME NEW w \in Wallets, NEW i \in DOMAIN wallets'[w].recent,
                      wallets'[w].recent[i].trade.mint \notin disturbed
               PROVE  Observed(wallets[w].recent[i])'
    BY <1>1 DEF WindowsObserved
  <2>1. Observed(wallets'[w].recent[i])
    BY <1>0, <1>2, <1>3, <1>6 DEF WindowsObserved
  <2> QED
    BY <1>1, <2>1 DEF Observed
<1>10. BuyersIndexed'
  <2> SUFFICES ASSUME NEW m \in Mints \ disturbed, NEW w \in Wallets,
                      NEW i \in BuysIn(wallets'[w].recent), wallets'[w].recent[i].trade.mint = m
               PROVE  \/ w \in BuyersIn(buys[m])
                      \/ pc' = "index" /\ trade.wallet = w /\ trade.mint = m
    BY <1>1 DEF BuyersIndexed
  <2>1. i \in DOMAIN wallets'[w].recent /\ wallets'[w].recent[i].trade.is_buy
    BY DEF BuysIn
  <2>2. CASE w = trade.wallet /\ wallets'[w].recent[i] = x
    BY <1>1, <1>2, <2>1, <2>2
  <2>3. ASSUME NEW j \in DOMAIN wallets[w].recent, wallets'[w].recent[i] = wallets[w].recent[j]
        PROVE  w \in BuyersIn(buys[m])
    <3>1. j \in BuysIn(wallets[w].recent) /\ wallets[w].recent[j].trade.mint = m
      BY <2>1, <2>3 DEF BuysIn
    <3> QED
      BY <1>0, <1>1, <3>1 DEF BuyersIndexed
  <2> QED
    BY <1>3, <2>1, <2>2, <2>3
<1>11. AnnotationsCurrent'
  <2> SUFFICES ASSUME NEW m \in Mints \ disturbed', NEW w \in Wallets, ~Pending(w, m)',
                      NEW i \in BuysIn(wallets'[w].recent), wallets'[w].recent[i].trade.mint = m
               PROVE  Current(wallets[w].recent[i])'
    BY DEF AnnotationsCurrent
  <2>1. i \in DOMAIN wallets'[w].recent /\ wallets'[w].recent[i].trade.is_buy
    BY DEF BuysIn
  <2>2. ~Pending(w, m) /\ m \in Mints \ disturbed
    BY <1>1 DEF Pending, AfterIngest
  <2>3. Current(wallets'[w].recent[i])
    <3>1. CASE w = trade.wallet /\ wallets'[w].recent[i] = x
      BY <1>2, <1>6, <2>2, <3>1
    <3>2. ASSUME NEW j \in DOMAIN wallets[w].recent, wallets'[w].recent[i] = wallets[w].recent[j]
          PROVE  Current(wallets'[w].recent[i])
      <4>1. j \in BuysIn(wallets[w].recent) /\ wallets[w].recent[j].trade.mint = m
        BY <2>1, <3>2 DEF BuysIn
      <4>2. Current(wallets[w].recent[j])
        BY <1>0, <2>2, <4>1 DEF AnnotationsCurrent
      <4> QED
        BY <3>2, <4>2
    <3> QED
      BY <1>3, <2>1, <3>1, <3>2
  <2> QED
    BY <1>1, <2>3 DEF Current
<1> QED
  BY <1>7, <1>8, <1>9, <1>10, <1>11 DEF IInv

LEMMA IndexKeeps == ASSUME IInv, Index PROVE IInv'
<1>0. /\ TypeOK /\ CyclesCapped /\ CallOK /\ WindowsObserved /\ BuyersIndexed /\ AnnotationsCurrent
      /\ trade \in Trades /\ trade.mint \in Mints
  BY TradeType DEF IInv, TypeOK
<1> DEFINE Entries == [wallet : Wallets, slot : Slots, tx : Nat]
<1>1. /\ pc = "index" /\ pc' = IF outcome = "revised" THEN "collect" ELSE "idle"
      /\ disturbed' = IF Len(buys[trade.mint]) = BuyCap THEN disturbed \cup {trade.mint} ELSE disturbed
      /\ UNCHANGED <<registry, outcome, wallets, trade, t0, affected, count>>
  BY DEF Index, AfterIngest
<1>2. disturbed \subseteq disturbed' /\ disturbed' \subseteq Mints
  BY <1>0, <1>1 DEF TypeOK
<1>3. PICK list \in Indexed(buys[trade.mint], EntryOf(trade)) :
        buys' = [buys EXCEPT ![trade.mint] = list]
  BY DEF Index
<1>4. EntryOf(trade) \in Entries /\ EntryOf(trade).wallet = trade.wallet
  BY <1>0, TradeType DEF EntryOf
<1>5. buys \in [Mints -> Seq(Entries)] /\ \A m \in Mints : Len(buys[m]) <= BuyCap
  BY <1>0 DEF TypeOK
<1> HIDE DEF Entries
<1>6. /\ list \in Seq(Entries) /\ Len(list) <= BuyCap
      /\ Len(buys[trade.mint]) # BuyCap =>
           BuyersIn(buys[trade.mint]) \subseteq BuyersIn(list) /\ trade.wallet \in BuyersIn(list)
  BY <1>0, <1>4, <1>5, IndexedFacts
<1>7. buys'[trade.mint] = list /\ \A m \in Mints : m # trade.mint => buys'[m] = buys[m]
  BY <1>0, <1>3, <1>5
<1>8. TypeOK' /\ CyclesCapped'
  <2>1. buys' \in [Mints -> Seq(Entries)] /\ \A m \in Mints : Len(buys'[m]) <= BuyCap
    BY <1>0, <1>3, <1>5, <1>6, <1>7
  <2>2. wallets' \in [Wallets -> WalletStates] /\ registry' \in [Mints -> Slots \cup {None}]
        /\ outcome' \in Reg!Outcomes
    BY <1>0, <1>1 DEF TypeOK
  <2>3. \A w \in Wallets : Len(wallets'[w].recent) <= RecentWindow /\ Len(wallets'[w].cycles) <= MaxCycles
    BY <1>0, <1>1 DEF TypeOK, CyclesCapped
  <2>4. /\ pc' \in {"idle", "lookup", "ingest", "index", "collect", "reannotate"}
        /\ trade' \in Trades /\ t0' \in Slots \cup {None} /\ affected' \subseteq Wallets
        /\ count' \in Nat
    BY <1>0, <1>1 DEF TypeOK
  <2> QED
    BY <1>2, <2>1, <2>2, <2>3, <2>4 DEF TypeOK, CyclesCapped, Entries
<1>9. CallOK'
  BY <1>0, <1>1, <1>2 DEF CallOK
<1>10. WindowsObserved'
  BY <1>0, <1>1, <1>2 DEF WindowsObserved, Observed
<1>11. BuyersIndexed'
  <2> SUFFICES ASSUME NEW m \in Mints \ disturbed', NEW w \in Wallets,
                      NEW i \in BuysIn(wallets[w].recent), wallets[w].recent[i].trade.mint = m
               PROVE  w \in BuyersIn(buys'[m])
    BY <1>1 DEF BuyersIndexed
  <2>1. w \in BuyersIn(buys[m]) \/ (trade.wallet = w /\ trade.mint = m)
    BY <1>0, <1>2 DEF BuyersIndexed
  <2>2. m = trade.mint => Len(buys[trade.mint]) # BuyCap
    BY <1>1
  <2> QED
    BY <1>6, <1>7, <2>1, <2>2
<1>12. AnnotationsCurrent'
  <2> SUFFICES ASSUME NEW m \in Mints \ disturbed', NEW w \in Wallets, ~Pending(w, m)',
                      NEW i \in BuysIn(wallets[w].recent), wallets[w].recent[i].trade.mint = m
               PROVE  Current(wallets[w].recent[i])'
    BY <1>1 DEF AnnotationsCurrent
  <2>1. ~Pending(w, m) /\ m \in Mints \ disturbed
    BY <1>1, <1>2 DEF Pending
  <2>2. Current(wallets[w].recent[i])
    BY <1>0, <2>1 DEF AnnotationsCurrent
  <2> QED
    BY <1>1, <2>2 DEF Current
<1> QED
  BY <1>8, <1>9, <1>10, <1>11, <1>12 DEF IInv

LEMMA CollectKeeps == ASSUME IInv, Collect PROVE IInv'
<1>0. /\ TypeOK /\ CyclesCapped /\ CallOK /\ WindowsObserved /\ BuyersIndexed /\ AnnotationsCurrent
      /\ trade \in Trades /\ trade.mint \in Mints
  BY TradeType DEF IInv, TypeOK
<1>1. /\ pc = "collect" /\ pc' = "reannotate" /\ affected' = BuyersIn(buys[trade.mint])
      /\ UNCHANGED <<registry, outcome, wallets, buys, trade, t0, count, disturbed>>
  BY DEF Collect
<1>2. affected' \subseteq Wallets
  <2> DEFINE Entries == [wallet : Wallets, slot : Slots, tx : Nat]
             list == buys[trade.mint]
  <2>1. list \in Seq(Entries)
    BY <1>0 DEF TypeOK
  <2>2. \A e \in Entries : e.wallet \in Wallets
    OBVIOUS
  <2> HIDE DEF Entries, list
  <2>3. \A i \in DOMAIN list : list[i] \in Entries
    BY <2>1
  <2>4. \A i \in DOMAIN list : list[i].wallet \in Wallets
    BY <2>2, <2>3
  <2> QED
    BY <1>1, <2>4 DEF BuyersIn, list
<1>3. TypeOK' /\ CyclesCapped'
  BY <1>0, <1>1, <1>2 DEF TypeOK, CyclesCapped
<1>4. CallOK'
  BY <1>0, <1>1 DEF CallOK
<1>5. WindowsObserved' /\ BuyersIndexed'
  BY <1>0, <1>1 DEF WindowsObserved, Observed, BuyersIndexed
<1>6. AnnotationsCurrent'
  <2> SUFFICES ASSUME NEW m \in Mints \ disturbed, NEW w \in Wallets, ~Pending(w, m)',
                      NEW i \in BuysIn(wallets[w].recent), wallets[w].recent[i].trade.mint = m
               PROVE  Current(wallets[w].recent[i])
    BY <1>1 DEF AnnotationsCurrent, Current
  <2>1. w \in BuyersIn(buys[m])
    BY <1>0, <1>1 DEF BuyersIndexed
  <2>2. ~Pending(w, m)
    BY <1>1, <2>1 DEF Pending
  <2> QED
    BY <1>0, <2>2 DEF AnnotationsCurrent
<1> QED
  BY <1>3, <1>4, <1>5, <1>6 DEF IInv

LEMMA ReAnnotateKeeps == ASSUME IInv, NEW v \in Wallets, ReAnnotateWallet(v) PROVE IInv'
<1>0. /\ TypeOK /\ CyclesCapped /\ CallOK /\ WindowsObserved /\ BuyersIndexed /\ AnnotationsCurrent
      /\ trade \in Trades /\ trade.mint \in Mints /\ trade.slot \in Slots
  BY TradeType DEF IInv, TypeOK
<1>1. /\ pc = "reannotate" /\ affected' = affected \ {v}
      /\ UNCHANGED <<registry, outcome, buys, pc, trade, t0, count, disturbed>>
  BY DEF ReAnnotateWallet
<1>2. /\ wallets' \in [Wallets -> WalletStates]
      /\ \A w \in Wallets :
           /\ Len(wallets'[w].recent) <= RecentWindow /\ Len(wallets'[w].cycles) <= MaxCycles
           /\ DOMAIN wallets'[w].recent = DOMAIN wallets[w].recent
           /\ \A i \in DOMAIN wallets[w].recent :
                wallets'[w].recent[i] =
                  IF w = v /\ wallets[w].recent[i].trade.mint = trade.mint
                    THEN Annotate(wallets[w].recent[i].trade, trade.slot)
                    ELSE wallets[w].recent[i]
  BY <1>0, ReAnnotateWindow
<1>3. trade.mint \notin disturbed => registry[trade.mint] = trade.slot /\ outcome = "revised"
  BY <1>0, <1>1 DEF CallOK
<1>4. \A w \in Wallets : \A i \in DOMAIN wallets[w].recent :
        wallets'[w].recent[i].trade = wallets[w].recent[i].trade
  <2> TAKE w \in Wallets
  <2> TAKE i \in DOMAIN wallets[w].recent
  <2>1. wallets[w].recent[i].trade \in Trades
    BY <1>0, WindowType
  <2>2. trade.slot \in Nat \cup {None}
    BY <1>0, SlotsType
  <2>3. Annotate(wallets[w].recent[i].trade, trade.slot).trade = wallets[w].recent[i].trade
    BY <2>1, <2>2, AnnotateType
  <2> QED
    BY <1>2, <2>3
<1>5. \A w \in Wallets : BuysIn(wallets'[w].recent) = BuysIn(wallets[w].recent)
  BY <1>2, <1>4 DEF BuysIn
<1>6. TypeOK' /\ CyclesCapped'
  BY <1>0, <1>1, <1>2 DEF TypeOK, CyclesCapped
<1>7. CallOK'
  BY <1>0, <1>1 DEF CallOK
<1>8. WindowsObserved'
  <2> SUFFICES ASSUME NEW w \in Wallets, NEW i \in DOMAIN wallets[w].recent,
                      wallets[w].recent[i].trade.mint \notin disturbed
               PROVE  Observed(wallets[w].recent[i])'
    BY <1>1, <1>2, <1>4 DEF WindowsObserved
  <2> DEFINE a == wallets[w].recent[i]
             b == wallets'[w].recent[i]
  <2>1. Observed(a) /\ a.trade \in Trades /\ a.trade.mint \notin disturbed
    BY <1>0, WindowType DEF WindowsObserved
  <2>2. registry[a.trade.mint] \in Slots /\ registry[a.trade.mint] <= a.trade.slot
        /\ a.delta <= a.trade.slot - registry[a.trade.mint]
    BY <2>1 DEF Observed
  <2>3. b.trade = a.trade
    BY <1>4
  <2>4. b.delta <= a.trade.slot - registry[a.trade.mint]
    <3>1. CASE w = v /\ a.trade.mint = trade.mint
      <4>1. registry[a.trade.mint] = trade.slot
        BY <1>3, <2>1, <3>1
      <4>2. b = Annotate(a.trade, trade.slot)
        BY <1>2, <3>1
      <4>3. b.delta = a.trade.slot - trade.slot
        BY <1>0, <2>1, <2>2, <4>1, <4>2, AnnotateFacts
      <4>4. a.trade.slot \in Nat /\ trade.slot \in Nat
        BY <1>0, <2>1, TradeType
      <4> HIDE DEF a, b
      <4> QED
        BY <4>1, <4>3, <4>4
    <3>2. CASE ~(w = v /\ a.trade.mint = trade.mint)
      BY <1>2, <2>2, <3>2
    <3> QED
      BY <3>1, <3>2
  <2>5. Observed(b)
    BY <2>2, <2>3, <2>4 DEF Observed
  <2> QED
    BY <1>1, <2>5 DEF Observed
<1>9. BuyersIndexed'
  BY <1>0, <1>1, <1>2, <1>4, <1>5 DEF BuyersIndexed, BuysIn
<1>10. AnnotationsCurrent'
  <2> SUFFICES ASSUME NEW m \in Mints \ disturbed, NEW w \in Wallets, ~Pending(w, m)',
                      NEW i \in BuysIn(wallets[w].recent), wallets[w].recent[i].trade.mint = m
               PROVE  Current(wallets[w].recent[i])'
    BY <1>1, <1>4, <1>5 DEF AnnotationsCurrent, BuysIn
  <2> DEFINE a == wallets[w].recent[i]
             b == wallets'[w].recent[i]
  <2>0. i \in DOMAIN wallets[w].recent /\ b.trade = a.trade
    BY <1>4 DEF BuysIn
  <2>1. CASE w = v /\ m = trade.mint
    <3>1. registry[m] = trade.slot /\ b = Annotate(a.trade, registry[m])
      BY <1>2, <1>3, <2>0, <2>1
    <3>2. registry[m] # None /\ registry[m] <= a.trade.slot
      <4>1. Observed(a)
        BY <1>0, <2>0 DEF WindowsObserved
      <4> QED
        BY <4>1, SlotsType DEF Observed
    <3>3. Current(b)
      BY <2>0, <3>1, <3>2 DEF Current
    <3> QED
      BY <1>1, <3>3 DEF Current
  <2>2. CASE ~(w = v /\ m = trade.mint)
    <3>1. ~Pending(w, m)
      BY <1>1, <2>2 DEF Pending
    <3>2. Current(a) /\ b = a
      BY <1>0, <1>2, <2>0, <2>2, <3>1 DEF AnnotationsCurrent
    <3> QED
      BY <1>1, <3>2 DEF Current
  <2> QED
    BY <2>1, <2>2
<1> QED
  BY <1>6, <1>7, <1>8, <1>9, <1>10 DEF IInv

LEMMA ReturnKeeps == ASSUME IInv, Return PROVE IInv'
<1>0. TypeOK /\ CyclesCapped /\ CallOK /\ WindowsObserved /\ BuyersIndexed /\ AnnotationsCurrent
  BY DEF IInv
<1>1. /\ pc = "reannotate" /\ affected = {} /\ pc' = "idle"
      /\ UNCHANGED <<registry, outcome, wallets, buys, trade, t0, affected, count, disturbed>>
  BY DEF Return
<1>2. TypeOK' /\ CyclesCapped'
  BY <1>0, <1>1 DEF TypeOK, CyclesCapped
<1>3. CallOK'
  BY <1>0, <1>1 DEF CallOK
<1>4. WindowsObserved' /\ BuyersIndexed'
  BY <1>0, <1>1 DEF WindowsObserved, Observed, BuyersIndexed
<1>5. AnnotationsCurrent'
  BY <1>0, <1>1 DEF AnnotationsCurrent, Pending, Current
<1> QED
  BY <1>2, <1>3, <1>4, <1>5 DEF IInv

LEMMA EvictTokenKeeps == ASSUME IInv, NEW n \in Mints, EvictToken(n) PROVE IInv'
<1>0. /\ TypeOK /\ CyclesCapped /\ CallOK /\ WindowsObserved /\ BuyersIndexed /\ AnnotationsCurrent
      /\ trade.mint \in Mints
  BY TradeType DEF IInv, TypeOK
<1>1. /\ registry' = [registry EXCEPT ![n] = None] /\ disturbed' = disturbed \cup {n}
      /\ UNCHANGED <<outcome, wallets, buys, pc, trade, t0, affected, count>>
  BY DEF EvictToken, Reg!Forget, Reg!None, None
<1>2. /\ registry' \in [Mints -> Slots \cup {None}]
      /\ \A m \in Mints \ disturbed' : registry'[m] = registry[m] /\ m \notin disturbed
  BY <1>0, <1>1 DEF TypeOK
<1>3. TypeOK' /\ CyclesCapped'
  BY <1>0, <1>1, <1>2 DEF TypeOK, CyclesCapped
<1>4. CallOK'
  BY <1>0, <1>1, <1>2 DEF CallOK
<1>5. WindowsObserved'
  <2> SUFFICES ASSUME NEW w \in Wallets, NEW i \in DOMAIN wallets[w].recent,
                      wallets[w].recent[i].trade.mint \notin disturbed'
               PROVE  Observed(wallets[w].recent[i])'
    BY <1>1 DEF WindowsObserved
  <2>1. wallets[w].recent[i].trade.mint \in Mints \ disturbed'
    BY <1>0, WindowType
  <2>2. Observed(wallets[w].recent[i])
    BY <1>0, <1>2, <2>1 DEF WindowsObserved
  <2> QED
    BY <1>1, <1>2, <2>1, <2>2 DEF Observed
<1>6. BuyersIndexed'
  BY <1>0, <1>1, <1>2 DEF BuyersIndexed
<1>7. AnnotationsCurrent'
  <2> SUFFICES ASSUME NEW m \in Mints \ disturbed', NEW w \in Wallets, ~Pending(w, m)',
                      NEW i \in BuysIn(wallets[w].recent), wallets[w].recent[i].trade.mint = m
               PROVE  Current(wallets[w].recent[i])'
    BY <1>1 DEF AnnotationsCurrent
  <2>1. ~Pending(w, m)
    BY <1>1 DEF Pending
  <2>2. Current(wallets[w].recent[i])
    BY <1>0, <1>2, <2>1 DEF AnnotationsCurrent
  <2> QED
    BY <1>1, <1>2, <2>2 DEF Current
<1> QED
  BY <1>3, <1>4, <1>5, <1>6, <1>7 DEF IInv

LEMMA EvictBuysKeeps == ASSUME IInv, NEW n \in Mints, EvictBuys(n) PROVE IInv'
<1>0. /\ TypeOK /\ CyclesCapped /\ CallOK /\ WindowsObserved /\ BuyersIndexed /\ AnnotationsCurrent
      /\ trade.mint \in Mints
  BY TradeType DEF IInv, TypeOK
<1> DEFINE Entries == [wallet : Wallets, slot : Slots, tx : Nat]
<1>1. /\ buys' = [buys EXCEPT ![n] = << >>] /\ disturbed' = disturbed \cup {n}
      /\ UNCHANGED <<registry, outcome, wallets, pc, trade, t0, affected, count>>
  BY DEF EvictBuys
<1>2. buys \in [Mints -> Seq(Entries)] /\ \A m \in Mints : Len(buys[m]) <= BuyCap
  BY <1>0 DEF TypeOK
<1> HIDE DEF Entries
<1>3. buys'[n] = << >> /\ \A m \in Mints : m # n => buys'[m] = buys[m]
  BY <1>1, <1>2
<1>4. buys' \in [Mints -> Seq(Entries)] /\ \A m \in Mints : Len(buys'[m]) <= BuyCap
  BY <1>1, <1>2, <1>3, BuyIndexAssumption
<1>5. TypeOK' /\ CyclesCapped'
  BY <1>0, <1>1, <1>4 DEF TypeOK, CyclesCapped, Entries
<1>6. CallOK'
  BY <1>0, <1>1 DEF CallOK
<1>7. WindowsObserved'
  BY <1>0, <1>1 DEF WindowsObserved, Observed
<1>8. BuyersIndexed'
  BY <1>0, <1>1, <1>3 DEF BuyersIndexed
<1>9. AnnotationsCurrent'
  BY <1>0, <1>1 DEF AnnotationsCurrent, Pending, Current
<1> QED
  BY <1>5, <1>6, <1>7, <1>8, <1>9 DEF IInv

LEMMA EvictWalletKeeps == ASSUME IInv, NEW v \in Wallets, EvictWallet(v) PROVE IInv'
<1>0. TypeOK /\ CyclesCapped /\ CallOK /\ WindowsObserved /\ BuyersIndexed /\ AnnotationsCurrent
  BY DEF IInv
<1>1. UNCHANGED <<registry, outcome, buys, pc, trade, t0, affected, count, disturbed>>
  BY DEF EvictWallet
<1>2. /\ wallets' \in [Wallets -> WalletStates]
      /\ \A w \in Wallets : Len(wallets'[w].recent) <= RecentWindow /\ Len(wallets'[w].cycles) <= MaxCycles
      /\ \A w \in Wallets : \A i \in DOMAIN wallets'[w].recent : wallets'[w] = wallets[w]
  BY <1>0, EvictWindow
<1>3. TypeOK' /\ CyclesCapped'
  BY <1>0, <1>1, <1>2 DEF TypeOK, CyclesCapped
<1>4. CallOK'
  BY <1>0, <1>1 DEF CallOK
<1>5. WindowsObserved'
  <2> SUFFICES ASSUME NEW w \in Wallets, NEW i \in DOMAIN wallets'[w].recent,
                      wallets'[w].recent[i].trade.mint \notin disturbed
               PROVE  Observed(wallets[w].recent[i])'
    BY <1>1 DEF WindowsObserved
  <2>1. Observed(wallets'[w].recent[i])
    BY <1>0, <1>2 DEF WindowsObserved
  <2> QED
    BY <1>1, <2>1 DEF Observed
<1>6. BuyersIndexed'
  <2> SUFFICES ASSUME NEW m \in Mints \ disturbed, NEW w \in Wallets,
                      NEW i \in BuysIn(wallets'[w].recent), wallets'[w].recent[i].trade.mint = m
               PROVE  \/ w \in BuyersIn(buys[m])
                      \/ pc = "index" /\ trade.wallet = w /\ trade.mint = m
    BY <1>1 DEF BuyersIndexed
  <2>1. wallets'[w] = wallets[w]
    BY <1>2 DEF BuysIn
  <2> QED
    BY <1>0, <2>1 DEF BuyersIndexed
<1>7. AnnotationsCurrent'
  <2> SUFFICES ASSUME NEW m \in Mints \ disturbed, NEW w \in Wallets, ~Pending(w, m)',
                      NEW i \in BuysIn(wallets'[w].recent), wallets'[w].recent[i].trade.mint = m
               PROVE  Current(wallets[w].recent[i])'
    BY <1>1 DEF AnnotationsCurrent
  <2>1. wallets'[w] = wallets[w]
    BY <1>2 DEF BuysIn
  <2>2. ~Pending(w, m)
    BY <1>1 DEF Pending
  <2>3. Current(wallets[w].recent[i])
    BY <1>0, <2>1, <2>2 DEF AnnotationsCurrent
  <2> QED
    BY <1>1, <2>1, <2>3 DEF Current
<1> QED
  BY <1>3, <1>4, <1>5, <1>6, <1>7 DEF IInv

-----------------------------------------------------------------------------
(* The invariant holds, and gives the properties.                          *)

LEMMA InitHolds == Init => IInv
<1> SUFFICES ASSUME Init PROVE IInv
  OBVIOUS
<1>1. /\ registry = [m \in Mints |-> None] /\ outcome = "none"
      /\ wallets = [w \in Wallets |-> NewWallet] /\ buys = [m \in Mints |-> << >>]
      /\ pc = "idle" /\ trade \in Trades /\ t0 = None /\ affected = {} /\ count = 0 /\ disturbed = {}
  BY DEF Init, Reg!AbsInit, Reg!None, None
<1>2. NewWallet \in WalletStates /\ NewWallet.recent = << >> /\ NewWallet.cycles = << >>
  BY NewWalletType DEF NewWallet
<1>3. \A w \in Wallets : wallets[w].recent = << >> /\ wallets[w].cycles = << >>
  BY <1>1, <1>2
<1>4. TypeOK /\ CyclesCapped
  <2>1. registry \in [Mints -> Slots \cup {None}] /\ outcome \in Reg!Outcomes
    BY <1>1 DEF Reg!Outcomes
  <2>2. wallets \in [Wallets -> WalletStates] /\ buys \in [Mints -> Seq([wallet : Wallets, slot : Slots, tx : Nat])]
    BY <1>1, <1>2
  <2>3. \A w \in Wallets : Len(wallets[w].recent) <= RecentWindow /\ Len(wallets[w].cycles) <= MaxCycles
    BY <1>3, WindowAssumption
  <2>4. \A m \in Mints : Len(buys[m]) <= BuyCap
    BY <1>1, BuyIndexAssumption
  <2> QED
    BY <1>1, <2>1, <2>2, <2>3, <2>4 DEF TypeOK, CyclesCapped
<1>5. CallOK
  BY <1>1 DEF CallOK
<1>6. WindowsObserved /\ BuyersIndexed /\ AnnotationsCurrent
  BY <1>3 DEF WindowsObserved, BuyersIndexed, AnnotationsCurrent, BuysIn
<1> QED
  BY <1>4, <1>5, <1>6 DEF IInv

LEMMA Stutters == ASSUME IInv, UNCHANGED vars PROVE IInv'
<1>0. /\ TypeOK /\ CyclesCapped /\ CallOK /\ WindowsObserved /\ BuyersIndexed /\ AnnotationsCurrent
      /\ UNCHANGED <<registry, outcome, wallets, buys, pc, trade, t0, affected, count, disturbed>>
  BY DEF IInv, vars
<1>1. TypeOK' /\ CyclesCapped' /\ CallOK'
  BY <1>0 DEF TypeOK, CyclesCapped, CallOK
<1>2. WindowsObserved' /\ BuyersIndexed'
  BY <1>0 DEF WindowsObserved, Observed, BuyersIndexed
<1>3. AnnotationsCurrent'
  BY <1>0 DEF AnnotationsCurrent, Pending, Current
<1> QED
  BY <1>1, <1>2, <1>3 DEF IInv

LEMMA NextKeeps == ASSUME IInv, [Next]_vars PROVE IInv'
<1>1. CASE ProcessTrade
  BY <1>1, ObserveKeeps, LookUpKeeps, IngestKeeps, IndexKeeps, CollectKeeps, ReAnnotateKeeps, ReturnKeeps
     DEF ProcessTrade
<1>2. CASE Evict
  BY <1>2, EvictTokenKeeps, EvictBuysKeeps, EvictWalletKeeps DEF Evict
<1>3. CASE UNCHANGED vars
  BY <1>3, Stutters
<1> QED
  BY <1>1, <1>2, <1>3 DEF Next, Bounded

LEMMA Inductive == Spec => []IInv
BY NextKeeps, InitHolds, PTL DEF Spec

\* The caches and the call in progress keep their types, windows and buy lists
\* their caps, whatever the caches evict (cache.rs:160-236, :471-518).
THEOREM TypeCorrect == Spec => []TypeOK
BY Inductive, PTL DEF IInv

\* Every buy in a window of a token whose entries have stayed is annotated from
\* the lowest slot seen, once the revision in progress has reached its wallet
\* (cache.rs:181-198, :301-345): in whatever order the trades arrive.
THEOREM Annotations == Spec => []AnnotationsCurrent
BY Inductive, PTL DEF IInv

\* The buy list names every wallet that holds a buy of the token: what step 6 of
\* process_trade takes for granted (cache.rs:301-303).
THEOREM Buyers == Spec => []BuyersIndexed
BY Inductive, PTL DEF IInv

\* process_trade and evictions use the registry as EarliestSlot promises it: every
\* step is one observation, one token forgotten, or nothing to the registry.
\* TokenCacheProofs shows that the registry's own steps, awaits included, keep
\* that promise (cache.rs:160-198, token_registry.rs:104-168).
THEOREM UsesEarliestSlot == Spec => Reg!AbsSpec
<1>1. Init => Reg!AbsInit
  BY DEF Init
<1>2. [Next]_vars => [Reg!AbsNext]_(Reg!absVars)
  <2> SUFFICES ASSUME [Next]_vars PROVE Reg!AbsNext \/ UNCHANGED <<registry, outcome>>
    BY DEF Reg!absVars
  <2>1. ASSUME NEW t \in Trades, Observe(t) PROVE Reg!AbsNext
    <3>1. t.mint \in Mints /\ t.slot \in Slots
      BY TradeType
    <3> QED
      BY <2>1, <3>1 DEF Observe, Reg!AbsNext
  <2>2. ASSUME NEW m \in Mints, EvictToken(m) PROVE Reg!AbsNext
    BY <2>2 DEF EvictToken, Reg!AbsNext
  <2>3. CASE \/ LookUp \/ Ingest \/ Index \/ Collect \/ Return \/ UNCHANGED vars
             \/ \E w \in Wallets : ReAnnotateWallet(w) \/ EvictWallet(w)
             \/ \E m \in Mints : EvictBuys(m)
    BY <2>3 DEF LookUp, Ingest, Index, Collect, Return, vars, ReAnnotateWallet, EvictWallet, EvictBuys
  <2> QED
    BY <2>1, <2>2, <2>3 DEF Next, ProcessTrade, Evict, Bounded
<1> QED
  BY <1>1, <1>2, PTL DEF Spec, Reg!AbsSpec

-----------------------------------------------------------------------------
DeltasKept ==
    pc = "reannotate" =>
      \A w \in Wallets : \A i \in DOMAIN wallets'[w].recent :
        wallets[w].recent[i].trade.mint \notin disturbed' =>
          wallets'[w].recent[i].delta >= wallets[w].recent[i].delta

\* Annotating a wallet again moves no trade closer to the launch: T0 was no
\* lower when the trade was annotated before (cache.rs:309-345).
LEMMA ReAnnotateGrows == ASSUME IInv, NEW v \in Wallets, ReAnnotateWallet(v) PROVE DeltasKept
<1>0. TypeOK /\ CyclesCapped /\ CallOK /\ WindowsObserved /\ trade \in Trades
  BY DEF IInv, TypeOK
<1>1. pc = "reannotate" /\ disturbed' = disturbed
  BY DEF ReAnnotateWallet
<1>2. \A w \in Wallets :
        /\ DOMAIN wallets'[w].recent = DOMAIN wallets[w].recent
        /\ \A i \in DOMAIN wallets[w].recent :
             wallets'[w].recent[i] =
               IF w = v /\ wallets[w].recent[i].trade.mint = trade.mint
                 THEN Annotate(wallets[w].recent[i].trade, trade.slot)
                 ELSE wallets[w].recent[i]
  BY <1>0, ReAnnotateWindow
<1> SUFFICES ASSUME NEW w \in Wallets, NEW i \in DOMAIN wallets[w].recent,
                    wallets[w].recent[i].trade.mint \notin disturbed
             PROVE  wallets'[w].recent[i].delta >= wallets[w].recent[i].delta
  BY <1>1, <1>2 DEF DeltasKept
<1> DEFINE a == wallets[w].recent[i]
           b == wallets'[w].recent[i]
<1>3. a.trade \in Trades /\ a.trade.mint \notin disturbed /\ a.delta \in Int /\ Observed(a)
  BY <1>0, WindowType DEF WindowsObserved
<1>4. CASE w = v /\ a.trade.mint = trade.mint
  <2>1. registry[a.trade.mint] = trade.slot
    BY <1>0, <1>1, <1>3, <1>4 DEF CallOK
  <2>2. trade.slot \in Slots /\ trade.slot <= a.trade.slot /\ a.delta <= a.trade.slot - trade.slot
    BY <1>3, <2>1 DEF Observed
  <2>3. b.delta = a.trade.slot - trade.slot
    <3>1. b = Annotate(a.trade, trade.slot)
      BY <1>2, <1>4
    <3> QED
      BY <1>3, <2>2, <3>1, AnnotateFacts
  <2>4. a.trade.slot \in Nat /\ trade.slot \in Nat
    BY <1>0, <1>3, TradeType
  <2> HIDE DEF a, b
  <2>5. b.delta >= a.delta
    BY <1>3, <2>2, <2>3, <2>4
  <2> QED
    BY <2>5 DEF a, b
<1>5. CASE ~(w = v /\ a.trade.mint = trade.mint)
  <2>1. b = a
    BY <1>2, <1>5
  <2> QED
    BY <1>3, <2>1
<1> QED
  BY <1>4, <1>5

\* A T0 revision moves no trade of a token whose entries have stayed closer to
\* the launch, whichever wallets are evicted on the way (cache.rs:301-345).
THEOREM DeltasGrow == Spec => DeltasNeverShrink
<1>1. IInv /\ [Next]_vars => DeltasKept \/ UNCHANGED vars
  <2> SUFFICES ASSUME IInv, Next PROVE DeltasKept
    OBVIOUS
  <2>0. TypeOK /\ CyclesCapped
    BY DEF IInv
  <2>1. ASSUME \A w \in Wallets : \A i \in DOMAIN wallets'[w].recent : wallets'[w] = wallets[w]
        PROVE  DeltasKept
    <3> SUFFICES ASSUME NEW w \in Wallets, NEW i \in DOMAIN wallets'[w].recent
                 PROVE  wallets'[w].recent[i].delta >= wallets[w].recent[i].delta
      BY DEF DeltasKept
    <3>1. wallets'[w] = wallets[w]
      BY <2>1
    <3>2. wallets[w].recent[i].delta \in Int
      BY <2>0, <3>1, WindowType
    <3> QED
      BY <3>1, <3>2
  <2>2. CASE ProcessTrade
    BY <2>1, <2>2, ReAnnotateGrows
       DEF ProcessTrade, Observe, LookUp, Ingest, Index, Collect, Return, DeltasKept
  <2>3. CASE Evict
    <3>1. ASSUME NEW m \in Mints, EvictToken(m) \/ EvictBuys(m) PROVE DeltasKept
      BY <2>1, <3>1 DEF EvictToken, EvictBuys
    <3>2. ASSUME NEW v \in Wallets, EvictWallet(v) PROVE DeltasKept
      BY <2>0, <2>1, <3>2, EvictWindow
    <3> QED
      BY <2>3, <3>1, <3>2 DEF Evict
  <2>4. CASE Bounded
    BY <2>1, <2>4 DEF Bounded, vars
  <2> QED
    BY <2>2, <2>3, <2>4 DEF Next
<1>2. IInv /\ [Next]_vars => [DeltasKept]_vars
  BY <1>1
<1>3. Spec => [][DeltasKept]_vars
  BY <1>2, Inductive, PTL DEF Spec
<1> QED
  BY <1>3 DEF DeltasNeverShrink, DeltasKept

-----------------------------------------------------------------------------
(* Screening: what the windows, the registry and the lists have to do with *)
(* the trades that were really seen.                                       *)

\* Nothing is in process or in a window that was not seen.
Recorded ==
    /\ seen \subseteq Trades
    /\ pc # "idle" => trade \in seen
    /\ \A w \in Wallets : \A i \in DOMAIN wallets[w].recent : wallets[w].recent[i].trade \in seen

\* T0 of a token that has lost nothing is the lowest slot of a trade seen.
LowestSeen ==
    \A m \in Mints \ disturbed :
      /\ registry[m] # None => \E t \in seen : t.mint = m /\ t.slot = registry[m]
      /\ \A t \in seen : t.mint = m => registry[m] # None /\ registry[m] <= t.slot

\* The buy list of such a token has every buy seen, but for the one in process.
BuysListed ==
    \A m \in Mints \ disturbed : \A t \in seen :
      t.mint = m /\ t.is_buy => \/ EntryOf(t) \in ToSet(buys[m])
                                \/ t = trade /\ pc \in {"lookup", "ingest", "index"}

\* The stored metrics of every wallet are those of its window and its cycles.
MetricsOfWindows ==
    \A w \in Wallets : FreshFor(wallets[w].metrics, wallets[w].recent, wallets[w].cycles)

SInv == IInv /\ Recorded /\ LowestSeen /\ BuysListed /\ MetricsOfWindows

\* A step is an observation, or one that sees no trade and leaves the registry
\* alone where nothing is lost.
LEMMA SeenStep ==
  ASSUME IInv, ScreenNext
  PROVE  \/ \E t \in Trades : Observe(t) /\ seen' = seen \cup {t}
         \/ /\ seen' = seen /\ trade' = trade
            /\ pc' # "idle" => pc # "idle"
            /\ disturbed \subseteq disturbed'
            /\ \A m \in Mints \ disturbed' : registry'[m] = registry[m]
<1>1. /\ Next
      /\ seen' = IF pc = "idle" /\ pc' = "lookup" THEN seen \cup {trade'} ELSE seen
  BY DEF ScreenNext
<1>2. registry \in [Mints -> Slots \cup {None}]
  BY DEF IInv, TypeOK
<1>3. ASSUME NEW t \in Trades, Observe(t) PROVE seen' = seen \cup {t}
  BY <1>1, <1>3 DEF Observe
<1>4. CASE LookUp \/ Ingest \/ Collect \/ Return
  BY <1>1, <1>4 DEF LookUp, Ingest, Collect, Return
<1>5. CASE Index
  BY <1>1, <1>5 DEF Index
<1>6. ASSUME NEW w \in Wallets, ReAnnotateWallet(w) \/ EvictWallet(w)
      PROVE  /\ seen' = seen /\ trade' = trade /\ (pc' # "idle" => pc # "idle")
             /\ disturbed' = disturbed /\ registry' = registry
  BY <1>1, <1>6 DEF ReAnnotateWallet, EvictWallet
<1>7. ASSUME NEW n \in Mints, EvictToken(n) \/ EvictBuys(n)
      PROVE  /\ seen' = seen /\ trade' = trade /\ (pc' # "idle" => pc # "idle")
             /\ disturbed' = disturbed \cup {n}
             /\ \A m \in Mints : m # n => registry'[m] = registry[m]
  BY <1>1, <1>2, <1>7 DEF EvictToken, EvictBuys, Reg!Forget
<1>8. CASE Bounded
  BY <1>1, <1>8 DEF Bounded, vars
<1> QED
  BY <1>1, <1>3, <1>4, <1>5, <1>6, <1>7, <1>8 DEF Next, ProcessTrade, Evict

\* No step puts a trade into a window that is not the one in process.
LEMMA WindowStep ==
  ASSUME IInv, Next, NEW w \in Wallets, NEW i \in DOMAIN wallets'[w].recent
  PROVE  \/ pc # "idle" /\ wallets'[w].recent[i].trade = trade
         \/ \E j \in DOMAIN wallets[w].recent :
              wallets'[w].recent[i].trade = wallets[w].recent[j].trade
<1>0. TypeOK /\ CyclesCapped /\ trade \in Trades /\ t0 \in Nat \cup {None}
  BY SlotsType DEF IInv, TypeOK
<1>1. CASE Ingest
  <2>1. Annotate(trade, t0).trade = trade
    BY <1>0, AnnotateType
  <2>2. pc # "idle"
    BY <1>1 DEF Ingest
  <2> QED
    BY <1>0, <1>1, <2>1, <2>2, IngestWindow
<1>2. ASSUME NEW v \in Wallets, ReAnnotateWallet(v)
      PROVE  \E j \in DOMAIN wallets[w].recent :
               wallets'[w].recent[i].trade = wallets[w].recent[j].trade
  <2>1. /\ i \in DOMAIN wallets[w].recent
        /\ \/ wallets'[w].recent[i] = Annotate(wallets[w].recent[i].trade, trade.slot)
           \/ wallets'[w].recent[i] = wallets[w].recent[i]
    BY <1>0, <1>2, ReAnnotateWindow
  <2>2. wallets[w].recent[i].trade \in Trades /\ trade.slot \in Nat
    BY <1>0, <2>1, WindowType, TradeType
  <2>3. Annotate(wallets[w].recent[i].trade, trade.slot).trade = wallets[w].recent[i].trade
    BY <2>2, AnnotateType
  <2> QED
    BY <2>1, <2>3
<1>3. ASSUME NEW v \in Wallets, EvictWallet(v) PROVE wallets'[w] = wallets[w]
  BY <1>0, <1>3, EvictWindow
<1>4. ASSUME wallets' = wallets
      PROVE  \E j \in DOMAIN wallets[w].recent :
               wallets'[w].recent[i].trade = wallets[w].recent[j].trade
  BY <1>4
<1>5. CASE \/ \E t \in Trades : Observe(t)
           \/ LookUp \/ Index \/ Collect \/ Return \/ Bounded
           \/ \E m \in Mints : EvictToken(m) \/ EvictBuys(m)
  BY <1>4, <1>5 DEF Observe, LookUp, Index, Collect, Return, Bounded, vars, EvictToken, EvictBuys
<1> QED
  BY <1>1, <1>2, <1>3, <1>5 DEF Next, ProcessTrade, Evict

LEMMA RecordedKeeps == ASSUME SInv, ScreenNext PROVE Recorded'
<1>0. IInv /\ Recorded /\ Next /\ trade' \in Trades
  <2>1. IInv /\ Recorded /\ Next
    BY DEF SInv, ScreenNext
  <2>2. IInv'
    BY <2>1, NextKeeps
  <2> QED
    BY <2>1, <2>2 DEF IInv, TypeOK
<1>1. /\ seen \subseteq seen' /\ seen' \subseteq Trades
      /\ pc' # "idle" => trade' \in seen'
  <2>1. ASSUME NEW t \in Trades, Observe(t), seen' = seen \cup {t}
        PROVE  seen \subseteq seen' /\ seen' \subseteq Trades /\ trade' \in seen'
    BY <1>0, <2>1 DEF Observe, Recorded
  <2>2. ASSUME seen' = seen, trade' = trade, pc' # "idle" => pc # "idle"
        PROVE  seen \subseteq seen' /\ seen' \subseteq Trades /\ (pc' # "idle" => trade' \in seen')
    BY <1>0, <2>2 DEF Recorded
  <2> QED
    BY <1>0, <2>1, <2>2, SeenStep
<1>2. ASSUME NEW w \in Wallets, NEW i \in DOMAIN wallets'[w].recent
      PROVE  wallets'[w].recent[i].trade \in seen'
  BY <1>0, <1>1, WindowStep DEF Recorded
<1> QED
  BY <1>1, <1>2 DEF Recorded

LEMMA LowestKeeps == ASSUME SInv, ScreenNext PROVE LowestSeen'
<1>0. IInv /\ TypeOK /\ Recorded /\ LowestSeen
  BY DEF SInv, IInv
<1>1. ASSUME NEW t \in Trades, Observe(t), seen' = seen \cup {t} PROVE LowestSeen'
  <2>1. /\ registry'[t.mint] \in Slots /\ registry'[t.mint] <= t.slot
        /\ registry'[t.mint] \in {t.slot, registry[t.mint]}
        /\ registry[t.mint] # None => registry'[t.mint] <= registry[t.mint]
        /\ \A m \in Mints : m # t.mint => registry'[m] = registry[m]
    BY <1>0, <1>1, ObserveFacts
  <2>2. disturbed' = disturbed /\ registry'[t.mint] # None /\ t.mint \in Mints
    BY <1>1, <2>1, SlotsType, TradeType DEF Observe
  <2> SUFFICES ASSUME NEW m \in Mints \ disturbed
               PROVE  /\ registry'[m] # None => \E u \in seen' : u.mint = m /\ u.slot = registry'[m]
                      /\ \A u \in seen' : u.mint = m => registry'[m] # None /\ registry'[m] <= u.slot
    BY <2>2 DEF LowestSeen
  <2>3. CASE m # t.mint
    BY <1>0, <1>1, <2>1, <2>3 DEF LowestSeen
  <2>4. CASE m = t.mint
    <3>1. \E u \in seen' : u.mint = m /\ u.slot = registry'[m]
      BY <1>0, <1>1, <2>1, <2>2, <2>4 DEF LowestSeen
    <3>2. ASSUME NEW u \in seen, u.mint = m PROVE registry'[m] <= u.slot
      <4>1. registry[m] # None /\ registry[m] <= u.slot
        BY <1>0, <3>2 DEF LowestSeen
      <4>2. registry[m] \in Slots /\ registry'[m] \in Slots /\ registry'[m] <= registry[m]
        BY <1>0, <2>1, <2>4, <4>1 DEF TypeOK
      <4>3. registry[m] \in Nat /\ registry'[m] \in Nat /\ u.slot \in Nat
        BY <1>0, <4>2, SlotsType, TradeType DEF Recorded
      <4> QED
        BY <4>1, <4>2, <4>3
    <3> QED
      BY <1>1, <2>1, <2>2, <2>4, <3>1, <3>2
  <2> QED
    BY <2>3, <2>4
<1>2. ASSUME seen' = seen, disturbed \subseteq disturbed',
             \A m \in Mints \ disturbed' : registry'[m] = registry[m]
      PROVE  LowestSeen'
  BY <1>0, <1>2 DEF LowestSeen
<1> QED
  BY <1>0, <1>1, <1>2, SeenStep

LEMMA ListedKeeps == ASSUME SInv, ScreenNext PROVE BuysListed'
<1>0. IInv /\ TypeOK /\ BuysListed /\ Next
  BY DEF SInv, IInv, ScreenNext
<1>1. ASSUME NEW t \in Trades, Observe(t), seen' = seen \cup {t} PROVE BuysListed'
  <2>1. pc = "idle" /\ pc' = "lookup" /\ trade' = t /\ buys' = buys /\ disturbed' = disturbed
    BY <1>1 DEF Observe
  <2> QED
    BY <1>0, <1>1, <2>1 DEF BuysListed
<1> SUFFICES ASSUME seen' = seen, trade' = trade, disturbed \subseteq disturbed',
                    ~(\E t \in Trades : Observe(t))
             PROVE  BuysListed'
  BY <1>0, <1>1, SeenStep DEF Observe
<1>2. CASE Index
  <2> DEFINE E == [wallet : Wallets, slot : Slots, tx : Nat]
  <2>1. PICK list \in Indexed(buys[trade.mint], EntryOf(trade)) :
          buys' = [buys EXCEPT ![trade.mint] = list]
    BY <1>2 DEF Index
  <2>2. /\ trade.mint \in Mints /\ EntryOf(trade) \in E
        /\ buys \in [Mints -> Seq(E)] /\ Len(buys[trade.mint]) <= BuyCap
    BY <1>0, TradeType DEF TypeOK, EntryOf
  <2> HIDE DEF E
  <2>3. trade.mint \notin disturbed' => Len(buys[trade.mint]) # BuyCap
    BY <1>2 DEF Index
  <2>4. trade.mint \notin disturbed' =>
          ToSet(buys[trade.mint]) \subseteq ToSet(list) /\ EntryOf(trade) \in ToSet(list)
    BY <2>1, <2>2, <2>3, IndexedFacts
  <2>5. buys'[trade.mint] = list /\ \A m \in Mints : m # trade.mint => buys'[m] = buys[m]
    BY <2>1, <2>2
  <2> SUFFICES ASSUME NEW m \in Mints \ disturbed', NEW t \in seen, t.mint = m, t.is_buy
               PROVE  EntryOf(t) \in ToSet(buys'[m])
    BY DEF BuysListed
  <2>6. EntryOf(t) \in ToSet(buys[m]) \/ t = trade
    BY <1>0 DEF BuysListed
  <2> QED
    BY <2>4, <2>5, <2>6
<1>3. CASE Ingest
  <2>1. pc' = (IF trade.is_buy THEN "index" ELSE AfterIngest) /\ buys' = buys /\ disturbed' = disturbed
    BY <1>3 DEF Ingest
  <2> QED
    BY <1>0, <2>1 DEF BuysListed
<1>4. CASE LookUp \/ Collect \/ Return \/ Bounded \/ \E w \in Wallets : ReAnnotateWallet(w) \/ EvictWallet(w)
  <2>1. /\ buys' = buys /\ disturbed' = disturbed
        /\ pc \in {"lookup", "ingest", "index"} => pc' \in {"lookup", "ingest", "index"}
    BY <1>4 DEF LookUp, Collect, Return, Bounded, ReAnnotateWallet, EvictWallet, vars
  <2> QED
    BY <1>0, <2>1 DEF BuysListed
<1>5. ASSUME NEW n \in Mints, EvictToken(n) \/ EvictBuys(n) PROVE BuysListed'
  <2>1. /\ disturbed' = disturbed \cup {n} /\ pc' = pc
        /\ \A m \in Mints : m # n => buys'[m] = buys[m]
    BY <1>0, <1>5 DEF EvictToken, EvictBuys, TypeOK
  <2> QED
    BY <1>0, <2>1 DEF BuysListed
<1> QED
  BY <1>0, <1>2, <1>3, <1>4, <1>5 DEF Next, ProcessTrade, Evict

LEMMA MetricsKeep == ASSUME SInv, Next PROVE MetricsOfWindows'
<1>0. /\ TypeOK /\ MetricsOfWindows /\ trade \in Trades /\ t0 \in Nat \cup {None}
      /\ wallets \in [Wallets -> WalletStates]
  BY SlotsType DEF SInv, IInv, TypeOK
<1>1. CASE Ingest
  <2> DEFINE u == trade.wallet
             x == IngestTrade(wallets[u], Annotate(trade, t0))
  <2>1. u \in Wallets /\ Annotate(trade, t0) \in Annotated
    BY <1>0, TradeType, AnnotateType
  <2>2. wallets[u] \in WalletStates /\ Len(wallets[u].recent) <= RecentWindow
        /\ FreshFor(wallets[u].metrics, wallets[u].recent, wallets[u].cycles)
    BY <1>0, <2>1 DEF TypeOK, MetricsOfWindows
  <2>3. FreshFor(x.metrics, x.recent, x.cycles)
    BY <2>1, <2>2, OperationsFresh
  <2>4. wallets' = [wallets EXCEPT ![u] = x]
    BY <1>1 DEF Ingest
  <2> HIDE DEF x, u
  <2> QED
    BY <1>0, <2>1, <2>3, <2>4 DEF MetricsOfWindows
<1>2. ASSUME NEW v \in Wallets, ReAnnotateWallet(v) PROVE MetricsOfWindows'
  <2> DEFINE x == ReAnnotateToken(wallets[v], trade.mint, trade.slot)
  <2>1. wallets[v] \in WalletStates /\ Len(wallets[v].recent) <= RecentWindow
        /\ FreshFor(wallets[v].metrics, wallets[v].recent, wallets[v].cycles)
        /\ trade.mint \in Mints /\ trade.slot \in Nat
    BY <1>0, TradeType DEF TypeOK, MetricsOfWindows
  <2>2. FreshFor(x.metrics, x.recent, x.cycles)
    BY <2>1, OperationsFresh
  <2>3. wallets' = [wallets EXCEPT ![v] = x] \/ wallets' = wallets
    BY <1>2 DEF ReAnnotateWallet
  <2> HIDE DEF x
  <2> QED
    BY <1>0, <2>2, <2>3 DEF MetricsOfWindows
<1>3. ASSUME NEW v \in Wallets, EvictWallet(v) PROVE MetricsOfWindows'
  <2>1. wallets' = [wallets EXCEPT ![v] = NewWallet]
    BY <1>3 DEF EvictWallet
  <2> QED
    BY <1>0, <2>1, NewWalletFresh DEF MetricsOfWindows
<1>4. ASSUME wallets' = wallets PROVE MetricsOfWindows'
  BY <1>0, <1>4 DEF MetricsOfWindows
<1>5. CASE \/ \E t \in Trades : Observe(t)
           \/ LookUp \/ Index \/ Collect \/ Return \/ Bounded
           \/ \E m \in Mints : EvictToken(m) \/ EvictBuys(m)
  BY <1>4, <1>5 DEF Observe, LookUp, Index, Collect, Return, Bounded, vars, EvictToken, EvictBuys
<1> QED
  BY <1>1, <1>2, <1>3, <1>5 DEF Next, ProcessTrade, Evict

LEMMA ScreenInductive == ScreenSpec => []SInv
<1>1. ScreenInit => SInv
  <2> SUFFICES ASSUME ScreenInit PROVE SInv
    OBVIOUS
  <2>1. Init /\ IInv /\ seen = {}
    BY InitHolds DEF ScreenInit
  <2>2. /\ registry = [m \in Mints |-> None] /\ pc = "idle"
        /\ \A w \in Wallets : wallets[w] = NewWallet /\ wallets[w].recent = << >>
    BY <2>1 DEF Init, Reg!AbsInit, Reg!None, None, NewWallet
  <2>3. Recorded /\ LowestSeen /\ BuysListed
    BY <2>1, <2>2 DEF Recorded, LowestSeen, BuysListed
  <2>4. MetricsOfWindows
    BY <2>2, NewWalletFresh DEF MetricsOfWindows
  <2> QED
    BY <2>1, <2>3, <2>4 DEF SInv
<1>2. SInv /\ [ScreenNext]_screenVars => SInv'
  <2>1. ASSUME SInv, ScreenNext PROVE SInv'
    <3>1. IInv'
      BY <2>1, NextKeeps DEF SInv, ScreenNext
    <3> QED
      BY <2>1, <3>1, RecordedKeeps, LowestKeeps, ListedKeeps, MetricsKeep DEF SInv, ScreenNext
  <2>2. ASSUME SInv, UNCHANGED screenVars PROVE SInv'
    <3>1. UNCHANGED vars /\ seen' = seen /\ IInv'
      BY <2>2, NextKeeps DEF SInv, screenVars
    <3> QED
      BY <2>2, <3>1 DEF SInv, vars, Recorded, LowestSeen, BuysListed, MetricsOfWindows
  <2> QED
    BY <2>1, <2>2
<1> QED
  BY <1>1, <1>2, PTL DEF ScreenSpec

-----------------------------------------------------------------------------
(* Screening: what a verdict says.                                         *)

\* T0 is what the history calls the true one.
LEMMA TrueT0IsT0 ==
  ASSUME SInv, NEW m \in Mints \ disturbed, registry[m] # None
  PROVE  TrueT0(m) = registry[m]
<1> DEFINE S == {t.slot : t \in {u \in seen : u.mint = m}}
           Lowest(s) == \A t \in seen : t.mint = m => s <= t.slot
<1>1. seen \subseteq Trades /\ LowestSeen
  BY DEF SInv, Recorded
<1>2. S \subseteq Nat
  BY <1>1, TradeType
<1>3. registry[m] \in S /\ Lowest(registry[m])
  BY <1>1 DEF LowestSeen
<1>4. ASSUME NEW s \in S, Lowest(s) PROVE s = registry[m]
  <2>1. s <= registry[m] /\ registry[m] <= s
    BY <1>3, <1>4
  <2>2. s \in Nat /\ registry[m] \in Nat
    BY <1>2, <1>3
  <2> QED
    BY <2>1, <2>2
<1>5. TrueT0(m) = CHOOSE s \in S : Lowest(s)
  BY DEF TrueT0
<1> HIDE DEF S, Lowest
<1> QED
  BY <1>3, <1>4, <1>5

\* A buy that is annotated from T0 is an insider if and only if it truly is.
LEMMA CurrentIsTrue ==
  ASSUME SInv, NEW a, a.trade \in Trades, a.trade.mint \notin disturbed, Current(a)
  PROVE  a.class # "unknown" /\ (a.class = "insider" <=> TrulyInside(a.trade))
<1> DEFINE T == registry[a.trade.mint]
           d == a.trade.slot - T
<1>1. a.trade.mint \in Mints \ disturbed /\ T # None /\ T <= a.trade.slot /\ a = Annotate(a.trade, T)
  BY TradeType DEF Current
<1>2. T \in Nat /\ a.trade.slot \in Nat
  <2>1. T \in Slots \cup {None}
    BY <1>1 DEF SInv, IInv, TypeOK
  <2> QED
    BY <1>1, <2>1, SlotsType, TradeType
<1>3. TrueT0(a.trade.mint) = T
  BY <1>1, TrueT0IsT0
<1> HIDE DEF T
<1>4. SatSub(a.trade.slot, T) = d
  BY <1>1, <1>2 DEF SatSub
<1>5. a.class = Classify(d)
  <2>1. a = [trade |-> a.trade, delta |-> d, class |-> Classify(d)]
    BY <1>1, <1>4 DEF Annotate
  <2> QED
    BY <2>1
<1>6. d \in Nat
  BY <1>1, <1>2
<1>7. TrulyInside(a.trade) <=> d \in MinSlotDelta..MaxSlotDelta
  BY <1>3 DEF TrulyInside
<1> HIDE DEF d
<1> QED
  BY <1>5, <1>6, <1>7, DeltaAssumption DEF Classify

LEMMA InsidersHold == SInv => InsidersAreInside
<1> SUFFICES ASSUME SInv, NEW w \in Evaluated,
                    FilterAntiSniper(wallets[w]) = "pass", MintsIn(w) \cap disturbed = {}
             PROVE  2 * Cardinality({i \in BuysIn(wallets[w].recent) : TrulyInside(wallets[w].recent[i].trade)})
                      >= Cardinality(BuysIn(wallets[w].recent))
  BY DEF InsidersAreInside
<1> DEFINE recent == wallets[w].recent
           inside == OfClass(recent, "insider")
<1>1. TypeOK /\ AnnotationsCurrent /\ pc = "idle" /\ w \in Wallets
  BY DEF SInv, IInv, Evaluated
<1>2. ASSUME NEW i \in BuysIn(recent)
      PROVE  recent[i].class # "unknown" /\ (recent[i].class = "insider" <=> TrulyInside(recent[i].trade))
  <2>1. i \in DOMAIN recent
    BY DEF BuysIn
  <2>2. recent[i].trade \in Trades /\ recent[i].trade.mint \in Mints \ disturbed
    BY <1>1, <2>1, WindowType DEF MintsIn
  <2>3. ~Pending(w, recent[i].trade.mint)
    BY <1>1 DEF Pending
  <2>4. Current(recent[i])
    BY <1>1, <2>2, <2>3 DEF AnnotationsCurrent
  <2> QED
    BY <2>2, <2>4, CurrentIsTrue
<1> HIDE DEF recent
<1>3. /\ AnnotatedBuysIn(recent) = BuysIn(recent)
      /\ inside = {i \in BuysIn(recent) : TrulyInside(recent[i].trade)}
  BY <1>2 DEF AnnotatedBuysIn, OfClass
<1>4. Cardinality(inside) * 2 >= Cardinality(AnnotatedBuysIn(recent))
  BY DEF FilterAntiSniper, Verdict, recent
<1>5. Cardinality(inside) \in Nat
  <2>1. recent \in Seq(Annotated)
    BY <1>1 DEF TypeOK, WalletStates, recent
  <2>2. inside \in SUBSET (DOMAIN recent)
    BY DEF OfClass, BuysIn
  <2> QED
    BY <2>1, <2>2, CountType
<1> HIDE DEF inside
<1>6. 2 * Cardinality(inside) >= Cardinality(AnnotatedBuysIn(recent))
  <2>1. 2 * Cardinality(inside) = Cardinality(inside) * 2
    BY <1>5
  <2> QED
    BY <1>4, <2>1
<1> QED
  BY <1>3, <1>6 DEF recent

\* Fresh metrics of a window with an annotated buy are those computed from
\* nothing.
LEMMA FreshIsRecomputed ==
  ASSUME NEW x \in Metrics, NEW recent, NEW cycles, AnnotatedBuysIn(recent) # {},
         FreshFor(x, recent, cycles)
  PROVE  x = RecomputeMetrics(NoMetrics, recent, cycles)
<1> DEFINE y == RecomputeMetrics(NoMetrics, recent, cycles)
<1>1. y = [wins      |-> Cardinality(LastWins(cycles)),
           cycles    |-> Cardinality(LastCycles(cycles)),
           spent     |-> SpentIn(recent),
           buys      |-> Cardinality(BuysIn(recent)),
           sniper    |-> Cardinality(OfClass(recent, "sniper")),
           insider   |-> Cardinality(OfClass(recent, "insider")),
           retail    |-> Cardinality(OfClass(recent, "retail")),
           annotated |-> Cardinality(AnnotatedBuysIn(recent))]
  BY DEF RecomputeMetrics
<1>2. x = [wins |-> x.wins, cycles |-> x.cycles, spent |-> x.spent, buys |-> x.buys,
           sniper |-> x.sniper, insider |-> x.insider, retail |-> x.retail,
           annotated |-> x.annotated]
  BY DEF Metrics
<1> HIDE DEF y
<1> QED
  BY <1>1, <1>2 DEF FreshFor, y

LEMMA RowHolds == SInv => RowSaysWhatWasJudged
<1> SUFFICES ASSUME SInv, NEW w \in Evaluated, Qualified(wallets[w], buys)
             PROVE  wallets[w].metrics = RecomputeMetrics(NoMetrics, wallets[w].recent, wallets[w].cycles)
  BY DEF RowSaysWhatWasJudged
<1>1. w \in Wallets /\ wallets[w].metrics \in Metrics
      /\ FreshFor(wallets[w].metrics, wallets[w].recent, wallets[w].cycles)
  BY DEF SInv, IInv, TypeOK, WalletStates, Evaluated, MetricsOfWindows
<1>2. FilterAntiSniper(wallets[w]) = "pass"
  BY DEF Qualified, EvaluateWallet
<1>3. Cardinality(AnnotatedBuysIn(wallets[w].recent)) >= MinAnnotatedBuys
  BY <1>2 DEF FilterAntiSniper, Verdict
<1>4. AnnotatedBuysIn(wallets[w].recent) # {}
  <2>1. MinAnnotatedBuys \in Nat \ {0}
    BY ThresholdsAssumption
  <2>2. Cardinality({}) = 0
    BY FS_EmptySet
  <2> QED
    BY <1>3, <2>1, <2>2
<1> QED
  BY <1>1, <1>4, FreshIsRecomputed

LEMMA HerdsHold == SInv => HerdsAreSeen
<1> SUFFICES ASSUME SInv, NEW w \in Evaluated, NEW i \in BuysIn(wallets[w].recent),
                    wallets[w].recent[i].trade.mint \notin disturbed,
                    Cardinality(TrueFollowers(wallets[w].recent[i].trade)) >= MinCorrelatedBuys
             PROVE  Herded(wallets[w].recent[i].trade, buys)
  BY DEF HerdsAreSeen
<1> DEFINE t    == wallets[w].recent[i].trade
           list == buys[t.mint]
           mine == {EntryOf(u) : u \in {v \in seen : v.mint = t.mint /\ v.is_buy}}
           followers == Followers(mine, t.wallet, t.slot, t.tx)
           copycats  == Copycats(list, t.wallet, t.slot, t.tx)
<1>1. TypeOK /\ BuysListed /\ seen \subseteq Trades /\ pc = "idle" /\ w \in Wallets
  BY DEF SInv, IInv, Recorded, Evaluated
<1>2. t \in Trades /\ t.mint \in Mints \ disturbed /\ t.slot \in Nat /\ t.tx \in Nat
  BY <1>1, WindowType, TradeType DEF BuysIn
<1> HIDE DEF t
<1>3. mine \subseteq ToSet(list)
  <2> SUFFICES ASSUME NEW v \in seen, v.mint = t.mint, v.is_buy PROVE EntryOf(v) \in ToSet(list)
    OBVIOUS
  <2> QED
    BY <1>1, <1>2 DEF BuysListed
<1>4. \A e \in mine : e.slot \in Nat /\ e.tx \in Nat
  BY <1>1, TradeType DEF EntryOf
<1> HIDE DEF mine
<1>5. followers \subseteq copycats
  <2> SUFFICES ASSUME NEW e \in mine, e.wallet # t.wallet,
                      Before([slot |-> t.slot, tx |-> t.tx], e), e.slot <= t.slot + CopycatWindow
               PROVE  IsCopycat(e, t.wallet, t.slot, t.tx)
    BY <1>3 DEF Followers, Copycats
  <2>1. t.slot < e.slot \/ (t.slot = e.slot /\ t.tx < e.tx)
    BY DEF Before
  <2> QED
    BY <1>2, <1>4, <2>1, BuyIndexAssumption DEF IsCopycat
<1>6. IsFiniteSet(copycats)
  <2>1. DOMAIN list = 1..Len(list) /\ Len(list) \in Nat
    BY <1>1, <1>2 DEF TypeOK
  <2>2. IsFiniteSet(DOMAIN list)
    <3> HIDE DEF list
    <3>1. IsFiniteSet(1..Len(list))
      BY <2>1, FS_Interval
    <3> QED
      BY <2>1, <3>1
  <2> DEFINE D == {k \in DOMAIN list : IsCopycat(list[k], t.wallet, t.slot, t.tx)}
  <2>3. D \in SUBSET DOMAIN list
    OBVIOUS
  <2>4. copycats = {list[k].wallet : k \in D}
    BY DEF Copycats, ToSet
  <2> HIDE DEF D, list, copycats
  <2>5. IsFiniteSet(D)
    BY <2>2, <2>3, FS_Subset
  <2>6. [k \in D |-> list[k].wallet] \in Surjection(D, copycats)
    BY <2>4 DEF Surjection
  <2> QED
    BY <2>5, <2>6, FS_Surjection
<1>7. Cardinality(followers) >= MinCorrelatedBuys
  BY DEF TrueFollowers, t, mine
<1> HIDE DEF followers, copycats
<1>8. Cardinality(copycats) >= MinCorrelatedBuys
  <2>1. IsFiniteSet(followers) /\ Cardinality(followers) <= Cardinality(copycats)
    BY <1>5, <1>6, FS_Subset
  <2>2. Cardinality(followers) \in Nat /\ Cardinality(copycats) \in Nat /\ MinCorrelatedBuys \in Nat
    BY <1>6, <2>1, FS_CardinalityType, ThresholdsAssumption
  <2> QED
    BY <1>7, <2>1, <2>2
<1> QED
  BY <1>8 DEF Herded, copycats, t

\* A wallet that passes the anti-sniper filter has half of the buys in its
\* window truly inside the insider window, by all trades seen, as long as its
\* tokens have lost no cache entry (heuristics.rs:193-250, cache.rs:181-198).
THEOREM InsidersTrulyInside == ScreenSpec => []InsidersAreInside
BY ScreenInductive, InsidersHold, PTL

\* The row written for a qualified wallet is what its filters judged
\* (main.rs:275-286, wallet_state.rs:435-495).
THEOREM RowsTell == ScreenSpec => []RowSaysWhatWasJudged
BY ScreenInductive, RowHolds, PTL

\* A buy with enough true followers counts as herded, whatever the order the
\* buys came in, while the token has lost no entry (cache.rs:356-390,
\* heuristics.rs:318-376).
THEOREM HerdsSeen == ScreenSpec => []HerdsAreSeen
BY ScreenInductive, HerdsHold, PTL
=============================================================================
