---------------------------- MODULE ReplayProofs ----------------------------
(***************************************************************************)
(* Proofs about Replay, for any transactions, in whatever order they come, *)
(* any thresholds and any capacity of the channel.                         *)
(***************************************************************************)
EXTENDS Replay, SequenceTheorems, FiniteSetTheorems, WellFoundedInduction, TLAPS

-----------------------------------------------------------------------------
(* Induction and recursion over an initial part of the natural numbers.    *)

LEMMA LeastNumber ==
  ASSUME NEW T \in SUBSET Nat, T # {}
  PROVE  \E n \in T : \A k \in T : n <= k
<1> DEFINE R == OpToRel(<, Nat)
<1>1. IsWellFoundedOn(R, Nat)
  BY NatLessThanWellFounded
<1>2. \A x, y \in Nat : x < y => <<x, y>> \in R
  BY DEF OpToRel
<1> HIDE DEF R
<1>3. PICK n \in T : \A k \in T : ~(<<k, n>> \in R)
  BY <1>1, WFMin
<1>4. ASSUME NEW k \in T PROVE n <= k
  <2>1. ~(k < n)
    BY <1>2, <1>3
  <2> QED
    BY <2>1
<1> QED
  BY <1>4

LEMMA InductionOn ==
  ASSUME NEW S, 0 \in S, \A n \in Nat : n \in S => n + 1 \in S
  PROVE  Nat \subseteq S
<1> DEFINE T == Nat \ S
<1> SUFFICES ASSUME T # {} PROVE FALSE
  OBVIOUS
<1>1. PICK n \in T : \A k \in T : n <= k
  BY LeastNumber
<1>2. n # 0 /\ n - 1 \in Nat /\ n - 1 \notin T
  BY <1>1
<1> QED
  BY <1>2

\* A function of 0..N may be given by its value at 0 and the step to each k.
LEMMA RecursionOn ==
  ASSUME NEW S, NEW base \in S, NEW N \in Nat, NEW step \in [1..N -> [S -> S]]
  PROVE  \E f \in [0..N -> S] : f[0] = base /\ \A k \in 1..N : f[k] = step[k][f[k - 1]]
<1> DEFINE Upto(f, n) == f[0] = base /\ \A k \in 1..n : f[k] = step[k][f[k - 1]]
           D == {n \in Nat : n <= N => \E f \in [0..n -> S] : Upto(f, n)}
<1>1. 0 \in D
  <2> DEFINE f == [k \in 0..0 |-> base]
  <2>1. f \in [0..0 -> S] /\ Upto(f, 0)
    OBVIOUS
  <2> QED
    BY <2>1
<1>2. ASSUME NEW n \in Nat, n \in D PROVE n + 1 \in D
  <2> SUFFICES ASSUME n + 1 <= N PROVE \E f \in [0..n + 1 -> S] : Upto(f, n + 1)
    OBVIOUS
  <2>1. PICK f \in [0..n -> S] : Upto(f, n)
    <3>1. n <= N
      OBVIOUS
    <3> HIDE DEF Upto
    <3> QED
      BY <1>2, <3>1
  <2> DEFINE last == step[n + 1][f[n]]
             g == [k \in 0..n + 1 |-> IF k = n + 1 THEN last ELSE f[k]]
  <2>2. last \in S
    <3>1. n + 1 \in 1..N /\ f[n] \in S
      OBVIOUS
    <3> QED
      BY <3>1
  <2>3. g[0] = base
    BY <2>1
  <2>4. ASSUME NEW k \in 1..n + 1 PROVE g[k] = step[k][g[k - 1]]
    <3>1. k - 1 \in 0..n /\ k - 1 # n + 1 /\ g[k - 1] = f[k - 1]
      OBVIOUS
    <3>2. CASE k = n + 1
      BY <3>1, <3>2
    <3>3. CASE k # n + 1
      <4>1. k \in 1..n /\ g[k] = f[k]
        BY <3>3
      <4> QED
        BY <2>1, <3>1, <4>1
    <3> QED
      BY <3>2, <3>3
  <2>5. g \in [0..n + 1 -> S]
    <3> HIDE DEF last
    <3> QED
      BY <2>2
  <2> HIDE DEF g
  <2> QED
    BY <2>3, <2>4, <2>5
<1> HIDE DEF D
<1>3. N \in D
  BY <1>1, <1>2, InductionOn
<1> QED
  BY <1>3 DEF D

LEMMA SequenceInductionOn ==
  ASSUME NEW T, NEW D, << >> \in D,
         \A s \in Seq(T), x \in T : s \in D => Append(s, x) \in D
  PROVE  Seq(T) \subseteq D
<1> DEFINE E == {n \in Nat : \A s \in Seq(T) : Len(s) = n => s \in D}
<1>1. 0 \in E
  OBVIOUS
<1>2. ASSUME NEW n \in Nat, n \in E PROVE n + 1 \in E
  <2> SUFFICES ASSUME NEW s \in Seq(T), Len(s) = n + 1 PROVE s \in D
    OBVIOUS
  <2>1. PICK r \in Seq(T), x \in T : s = Append(r, x)
    <3>1. s # << >>
      OBVIOUS
    <3> QED
      BY <3>1, SequenceEmptyOrAppend
  <2>2. Len(r) = n
    BY <2>1
  <2> QED
    BY <1>2, <2>1, <2>2
<1> HIDE DEF E
<1>3. Nat \subseteq E
  BY <1>1, <1>2, InductionOn
<1> QED
  BY <1>3 DEF E

-----------------------------------------------------------------------------
(* The elements of a sequence that are in a set.                           *)

\* f is what Kept builds up.
KeptUpTo(f, s, S) ==
    f = [n \in 0..Len(s) |->
           IF n = 0 THEN << >>
           ELSE IF s[n] \in S THEN Append(f[n - 1], s[n]) ELSE f[n - 1]]

LEMMA KeptAt ==
  ASSUME NEW T, NEW s \in Seq(T), NEW S, NEW f
  PROVE  KeptUpTo(f, s, S) <=>
           /\ f = [n \in 0..Len(s) |-> f[n]] /\ f[0] = << >>
           /\ \A n \in 1..Len(s) :
                f[n] = IF s[n] \in S THEN Append(f[n - 1], s[n]) ELSE f[n - 1]
<1>0. Len(s) \in Nat
  OBVIOUS
<1>1. ASSUME KeptUpTo(f, s, S)
      PROVE  /\ f = [n \in 0..Len(s) |-> f[n]] /\ f[0] = << >>
             /\ \A n \in 1..Len(s) :
                  f[n] = IF s[n] \in S THEN Append(f[n - 1], s[n]) ELSE f[n - 1]
  <2>1. \A n \in 0..Len(s) : f[n] = IF n = 0 THEN << >>
           ELSE IF s[n] \in S THEN Append(f[n - 1], s[n]) ELSE f[n - 1]
    BY <1>1 DEF KeptUpTo
  <2>2. f = [n \in 0..Len(s) |-> f[n]]
    BY <1>1 DEF KeptUpTo
  <2> QED
    BY <1>0, <2>1, <2>2
<1>2. ASSUME f = [n \in 0..Len(s) |-> f[n]], f[0] = << >>,
             \A n \in 1..Len(s) :
               f[n] = IF s[n] \in S THEN Append(f[n - 1], s[n]) ELSE f[n - 1]
      PROVE  KeptUpTo(f, s, S)
  <2>1. \A n \in 0..Len(s) : f[n] = IF n = 0 THEN << >>
           ELSE IF s[n] \in S THEN Append(f[n - 1], s[n]) ELSE f[n - 1]
    BY <1>0, <1>2
  <2> QED
    BY <1>2, <2>1 DEF KeptUpTo
<1> QED
  BY <1>1, <1>2

LEMMA KeptExists ==
  ASSUME NEW T, NEW s \in Seq(T), NEW S
  PROVE  \E f \in [0..Len(s) -> Seq(T)] : KeptUpTo(f, s, S)
<1>0. Len(s) \in Nat /\ \A n \in 1..Len(s) : s[n] \in T
  OBVIOUS
<1> DEFINE step == [n \in 1..Len(s) |->
                      [a \in Seq(T) |-> IF s[n] \in S THEN Append(a, s[n]) ELSE a]]
<1>1. step \in [1..Len(s) -> [Seq(T) -> Seq(T)]]
  <2>1. ASSUME NEW n \in 1..Len(s), NEW a \in Seq(T) PROVE Append(a, s[n]) \in Seq(T)
    BY <1>0
  <2> QED
    BY <2>1
<1>2. << >> \in Seq(T)
  OBVIOUS
<1>3. \A n \in 1..Len(s) : \A a \in Seq(T) :
        step[n][a] = IF s[n] \in S THEN Append(a, s[n]) ELSE a
  OBVIOUS
<1> DEFINE N == Len(s)
           All == Seq(T)
           none == << >>
<1> HIDE DEF step, N, All, none
<1>4. PICK f \in [0..Len(s) -> Seq(T)] :
        f[0] = << >> /\ \A n \in 1..Len(s) : f[n] = step[n][f[n - 1]]
  <2>1. N \in Nat /\ step \in [1..N -> [All -> All]] /\ none \in All
    BY <1>0, <1>1, <1>2 DEF N, All, none
  <2>2. \E f \in [0..N -> All] :
          f[0] = none /\ \A n \in 1..N : f[n] = step[n][f[n - 1]]
    BY <2>1, RecursionOn
  <2> QED
    BY <2>2 DEF N, All, none
<1>5. ASSUME NEW n \in 1..Len(s)
      PROVE  f[n] = IF s[n] \in S THEN Append(f[n - 1], s[n]) ELSE f[n - 1]
  <2>1. n - 1 \in 0..Len(s)
    BY <1>0
  <2>2. f[n - 1] \in Seq(T)
    BY <2>1
  <2> QED
    BY <1>3, <1>4, <2>2
<1>6. KeptUpTo(f, s, S)
  BY <1>4, <1>5, KeptAt
<1> QED
  BY <1>6

LEMMA KeptUnique ==
  ASSUME NEW T, NEW s \in Seq(T), NEW S, NEW f, NEW g,
         KeptUpTo(f, s, S), KeptUpTo(g, s, S)
  PROVE  f = g
<1>0. Len(s) \in Nat
  OBVIOUS
<1>1. /\ f = [n \in 0..Len(s) |-> f[n]] /\ f[0] = << >>
      /\ \A n \in 1..Len(s) : f[n] = IF s[n] \in S THEN Append(f[n - 1], s[n]) ELSE f[n - 1]
  BY KeptAt
<1>2. /\ g = [n \in 0..Len(s) |-> g[n]] /\ g[0] = << >>
      /\ \A n \in 1..Len(s) : g[n] = IF s[n] \in S THEN Append(g[n - 1], s[n]) ELSE g[n - 1]
  BY KeptAt
<1> DEFINE D == {n \in Nat : n <= Len(s) => f[n] = g[n]}
<1>3. 0 \in D
  BY <1>1, <1>2
<1>4. ASSUME NEW n \in Nat, n \in D PROVE n + 1 \in D
  <2> SUFFICES ASSUME n + 1 <= Len(s) PROVE f[n + 1] = g[n + 1]
    OBVIOUS
  <2>1. n + 1 \in 1..Len(s) /\ (n + 1) - 1 = n /\ f[n] = g[n]
    BY <1>0, <1>4
  <2> QED
    BY <1>1, <1>2, <2>1
<1> HIDE DEF D
<1>5. Nat \subseteq D
  BY <1>3, <1>4, InductionOn
<1>6. \A n \in 0..Len(s) : f[n] = g[n]
  BY <1>0, <1>5 DEF D
<1> QED
  BY <1>1, <1>2, <1>6

LEMMA KeptIs ==
  ASSUME NEW T, NEW s \in Seq(T), NEW S
  PROVE  /\ Kept(s, S) \in Seq(T)
         /\ \A f : KeptUpTo(f, s, S) => Kept(s, S) = f[Len(s)]
<1> DEFINE upTo == CHOOSE f : KeptUpTo(f, s, S)
<1>1. PICK f \in [0..Len(s) -> Seq(T)] : KeptUpTo(f, s, S)
  BY KeptExists
<1>2. KeptUpTo(upTo, s, S)
  BY <1>1
<1>3. Kept(s, S) = upTo[Len(s)]
  BY DEF Kept, KeptUpTo
<1> HIDE DEF upTo
<1>4. \A g : KeptUpTo(g, s, S) => g = upTo
  BY <1>2, KeptUnique
<1>5. f[Len(s)] \in Seq(T)
  OBVIOUS
<1> QED
  BY <1>1, <1>3, <1>4, <1>5

LEMMA KeptEmpty ==
  ASSUME NEW S
  PROVE  Kept(<< >>, S) = << >>
<1>1. << >> \in Seq({}) /\ Len(<< >>) = 0
  OBVIOUS
<1>2. PICK f \in [0..Len(<< >>) -> Seq({})] : KeptUpTo(f, << >>, S)
  BY <1>1, KeptExists
<1>3. f[0] = << >>
  BY <1>1, <1>2, KeptAt
<1> QED
  BY <1>1, <1>2, <1>3, KeptIs

LEMMA KeptAppend ==
  ASSUME NEW T, NEW s \in Seq(T), NEW x \in T, NEW S
  PROVE  Kept(Append(s, x), S) = IF x \in S THEN Append(Kept(s, S), x) ELSE Kept(s, S)
<1> DEFINE t == Append(s, x)
<1>0. /\ Len(s) \in Nat /\ t \in Seq(T) /\ Len(t) = Len(s) + 1
      /\ t[Len(s) + 1] = x /\ \A n \in 1..Len(s) : t[n] = s[n]
  OBVIOUS
<1>1. PICK f \in [0..Len(s) -> Seq(T)] : KeptUpTo(f, s, S)
  BY KeptExists
<1>2. /\ f[0] = << >>
      /\ \A n \in 1..Len(s) : f[n] = IF s[n] \in S THEN Append(f[n - 1], s[n]) ELSE f[n - 1]
  BY <1>1, KeptAt
<1> HIDE DEF t
<1> DEFINE last == IF x \in S THEN Append(f[Len(s)], x) ELSE f[Len(s)]
           g == [n \in 0..Len(s) + 1 |-> IF n = Len(s) + 1 THEN last ELSE f[n]]
<1>3. ASSUME NEW n \in 1..Len(t)
      PROVE  g[n] = IF t[n] \in S THEN Append(g[n - 1], t[n]) ELSE g[n - 1]
  <2>1. CASE n = Len(s) + 1
    <3>1. n - 1 = Len(s) /\ g[n - 1] = f[Len(s)] /\ g[n] = last /\ t[n] = x
      BY <1>0, <2>1
    <3> QED
      BY <3>1
  <2>2. CASE n # Len(s) + 1
    <3>1. n \in 1..Len(s) /\ n - 1 \in 0..Len(s) /\ n - 1 # Len(s) + 1
      BY <1>0, <2>2
    <3>2. g[n] = f[n] /\ g[n - 1] = f[n - 1] /\ t[n] = s[n]
      BY <1>0, <2>2, <3>1
    <3> QED
      BY <1>2, <3>1, <3>2
  <2> QED
    BY <2>1, <2>2
<1>4. g = [n \in 0..Len(t) |-> g[n]] /\ g[Len(t)] = last /\ g[0] = << >>
  BY <1>0, <1>2
<1> HIDE DEF g
<1>5. KeptUpTo(g, t, S)
  BY <1>0, <1>3, <1>4, KeptAt
<1>6. Kept(s, S) = f[Len(s)] /\ Kept(t, S) = g[Len(t)]
  BY <1>0, <1>1, <1>5, KeptIs
<1> QED
  BY <1>4, <1>6 DEF t

LEMMA KeptConcat ==
  ASSUME NEW T, NEW s \in Seq(T), NEW t \in Seq(T), NEW S
  PROVE  Kept(s \o t, S) = Kept(s, S) \o Kept(t, S)
<1> DEFINE D == {u \in Seq(T) : Kept(s \o u, S) = Kept(s, S) \o Kept(u, S)}
<1>0. \A u \in Seq(T) : Kept(u, S) \in Seq(T)
  BY KeptIs
<1>1. << >> \in D
  <2>1. << >> \in Seq(T) /\ s \o << >> = s /\ Kept(s, S) \o << >> = Kept(s, S)
    BY <1>0, ConcatEmptySeq, EmptySeq
  <2> QED
    BY <2>1, KeptEmpty
<1>2. ASSUME NEW u \in Seq(T), NEW x \in T, u \in D PROVE Append(u, x) \in D
  <2>1. s \o u \in Seq(T) /\ Append(u, x) \in Seq(T) /\ <<x>> \in Seq(T)
    OBVIOUS
  <2>2. s \o Append(u, x) = Append(s \o u, x)
    <3>1. Append(u, x) = u \o <<x>> /\ Append(s \o u, x) = (s \o u) \o <<x>>
      BY <2>1, AppendIsConcat
    <3> QED
      BY <2>1, <3>1, ConcatAssociative
  <2>3. Kept(s \o Append(u, x), S)
          = IF x \in S THEN Append(Kept(s \o u, S), x) ELSE Kept(s \o u, S)
    BY <2>1, <2>2, KeptAppend
  <2>4. Kept(Append(u, x), S) = IF x \in S THEN Append(Kept(u, S), x) ELSE Kept(u, S)
    BY KeptAppend
  <2>5. Kept(s \o u, S) = Kept(s, S) \o Kept(u, S)
    BY <1>2
  <2>6. Append(Kept(s, S) \o Kept(u, S), x) = Kept(s, S) \o Append(Kept(u, S), x)
    <3> DEFINE a == Kept(s, S)
               b == Kept(u, S)
    <3>1. a \in Seq(T) /\ b \in Seq(T)
      BY <1>0
    <3> HIDE DEF a, b
    <3>2. Append(b, x) = b \o <<x>> /\ Append(a \o b, x) = (a \o b) \o <<x>>
      <4> DEFINE c == a \o b
      <4>1. c \in Seq(T) /\ x \in T
        BY <3>1, ConcatProperties
      <4>2. Append(b, x) = b \o <<x>>
        BY <3>1, <4>1, AppendIsConcat
      <4> HIDE DEF c
      <4>3. Append(c, x) = c \o <<x>>
        BY <4>1, AppendIsConcat
      <4> QED
        BY <4>2, <4>3 DEF c
    <3>3. Append(a \o b, x) = a \o Append(b, x)
      <4> DEFINE one == <<x>>
      <4>1. one \in Seq(T)
        BY <2>1
      <4> HIDE DEF one
      <4>2. (a \o b) \o one = a \o (b \o one)
        BY <3>1, <4>1, ConcatAssociative
      <4> QED
        BY <3>2, <4>2 DEF one
    <3> QED
      BY <3>3 DEF a, b
  <2> QED
    BY <2>1, <2>3, <2>4, <2>5, <2>6
<1> HIDE DEF D
<1>3. Seq(T) \subseteq D
  BY <1>1, <1>2, SequenceInductionOn
<1> QED
  BY <1>3 DEF D

\* Of one element.
LEMMA KeptOne ==
  ASSUME NEW x, NEW S
  PROVE  Kept(<<x>>, S) = IF x \in S THEN <<x>> ELSE << >>
<1>1. << >> \in Seq({x}) /\ x \in {x} /\ Append(<< >>, x) = <<x>>
  OBVIOUS
<1>2. Kept(<< >>, S) = << >>
  BY KeptEmpty
<1>3. Kept(Append(<< >>, x), S)
        = IF x \in S THEN Append(Kept(<< >>, S), x) ELSE Kept(<< >>, S)
  <2> DEFINE none == << >>
             One == {x}
  <2>1. none \in Seq(One) /\ x \in One
    OBVIOUS
  <2> HIDE DEF none, One
  <2>2. Kept(Append(none, x), S)
          = IF x \in S THEN Append(Kept(none, S), x) ELSE Kept(none, S)
    BY <2>1, KeptAppend
  <2> QED
    BY <2>2 DEF none
<1> QED
  BY <1>1, <1>2, <1>3

\* Only what is in the sequence counts.
LEMMA KeptAgree ==
  ASSUME NEW T, NEW s \in Seq(T), NEW S, NEW R,
         \A n \in 1..Len(s) : s[n] \in S <=> s[n] \in R
  PROVE  Kept(s, S) = Kept(s, R)
<1>1. PICK f \in [0..Len(s) -> Seq(T)] : KeptUpTo(f, s, S)
  BY KeptExists
<1>2. KeptUpTo(f, s, R)
  <2>1. /\ f = [n \in 0..Len(s) |-> f[n]] /\ f[0] = << >>
        /\ \A n \in 1..Len(s) :
             f[n] = IF s[n] \in S THEN Append(f[n - 1], s[n]) ELSE f[n - 1]
    BY <1>1, KeptAt
  <2>2. \A n \in 1..Len(s) :
          f[n] = IF s[n] \in R THEN Append(f[n - 1], s[n]) ELSE f[n - 1]
    BY <2>1
  <2> QED
    BY <2>1, <2>2, KeptAt
<1> QED
  BY <1>1, <1>2, KeptIs

-----------------------------------------------------------------------------
(* The inductive invariant.                                                *)

Sequences == arrived \in Seq(Traded) /\ batch \in Seq(Traded) /\ channel \in Seq(Traded)

GroupsOK == /\ \A w \in DOMAIN walletTrades : walletTrades[w] \in Seq(OfWallet(w))
            /\ \A m \in DOMAIN tokenTrades : tokenTrades[m] \in Seq(OfToken(m))

\* A connection step that goes on has attempts left.
AttemptsLeft == streamer \in {"connect", "subscribe"} => retries < MaxRetries

\* The aggregator goes on when the streamer has ended and the channel is empty,
\* and until then there are no profiles.
Quiet == /\ phase # "aggregate" => channel = << >> /\ streamer \in {"done", "failed"}
         /\ phase = "aggregate" => DOMAIN profiles = {}

\* The filters leave a profile's trades and cycles alone.
ProfilesSay ==
    \A w \in DOMAIN profiles :
      /\ {"trades", "cycles", "herded", "momentum", "reasons"} \subseteq DOMAIN profiles[w]
      /\ profiles[w].trades = Chronological(walletTrades[w])
      /\ profiles[w].cycles = MatchTradeCycles(profiles[w].trades)

IInv == /\ TypeOK /\ BothViewsComplete
        /\ Sequences /\ GroupsOK /\ AttemptsLeft /\ Quiet /\ ProfilesSay

LEMMA MessageFacts ==
  ASSUME NEW msg \in Messages, NEW S
  PROVE  Kept(msg, S) \in Seq(Traded)
<1>1. msg \in Seq(ToSet(msg)) /\ ToSet(msg) \subseteq Traded
  BY MessagesAssumption DEF Traded
<1>2. msg \in Seq(Traded)
  BY <1>1, SeqMonotonic
<1> QED
  BY <1>2, KeptIs

\* The list of a key holds trades of the key.
LEMMA GroupInTraded ==
  ASSUME GroupsOK
  PROVE  /\ \A w : Grouped(walletTrades, w) \in Seq(OfWallet(w)) /\ Grouped(walletTrades, w) \in Seq(Traded)
         /\ \A m : Grouped(tokenTrades, m) \in Seq(OfToken(m)) /\ Grouped(tokenTrades, m) \in Seq(Traded)
<1>1. ASSUME NEW w PROVE Grouped(walletTrades, w) \in Seq(OfWallet(w))
  BY DEF GroupsOK, Grouped
<1>2. ASSUME NEW m PROVE Grouped(tokenTrades, m) \in Seq(OfToken(m))
  BY DEF GroupsOK, Grouped
<1>3. \A k : OfWallet(k) \subseteq Traded /\ OfToken(k) \subseteq Traded
  BY DEF OfWallet, OfToken
<1> QED
  BY <1>1, <1>2, <1>3, SeqMonotonic

LEMMA InitHolds == Init => IInv
<1> SUFFICES ASSUME Init PROVE IInv
  OBVIOUS
<1>1. << >> \o << >> = << >> /\ << >> \in Seq(Traded) /\ Len(<< >>) = 0
  OBVIOUS
<1>2. DOMAIN NoFunction = {}
  BY DEF NoFunction
<1>3. TypeOK
  <2>1. ToSet(<< >>) = {}
    BY DEF ToSet
  <2>2. 0 \in 0..MaxRetries /\ 0 <= ChannelSize
    BY StreamAssumption
  <2> QED
    BY <1>1, <1>2, <2>1, <2>2 DEF Init, TypeOK
<1>4. BothViewsComplete
  BY <1>1, <1>2, KeptEmpty DEF Init, BothViewsComplete, Grouped
<1>5. Sequences /\ GroupsOK /\ Quiet /\ ProfilesSay
  BY <1>1, <1>2 DEF Init, Sequences, GroupsOK, Quiet, ProfilesSay
<1>6. AttemptsLeft
  BY StreamAssumption DEF Init, AttemptsLeft
<1> QED
  BY <1>3, <1>4, <1>5, <1>6 DEF IInv

-----------------------------------------------------------------------------
(* Steps of the streamer.                                                  *)

\* A step that only moves the streamer on.
LEMMA MovesOn ==
  ASSUME IInv, streamer \in {"connect", "subscribe", "request", "stream"},
         streamer' \in {"connect", "subscribe", "request", "stream", "done", "failed"},
         retries' \in 0..MaxRetries, AttemptsLeft',
         UNCHANGED <<batch, arrived, channel, mainVars>>
  PROVE  IInv'
<1> USE DEF mainVars, groupVars
<1>1. BothViewsComplete' /\ Sequences' /\ GroupsOK' /\ ProfilesSay'
  BY DEF IInv, BothViewsComplete, Sequences, GroupsOK, ProfilesSay, Grouped
<1>2. phase = "aggregate"
  BY DEF IInv, Quiet
<1>3. Quiet'
  BY <1>2 DEF IInv, Quiet
<1>4. TypeOK'
  <2>1. batch = << >> /\ batch' = << >> /\ streamer' # "send"
    BY DEF IInv, TypeOK
  <2>2. /\ Len(channel') <= ChannelSize
        /\ phase' \in {"aggregate", "join", "filterA", "filterB", "filterC", "filterD",
                       "rank", "report", "written", "failed"}
        /\ \A w \in DOMAIN walletTrades' : \A i \in DOMAIN walletTrades'[w] :
             walletTrades'[w][i].wallet = w
        /\ \A m \in DOMAIN tokenTrades' : \A i \in DOMAIN tokenTrades'[m] :
             tokenTrades'[m][i].mint = m
        /\ DOMAIN profiles' \subseteq DOMAIN walletTrades'
        /\ ToSet(top') \subseteq DOMAIN profiles'
    BY DEF IInv, TypeOK
  <2> QED
    BY <2>1, <2>2 DEF TypeOK
<1> QED
  BY <1>1, <1>3, <1>4 DEF IInv

LEMMA AttemptKeeps ==
  ASSUME IInv, NEW from \in {"connect", "subscribe"}, NEW to \in {"subscribe", "request"},
         Attempt(from, to)
  PROVE  IInv'
<1>1. retries \in 0..MaxRetries /\ retries < MaxRetries /\ MaxRetries \in Nat \ {0}
  BY StreamAssumption DEF IInv, TypeOK, AttemptsLeft, Attempt
<1>2. /\ streamer \in {"connect", "subscribe"}
      /\ streamer' \in {"connect", "subscribe", "request", "failed"}
      /\ UNCHANGED <<batch, arrived, channel, mainVars>>
  BY DEF Attempt
<1>3. retries' \in 0..MaxRetries /\ AttemptsLeft'
  <2>1. CASE streamer' = to /\ retries' = 0
    BY <1>1, <2>1 DEF AttemptsLeft
  <2>2. CASE streamer' = "failed" /\ retries' = retries
    BY <1>1, <2>2 DEF AttemptsLeft
  <2>3. CASE /\ retries' = retries + 1
             /\ streamer' = IF retries' >= MaxRetries THEN "failed" ELSE from
    BY <1>1, <2>3 DEF AttemptsLeft
  <2> QED
    BY <2>1, <2>2, <2>3 DEF Attempt
<1> QED
  BY <1>2, <1>3, MovesOn

LEMMA RequestKeeps ==
  ASSUME IInv, Request \/ StreamEnds
  PROVE  IInv'
<1>1. /\ streamer \in {"request", "stream"} /\ streamer' \in {"stream", "done", "failed"}
      /\ retries' = retries /\ UNCHANGED <<batch, arrived, channel, mainVars>>
  BY DEF Request, StreamEnds
<1>2. retries' \in 0..MaxRetries /\ AttemptsLeft'
  BY <1>1 DEF IInv, TypeOK, AttemptsLeft
<1> QED
  BY <1>1, <1>2, MovesOn

\* What a message adds to the window is on its way.
LEMMA DeliverKeeps ==
  ASSUME IInv, NEW msg \in Messages, Deliver(msg)
  PROVE  IInv'
<1> DEFINE kept == Kept(msg, InWindow(ToSet(msg)))
<1>1. kept \in Seq(Traded)
  BY MessageFacts
<1> HIDE DEF kept
<1>2. /\ streamer = "stream" /\ batch' = kept /\ arrived' = arrived \o kept
      /\ streamer' = IF kept = << >> THEN "stream" ELSE "send"
      /\ retries' = retries /\ UNCHANGED <<channel, mainVars>>
  BY DEF Deliver, kept
<1> USE DEF mainVars, groupVars
<1>3. batch = << >> /\ phase = "aggregate"
  BY <1>2 DEF IInv, TypeOK, Quiet
<1>4. arrived \in Seq(Traded) /\ channel \in Seq(Traded)
  BY DEF IInv, Sequences
<1>5. channel \o batch = channel
  BY <1>3, <1>4, ConcatEmptySeq
<1>6. Sequences'
  BY <1>1, <1>2, <1>4, ConcatProperties DEF Sequences
<1>7. ASSUME NEW S, NEW group \in Seq(Traded), Kept(arrived, S) = group \o Kept(channel, S)
      PROVE  Kept(arrived \o kept, S) = group \o Kept(channel \o kept, S)
  <2>1. Kept(arrived \o kept, S) = Kept(arrived, S) \o Kept(kept, S)
    BY <1>1, <1>4, KeptConcat
  <2>2. Kept(channel \o kept, S) = Kept(channel, S) \o Kept(kept, S)
    BY <1>1, <1>4, KeptConcat
  <2>3. Kept(channel, S) \in Seq(Traded) /\ Kept(kept, S) \in Seq(Traded)
    BY <1>1, <1>4, KeptIs
  <2> QED
    BY <1>7, <2>1, <2>2, <2>3, ConcatAssociative
<1>8. BothViewsComplete'
  <2>1. ASSUME NEW w \in Wallets
        PROVE  Kept(arrived', OfWallet(w))
                 = Grouped(walletTrades', w) \o Kept(channel' \o batch', OfWallet(w))
    <3>1. Grouped(walletTrades, w) \in Seq(Traded)
      BY GroupInTraded DEF IInv
    <3>2. Kept(arrived, OfWallet(w)) = Grouped(walletTrades, w) \o Kept(channel, OfWallet(w))
      BY <1>5 DEF IInv, BothViewsComplete
    <3> QED
      BY <1>2, <1>7, <3>1, <3>2
  <2>2. ASSUME NEW m \in Tokens
        PROVE  Kept(arrived', OfToken(m))
                 = Grouped(tokenTrades', m) \o Kept(channel' \o batch', OfToken(m))
    <3>1. Grouped(tokenTrades, m) \in Seq(Traded)
      BY GroupInTraded DEF IInv
    <3>2. Kept(arrived, OfToken(m)) = Grouped(tokenTrades, m) \o Kept(channel, OfToken(m))
      BY <1>5 DEF IInv, BothViewsComplete
    <3> QED
      BY <1>2, <1>7, <3>1, <3>2
  <2>3. phase' = "aggregate"
    BY <1>2, <1>3
  <2> QED
    BY <2>1, <2>2, <2>3 DEF BothViewsComplete, Grouped, OfWallet, OfToken, Wallets, Tokens
<1>9. GroupsOK' /\ ProfilesSay' /\ AttemptsLeft' /\ Quiet'
  BY <1>2, <1>3 DEF IInv, GroupsOK, ProfilesSay, AttemptsLeft, Quiet
<1>10. TypeOK'
  BY <1>2 DEF IInv, TypeOK
<1> QED
  BY <1>6, <1>8, <1>9, <1>10 DEF IInv

\* A head moved to the end before it leaves the row as it was.
LEMMA MoveHead ==
  ASSUME NEW T, NEW a \in Seq(T), NEW b \in Seq(T), b # << >>
  PROVE  /\ Append(a, Head(b)) \o Tail(b) = a \o b
         /\ b = <<Head(b)>> \o Tail(b)
<1> DEFINE h == Head(b)
           r == Tail(b)
           one == <<h>>
<1>1. h \in T /\ r \in Seq(T) /\ Len(r) = Len(b) - 1 /\ Len(b) \in Nat \ {0}
      /\ \A i \in 1..Len(r) : r[i] = b[i + 1]
  BY HeadTailProperties, EmptySeq
<1>2. h = b[1]
  OBVIOUS
<1> HIDE DEF h, r
<1>3. one \in Seq(T) /\ Len(one) = 1 /\ one[1] = h
  BY <1>1
<1>4. Append(a, h) = a \o one
  BY <1>1, AppendIsConcat
<1> HIDE DEF one
<1>5. one \o r = b
  <2>0. one \in Seq(T) /\ r \in Seq(T)
    BY <1>1, <1>3
  <2>5. /\ one \o r \in Seq(T) /\ Len(one \o r) = Len(one) + Len(r)
        /\ \A i \in 1..Len(one) + Len(r) :
             (one \o r)[i] = IF i <= Len(one) THEN one[i] ELSE r[i - Len(one)]
    BY <2>0, ConcatProperties
  <2>1. /\ one \o r \in Seq(T) /\ Len(one \o r) = 1 + Len(r)
        /\ \A i \in 1..1 + Len(r) : (one \o r)[i] = IF i <= 1 THEN one[i] ELSE r[i - 1]
    BY <1>3, <2>5
  <2>2. Len(one \o r) = Len(b)
    BY <1>1, <2>1
  <2>3. ASSUME NEW i \in 1..Len(b) PROVE (one \o r)[i] = b[i]
    <3>1. CASE i = 1
      BY <1>1, <1>2, <1>3, <2>1, <3>1
    <3>2. CASE i # 1
      <4>1. i \in 1..1 + Len(r) /\ ~(i <= 1) /\ i - 1 \in 1..Len(r) /\ (i - 1) + 1 = i
        BY <1>1, <3>2
      <4> QED
        BY <1>1, <2>1, <4>1
    <3> QED
      BY <3>1, <3>2
  <2> QED
    BY <2>1, <2>2, <2>3, SeqEqual
<1>6. (a \o one) \o r = a \o (one \o r)
  BY <1>1, <1>3, ConcatAssociative
<1> QED
  BY <1>4, <1>5, <1>6 DEF h, r, one

LEMMA SendKeeps ==
  ASSUME IInv, Send
  PROVE  IInv'
<1>1. /\ streamer = "send" /\ Len(channel) < ChannelSize
      /\ channel' = Append(channel, Head(batch)) /\ batch' = Tail(batch)
      /\ streamer' = IF Len(batch) = 1 THEN "stream" ELSE "send"
      /\ UNCHANGED <<retries, arrived, mainVars>>
  BY DEF Send
<1> USE DEF mainVars, groupVars
<1>2. batch # << >> /\ phase = "aggregate"
  BY <1>1 DEF IInv, TypeOK, Quiet
<1>3. arrived \in Seq(Traded) /\ batch \in Seq(Traded) /\ channel \in Seq(Traded)
  BY DEF IInv, Sequences
<1>4. /\ Head(batch) \in Traded /\ Tail(batch) \in Seq(Traded)
      /\ Len(Tail(batch)) = Len(batch) - 1 /\ Len(batch) \in Nat \ {0}
  BY <1>2, <1>3, HeadTailProperties, EmptySeq
<1>5. channel' \o batch' = channel \o batch
  BY <1>1, <1>2, <1>3, MoveHead
<1>6. Sequences'
  BY <1>1, <1>3, <1>4, AppendProperties DEF Sequences
<1>7. BothViewsComplete'
  <2> DEFINE coming == channel \o batch
  <2>1. phase' = "aggregate"
    BY <1>1, <1>2
  <2>2. \A w \in Wallets :
          Kept(arrived, OfWallet(w)) = Grouped(walletTrades, w) \o Kept(coming, OfWallet(w))
    BY DEF IInv, BothViewsComplete
  <2>3. \A m \in Tokens :
          Kept(arrived, OfToken(m)) = Grouped(tokenTrades, m) \o Kept(coming, OfToken(m))
    BY DEF IInv, BothViewsComplete
  <2>4. channel' \o batch' = coming
    BY <1>5
  <2> HIDE DEF coming
  <2> QED
    BY <1>1, <2>1, <2>2, <2>3, <2>4 DEF BothViewsComplete, Grouped
<1>8. TypeOK'
  <2>1. batch' # << >> <=> streamer' = "send"
    <3>1. Tail(batch) = << >> <=> Len(batch) = 1
      <4> DEFINE r == Tail(batch)
      <4>1. r \in Seq(Traded) /\ Len(r) = Len(batch) - 1 /\ Len(batch) \in Nat
        BY <1>4
      <4> HIDE DEF r
      <4>2. r = << >> <=> Len(r) = 0
        BY <4>1, EmptySeq
      <4> QED
        BY <4>1, <4>2 DEF r
    <3> QED
      BY <1>1, <3>1
  <2>2. Len(channel') <= ChannelSize
    <3>1. Len(channel') = Len(channel) + 1 /\ Len(channel) \in Nat /\ ChannelSize \in Nat
      BY <1>1, <1>3, <1>4, AppendProperties, LenProperties, StreamAssumption
    <3> QED
      BY <1>1, <3>1
  <2> QED
    BY <1>1, <2>1, <2>2 DEF IInv, TypeOK
<1>9. GroupsOK' /\ ProfilesSay' /\ AttemptsLeft' /\ Quiet'
  BY <1>1, <1>2 DEF IInv, GroupsOK, ProfilesSay, AttemptsLeft, Quiet
<1> QED
  BY <1>6, <1>7, <1>8, <1>9 DEF IInv

-----------------------------------------------------------------------------
(* Steps of the aggregator.                                                *)

\* The trades of a key, some in its list and the others, those in S, still coming.
RowOf(groups, k, coming, S) == Grouped(groups, k) \o Kept(coming, S)

\* t comes first, then the others.
Leads(t, coming, others) == coming = <<t>> \o others

\* A trade that moves from the head of what is coming to the list of its key.
LEMMA ViewMoves ==
  ASSUME NEW T, NEW S, NEW groups, NEW key, NEW k, NEW t \in T, NEW r \in Seq(T),
         t \in S <=> k = key, Grouped(groups, k) \in Seq(T), NEW c, Leads(t, c, r)
  PROVE  RowOf(groups, k, c, S) = RowOf(Pushed(groups, key, t), k, r, S)
<1> DEFINE one == <<t>>
           rest == Kept(r, S)
           old == Grouped(groups, k)
           new == Grouped(Pushed(groups, key, t), k)
<1>1. one \in Seq(T) /\ rest \in Seq(T) /\ old \in Seq(T)
  BY KeptIs
<1>2. Kept(one, S) = IF t \in S THEN one ELSE << >>
  BY KeptOne
<1>3. new = IF t \in S THEN old \o one ELSE old
  <2>1. DOMAIN Pushed(groups, key, t) = DOMAIN groups \cup {key}
    BY DEF Pushed
  <2>2. CASE k # key
    BY <2>1, <2>2 DEF Pushed, Grouped
  <2>3. CASE k = key /\ k \in DOMAIN groups
    <3>1. old = groups[k] /\ new = Append(groups[k], t)
      BY <2>1, <2>3 DEF Pushed, Grouped
    <3>2. new = Append(old, t)
      BY <3>1
    <3> HIDE DEF old, new
    <3>3. Append(old, t) = old \o one
      BY <1>1, AppendIsConcat
    <3> QED
      BY <2>3, <3>2, <3>3
  <2>4. CASE k = key /\ k \notin DOMAIN groups
    <3>1. old = << >> /\ new = one
      BY <2>1, <2>4 DEF Pushed, Grouped
    <3>2. << >> \o one = one
      BY <1>1, ConcatEmptySeq
    <3> HIDE DEF old, new, one
    <3> QED
      BY <2>4, <3>1, <3>2
  <2> QED
    BY <2>2, <2>3, <2>4
<1> HIDE DEF one, old, new
<1>4. Kept(one \o r, S) = Kept(one, S) \o rest
  <2>1. one \in Seq(T)
    BY <1>1
  <2> QED
    BY <2>1, KeptConcat
<1> HIDE DEF rest
<1>5. new \o rest = old \o Kept(one \o r, S)
  <2>1. CASE t \in S
    <3>1. (old \o one) \o rest = old \o (one \o rest)
      BY <1>1, ConcatAssociative
    <3> QED
      BY <1>2, <1>3, <1>4, <2>1, <3>1
  <2>2. CASE t \notin S
    <3>1. << >> \o rest = rest
      BY <1>1, ConcatEmptySeq
    <3> QED
      BY <1>2, <1>3, <1>4, <2>2, <3>1
  <2> QED
    BY <2>1, <2>2
<1> QED
  BY <1>5 DEF one, rest, old, new, RowOf, Leads

\* A group with a trade pushed holds trades of its keys.
LEMMA PushedOK ==
  ASSUME NEW groups, NEW key, NEW t, NEW k \in DOMAIN Pushed(groups, key, t), NEW S,
         k = key => t \in S, k \in DOMAIN groups => groups[k] \in Seq(S)
  PROVE  Pushed(groups, key, t)[k] \in Seq(S)
<1>1. CASE k # key
  BY <1>1 DEF Pushed
<1>2. CASE k = key /\ k \in DOMAIN groups
  <2> DEFINE old == groups[k]
  <2>1. Pushed(groups, key, t)[k] = Append(old, t) /\ old \in Seq(S) /\ t \in S
    BY <1>2 DEF Pushed
  <2> HIDE DEF old
  <2> QED
    BY <2>1, AppendProperties
<1>3. CASE k = key /\ k \notin DOMAIN groups
  <2>1. Pushed(groups, key, t)[k] = <<t>> /\ t \in S
    BY <1>3 DEF Pushed
  <2> QED
    BY <2>1
<1> QED
  BY <1>1, <1>2, <1>3

LEMMA KeysAgree ==
  ASSUME GroupsOK'
  PROVE  /\ \A w \in DOMAIN walletTrades' : \A i \in DOMAIN walletTrades'[w] :
              walletTrades'[w][i].wallet = w
         /\ \A m \in DOMAIN tokenTrades' : \A i \in DOMAIN tokenTrades'[m] :
              tokenTrades'[m][i].mint = m
<1>1. ASSUME NEW w \in DOMAIN walletTrades', NEW i \in DOMAIN walletTrades'[w]
      PROVE  walletTrades'[w][i].wallet = w
  <2>1. walletTrades'[w] \in Seq(OfWallet(w))
    BY DEF GroupsOK, OfWallet
  <2>2. walletTrades'[w][i] \in OfWallet(w)
    BY <2>1
  <2> QED
    BY <2>2 DEF OfWallet
<1>2. ASSUME NEW m \in DOMAIN tokenTrades', NEW i \in DOMAIN tokenTrades'[m]
      PROVE  tokenTrades'[m][i].mint = m
  <2>1. tokenTrades'[m] \in Seq(OfToken(m))
    BY DEF GroupsOK, OfToken
  <2>2. tokenTrades'[m][i] \in OfToken(m)
    BY <2>1
  <2> QED
    BY <2>2 DEF OfToken
<1> QED
  BY <1>1, <1>2

LEMMA AggregateKeeps ==
  ASSUME IInv, Aggregate
  PROVE  IInv'
<1> DEFINE t == Head(channel)
<1>1. /\ phase = "aggregate" /\ channel # << >> /\ channel' = Tail(channel)
      /\ walletTrades' = Pushed(walletTrades, t.wallet, t)
      /\ tokenTrades' = Pushed(tokenTrades, t.mint, t)
      /\ UNCHANGED <<streamVars, phase, profiles, top>>
  BY DEF Aggregate
<1> USE DEF streamVars
<1>2. arrived \in Seq(Traded) /\ batch \in Seq(Traded) /\ channel \in Seq(Traded)
  BY DEF IInv, Sequences
<1>3. /\ t \in Traded /\ Tail(channel) \in Seq(Traded)
      /\ Len(Tail(channel)) = Len(channel) - 1 /\ Len(channel) \in Nat
  BY <1>1, <1>2, HeadTailProperties, EmptySeq
<1>4. channel \o batch = <<t>> \o (Tail(channel) \o batch)
  <2> DEFINE one == <<t>>
             r == Tail(channel)
  <2>1. channel = one \o r
    BY <1>1, <1>2, MoveHead
  <2>2. one \in Seq(Traded) /\ r \in Seq(Traded) /\ batch \in Seq(Traded)
    BY <1>2, <1>3
  <2> HIDE DEF one, r
  <2>3. (one \o r) \o batch = one \o (r \o batch)
    BY <2>2, ConcatAssociative
  <2> QED
    BY <2>1, <2>3 DEF one, r
<1> DEFINE rest == Tail(channel) \o batch
<1>5. rest \in Seq(Traded) /\ channel \o batch = <<t>> \o rest /\ channel' \o batch' = rest
  BY <1>1, <1>2, <1>3, <1>4, ConcatProperties
<1> HIDE DEF t, rest
<1>6. Sequences'
  BY <1>1, <1>2, <1>3 DEF Sequences
<1>7. BothViewsComplete'
  <2>1. ASSUME NEW w \in Wallets
        PROVE  Kept(arrived', OfWallet(w))
                 = Grouped(walletTrades', w) \o Kept(channel' \o batch', OfWallet(w))
    <3>1. Grouped(walletTrades, w) \in Seq(Traded)
      BY GroupInTraded DEF IInv
    <3>2. t \in OfWallet(w) <=> w = t.wallet
      BY <1>3 DEF OfWallet
    <3>3. Kept(arrived, OfWallet(w)) = RowOf(walletTrades, w, channel \o batch, OfWallet(w))
      BY DEF IInv, BothViewsComplete, RowOf
    <3>4. t \in Traded /\ rest \in Seq(Traded) /\ Leads(t, channel \o batch, rest)
      BY <1>3, <1>5 DEF Leads
    <3>5. RowOf(walletTrades, w, channel \o batch, OfWallet(w))
            = RowOf(Pushed(walletTrades, t.wallet, t), w, rest, OfWallet(w))
      BY <3>1, <3>2, <3>4, ViewMoves
    <3> QED
      BY <1>1, <1>5, <3>3, <3>5 DEF RowOf
  <2>2. ASSUME NEW m \in Tokens
        PROVE  Kept(arrived', OfToken(m))
                 = Grouped(tokenTrades', m) \o Kept(channel' \o batch', OfToken(m))
    <3>1. Grouped(tokenTrades, m) \in Seq(Traded)
      BY GroupInTraded DEF IInv
    <3>2. t \in OfToken(m) <=> m = t.mint
      BY <1>3 DEF OfToken
    <3>3. Kept(arrived, OfToken(m)) = RowOf(tokenTrades, m, channel \o batch, OfToken(m))
      BY DEF IInv, BothViewsComplete, RowOf
    <3>4. t \in Traded /\ rest \in Seq(Traded) /\ Leads(t, channel \o batch, rest)
      BY <1>3, <1>5 DEF Leads
    <3>5. RowOf(tokenTrades, m, channel \o batch, OfToken(m))
            = RowOf(Pushed(tokenTrades, t.mint, t), m, rest, OfToken(m))
      BY <3>1, <3>2, <3>4, ViewMoves
    <3> QED
      BY <1>1, <1>5, <3>3, <3>5 DEF RowOf
  <2>3. phase' = "aggregate"
    BY <1>1
  <2> QED
    BY <2>1, <2>2, <2>3 DEF BothViewsComplete, Grouped, OfWallet, OfToken, Wallets, Tokens
<1>8. GroupsOK'
  <2>1. ASSUME NEW w \in DOMAIN walletTrades' PROVE walletTrades'[w] \in Seq(OfWallet(w))
    <3>1. w = t.wallet => t \in OfWallet(w)
      BY <1>3 DEF OfWallet
    <3>2. w \in DOMAIN walletTrades => walletTrades[w] \in Seq(OfWallet(w))
      BY DEF IInv, GroupsOK
    <3> QED
      BY <1>1, <2>1, <3>1, <3>2, PushedOK
  <2>2. ASSUME NEW m \in DOMAIN tokenTrades' PROVE tokenTrades'[m] \in Seq(OfToken(m))
    <3>1. m = t.mint => t \in OfToken(m)
      BY <1>3 DEF OfToken
    <3>2. m \in DOMAIN tokenTrades => tokenTrades[m] \in Seq(OfToken(m))
      BY DEF IInv, GroupsOK
    <3> QED
      BY <1>1, <2>2, <3>1, <3>2, PushedOK
  <2> QED
    BY <2>1, <2>2 DEF GroupsOK, OfWallet, OfToken
<1>9. DOMAIN profiles = {} /\ DOMAIN profiles' = {}
  BY <1>1 DEF IInv, Quiet
<1>10. ProfilesSay' /\ AttemptsLeft' /\ Quiet'
  BY <1>1, <1>9 DEF IInv, ProfilesSay, AttemptsLeft, Quiet
<1>11. TypeOK'
  <2>1. Len(channel') <= ChannelSize
    <3>1. Len(channel) <= ChannelSize /\ ChannelSize \in Nat
      BY StreamAssumption DEF IInv, TypeOK
    <3> QED
      BY <1>1, <1>3, <3>1
  <2>2. /\ \A w \in DOMAIN walletTrades' : \A i \in DOMAIN walletTrades'[w] :
             walletTrades'[w][i].wallet = w
        /\ \A m \in DOMAIN tokenTrades' : \A i \in DOMAIN tokenTrades'[m] :
             tokenTrades'[m][i].mint = m
    BY <1>8, KeysAgree
  <2> QED
    BY <1>1, <1>9, <2>1, <2>2 DEF IInv, TypeOK
<1> QED
  BY <1>6, <1>7, <1>8, <1>10, <1>11 DEF IInv

-----------------------------------------------------------------------------
(* Profiles and filters.                                                   *)

Fields == {"trades", "cycles", "herded", "momentum", "reasons"}

LEMMA BuiltFacts ==
  ASSUME NEW s
  PROVE  LET p == BuildProfile(s)
         IN  /\ Fields \subseteq DOMAIN p /\ p.trades = Chronological(s)
             /\ p.cycles = MatchTradeCycles(p.trades)
<1> DEFINE q == Profile(Chronological(s))
<1>1. /\ Fields \subseteq DOMAIN q /\ q.trades = Chronological(s)
      /\ q.cycles = MatchTradeCycles(q.trades)
  BY DEF Profile, Fields
<1>2. BuildProfile(s) = q \/ BuildProfile(s) = Disqualify(q, "cycles")
  BY DEF BuildProfile
<1> HIDE DEF q
<1>3. DOMAIN Disqualify(q, "cycles") = DOMAIN q
  BY DEF Disqualify
<1>4. Disqualify(q, "cycles").trades = q.trades /\ Disqualify(q, "cycles").cycles = q.cycles
  BY <1>1 DEF Disqualify, Fields
<1> QED
  BY <1>1, <1>2, <1>3, <1>4

\* The filters only write their verdicts.
LEMMA FiltersKeep ==
  ASSUME NEW p, Fields \subseteq DOMAIN p, NEW tokens,
         NEW q \in {FilterA(p), FilterB(p, tokens), FilterC(p, tokens), FilterD(p)}
  PROVE  Fields \subseteq DOMAIN q /\ q.trades = p.trades /\ q.cycles = p.cycles
<1> DEFINE Same(r) == DOMAIN r = DOMAIN p /\ r.trades = p.trades /\ r.cycles = p.cycles
<1>1. ASSUME NEW r, Same(r), NEW reason PROVE Same(Disqualify(r, reason))
  BY <1>1 DEF Disqualify, Fields
<1>2. Same(p)
  OBVIOUS
<1>3. ASSUME NEW n PROVE Same([p EXCEPT !.herded = n]) /\ Same([p EXCEPT !.momentum = n])
  BY DEF Fields
<1> HIDE DEF Same
<1>4. Same(FilterA(p))
  BY <1>1, <1>2 DEF FilterA
<1>5. Same(FilterB(p, tokens))
  BY <1>1, <1>2, <1>3 DEF FilterB
<1>6. Same(FilterC(p, tokens))
  BY <1>1, <1>2, <1>3 DEF FilterC
<1>7. Same(FilterD(p))
  BY <1>1, <1>2 DEF FilterD
<1>8. Same(q)
  BY <1>4, <1>5, <1>6, <1>7
<1> QED
  BY <1>8 DEF Same

-----------------------------------------------------------------------------
(* Steps of the main task.                                                 *)

\* Once the channel is closed, the main task touches profiles and ranking only.
LEMMA GoesOn ==
  ASSUME IInv, channel = << >>, streamer \in {"done", "failed"},
         phase' \in {"join", "filterA", "filterB", "filterC", "filterD",
                    "rank", "report", "written", "failed"},
         UNCHANGED <<streamVars, channel, groupVars>>,
         DOMAIN profiles' \subseteq DOMAIN walletTrades,
         ToSet(top') \subseteq DOMAIN profiles', ProfilesSay'
  PROVE  IInv'
<1> USE DEF streamVars, groupVars
<1>1. batch = << >>
  BY DEF IInv, TypeOK
<1>2. channel' \o batch' = << >> /\ channel \o batch = << >>
  <2>1. << >> \o << >> = << >>
    OBVIOUS
  <2> QED
    BY <1>1, <2>1
<1>3. BothViewsComplete'
  BY <1>2 DEF IInv, BothViewsComplete, Grouped
<1>4. Sequences' /\ GroupsOK' /\ AttemptsLeft' /\ Quiet'
  BY DEF IInv, Sequences, GroupsOK, AttemptsLeft, Quiet
<1>5. TypeOK'
  BY DEF IInv, TypeOK
<1> QED
  BY <1>3, <1>4, <1>5 DEF IInv

LEMMA BuildKeeps ==
  ASSUME IInv, Build
  PROVE  IInv'
<1>1. /\ phase = "aggregate" /\ channel = << >> /\ streamer \in {"done", "failed"}
      /\ profiles' = [w \in {v \in DOMAIN walletTrades : Len(walletTrades[v]) >= MinTrades}
                        |-> BuildProfile(walletTrades[w])]
      /\ phase' = "join" /\ UNCHANGED <<streamVars, channel, groupVars, top>>
  BY DEF Build
<1>2. DOMAIN profiles' \subseteq DOMAIN walletTrades
  BY <1>1
<1>3. ProfilesSay'
  <2>1. ASSUME NEW w \in DOMAIN profiles'
        PROVE  /\ Fields \subseteq DOMAIN profiles'[w]
               /\ profiles'[w].trades = Chronological(walletTrades'[w])
               /\ profiles'[w].cycles = MatchTradeCycles(profiles'[w].trades)
    <3>1. profiles'[w] = BuildProfile(walletTrades[w]) /\ walletTrades'[w] = walletTrades[w]
      BY <1>1 DEF groupVars
    <3> QED
      BY <3>1, BuiltFacts
  <2> QED
    BY <2>1 DEF ProfilesSay, Fields
<1>4. ToSet(top') \subseteq DOMAIN profiles'
  <2>1. ToSet(top) \subseteq {}
    BY <1>1 DEF IInv, TypeOK, Quiet
  <2> QED
    BY <1>1, <2>1 DEF ToSet
<1> QED
  BY <1>1, <1>2, <1>3, <1>4, GoesOn

LEMMA PassKeeps ==
  ASSUME IInv, PassA \/ PassB \/ PassC \/ PassD
  PROVE  IInv'
<1>1. PICK judged : \E from \in {"filterA", "filterB", "filterC", "filterD"},
                      to \in {"filterB", "filterC", "filterD", "rank"} :
        /\ Pass(from, to, judged)
        /\ \A w \in DOMAIN profiles :
             judged[w] \in {FilterA(profiles[w]), FilterB(profiles[w], tokenTrades),
                           FilterC(profiles[w], tokenTrades), FilterD(profiles[w])}
  <2>1. CASE PassA
    BY <2>1 DEF PassA
  <2>2. CASE PassB
    BY <2>2 DEF PassB
  <2>3. CASE PassC
    BY <2>3 DEF PassC
  <2>4. CASE PassD
    BY <2>4 DEF PassD
  <2> QED
    BY <2>1, <2>2, <2>3, <2>4
<1>2. /\ phase # "aggregate" /\ phase' \in {"filterB", "filterC", "filterD", "rank"}
      /\ profiles' = [w \in DOMAIN profiles |->
                        IF Disqualified(profiles[w]) THEN profiles[w] ELSE judged[w]]
      /\ UNCHANGED <<streamVars, channel, groupVars, top>>
  BY <1>1 DEF Pass
<1>3. channel = << >> /\ streamer \in {"done", "failed"}
  BY <1>2 DEF IInv, Quiet
<1>4. DOMAIN profiles' = DOMAIN profiles
  BY <1>2
<1>5. DOMAIN profiles' \subseteq DOMAIN walletTrades /\ ToSet(top') \subseteq DOMAIN profiles'
  BY <1>2, <1>4 DEF IInv, TypeOK
<1>6. ProfilesSay'
  <2>1. ASSUME NEW w \in DOMAIN profiles
        PROVE  /\ Fields \subseteq DOMAIN profiles'[w]
               /\ profiles'[w].trades = Chronological(walletTrades'[w])
               /\ profiles'[w].cycles = MatchTradeCycles(profiles'[w].trades)
    <3>1. /\ Fields \subseteq DOMAIN profiles[w]
          /\ profiles[w].trades = Chronological(walletTrades[w])
          /\ profiles[w].cycles = MatchTradeCycles(profiles[w].trades)
      BY DEF IInv, ProfilesSay, Fields
    <3>2. profiles'[w] = profiles[w] \/ profiles'[w] = judged[w]
      BY <1>2
    <3>3. judged[w] \in {FilterA(profiles[w]), FilterB(profiles[w], tokenTrades),
                        FilterC(profiles[w], tokenTrades), FilterD(profiles[w])}
      BY <1>1
    <3>4. /\ Fields \subseteq DOMAIN profiles'[w]
          /\ profiles'[w].trades = profiles[w].trades
          /\ profiles'[w].cycles = profiles[w].cycles
      BY <3>1, <3>2, <3>3, FiltersKeep
    <3>5. walletTrades' = walletTrades
      BY <1>2 DEF groupVars
    <3> QED
      BY <3>1, <3>4, <3>5
  <2> QED
    BY <1>4, <2>1 DEF ProfilesSay, Fields
<1> QED
  BY <1>2, <1>3, <1>5, <1>6, GoesOn

\* A ranking is of profiles that are not disqualified.
LEMMA RankedFacts ==
  ASSUME NEW r \in Rankings(profiles)
  PROVE  ToSet(r) \subseteq Candidates(profiles)
<1>1. PICK S \in SUBSET Candidates(profiles) : r \in SetToSeqs(S)
  BY DEF Rankings
<1>2. r \in [1..Cardinality(S) -> S]
  BY <1>1 DEF SetToSeqs
<1> QED
  BY <1>2 DEF ToSet

LEMMA MainKeeps ==
  ASSUME IInv, Join \/ Rank \/ Report
  PROVE  IInv'
<1>1. /\ phase # "aggregate" /\ profiles' = profiles
      /\ phase' \in {"filterA", "report", "written", "failed"}
      /\ UNCHANGED <<streamVars, channel, groupVars>>
      /\ top' = top \/ top' \in Rankings(profiles)
  BY DEF Join, Rank, Report
<1>2. channel = << >> /\ streamer \in {"done", "failed"}
  BY <1>1 DEF IInv, Quiet
<1>3. Candidates(profiles) \subseteq DOMAIN profiles
  BY DEF Candidates
<1>4. ToSet(top') \subseteq DOMAIN profiles'
  BY <1>1, <1>3, RankedFacts DEF IInv, TypeOK
<1>5. DOMAIN profiles' \subseteq DOMAIN walletTrades
  BY <1>1 DEF IInv, TypeOK
<1>6. ProfilesSay'
  BY <1>1 DEF IInv, ProfilesSay, groupVars
<1> QED
  BY <1>1, <1>2, <1>4, <1>5, <1>6, GoesOn

LEMMA Inductive == IInv /\ [Next]_vars => IInv'
<1> SUFFICES ASSUME IInv, [Next]_vars PROVE IInv'
  OBVIOUS
<1>1. CASE Streamer
  BY <1>1, AttemptKeeps, RequestKeeps, DeliverKeeps, SendKeeps DEF Streamer
<1>2. CASE Main
  BY <1>2, AggregateKeeps, BuildKeeps, PassKeeps, MainKeeps DEF Main
<1>3. CASE UNCHANGED vars
  BY <1>3 DEF vars, streamVars, groupVars, IInv, TypeOK, BothViewsComplete, Grouped, Sequences,
              GroupsOK, AttemptsLeft, Quiet, ProfilesSay
<1> QED
  BY <1>1, <1>2, <1>3 DEF Next, Ended

-----------------------------------------------------------------------------
(* The FIFO matching of a token's trades.                                  *)

\* f is what Matching builds up.
Matched(f, s, m) ==
    f = [i \in 0..Len(s) |->
           IF i = 0 THEN [pending |-> << >>, cycles |-> {}]
           ELSE MatchTrade(s, m, f[i - 1], i)]

States == [pending : Seq(Nat), cycles : SUBSET (Nat \X Nat)]

LEMMA MatchTradeType ==
  ASSUME NEW s, NEW m, NEW acc \in States, NEW i \in Nat
  PROVE  MatchTrade(s, m, acc, i) \in States
<1> DEFINE P == acc.pending
           C == acc.cycles
<1>1. P \in Seq(Nat) /\ C \in SUBSET (Nat \X Nat) /\ acc = [pending |-> P, cycles |-> C]
  BY DEF States
<1> HIDE DEF P, C
<1>2. Append(P, i) \in Seq(Nat)
  BY <1>1, AppendProperties
<1>3. ASSUME P # << >>
      PROVE  /\ Tail(P) \in Seq(Nat)
             /\ C \cup {<<Head(P), i>>} \in SUBSET (Nat \X Nat)
  <2>1. Tail(P) \in Seq(Nat) /\ Head(P) \in Nat
    BY <1>1, <1>3, HeadTailProperties
  <2> QED
    BY <1>1, <2>1
<1> DEFINE D == C \cup {<<Head(P), i>>}
<1>4. \/ MatchTrade(s, m, acc, i) = acc
      \/ MatchTrade(s, m, acc, i) = [pending |-> Append(P, i), cycles |-> C]
      \/ P # << >> /\ MatchTrade(s, m, acc, i) = [pending |-> Tail(P), cycles |-> D]
  BY DEF MatchTrade, P, C
<1>5. P # << >> => D \in SUBSET (Nat \X Nat)
  BY <1>3
<1> HIDE DEF D
<1>6. CASE MatchTrade(s, m, acc, i) = acc
  BY <1>6
<1>7. CASE MatchTrade(s, m, acc, i) = [pending |-> Append(P, i), cycles |-> C]
  <2> DEFINE Q == Append(P, i)
  <2>1. Q \in Seq(Nat) /\ MatchTrade(s, m, acc, i) = [pending |-> Q, cycles |-> C]
    BY <1>2, <1>7
  <2> HIDE DEF Q
  <2> QED
    BY <1>1, <2>1 DEF States
<1>8. CASE P # << >> /\ MatchTrade(s, m, acc, i) = [pending |-> Tail(P), cycles |-> D]
  BY <1>3, <1>5, <1>8 DEF States
<1> QED
  BY <1>4, <1>6, <1>7, <1>8

\* Matching is a function of the numbers up to the length, with the steps of
\* MatchTrade.
LEMMA MatchingFacts ==
  ASSUME NEW T, NEW s \in Seq(T), NEW m
  PROVE  /\ Matching(s, m)[0] = [pending |-> << >>, cycles |-> {}]
         /\ \A i \in 1..Len(s) :
              Matching(s, m)[i] = MatchTrade(s, m, Matching(s, m)[i - 1], i)
         /\ \A i \in 0..Len(s) : Matching(s, m)[i] \in States
<1> DEFINE N == Len(s)
           none == [pending |-> << >>, cycles |-> {}]
           step == [i \in 1..N |-> [acc \in States |-> MatchTrade(s, m, acc, i)]]
<1>0. N \in Nat
  OBVIOUS
<1>1. none \in States
  <2>1. << >> \in Seq(Nat) /\ {} \in SUBSET (Nat \X Nat)
    OBVIOUS
  <2> QED
    BY <2>1 DEF States
<1> HIDE DEF N
<1>2. step \in [1..N -> [States -> States]]
  <2>1. ASSUME NEW i \in 1..N, NEW acc \in States PROVE MatchTrade(s, m, acc, i) \in States
    BY <1>0, MatchTradeType
  <2> QED
    BY <2>1
<1>3. \A i \in 1..N : \A acc \in States : step[i][acc] = MatchTrade(s, m, acc, i)
  OBVIOUS
<1> HIDE DEF none, step
<1>4. PICK f \in [0..N -> States] :
        f[0] = none /\ \A i \in 1..N : f[i] = step[i][f[i - 1]]
  BY <1>0, <1>1, <1>2, RecursionOn
<1>5. ASSUME NEW i \in 1..N PROVE f[i] = MatchTrade(s, m, f[i - 1], i)
  <2>1. i - 1 \in 0..N
    BY <1>0
  <2>2. f[i - 1] \in States
    BY <2>1
  <2> QED
    BY <1>3, <1>4, <2>2
<1>6. Matched(f, s, m)
  <2>1. \A i \in 0..N : f[i] = IF i = 0 THEN none ELSE MatchTrade(s, m, f[i - 1], i)
    BY <1>0, <1>4, <1>5
  <2>2. f = [i \in 0..N |-> f[i]]
    OBVIOUS
  <2> QED
    BY <2>1, <2>2 DEF Matched, N, none
<1> DEFINE g == CHOOSE h : Matched(h, s, m)
<1>7. Matched(g, s, m)
  BY <1>6
<1>8. Matching(s, m) = g
  BY DEF Matching, Matched
<1> HIDE DEF g
<1>9. \A i \in 0..N : g[i] = IF i = 0 THEN none ELSE MatchTrade(s, m, g[i - 1], i)
  BY <1>7 DEF Matched, N, none
<1>10. g[0] = none /\ \A i \in 1..N : g[i] = MatchTrade(s, m, g[i - 1], i)
  BY <1>0, <1>9
<1> DEFINE D == {i \in Nat : i <= N => g[i] \in States}
<1>11. 0 \in D
  BY <1>1, <1>10
<1>12. ASSUME NEW i \in Nat, i \in D PROVE i + 1 \in D
  <2> SUFFICES ASSUME i + 1 <= N PROVE g[i + 1] \in States
    OBVIOUS
  <2>1. i + 1 \in 1..N /\ (i + 1) - 1 = i /\ g[i] \in States
    BY <1>0, <1>12
  <2> QED
    BY <1>10, <2>1, MatchTradeType
<1> HIDE DEF D
<1>13. Nat \subseteq D
  BY <1>11, <1>12, InductionOn
<1>14. \A i \in 0..N : g[i] \in States
  BY <1>0, <1>13 DEF D
<1> QED
  BY <1>8, <1>10, <1>14 DEF N, none

Buy(s, m, i)  == s[i].mint = m /\ s[i].is_buy
Sell(s, m, i) == s[i].mint = m /\ ~s[i].is_buy

\* After i trades, of which P are the pending buys and C the cycles: the pending
\* buys are in order, the cycles are too and older than the pending buys, each
\* buy is pending or in a cycle, and a sell that is in none found no buy.
PendingOK(s, m, i, P) ==
    /\ \A k \in 1..Len(P) : P[k] \in 1..i /\ Buy(s, m, P[k])
    /\ \A k, l \in 1..Len(P) : k < l => P[k] < P[l]
CyclesOK(s, m, i, C) ==
    /\ \A c \in C : c[1] \in 1..i /\ c[2] \in 1..i /\ c[1] < c[2]
                    /\ Buy(s, m, c[1]) /\ Sell(s, m, c[2])
    /\ \A c, d \in C : c[1] < d[1] <=> c[2] < d[2]
OldestFirst(P, C) == \A c \in C, k \in 1..Len(P) : c[1] < P[k]
NoBuyLost(s, m, i, P, C) ==
    \A b \in 1..i : Buy(s, m, b) => \/ \E k \in 1..Len(P) : P[k] = b
                                   \/ \E c \in C : c[1] = b
NoSellSkipped(s, m, i, C) ==
    \A b, z \in 1..i : b < z /\ Buy(s, m, b) /\ Sell(s, m, z) =>
      \/ \E c \in C : c[1] = b /\ c[2] <= z
      \/ \E c \in C : c[2] = z
FifoSoFar(s, m, i, P, C) ==
    /\ PendingOK(s, m, i, P) /\ CyclesOK(s, m, i, C) /\ OldestFirst(P, C)
    /\ NoBuyLost(s, m, i, P, C) /\ NoSellSkipped(s, m, i, C)

\* A trade of another token.
LEMMA FifoOther ==
  ASSUME NEW s, NEW m, NEW i \in Nat, NEW P \in Seq(Nat), NEW C \in SUBSET (Nat \X Nat),
         FifoSoFar(s, m, i, P, C), ~Buy(s, m, i + 1), ~Sell(s, m, i + 1)
  PROVE  FifoSoFar(s, m, i + 1, P, C)
<1>1. 1..i \subseteq 1..i + 1 /\ \A b \in 1..i + 1 : b \in 1..i \/ b = i + 1
  OBVIOUS
<1>2. PendingOK(s, m, i + 1, P) /\ CyclesOK(s, m, i + 1, C)
  BY <1>1 DEF FifoSoFar, PendingOK, CyclesOK
<1>3. NoBuyLost(s, m, i + 1, P, C)
  BY <1>1 DEF FifoSoFar, NoBuyLost
<1>4. NoSellSkipped(s, m, i + 1, C)
  BY <1>1 DEF FifoSoFar, NoSellSkipped
<1> QED
  BY <1>2, <1>3, <1>4 DEF FifoSoFar

\* A buy joins the pending ones.
LEMMA FifoBuy ==
  ASSUME NEW s, NEW m, NEW i \in Nat, NEW P \in Seq(Nat), NEW C \in SUBSET (Nat \X Nat),
         FifoSoFar(s, m, i, P, C), Buy(s, m, i + 1)
  PROVE  FifoSoFar(s, m, i + 1, Append(P, i + 1), C)
<1> DEFINE Q == Append(P, i + 1)
           n == Len(P)
<1>1. 1..i \subseteq 1..i + 1 /\ \A b \in 1..i + 1 : b \in 1..i \/ b = i + 1
  OBVIOUS
<1>2. n \in Nat /\ Len(Q) = n + 1 /\ Q[n + 1] = i + 1 /\ \A k \in 1..n : Q[k] = P[k]
  OBVIOUS
<1> HIDE DEF Q
<1>3. \A k \in 1..n : P[k] \in 1..i /\ Buy(s, m, P[k])
  BY DEF FifoSoFar, PendingOK
<1>4. \A k, l \in 1..n : k < l => P[k] < P[l]
  BY DEF FifoSoFar, PendingOK
<1>5. \A c \in C : c[1] \in 1..i
  BY DEF FifoSoFar, CyclesOK
<1>6. \A c \in C, k \in 1..n : c[1] < P[k]
  BY DEF FifoSoFar, OldestFirst
<1> HIDE DEF n
<1>7. \A k \in 1..n + 1 : k \in 1..n \/ k = n + 1
  BY <1>2
<1>8. PendingOK(s, m, i + 1, Q)
  <2>1. ASSUME NEW k \in 1..n + 1 PROVE Q[k] \in 1..i + 1 /\ Buy(s, m, Q[k])
    <3>1. CASE k \in 1..n
      BY <1>1, <1>2, <1>3, <3>1
    <3>2. CASE k = n + 1
      BY <1>2, <3>2
    <3> QED
      BY <1>7, <3>1, <3>2
  <2>2. ASSUME NEW k \in 1..n + 1, NEW l \in 1..n + 1, k < l PROVE Q[k] < Q[l]
    <3>1. k \in 1..n /\ Q[k] = P[k] /\ P[k] \in 1..i
      <4>1. k \in 1..n
        BY <1>2, <2>2
      <4> QED
        BY <1>2, <1>3, <4>1
    <3>2. CASE l \in 1..n
      BY <1>2, <1>4, <2>2, <3>1, <3>2
    <3>3. CASE l = n + 1
      BY <1>2, <3>1, <3>3
    <3> QED
      BY <1>7, <3>2, <3>3
  <2> QED
    BY <1>2, <2>1, <2>2 DEF PendingOK
<1>9. CyclesOK(s, m, i + 1, C)
  BY <1>1 DEF FifoSoFar, CyclesOK
<1>10. OldestFirst(Q, C)
  <2>1. ASSUME NEW c \in C, NEW k \in 1..n + 1 PROVE c[1] < Q[k]
    <3>1. CASE k \in 1..n
      BY <1>2, <1>6, <3>1
    <3>2. CASE k = n + 1
      BY <1>2, <1>5, <3>2
    <3> QED
      BY <1>7, <3>1, <3>2
  <2> QED
    BY <1>2, <2>1 DEF OldestFirst
<1>11. NoBuyLost(s, m, i + 1, Q, C)
  <2>1. ASSUME NEW b \in 1..i + 1, Buy(s, m, b)
        PROVE  (\E k \in 1..n + 1 : Q[k] = b) \/ \E c \in C : c[1] = b
    <3>1. CASE b = i + 1
      <4>1. n + 1 \in 1..n + 1
        BY <1>2
      <4> QED
        BY <1>2, <3>1, <4>1
    <3>2. CASE b \in 1..i /\ \E k \in 1..n : P[k] = b
      <4>1. PICK k \in 1..n : P[k] = b
        BY <3>2
      <4>2. k \in 1..n + 1 /\ Q[k] = b
        BY <1>2, <4>1
      <4> QED
        BY <4>2
    <3>3. CASE b \in 1..i /\ \E c \in C : c[1] = b
      BY <3>3
    <3> QED
      BY <1>1, <2>1, <3>1, <3>2, <3>3 DEF FifoSoFar, NoBuyLost, n
  <2> QED
    BY <1>2, <2>1 DEF NoBuyLost
<1>12. NoSellSkipped(s, m, i + 1, C)
  <2>1. ~Sell(s, m, i + 1)
    BY DEF Buy, Sell
  <2>2. ASSUME NEW b \in 1..i + 1, NEW z \in 1..i + 1, b < z, Sell(s, m, z)
        PROVE  b \in 1..i /\ z \in 1..i
    BY <1>1, <2>1, <2>2
  <2> QED
    BY <2>2 DEF FifoSoFar, NoSellSkipped
<1> QED
  BY <1>8, <1>9, <1>10, <1>11, <1>12 DEF FifoSoFar, Q

\* A sell with no pending buy is ignored.
LEMMA FifoUnmatched ==
  ASSUME NEW s, NEW m, NEW i \in Nat, NEW P \in Seq(Nat), NEW C \in SUBSET (Nat \X Nat),
         FifoSoFar(s, m, i, P, C), Sell(s, m, i + 1), Len(P) = 0
  PROVE  FifoSoFar(s, m, i + 1, P, C)
<1>1. 1..i \subseteq 1..i + 1 /\ \A b \in 1..i + 1 : b \in 1..i \/ b = i + 1
  OBVIOUS
<1>2. PendingOK(s, m, i + 1, P) /\ CyclesOK(s, m, i + 1, C)
  BY <1>1 DEF FifoSoFar, PendingOK, CyclesOK
<1>3. ~Buy(s, m, i + 1)
  BY DEF Buy, Sell
<1>4. NoBuyLost(s, m, i + 1, P, C)
  BY <1>1, <1>3 DEF FifoSoFar, NoBuyLost
<1>5. NoSellSkipped(s, m, i + 1, C)
  <2> SUFFICES ASSUME NEW b \in 1..i + 1, NEW z \in 1..i + 1,
                      b < z, Buy(s, m, b), Sell(s, m, z)
               PROVE  \/ \E c \in C : c[1] = b /\ c[2] <= z
                      \/ \E c \in C : c[2] = z
    BY DEF NoSellSkipped
  <2>1. b \in 1..i
    BY <1>1, <1>3
  <2>2. CASE z \in 1..i
    BY <2>1, <2>2 DEF FifoSoFar, NoSellSkipped
  <2>3. CASE z = i + 1
    <3>1. ~ \E k \in 1..Len(P) : P[k] = b
      OBVIOUS
    <3>2. PICK c \in C : c[1] = b
      BY <2>1, <3>1 DEF FifoSoFar, NoBuyLost
    <3>3. c[2] \in 1..i
      BY DEF FifoSoFar, CyclesOK
    <3>4. c[2] <= z
      BY <2>3, <3>3
    <3> QED
      BY <3>2, <3>4
  <2> QED
    BY <1>1, <2>2, <2>3
<1> QED
  BY <1>2, <1>4, <1>5 DEF FifoSoFar

\* A sell takes the oldest pending buy.
LEMMA FifoSell ==
  ASSUME NEW s, NEW m, NEW i \in Nat, NEW P \in Seq(Nat), NEW C \in SUBSET (Nat \X Nat),
         FifoSoFar(s, m, i, P, C), Sell(s, m, i + 1), P # << >>
  PROVE  FifoSoFar(s, m, i + 1, Tail(P), C \cup {<<Head(P), i + 1>>})
<1> DEFINE Q == Tail(P)
           h == P[1]
           n == Len(P)
           e == <<h, i + 1>>
           D == C \cup {e}
<1>1. 1..i \subseteq 1..i + 1 /\ \A b \in 1..i + 1 : b \in 1..i \/ b = i + 1
  OBVIOUS
<1>2. /\ n \in Nat /\ n > 0 /\ Len(Q) = n - 1 /\ Head(P) = h
      /\ \A k \in 1..n - 1 : Q[k] = P[k + 1]
  BY EmptySeq, HeadTailProperties
<1>3. e[1] = h /\ e[2] = i + 1
  OBVIOUS
<1> HIDE DEF Q, e
<1>4. \A k \in 1..n : P[k] \in 1..i /\ Buy(s, m, P[k])
  BY DEF FifoSoFar, PendingOK
<1>5. \A k, l \in 1..n : k < l => P[k] < P[l]
  BY DEF FifoSoFar, PendingOK
<1>6. \A c \in C : c[1] \in 1..i /\ c[2] \in 1..i /\ c[1] < c[2]
                   /\ Buy(s, m, c[1]) /\ Sell(s, m, c[2])
  BY DEF FifoSoFar, CyclesOK
<1>7. \A c, d \in C : c[1] < d[1] <=> c[2] < d[2]
  BY DEF FifoSoFar, CyclesOK
<1>8. \A c \in C, k \in 1..n : c[1] < P[k]
  BY DEF FifoSoFar, OldestFirst
<1>9. \A b \in 1..i : Buy(s, m, b) => (\E k \in 1..n : P[k] = b) \/ \E c \in C : c[1] = b
  BY DEF FifoSoFar, NoBuyLost
<1> HIDE DEF n
<1>10. 1 \in 1..n /\ \A k \in 1..n - 1 : k \in 1..n /\ k + 1 \in 1..n
  BY <1>2
<1> HIDE DEF h
<1>11. h = P[1] /\ h \in 1..i /\ Buy(s, m, h) /\ \A c \in C : c[1] < h
  BY <1>4, <1>8, <1>10 DEF h
<1>12. ~Buy(s, m, i + 1)
  BY DEF Buy, Sell
<1>13. PendingOK(s, m, i + 1, Q)
  <2>1. ASSUME NEW k \in 1..n - 1 PROVE Q[k] \in 1..i + 1 /\ Buy(s, m, Q[k])
    <3>1. Q[k] = P[k + 1] /\ k + 1 \in 1..n
      BY <1>2, <1>10
    <3> QED
      BY <1>1, <1>4, <3>1
  <2>2. ASSUME NEW k \in 1..n - 1, NEW l \in 1..n - 1, k < l PROVE Q[k] < Q[l]
    <3>1. Q[k] = P[k + 1] /\ k + 1 \in 1..n /\ Q[l] = P[l + 1] /\ l + 1 \in 1..n
      BY <1>2, <1>10
    <3>2. k + 1 < l + 1
      BY <1>2, <2>2
    <3> QED
      BY <1>5, <3>1, <3>2
  <2> QED
    BY <1>2, <2>1, <2>2 DEF PendingOK
<1>14. CyclesOK(s, m, i + 1, D)
  <2>1. ASSUME NEW c \in D
        PROVE  /\ c[1] \in 1..i + 1 /\ c[2] \in 1..i + 1 /\ c[1] < c[2]
               /\ Buy(s, m, c[1]) /\ Sell(s, m, c[2])
    <3>1. CASE c \in C
      BY <1>1, <1>6, <3>1
    <3>2. CASE c = e
      BY <1>1, <1>3, <1>11, <3>2
    <3> QED
      BY <3>1, <3>2
  <2>2. ASSUME NEW c \in D, NEW d \in D PROVE c[1] < d[1] <=> c[2] < d[2]
    <3>1. CASE c \in C /\ d \in C
      BY <1>7, <3>1
    <3>2. CASE c \in C /\ d = e
      BY <1>3, <1>6, <1>11, <3>2
    <3>3. CASE c = e /\ d \in C
      BY <1>3, <1>6, <1>11, <3>3
    <3>4. CASE c = e /\ d = e
      BY <1>3, <1>11, <3>4
    <3> QED
      BY <3>1, <3>2, <3>3, <3>4
  <2> HIDE DEF D
  <2> QED
    BY <2>1, <2>2 DEF CyclesOK
<1>15. OldestFirst(Q, D)
  <2>1. ASSUME NEW c \in D, NEW k \in 1..n - 1 PROVE c[1] < Q[k]
    <3>1. Q[k] = P[k + 1] /\ k + 1 \in 1..n /\ 1 < k + 1
      BY <1>2, <1>10
    <3>2. CASE c \in C
      BY <1>8, <3>1, <3>2
    <3>3. CASE c = e
      BY <1>3, <1>5, <1>10, <1>11, <3>1, <3>3
    <3> QED
      BY <3>2, <3>3
  <2> HIDE DEF D
  <2> QED
    BY <1>2, <2>1 DEF OldestFirst
<1>16. NoBuyLost(s, m, i + 1, Q, D)
  <2>1. ASSUME NEW b \in 1..i + 1, Buy(s, m, b)
        PROVE  (\E k \in 1..n - 1 : Q[k] = b) \/ \E c \in D : c[1] = b
    <3>1. b \in 1..i
      BY <1>1, <1>12, <2>1
    <3>2. CASE \E c \in C : c[1] = b
      BY <3>2
    <3>3. CASE \E k \in 1..n : P[k] = b
      <4>1. PICK k \in 1..n : P[k] = b
        BY <3>3
      <4>2. CASE k = 1
        BY <1>3, <1>11, <4>1, <4>2
      <4>3. CASE k # 1
        <5>1. k - 1 \in 1..n - 1 /\ (k - 1) + 1 = k
          BY <1>2, <4>3
        <5>2. Q[k - 1] = b
          BY <1>2, <4>1, <5>1
        <5> QED
          BY <5>1, <5>2
      <4> QED
        BY <4>2, <4>3
    <3> QED
      BY <1>9, <2>1, <3>1, <3>2, <3>3
  <2> HIDE DEF D
  <2> QED
    BY <1>2, <2>1 DEF NoBuyLost
<1>17. NoSellSkipped(s, m, i + 1, D)
  <2>1. ASSUME NEW b \in 1..i + 1, NEW z \in 1..i + 1,
               b < z, Buy(s, m, b), Sell(s, m, z)
        PROVE  \/ \E c \in D : c[1] = b /\ c[2] <= z
               \/ \E c \in D : c[2] = z
    <3>1. b \in 1..i
      BY <1>1, <1>12, <2>1
    <3>2. CASE z \in 1..i
      BY <2>1, <3>1, <3>2 DEF FifoSoFar, NoSellSkipped
    <3>3. CASE z = i + 1
      BY <1>3, <3>3
    <3> QED
      BY <1>1, <3>2, <3>3
  <2> HIDE DEF D
  <2> QED
    BY <2>1 DEF NoSellSkipped
<1>18. FifoSoFar(s, m, i + 1, Q, D)
  BY <1>13, <1>14, <1>15, <1>16, <1>17 DEF FifoSoFar
<1> QED
  BY <1>2, <1>18 DEF Q, D, e

\* So it is after each trade.
LEMMA FifoAlways ==
  ASSUME NEW T, NEW s \in Seq(T), NEW m, NEW i \in 0..Len(s)
  PROVE  FifoSoFar(s, m, i, Matching(s, m)[i].pending, Matching(s, m)[i].cycles)
<1> DEFINE M == Matching(s, m)
           N == Len(s)
           Good(k) == FifoSoFar(s, m, k, M[k].pending, M[k].cycles)
           D == {k \in Nat : k <= N => Good(k)}
<1>0. N \in Nat
  OBVIOUS
<1>1. /\ M[0] = [pending |-> << >>, cycles |-> {}]
      /\ \A k \in 1..N : M[k] = MatchTrade(s, m, M[k - 1], k)
      /\ \A k \in 0..N : M[k] \in States
  BY MatchingFacts
<1> HIDE DEF M, N
<1>2. 0 \in D
  <2>1. M[0].pending = << >> /\ M[0].cycles = {} /\ Len(<< >>) = 0
    BY <1>1
  <2>2. FifoSoFar(s, m, 0, << >>, {})
    BY DEF FifoSoFar, PendingOK, CyclesOK, OldestFirst, NoBuyLost, NoSellSkipped
  <2> QED
    BY <2>1, <2>2
<1>3. ASSUME NEW k \in Nat, k \in D PROVE k + 1 \in D
  <2> SUFFICES ASSUME k + 1 <= N PROVE Good(k + 1)
    OBVIOUS
  <2> DEFINE P == M[k].pending
             C == M[k].cycles
  <2>1. k \in 0..N /\ k + 1 \in 1..N /\ (k + 1) - 1 = k /\ k <= N
    BY <1>0
  <2>2. P \in Seq(Nat) /\ C \in SUBSET (Nat \X Nat)
    BY <1>1, <2>1 DEF States
  <2>3. FifoSoFar(s, m, k, P, C)
    BY <1>3, <2>1
  <2>4. M[k + 1] = MatchTrade(s, m, M[k], k + 1)
    BY <1>1, <2>1
  <2> HIDE DEF P, C
  <2>5. CASE s[k + 1].mint # m
    <3>1. M[k + 1].pending = P /\ M[k + 1].cycles = C
      BY <2>4, <2>5 DEF MatchTrade, P, C
    <3>2. ~Buy(s, m, k + 1) /\ ~Sell(s, m, k + 1)
      BY <2>5 DEF Buy, Sell
    <3>3. FifoSoFar(s, m, k + 1, P, C)
      BY <2>2, <2>3, <3>2, FifoOther
    <3> QED
      BY <3>1, <3>3
  <2>6. CASE Buy(s, m, k + 1)
    <3> DEFINE Q == Append(P, k + 1)
    <3>1. FifoSoFar(s, m, k + 1, Q, C)
      BY <2>2, <2>3, <2>6, FifoBuy
    <3>2. M[k + 1] = [pending |-> Q, cycles |-> C]
      BY <2>4, <2>6 DEF MatchTrade, Buy, P, C
    <3> HIDE DEF Q
    <3>3. M[k + 1].pending = Q /\ M[k + 1].cycles = C
      BY <3>2
    <3> QED
      BY <3>1, <3>3
  <2>7. CASE Sell(s, m, k + 1) /\ P = << >>
    <3>1. M[k + 1].pending = P /\ M[k + 1].cycles = C
      BY <2>4, <2>7 DEF MatchTrade, Sell, P, C
    <3>2. Len(P) = 0
      BY <2>7
    <3>3. FifoSoFar(s, m, k + 1, P, C)
      BY <2>2, <2>3, <2>7, <3>2, FifoUnmatched
    <3> QED
      BY <3>1, <3>3
  <2>8. CASE Sell(s, m, k + 1) /\ P # << >>
    <3> DEFINE Q == Tail(P)
               E == C \cup {<<Head(P), k + 1>>}
    <3>1. FifoSoFar(s, m, k + 1, Q, E)
      BY <2>2, <2>3, <2>8, FifoSell
    <3>2. M[k + 1] = [pending |-> Q, cycles |-> E]
      BY <2>4, <2>8 DEF MatchTrade, Sell, P, C
    <3> HIDE DEF Q, E
    <3>3. M[k + 1].pending = Q /\ M[k + 1].cycles = E
      BY <3>2
    <3> QED
      BY <3>1, <3>3
  <2> QED
    BY <2>5, <2>6, <2>7, <2>8 DEF Buy, Sell
<1> HIDE DEF D
<1>4. Nat \subseteq D
  BY <1>2, <1>3, InductionOn
<1>5. i \in Nat /\ i <= N
  BY <1>0 DEF N
<1> QED
  BY <1>4, <1>5 DEF D, M

LEMMA FifoHolds ==
  ASSUME NEW T, NEW s \in Seq(T)
  PROVE  IsFifoMatching(s, MatchTradeCycles(s))
<1> DEFINE N == Len(s)
           All == MatchTradeCycles(s)
           Of(m) == MatchToken(s, m)
           Left(m) == Matching(s, m)[N].pending
           Minted == {s[i].mint : i \in DOMAIN s}
<1>0. N \in Nat /\ DOMAIN s = 1..N
  OBVIOUS
<1>1. \A c : c \in All <=> \E m \in Minted : c \in Of(m)
  BY DEF MatchTradeCycles
<1>2. ASSUME NEW m PROVE FifoSoFar(s, m, N, Left(m), Of(m))
  <2>1. N \in 0..Len(s)
    BY <1>0
  <2> QED
    BY <2>1, FifoAlways DEF MatchToken
<1>3. \A i \in 1..N : s[i].mint \in Minted
  BY <1>0
<1> HIDE DEF N, All, Of, Left, Minted
<1>4. ASSUME NEW m, NEW c \in Of(m)
      PROVE  /\ c[1] \in 1..N /\ c[2] \in 1..N /\ c[1] < c[2]
             /\ s[c[1]].mint = m /\ s[c[2]].mint = m
             /\ s[c[1]].is_buy /\ ~s[c[2]].is_buy
  BY <1>2 DEF FifoSoFar, CyclesOK, Buy, Sell
<1>5. \A c \in All : c[1] < c[2] /\ s[c[1]].is_buy /\ ~s[c[2]].is_buy
                     /\ s[c[1]].mint = s[c[2]].mint
  BY <1>1, <1>4
<1>6. ASSUME NEW c \in All, NEW d \in All, s[c[1]].mint = s[d[1]].mint
      PROVE  c[1] < d[1] <=> c[2] < d[2]
  <2>1. PICK m : c \in Of(m) /\ d \in Of(m)
    BY <1>1, <1>4, <1>6
  <2> QED
    BY <1>2, <2>1 DEF FifoSoFar, CyclesOK
<1>7. ASSUME NEW b \in 1..N, NEW z \in 1..N, b < z, s[b].mint = s[z].mint,
             s[b].is_buy, ~s[z].is_buy
      PROVE  (\E c \in All : c[1] = b /\ c[2] <= z) \/ (\E c \in All : c[2] = z)
  <2> DEFINE m == s[b].mint
  <2>1. Buy(s, m, b) /\ Sell(s, m, z)
    BY <1>7 DEF Buy, Sell
  <2>2. m \in Minted
    BY <1>3
  <2> HIDE DEF m
  <2>3. (\E c \in Of(m) : c[1] = b /\ c[2] <= z) \/ (\E c \in Of(m) : c[2] = z)
    BY <1>2, <1>7, <2>1 DEF FifoSoFar, NoSellSkipped
  <2> QED
    BY <1>1, <2>2, <2>3
<1>8. ASSUME NEW c \in All, NEW b \in 1..N,
             s[b].is_buy, b < c[1], s[b].mint = s[c[1]].mint
      PROVE  \E d \in All : d[1] = b
  <2>1. PICK m \in Minted : c \in Of(m)
    BY <1>1
  <2>2. Buy(s, m, b) /\ c[1] \in 1..N
    BY <1>4, <1>8, <2>1 DEF Buy
  <2>3. ~ \E k \in 1..Len(Left(m)) : Left(m)[k] = b
    <3>1. \A k \in 1..Len(Left(m)) : c[1] < Left(m)[k]
      BY <1>2, <2>1 DEF FifoSoFar, OldestFirst
    <3> QED
      BY <1>8, <2>2, <3>1
  <2>4. \E d \in Of(m) : d[1] = b
    BY <1>2, <2>2, <2>3 DEF FifoSoFar, NoBuyLost
  <2> QED
    BY <1>1, <2>4
<1>9. IsFifoMatching(s, All)
  BY <1>0, <1>5, <1>6, <1>7, <1>8 DEF IsFifoMatching
<1> QED
  BY <1>9 DEF All

-----------------------------------------------------------------------------
(* Chronological order.                                                    *)

\* The sequences that can be sorted.
Stamped(s) == \A i \in DOMAIN s : s[i].slot \in Nat /\ s[i].tx \in Nat

LEMMA EarlierIsTotal ==
  ASSUME NEW T, NEW s \in Seq(T), Stamped(s),
         NEW i \in DOMAIN s, NEW j \in DOMAIN s, NEW k \in DOMAIN s
  PROVE  /\ ~Earlier(s, i, i)
         /\ i # j => Earlier(s, i, j) \/ Earlier(s, j, i)
         /\ Earlier(s, i, j) /\ Earlier(s, j, k) => Earlier(s, i, k)
         /\ ~(Earlier(s, i, j) /\ Earlier(s, j, i))
<1>1. i \in Nat /\ j \in Nat /\ k \in Nat
  OBVIOUS
<1>2. /\ s[i].slot \in Nat /\ s[j].slot \in Nat /\ s[k].slot \in Nat
      /\ s[i].tx \in Nat /\ s[j].tx \in Nat /\ s[k].tx \in Nat
  BY DEF Stamped
<1>3. ~Earlier(s, i, i)
  BY <1>1, <1>2 DEF Earlier
<1>4. i # j => Earlier(s, i, j) \/ Earlier(s, j, i)
  BY <1>1, <1>2 DEF Earlier
<1>5. Earlier(s, i, j) /\ Earlier(s, j, k) => Earlier(s, i, k)
  <2> DEFINE a == s[i].slot  b == s[j].slot  c == s[k].slot
             d == s[i].tx    e == s[j].tx    f == s[k].tx
  <2>1. /\ Earlier(s, i, j) <=> a < b \/ (a = b /\ d < e) \/ (a = b /\ d = e /\ i < j)
        /\ Earlier(s, j, k) <=> b < c \/ (b = c /\ e < f) \/ (b = c /\ e = f /\ j < k)
        /\ Earlier(s, i, k) <=> a < c \/ (a = c /\ d < f) \/ (a = c /\ d = f /\ i < k)
    BY DEF Earlier
  <2>2. a \in Nat /\ b \in Nat /\ c \in Nat /\ d \in Nat /\ e \in Nat /\ f \in Nat
    BY <1>2
  <2> HIDE DEF a, b, c, d, e, f
  <2> QED
    BY <1>1, <2>1, <2>2
<1>6. ~(Earlier(s, i, j) /\ Earlier(s, j, i))
  BY <1>1, <1>2 DEF Earlier
<1> QED
  BY <1>3, <1>4, <1>5, <1>6

\* Some sets of natural numbers, and how large they are.
LEMMA UpToIsFinite ==
  ASSUME NEW n \in Nat, NEW S \in SUBSET (1..n)
  PROVE  IsFiniteSet(S) /\ Cardinality(S) \in 0..n
<1>1. IsFiniteSet(1..n) /\ Cardinality(1..n) = n
  BY FS_Interval
<1>2. IsFiniteSet(S) /\ Cardinality(S) <= n
  BY <1>1, FS_Subset
<1>3. Cardinality(S) \in Nat
  BY <1>2, FS_CardinalityType
<1> QED
  BY <1>2, <1>3

\* Each trade has a place of its own, and places follow the order.
LEMMA PlaceFacts ==
  ASSUME NEW T, NEW s \in Seq(T), Stamped(s)
  PROVE  /\ \A i \in 1..Len(s) : Place(s, i) \in 1..Len(s)
         /\ \A i, j \in 1..Len(s) : Earlier(s, i, j) => Place(s, i) < Place(s, j)
         /\ \A i, j \in 1..Len(s) : Place(s, i) = Place(s, j) => i = j
         /\ \A k \in 1..Len(s) : \E i \in 1..Len(s) : Place(s, i) = k
<1> DEFINE n == Len(s)
           UpTo(i) == {j \in 1..n : j = i \/ Earlier(s, j, i)}
           place == [i \in 1..n |-> Cardinality(UpTo(i))]
<1>0. n \in Nat /\ DOMAIN s = 1..n
  OBVIOUS
<1>1. ASSUME NEW i \in 1..n
      PROVE  /\ i \in UpTo(i) /\ IsFiniteSet(UpTo(i)) /\ Cardinality(UpTo(i)) \in 1..n
             /\ Place(s, i) = Cardinality(UpTo(i))
  <2>1. UpTo(i) \in SUBSET (1..n) /\ i \in UpTo(i) /\ UpTo(i) # {}
    OBVIOUS
  <2>2. IsFiniteSet(UpTo(i)) /\ Cardinality(UpTo(i)) \in 0..n
    BY <1>0, <2>1, UpToIsFinite
  <2>3. Cardinality(UpTo(i)) # 0
    BY <2>1, <2>2, FS_EmptySet
  <2>4. Place(s, i) = Cardinality(UpTo(i))
    BY <1>0 DEF Place
  <2> HIDE DEF UpTo
  <2> QED
    BY <1>0, <2>1, <2>2, <2>3, <2>4
<1>2. ASSUME NEW i \in 1..n, NEW j \in 1..n, Earlier(s, i, j)
      PROVE  Cardinality(UpTo(i)) < Cardinality(UpTo(j))
  <2>1. UpTo(i) \subseteq UpTo(j)
    BY <1>0, <1>2, EarlierIsTotal
  <2>2. j \in UpTo(j) /\ j \notin UpTo(i)
    <3>1. i \in DOMAIN s /\ j \in DOMAIN s /\ Earlier(s, i, j)
      BY <1>0, <1>2
    <3> HIDE DEF UpTo
    <3>2. ~Earlier(s, i, i) /\ ~(Earlier(s, i, j) /\ Earlier(s, j, i))
      BY <3>1, EarlierIsTotal
    <3>3. i # j /\ ~Earlier(s, j, i)
      BY <3>1, <3>2
    <3> QED
      BY <3>3 DEF UpTo
  <2> DEFINE a == UpTo(i)
             b == UpTo(j)
  <2>3. a \in SUBSET b /\ a # b /\ IsFiniteSet(b)
        /\ Cardinality(a) \in Nat /\ Cardinality(b) \in Nat
    <3>1. IsFiniteSet(b) /\ Cardinality(a) \in 1..n /\ Cardinality(b) \in 1..n
      BY <1>1
    <3> HIDE DEF UpTo
    <3> QED
      BY <1>0, <2>1, <2>2, <3>1
  <2> HIDE DEF a, b
  <2>4. Cardinality(a) <= Cardinality(b) /\ Cardinality(a) # Cardinality(b)
    BY <2>3, FS_Subset
  <2>5. Cardinality(a) < Cardinality(b)
    BY <2>3, <2>4
  <2> QED
    BY <2>5 DEF a, b
<1> HIDE DEF UpTo
<1>3. ASSUME NEW i \in 1..n, NEW j \in 1..n, Cardinality(UpTo(i)) = Cardinality(UpTo(j))
      PROVE  i = j
  <2>1. Cardinality(UpTo(i)) \in Nat /\ Cardinality(UpTo(j)) \in Nat
    BY <1>1
  <2>2. ~Earlier(s, i, j) /\ ~Earlier(s, j, i)
    BY <1>2, <1>3, <2>1
  <2> QED
    BY <1>0, <2>2, EarlierIsTotal
<1>4. place \in Injection(1..n, 1..n)
  <2>1. place \in [1..n -> 1..n]
    BY <1>1
  <2>2. \A i, j \in 1..n : place[i] = place[j] => i = j
    BY <1>3
  <2> HIDE DEF place
  <2> QED
    BY <2>1, <2>2 DEF Injection, IsInjective
<1>5. place \in Surjection(1..n, 1..n)
  <2>1. IsFiniteSet(1..n)
    BY <1>0, FS_Interval
  <2> HIDE DEF place
  <2> QED
    BY <1>4, <2>1, FS_Injection
<1>6. \A k \in 1..n : \E i \in 1..n : place[i] = k
  BY <1>5 DEF Surjection
<1>7. \A i \in 1..n : Place(s, i) = Cardinality(UpTo(i))
  BY <1>1
<1> QED
  BY <1>1, <1>2, <1>3, <1>6, <1>7

\* The trade at each place: a permutation, in order.
Permutes(order, s, c) ==
    /\ order \in [1..Len(s) -> 1..Len(s)]
    /\ \A k \in 1..Len(s) : c[k] = s[order[k]]
    /\ \A k, l \in 1..Len(s) : order[k] = order[l] => k = l
    /\ \A i \in 1..Len(s) : \E k \in 1..Len(s) : order[k] = i

LEMMA ChronologicalFacts ==
  ASSUME NEW T, NEW s \in Seq(T), Stamped(s)
  PROVE  /\ Chronological(s) \in Seq(T) /\ Len(Chronological(s)) = Len(s)
         /\ InOrder(Chronological(s))
         /\ \E order : Permutes(order, s, Chronological(s))
<1> DEFINE n == Len(s)
           order == [k \in 1..n |-> CHOOSE i \in 1..n : Place(s, i) = k]
           c == Chronological(s)
<1>0. n \in Nat /\ DOMAIN s = 1..n /\ \A i \in 1..n : s[i] \in T
  OBVIOUS
<1>1. /\ \A i \in 1..n : Place(s, i) \in 1..n
      /\ \A i, j \in 1..n : Earlier(s, i, j) => Place(s, i) < Place(s, j)
      /\ \A i, j \in 1..n : Place(s, i) = Place(s, j) => i = j
      /\ \A k \in 1..n : \E i \in 1..n : Place(s, i) = k
  BY PlaceFacts
<1>2. \A k \in 1..n : order[k] \in 1..n /\ Place(s, order[k]) = k
  BY <1>1
<1>3. c = [k \in 1..n |-> s[order[k]]]
  BY <1>0 DEF Chronological
<1> HIDE DEF order, c
<1>4. /\ \A k, l \in 1..n : order[k] = order[l] => k = l
      /\ \A i \in 1..n : \E k \in 1..n : order[k] = i
  <2>1. ASSUME NEW i \in 1..n PROVE \E k \in 1..n : order[k] = i
    <3>1. Place(s, i) \in 1..n /\ Place(s, order[Place(s, i)]) = Place(s, i)
      BY <1>1, <1>2
    <3>2. order[Place(s, i)] = i
      BY <1>1, <1>2, <3>1
    <3> QED
      BY <3>1, <3>2
  <2>2. \A k, l \in 1..n : order[k] = order[l] => k = l
    BY <1>2
  <2> QED
    BY <2>1, <2>2
<1>5. c \in [1..n -> T]
  BY <1>0, <1>2, <1>3
<1>6. c \in Seq(T) /\ Len(c) = n /\ DOMAIN c = 1..n
  BY <1>0, <1>5
<1>7. InOrder(c)
  <2> SUFFICES ASSUME NEW k \in 1..n, NEW l \in 1..n, k < l
               PROVE  \/ c[k].slot < c[l].slot
                      \/ c[k].slot = c[l].slot /\ c[k].tx <= c[l].tx
    BY <1>6 DEF InOrder
  <2>1. c[k] = s[order[k]] /\ c[l] = s[order[l]]
    BY <1>3
  <2>2. order[k] \in 1..n /\ order[l] \in 1..n /\ Place(s, order[k]) = k /\ Place(s, order[l]) = l
    BY <1>2
  <2> DEFINE i == order[k]
             j == order[l]
  <2>3. i \in DOMAIN s /\ j \in DOMAIN s /\ ~Earlier(s, j, i) /\ i # j
    <3>1. ~(l < k) /\ k # l
      BY <1>0
    <3>2. i \in 1..n /\ j \in 1..n /\ Place(s, i) = k /\ Place(s, j) = l
      BY <2>2
    <3> HIDE DEF i, j
    <3>3. ~Earlier(s, j, i) /\ i # j
      BY <1>1, <3>1, <3>2
    <3> QED
      BY <1>0, <3>2, <3>3
  <2> HIDE DEF i, j
  <2>4. Earlier(s, i, j)
    BY <2>3, EarlierIsTotal
  <2>5. s[i].tx \in Nat /\ s[j].tx \in Nat
    BY <2>3 DEF Stamped
  <2> QED
    BY <2>1, <2>4, <2>5 DEF Earlier, i, j
<1>8. order \in [1..n -> 1..n]
  BY <1>2 DEF order
<1>9. Permutes(order, s, c)
  BY <1>3, <1>4, <1>8 DEF Permutes
<1> QED
  BY <1>6, <1>7, <1>9 DEF c

LEMMA TradesAreStamped ==
  ASSUME NEW s \in Seq(Traded)
  PROVE  Stamped(s)
<1>1. \A t \in Traded : t.slot \in Nat /\ t.tx \in Nat
  BY MessagesAssumption DEF Traded
<1>2. \A i \in DOMAIN s : s[i] \in Traded
  OBVIOUS
<1> QED
  BY <1>1, <1>2 DEF Stamped

\* A profile is of a wallet that traded.
LEMMA ProfileFacts ==
  ASSUME IInv, NEW w \in DOMAIN profiles
  PROVE  /\ w \in DOMAIN walletTrades /\ walletTrades[w] \in Seq(OfWallet(w))
         /\ walletTrades[w] \in Seq(Traded)
<1>1. w \in DOMAIN walletTrades
  BY DEF IInv, TypeOK
<1>2. walletTrades[w] \in Seq(OfWallet(w))
  BY <1>1 DEF IInv, GroupsOK
<1>3. OfWallet(w) \subseteq Traded
  BY DEF OfWallet
<1> QED
  BY <1>1, <1>2, <1>3, SeqMonotonic

\* A set of trades that is not empty has a first one.
LEMMA FirstExists ==
  ASSUME NEW T, NEW s \in Seq(T), Stamped(s), NEW D \in SUBSET DOMAIN s, D # {}
  PROVE  \E j \in D : \A k \in D : j = k \/ Earlier(s, j, k)
<1> DEFINE P == {Place(s, i) : i \in D}
<1>1. ASSUME NEW i \in D PROVE Place(s, i) \in Nat
  <2>1. i \in 1..Len(s)
    OBVIOUS
  <2>2. Place(s, i) \in 1..Len(s)
    BY <2>1, PlaceFacts
  <2> QED
    BY <2>2
<1>2. PICK p \in P : \A q \in P : p <= q
  <2>1. P \in SUBSET Nat /\ P # {}
    BY <1>1
  <2> HIDE DEF P
  <2> QED
    BY <2>1, LeastNumber
<1>3. PICK j \in D : Place(s, j) = p
  BY <1>2
<1>4. ASSUME NEW k \in D, j # k PROVE Earlier(s, j, k)
  <2>1. j \in 1..Len(s) /\ k \in 1..Len(s) /\ Place(s, j) <= Place(s, k)
    BY <1>2, <1>3
  <2>2. ~Earlier(s, k, j)
    <3>1. Place(s, j) \in 1..Len(s) /\ Place(s, k) \in 1..Len(s)
      BY <2>1, PlaceFacts
    <3>2. ~(Place(s, k) < Place(s, j))
      BY <2>1, <3>1
    <3> QED
      BY <2>1, <3>2, PlaceFacts
  <2> QED
    BY <1>4, <2>2, EarlierIsTotal
<1> QED
  BY <1>4

-----------------------------------------------------------------------------
(* What the filters let through.                                           *)

HerdedBuys(p, tokens) ==
    {i \in BuysOf(p) :
       Cardinality(CopiesOf(p.trades[i], tokens[p.trades[i].mint])) >= FollowerThreshold}
SnipedBuys(p, tokens) ==
    {i \in BuysOf(p) :
       /\ DatedIn(tokens[p.trades[i].mint]) # {}
       /\ p.trades[i].slot <= FirstTrade(tokens[p.trades[i].mint]).slot + SniperMaxDelta}

\* Less than half of the buys are herded, or made at a launch.
NotHerded(p, tokens) ==
    BuysOf(p) # {} => ~(2 * Cardinality(HerdedBuys(p, tokens)) >= Cardinality(BuysOf(p)))
NotSniping(p, tokens) ==
    BuysOf(p) # {} => ~(2 * Cardinality(SnipedBuys(p, tokens)) >= Cardinality(BuysOf(p)))

\* What each filter has let through, what is ranked, and that nothing is ranked
\* before all of them.
Reasons == {"cycles", "A", "B", "C", "D"}
ReasonsOK == \A w \in DOMAIN profiles : profiles[w].reasons \in Seq(Reasons)
Remaining == {w \in DOMAIN profiles : ~Disqualified(profiles[w])}
AfterB == phase \in {"filterC", "filterD", "rank", "report"} =>
            \A w \in Remaining : NotHerded(profiles[w], tokenTrades)
AfterC == phase \in {"filterD", "rank", "report"} =>
            \A w \in Remaining : NotSniping(profiles[w], tokenTrades)
AfterD == phase \in {"rank", "report"} =>
            \A w \in Remaining : profiles[w].cycles # {}
Unranked == phase \notin {"report", "written", "failed"} => top = << >>
TopJudged ==
    \A w \in ToSet(top) : /\ NotHerded(profiles[w], tokenTrades)
                          /\ NotSniping(profiles[w], tokenTrades)
                          /\ profiles[w].cycles # {} /\ phase # "aggregate"

Judged == ReasonsOK /\ AfterB /\ AfterC /\ AfterD /\ Unranked /\ TopJudged

\* A profile that leaves a filter qualified was judged by it; the reasons stay a
\* sequence, which a disqualification makes longer.
LEMMA DisqualifiedIs ==
  ASSUME NEW p, Fields \subseteq DOMAIN p, p.reasons \in Seq(Reasons), NEW reason \in Reasons
  PROVE  /\ Disqualified(Disqualify(p, reason))
         /\ Disqualify(p, reason).reasons \in Seq(Reasons)
<1> DEFINE r == p.reasons
           longer == Append(r, reason)
<1>1. Disqualify(p, reason).reasons = longer
  BY DEF Disqualify, Fields
<1>2. longer \in Seq(Reasons) /\ longer # << >>
  BY AppendProperties
<1> HIDE DEF longer
<1> QED
  BY <1>1, <1>2 DEF Disqualified

LEMMA BuiltReasons ==
  ASSUME NEW s
  PROVE  BuildProfile(s).reasons \in Seq(Reasons)
<1> DEFINE q == Profile(Chronological(s))
<1>1. Fields \subseteq DOMAIN q /\ q.reasons \in Seq(Reasons)
  BY DEF Profile, Fields
<1>2. BuildProfile(s) = q \/ BuildProfile(s) = Disqualify(q, "cycles")
  BY DEF BuildProfile
<1> HIDE DEF q
<1>3. Disqualify(q, "cycles").reasons \in Seq(Reasons)
  <2>1. "cycles" \in Reasons
    BY DEF Reasons
  <2> QED
    BY <1>1, <2>1, DisqualifiedIs
<1> QED
  BY <1>1, <1>2, <1>3

LEMMA FilterAReasons ==
  ASSUME NEW p, Fields \subseteq DOMAIN p, p.reasons \in Seq(Reasons)
  PROVE  FilterA(p).reasons \in Seq(Reasons)
<1>1. FilterA(p) = p \/ FilterA(p) = Disqualify(p, "A")
  BY DEF FilterA
<1>2. Disqualify(p, "A").reasons \in Seq(Reasons)
  <2>1. "A" \in Reasons
    BY DEF Reasons
  <2> QED
    BY <2>1, DisqualifiedIs
<1> QED
  BY <1>1, <1>2

LEMMA FilterBJudges ==
  ASSUME NEW p, Fields \subseteq DOMAIN p, p.reasons \in Seq(Reasons), NEW tokens
  PROVE  /\ FilterB(p, tokens).reasons \in Seq(Reasons)
         /\ ~Disqualified(FilterB(p, tokens)) => NotHerded(p, tokens)
<1> DEFINE herded == HerdedBuys(p, tokens)
           judged == [p EXCEPT !.herded = Cardinality(herded)]
           most == 2 * Cardinality(herded) >= Cardinality(BuysOf(p))
<1>1. FilterB(p, tokens) = IF BuysOf(p) = {} THEN p
                           ELSE IF most THEN Disqualify(judged, "B") ELSE judged
  BY DEF FilterB, HerdedBuys
<1>2. Fields \subseteq DOMAIN judged /\ judged.reasons = p.reasons
  BY DEF Fields
<1>3. ~most => NotHerded(p, tokens)
  BY DEF NotHerded
<1>4. BuysOf(p) = {} => NotHerded(p, tokens)
  BY DEF NotHerded
<1> HIDE DEF judged, most
<1>5. /\ Disqualified(Disqualify(judged, "B"))
      /\ Disqualify(judged, "B").reasons \in Seq(Reasons)
  <2>1. "B" \in Reasons
    BY DEF Reasons
  <2> QED
    BY <1>2, <2>1, DisqualifiedIs
<1> QED
  BY <1>1, <1>2, <1>3, <1>4, <1>5

LEMMA FilterCJudges ==
  ASSUME NEW p, Fields \subseteq DOMAIN p, p.reasons \in Seq(Reasons), NEW tokens
  PROVE  /\ FilterC(p, tokens).reasons \in Seq(Reasons)
         /\ ~Disqualified(FilterC(p, tokens)) => NotSniping(p, tokens)
<1> DEFINE sniped == SnipedBuys(p, tokens)
           known(i)  == DatedIn(tokens[p.trades[i].mint]) # {}
           first(i)  == FirstTrade(tokens[p.trades[i].mint])
           delta(i)  == IF p.trades[i].ts > first(i).ts THEN p.trades[i].ts - first(i).ts ELSE 0
           momentum  == {i \in BuysOf(p) :
                           known(i) /\ p.trades[i].ts > 0 /\ delta(i) \in MomentumSecs}
           often == 10 * Cardinality(momentum) >= 6 * Cardinality(BuysOf(p))
           judged == [p EXCEPT !.momentum = often]
           most == 2 * Cardinality(sniped) >= Cardinality(BuysOf(p))
<1>1. FilterC(p, tokens) = IF BuysOf(p) = {} THEN p
                           ELSE IF most THEN Disqualify(judged, "C") ELSE judged
  BY DEF FilterC, SnipedBuys
<1> HIDE DEF often
<1>2. Fields \subseteq DOMAIN judged /\ judged.reasons = p.reasons
  BY DEF Fields
<1>3. ~most => NotSniping(p, tokens)
  BY DEF NotSniping
<1>4. BuysOf(p) = {} => NotSniping(p, tokens)
  BY DEF NotSniping
<1> HIDE DEF judged, most
<1>5. /\ Disqualified(Disqualify(judged, "C"))
      /\ Disqualify(judged, "C").reasons \in Seq(Reasons)
  <2>1. "C" \in Reasons
    BY DEF Reasons
  <2> QED
    BY <1>2, <2>1, DisqualifiedIs
<1> QED
  BY <1>1, <1>2, <1>3, <1>4, <1>5

LEMMA FilterDJudges ==
  ASSUME NEW p, Fields \subseteq DOMAIN p, p.reasons \in Seq(Reasons)
  PROVE  /\ FilterD(p).reasons \in Seq(Reasons)
         /\ ~Disqualified(FilterD(p)) => p.cycles # {}
<1>1. /\ FilterD(p) = p \/ FilterD(p) = Disqualify(p, "D")
      /\ p.cycles = {} => FilterD(p) = Disqualify(p, "D")
  BY FS_EmptySet DEF FilterD
<1>2. Disqualified(Disqualify(p, "D")) /\ Disqualify(p, "D").reasons \in Seq(Reasons)
  <2>1. "D" \in Reasons
    BY DEF Reasons
  <2> QED
    BY <2>1, DisqualifiedIs
<1> QED
  BY <1>1, <1>2

\* The verdicts are about trades and cycles only.
LEMMA VerdictsStay ==
  ASSUME NEW p, NEW q, q.trades = p.trades, NEW tokens
  PROVE  /\ NotHerded(p, tokens) <=> NotHerded(q, tokens)
         /\ NotSniping(p, tokens) <=> NotSniping(q, tokens)
<1>1. BuysOf(q) = BuysOf(p)
  BY DEF BuysOf
<1>2. HerdedBuys(q, tokens) = HerdedBuys(p, tokens)
  BY <1>1 DEF HerdedBuys
<1>3. SnipedBuys(q, tokens) = SnipedBuys(p, tokens)
  BY <1>1 DEF SnipedBuys
<1> QED
  BY <1>1, <1>2, <1>3 DEF NotHerded, NotSniping

-----------------------------------------------------------------------------
(* The verdicts of the filters last.                                       *)

LEMMA InitJudged == Init => Judged
<1> SUFFICES ASSUME Init PROVE Judged
  OBVIOUS
<1>1. DOMAIN profiles = {} /\ phase = "aggregate" /\ top = << >>
  BY DEF Init, NoFunction
<1>2. ToSet(top) = {}
  BY <1>1 DEF ToSet
<1> QED
  BY <1>1, <1>2 DEF Judged, ReasonsOK, AfterB, AfterC, AfterD, Unranked, TopJudged

\* Before the verdict of B there is nothing to say.
LEMMA NothingJudged ==
  ASSUME ReasonsOK', phase' \in {"aggregate", "join", "filterA", "filterB"}, top' = << >>
  PROVE  Judged'
<1>1. ToSet(top') = {}
  BY DEF ToSet
<1> QED
  BY <1>1 DEF Judged, AfterB, AfterC, AfterD, Unranked, TopJudged

LEMMA EarlyStepsJudge ==
  ASSUME IInv, Judged, Streamer \/ Aggregate \/ Build
  PROVE  Judged'
<1>1. phase = "aggregate"
  BY DEF IInv, Quiet, Streamer, Attempt, Request, Deliver, Send, StreamEnds, Aggregate, Build
<1>2. top = << >>
  BY <1>1 DEF Judged, Unranked
<1>3. CASE Streamer \/ Aggregate
  <2>1. UNCHANGED <<phase, profiles, top>>
    BY <1>3 DEF Streamer, Attempt, Request, Deliver, Send, StreamEnds, Aggregate, mainVars
  <2>2. ReasonsOK'
    BY <2>1 DEF Judged, ReasonsOK
  <2> QED
    BY <1>1, <1>2, <2>1, <2>2, NothingJudged
<1>4. CASE Build
  <2>1. /\ phase' = "join" /\ top' = top
        /\ profiles' = [w \in {v \in DOMAIN walletTrades : Len(walletTrades[v]) >= MinTrades}
                          |-> BuildProfile(walletTrades[w])]
    BY <1>4 DEF Build
  <2>2. ReasonsOK'
    BY <2>1, BuiltReasons DEF ReasonsOK
  <2> QED
    BY <1>2, <2>1, <2>2, NothingJudged
<1> QED
  BY <1>3, <1>4

\* What a filter makes of the profiles.
LEMMA PassFacts ==
  ASSUME IInv, ReasonsOK, NEW from, NEW to, NEW judged, Pass(from, to, judged),
         NEW w \in DOMAIN profiles
  PROVE  /\ DOMAIN profiles' = DOMAIN profiles /\ tokenTrades' = tokenTrades /\ top' = top
         /\ Fields \subseteq DOMAIN profiles[w] /\ profiles[w].reasons \in Seq(Reasons)
         /\ Disqualified(profiles[w]) => profiles'[w] = profiles[w]
         /\ ~Disqualified(profiles[w]) => profiles'[w] = judged[w]
<1>1. /\ profiles' = [v \in DOMAIN profiles |->
                        IF Disqualified(profiles[v]) THEN profiles[v] ELSE judged[v]]
      /\ tokenTrades' = tokenTrades /\ top' = top
  BY DEF Pass, groupVars
<1>2. Fields \subseteq DOMAIN profiles[w]
  BY DEF IInv, ProfilesSay, Fields
<1> QED
  BY <1>1, <1>2 DEF ReasonsOK

LEMMA PassAJudges ==
  ASSUME IInv, Judged, PassA
  PROVE  Judged'
<1> DEFINE judged == [w \in DOMAIN profiles |-> FilterA(profiles[w])]
<1>1. Pass("filterA", "filterB", judged) /\ ReasonsOK
  BY DEF PassA, Judged
<1>2. phase = "filterA" /\ phase' = "filterB" /\ top' = top /\ DOMAIN profiles' = DOMAIN profiles
  BY <1>1 DEF Pass
<1>3. top' = << >>
  BY <1>2 DEF Judged, Unranked
<1>4. ReasonsOK'
  <2> SUFFICES ASSUME NEW w \in DOMAIN profiles PROVE profiles'[w].reasons \in Seq(Reasons)
    BY <1>2 DEF ReasonsOK
  <2>1. judged[w] = FilterA(profiles[w])
    OBVIOUS
  <2> HIDE DEF judged
  <2> QED
    BY <1>1, <2>1, PassFacts, FilterAReasons
<1> QED
  BY <1>2, <1>3, <1>4, NothingJudged

LEMMA PassBJudges ==
  ASSUME IInv, Judged, PassB
  PROVE  Judged'
<1> DEFINE judged == [w \in DOMAIN profiles |-> FilterB(profiles[w], tokenTrades)]
<1>1. Pass("filterB", "filterC", judged) /\ ReasonsOK
  BY DEF PassB, Judged
<1>2. /\ phase = "filterB" /\ phase' = "filterC" /\ top' = top
      /\ DOMAIN profiles' = DOMAIN profiles /\ tokenTrades' = tokenTrades
  BY <1>1 DEF Pass, groupVars
<1>3. top' = << >> /\ ToSet(top') = {}
  <2>1. top' = << >>
    BY <1>2 DEF Judged, Unranked
  <2> QED
    BY <2>1 DEF ToSet
<1>4. \A w \in DOMAIN profiles : judged[w] = FilterB(profiles[w], tokenTrades)
  OBVIOUS
<1> HIDE DEF judged
<1>5. ASSUME NEW w \in DOMAIN profiles
      PROVE  /\ profiles'[w].reasons \in Seq(Reasons)
             /\ ~Disqualified(profiles'[w]) => NotHerded(profiles'[w], tokenTrades)
  <2>1. CASE Disqualified(profiles[w])
    BY <1>1, <2>1, PassFacts
  <2>2. CASE ~Disqualified(profiles[w])
    <3>1. /\ Fields \subseteq DOMAIN profiles[w] /\ profiles[w].reasons \in Seq(Reasons)
          /\ profiles'[w] = FilterB(profiles[w], tokenTrades)
      BY <1>1, <1>4, <2>2, PassFacts
    <3>2. FilterB(profiles[w], tokenTrades).trades = profiles[w].trades
      BY <3>1, FiltersKeep
    <3> QED
      BY <3>1, <3>2, FilterBJudges, VerdictsStay
  <2> QED
    BY <2>1, <2>2
<1>6. ReasonsOK'
  BY <1>2, <1>5 DEF ReasonsOK
<1>7. AfterB'
  BY <1>2, <1>5 DEF AfterB, Remaining
<1> QED
  BY <1>2, <1>3, <1>6, <1>7 DEF Judged, AfterC, AfterD, Unranked, TopJudged

LEMMA PassCJudges ==
  ASSUME IInv, Judged, PassC
  PROVE  Judged'
<1> DEFINE judged == [w \in DOMAIN profiles |-> FilterC(profiles[w], tokenTrades)]
<1>1. Pass("filterC", "filterD", judged) /\ ReasonsOK
  BY DEF PassC, Judged
<1>2. /\ phase = "filterC" /\ phase' = "filterD" /\ top' = top
      /\ DOMAIN profiles' = DOMAIN profiles /\ tokenTrades' = tokenTrades
  BY <1>1 DEF Pass, groupVars
<1>3. top' = << >> /\ ToSet(top') = {}
  <2>1. top' = << >>
    BY <1>2 DEF Judged, Unranked
  <2> QED
    BY <2>1 DEF ToSet
<1>4. \A w \in DOMAIN profiles : judged[w] = FilterC(profiles[w], tokenTrades)
  OBVIOUS
<1> HIDE DEF judged
<1>5. ASSUME NEW w \in DOMAIN profiles
      PROVE  /\ profiles'[w].reasons \in Seq(Reasons)
             /\ ~Disqualified(profiles'[w]) => /\ NotHerded(profiles'[w], tokenTrades)
                                               /\ NotSniping(profiles'[w], tokenTrades)
  <2>1. CASE Disqualified(profiles[w])
    BY <1>1, <2>1, PassFacts
  <2>2. CASE ~Disqualified(profiles[w])
    <3>1. /\ Fields \subseteq DOMAIN profiles[w] /\ profiles[w].reasons \in Seq(Reasons)
          /\ profiles'[w] = FilterC(profiles[w], tokenTrades)
      BY <1>1, <1>4, <2>2, PassFacts
    <3>2. FilterC(profiles[w], tokenTrades).trades = profiles[w].trades
      BY <3>1, FiltersKeep
    <3>3. NotHerded(profiles[w], tokenTrades)
      BY <1>2, <2>2 DEF Judged, AfterB, Remaining
    <3> QED
      BY <3>1, <3>2, <3>3, FilterCJudges, VerdictsStay
  <2> QED
    BY <2>1, <2>2
<1>6. ReasonsOK'
  BY <1>2, <1>5 DEF ReasonsOK
<1>7. AfterB' /\ AfterC'
  BY <1>2, <1>5 DEF AfterB, AfterC, Remaining
<1> QED
  BY <1>2, <1>3, <1>6, <1>7 DEF Judged, AfterD, Unranked, TopJudged

LEMMA PassDJudges ==
  ASSUME IInv, Judged, PassD
  PROVE  Judged'
<1> DEFINE judged == [w \in DOMAIN profiles |-> FilterD(profiles[w])]
<1>1. Pass("filterD", "rank", judged) /\ ReasonsOK
  BY DEF PassD, Judged
<1>2. /\ phase = "filterD" /\ phase' = "rank" /\ top' = top
      /\ DOMAIN profiles' = DOMAIN profiles /\ tokenTrades' = tokenTrades
  BY <1>1 DEF Pass, groupVars
<1>3. top' = << >> /\ ToSet(top') = {}
  <2>1. top' = << >>
    BY <1>2 DEF Judged, Unranked
  <2> QED
    BY <2>1 DEF ToSet
<1>4. \A w \in DOMAIN profiles : judged[w] = FilterD(profiles[w])
  OBVIOUS
<1> HIDE DEF judged
<1>5. ASSUME NEW w \in DOMAIN profiles
      PROVE  /\ profiles'[w].reasons \in Seq(Reasons)
             /\ ~Disqualified(profiles'[w]) => /\ NotHerded(profiles'[w], tokenTrades)
                                               /\ NotSniping(profiles'[w], tokenTrades)
                                               /\ profiles'[w].cycles # {}
  <2>1. CASE Disqualified(profiles[w])
    BY <1>1, <2>1, PassFacts
  <2>2. CASE ~Disqualified(profiles[w])
    <3>1. /\ Fields \subseteq DOMAIN profiles[w] /\ profiles[w].reasons \in Seq(Reasons)
          /\ profiles'[w] = FilterD(profiles[w])
      BY <1>1, <1>4, <2>2, PassFacts
    <3>2. /\ FilterD(profiles[w]).trades = profiles[w].trades
          /\ FilterD(profiles[w]).cycles = profiles[w].cycles
      BY <3>1, FiltersKeep
    <3>3. NotHerded(profiles[w], tokenTrades) /\ NotSniping(profiles[w], tokenTrades)
      BY <1>2, <2>2 DEF Judged, AfterB, AfterC, Remaining
    <3> QED
      BY <3>1, <3>2, <3>3, FilterDJudges, VerdictsStay
  <2> QED
    BY <2>1, <2>2
<1>6. ReasonsOK'
  BY <1>2, <1>5 DEF ReasonsOK
<1>7. AfterB' /\ AfterC' /\ AfterD'
  BY <1>2, <1>5 DEF AfterB, AfterC, AfterD, Remaining
<1> QED
  BY <1>2, <1>3, <1>6, <1>7 DEF Judged, Unranked, TopJudged

LEMMA LateStepsJudge ==
  ASSUME IInv, Judged, Join \/ Rank \/ Report
  PROVE  Judged'
<1>1. profiles' = profiles /\ tokenTrades' = tokenTrades
  BY DEF Join, Rank, Report, groupVars
<1>2. ReasonsOK'
  BY <1>1 DEF Judged, ReasonsOK
<1>3. CASE Join
  <2>1. phase = "join" /\ phase' \in {"failed", "filterA"} /\ top' = top
    BY <1>3 DEF Join
  <2>2. top' = << >> /\ ToSet(top') = {}
    <3>1. top' = << >>
      BY <2>1 DEF Judged, Unranked
    <3> QED
      BY <3>1 DEF ToSet
  <2> QED
    BY <1>2, <2>1, <2>2 DEF Judged, AfterB, AfterC, AfterD, Unranked, TopJudged
<1>4. CASE Rank
  <2>1. phase = "rank" /\ phase' = "report" /\ top' \in Rankings(profiles)
    BY <1>4 DEF Rank
  <2>2. ToSet(top') \subseteq Remaining
    BY <2>1, RankedFacts DEF Candidates, Remaining
  <2>3. \A w \in Remaining : /\ NotHerded(profiles[w], tokenTrades)
                             /\ NotSniping(profiles[w], tokenTrades)
                             /\ profiles[w].cycles # {}
    BY <2>1 DEF Judged, AfterB, AfterC, AfterD
  <2> QED
    BY <1>1, <1>2, <2>1, <2>2, <2>3
    DEF Judged, AfterB, AfterC, AfterD, Unranked, TopJudged, Remaining
<1>5. CASE Report
  <2>1. phase = "report" /\ phase' \in {"written", "failed"} /\ top' = top
    BY <1>5 DEF Report
  <2> QED
    BY <1>1, <1>2, <2>1 DEF Judged, AfterB, AfterC, AfterD, Unranked, TopJudged
<1> QED
  BY <1>3, <1>4, <1>5

LEMMA JudgedInductive == IInv /\ Judged /\ [Next]_vars => Judged'
<1> SUFFICES ASSUME IInv, Judged, [Next]_vars PROVE Judged'
  OBVIOUS
<1>1. CASE Streamer
  BY <1>1, EarlyStepsJudge
<1>2. CASE Main
  BY <1>2, EarlyStepsJudge, PassAJudges, PassBJudges, PassCJudges, PassDJudges, LateStepsJudge
  DEF Main
<1>3. CASE UNCHANGED vars
  BY <1>3 DEF vars, streamVars, groupVars, Judged, ReasonsOK, AfterB, AfterC, AfterD, Unranked,
              TopJudged, Remaining
<1> QED
  BY <1>1, <1>2, <1>3 DEF Next, Ended

-----------------------------------------------------------------------------
(* Counting trades in a list that was read out of what arrived.            *)

\* t is, in some order, what s has in S; G says where.
IsReading(G, t, s, S) ==
    /\ G \in [1..Len(t) -> 1..Len(s)]
    /\ \A k \in 1..Len(t) : t[k] = s[G[k]] /\ t[k] \in S
    /\ \A k, l \in 1..Len(t) : G[k] = G[l] => k = l
    /\ \A i \in 1..Len(s) : s[i] \in S => \E k \in 1..Len(t) : G[k] = i

LEMMA ReadMore ==
  ASSUME NEW T, NEW s \in Seq(T), NEW t \in Seq(T), NEW S, NEW G, IsReading(G, t, s, S),
         NEW x \in T
  PROVE  \E H : IsReading(H, IF x \in S THEN Append(t, x) ELSE t, Append(s, x), S)
<1> DEFINE n == Len(s)
           m == Len(t)
           r == Append(s, x)
           u == Append(t, x)
           H == [k \in 1..m + 1 |-> IF k = m + 1 THEN n + 1 ELSE G[k]]
<1>1. /\ n \in Nat /\ Len(r) = n + 1 /\ r[n + 1] = x /\ \A i \in 1..n : r[i] = s[i]
      /\ m \in Nat /\ Len(u) = m + 1 /\ u[m + 1] = x /\ \A k \in 1..m : u[k] = t[k]
  OBVIOUS
<1>2. /\ G \in [1..m -> 1..n]
      /\ \A k \in 1..m : t[k] = s[G[k]] /\ t[k] \in S
      /\ \A k, l \in 1..m : G[k] = G[l] => k = l
      /\ \A i \in 1..n : s[i] \in S => \E k \in 1..m : G[k] = i
  BY DEF IsReading
<1> HIDE DEF n, m, r, u
<1>3. /\ \A k \in 1..m + 1 : k \in 1..m \/ k = m + 1
      /\ \A i \in 1..n + 1 : i \in 1..n \/ i = n + 1
      /\ 1..n \subseteq 1..n + 1 /\ n + 1 \in 1..n + 1 /\ n + 1 \notin 1..n
      /\ 1..m \subseteq 1..m + 1 /\ m + 1 \in 1..m + 1 /\ m + 1 \notin 1..m
  BY <1>1
<1>4. CASE x \in S
  <2>1. H[m + 1] = n + 1 /\ \A k \in 1..m : H[k] = G[k] /\ G[k] \in 1..n
    BY <1>2, <1>3
  <2>2. H \in [1..m + 1 -> 1..n + 1]
    BY <1>2, <1>3
  <2> HIDE DEF H
  <2>3. ASSUME NEW k \in 1..m + 1 PROVE u[k] = r[H[k]] /\ u[k] \in S
    <3>1. CASE k \in 1..m
      <4>1. H[k] = G[k] /\ G[k] \in 1..n /\ u[k] = t[k]
        BY <1>1, <2>1, <3>1
      <4>2. t[k] = s[G[k]] /\ t[k] \in S
        BY <1>2, <3>1
      <4>3. s[G[k]] = r[G[k]]
        BY <1>1, <4>1
      <4> QED
        BY <4>1, <4>2, <4>3
    <3>2. CASE k = m + 1
      BY <1>1, <1>4, <2>1, <3>2
    <3> QED
      BY <1>3, <3>1, <3>2
  <2>4. ASSUME NEW k \in 1..m + 1, NEW l \in 1..m + 1, H[k] = H[l] PROVE k = l
    BY <1>2, <1>3, <2>1, <2>4
  <2>5. ASSUME NEW i \in 1..n + 1, r[i] \in S PROVE \E k \in 1..m + 1 : H[k] = i
    <3>1. CASE i \in 1..n
      <4>1. PICK k \in 1..m : G[k] = i
        BY <1>1, <1>2, <2>5, <3>1
      <4> QED
        BY <1>3, <2>1, <4>1
    <3>2. CASE i = n + 1
      BY <1>3, <2>1, <3>2
    <3> QED
      BY <1>3, <3>1, <3>2
  <2>6. IsReading(H, u, r, S)
    BY <1>1, <2>2, <2>3, <2>4, <2>5 DEF IsReading
  <2> QED
    BY <1>4, <2>6 DEF u, r
<1>5. CASE x \notin S
  <2>1. G \in [1..m -> 1..n + 1]
    BY <1>2, <1>3
  <2>2. \A k \in 1..m : t[k] = r[G[k]]
    BY <1>1, <1>2
  <2>3. ASSUME NEW i \in 1..n + 1, r[i] \in S PROVE \E k \in 1..m : G[k] = i
    <3>1. i \in 1..n
      BY <1>1, <1>3, <1>5, <2>3
    <3> QED
      BY <1>1, <1>2, <2>3, <3>1
  <2>4. IsReading(G, t, r, S)
    BY <1>1, <1>2, <2>1, <2>2, <2>3 DEF IsReading, m
  <2> QED
    BY <1>5, <2>4 DEF r
<1> QED
  BY <1>4, <1>5

LEMMA KeptReading ==
  ASSUME NEW T, NEW s \in Seq(T), NEW S
  PROVE  \E G : IsReading(G, Kept(s, S), s, S)
<1> DEFINE D == {r \in Seq(T) : \E G : IsReading(G, Kept(r, S), r, S)}
<1>1. << >> \in D
  <2> DEFINE none == << >>
  <2>1. none \in Seq(T) /\ Len(none) = 0 /\ Kept(none, S) = none
    BY KeptEmpty
  <2> HIDE DEF none
  <2> DEFINE G == [k \in 1..0 |-> k]
  <2>2. IsReading(G, none, none, S)
    BY <2>1 DEF IsReading
  <2> HIDE DEF G
  <2>3. \E H : IsReading(H, Kept(none, S), none, S)
    BY <2>1, <2>2
  <2> QED
    BY <2>1, <2>3 DEF none
<1>2. ASSUME NEW r \in Seq(T), NEW x \in T, r \in D PROVE Append(r, x) \in D
  <2>1. Kept(r, S) \in Seq(T) /\ Append(r, x) \in Seq(T)
    BY KeptIs
  <2>2. PICK G : IsReading(G, Kept(r, S), r, S)
    BY <1>2
  <2>3. \E H : IsReading(H, IF x \in S THEN Append(Kept(r, S), x) ELSE Kept(r, S),
                         Append(r, x), S)
    BY <2>1, <2>2, ReadMore
  <2>4. \E H : IsReading(H, Kept(Append(r, x), S), Append(r, x), S)
    BY <2>3, KeptAppend
  <2> QED
    BY <2>1, <2>4
<1> HIDE DEF D
<1>3. Seq(T) \subseteq D
  BY <1>1, <1>2, SequenceInductionOn
<1> QED
  BY <1>3 DEF D

\* Sorting changes the order only.
LEMMA SortedReading ==
  ASSUME NEW T, NEW t \in Seq(T), Stamped(t), NEW s, NEW S, NEW G, IsReading(G, t, s, S)
  PROVE  \E H : IsReading(H, Chronological(t), s, S)
<1> DEFINE n == Len(t)
           c == Chronological(t)
<1>1. Len(c) = n /\ n \in Nat
  BY ChronologicalFacts
<1>0. PICK order : Permutes(order, t, c)
  BY ChronologicalFacts
<1> HIDE DEF c
<1>2. /\ order \in [1..n -> 1..n]
      /\ \A k \in 1..n : c[k] = t[order[k]]
      /\ \A k, l \in 1..n : order[k] = order[l] => k = l
      /\ \A i \in 1..n : \E k \in 1..n : order[k] = i
  BY <1>0 DEF Permutes
<1> DEFINE H == [k \in 1..n |-> G[order[k]]]
<1>3. /\ G \in [1..n -> 1..Len(s)]
      /\ \A k \in 1..n : t[k] = s[G[k]] /\ t[k] \in S
      /\ \A k, l \in 1..n : G[k] = G[l] => k = l
      /\ \A i \in 1..Len(s) : s[i] \in S => \E k \in 1..n : G[k] = i
  BY DEF IsReading
<1> HIDE DEF n
<1>4. \A k \in 1..n : H[k] = G[order[k]] /\ order[k] \in 1..n
  BY <1>2
<1>5. H \in [1..n -> 1..Len(s)]
  BY <1>2, <1>3
<1> HIDE DEF H
<1>6. ASSUME NEW k \in 1..n PROVE c[k] = s[H[k]] /\ c[k] \in S
  <2>1. c[k] = t[order[k]] /\ H[k] = G[order[k]] /\ order[k] \in 1..n
    BY <1>2, <1>4
  <2>2. t[order[k]] = s[G[order[k]]] /\ t[order[k]] \in S
    BY <1>3, <2>1
  <2> QED
    BY <2>1, <2>2
<1>7. \A k, l \in 1..n : H[k] = H[l] => k = l
  BY <1>2, <1>3, <1>4
<1>8. ASSUME NEW i \in 1..Len(s), s[i] \in S PROVE \E k \in 1..n : H[k] = i
  <2>1. PICK l \in 1..n : G[l] = i
    BY <1>3, <1>8
  <2>2. PICK k \in 1..n : order[k] = l
    BY <1>2
  <2> QED
    BY <1>4, <2>1, <2>2
<1>9. IsReading(H, c, s, S)
  BY <1>1, <1>5, <1>6, <1>7, <1>8 DEF IsReading
<1> QED
  BY <1>9 DEF c

\* A set of positions in s that are read into Y is no larger than Y, and the
\* other way round.
LEMMA CountAtMost ==
  ASSUME NEW s, NEW t, Len(s) \in Nat, Len(t) \in Nat, NEW S, NEW G, IsReading(G, t, s, S),
         NEW X \in SUBSET (1..Len(s)), \A i \in X : s[i] \in S,
         NEW Y \in SUBSET (1..Len(t)),
         \A k \in 1..Len(t) : G[k] \in X => k \in Y
  PROVE  Cardinality(X) \in Nat /\ Cardinality(Y) \in Nat /\ Cardinality(X) <= Cardinality(Y)
<1> DEFINE n == Len(t)
           f == [i \in X |-> CHOOSE k \in 1..n : G[k] = i]
<1>1. \A i \in X : \E k \in 1..n : G[k] = i
  BY DEF IsReading
<1>2. \A i \in X : f[i] \in 1..n /\ G[f[i]] = i
  BY <1>1
<1>3. \A i \in X : f[i] \in Y
  BY <1>2
<1>4. f \in Injection(X, Y)
  <2>1. f \in [X -> Y]
    BY <1>3
  <2>2. \A i, j \in X : f[i] = f[j] => i = j
    BY <1>2
  <2> HIDE DEF f
  <2> QED
    BY <2>1, <2>2 DEF Injection, IsInjective
<1>5. IsFiniteSet(Y) /\ Cardinality(Y) \in 0..Len(t) /\ Cardinality(X) \in 0..Len(s)
  BY UpToIsFinite
<1>6. Cardinality(X) <= Cardinality(Y)
  <2> HIDE DEF f
  <2> QED
    BY <1>4, <1>5, FS_Injection
<1> QED
  BY <1>5, <1>6

LEMMA CountAtLeast ==
  ASSUME NEW s, NEW t, Len(s) \in Nat, Len(t) \in Nat, NEW S, NEW G, IsReading(G, t, s, S),
         NEW X \in SUBSET (1..Len(s)), NEW Y \in SUBSET (1..Len(t)),
         \A k \in Y : G[k] \in X
  PROVE  Cardinality(X) \in Nat /\ Cardinality(Y) \in Nat /\ Cardinality(Y) <= Cardinality(X)
<1> DEFINE f == [k \in Y |-> G[k]]
<1>1. f \in Injection(Y, X)
  <2>1. f \in [Y -> X]
    OBVIOUS
  <2>2. \A k, l \in Y : f[k] = f[l] => k = l
    BY DEF IsReading
  <2> HIDE DEF f
  <2> QED
    BY <2>1, <2>2 DEF Injection, IsInjective
<1>2. IsFiniteSet(X) /\ Cardinality(X) \in 0..Len(s) /\ Cardinality(Y) \in 0..Len(t)
  BY UpToIsFinite
<1>3. Cardinality(Y) <= Cardinality(X)
  <2> HIDE DEF f
  <2> QED
    BY <1>1, <1>2, FS_Injection
<1> QED
  BY <1>2, <1>3

-----------------------------------------------------------------------------
(* A ranked wallet is safe by what arrived.                                *)

\* A cycle has a buy.
LEMMA CycleHasBuy ==
  ASSUME NEW T, NEW s \in Seq(T), MatchTradeCycles(s) # {}
  PROVE  \E i \in DOMAIN s : s[i].is_buy
<1>1. PICK m, c : c \in MatchToken(s, m)
  BY DEF MatchTradeCycles
<1>2. Len(s) \in Nat /\ DOMAIN s = 1..Len(s) /\ Len(s) \in 0..Len(s)
  OBVIOUS
<1>3. FifoSoFar(s, m, Len(s), Matching(s, m)[Len(s)].pending, MatchToken(s, m))
  BY <1>2, FifoAlways DEF MatchToken
<1>4. c[1] \in 1..Len(s) /\ Buy(s, m, c[1])
  BY <1>1, <1>3 DEF FifoSoFar, CyclesOK
<1> QED
  BY <1>2, <1>4 DEF Buy

\* When nothing is coming any more, the list of a token is read out of what
\* arrived.
LEMMA TokenReading ==
  ASSUME IInv, phase # "aggregate", NEW i \in DOMAIN arrived
  PROVE  LET m == arrived[i].mint
         IN  /\ tokenTrades[m] \in Seq(Traded)
             /\ \E G : IsReading(G, tokenTrades[m], arrived, OfToken(m))
<1> DEFINE m == arrived[i].mint
           coming == channel \o batch
           group == Grouped(tokenTrades, m)
<1>1. arrived \in Seq(Traded) /\ arrived[i] \in Traded /\ i \in 1..Len(arrived)
  BY DEF IInv, Sequences
<1>2. m \in Tokens /\ arrived[i] \in OfToken(m)
  BY <1>1 DEF Tokens, OfToken
<1>3. group \in Seq(Traded)
  BY GroupInTraded DEF IInv
<1>4. coming = << >> /\ Kept(arrived, OfToken(m)) = group \o Kept(coming, OfToken(m))
  BY <1>2 DEF IInv, BothViewsComplete
<1> HIDE DEF m, coming, group
<1>5. Kept(coming, OfToken(m)) = << >>
  BY <1>4, KeptEmpty
<1>6. Kept(arrived, OfToken(m)) = group
  BY <1>3, <1>4, <1>5, ConcatEmptySeq
<1>7. PICK G : IsReading(G, group, arrived, OfToken(m))
  BY <1>1, <1>6, KeptReading
<1>8. group # << >>
  <2>1. Len(group) # 0
    BY <1>1, <1>2, <1>7 DEF IsReading
  <2> QED
    BY <2>1
<1>9. group = tokenTrades[m]
  BY <1>8 DEF Grouped, group
<1> QED
  BY <1>3, <1>7, <1>9 DEF m

\* So is a profile.
LEMMA ProfileReading ==
  ASSUME IInv, phase # "aggregate", NEW w \in DOMAIN profiles, profiles[w].cycles # {}
  PROVE  LET t == profiles[w].trades
         IN  /\ t \in Seq(Traded) /\ BuysOf(profiles[w]) # {}
             /\ \E H : IsReading(H, t, arrived, OfWallet(w))
<1> DEFINE t == profiles[w].trades
           u == walletTrades[w]
           coming == channel \o batch
<1>1. /\ w \in DOMAIN walletTrades /\ u \in Seq(OfWallet(w)) /\ u \in Seq(Traded)
      /\ t = Chronological(u) /\ profiles[w].cycles = MatchTradeCycles(t)
      /\ arrived \in Seq(Traded)
  BY ProfileFacts DEF IInv, ProfilesSay, Sequences
<1>2. Stamped(u)
  BY <1>1, TradesAreStamped
<1>3. t \in Seq(Traded) /\ Len(t) = Len(u)
  BY <1>1, <1>2, ChronologicalFacts
<1>4. PICK i \in DOMAIN t : t[i].is_buy
  BY <1>1, <1>3, CycleHasBuy
<1>5. BuysOf(profiles[w]) # {}
  BY <1>4 DEF BuysOf
<1>6. w \in Wallets
  <2>1. 1 \in 1..Len(u)
    BY <1>1, <1>3, <1>4
  <2>2. u[1] \in OfWallet(w)
    BY <1>1, <2>1
  <2> QED
    BY <2>2 DEF OfWallet, Wallets
<1>7. coming = << >> /\ Kept(arrived, OfWallet(w)) = u \o Kept(coming, OfWallet(w))
  BY <1>1, <1>6 DEF IInv, BothViewsComplete, Grouped
<1> HIDE DEF t, u, coming
<1>8. Kept(arrived, OfWallet(w)) = u
  <2>1. Kept(coming, OfWallet(w)) = << >>
    BY <1>7, KeptEmpty
  <2> QED
    BY <1>1, <1>7, <2>1, ConcatEmptySeq
<1>9. PICK G : IsReading(G, u, arrived, OfWallet(w))
  BY <1>1, <1>8, KeptReading
<1>10. \E H : IsReading(H, t, arrived, OfWallet(w))
  BY <1>1, <1>2, <1>9, SortedReading
<1> QED
  BY <1>3, <1>5, <1>10 DEF t

\* Filter B counts at least the buys that followed, filter C at least the buys
\* at a launch.
LEMMA FollowedAreCopies ==
  ASSUME IInv, phase # "aggregate", NEW i \in DOMAIN arrived,
         Cardinality(Followed(i)) >= FollowerThreshold
  PROVE  Cardinality(CopiesOf(arrived[i], tokenTrades[arrived[i].mint])) >= FollowerThreshold
<1> DEFINE m == arrived[i].mint
           t == tokenTrades[m]
           X == Followed(i)
           Y == CopiesOf(arrived[i], t)
<1>1. arrived \in Seq(Traded) /\ DOMAIN arrived = 1..Len(arrived) /\ Len(arrived) \in Nat
  BY DEF IInv, Sequences
<1>2. t \in Seq(Traded) /\ \E G : IsReading(G, t, arrived, OfToken(m))
  BY TokenReading
<1>3. DOMAIN t = 1..Len(t) /\ Len(t) \in Nat
  BY <1>2
<1>4. PICK G : IsReading(G, t, arrived, OfToken(m))
  BY <1>2
<1> HIDE DEF t
<1>5. X \in SUBSET (1..Len(arrived)) /\ Y \in SUBSET (1..Len(t))
  BY <1>1, <1>3 DEF Followed, CopiesOf
<1>6. \A j \in X : arrived[j] \in OfToken(m)
  BY <1>1 DEF Followed, OfToken
<1>7. ASSUME NEW k \in 1..Len(t), G[k] \in X PROVE k \in Y
  <2> DEFINE a == arrived[i]
             b == t[k]
  <2>1. b = arrived[G[k]] /\ G[k] \in 1..Len(arrived)
    BY <1>4 DEF IsReading
  <2>2. Stamped(arrived)
    BY <1>1, TradesAreStamped
  <2>3. a.slot \in Nat /\ b.slot \in Nat
    BY <1>1, <2>1, <2>2 DEF Stamped
  <2>4. /\ b.is_buy /\ b.wallet # a.wallet
        /\ (b.slot = a.slot /\ b.tx > a.tx) \/ b.slot = a.slot + 1
    BY <1>7, <2>1 DEF Followed
  <2> HIDE DEF a, b
  <2> DEFINE delta == IF b.slot > a.slot THEN b.slot - a.slot ELSE 0
  <2>5. (delta = 0 /\ b.tx > a.tx) \/ delta = 1
    BY <2>3, <2>4
  <2> QED
    BY <1>3, <2>4, <2>5 DEF CopiesOf, a, b
<1>8. /\ Cardinality(X) \in Nat /\ Cardinality(Y) \in Nat
      /\ Cardinality(X) <= Cardinality(Y)
  <2> HIDE DEF X, Y
  <2> QED
    BY <1>1, <1>3, <1>4, <1>5, <1>6, <1>7, CountAtMost
<1>9. FollowerThreshold \in Nat
  BY ReplayAssumption
<1> HIDE DEF Y
<1>10. Cardinality(Y) >= FollowerThreshold
  BY <1>8, <1>9
<1> QED
  BY <1>10 DEF Y, t

LEMMA LaunchesAreSniped ==
  ASSUME IInv, phase # "aggregate", NEW i \in DOMAIN arrived, AtLaunch(i)
  PROVE  LET t == tokenTrades[arrived[i].mint]
         IN  DatedIn(t) # {} /\ arrived[i].slot <= FirstTrade(t).slot + SniperMaxDelta
<1> DEFINE m == arrived[i].mint
           t == tokenTrades[m]
<1>1. arrived \in Seq(Traded) /\ DOMAIN arrived = 1..Len(arrived)
  BY DEF IInv, Sequences
<1>2. t \in Seq(Traded) /\ \E G : IsReading(G, t, arrived, OfToken(m))
  BY TokenReading
<1>3. DOMAIN t = 1..Len(t)
  BY <1>2
<1>4. PICK G : IsReading(G, t, arrived, OfToken(m))
  BY <1>2
<1> HIDE DEF t
<1>5. PICK j \in TradesOf(m) : arrived[j].ts > 0
  BY DEF AtLaunch
<1>6. j \in 1..Len(arrived) /\ arrived[j] \in OfToken(m)
  BY <1>1 DEF TradesOf, OfToken
<1>7. PICK k \in 1..Len(t) : G[k] = j
  BY <1>4, <1>6 DEF IsReading
<1>8. DatedIn(t) # {}
  BY <1>3, <1>4, <1>5, <1>7 DEF DatedIn, IsReading
<1>9. DatedIn(t) \in SUBSET DOMAIN t /\ Stamped(t)
  BY <1>2, TradesAreStamped DEF DatedIn
<1>10. \E l \in DatedIn(t) : \A n \in DatedIn(t) : l = n \/ Earlier(t, l, n)
  BY <1>2, <1>8, <1>9, FirstExists
<1>11. PICK l \in DatedIn(t) : FirstTrade(t) = t[l]
  BY <1>10 DEF FirstTrade
<1>12. t[l] = arrived[G[l]] /\ t[l] \in OfToken(m) /\ G[l] \in 1..Len(arrived)
  BY <1>3, <1>4, <1>9 DEF IsReading
<1>13. G[l] \in TradesOf(m)
  BY <1>1, <1>12 DEF TradesOf, OfToken
<1>14. arrived[i].slot <= arrived[G[l]].slot + SniperMaxDelta
  BY <1>13 DEF AtLaunch
<1> QED
  BY <1>8, <1>11, <1>12, <1>14 DEF t

LEMMA RankedSafe ==
  ASSUME IInv, Judged
  PROVE  RankedAreSafe
<1> SUFFICES ASSUME NEW w \in ToSet(top)
             PROVE  LET ours == ArrivedBuys(w)
                    IN  /\ 2 * Cardinality({i \in ours : Cardinality(Followed(i)) >= FollowerThreshold})
                             < Cardinality(ours)
                        /\ 2 * Cardinality({i \in ours : AtLaunch(i)}) < Cardinality(ours)
  BY DEF RankedAreSafe
<1> DEFINE p == profiles[w]
           t == p.trades
           ours == ArrivedBuys(w)
           buys == BuysOf(p)
           copied == {i \in ours : Cardinality(Followed(i)) >= FollowerThreshold}
           launched == {i \in ours : AtLaunch(i)}
           herded == HerdedBuys(p, tokenTrades)
           sniped == SnipedBuys(p, tokenTrades)
<1>1. /\ NotHerded(p, tokenTrades) /\ NotSniping(p, tokenTrades) /\ p.cycles # {}
      /\ phase # "aggregate" /\ w \in DOMAIN profiles
  BY DEF Judged, TopJudged, IInv, TypeOK
<1>2. t \in Seq(Traded) /\ buys # {} /\ \E H : IsReading(H, t, arrived, OfWallet(w))
  BY <1>1, ProfileReading
<1>3. PICK H : IsReading(H, t, arrived, OfWallet(w))
  BY <1>2
<1>4. /\ arrived \in Seq(Traded) /\ DOMAIN arrived = 1..Len(arrived) /\ Len(arrived) \in Nat
      /\ DOMAIN t = 1..Len(t) /\ Len(t) \in Nat
  BY <1>2 DEF IInv, Sequences
<1>5. ~(2 * Cardinality(herded) >= Cardinality(buys)) /\ ~(2 * Cardinality(sniped) >= Cardinality(buys))
  BY <1>1, <1>2 DEF NotHerded, NotSniping
<1>6. /\ buys = {k \in 1..Len(t) : t[k].is_buy}
      /\ herded = {k \in buys : Cardinality(CopiesOf(t[k], tokenTrades[t[k].mint])) >= FollowerThreshold}
      /\ sniped = {k \in buys : /\ DatedIn(tokenTrades[t[k].mint]) # {}
                                /\ t[k].slot <= FirstTrade(tokenTrades[t[k].mint]).slot + SniperMaxDelta}
  BY <1>4 DEF BuysOf, HerdedBuys, SnipedBuys
<1> HIDE DEF t, p, buys, herded, sniped
<1>7. ours = {i \in 1..Len(arrived) : arrived[i].wallet = w /\ arrived[i].is_buy}
  BY <1>4 DEF ArrivedBuys
<1> HIDE DEF ours
<1>8. ASSUME NEW k \in 1..Len(t)
      PROVE  /\ H[k] \in 1..Len(arrived) /\ t[k] = arrived[H[k]]
             /\ k \in buys <=> H[k] \in ours
  <2>1. H[k] \in 1..Len(arrived) /\ t[k] = arrived[H[k]] /\ t[k] \in OfWallet(w)
    BY <1>3 DEF IsReading
  <2> QED
    BY <1>6, <1>7, <2>1 DEF OfWallet
<1>9. \A i \in ours : arrived[i] \in OfWallet(w)
  BY <1>4, <1>7 DEF OfWallet
<1>10. /\ ours \in SUBSET (1..Len(arrived)) /\ copied \in SUBSET (1..Len(arrived))
       /\ launched \in SUBSET (1..Len(arrived)) /\ buys \in SUBSET (1..Len(t))
       /\ herded \in SUBSET (1..Len(t)) /\ sniped \in SUBSET (1..Len(t))
  BY <1>6, <1>7
<1>11. /\ Cardinality(ours) \in Nat /\ Cardinality(buys) \in Nat
       /\ Cardinality(buys) <= Cardinality(ours)
  <2>1. \A k \in buys : H[k] \in ours
    BY <1>8, <1>10
  <2> QED
    BY <1>3, <1>4, <1>10, <2>1, CountAtLeast
<1>12. /\ Cardinality(copied) \in Nat /\ Cardinality(herded) \in Nat
       /\ Cardinality(copied) <= Cardinality(herded)
  <2>1. ASSUME NEW k \in 1..Len(t), H[k] \in copied PROVE k \in herded
    <3>1. /\ H[k] \in DOMAIN arrived /\ t[k] = arrived[H[k]] /\ k \in buys
          /\ Cardinality(Followed(H[k])) >= FollowerThreshold
      BY <1>4, <1>8, <2>1
    <3> QED
      BY <1>1, <1>6, <3>1, FollowedAreCopies
  <2>2. \A i \in copied : arrived[i] \in OfWallet(w)
    BY <1>9
  <2> HIDE DEF copied
  <2> QED
    BY <1>3, <1>4, <1>10, <2>1, <2>2, CountAtMost
<1>13. /\ Cardinality(launched) \in Nat /\ Cardinality(sniped) \in Nat
       /\ Cardinality(launched) <= Cardinality(sniped)
  <2>1. ASSUME NEW k \in 1..Len(t), H[k] \in launched PROVE k \in sniped
    <3>1. H[k] \in DOMAIN arrived /\ t[k] = arrived[H[k]] /\ k \in buys /\ AtLaunch(H[k])
      BY <1>4, <1>8, <2>1
    <3> QED
      BY <1>1, <1>6, <3>1, LaunchesAreSniped
  <2>2. \A i \in launched : arrived[i] \in OfWallet(w)
    BY <1>9
  <2> HIDE DEF launched
  <2> QED
    BY <1>3, <1>4, <1>10, <2>1, <2>2, CountAtMost
<1> HIDE DEF copied, launched
<1>14. 2 * Cardinality(copied) < Cardinality(ours) /\ 2 * Cardinality(launched) < Cardinality(ours)
  BY <1>5, <1>11, <1>12, <1>13
<1> QED
  BY <1>14 DEF copied, launched, ours

-----------------------------------------------------------------------------
(* The theorems.                                                           *)

\* The tasks are only ever at one of their await points, a message's trades
\* wait exactly while they are being sent, connection attempts and the channel
\* keep to their limits, each list holds the trades of its key, and only
\* wallets that traded are profiled and ranked (grpc_streamer.rs, main.rs
\* run_replay_mode).
THEOREM TypeCorrect == Spec => []TypeOK
<1>1. IInv => TypeOK
  BY DEF IInv
<1> QED
  BY <1>1, InitHolds, Inductive, PTL DEF Spec

\* Both views of the aggregator have every trade of the window in the order of
\* arrival, but for those in the channel and in the streamer's hands, and
\* nothing is on its way any more when profiles are built: the batch phases work
\* on the whole window, whatever the size of the channel (aggregator.rs:33-48).
THEOREM ViewsComplete == Spec => []BothViewsComplete
<1>1. IInv => BothViewsComplete
  BY DEF IInv
<1> QED
  BY <1>1, InitHolds, Inductive, PTL DEF Spec

\* The cycles of every profile, before and after any filter, are the FIFO
\* matching of its trades in chronological order (match_trade_cycles,
\* aggregator.rs:155-199).
THEOREM FifoCycles == Spec => []CyclesAreFifo
<1>1. IInv => CyclesAreFifo
  <2> SUFFICES ASSUME IInv, NEW w \in DOMAIN profiles
               PROVE  /\ InOrder(profiles[w].trades)
                      /\ IsFifoMatching(profiles[w].trades, profiles[w].cycles)
    BY DEF CyclesAreFifo
  <2>1. walletTrades[w] \in Seq(Traded)
    BY ProfileFacts
  <2>2. /\ profiles[w].trades = Chronological(walletTrades[w])
        /\ profiles[w].cycles = MatchTradeCycles(profiles[w].trades)
    BY DEF IInv, ProfilesSay
  <2>3. profiles[w].trades \in Seq(Traded) /\ InOrder(profiles[w].trades)
    BY <2>1, <2>2, TradesAreStamped, ChronologicalFacts
  <2> QED
    BY <2>2, <2>3, FifoHolds
<1> QED
  BY <1>1, InitHolds, Inductive, PTL DEF Spec

\* No wallet is ranked half of whose buys were copied as often as the threshold
\* says, or made at the launch of a token, counted over everything that arrived
\* and in whatever order: the filters' own lists and saturating differences hide
\* none of it (filters.rs:86-97, :181-187, ranker.rs:23-30).
THEOREM RankedSafely == Spec => []RankedAreSafe
<1>1. Init => IInv /\ Judged
  BY InitHolds, InitJudged
<1>2. IInv /\ Judged /\ [Next]_vars => IInv' /\ Judged'
  BY Inductive, JudgedInductive
<1>3. IInv /\ Judged => RankedAreSafe
  BY RankedSafe
<1> QED
  BY <1>1, <1>2, <1>3, PTL DEF Spec
=============================================================================
