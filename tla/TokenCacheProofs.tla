-------------------------- MODULE TokenCacheProofs --------------------------
(***************************************************************************)
(* Proofs about the two caches that are kept by token.  For every set of   *)
(* tokens and of slots the T0 registry keeps its types, never overwrites   *)
(* an entry, and implements EarliestSlot.  For any buys, any cap and any   *)
(* order of arrival the buy list stays sorted, keeps the latest buys, and  *)
(* counts every follower.                                                  *)
(***************************************************************************)
EXTENDS TokenRegistry, BuyIndex, SequenceTheorems, TLAPS

-----------------------------------------------------------------------------
(* The T0 registry.                                                        *)

\* Every reachable registry state is well typed: at each await point of
\* record_observation, whatever was evicted in between.
THEOREM TypeCorrect == Spec => []TypeOK
<1> USE SlotsAssumption DEF TypeOK, Calls, None
<1>1. Init => TypeOK
  BY DEF Init
<1>2. TypeOK /\ [Next]_vars => TypeOK'
  <2> SUFFICES ASSUME TypeOK, [Next]_vars PROVE TypeOK'
    OBVIOUS
  <2>1. ASSUME NEW m \in Mints, NEW s \in Slots, Get(m, s) PROVE TypeOK'
    BY <2>1 DEF Get
  <2>2. CASE Insert
    BY <2>2 DEF Insert
  <2>3. CASE Update
    BY <2>3 DEF Update
  <2>4. ASSUME NEW m \in Mints, Evict(m) PROVE TypeOK'
    BY <2>4 DEF Evict
  <2>5. CASE UNCHANGED vars
    BY <2>5 DEF vars
  <2> QED
    BY <2>1, <2>2, <2>3, <2>4, <2>5 DEF Next, RecordObservation
<1> QED
  BY <1>1, <1>2, PTL DEF Spec

\* The check-then-insert of record_observation never overwrites an entry, and
\* a call on the fast path holds the cached entry or an orphan of it.
THEOREM NeverClobbers == Spec => []NoClobber
<1> USE SlotsAssumption DEF TypeOK, Calls, None
<1>1. Init => NoClobber
  BY DEF Init, NoClobber
<1>2. TypeOK /\ NoClobber /\ [Next]_vars => NoClobber'
  <2> SUFFICES ASSUME TypeOK, NoClobber, [Next]_vars PROVE NoClobber'
    OBVIOUS
  <2> USE DEF NoClobber
  <2>1. ASSUME NEW m \in Mints, NEW s \in Slots, Get(m, s) PROVE NoClobber'
    BY <2>1 DEF Get
  <2>2. CASE Insert
    BY <2>2 DEF Insert
  <2>3. CASE Update
    BY <2>3 DEF Update
  <2>4. ASSUME NEW m \in Mints, Evict(m) PROVE NoClobber'
    BY <2>4 DEF Evict
  <2>5. CASE UNCHANGED vars
    BY <2>5 DEF vars
  <2> QED
    BY <2>1, <2>2, <2>3, <2>4, <2>5 DEF Next, RecordObservation
<1> QED
  BY <1>1, <1>2, TypeCorrect, PTL DEF Spec

\* Every step of the registry is a step of the atomic earliest-slot register,
\* or none.  An eviction under a call in progress is ObserveAndForget: the
\* call's answer is settled by the entry it holds, and nobody sees its write.
THEOREM RefinesEarliestSlot == Spec => ImplementsEarliestSlot
<1> USE SlotsAssumption DEF TypeOK, Calls, None, Promise!None, PromisedOutcome
<1>1. Init => Promise!AbsInit
  BY DEF Init, Promise!AbsInit
<1>2. TypeOK /\ NoClobber /\ [Next]_vars => [Promise!AbsNext]_(Promise!absVars)
  <2> SUFFICES ASSUME TypeOK, NoClobber, [Next]_vars
               PROVE  Promise!AbsNext \/ UNCHANGED Promise!absVars
    OBVIOUS
  <2> USE DEF NoClobber, Promise!absVars
  <2>1. ASSUME NEW m \in Mints, NEW s \in Slots, Get(m, s)
        PROVE  UNCHANGED Promise!absVars
    BY <2>1 DEF Get
  <2>2. CASE Insert
    <3>1. Promise!ObserveNew(call.mint, call.slot)
      BY <2>2 DEF Insert, Promise!ObserveNew
    <3> QED
      BY <3>1 DEF Promise!AbsNext, Promise!Observe
  <2>3. CASE Update /\ call.orphan # None
    BY <2>3 DEF Update, HeldT0
  <2>4. CASE Update /\ call.orphan = None
    <3>1. registry[call.mint] \in Slots
      BY <2>4 DEF Update
    <3>2. \/ Promise!ObserveLower(call.mint, call.slot)
          \/ Promise!ObserveLater(call.mint, call.slot)
      BY <2>4, <3>1 DEF Update, HeldT0, Promise!ObserveLower, Promise!ObserveLater
    <3> QED
      BY <3>2 DEF Promise!AbsNext, Promise!Observe
  <2>5. ASSUME NEW m \in Mints, Evict(m) PROVE Promise!AbsNext
    <3>1. CASE call.pc = "update" /\ call.mint = m
      <4>1. Promise!ObserveAndForget(m, call.slot)
        BY <2>5, <3>1 DEF Evict, Promise!ObserveAndForget
      <4> QED
        BY <4>1 DEF Promise!AbsNext
    <3>2. CASE ~(call.pc = "update" /\ call.mint = m)
      <4>1. Promise!Forget(m)
        BY <2>5, <3>2 DEF Evict, Promise!Forget
      <4> QED
        BY <4>1 DEF Promise!AbsNext
    <3> QED
      BY <3>1, <3>2
  <2>6. CASE UNCHANGED vars
    BY <2>6 DEF vars
  <2> QED
    BY <2>1, <2>2, <2>3, <2>4, <2>5, <2>6 DEF Next, RecordObservation
<1> QED
  BY <1>1, <1>2, TypeCorrect, NeverClobbers, PTL DEF Spec, ImplementsEarliestSlot, Promise!AbsSpec

-----------------------------------------------------------------------------
(* The key is a total preorder.                                            *)

LEMMA KeyOrder ==
  ASSUME NEW a \in Entries, NEW b \in Entries, NEW c \in Entries
  PROVE  /\ ~Before(a, a)
         /\ Before(a, b) => ~Before(b, a)
         /\ ~Before(b, a) /\ ~Before(c, b) => ~Before(c, a)
         /\ SameKey(a, b) => /\ ~Before(a, b) /\ ~Before(b, a)
                             /\ Before(a, c) <=> Before(b, c)
                             /\ Before(c, a) <=> Before(c, b)
BY EntriesAssumption DEF Before, SameKey

\* Wherever the search puts a buy in a sorted list, what is in front of it
\* does not follow it, and what is behind does not precede it.
LEMMA SearchFacts ==
  ASSUME NEW s \in Seq(Entries), Sorted(s), NEW e \in Entries, NEW p \in Search(s, e)
  PROVE  /\ p \in 1..Len(s) + 1
         /\ \A i \in 1..Len(s) : i < p => ~Before(e, s[i])
         /\ \A i \in 1..Len(s) : i >= p => ~Before(s[i], e)
<1> DEFINE matches == {i \in DOMAIN s : SameKey(s[i], e)}
<1>0. /\ DOMAIN s = 1..Len(s) /\ Len(s) \in Nat
      /\ \A i \in 1..Len(s) : s[i] \in Entries
  OBVIOUS
<1>1. CASE matches # {}
  <2>1. p \in 1..Len(s) /\ SameKey(s[p], e) /\ s[p] \in Entries
    BY <1>0, <1>1 DEF Search
  <2>2. ASSUME NEW i \in 1..Len(s), i < p PROVE ~Before(e, s[i])
    <3>1. ~Before(s[p], s[i])
      BY <1>0, <2>1, <2>2 DEF Sorted
    <3> QED
      BY <1>0, <2>1, <3>1, KeyOrder
  <2>3. ASSUME NEW i \in 1..Len(s), i > p PROVE ~Before(s[i], e)
    <3>1. ~Before(s[i], s[p])
      BY <1>0, <2>1, <2>3 DEF Sorted
    <3> QED
      BY <1>0, <2>1, <3>1, KeyOrder
  <2>4. ~Before(s[p], e)
    BY <2>1, KeyOrder
  <2> QED
    BY <1>0, <2>1, <2>2, <2>3, <2>4
<1>2. CASE matches = {}
  <2>1. p \in {q \in 1..Len(s) + 1 : \A i \in DOMAIN s : Before(s[i], e) <=> (i < q)}
    BY <1>2 DEF Search
  <2>2. p \in 1..Len(s) + 1 /\ \A i \in 1..Len(s) : Before(s[i], e) <=> (i < p)
    BY <1>0, <2>1
  <2> QED
    BY <1>0, <2>2, KeyOrder
<1> QED
  BY <1>1, <1>2

\* What is where in the list that a buy was inserted into.
LEMMA InsertFacts ==
  ASSUME NEW s \in Seq(Entries), NEW e \in Entries, NEW p \in 1..Len(s) + 1
  PROVE  /\ InsertAt(s, p, e) \in Seq(Entries)
         /\ Len(InsertAt(s, p, e)) = Len(s) + 1
         /\ \A i \in 1..Len(s) + 1 :
              InsertAt(s, p, e)[i] = IF i < p THEN s[i]
                                     ELSE IF i = p THEN e ELSE s[i - 1]
<1>0. p \in Nat \ {0} /\ Len(s) \in Nat /\ p <= Len(s) + 1
  OBVIOUS
<1> DEFINE a == SubSeq(s, 1, p - 1)
           c == SubSeq(s, p, Len(s))
<1>1. /\ a \in Seq(Entries) /\ Len(a) = p - 1
      /\ \A i \in 1..p - 1 : a[i] = s[i]
  <2>1. \A i \in 1..p - 1 : s[i] \in Entries
    BY <1>0
  <2>2. /\ a \in Seq(Entries) /\ Len(a) = IF 1 <= p - 1 THEN (p - 1) - 1 + 1 ELSE 0
        /\ \A i \in 1..(p - 1) - 1 + 1 : a[i] = s[1 + i - 1]
    BY <1>0, <2>1, SubSeqProperties
  <2> QED
    BY <1>0, <2>2
<1>2. /\ c \in Seq(Entries) /\ Len(c) = Len(s) + 1 - p
      /\ \A i \in 1..Len(s) + 1 - p : c[i] = s[p + i - 1]
  <2>1. \A i \in p..Len(s) : s[i] \in Entries
    BY <1>0
  <2>2. /\ c \in Seq(Entries) /\ Len(c) = IF p <= Len(s) THEN Len(s) - p + 1 ELSE 0
        /\ \A i \in 1..Len(s) - p + 1 : c[i] = s[p + i - 1]
    BY <1>0, <2>1, SubSeqProperties
  <2> QED
    BY <1>0, <2>2
<1>3. <<e>> \in Seq(Entries) /\ Len(<<e>>) = 1 /\ <<e>>[1] = e
  OBVIOUS
<1> DEFINE b == a \o <<e>>
           t == b \o c
<1>4. InsertAt(s, p, e) = t
  BY DEF InsertAt
<1> HIDE DEF a, c
<1>5. /\ b \in Seq(Entries) /\ Len(b) = p
      /\ \A i \in 1..p : b[i] = IF i <= p - 1 THEN a[i] ELSE <<e>>[i - (p - 1)]
  BY <1>0, <1>1, <1>3, ConcatProperties
<1>6. /\ \A i \in 1..p - 1 : b[i] = s[i]
      /\ b[p] = e
  BY <1>0, <1>1, <1>3, <1>5
<1> HIDE DEF b
<1>7. /\ t \in Seq(Entries) /\ Len(t) = Len(s) + 1
      /\ \A i \in 1..Len(s) + 1 : t[i] = IF i <= p THEN b[i] ELSE c[i - p]
  BY <1>0, <1>2, <1>5, ConcatProperties
<1> HIDE DEF t
<1>8. ASSUME NEW i \in 1..Len(s) + 1
      PROVE  t[i] = IF i < p THEN s[i] ELSE IF i = p THEN e ELSE s[i - 1]
  <2>1. CASE i < p
    BY <1>0, <1>6, <1>7, <2>1
  <2>2. CASE i = p
    BY <1>0, <1>6, <1>7, <2>2
  <2>3. CASE i > p
    <3>1. i - p \in 1..Len(s) + 1 - p /\ p + (i - p) - 1 = i - 1
      BY <1>0, <2>3
    <3>2. c[i - p] = s[i - 1]
      BY <1>2, <3>1
    <3> QED
      BY <1>0, <1>7, <2>3, <3>2
  <2> QED
    BY <1>0, <2>1, <2>2, <2>3
<1> QED
  BY <1>4, <1>7, <1>8

\* Insertion keeps a sorted list sorted.
LEMMA InsertSorted ==
  ASSUME NEW s \in Seq(Entries), Sorted(s), NEW e \in Entries, NEW p \in Search(s, e)
  PROVE  Sorted(InsertAt(s, p, e))
<1> DEFINE t == InsertAt(s, p, e)
<1>1. /\ p \in 1..Len(s) + 1 /\ Len(s) \in Nat
      /\ \A i \in 1..Len(s) : i < p => ~Before(e, s[i])
      /\ \A i \in 1..Len(s) : i >= p => ~Before(s[i], e)
  BY SearchFacts
<1>2. /\ t \in Seq(Entries) /\ Len(t) = Len(s) + 1
      /\ \A i \in 1..Len(s) + 1 :
           t[i] = IF i < p THEN s[i] ELSE IF i = p THEN e ELSE s[i - 1]
  BY <1>1, InsertFacts
<1>3. \A i, j \in 1..Len(s) : i < j => ~Before(s[j], s[i])
  BY DEF Sorted
<1> HIDE DEF t
<1>4. ASSUME NEW i \in 1..Len(s) + 1, NEW j \in 1..Len(s) + 1, i < j
      PROVE  ~Before(t[j], t[i])
  <2>1. CASE j < p
    BY <1>1, <1>2, <1>3, <1>4, <2>1
  <2>2. CASE j = p
    <3>1. i \in 1..Len(s) /\ t[i] = s[i] /\ t[j] = e
      BY <1>1, <1>2, <1>4, <2>2
    <3> QED
      BY <1>1, <1>4, <2>2, <3>1
  <2>3. CASE j > p /\ i < p
    <3>1. i \in 1..Len(s) /\ j - 1 \in 1..Len(s) /\ i < j - 1
      BY <1>1, <1>4, <2>3
    <3>2. t[i] = s[i] /\ t[j] = s[j - 1]
      BY <1>1, <1>2, <2>3
    <3> QED
      BY <1>3, <3>1, <3>2
  <2>4. CASE j > p /\ i = p
    <3>1. j - 1 \in 1..Len(s) /\ j - 1 >= p
      BY <1>1, <1>4, <2>4
    <3>2. t[i] = e /\ t[j] = s[j - 1]
      BY <1>1, <1>2, <2>4
    <3> QED
      BY <1>1, <3>1, <3>2
  <2>5. CASE i > p
    <3>1. i - 1 \in 1..Len(s) /\ j - 1 \in 1..Len(s) /\ i - 1 < j - 1
      BY <1>1, <1>4, <2>5
    <3>2. t[i] = s[i - 1] /\ t[j] = s[j - 1]
      BY <1>1, <1>2, <1>4, <2>5
    <3> QED
      BY <1>3, <3>1, <3>2
  <2> QED
    BY <1>1, <1>4, <2>1, <2>2, <2>3, <2>4, <2>5
<1>5. DOMAIN t = 1..Len(s) + 1
  BY <1>2
<1> QED
  BY <1>4, <1>5 DEF Sorted, t

\* The drain of a list that is at most one over the cap: nothing, or the head.
LEMMA CappedFacts ==
  ASSUME NEW t \in Seq(Entries), t # << >>, Len(t) <= BuyCap + 1
  PROVE  \/ Capped(t) = t /\ Len(t) <= BuyCap
         \/ /\ Len(t) = BuyCap + 1
            /\ Capped(t) \in Seq(Entries) /\ Len(Capped(t)) = BuyCap
            /\ \A i \in 1..BuyCap : Capped(t)[i] = t[i + 1]
<1>0. BuyCap \in Nat \ {0} /\ Len(t) \in Nat
  BY BuyIndexAssumption
<1>1. CASE Len(t) > BuyCap
  <2>1. Len(t) = BuyCap + 1 /\ Capped(t) = SubSeq(t, 2, BuyCap + 1)
    BY <1>0, <1>1 DEF Capped
  <2>2. \A i \in 2..BuyCap + 1 : t[i] \in Entries
    BY <1>0, <2>1
  <2> DEFINE u == SubSeq(t, 2, BuyCap + 1)
  <2>3. /\ u \in Seq(Entries)
        /\ Len(u) = IF 2 <= BuyCap + 1 THEN BuyCap + 1 - 2 + 1 ELSE 0
        /\ \A i \in 1..BuyCap + 1 - 2 + 1 : u[i] = t[2 + i - 1]
    BY <1>0, <2>2, SubSeqProperties
  <2> HIDE DEF u
  <2>4. Len(u) = BuyCap /\ \A i \in 1..BuyCap : u[i] = t[i + 1]
    BY <1>0, <2>3
  <2> QED
    BY <2>1, <2>3, <2>4 DEF u
<1>2. CASE ~(Len(t) > BuyCap)
  BY <1>0, <1>2 DEF Capped
<1> QED
  BY <1>1, <1>2

-----------------------------------------------------------------------------
(* One buy indexed.                                                        *)

\* Until the list is full it has everything that was offered.
AllUntilFull == Len(list) < BuyCap => offered \subseteq ToSet(list)

IndexInv == IndexTypeOK /\ ListSorted /\ AllUntilFull /\ KeepsLatest

\* Inserting a buy adds it to those in the list and loses none.
LEMMA InsertElements ==
  ASSUME NEW s \in Seq(Entries), NEW e \in Entries, NEW p \in 1..Len(s) + 1
  PROVE  ToSet(InsertAt(s, p, e)) = ToSet(s) \cup {e}
<1> DEFINE t == InsertAt(s, p, e)
<1>1. /\ t \in Seq(Entries) /\ Len(t) = Len(s) + 1 /\ Len(s) \in Nat /\ p \in Nat
      /\ \A i \in 1..Len(s) + 1 :
           t[i] = IF i < p THEN s[i] ELSE IF i = p THEN e ELSE s[i - 1]
  BY InsertFacts
<1>2. DOMAIN t = 1..Len(s) + 1 /\ DOMAIN s = 1..Len(s)
  BY <1>1
<1> HIDE DEF t
<1>3. ASSUME NEW i \in 1..Len(s) + 1 PROVE t[i] \in ToSet(s) \cup {e}
  <2>1. CASE i < p
    BY <1>1, <1>2, <2>1 DEF ToSet
  <2>2. CASE i = p
    BY <1>1, <2>2
  <2>3. CASE i > p
    <3>1. i - 1 \in 1..Len(s) /\ t[i] = s[i - 1]
      BY <1>1, <2>3
    <3> QED
      BY <1>2, <3>1 DEF ToSet
  <2> QED
    BY <1>1, <2>1, <2>2, <2>3
<1>4. e = t[p]
  BY <1>1
<1>5. ASSUME NEW k \in 1..Len(s) PROVE \E i \in 1..Len(s) + 1 : t[i] = s[k]
  <2>1. CASE k < p
    BY <1>1, <2>1
  <2>2. CASE k >= p
    <3>1. k + 1 \in 1..Len(s) + 1 /\ t[k + 1] = s[k + 1 - 1] /\ k + 1 - 1 = k
      BY <1>1, <2>2
    <3> QED
      BY <3>1
  <2> QED
    BY <1>1, <2>1, <2>2
<1> QED
  BY <1>2, <1>3, <1>4, <1>5 DEF ToSet, t

LEMMA IndexKeeps ==
  ASSUME IndexInv, NEW e \in Entries, IndexBuy(e)
  PROVE  IndexInv'
<1>1. /\ list \in Seq(Entries) /\ Len(list) \in Nat /\ Len(list) <= BuyCap
      /\ Sorted(list) /\ offered \subseteq Entries /\ BuyCap \in Nat \ {0}
  BY BuyIndexAssumption DEF IndexInv, IndexTypeOK, ListSorted
<1>2. PICK p \in Search(list, e) : list' = Capped(InsertAt(list, p, e))
  BY DEF IndexBuy, Indexed
<1>3. p \in 1..Len(list) + 1
  BY <1>1, SearchFacts
<1> DEFINE t == InsertAt(list, p, e)
<1>4. /\ t \in Seq(Entries) /\ Len(t) = Len(list) + 1 /\ t # << >>
      /\ Sorted(t) /\ ToSet(t) = ToSet(list) \cup {e}
  BY <1>1, <1>3, InsertFacts, InsertSorted, InsertElements
<1>5. \A i \in 1..Len(list) + 1 :
        t[i] = IF i < p THEN list[i] ELSE IF i = p THEN e ELSE list[i - 1]
  BY <1>1, <1>3, InsertFacts
<1>6. list' = Capped(t) /\ offered' = offered \cup {e}
  BY <1>2 DEF IndexBuy
<1> HIDE DEF t
<1>7. CASE Capped(t) = t /\ Len(t) <= BuyCap
  <2>1. offered' \subseteq ToSet(list')
    BY <1>1, <1>4, <1>6, <1>7 DEF IndexInv, AllUntilFull
  <2>2. KeepsLatest' /\ AllUntilFull'
    BY <2>1 DEF KeepsLatest, AllUntilFull
  <2>3. IndexTypeOK' /\ ListSorted'
    BY <1>1, <1>4, <1>6, <1>7 DEF IndexTypeOK, ListSorted
  <2> QED
    BY <2>2, <2>3 DEF IndexInv
<1>8. CASE /\ Len(t) = BuyCap + 1
           /\ Capped(t) \in Seq(Entries) /\ Len(Capped(t)) = BuyCap
           /\ \A i \in 1..BuyCap : Capped(t)[i] = t[i + 1]
  <2>1. /\ list' \in Seq(Entries) /\ Len(list') = BuyCap /\ DOMAIN list' = 1..BuyCap
        /\ \A i \in 1..BuyCap : list'[i] = t[i + 1]
    BY <1>6, <1>8
  <2>2. DOMAIN t = 1..BuyCap + 1 /\ \A i \in 1..BuyCap + 1 : t[i] \in Entries
    BY <1>4, <1>8
  <2>3. \A i, j \in 1..BuyCap + 1 : i < j => ~Before(t[j], t[i])
    BY <1>4, <2>2 DEF Sorted
  <2>4. Sorted(list')
    <3> SUFFICES ASSUME NEW i \in 1..BuyCap, NEW j \in 1..BuyCap, i < j
                 PROVE  ~Before(list'[j], list'[i])
      BY <2>1 DEF Sorted
    <3>1. i + 1 \in 1..BuyCap + 1 /\ j + 1 \in 1..BuyCap + 1 /\ i + 1 < j + 1
      BY <1>1
    <3> QED
      BY <2>1, <2>3, <3>1
  <2>5. list' # << >> /\ offered' # {} /\ offered' \subseteq Entries
    BY <1>1, <1>6, <2>1
  <2>6. ASSUME NEW x \in offered', x \notin ToSet(list'), NEW i \in 1..BuyCap
        PROVE  ~Before(list'[i], x)
    <3>1. i + 1 \in 1..BuyCap + 1 /\ 1 \in 1..BuyCap + 1 /\ 1 < i + 1
      BY <1>1
    <3>2. list'[i] = t[i + 1] /\ t[i + 1] \in Entries /\ t[1] \in Entries /\ x \in Entries
      BY <2>1, <2>2, <2>5, <2>6, <3>1
    <3>3. ~Before(t[i + 1], t[1])
      BY <2>3, <3>1
    <3>4. CASE x = t[1]
      BY <3>2, <3>3, <3>4
    <3>5. CASE x # t[1]
      <4>1. x \notin ToSet(t)
        <5>1. ASSUME NEW k \in 1..BuyCap + 1, x = t[k] PROVE FALSE
          <6>1. k # 1
            BY <3>5, <5>1
          <6>2. k - 1 \in 1..BuyCap /\ (k - 1) + 1 = k
            BY <1>1, <6>1
          <6>3. list'[k - 1] = t[k]
            BY <2>1, <6>2
          <6> QED
            BY <2>1, <2>6, <5>1, <6>2, <6>3 DEF ToSet
        <5> QED
          BY <2>2, <5>1 DEF ToSet
      <4>2. x \in offered \ ToSet(list) /\ x # e
        BY <1>4, <1>6, <2>6, <4>1
      <4>3. \A k \in DOMAIN list : ~Before(list[k], x)
        BY <4>2 DEF IndexInv, KeepsLatest
      <4>4. CASE t[i + 1] # e
        <5>1. t[i + 1] \in ToSet(list)
          BY <1>4, <2>2, <3>1, <4>4 DEF ToSet
        <5> QED
          BY <3>2, <4>3, <5>1 DEF ToSet
      <4>5. CASE t[1] # e
        <5>1. t[1] \in ToSet(list)
          BY <1>4, <2>2, <3>1, <4>5 DEF ToSet
        <5>2. ~Before(t[1], x)
          BY <4>3, <5>1 DEF ToSet
        <5> QED
          BY <3>2, <3>3, <5>2, KeyOrder
      <4>6. CASE t[1] = e /\ t[i + 1] = e
        <5>1. Len(list) = BuyCap /\ DOMAIN list = 1..BuyCap /\ 1 \in DOMAIN list
          BY <1>1, <1>4, <1>8
        <5>2. CASE p = 1
          <6>1. t[i + 1] = list[i + 1 - 1] /\ i + 1 - 1 = i
            BY <1>3, <1>5, <3>1, <5>1, <5>2
          <6> QED
            BY <3>2, <4>3, <4>6, <5>1, <6>1
        <5>3. CASE p # 1
          <6>1. t[1] = list[1]
            BY <1>1, <1>3, <1>5, <5>3
          <6> QED
            BY <3>2, <4>3, <4>6, <5>1, <6>1
        <5> QED
          BY <5>2, <5>3
      <4> QED
        BY <4>4, <4>5, <4>6
    <3> QED
      BY <3>4, <3>5
  <2>7. KeepsLatest'
    BY <2>1, <2>6 DEF KeepsLatest
  <2> QED
    BY <1>1, <2>1, <2>4, <2>5, <2>7 DEF IndexInv, IndexTypeOK, ListSorted, AllUntilFull
<1> QED
  BY <1>1, <1>4, <1>7, <1>8, CappedFacts

LEMMA IndexInductive == IndexInv /\ [IndexNext]_indexVars => IndexInv'
<1> SUFFICES ASSUME IndexInv, [IndexNext]_indexVars PROVE IndexInv'
  OBVIOUS
<1>1. CASE EvictList
  <2>1. list' = << >> /\ offered' = {}
    BY <1>1 DEF EvictList
  <2> QED
    BY <2>1, BuyIndexAssumption
       DEF IndexInv, IndexTypeOK, ListSorted, Sorted, AllUntilFull, KeepsLatest
<1>2. CASE UNCHANGED indexVars
  BY <1>2 DEF IndexInv, IndexTypeOK, ListSorted, AllUntilFull, KeepsLatest, indexVars
<1> QED
  BY <1>1, <1>2, IndexKeeps DEF IndexNext, Bounded

LEMMA IndexInitHolds == IndexInit => IndexInv
BY BuyIndexAssumption DEF IndexInit, IndexInv, IndexTypeOK, ListSorted, Sorted, AllUntilFull, KeepsLatest

-----------------------------------------------------------------------------
\* The list holds buys and no more of them than its cap.
THEOREM IndexTypeCorrect == IndexSpec => []IndexTypeOK
<1>1. IndexInv => IndexTypeOK
  BY DEF IndexInv
<1> QED
  BY <1>1, IndexInitHolds, IndexInductive, PTL DEF IndexSpec

\* Whatever the order of arrival, every binary search finds a sorted list.
THEOREM StaysSorted == IndexSpec => []ListSorted
<1>1. IndexInv => ListSorted
  BY DEF IndexInv
<1> QED
  BY <1>1, IndexInitHolds, IndexInductive, PTL DEF IndexSpec

\* What falls off at the cap never belongs behind what is kept.
THEOREM DropsEarliest == IndexSpec => []KeepsLatest
<1>1. IndexInv => KeepsLatest
  BY DEF IndexInv
<1> QED
  BY <1>1, IndexInitHolds, IndexInductive, PTL DEF IndexSpec

\* The saturating difference of count_copycats misses no follower.
THEOREM MissesNoFollower == IndexSpec => []CountsEveryFollower
<1>1. IndexTypeOK => CountsEveryFollower
  <2> SUFFICES ASSUME IndexTypeOK, NEW e \in ToSet(list), NEW f \in ToSet(list),
                      f.wallet # e.wallet,
                      Before([slot |-> e.slot, tx |-> e.tx], f),
                      f.slot <= e.slot + CopycatWindow
               PROVE  IsCopycat(f, e.wallet, e.slot, e.tx)
    BY DEF CountsEveryFollower, Followers, Copycats
  <2>1. e \in Entries /\ f \in Entries
    BY DEF IndexTypeOK, ToSet
  <2>2. e.slot \in Nat /\ f.slot \in Nat /\ e.tx \in Nat /\ f.tx \in Nat
    BY <2>1, EntriesAssumption
  <2> QED
    BY <2>2, BuyIndexAssumption DEF Before, IsCopycat
<1> QED
  BY <1>1, IndexTypeCorrect, PTL
=============================================================================
