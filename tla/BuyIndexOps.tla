---------------------------- MODULE BuyIndexOps -----------------------------
(***************************************************************************)
(* The per-token buy list of src/src/cache.rs: where a buy is inserted,    *)
(* what falls off at the cap, and how the list is read for copycats.       *)
(***************************************************************************)
EXTENDS Integers, Sequences, FiniteSets, SequencesExt

CONSTANTS BuyCap,         \* buys kept per token, 1000
          CopycatWindow   \* copycat_cluster_window_slots, 3

ASSUME BuyIndexAssumption == BuyCap \in Nat \ {0} /\ CopycatWindow \in Nat

\* BuyEntry of a trade.
EntryOf(t) == [wallet |-> t.wallet, slot |-> t.slot, tx |-> t.tx]

\* The sort key: slot first, then tx_index.
Before(a, b)  == a.slot < b.slot \/ (a.slot = b.slot /\ a.tx < b.tx)
SameKey(a, b) == a.slot = b.slot /\ a.tx = b.tx

Sorted(list) == \A i, j \in DOMAIN list : i < j => ~Before(list[j], list[i])

\* Defect: the list is searched by slot alone.
SearchBySlot(list, e) ==
    LET matches == {i \in DOMAIN list : list[i].slot = e.slot} IN
    IF matches # {} THEN matches
    ELSE {p \in 1..Len(list) + 1 : \A i \in DOMAIN list : (list[i].slot < e.slot) <=> (i < p)}

\* binary_search_by(..).unwrap_or_else(|p| p) on a sorted list: any one of the
\* matches, or the place where the key belongs.
Search(list, e) ==
    LET matches == {i \in DOMAIN list : SameKey(list[i], e)} IN
    IF matches # {} THEN matches
    ELSE {p \in 1..Len(list) + 1 : \A i \in DOMAIN list : Before(list[i], e) <=> (i < p)}

\* Defect: the latest buys are drained instead of the earliest.
CapKeepingEarliest(list) == IF Len(list) > BuyCap THEN SubSeq(list, 1, BuyCap) ELSE list

\* Defect: one entry too many is tolerated.
CapOffByOne(list) ==
    IF Len(list) > BuyCap + 1 THEN SubSeq(list, Len(list) - BuyCap, Len(list)) ELSE list

\* list.drain(..excess)
Capped(list) ==
    IF Len(list) > BuyCap THEN SubSeq(list, Len(list) - BuyCap + 1, Len(list)) ELSE list

\* The lists that index_buy may leave; an absent list is an empty one, and a
\* new list is the singleton.
Indexed(list, e) == {Capped(InsertAt(list, p, e)) : p \in Search(list, e)}

\* The wallets in the list, whose trades a T0 revision annotates again.
BuyersIn(list) == {list[i].wallet : i \in DOMAIN list}

\* Defect: the last slot of the window is left out.
IsCopycatExclusive(e, wallet, slot, tx) ==
    /\ e.wallet # wallet
    /\ LET delta == IF e.slot > slot THEN e.slot - slot ELSE 0
       IN  IF delta = 0 THEN e.tx > tx ELSE delta < CopycatWindow

\* One entry of count_copycats' loop.  The delta is a saturating_sub: an entry
\* of an earlier slot has delta 0 and is judged by its tx_index.
IsCopycat(e, wallet, slot, tx) ==
    /\ e.wallet # wallet
    /\ LET delta == IF e.slot > slot THEN e.slot - slot ELSE 0
       IN  IF delta = 0 THEN e.tx > tx ELSE delta <= CopycatWindow

\* count_copycats: the distinct wallets; the function returns how many.
Copycats(list, wallet, slot, tx) ==
    {e.wallet : e \in {f \in ToSet(list) : IsCopycat(f, wallet, slot, tx)}}

\* What its documentation describes: the other wallets that bought after the
\* buy, within the window.
Followers(buys, wallet, slot, tx) ==
    {e.wallet : e \in {f \in buys : /\ f.wallet # wallet
                                    /\ Before([slot |-> slot, tx |-> tx], f)
                                    /\ f.slot <= slot + CopycatWindow}}
=============================================================================
