------------------------------ MODULE BuyIndex ------------------------------
(***************************************************************************)
(* One token's buy list over time (src/src/cache.rs, index_buy and         *)
(* count_copycats).  Buys arrive in any order of slot and tx_index, the    *)
(* list is capped, and the cache may evict it and start a new one.         *)
(***************************************************************************)
EXTENDS BuyIndexOps

CONSTANTS Entries,     \* the BuyEntries that may be indexed
          MaxIndexed   \* bound on the number of buys indexed, for TLC

ASSUME EntriesAssumption == \A e \in Entries : e.slot \in Nat /\ e.tx \in Nat

VARIABLES list,      \* the token's entry in token_buys, << >> if absent
          offered,   \* history: the buys indexed since the list was created
          count      \* history: buys indexed since the start

indexVars == <<list, offered, count>>

IndexInit ==
    /\ list = << >>
    /\ offered = {}
    /\ count = 0

\* index_buy
IndexBuy(e) ==
    /\ count < MaxIndexed
    /\ list' \in Indexed(list, e)
    /\ offered' = offered \cup {e}
    /\ count' = count + 1

\* moka drops the list: 24h after it was created, or at capacity.
EvictList ==
    /\ list # << >>
    /\ list' = << >>
    /\ offered' = {}
    /\ UNCHANGED count

\* The bound is reached; the model, not the index, ends here.
Bounded == count = MaxIndexed /\ UNCHANGED indexVars

IndexNext == (\E e \in Entries : IndexBuy(e)) \/ EvictList \/ Bounded

IndexSpec == IndexInit /\ [][IndexNext]_indexVars

-----------------------------------------------------------------------------
\* The list holds buys, never more than the cap (cache.rs:271-275), and is
\* gone only when the cache dropped it.
IndexTypeOK ==
    /\ list \in Seq(Entries)
    /\ Len(list) <= BuyCap
    /\ offered \subseteq Entries
    /\ (list = << >>) <=> (offered = {})

\* In whatever order buys arrive and wherever the search puts one among equal
\* keys, the list stays sorted by (slot, tx_index): the next binary search
\* relies on it (cache.rs:266-269).
ListSorted == Sorted(list)

\* The cap keeps the latest buys in (slot, tx_index) order, not in order of
\* arrival: no buy that fell off belongs behind one that was kept.  So the buy
\* that set T0, and the wallet that made it, is the first to be forgotten.
KeepsLatest ==
    \A e \in offered \ ToSet(list) : \A i \in DOMAIN list : ~Before(list[i], e)

\* No follower still in the list escapes the count, whatever the order in
\* which the buys arrived (cache.rs:369-390).
CountsEveryFollower ==
    \A e \in ToSet(list) :
      Followers(ToSet(list), e.wallet, e.slot, e.tx) \subseteq
        Copycats(list, e.wallet, e.slot, e.tx)

\* cache.rs:353-355 and heuristics.rs:327: "Count distinct wallets that also
\* buy T within [S, S + window_slots]".  A wallet that bought in an earlier
\* slot is counted too, if its tx_index there happens to be higher.
CopycatsAreFollowers ==
    \A e \in ToSet(list) :
      Copycats(list, e.wallet, e.slot, e.tx) \subseteq
        Followers(ToSet(list), e.wallet, e.slot, e.tx)
=============================================================================
