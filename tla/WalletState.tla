---------------------------- MODULE WalletState -----------------------------
(***************************************************************************)
(* One wallet's state machine (src/src/wallet_state.rs): trades are        *)
(* ingested one at a time, in the order they arrive and not the order of   *)
(* their slots, and the window is annotated again whenever the T0 of a     *)
(* token in it is revised.  T0 itself is the registry's: here it is what   *)
(* EarliestSlot allows, lowered by this wallet's own trades and by those   *)
(* of others, and forgotten at any time.                                   *)
(***************************************************************************)
EXTENDS WalletOps

CONSTANT MaxIngests   \* bound on the number of trades, for TLC

VARIABLES wallet,   \* the WalletState
          t0,       \* mint -> T0 slot the registry holds, or None
          ledger,   \* history: what is booked under each mint since the start
          open,     \* history: buys and tokens since the mint was last flat
          count     \* history: trades ingested so far

vars == <<wallet, t0, ledger, open, count>>

EmptyBook == [spent |-> 0, earned |-> 0]
EmptyOpen == [buys |-> 0, tokens |-> 0]

Init == /\ wallet = NewWallet
        /\ t0 = [m \in Mints |-> None]
        /\ ledger = [m \in Mints |-> [booked |-> EmptyBook, dropped |-> EmptyBook]]
        /\ open = [m \in Mints |-> EmptyOpen]
        /\ count = 0

\* The oldest cycle falls off when this trade completes one past the cap.
DroppedBy(t, next) ==
    IF /\ Len(wallet.cycles) = MaxCycles
       /\ Held(wallet.positions[t.mint]) /\ ~Held(next.positions[t.mint])
      THEN {wallet.cycles[1]} ELSE {}

\* A book with more SOL spent and earned.
Add(b, spent, earned) == [spent |-> b.spent + spent, earned |-> b.earned + earned]

\* History: SOL spent and earned under each mint, and the part of it that left
\* with the cycles dropped at the cap.
Book(t, next) ==
    LET booked == [ledger EXCEPT ![t.mint].booked =
                     IF t.is_buy THEN Add(@, t.sol, 0)
                     ELSE IF Held(wallet.positions[t.mint]) THEN Add(@, 0, t.sol)
                     ELSE @]
    IN  [m \in Mints |->
           [booked[m] EXCEPT !.dropped =
              IF \E c \in DroppedBy(t, next) : c.mint = m
                THEN Add(@, wallet.cycles[1].buy, wallet.cycles[1].sell) ELSE @]]

\* History: buys of the position that is open, and tokens it still holds.
Hold(t, next) ==
    [open EXCEPT ![t.mint] =
       IF ~Held(next.positions[t.mint]) THEN EmptyOpen
       ELSE IF t.is_buy THEN [buys |-> @.buys + 1, tokens |-> @.tokens + t.tokens]
       ELSE [@ EXCEPT !.tokens = SatSub(@, t.tokens)]]

\* ingest_trade with the T0 that process_trade looked up: none if the registry
\* evicted the token after recording the observation (cache.rs:178 and :184).
Ingest(t, slot) ==
    /\ count < MaxIngests
    /\ slot \in {None, IF t0[t.mint] = None \/ t.slot < t0[t.mint] THEN t.slot
                                                                  ELSE t0[t.mint]}
    /\ LET next == IngestTrade(wallet, Annotate(t, slot)) IN
       /\ wallet' = next
       /\ ledger' = Book(t, next)
       /\ open' = Hold(t, next)
    /\ t0' = [t0 EXCEPT ![t.mint] = slot]
    /\ count' = count + 1

\* The last step of process_trade for an observation that lowered T0, of this
\* wallet (T0 is the new slot already) or of another one.
Revise(m, slot) ==
    /\ t0[m] # None
    /\ slot <= t0[m]
    /\ wallet' = ReAnnotateToken(wallet, m, slot)
    /\ t0' = [t0 EXCEPT ![m] = slot]
    /\ UNCHANGED <<ledger, open, count>>

\* The registry evicts the token; the wallet keeps its annotations.
Forget(m) ==
    /\ t0[m] # None
    /\ t0' = [t0 EXCEPT ![m] = None]
    /\ UNCHANGED <<wallet, ledger, open, count>>

\* The bound is reached; the model, not the wallet, ends here.
Bounded == count = MaxIngests /\ UNCHANGED vars

SlotsOf(m) == {t.slot : t \in {u \in Trades : u.mint = m}}

Next == \/ \E t \in Trades : \E slot \in SlotsOf(t.mint) \cup {None} : Ingest(t, slot)
        \/ \E m \in Mints : \E slot \in SlotsOf(m) : Revise(m, slot)
        \/ \E m \in Mints : Forget(m)
        \/ Bounded

Spec == Init /\ [][Next]_vars

-----------------------------------------------------------------------------
\* The wallet keeps its types, its window and its cycles their bounds
\* (wallet_state.rs:273-325, :361-364, :403-405).
TypeOK == /\ wallet \in WalletStates
          /\ Len(wallet.recent) <= RecentWindow
          /\ Len(wallet.cycles) <= MaxCycles
          /\ t0 \in [Mints -> Nat \cup {None}]

\* The 90% rule (wallet_state.rs:208-214) splits positions cleanly however
\* buys and sells interleave: what is still open has never been sold to 90%
\* of what it cost, and what is recorded was.  The win rate is taken over
\* cycles none of which lost more than a tenth of its cost.
ThresholdSplitsPositions ==
    /\ \A m \in Mints : LET p == wallet.positions[m]
                        IN  p.sell_count > 0 => p.sold * 10 < p.bought * 9
    /\ \A i \in DOMAIN wallet.cycles :
         wallet.cycles[i].sell * 10 >= wallet.cycles[i].buy * 9

\* A cycle closed by a single sell is always a dump in the eyes of
\* filter_sizing (heuristics.rs:417-424): its two conditions overlap, the
\* tranche count never rejects a cycle the 70% rule accepts.
OneTrancheIsADump ==
    /\ \A i \in DOMAIN wallet.cycles :
         /\ wallet.cycles[i].tranches > 0
         /\ wallet.cycles[i].tranches = 1 => wallet.cycles[i].dumps = 1
    /\ \A m \in Mints : LET p == wallet.positions[m]
                        IN  p.sell_count = 0 => p.sold = 0 /\ p.dumps = 0

\* The sum of a sequence of numbers.
SumOf(s) == LET upTo[n \in 0..Len(s)] == IF n = 0 THEN 0 ELSE upTo[n - 1] + s[n]
            IN  upTo[Len(s)]

BoughtOf(c, m) == IF c.mint = m THEN c.buy ELSE 0
SoldOf(c, m)   == IF c.mint = m THEN c.sell ELSE 0

\* What the cycles of a mint cost and returned.
Bought(cycles, m) == SumOf([i \in DOMAIN cycles |-> BoughtOf(cycles[i], m)])
Sold(cycles, m)   == SumOf([i \in DOMAIN cycles |-> SoldOf(cycles[i], m)])

\* Every SOL booked under a mint is in its open position, in one completed
\* cycle or in a cycle that fell off the cap, and in one of them only; orphan
\* sells are booked nowhere (wallet_state.rs:367-408).
LedgerBalances ==
    \A m \in Mints :
      LET p == wallet.positions[m]
          b == ledger[m].booked
          d == ledger[m].dropped
      IN  /\ b.spent  = p.bought + Bought(wallet.cycles, m) + d.spent
          /\ b.earned = p.sold + Sold(wallet.cycles, m) + d.earned

\* Whatever mix of ingests and re-annotations came before, the stored metrics
\* are those of the present window and cycles, except that the ratios outlive
\* the last annotated buy (wallet_state.rs:435-495).  The daemon writes the
\* stored insider ratio to targets.db but filters on a fresh count.
MetricsFresh ==
    LET x == wallet.metrics IN
    /\ x.wins = Cardinality(LastWins(wallet.cycles))
    /\ x.cycles = Cardinality(LastCycles(wallet.cycles))
    /\ x.spent = SpentIn(wallet.recent) /\ x.buys = Cardinality(BuysIn(wallet.recent))
    /\ AnnotatedBuysIn(wallet.recent) # {} =>
         /\ x.annotated = Cardinality(AnnotatedBuysIn(wallet.recent))
         /\ x.sniper    = Cardinality(OfClass(wallet.recent, "sniper"))
         /\ x.insider   = Cardinality(OfClass(wallet.recent, "insider"))
         /\ x.retail    = Cardinality(OfClass(wallet.recent, "retail"))
    /\ x.sniper + x.insider + x.retail = x.annotated

-----------------------------------------------------------------------------
(* What the source says and the code does not do.                          *)

\* wallet_state.rs:240: a completed cycle is "one token, bought and fully (or
\* mostly) sold", so a wallet that sold every token it bought has no position
\* left open.
SoldOutIsClosed ==
    \A m \in Mints : open[m].buys > 0 => open[m].tokens > 0
=============================================================================
