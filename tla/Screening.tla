----------------------------- MODULE Screening ------------------------------
(***************************************************************************)
(* What the live daemon decides about a wallet: the cache orchestrator of  *)
(* InsiderCache and the filters of Heuristics on what it holds             *)
(* (src/src/main.rs, run_live_mode).  The processor evaluates the wallet   *)
(* of a trade once process_trade has returned, that is when pc is "idle",  *)
(* on a clone of its state.  Only an eviction can come before or during    *)
(* the evaluation, and the buy list that filter_anti_herd finds again for  *)
(* each buy is gone for good if it is gone once: the verdicts here are     *)
(* those of an evaluation wholly before or wholly after such an eviction.  *)
(***************************************************************************)
EXTENDS InsiderCache, Heuristics

VARIABLE seen   \* history: the trades observed since the start

screenVars == <<vars, seen>>

ScreenInit == Init /\ seen = {}

\* The trade that process_trade has just been given, if this step did so.
ScreenNext == /\ Next
              /\ seen' = IF pc = "idle" /\ pc' = "lookup" THEN seen \cup {trade'} ELSE seen

ScreenSpec == ScreenInit /\ [][ScreenNext]_screenVars

-----------------------------------------------------------------------------
\* The wallet that the processor evaluates in this state.
Evaluated == {w \in Wallets : pc = "idle" /\ count > 0 /\ w = trade.wallet}

\* The tokens in a wallet's window.
MintsIn(w) == {wallets[w].recent[i].trade.mint : i \in DOMAIN wallets[w].recent}

\* The lowest slot at which a token was really seen.
TrueT0(m) == CHOOSE s \in {t.slot : t \in {u \in seen : u.mint = m}} :
               \A t \in seen : t.mint = m => s <= t.slot

TrulyInside(t) == (t.slot - TrueT0(t.mint)) \in MinSlotDelta..MaxSlotDelta

\* A wallet that passes the anti-sniper filter does have half of the buys in
\* its window between 3 and 15 slots after the first trade of their token,
\* wherever that trade came in the stream (heuristics.rs:231-232, README.md:94),
\* as long as the tokens have lost no cache entry.
InsidersAreInside ==
    \A w \in Evaluated :
        LET recent == wallets[w].recent
            ours   == BuysIn(recent)
        IN  FilterAntiSniper(wallets[w]) = "pass" /\ MintsIn(w) \cap disturbed = {} =>
              2 * Cardinality({i \in ours : TrulyInside(recent[i].trade)})
                >= Cardinality(ours)

\* The filters mix stored metrics with fresh counts, and the row for the
\* execution bot is filled with stored ones (main.rs:275-286).  When a wallet
\* qualifies they agree: the row says what was judged.
RowSaysWhatWasJudged ==
    \A w \in Evaluated :
        Qualified(wallets[w], buys) =>
          wallets[w].metrics = RecomputeMetrics(NoMetrics, wallets[w].recent,
                                                wallets[w].cycles)

\* The other wallets that bought the token after this buy, within the window.
TrueFollowers(t) ==
    Followers({EntryOf(u) : u \in {v \in seen : v.mint = t.mint /\ v.is_buy}},
              t.wallet, t.slot, t.tx)

\* A buy that was copied by four wallets or more counts as herded, in whatever
\* order the buys arrived, as long as the token has lost no cache entry.
HerdsAreSeen ==
    \A w \in Evaluated : \A i \in BuysIn(wallets[w].recent) :
        LET t == wallets[w].recent[i].trade
        IN  /\ t.mint \notin disturbed
            /\ Cardinality(TrueFollowers(t)) >= MinCorrelatedBuys
            => Herded(t, buys)
=============================================================================
