---------------------------- MODULE InsiderCache ----------------------------
(***************************************************************************)
(* The cache orchestrator (src/src/cache.rs): process_trade threads one    *)
(* trade at a time through the T0 registry, the wallet's state and the     *)
(* token's buy list, and after a T0 revision through every wallet that     *)
(* list names.  The three moka caches evict on their own clocks, between   *)
(* any two of its steps.                                                   *)
(*                                                                         *)
(* Inside one step the code takes an Arc out of a cache and then locks it; *)
(* an eviction in between loses the write exactly as an eviction right     *)
(* after the write would, since no other task touches the entries.         *)
(* TokenRegistry proves that of the registry, whose abstract operations    *)
(* are used here.                                                          *)
(***************************************************************************)
EXTENDS WalletOps, BuyIndexOps

CONSTANTS Wallets,      \* wallet addresses
          MaxTrades,    \* bound on the number of trades, for TLC
          MayEvict      \* which caches evict: "registry", "buys", "wallets"

ASSUME WalletsAssumption == \A t \in Trades : t.wallet \in Wallets

VARIABLES registry,    \* token_registry: mint -> T0 slot, or None
          outcome,     \* T0UpdateResult of the last observation
          wallets,     \* wallet -> WalletState, a new one if not cached
          buys,        \* token_buys: mint -> sorted list, << >> if absent
          pc,          \* the step of process_trade that comes next
          trade,       \* the trade in process
          t0,          \* the T0 looked up for it
          affected,    \* wallets still to be annotated again
          count,       \* trades_processed
          disturbed    \* history: mints that lost an entry of a cache

vars == <<registry, outcome, wallets, buys, pc, trade, t0, affected, count, disturbed>>

Slots == {t.slot : t \in Trades}

Reg == INSTANCE EarliestSlot WITH earliest <- registry

Init == /\ Reg!AbsInit
        /\ wallets = [w \in Wallets |-> NewWallet]
        /\ buys = [m \in Mints |-> << >>]
        /\ pc = "idle"
        /\ trade \in Trades
        /\ t0 = None
        /\ affected = {}
        /\ count = 0
        /\ disturbed = {}

-----------------------------------------------------------------------------
(* process_trade, step by step.                                            *)

\* Step 1: record the observation.
Observe(t) ==
    /\ pc = "idle"
    /\ count < MaxTrades
    /\ Reg!Observe(t.mint, t.slot)
    /\ trade' = t
    /\ count' = count + 1
    /\ pc' = "lookup"
    /\ UNCHANGED <<wallets, buys, t0, affected, disturbed>>

\* Step 2: look T0 up again; the entry may be gone.
LookUp ==
    /\ pc = "lookup"
    /\ t0' = registry[trade.mint]
    /\ pc' = "ingest"
    /\ UNCHANGED <<registry, outcome, wallets, buys, trade, affected, count, disturbed>>

\* Where process_trade goes once the trade is in: to its last step if the
\* observation lowered T0.
AfterIngest == IF outcome = "revised" THEN "collect" ELSE "idle"

\* Steps 3 and 4: annotate the trade and ingest it into its wallet, which is
\* created if it is not cached.
Ingest ==
    /\ pc = "ingest"
    /\ wallets' = [wallets EXCEPT ![trade.wallet] = IngestTrade(@, Annotate(trade, t0))]
    /\ pc' = IF trade.is_buy THEN "index" ELSE AfterIngest
    /\ UNCHANGED <<registry, outcome, buys, trade, t0, affected, count, disturbed>>

\* Defect: only the first buy of a token is indexed.
IndexFirstBuyOnly ==
    /\ pc = "index"
    /\ buys' = IF buys[trade.mint] = << >>
                  THEN [buys EXCEPT ![trade.mint] = << EntryOf(trade) >>]
                  ELSE buys
    /\ pc' = AfterIngest
    /\ UNCHANGED <<registry, outcome, wallets, trade, t0, affected, count, disturbed>>

\* Step 5: index a buy.  A full list drains its earliest entry.
Index ==
    /\ pc = "index"
    /\ \E list \in Indexed(buys[trade.mint], EntryOf(trade)) :
         buys' = [buys EXCEPT ![trade.mint] = list]
    /\ disturbed' = IF Len(buys[trade.mint]) = BuyCap THEN disturbed \cup {trade.mint}
                                                      ELSE disturbed
    /\ pc' = AfterIngest
    /\ UNCHANGED <<registry, outcome, wallets, trade, t0, affected, count>>

\* Defect: only the wallet that traded is annotated again.
CollectOwnWallet ==
    /\ pc = "collect"
    /\ affected' = {trade.wallet}
    /\ pc' = "reannotate"
    /\ UNCHANGED <<registry, outcome, wallets, buys, trade, t0, count, disturbed>>

\* Step 6: the wallets to annotate again are those in the token's buy list.
Collect ==
    /\ pc = "collect"
    /\ affected' = BuyersIn(buys[trade.mint])
    /\ pc' = "reannotate"
    /\ UNCHANGED <<registry, outcome, wallets, buys, trade, t0, count, disturbed>>

\* Step 6, one wallet of the set, in any order: annotate its window with the
\* slot that lowered T0, if the wallet is still cached.
ReAnnotateWallet(w) ==
    /\ pc = "reannotate"
    /\ w \in affected
    /\ wallets' = IF Tracked(wallets[w])
                    THEN [wallets EXCEPT ![w] = ReAnnotateToken(@, trade.mint, trade.slot)]
                    ELSE wallets
    /\ affected' = affected \ {w}
    /\ UNCHANGED <<registry, outcome, buys, pc, trade, t0, count, disturbed>>

Return ==
    /\ pc = "reannotate"
    /\ affected = {}
    /\ pc' = "idle"
    /\ UNCHANGED <<registry, outcome, wallets, buys, trade, t0, affected, count, disturbed>>

ProcessTrade == \/ \E t \in Trades : Observe(t)
                \/ LookUp
                \/ Ingest
                \/ Index
                \/ Collect
                \/ \E w \in Wallets : ReAnnotateWallet(w)
                \/ Return

-----------------------------------------------------------------------------
(* Eviction by age or capacity, on moka's own initiative or when           *)
(* run_maintenance lets it run its pending tasks.                          *)

EvictToken(m) ==
    /\ "registry" \in MayEvict
    /\ Reg!Forget(m)
    /\ disturbed' = disturbed \cup {m}
    /\ UNCHANGED <<wallets, buys, pc, trade, t0, affected, count>>

EvictBuys(m) ==
    /\ "buys" \in MayEvict
    /\ buys[m] # << >>
    /\ buys' = [buys EXCEPT ![m] = << >>]
    /\ disturbed' = disturbed \cup {m}
    /\ UNCHANGED <<registry, outcome, wallets, pc, trade, t0, affected, count>>

EvictWallet(w) ==
    /\ "wallets" \in MayEvict
    /\ Tracked(wallets[w])
    /\ wallets' = [wallets EXCEPT ![w] = NewWallet]
    /\ UNCHANGED <<registry, outcome, buys, pc, trade, t0, affected, count, disturbed>>

Evict == \/ \E m \in Mints : EvictToken(m) \/ EvictBuys(m)
         \/ \E w \in Wallets : EvictWallet(w)

\* The bound is reached; the model, not the daemon, ends here.
Bounded == pc = "idle" /\ count = MaxTrades /\ UNCHANGED vars

Next == ProcessTrade \/ Evict \/ Bounded

Spec == Init /\ [][Next]_vars

-----------------------------------------------------------------------------
\* The caches and the call in progress keep their types; windows and lists
\* keep their caps.
TypeOK ==
    /\ registry \in [Mints -> Slots \cup {None}]
    /\ outcome \in Reg!Outcomes
    /\ wallets \in [Wallets -> WalletStates]
    /\ \A w \in Wallets : Len(wallets[w].recent) <= RecentWindow
    /\ buys \in [Mints -> Seq([wallet : Wallets, slot : Slots, tx : Nat])]
    /\ \A m \in Mints : Len(buys[m]) <= BuyCap
    /\ pc \in {"idle", "lookup", "ingest", "index", "collect", "reannotate"}
    /\ trade \in Trades
    /\ t0 \in Slots \cup {None}
    /\ affected \subseteq Wallets
    /\ count \in Nat
    /\ disturbed \subseteq Mints

\* The buy, as its wallet's window holds it, is annotated with the distance
\* from the T0 that the registry holds now.
Current(a) == /\ registry[a.trade.mint] # None
              /\ registry[a.trade.mint] <= a.trade.slot
              /\ a = Annotate(a.trade, registry[a.trade.mint])

\* A wallet whose window may still be annotated with the T0 before the
\* revision in progress.
Pending(w, m) == /\ outcome = "revised"
                 /\ trade.mint = m
                 /\ \/ pc \in {"lookup", "ingest", "index", "collect"}
                    \/ pc = "reannotate" /\ w \in affected

\* The promise of README.md:96 where it is kept: as long as a token's registry
\* entry and buy list have lost nothing, every buy of it in every wallet's
\* window is annotated from the lowest slot seen, whatever the order of
\* arrival, except in the wallets a revision in progress has yet to reach.
AnnotationsCurrent ==
    \A m \in Mints \ disturbed, w \in Wallets :
      ~Pending(w, m) =>
        \A i \in BuysIn(wallets[w].recent) :
          wallets[w].recent[i].trade.mint = m => Current(wallets[w].recent[i])

\* The buy list names every wallet whose window holds a buy of the token,
\* except the one that is being indexed: what step 6 relies on to reach all
\* affected wallets without iterating over them (cache.rs:301-303).
BuyersIndexed ==
    \A m \in Mints \ disturbed, w \in Wallets :
      \A i \in BuysIn(wallets[w].recent) :
        wallets[w].recent[i].trade.mint = m =>
          \/ w \in BuyersIn(buys[m])
          \/ pc = "index" /\ trade.wallet = w /\ trade.mint = m

\* A T0 revision turns snipers into insiders and insiders into retail, never
\* the other way: no trade in a window looks closer to the launch after a
\* re-annotation than before it, as long as its token has lost no cache entry.
DeltasNeverShrink ==
    [][pc = "reannotate" =>
         \A w \in Wallets : \A i \in DOMAIN wallets'[w].recent :
           wallets[w].recent[i].trade.mint \notin disturbed' =>
             wallets'[w].recent[i].delta >= wallets[w].recent[i].delta]_vars

-----------------------------------------------------------------------------
(* What the documentation says and the code does not do.                   *)

\* README.md:96: "if the daemon later observes a transaction at a lower slot,
\* T0 is revised downward and all affected wallets are re-annotated."
AllAffectedReAnnotated ==
    pc = "idle" =>
      \A w \in Wallets : \A i \in BuysIn(wallets[w].recent) :
        LET a == wallets[w].recent[i]
        IN  registry[a.trade.mint] # None => Current(a)
=============================================================================
