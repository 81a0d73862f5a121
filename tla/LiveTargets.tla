---------------------------- MODULE LiveTargets -----------------------------
(***************************************************************************)
(* How the processor and the maintenance task of the live daemon share     *)
(* targets.db (src/src/main.rs, run_live_mode; src/src/db.rs).  Each takes *)
(* the mutex with try_lock and goes on without it if the other holds it;   *)
(* statements may fail; the daemon may be killed and started again, when   *)
(* its caches are lost and the database is not.                            *)
(*                                                                         *)
(* The verdict on a trade's wallet is the filters' (Heuristics): here it   *)
(* may be any.  wallet_trades is left out: nothing in the daemon inserts   *)
(* into it, so prune_old_trades deletes nothing.                           *)
(***************************************************************************)
EXTENDS TargetDb

CONSTANTS Skew,        \* hours a trade's timestamp may be ahead, 1 or more
          MayFail,     \* whether a statement may fail
          MaxNow,      \* bound on the clock, for TLC
          MaxCrashes   \* bound on the number of crashes, for TLC

ASSUME SkewAssumption == Skew \in Nat /\ MayFail \in BOOLEAN

VARIABLES lock,          \* who holds the mutex, or "free"
          processor,     \* where the processor is
          row,           \* the wallet it evaluated last, the trade's
                         \* timestamp and whether the wallet qualified
          maintenance,   \* where the maintenance loop is
          crashes,       \* history: crashes so far
          written,       \* history: wallet -> when it was last upserted
          torn           \* history: wallets written in part, for a statement
                         \* failed or the daemon was killed

dbVars   == <<rows, log, now>>
history  == <<written, torn>>
vars     == <<dbVars, lock, processor, row, maintenance, crashes, history>>

Init == /\ DbInit
        /\ lock = "free"
        /\ processor = "idle"
        /\ row \in [wallet : Wallets, ts : {0}, qualified : {FALSE}]
        /\ maintenance = "wait"
        /\ crashes = 0
        /\ written = [w \in Wallets |-> -1]
        /\ torn = {}

-----------------------------------------------------------------------------
(* The processor.                                                          *)

\* A trade of wallet w has been processed, and w evaluated.  Its timestamp is the
\* parser's clock or one found in the event, which may be old or ahead: an hour at
\* most, but for the layouts whose time is taken as it is (NoStampAhead in
\* TransactionParser).
Evaluate(w, ts, qualified) ==
    /\ processor = "idle"
    /\ ts <= now + Skew
    /\ row' = [wallet |-> w, ts |-> ts, qualified |-> qualified]
    /\ processor' = IF qualified THEN "lock" ELSE "idle"
    /\ UNCHANGED <<dbVars, lock, maintenance, crashes, history>>

\* Defect: try_lock is not tried, the statements just run.
LockNever ==
    /\ processor = "lock"
    /\ processor' = "upsert"
    /\ lock' = "processor"
    /\ UNCHANGED <<dbVars, row, maintenance, crashes, history>>

\* try_lock(): the write is skipped, silently, if maintenance holds it.
Lock ==
    /\ processor = "lock"
    /\ IF lock = "free"
         THEN lock' = "processor" /\ processor' = "upsert"
         ELSE processor' = "idle" /\ UNCHANGED lock
    /\ UNCHANGED <<dbVars, row, maintenance, crashes, history>>

\* Defect: a row that is there already is not logged again.
UpsertLogsNewOnly ==
    /\ processor = "upsert"
    /\ UpsertQualifiedWallet(row.wallet, row.ts)
    /\ written' = [written EXCEPT ![row.wallet] = now]
    /\ IF rows[row.wallet] = NoRow
         THEN processor' = "log" /\ UNCHANGED lock
         ELSE processor' = "idle" /\ lock' = "free"
    /\ UNCHANGED <<log, now, row, maintenance, crashes, torn>>

\* The first statement; an error is reported and the second one still runs.
Upsert ==
    /\ processor = "upsert"
    /\ processor' = "log"
    /\ \/ /\ UpsertQualifiedWallet(row.wallet, row.ts)
          /\ written' = [written EXCEPT ![row.wallet] = now]
          /\ UNCHANGED torn
       \/ MayFail /\ torn' = torn \cup {row.wallet} /\ UNCHANGED <<rows, written>>
    /\ UNCHANGED <<log, now, lock, row, maintenance, crashes>>

\* The second one; then the lock is released.
Log ==
    /\ processor = "log"
    /\ processor' = "idle"
    /\ lock' = "free"
    /\ \/ LogQualification(row.wallet) /\ UNCHANGED torn
       \/ MayFail /\ torn' = torn \cup {row.wallet} /\ UNCHANGED log
    /\ UNCHANGED <<rows, now, row, maintenance, crashes, written>>

-----------------------------------------------------------------------------
(* Maintenance.                                                            *)

\* The interval, then the cache's maintenance.
Tick ==
    /\ maintenance = "wait"
    /\ maintenance' = "lock"
    /\ UNCHANGED <<dbVars, lock, processor, row, crashes, history>>

\* Defect: the loop ends when the mutex is taken.
MaintenanceGivesUp ==
    /\ maintenance = "lock"
    /\ IF lock = "free"
         THEN lock' = "maintenance" /\ maintenance' = "demote"
         ELSE maintenance' = "ended" /\ UNCHANGED lock
    /\ UNCHANGED <<dbVars, processor, row, crashes, history>>

\* try_lock(): no demotion this time if the processor holds it.
MaintenanceLock ==
    /\ maintenance = "lock"
    /\ IF lock = "free"
         THEN lock' = "maintenance" /\ maintenance' = "demote"
         ELSE maintenance' = "wait" /\ UNCHANGED lock
    /\ UNCHANGED <<dbVars, processor, row, crashes, history>>

Demote ==
    /\ maintenance = "demote"
    /\ maintenance' = "wait"
    /\ lock' = "free"
    /\ DemoteStaleWallets
    /\ UNCHANGED <<log, now, processor, row, crashes, history>>

DemoteFails ==
    /\ MayFail
    /\ maintenance = "demote"
    /\ maintenance' = "wait"
    /\ lock' = "free"
    /\ UNCHANGED <<dbVars, processor, row, crashes, history>>

-----------------------------------------------------------------------------
AdvanceClock ==
    /\ now < MaxNow
    /\ now' = now + 1
    /\ UNCHANGED <<rows, log, lock, processor, row, maintenance, crashes, history>>

\* Killed and started again.
Crash ==
    /\ crashes < MaxCrashes
    /\ crashes' = crashes + 1
    /\ lock' = "free"
    /\ processor' = "idle"
    /\ maintenance' = "wait"
    /\ torn' = IF processor = "log" THEN torn \cup {row.wallet} ELSE torn
    /\ UNCHANGED <<dbVars, row, written>>

Processor   == \/ \E w \in Wallets, ts \in 0..(MaxNow + Skew), q \in BOOLEAN : Evaluate(w, ts, q)
               \/ Lock \/ Upsert \/ Log
Maintenance == Tick \/ MaintenanceLock \/ Demote \/ DemoteFails

Next == Processor \/ Maintenance \/ AdvanceClock \/ Crash

Spec == Init /\ [][Next]_vars

\* The runtime runs both tasks, and a statement that is tried for ever does not
\* fail for ever.
Fairness == /\ WF_vars(Lock \/ Upsert \/ Log)
            /\ WF_vars(Maintenance)
            /\ SF_vars(Demote)

FairSpec == Spec /\ Fairness

-----------------------------------------------------------------------------
\* The lock is held by a task that is between its try_lock and its release,
\* and by no other: after a skip, an error or a crash it is free.
TypeOK ==
    /\ rows \in [Wallets -> Rows \cup {NoRow}]
    /\ log \in [Wallets -> Nat \cup {-1}]
    /\ now \in Nat
    /\ row \in [wallet : Wallets, ts : Nat, qualified : BOOLEAN]
    /\ processor \in {"idle", "lock", "upsert", "log"}
    /\ maintenance \in {"wait", "lock", "demote"}
    /\ lock = (IF processor \in {"upsert", "log"} THEN "processor"
               ELSE IF maintenance = "demote" THEN "maintenance" ELSE "free")
    /\ ~(processor \in {"upsert", "log"} /\ maintenance = "demote")

\* Every wallet that has a row has been logged as qualified no earlier than it
\* was last written, unless a statement failed or a crash came in between
\* (main.rs:288-295).
LogFollowsRow ==
    \A w \in Wallets \ torn :
      rows[w] # NoRow =>
        \/ processor = "log" /\ row.wallet = w
        \/ log[w] >= written[w]

\* However often a wallet is demoted and qualifies again, over crashes too, the
\* row keeps the time of its first qualification (db.rs:162-172).
FirstQualificationKept ==
    [][\A w \in Wallets : rows[w] # NoRow => /\ rows'[w] # NoRow
                                             /\ rows'[w].qualified_at = rows[w].qualified_at]_vars

\* What is about to be logged as qualified is an active target with the trade
\* that qualified it, even if that trade is stale already: maintenance, which
\* would demote it, never comes between the two statements (main.rs:288-292,
\* :328-333).
RowStandsUntilLogged ==
    processor = "log" /\ row.wallet \notin torn =>
      /\ row.wallet \in Active
      /\ rows[row.wallet].last_updated = row.ts

\* Once no wallet qualifies any more - the stream is silent, or the daemon was
\* restarted with empty caches - every stale target is demoted: neither a
\* skipped try_lock nor an error is for good (main.rs:327-340).
StaleIsDemoted ==
    <>[](processor = "idle") => \A w \in Wallets : Stale(w) ~> ~Stale(w)
=============================================================================
