------------------------------ MODULE TargetDb ------------------------------
(***************************************************************************)
(* The tables of targets.db that the live daemon writes (src/src/db.rs):   *)
(* qualified_wallets, which the execution bot polls, and discovery_log.    *)
(* One action per statement; a statement that fails changes nothing.       *)
(* Metrics of a row are left out; time is the Unix clock, in hours.        *)
(***************************************************************************)
EXTENDS Integers

CONSTANTS Wallets,      \* wallet addresses
          StaleAfter    \* max_stale_secs, 6 hours

ASSUME StaleAssumption == StaleAfter \in Nat \ {0}

VARIABLES rows,   \* qualified_wallets: wallet -> row, or NoRow
          log,    \* discovery_log: wallet -> its last entry of each event
          now     \* the clock

NoRow == [active |-> FALSE, last_updated |-> -1, qualified_at |-> -1]
Rows  == [active : BOOLEAN, last_updated : Nat, qualified_at : Nat]

DbInit == /\ rows = [w \in Wallets |-> NoRow]
          /\ log = [w \in Wallets |-> -1]
          /\ now = 0

\* current_unix_timestamp().saturating_sub(max_stale_secs)
Cutoff == IF now > StaleAfter THEN now - StaleAfter ELSE 0

Active == {w \in Wallets : rows[w].active}

Stale(w) == rows[w].active /\ rows[w].last_updated < Cutoff

\* Defect: ON CONFLICT sets qualified_at as well.
UpsertAfresh(w, ts) ==
    rows' = [rows EXCEPT ![w] = [active |-> TRUE, last_updated |-> ts, qualified_at |-> ts]]

\* upsert_qualified_wallet: qualified_at is the caller's, and only of the
\* first row.
UpsertQualifiedWallet(w, ts) ==
    rows' = [rows EXCEPT ![w] =
               [active       |-> TRUE,
                last_updated |-> ts,
                qualified_at |-> IF @ = NoRow THEN ts ELSE @.qualified_at]]

LogQualification(w) == log' = [log EXCEPT ![w] = now]

\* demote_stale_wallets: nothing is logged.
DemoteStaleWallets ==
    rows' = [w \in Wallets |-> IF Stale(w) THEN [rows[w] EXCEPT !.active = FALSE]
                                           ELSE rows[w]]
=============================================================================
