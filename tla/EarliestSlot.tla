---------------------------- MODULE EarliestSlot ----------------------------
(***************************************************************************)
(* What TokenRegistry (src/src/token_registry.rs) promises its caller: an  *)
(* atomic register per token that keeps the lowest slot it was told since  *)
(* its entry was created, answers every observation with what the          *)
(* observation did, and may forget a token at any moment (the cache        *)
(* behind it evicts by age and by capacity).                               *)
(***************************************************************************)
EXTENDS Integers

CONSTANTS Mints,    \* token mint addresses
          Slots     \* Solana slot numbers that trades carry, natural numbers

\* Option::None where the code has an Option<u64> slot or delta.
None == -1

\* T0UpdateResult, and "none" before the first call returns.
Outcomes == {"none", "new", "revised", "unchanged"}

VARIABLES earliest,   \* mint -> T0 slot, None for a token not in the cache
          outcome     \* what the last observation returned

absVars == <<earliest, outcome>>

AbsInit == /\ earliest = [m \in Mints |-> None]
           /\ outcome = "none"

\* The first observation of a token sets its T0.
ObserveNew(m, s) == /\ earliest[m] = None
                    /\ earliest' = [earliest EXCEPT ![m] = s]
                    /\ outcome' = "new"

\* An observation below T0 lowers it, and says so.
ObserveLower(m, s) == /\ earliest[m] # None
                      /\ s < earliest[m]
                      /\ earliest' = [earliest EXCEPT ![m] = s]
                      /\ outcome' = "revised"

\* Any other observation changes nothing.
ObserveLater(m, s) == /\ earliest[m] # None
                      /\ s >= earliest[m]
                      /\ outcome' = "unchanged"
                      /\ UNCHANGED earliest

Observe(m, s) == ObserveNew(m, s) \/ ObserveLower(m, s) \/ ObserveLater(m, s)

Forget(m) == /\ earliest[m] # None
             /\ earliest' = [earliest EXCEPT ![m] = None]
             /\ UNCHANGED outcome

\* An observation whose entry is forgotten the instant it has been applied.
ObserveAndForget(m, s) ==
    /\ earliest[m] # None
    /\ earliest' = [earliest EXCEPT ![m] = None]
    /\ outcome' = IF s < earliest[m] THEN "revised" ELSE "unchanged"

AbsNext == \E m \in Mints : \/ Forget(m)
                            \/ \E s \in Slots : Observe(m, s) \/ ObserveAndForget(m, s)

AbsSpec == AbsInit /\ [][AbsNext]_absVars
=============================================================================
