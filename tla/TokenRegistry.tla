--------------------------- MODULE TokenRegistry ----------------------------
(***************************************************************************)
(* The T0 registry of src/src/token_registry.rs at the granularity of its  *)
(* awaits.  record_observation takes an Arc to the token's entry out of a  *)
(* moka cache and locks it for writing in a second step; the cache may     *)
(* evict the entry in between (24h time-to-live, capacity), and then the   *)
(* write lands in an entry nobody can find any more.  One task calls the   *)
(* registry (the trade processor, main.rs:243), so one call is in progress *)
(* at a time; eviction runs beside it (the maintenance task and moka).     *)
(***************************************************************************)
EXTENDS Integers

CONSTANTS Mints, Slots

ASSUME SlotsAssumption == Slots \subseteq Nat

None == -1

VARIABLES registry,   \* inner: mint -> t0_slot of the cached entry, or None
          call        \* the record_observation in progress or last returned

vars == <<registry, call>>

\* `orphan` is the T0 in the entry the call holds once the cache has evicted
\* that entry; None while the entry it holds is still the cached one.
Calls == [pc      : {"idle", "update", "insert"},
          mint    : Mints,
          slot    : Slots,
          orphan  : Slots \cup {None},
          outcome : {"none", "new", "revised", "unchanged"}]

Init == /\ registry = [m \in Mints |-> None]
        /\ call \in [pc : {"idle"}, mint : Mints, slot : Slots,
                     orphan : {None}, outcome : {"none"}]

\* Defect: the cache is never asked, every observation takes the slow path.
GetNeverHits(m, s) ==
    /\ call.pc = "idle"
    /\ call' = [call EXCEPT !.pc = "insert", !.mint = m, !.slot = s, !.orphan = None]
    /\ UNCHANGED registry

\* self.inner.get(mint): the fast path holds an entry, the slow path none.
Get(m, s) ==
    /\ call.pc = "idle"
    /\ call' = [call EXCEPT !.pc = IF registry[m] = None THEN "insert" ELSE "update",
                            !.mint = m, !.slot = s, !.orphan = None]
    /\ UNCHANGED registry

\* Defect: the slot after the observed one is stored.
InsertNextSlot ==
    /\ call.pc = "insert"
    /\ registry' = [registry EXCEPT ![call.mint] = call.slot + 1]
    /\ call' = [call EXCEPT !.pc = "idle", !.outcome = "new"]

\* Slow path: insert a fresh entry with T0 = this slot.
Insert ==
    /\ call.pc = "insert"
    /\ registry' = [registry EXCEPT ![call.mint] = call.slot]
    /\ call' = [call EXCEPT !.pc = "idle", !.outcome = "new"]

\* The T0 in the entry the call holds, cached or orphaned.
HeldT0 == IF call.orphan = None THEN registry[call.mint] ELSE call.orphan

\* Defect: the new slot replaces the cached T0 without a comparison.
UpdateUnguarded ==
    /\ call.pc = "update"
    /\ registry' = IF call.orphan = None
                     THEN [registry EXCEPT ![call.mint] = call.slot]
                     ELSE registry
    /\ call' = [call EXCEPT !.pc = "idle", !.orphan = None,
                            !.outcome = IF call.slot < HeldT0 THEN "revised" ELSE "unchanged"]

\* Fast path: under the entry's write lock, lower T0 if this slot is lower.
Update ==
    /\ call.pc = "update"
    /\ LET revised == call.slot < HeldT0 IN
       /\ registry' = IF revised /\ call.orphan = None
                        THEN [registry EXCEPT ![call.mint] = call.slot]
                        ELSE registry
       /\ call' = [call EXCEPT !.pc = "idle", !.orphan = None,
                               !.outcome = IF revised THEN "revised" ELSE "unchanged"]

\* moka drops the entry; a call that holds it keeps its Arc.
Evict(m) ==
    /\ registry[m] # None
    /\ registry' = [registry EXCEPT ![m] = None]
    /\ call' = IF call.pc = "update" /\ call.mint = m
                 THEN [call EXCEPT !.orphan = registry[m]]
                 ELSE call

RecordObservation == \/ \E m \in Mints, s \in Slots : Get(m, s)
                     \/ Insert
                     \/ Update

Next == RecordObservation \/ \E m \in Mints : Evict(m)

Spec == Init /\ [][Next]_vars

-----------------------------------------------------------------------------
\* Every variable keeps its type: T0 is a slot somebody observed or absent
\* (token_registry.rs:28-43), the call is at one of its three await points.
TypeOK == /\ registry \in [Mints -> Slots \cup {None}]
          /\ call \in Calls

\* A call on its slow path still finds its token missing when it inserts, and
\* a call on its fast path holds either the cached entry or its orphan: the
\* check-then-insert of record_observation (token_registry.rs:112 and :148)
\* never overwrites an entry.
NoClobber == /\ call.pc = "insert" => registry[call.mint] = None /\ call.orphan = None
             /\ call.pc = "update" => (call.orphan = None) # (registry[call.mint] = None)

\* The refinement mapping: an entry evicted under a call that holds it counts
\* as observed first and forgotten next, so the answer is fixed at eviction.
PromisedOutcome ==
    IF call.pc = "update" /\ call.orphan # None
      THEN IF call.slot < call.orphan THEN "revised" ELSE "unchanged"
      ELSE call.outcome

Promise == INSTANCE EarliestSlot WITH earliest <- registry, outcome <- PromisedOutcome

\* record_observation, awaits, eviction races and all, implements the atomic
\* earliest-slot register of EarliestSlot: no interleaving of an eviction with
\* the get and the write loses more than the eviction itself does.
ImplementsEarliestSlot == Promise!AbsSpec

=============================================================================
