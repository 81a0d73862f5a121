-------------------------- MODULE LiveTargetsProofs --------------------------
(***************************************************************************)
(* Proofs about LiveTargets, for any wallets, any age of staleness and any *)
(* number of crashes and failed statements.                                *)
(***************************************************************************)
EXTENDS LiveTargets, TLAPS

-----------------------------------------------------------------------------
(* The tables and the mutex.                                               *)

TablesOK == /\ rows \in [Wallets -> Rows \cup {NoRow}]
            /\ log \in [Wallets -> Nat \cup {-1}]
            /\ now \in Nat
            /\ row \in [wallet : Wallets, ts : Nat, qualified : BOOLEAN]

MutexOK == /\ processor \in {"idle", "lock", "upsert", "log"}
           /\ maintenance \in {"wait", "lock", "demote"}
           /\ lock = (IF processor \in {"upsert", "log"} THEN "processor"
                      ELSE IF maintenance = "demote" THEN "maintenance" ELSE "free")
           /\ ~(processor \in {"upsert", "log"} /\ maintenance = "demote")

LEMMA TypeParts == TypeOK <=> TablesOK /\ MutexOK
BY DEF TypeOK, TablesOK, MutexOK

\* An upsert leaves a row that is active, with the trade's timestamp, and the
\* other rows alone; a row that was there keeps its first qualification.
LEMMA UpsertFacts ==
  ASSUME TablesOK, NEW w \in Wallets, NEW ts \in Nat, UpsertQualifiedWallet(w, ts)
  PROVE  /\ rows' \in [Wallets -> Rows \cup {NoRow}]
         /\ \A v \in Wallets : v # w => rows'[v] = rows[v]
         /\ rows'[w] \in Rows
         /\ rows'[w].active /\ rows'[w].last_updated = ts
         /\ rows[w] # NoRow => rows'[w].qualified_at = rows[w].qualified_at
<1> DEFINE first == IF rows[w] = NoRow THEN ts ELSE rows[w].qualified_at
           new   == [active |-> TRUE, last_updated |-> ts, qualified_at |-> first]
<1>1. first \in Nat
  BY DEF TablesOK, Rows
<1>2. new \in Rows
  BY <1>1 DEF Rows
<1>3. rows' = [rows EXCEPT ![w] = new]
  BY DEF UpsertQualifiedWallet
<1>4. new.active /\ new.last_updated = ts /\ new.qualified_at = first
  OBVIOUS
<1>5. rows[w] # NoRow => first = rows[w].qualified_at
  OBVIOUS
<1> HIDE DEF first, new
<1> QED
  BY <1>2, <1>3, <1>4, <1>5 DEF TablesOK

\* A demotion changes nothing of a row but its active flag.
LEMMA DemoteFacts ==
  ASSUME TablesOK, DemoteStaleWallets
  PROVE  /\ rows' \in [Wallets -> Rows \cup {NoRow}]
         /\ \A w \in Wallets : rows[w] # NoRow =>
              rows'[w] \in Rows /\ rows'[w].qualified_at = rows[w].qualified_at
         /\ \A w \in Wallets : rows[w] = NoRow => rows'[w] = NoRow
<1>1. ASSUME NEW w \in Wallets, rows[w] # NoRow
      PROVE  rows'[w] \in Rows /\ rows'[w].qualified_at = rows[w].qualified_at
  <2>1. rows[w] \in Rows
    BY <1>1 DEF TablesOK
  <2>2. [rows[w] EXCEPT !.active = FALSE] \in Rows
        /\ [rows[w] EXCEPT !.active = FALSE].qualified_at = rows[w].qualified_at
    BY <2>1 DEF Rows
  <2>3. rows'[w] = [rows[w] EXCEPT !.active = FALSE] \/ rows'[w] = rows[w]
    BY DEF DemoteStaleWallets
  <2> QED
    BY <2>1, <2>2, <2>3
<1>2. ASSUME NEW w \in Wallets, rows[w] = NoRow PROVE rows'[w] = NoRow
  <2>1. ~Stale(w)
    BY <1>2 DEF Stale, NoRow
  <2> QED
    BY <1>2, <2>1 DEF DemoteStaleWallets
<1>3. \A w \in Wallets : rows'[w] \in Rows \cup {NoRow}
  BY <1>1, <1>2
<1>4. rows' = [w \in Wallets |-> rows'[w]]
  BY DEF DemoteStaleWallets
<1> QED
  BY <1>1, <1>2, <1>3, <1>4

LEMMA MutexInductive == MutexOK /\ [Next]_vars => MutexOK'
<1> SUFFICES ASSUME MutexOK, [Next]_vars PROVE MutexOK'
  OBVIOUS
<1>1. ASSUME NEW w \in Wallets, NEW ts \in 0..(MaxNow + Skew), NEW q \in BOOLEAN,
             Evaluate(w, ts, q)
      PROVE  MutexOK'
  BY <1>1 DEF MutexOK, Evaluate
<1>2. CASE Lock
  BY <1>2 DEF MutexOK, Lock
<1>3. CASE Upsert
  BY <1>3 DEF MutexOK, Upsert
<1>4. CASE Log
  BY <1>4 DEF MutexOK, Log
<1>5. CASE Tick
  BY <1>5 DEF MutexOK, Tick
<1>6. CASE MaintenanceLock
  BY <1>6 DEF MutexOK, MaintenanceLock
<1>7. CASE Demote
  BY <1>7 DEF MutexOK, Demote
<1>8. CASE DemoteFails
  BY <1>8 DEF MutexOK, DemoteFails
<1>9. CASE AdvanceClock
  BY <1>9 DEF MutexOK, AdvanceClock
<1>10. CASE Crash
  BY <1>10 DEF MutexOK, Crash
<1>11. CASE UNCHANGED vars
  BY <1>11 DEF MutexOK, vars
<1> QED
  BY <1>1, <1>2, <1>3, <1>4, <1>5, <1>6, <1>7, <1>8, <1>9, <1>10, <1>11
     DEF Next, Processor, Maintenance

LEMMA TablesInductive == TablesOK /\ [Next]_vars => TablesOK'
<1> SUFFICES ASSUME TablesOK, [Next]_vars PROVE TablesOK'
  OBVIOUS
<1>1. ASSUME NEW w \in Wallets, NEW ts \in 0..(MaxNow + Skew), NEW q \in BOOLEAN,
             Evaluate(w, ts, q)
      PROVE  TablesOK'
  <2>1. ts \in Nat
    BY <1>1, SkewAssumption DEF TablesOK, Evaluate
  <2>2. row' \in [wallet : Wallets, ts : Nat, qualified : BOOLEAN]
    BY <1>1, <2>1 DEF Evaluate
  <2> QED
    BY <1>1, <2>2 DEF TablesOK, Evaluate, dbVars
<1>2. CASE Lock
  BY <1>2 DEF TablesOK, Lock, dbVars
<1>3. CASE Upsert
  <2>1. row.wallet \in Wallets /\ row.ts \in Nat
    BY DEF TablesOK
  <2>2. rows' \in [Wallets -> Rows \cup {NoRow}]
    <3>1. CASE UpsertQualifiedWallet(row.wallet, row.ts)
      BY <2>1, <3>1, UpsertFacts
    <3>2. CASE UNCHANGED rows
      BY <3>2 DEF TablesOK
    <3> QED
      BY <1>3, <3>1, <3>2 DEF Upsert
  <2>3. UNCHANGED <<log, now, row>>
    BY <1>3 DEF Upsert
  <2> QED
    BY <2>2, <2>3 DEF TablesOK
<1>4. CASE Log
  BY <1>4 DEF TablesOK, Log, LogQualification
<1>5. CASE Tick
  BY <1>5 DEF TablesOK, Tick, dbVars
<1>6. CASE MaintenanceLock
  BY <1>6 DEF TablesOK, MaintenanceLock, dbVars
<1>7. CASE Demote
  BY <1>7, DemoteFacts DEF TablesOK, Demote
<1>8. CASE DemoteFails
  BY <1>8 DEF TablesOK, DemoteFails, dbVars
<1>9. CASE AdvanceClock
  BY <1>9 DEF TablesOK, AdvanceClock
<1>10. CASE Crash
  BY <1>10 DEF TablesOK, Crash, dbVars
<1>11. CASE UNCHANGED vars
  BY <1>11 DEF TablesOK, vars, dbVars
<1> QED
  BY <1>1, <1>2, <1>3, <1>4, <1>5, <1>6, <1>7, <1>8, <1>9, <1>10, <1>11
     DEF Next, Processor, Maintenance

LEMMA InitTyped == Init => TypeOK
<1> SUFFICES ASSUME Init PROVE TablesOK /\ MutexOK
  BY TypeParts
<1>1. MutexOK
  BY DEF Init, MutexOK
<1>2. row \in [wallet : Wallets, ts : Nat, qualified : BOOLEAN]
  <2>1. PICK w \in Wallets : row = [wallet |-> w, ts |-> 0, qualified |-> FALSE]
    BY DEF Init
  <2> QED
    BY <2>1
<1>3. rows \in [Wallets -> Rows \cup {NoRow}] /\ log \in [Wallets -> Nat \cup {-1}] /\ now \in Nat
  BY DEF Init, DbInit
<1> QED
  BY <1>1, <1>2, <1>3 DEF TablesOK

\* The tables keep their types, and the mutex is held by a task between its
\* try_lock and its release and by no other, over errors and crashes.
THEOREM TypeCorrect == Spec => []TypeOK
<1>1. TypeOK /\ [Next]_vars => TypeOK'
  <2>1. TypeOK' <=> TablesOK' /\ MutexOK'
    BY DEF TypeOK, TablesOK, MutexOK
  <2> QED
    BY <2>1, TypeParts, MutexInductive, TablesInductive
<1> QED
  BY <1>1, InitTyped, PTL DEF Spec

-----------------------------------------------------------------------------
(* What the two statements of a qualification leave behind.                *)

LEMMA StandsInductive ==
  ASSUME TypeOK, RowStandsUntilLogged, [Next]_vars
  PROVE  RowStandsUntilLogged'
<1>0. TablesOK /\ MutexOK
  BY TypeParts
<1>1. ASSUME NEW w \in Wallets, NEW ts \in 0..(MaxNow + Skew), NEW q \in BOOLEAN,
             Evaluate(w, ts, q)
      PROVE  RowStandsUntilLogged'
  BY <1>1 DEF RowStandsUntilLogged, Evaluate
<1>2. CASE Lock
  BY <1>2 DEF RowStandsUntilLogged, Lock
<1>3. CASE Upsert
  <2>1. row.wallet \in Wallets /\ row.ts \in Nat /\ UNCHANGED row
    BY <1>0, <1>3 DEF TablesOK, Upsert
  <2>2. CASE UpsertQualifiedWallet(row.wallet, row.ts)
    <3>1. rows'[row.wallet].active /\ rows'[row.wallet].last_updated = row.ts
      BY <1>0, <2>1, <2>2, UpsertFacts
    <3> QED
      BY <2>1, <3>1 DEF RowStandsUntilLogged, Active
  <2>3. CASE torn' = torn \cup {row.wallet}
    BY <2>1, <2>3 DEF RowStandsUntilLogged
  <2> QED
    BY <1>3, <2>2, <2>3 DEF Upsert
<1>4. CASE Log
  BY <1>4 DEF RowStandsUntilLogged, Log
<1>5. CASE Tick
  BY <1>5 DEF RowStandsUntilLogged, Tick, dbVars, Active, history
<1>6. CASE MaintenanceLock
  BY <1>6 DEF RowStandsUntilLogged, MaintenanceLock, dbVars, Active, history
<1>7. CASE Demote
  <2>1. processor' # "log"
    BY <1>0, <1>7 DEF MutexOK, Demote
  <2> QED
    BY <2>1 DEF RowStandsUntilLogged
<1>8. CASE DemoteFails
  BY <1>8 DEF RowStandsUntilLogged, DemoteFails, dbVars, Active, history
<1>9. CASE AdvanceClock
  BY <1>9 DEF RowStandsUntilLogged, AdvanceClock, Active, history
<1>10. CASE Crash
  BY <1>10 DEF RowStandsUntilLogged, Crash
<1>11. CASE UNCHANGED vars
  BY <1>11 DEF RowStandsUntilLogged, vars, dbVars, Active, history
<1> QED
  BY <1>1, <1>2, <1>3, <1>4, <1>5, <1>6, <1>7, <1>8, <1>9, <1>10, <1>11
     DEF Next, Processor, Maintenance

\* What is about to be logged is an active target with the trade that qualified
\* it: the mutex keeps the demotion from between the two statements.
THEOREM StandsUntilLogged == Spec => []RowStandsUntilLogged
<1>1. Init => RowStandsUntilLogged
  BY DEF Init, RowStandsUntilLogged
<1>2. TypeOK /\ RowStandsUntilLogged /\ [Next]_vars => RowStandsUntilLogged'
  BY StandsInductive
<1> QED
  BY <1>1, <1>2, TypeCorrect, PTL DEF Spec

\* No wallet was written in the future: entries logged now are late enough.
Past == /\ written \in [Wallets -> Int]
        /\ \A w \in Wallets : written[w] <= now

LEMMA PastInductive ==
  ASSUME TypeOK, Past, [Next]_vars
  PROVE  Past'
<1>0. TablesOK /\ MutexOK
  BY TypeParts
<1>1. CASE Upsert
  <2>1. now \in Nat /\ now' = now
    BY <1>0, <1>1 DEF TablesOK, Upsert
  <2>2. written' = [written EXCEPT ![row.wallet] = now] \/ written' = written
    BY <1>1 DEF Upsert
  <2> QED
    BY <2>1, <2>2 DEF Past
<1>2. CASE AdvanceClock
  BY <1>0, <1>2 DEF Past, AdvanceClock, history, TablesOK
<1>3. CASE UNCHANGED <<written, now>>
  BY <1>3 DEF Past
<1>4. ASSUME NEW w \in Wallets, NEW ts \in 0..(MaxNow + Skew), NEW q \in BOOLEAN,
             Evaluate(w, ts, q)
      PROVE  UNCHANGED <<written, now>>
  BY <1>4 DEF Evaluate, history, dbVars
<1> QED
  BY <1>1, <1>2, <1>3, <1>4
     DEF Next, Processor, Maintenance, Lock, Log, Tick, MaintenanceLock, Demote,
         DemoteFails, Crash, vars, history, dbVars

Logged(w) == rows[w] # NoRow => \/ processor = "log" /\ row.wallet = w
                                \/ log[w] >= written[w]

LEMMA LoggedInductive ==
  ASSUME TypeOK, Past, [Next]_vars,
         NEW w \in Wallets, w \notin torn => Logged(w), w \notin torn'
  PROVE  Logged(w)'
<1>0. TablesOK /\ MutexOK /\ (w \notin torn => Logged(w))
  BY TypeParts
<1>1. ASSUME NEW v \in Wallets, NEW ts \in 0..(MaxNow + Skew), NEW q \in BOOLEAN,
             Evaluate(v, ts, q)
      PROVE  Logged(w)'
  BY <1>1 DEF Logged, Evaluate, dbVars, history
<1>2. CASE Lock
  BY <1>2 DEF Logged, Lock, dbVars, history
<1>3. CASE Upsert
  <2>1. row.wallet \in Wallets /\ row.ts \in Nat /\ processor' = "log"
        /\ UNCHANGED <<row, log>> /\ processor = "upsert"
    BY <1>0, <1>3 DEF TablesOK, Upsert
  <2>2. CASE row.wallet = w
    BY <2>1, <2>2 DEF Logged
  <2>3. CASE row.wallet # w
    <3>1. rows'[w] = rows[w]
      <4>1. CASE UpsertQualifiedWallet(row.wallet, row.ts)
        BY <1>0, <2>1, <2>3, <4>1, UpsertFacts
      <4> QED
        BY <1>3, <4>1 DEF Upsert
    <3>2. written'[w] = written[w] /\ w \notin torn
      BY <1>3, <2>3 DEF Upsert, Past
    <3> QED
      BY <2>1, <2>3, <3>1, <3>2 DEF Logged
  <2> QED
    BY <2>2, <2>3
<1>4. CASE Log
  <2>1. w \notin torn
    BY <1>4 DEF Log
  <2>2. CASE row.wallet = w
    <3>1. log' = [log EXCEPT ![w] = now]
      BY <1>4, <2>2 DEF Log, LogQualification
    <3>2. log'[w] = now /\ written' = written
      BY <1>0, <1>4, <3>1 DEF TablesOK, Log
    <3> QED
      BY <1>0, <3>2 DEF Logged, Past, TablesOK
  <2>3. CASE row.wallet # w
    <3>1. log'[w] = log[w] /\ UNCHANGED <<rows, written, row>>
      BY <1>0, <1>4, <2>3 DEF TablesOK, Log, LogQualification
    <3> QED
      BY <2>1, <2>3, <3>1 DEF Logged
  <2> QED
    BY <2>2, <2>3
<1>5. CASE Tick
  BY <1>5 DEF Logged, Tick, dbVars, history
<1>6. CASE MaintenanceLock
  BY <1>6 DEF Logged, MaintenanceLock, dbVars, history
<1>7. CASE Demote
  <2>1. rows'[w] # NoRow => rows[w] # NoRow
    BY <1>0, <1>7, DemoteFacts DEF Demote
  <2> QED
    BY <1>7, <2>1 DEF Logged, Demote, history
<1>8. CASE DemoteFails
  BY <1>8 DEF Logged, DemoteFails, dbVars, history
<1>9. CASE AdvanceClock
  BY <1>9 DEF Logged, AdvanceClock, history
<1>10. CASE Crash
  BY <1>10 DEF Logged, Crash, dbVars
<1>11. CASE UNCHANGED vars
  BY <1>11 DEF Logged, vars, dbVars, history
<1> QED
  BY <1>1, <1>2, <1>3, <1>4, <1>5, <1>6, <1>7, <1>8, <1>9, <1>10, <1>11
     DEF Next, Processor, Maintenance

\* The log and the rows agree but where a statement failed or a crash came in
\* between.
THEOREM LogFollows == Spec => []LogFollowsRow
<1>1. Init => Past /\ LogFollowsRow
  BY DEF Init, DbInit, Past, LogFollowsRow
<1>2. TypeOK /\ Past /\ [Next]_vars => Past'
  BY PastInductive
<1>3. TypeOK /\ Past /\ LogFollowsRow /\ [Next]_vars => LogFollowsRow'
  <2> SUFFICES ASSUME TypeOK, Past, LogFollowsRow, [Next]_vars,
                      NEW w \in Wallets, w \notin torn'
               PROVE  Logged(w)'
    BY DEF LogFollowsRow, Logged
  <2>1. w \notin torn => Logged(w)
    BY DEF LogFollowsRow, Logged
  <2> QED
    BY <2>1, LoggedInductive
<1> QED
  BY <1>1, <1>2, <1>3, TypeCorrect, PTL DEF Spec

-----------------------------------------------------------------------------
FirstKept == \A w \in Wallets :
               rows[w] # NoRow => /\ rows'[w] # NoRow
                                  /\ rows'[w].qualified_at = rows[w].qualified_at

\* A row is never deleted, and keeps the time of its first qualification.
THEOREM FirstStays == Spec => FirstQualificationKept
<1>1. NoRow \notin Rows
  BY DEF NoRow, Rows
<1>2. TypeOK /\ [Next]_vars => FirstKept \/ UNCHANGED vars
  <2> SUFFICES ASSUME TypeOK, Next PROVE FirstKept
    OBVIOUS
  <2>0. TablesOK
    BY TypeParts
  <2>1. CASE Demote
    BY <1>1, <2>0, <2>1, DemoteFacts DEF Demote, FirstKept
  <2>2. CASE Upsert
    <3>1. row.wallet \in Wallets /\ row.ts \in Nat
      BY <2>0 DEF TablesOK
    <3>2. CASE UpsertQualifiedWallet(row.wallet, row.ts)
      BY <1>1, <2>0, <3>1, <3>2, UpsertFacts DEF FirstKept
    <3>3. CASE UNCHANGED rows
      BY <3>3 DEF FirstKept
    <3> QED
      BY <2>2, <3>2, <3>3 DEF Upsert
  <2>3. CASE UNCHANGED rows
    BY <2>3 DEF FirstKept
  <2>4. ASSUME NEW w \in Wallets, NEW ts \in 0..(MaxNow + Skew), NEW q \in BOOLEAN,
               Evaluate(w, ts, q)
        PROVE  UNCHANGED rows
    BY <2>4 DEF Evaluate, dbVars
  <2> QED
    BY <2>1, <2>2, <2>3, <2>4
       DEF Next, Processor, Maintenance, Lock, Log, Tick, MaintenanceLock,
           DemoteFails, AdvanceClock, Crash, dbVars
<1>3. TypeOK /\ [Next]_vars => [FirstKept]_vars
  BY <1>2
<1>4. Spec => [][FirstKept]_vars
  BY <1>3, TypeCorrect, PTL DEF Spec
<1> QED
  BY <1>4 DEF FirstQualificationKept, FirstKept
=============================================================================
