--------------------------- MODULE FsSessionsProofs ---------------------------
(***************************************************************************)
(* The session pool of FsSessions, for every pool size and every set of    *)
(* concurrent requests: its types, the one solve per lapse, and the causes *)
(* for which a browser can be stranded, whatever fails.                    *)
(***************************************************************************)
EXTENDS FsStranding, TLAPS

USE PoolAssumption DEF At, IdxOf, Task

LEMMA SlotFacts ==
  /\ 0 \in Slots
  /\ \A i \in Slots : i + 1 < PoolSize => i + 1 \in Slots
  /\ \A i \in Slots : (i + 1) % PoolSize \in Slots
<1>1. 0 \in Slots
  BY DEF Slots
<1>2. \A i \in Slots : i + 1 < PoolSize => i + 1 \in Slots
  BY DEF Slots
<1>3. \A i \in Slots : (i + 1) % PoolSize \in Slots
  BY DEF Slots
<1> QED BY <1>1, <1>2, <1>3

-----------------------------------------------------------------------------
\* The types, with what a slot can hold: the id that is its own.
SlotInv == TypeOK /\ \A i \in Slots : slot[i] \in {i, None}

LEMMA InitSlotInv == Init => SlotInv
<1>1. SUFFICES ASSUME Init PROVE SlotInv
  OBVIOUS
<1>2. browsers \subseteq Slots
  BY <1>1 DEF Init, Purged
<1>3. Idle \in TaskState
  BY SlotFacts DEF Idle, TaskState, Pcs
<1>4. solves \in 0 .. 2
  BY <1>1 DEF Init
<1>8. clear \in BOOLEAN
  BY <1>1 DEF Init
<1>5. slot \in [Slots -> Slots \cup {None}] /\ \A i \in Slots : slot[i] \in {i, None}
  BY <1>1 DEF Init
<1>6. task \in [Task -> TaskState]
  BY <1>1, <1>3 DEF Init
<1>7. /\ owner \in [Slots -> Task \cup {None}]
      /\ cursor \in Slots
      /\ gate \in Request \cup {None}
  BY <1>1, SlotFacts DEF Init
<1> QED BY <1>2, <1>4, <1>5, <1>6, <1>7, <1>8 DEF SlotInv, TypeOK

LEMMA NextSlotInv ==
  ASSUME SlotInv, [Next]_vars
  PROVE  SlotInv'
<1>1. ASSUME NEW r \in Request, Begin(r) PROVE SlotInv'
  BY <1>1, SlotFacts
  DEF Begin, Goto, SlotInv, TypeOK, TaskState, Pcs
<1>2. ASSUME NEW r \in Request, DirectHit(r) PROVE SlotInv'
  BY <1>2, SlotFacts
  DEF DirectHit, Finish, Idle, SlotInv, TypeOK, TaskState, Pcs
<1>3. ASSUME NEW r \in Request, DirectMiss(r) PROVE SlotInv'
  BY <1>3, SlotFacts
  DEF DirectMiss, Goto, SlotInv, TypeOK, TaskState, Pcs
<1>4. ASSUME NEW r \in Request, EnterGate(r) PROVE SlotInv'
  BY <1>4, SlotFacts
  DEF EnterGate, Goto, SlotInv, TypeOK, TaskState, Pcs
<1>5. ASSUME NEW r \in Request, RecheckHit(r) PROVE SlotInv'
  BY <1>5, SlotFacts
  DEF RecheckHit, Finish, Idle, SlotInv, TypeOK, TaskState, Pcs
<1>6. ASSUME NEW r \in Request, RecheckMiss(r) PROVE SlotInv'
  BY <1>6, SlotFacts
  DEF RecheckMiss, Pick, SlotInv, TypeOK, TaskState, Pcs
<1>7. ASSUME WarmBegin PROVE SlotInv'
  BY <1>7, SlotFacts
  DEF WarmBegin, Pick, SlotInv, TypeOK, TaskState, Pcs
<1>8. ASSUME NEW t \in Request \cup {Warmer}, LockFilled(t) PROVE SlotInv'
  BY <1>8, SlotFacts
  DEF LockFilled, SlotInv, TypeOK, TaskState, Pcs
<1>9. ASSUME NEW t \in Request \cup {Warmer}, LockEmpty(t) PROVE SlotInv'
  BY <1>9, SlotFacts
  DEF LockEmpty, Goto, SlotInv, TypeOK, TaskState, Pcs
<1>10. ASSUME NEW t \in Request \cup {Warmer}, CreateOk(t) PROVE SlotInv'
  BY <1>10, SlotFacts
  DEF CreateOk, FsCreates, SlotInv, TypeOK, TaskState, Pcs
<1>11. ASSUME NEW t \in Request \cup {Warmer}, CreateFails(t) PROVE SlotInv'
  BY <1>11, SlotFacts
  DEF CreateFails, FsCreateFails, Goto, SlotInv, TypeOK, TaskState, Pcs
<1>12. ASSUME NEW t \in Request \cup {Warmer}, GetOk(t) PROVE SlotInv'
  BY <1>12, SlotFacts
  DEF GetOk, Finish, Idle, Missing, SlotInv, TypeOK, TaskState, Pcs
<1>13. ASSUME NEW t \in Request \cup {Warmer}, GetFails(t) PROVE SlotInv'
  BY <1>13, SlotFacts
  DEF GetFails, Finish, Idle, SlotInv, TypeOK, TaskState, Pcs
<1>14. ASSUME NEW t \in Request \cup {Warmer}, GetMissing(t) PROVE SlotInv'
  <2>1. slot' \in [Slots -> Slots \cup {None}] /\ \A i \in Slots : slot'[i] \in {i, None}
    BY <1>14, SlotFacts DEF GetMissing, SlotInv, TypeOK, TaskState, Pcs
  <2>2. owner' \in [Slots -> Task \cup {None}]
    BY <1>14, SlotFacts DEF GetMissing, SlotInv, TypeOK, TaskState, Pcs
  <2>3. cursor' \in Slots
    BY <1>14, SlotFacts DEF GetMissing, SlotInv, TypeOK, TaskState, Pcs
  <2>4. gate' \in Request \cup {None}
    BY <1>14, SlotFacts DEF GetMissing, SlotInv, TypeOK, TaskState, Pcs
  <2>5. clear' \in BOOLEAN
    BY <1>14, SlotFacts DEF GetMissing, SlotInv, TypeOK, TaskState, Pcs
  <2>6. browsers' \subseteq Slots
    BY <1>14, SlotFacts DEF GetMissing, SlotInv, TypeOK, TaskState, Pcs
  <2>7. task' \in [Task -> TaskState]
    <3>1. task[t] \in TaskState
      BY DEF SlotInv, TypeOK
    <3>2. [task[t] EXCEPT !.pc = "scan", !.idx = 0] \in TaskState
      BY <3>1, SlotFacts DEF TaskState, Pcs
    <3>3. task' = [task EXCEPT ![t] = [task[t] EXCEPT !.pc = "scan", !.idx = 0]]
      BY <1>14 DEF GetMissing, SlotInv, TypeOK
    <3> QED BY <3>2, <3>3 DEF SlotInv, TypeOK
  <2>8. solves' \in 0 .. 2
    BY <1>14, SlotFacts DEF GetMissing, SlotInv, TypeOK, TaskState, Pcs
  <2> QED BY <2>1, <2>2, <2>3, <2>4, <2>5, <2>6, <2>7, <2>8 DEF SlotInv, TypeOK
<1>15. ASSUME NEW r \in Request, ScanNext(r) PROVE SlotInv'
  <2>1. slot' \in [Slots -> Slots \cup {None}] /\ \A i \in Slots : slot'[i] \in {i, None}
    BY <1>15, SlotFacts DEF ScanNext, SlotInv, TypeOK, TaskState, Pcs, Pick
  <2>2. owner' \in [Slots -> Task \cup {None}]
    BY <1>15, SlotFacts DEF ScanNext, SlotInv, TypeOK, TaskState, Pcs, Pick
  <2>3. cursor' \in Slots
    BY <1>15, SlotFacts DEF ScanNext, SlotInv, TypeOK, TaskState, Pcs, Pick
  <2>4. gate' \in Request \cup {None}
    BY <1>15, SlotFacts DEF ScanNext, SlotInv, TypeOK, TaskState, Pcs, Pick
  <2>5. clear' \in BOOLEAN
    BY <1>15, SlotFacts DEF ScanNext, SlotInv, TypeOK, TaskState, Pcs, Pick
  <2>6. browsers' \subseteq Slots
    BY <1>15, SlotFacts DEF ScanNext, SlotInv, TypeOK, TaskState, Pcs, Pick
  <2>7. task' \in [Task -> TaskState]
    <3>1. task[r] \in TaskState
      BY DEF SlotInv, TypeOK
    <3>2. CASE IdxOf(r) + 1 < PoolSize
      <4>1. [task[r] EXCEPT !.idx = IdxOf(r) + 1] \in TaskState
        BY <3>1, <3>2, SlotFacts DEF TaskState
      <4>2. task' = [task EXCEPT ![r] = [task[r] EXCEPT !.idx = IdxOf(r) + 1]]
        BY <1>15, <3>2 DEF ScanNext, SlotInv, TypeOK
      <4> QED BY <4>1, <4>2 DEF SlotInv, TypeOK
    <3>3. CASE ~(IdxOf(r) + 1 < PoolSize)
      <4>1. Pick(r, TRUE, task[r].blind)
        BY <1>15, <3>3 DEF ScanNext
      <4>2. cursor \in Slots /\ task[r].blind \in BOOLEAN
        BY <3>1 DEF SlotInv, TypeOK, TaskState
      <4>3. [pc |-> "lock", idx |-> cursor, session |-> None,
             retry |-> TRUE, blind |-> task[r].blind] \in TaskState
        BY <4>2 DEF TaskState, Pcs
      <4> QED BY <4>1, <4>3 DEF Pick, SlotInv, TypeOK
    <3> QED BY <3>2, <3>3
  <2>8. solves' \in 0 .. 2
    BY <1>15, SlotFacts DEF ScanNext, SlotInv, TypeOK, TaskState, Pcs, Pick
  <2> QED BY <2>1, <2>2, <2>3, <2>4, <2>5, <2>6, <2>7, <2>8 DEF SlotInv, TypeOK
<1>16. ASSUME NEW r \in Request, Invalidate(r) PROVE SlotInv'
  BY <1>16, SlotFacts
  DEF Invalidate, Pick, SlotInv, TypeOK, TaskState, Pcs
<1>17. ASSUME RefreshBegin PROVE SlotInv'
  BY <1>17, SlotFacts
  DEF RefreshBegin, Goto, SlotInv, TypeOK, TaskState, Pcs
<1>18. ASSUME Take PROVE SlotInv'
  BY <1>18, SlotFacts
  DEF Take, Goto, SlotInv, TypeOK, TaskState, Pcs
<1>19. ASSUME Destroy PROVE SlotInv'
  BY <1>19, SlotFacts
  DEF Destroy, Goto, SlotInv, TypeOK, TaskState, Pcs
<1>20. ASSUME Recreate PROVE SlotInv'
  <2>1. slot' \in [Slots -> Slots \cup {None}] /\ \A i \in Slots : slot'[i] \in {i, None}
    BY <1>20, SlotFacts DEF Recreate, SlotInv, TypeOK, TaskState, Pcs, FsCreates, FsCreateFails, Idle
  <2>2. owner' \in [Slots -> Task \cup {None}]
    BY <1>20, SlotFacts DEF Recreate, SlotInv, TypeOK, TaskState, Pcs, FsCreates, FsCreateFails, Idle
  <2>3. cursor' \in Slots
    BY <1>20, SlotFacts DEF Recreate, SlotInv, TypeOK, TaskState, Pcs, FsCreates, FsCreateFails, Idle
  <2>4. gate' \in Request \cup {None}
    BY <1>20, SlotFacts DEF Recreate, SlotInv, TypeOK, TaskState, Pcs, FsCreates, FsCreateFails, Idle
  <2>5. clear' \in BOOLEAN
    BY <1>20, SlotFacts DEF Recreate, SlotInv, TypeOK, TaskState, Pcs, FsCreates, FsCreateFails, Idle
  <2>6. browsers' \subseteq Slots
    BY <1>20, SlotFacts DEF Recreate, SlotInv, TypeOK, TaskState, Pcs, FsCreates, FsCreateFails, Idle
  <2>7. task' \in [Task -> TaskState]
    <3>1. task[Refresher] \in TaskState /\ Idle \in TaskState
      BY SlotFacts DEF SlotInv, TypeOK, Idle, TaskState, Pcs
    <3>2. CASE IdxOf(Refresher) + 1 < PoolSize
      <4>1. [task[Refresher] EXCEPT !.pc = "take", !.idx = IdxOf(Refresher) + 1] \in TaskState
        BY <3>1, <3>2, SlotFacts DEF TaskState, Pcs
      <4> QED BY <1>20, <3>2, <4>1 DEF Recreate, SlotInv, TypeOK
    <3>3. CASE ~(IdxOf(Refresher) + 1 < PoolSize)
      BY <1>20, <3>1, <3>3 DEF Recreate, SlotInv, TypeOK
    <3> QED BY <3>2, <3>3
  <2>8. solves' \in 0 .. 2
    BY <1>20, SlotFacts DEF Recreate, SlotInv, TypeOK, TaskState, Pcs, FsCreates, FsCreateFails, Idle
  <2> QED BY <2>1, <2>2, <2>3, <2>4, <2>5, <2>6, <2>7, <2>8 DEF SlotInv, TypeOK
<1>21. ASSUME NEW r \in Request, Cancel(r) PROVE SlotInv'
  BY <1>21, SlotFacts
  DEF Cancel, Finish, Idle, SlotInv, TypeOK, TaskState, Pcs
<1>22. ASSUME FsLoses PROVE SlotInv'
  BY <1>22, SlotFacts
  DEF FsLoses, SlotInv, TypeOK, TaskState, Pcs
<1>23. ASSUME Lapse PROVE SlotInv'
  <2>1. slot' \in [Slots -> Slots \cup {None}] /\ \A i \in Slots : slot'[i] \in {i, None}
    BY <1>23, SlotFacts DEF Lapse, SlotInv, TypeOK, TaskState, Pcs
  <2>2. owner' \in [Slots -> Task \cup {None}]
    BY <1>23, SlotFacts DEF Lapse, SlotInv, TypeOK, TaskState, Pcs
  <2>3. cursor' \in Slots
    BY <1>23, SlotFacts DEF Lapse, SlotInv, TypeOK, TaskState, Pcs
  <2>4. gate' \in Request \cup {None}
    BY <1>23, SlotFacts DEF Lapse, SlotInv, TypeOK, TaskState, Pcs
  <2>5. clear' \in BOOLEAN
    BY <1>23, SlotFacts DEF Lapse, SlotInv, TypeOK, TaskState, Pcs
  <2>6. browsers' \subseteq Slots
    BY <1>23, SlotFacts DEF Lapse, SlotInv, TypeOK, TaskState, Pcs
  <2>7. task' \in [Task -> TaskState]
    BY <1>23, SlotFacts DEF Lapse, SlotInv, TypeOK, TaskState, Pcs
  <2>8. solves' \in 0 .. 2
    BY <1>23, SlotFacts DEF Lapse, SlotInv, TypeOK, TaskState, Pcs
  <2> QED BY <2>1, <2>2, <2>3, <2>4, <2>5, <2>6, <2>7, <2>8 DEF SlotInv, TypeOK
<1>24. ASSUME Restart PROVE SlotInv'
  <2>1. slot' \in [Slots -> Slots \cup {None}] /\ \A i \in Slots : slot'[i] \in {i, None}
    BY <1>24, SlotFacts DEF Restart, SlotInv, TypeOK, TaskState, Pcs, Purged, Idle
  <2>2. owner' \in [Slots -> Task \cup {None}]
    BY <1>24, SlotFacts DEF Restart, SlotInv, TypeOK, TaskState, Pcs, Purged, Idle
  <2>3. cursor' \in Slots
    BY <1>24, SlotFacts DEF Restart, SlotInv, TypeOK, TaskState, Pcs, Purged, Idle
  <2>4. gate' \in Request \cup {None}
    BY <1>24, SlotFacts DEF Restart, SlotInv, TypeOK, TaskState, Pcs, Purged, Idle
  <2>5. clear' \in BOOLEAN
    BY <1>24, SlotFacts DEF Restart, SlotInv, TypeOK, TaskState, Pcs, Purged, Idle
  <2>6. browsers' \subseteq Slots
    BY <1>24, SlotFacts DEF Restart, SlotInv, TypeOK, TaskState, Pcs, Purged, Idle
  <2>7. task' \in [Task -> TaskState]
    BY <1>24, SlotFacts DEF Restart, SlotInv, TypeOK, TaskState, Pcs, Purged, Idle
  <2>8. solves' \in 0 .. 2
    BY <1>24, SlotFacts DEF Restart, SlotInv, TypeOK, TaskState, Pcs, Purged, Idle
  <2> QED BY <2>1, <2>2, <2>3, <2>4, <2>5, <2>6, <2>7, <2>8 DEF SlotInv, TypeOK
<1>25. CASE UNCHANGED vars
  BY <1>25 DEF vars, SlotInv, TypeOK, TaskState, Pcs
<1> QED BY <1>1, <1>2, <1>3, <1>4, <1>5, <1>6, <1>7, <1>8, <1>9, <1>10, <1>11, <1>12, <1>13, <1>14, <1>15, <1>16, <1>17, <1>18, <1>19, <1>20, <1>21, <1>22, <1>23, <1>24, <1>25
  DEF Next, Running, Fetch, Session, LockSlot, LockScanned, Refresh

\* The types are kept, and slot i never holds another id than musescore-i: two
\* slots never share a browser of FS.
THEOREM SlotInvariance == Spec => []SlotInv
BY InitSlotInv, NextSlotInv, PTL DEF Spec

\* Every variable keeps its type: the cursor stays inside the pool, and so does
\* every index that acquire_session, invalidate_session and the refresh use.
THEOREM PoolTypeCorrect == Spec => []TypeOK
<1>1. SlotInv => TypeOK
  BY DEF SlotInv
<1> QED BY SlotInvariance, <1>1, PTL

-----------------------------------------------------------------------------
\* Who solves, holds the gate; and while a challenged request is on its way to
\* a solution, no other request has found one since the clearance lapsed.
Solving == {"lock", "create", "get", "scan"}

SolveInv ==
  /\ \A r \in Request : task[r].pc \in Solving \cup {"recheck"} => gate = r
  /\ \A r \in Request : task[r].pc \in Solving /\ ~task[r].blind => solves = 0
  /\ solves = 0 \/ (solves = 1 /\ clear)

LEMMA InitSolveInv == Init => SolveInv
BY DEF Init, SolveInv, Solving, Idle

LEMMA NextSolveInv ==
  ASSUME SlotInv, SolveInv, [Next]_vars
  PROVE  SolveInv'
<1>1. ASSUME NEW r \in Request, Begin(r) PROVE SolveInv'
  BY <1>1
  DEF Begin, Goto, SolveInv, Solving, SlotInv, TypeOK, TaskState
<1>2. ASSUME NEW r \in Request, DirectHit(r) PROVE SolveInv'
  BY <1>2
  DEF DirectHit, Finish, Idle, SolveInv, Solving, SlotInv, TypeOK, TaskState
<1>3. ASSUME NEW r \in Request, DirectMiss(r) PROVE SolveInv'
  BY <1>3
  DEF DirectMiss, Goto, SolveInv, Solving, SlotInv, TypeOK, TaskState
<1>4. ASSUME NEW r \in Request, EnterGate(r) PROVE SolveInv'
  BY <1>4
  DEF EnterGate, Goto, SolveInv, Solving, SlotInv, TypeOK, TaskState
<1>5. ASSUME NEW r \in Request, RecheckHit(r) PROVE SolveInv'
  BY <1>5
  DEF RecheckHit, Finish, Idle, SolveInv, Solving, SlotInv, TypeOK, TaskState
<1>6. ASSUME NEW r \in Request, RecheckMiss(r) PROVE SolveInv'
  BY <1>6
  DEF RecheckMiss, Pick, SolveInv, Solving, SlotInv, TypeOK, TaskState
<1>7. ASSUME WarmBegin PROVE SolveInv'
  BY <1>7
  DEF WarmBegin, Pick, SolveInv, Solving, SlotInv, TypeOK, TaskState
<1>8. ASSUME NEW t \in Request \cup {Warmer}, LockFilled(t) PROVE SolveInv'
  BY <1>8
  DEF LockFilled, SolveInv, Solving, SlotInv, TypeOK, TaskState
<1>9. ASSUME NEW t \in Request \cup {Warmer}, LockEmpty(t) PROVE SolveInv'
  BY <1>9
  DEF LockEmpty, Goto, SolveInv, Solving, SlotInv, TypeOK, TaskState
<1>10. ASSUME NEW t \in Request \cup {Warmer}, CreateOk(t) PROVE SolveInv'
  BY <1>10
  DEF CreateOk, FsCreates, SolveInv, Solving, SlotInv, TypeOK, TaskState
<1>11. ASSUME NEW t \in Request \cup {Warmer}, CreateFails(t) PROVE SolveInv'
  BY <1>11
  DEF CreateFails, FsCreateFails, Goto, SolveInv, Solving, SlotInv, TypeOK, TaskState
<1>12. ASSUME NEW t \in Request \cup {Warmer}, GetOk(t) PROVE SolveInv'
  BY <1>12
  DEF GetOk, Finish, Idle, Missing, SolveInv, Solving, SlotInv, TypeOK, TaskState
<1>13. ASSUME NEW t \in Request \cup {Warmer}, GetFails(t) PROVE SolveInv'
  BY <1>13
  DEF GetFails, Finish, Idle, SolveInv, Solving, SlotInv, TypeOK, TaskState
<1>14. ASSUME NEW t \in Request \cup {Warmer}, GetMissing(t) PROVE SolveInv'
  BY <1>14
  DEF GetMissing, Missing, SolveInv, Solving, SlotInv, TypeOK, TaskState
<1>15. ASSUME NEW r \in Request, ScanNext(r) PROVE SolveInv'
  BY <1>15
  DEF ScanNext, Pick, SolveInv, Solving, SlotInv, TypeOK, TaskState
<1>16. ASSUME NEW r \in Request, Invalidate(r) PROVE SolveInv'
  BY <1>16
  DEF Invalidate, Pick, SolveInv, Solving, SlotInv, TypeOK, TaskState
<1>17. ASSUME RefreshBegin PROVE SolveInv'
  BY <1>17
  DEF RefreshBegin, Goto, SolveInv, Solving, SlotInv, TypeOK, TaskState
<1>18. ASSUME Take PROVE SolveInv'
  BY <1>18
  DEF Take, Goto, SolveInv, Solving, SlotInv, TypeOK, TaskState
<1>19. ASSUME Destroy PROVE SolveInv'
  BY <1>19
  DEF Destroy, Goto, SolveInv, Solving, SlotInv, TypeOK, TaskState
<1>20. ASSUME Recreate PROVE SolveInv'
  BY <1>20
  DEF Recreate, FsCreates, FsCreateFails, Idle, SolveInv, Solving, SlotInv, TypeOK, TaskState
<1>21. ASSUME NEW r \in Request, Cancel(r) PROVE SolveInv'
  BY <1>21
  DEF Cancel, Finish, Idle, SolveInv, Solving, SlotInv, TypeOK, TaskState
<1>22. ASSUME FsLoses PROVE SolveInv'
  BY <1>22
  DEF FsLoses, SolveInv, Solving, SlotInv, TypeOK, TaskState
<1>23. ASSUME Lapse PROVE SolveInv'
  BY <1>23
  DEF Lapse, SolveInv, Solving, SlotInv, TypeOK, TaskState
<1>24. ASSUME Restart PROVE SolveInv'
  BY <1>24
  DEF Restart, Purged, Idle, SolveInv, Solving, SlotInv, TypeOK, TaskState
<1>25. CASE UNCHANGED vars
  BY <1>25 DEF vars, SolveInv, Solving, SlotInv, TypeOK, TaskState
<1> QED BY <1>1, <1>2, <1>3, <1>4, <1>5, <1>6, <1>7, <1>8, <1>9, <1>10, <1>11, <1>12, <1>13, <1>14, <1>15, <1>16, <1>17, <1>18, <1>19, <1>20, <1>21, <1>22, <1>23, <1>24, <1>25
  DEF Next, Running, Fetch, Session, LockSlot, LockScanned, Refresh

\* Between two lapses of the clearance at most one challenged request of
\* fetch_html_challenged drives FlareSolverr to a solution.
THEOREM SolvesAreCoalesced == Spec => []OneSolvePerLapse
<1>1. SolveInv => OneSolvePerLapse
  BY DEF SolveInv, OneSolvePerLapse
<1> QED BY SlotInvariance, InitSolveInv, NextSolveInv, <1>1, PTL DEF Spec

-----------------------------------------------------------------------------
\* Where a task can be, what a create and the refresh hold, and who waits to
\* throw a session away: unless the refresh has crossed it, its session is still
\* in its slot or in the hands of the refresh, and FS does not have it.
Refreshes(i) == task[Refresher].pc \in {"destroy", "recreate"} /\ task[Refresher].idx = i

PlacesInv ==
  /\ crossed \in [Request -> BOOLEAN]
  /\ task[Refresher].pc \in {"idle", "take", "destroy", "recreate"}
  /\ task[Warmer].pc \in {"idle", "lock", "create", "get"}
  /\ \A r \in Request : task[r].pc \notin {"take", "destroy", "recreate"}
  /\ \A t \in Task : task[t].pc \in {"lock", "create"} => task[t].session = None
  /\ \A t \in Task : task[t].pc = "create" =>
       owner[task[t].idx] = t /\ slot[task[t].idx] = None
  /\ \A i \in Slots : Refreshes(i) => owner[i] = Refresher /\ slot[i] = None

CrossInv ==
  \A r \in Request : ~crossed[r] /\ task[r].session # None =>
    /\ Uses(r) => slot[task[r].session] = task[r].session \/ Refreshes(task[r].session)
    /\ task[r].pc = "scan" => task[r].session \notin browsers

BrowserInv ==
  /\ \A r \in Request : task[r].pc = "scan" => task[r].session # None
  /\ \A i \in browsers :
       slot[i] = i \/ i \in excused \/ (Refreshes(i) /\ task[Refresher].pc = "destroy")

StrandingInv == PlacesInv /\ CrossInv /\ BrowserInv

LEMMA InitStrandingInv == StrandingInit => StrandingInv
BY DEF StrandingInit, Init, StrandingInv, PlacesInv, CrossInv, BrowserInv, Idle,
       Refreshes, Uses

\* What a step of the running pool does to the two histories.
Histories ==
  /\ crossed' = [r \in Request |-> Uses(r) /\ Uses(r)' /\ (crossed[r] \/ Crosses(r))]
  /\ excused' = (excused \cap browsers') \cup Unheard \cup Undestroyed \cup ThrownAway

LEMMA RunningPlaces ==
  ASSUME SlotInv, SolveInv, StrandingInv, Running, Histories
  PROVE  PlacesInv'
<1>1. ASSUME NEW r \in Request, Begin(r) PROVE PlacesInv'
  BY <1>1
  DEF Begin, Goto, Histories, Refreshes, SolveInv, Solving, StrandingInv, PlacesInv, SlotInv,
      TypeOK, TaskState, Pcs
<1>2. ASSUME NEW r \in Request, DirectHit(r) PROVE PlacesInv'
  BY <1>2
  DEF DirectHit, Finish, Idle, Histories, Refreshes, SolveInv, Solving, StrandingInv,
      PlacesInv, SlotInv, TypeOK, TaskState, Pcs
<1>3. ASSUME NEW r \in Request, DirectMiss(r) PROVE PlacesInv'
  BY <1>3
  DEF DirectMiss, Goto, Histories, Refreshes, SolveInv, Solving, StrandingInv, PlacesInv,
      SlotInv, TypeOK, TaskState, Pcs
<1>4. ASSUME NEW r \in Request, EnterGate(r) PROVE PlacesInv'
  BY <1>4
  DEF EnterGate, Goto, Histories, Refreshes, SolveInv, Solving, StrandingInv, PlacesInv,
      SlotInv, TypeOK, TaskState, Pcs
<1>5. ASSUME NEW r \in Request, RecheckHit(r) PROVE PlacesInv'
  BY <1>5
  DEF RecheckHit, Finish, Idle, Histories, Refreshes, SolveInv, Solving, StrandingInv,
      PlacesInv, SlotInv, TypeOK, TaskState, Pcs
<1>6. ASSUME NEW r \in Request, RecheckMiss(r) PROVE PlacesInv'
  BY <1>6
  DEF RecheckMiss, Pick, Histories, Refreshes, SolveInv, Solving, StrandingInv, PlacesInv,
      SlotInv, TypeOK, TaskState, Pcs
<1>7. ASSUME WarmBegin PROVE PlacesInv'
  BY <1>7
  DEF WarmBegin, Pick, Histories, Refreshes, SolveInv, Solving, StrandingInv, PlacesInv,
      SlotInv, TypeOK, TaskState, Pcs
<1>8. ASSUME NEW t \in Request \cup {Warmer}, LockFilled(t) PROVE PlacesInv'
  BY <1>8
  DEF LockFilled, Histories, Refreshes, SolveInv, Solving, StrandingInv, PlacesInv, SlotInv,
      TypeOK, TaskState, Pcs
<1>9. ASSUME NEW t \in Request \cup {Warmer}, LockEmpty(t) PROVE PlacesInv'
  BY <1>9
  DEF LockEmpty, Goto, Histories, Refreshes, SolveInv, Solving, StrandingInv, PlacesInv,
      SlotInv, TypeOK, TaskState, Pcs
<1>10. ASSUME NEW t \in Request \cup {Warmer}, CreateOk(t) PROVE PlacesInv'
  BY <1>10
  DEF CreateOk, FsCreates, Histories, Refreshes, SolveInv, Solving, StrandingInv, PlacesInv,
      SlotInv, TypeOK, TaskState, Pcs
<1>11. ASSUME NEW t \in Request \cup {Warmer}, CreateFails(t) PROVE PlacesInv'
  BY <1>11
  DEF CreateFails, FsCreateFails, Goto, Histories, Refreshes, SolveInv, Solving, StrandingInv,
      PlacesInv, SlotInv, TypeOK, TaskState, Pcs
<1>12. ASSUME NEW t \in Request \cup {Warmer}, GetOk(t) PROVE PlacesInv'
  BY <1>12
  DEF GetOk, Finish, Idle, Missing, Histories, Refreshes, SolveInv, Solving, StrandingInv,
      PlacesInv, SlotInv, TypeOK, TaskState, Pcs
<1>13. ASSUME NEW t \in Request \cup {Warmer}, GetFails(t) PROVE PlacesInv'
  BY <1>13
  DEF GetFails, Finish, Idle, Histories, Refreshes, SolveInv, Solving, StrandingInv,
      PlacesInv, SlotInv, TypeOK, TaskState, Pcs
<1>14. ASSUME NEW t \in Request \cup {Warmer}, GetMissing(t) PROVE PlacesInv'
  BY <1>14
  DEF GetMissing, Missing, Histories, Refreshes, SolveInv, Solving, StrandingInv, PlacesInv,
      SlotInv, TypeOK, TaskState, Pcs
<1>15. ASSUME NEW r \in Request, ScanNext(r) PROVE PlacesInv'
  <2>1. /\ owner' = owner /\ slot' = slot /\ task[r].pc = "scan"
        /\ \A t \in Task \ {r} : task'[t] = task[t]
        /\ crossed' \in [Request -> BOOLEAN]
    BY <1>15 DEF ScanNext, Pick, Histories, Crosses, Uses, StrandingInv, PlacesInv, SlotInv, TypeOK
  <2>2. /\ task'[r].pc \in {"scan", "lock"}
        /\ task'[r].pc = "lock" => task'[r].session = None
    BY <1>15 DEF ScanNext, Pick, SlotInv, TypeOK, TaskState
  <2> QED BY <2>1, <2>2 DEF StrandingInv, PlacesInv, Refreshes
<1>16. ASSUME NEW r \in Request, Invalidate(r) PROVE PlacesInv'
  BY <1>16
  DEF Invalidate, Pick, Histories, Refreshes, SolveInv, Solving, StrandingInv, PlacesInv,
      SlotInv, TypeOK, TaskState, Pcs
<1>17. ASSUME RefreshBegin PROVE PlacesInv'
  BY <1>17
  DEF RefreshBegin, Goto, Histories, Refreshes, SolveInv, Solving, StrandingInv, PlacesInv,
      SlotInv, TypeOK, TaskState, Pcs
<1>18. ASSUME Take PROVE PlacesInv'
  BY <1>18
  DEF Take, Goto, Histories, Refreshes, SolveInv, Solving, StrandingInv, PlacesInv, SlotInv,
      TypeOK, TaskState, Pcs
<1>19. ASSUME Destroy PROVE PlacesInv'
  BY <1>19
  DEF Destroy, Goto, Histories, Refreshes, SolveInv, Solving, StrandingInv, PlacesInv,
      SlotInv, TypeOK, TaskState, Pcs
<1>20. ASSUME Recreate PROVE PlacesInv'
  BY <1>20
  DEF Recreate, FsCreates, FsCreateFails, Idle, Histories, Refreshes, SolveInv, Solving,
      StrandingInv, PlacesInv, SlotInv, TypeOK, TaskState, Pcs
<1>21. ASSUME NEW r \in Request, Cancel(r) PROVE PlacesInv'
  BY <1>21
  DEF Cancel, Finish, Idle, Histories, Refreshes, SolveInv, Solving, StrandingInv, PlacesInv,
      SlotInv, TypeOK, TaskState, Pcs
<1>22. ASSUME FsLoses PROVE PlacesInv'
  BY <1>22
  DEF FsLoses, Histories, Refreshes, SolveInv, Solving, StrandingInv, PlacesInv, SlotInv,
      TypeOK, TaskState, Pcs
<1>23. ASSUME Lapse PROVE PlacesInv'
  BY <1>23
  DEF Lapse, Histories, Refreshes, SolveInv, Solving, StrandingInv, PlacesInv, SlotInv,
      TypeOK, TaskState, Pcs
<1> QED BY <1>1, <1>2, <1>3, <1>4, <1>5, <1>6, <1>7, <1>8, <1>9, <1>10, <1>11, <1>12, <1>13, <1>14, <1>15, <1>16, <1>17, <1>18, <1>19, <1>20, <1>21, <1>22, <1>23
  DEF Running, Fetch, Session, LockSlot, LockScanned, Refresh

LEMMA RunningCross ==
  ASSUME SlotInv, SolveInv, StrandingInv, Running, Histories
  PROVE  CrossInv'
<1>1. ASSUME NEW r \in Request, Begin(r) PROVE CrossInv'
  BY <1>1
  DEF Begin, Goto, Histories, Crosses, Uses, Refreshes, SolveInv, Solving, StrandingInv,
      PlacesInv, CrossInv, SlotInv, TypeOK, TaskState, Pcs
<1>2. ASSUME NEW r \in Request, DirectHit(r) PROVE CrossInv'
  BY <1>2
  DEF DirectHit, Finish, Idle, Histories, Crosses, Uses, Refreshes, SolveInv, Solving,
      StrandingInv, PlacesInv, CrossInv, SlotInv, TypeOK, TaskState, Pcs
<1>3. ASSUME NEW r \in Request, DirectMiss(r) PROVE CrossInv'
  BY <1>3
  DEF DirectMiss, Goto, Histories, Crosses, Uses, Refreshes, SolveInv, Solving, StrandingInv,
      PlacesInv, CrossInv, SlotInv, TypeOK, TaskState, Pcs
<1>4. ASSUME NEW r \in Request, EnterGate(r) PROVE CrossInv'
  BY <1>4
  DEF EnterGate, Goto, Histories, Crosses, Uses, Refreshes, SolveInv, Solving, StrandingInv,
      PlacesInv, CrossInv, SlotInv, TypeOK, TaskState, Pcs
<1>5. ASSUME NEW r \in Request, RecheckHit(r) PROVE CrossInv'
  BY <1>5
  DEF RecheckHit, Finish, Idle, Histories, Crosses, Uses, Refreshes, SolveInv, Solving,
      StrandingInv, PlacesInv, CrossInv, SlotInv, TypeOK, TaskState, Pcs
<1>6. ASSUME NEW r \in Request, RecheckMiss(r) PROVE CrossInv'
  BY <1>6
  DEF RecheckMiss, Pick, Histories, Crosses, Uses, Refreshes, SolveInv, Solving, StrandingInv,
      PlacesInv, CrossInv, SlotInv, TypeOK, TaskState, Pcs
<1>7. ASSUME WarmBegin PROVE CrossInv'
  BY <1>7
  DEF WarmBegin, Pick, Histories, Crosses, Uses, Refreshes, SolveInv, Solving, StrandingInv,
      PlacesInv, CrossInv, SlotInv, TypeOK, TaskState, Pcs
<1>8. ASSUME NEW t \in Request \cup {Warmer}, LockFilled(t) PROVE CrossInv'
  BY <1>8
  DEF LockFilled, Histories, Crosses, Uses, Refreshes, SolveInv, Solving, StrandingInv,
      PlacesInv, CrossInv, SlotInv, TypeOK, TaskState, Pcs
<1>9. ASSUME NEW t \in Request \cup {Warmer}, LockEmpty(t) PROVE CrossInv'
  BY <1>9
  DEF LockEmpty, Goto, Histories, Crosses, Uses, Refreshes, SolveInv, Solving, StrandingInv,
      PlacesInv, CrossInv, SlotInv, TypeOK, TaskState, Pcs
<1>10. ASSUME NEW t \in Request \cup {Warmer}, CreateOk(t) PROVE CrossInv'
  BY <1>10
  DEF CreateOk, FsCreates, Histories, Crosses, Uses, Refreshes, SolveInv, Solving,
      StrandingInv, PlacesInv, CrossInv, SlotInv, TypeOK, TaskState, Pcs
<1>11. ASSUME NEW t \in Request \cup {Warmer}, CreateFails(t) PROVE CrossInv'
  BY <1>11
  DEF CreateFails, FsCreateFails, Goto, Histories, Crosses, Uses, Refreshes, SolveInv,
      Solving, StrandingInv, PlacesInv, CrossInv, SlotInv, TypeOK, TaskState, Pcs
<1>12. ASSUME NEW t \in Request \cup {Warmer}, GetOk(t) PROVE CrossInv'
  BY <1>12
  DEF GetOk, Finish, Idle, Missing, Histories, Crosses, Uses, Refreshes, SolveInv, Solving,
      StrandingInv, PlacesInv, CrossInv, SlotInv, TypeOK, TaskState, Pcs
<1>13. ASSUME NEW t \in Request \cup {Warmer}, GetFails(t) PROVE CrossInv'
  BY <1>13
  DEF GetFails, Finish, Idle, Histories, Crosses, Uses, Refreshes, SolveInv, Solving,
      StrandingInv, PlacesInv, CrossInv, SlotInv, TypeOK, TaskState, Pcs
<1>14. ASSUME NEW t \in Request \cup {Warmer}, GetMissing(t) PROVE CrossInv'
  BY <1>14
  DEF GetMissing, Missing, Histories, Crosses, Uses, Refreshes, SolveInv, Solving,
      StrandingInv, PlacesInv, CrossInv, SlotInv, TypeOK, TaskState, Pcs
<1>15. ASSUME NEW r \in Request, ScanNext(r) PROVE CrossInv'
  BY <1>15
  DEF ScanNext, Pick, Histories, Crosses, Uses, Refreshes, SolveInv, Solving, StrandingInv,
      PlacesInv, CrossInv, SlotInv, TypeOK, TaskState, Pcs
<1>16. ASSUME NEW r \in Request, Invalidate(r) PROVE CrossInv'
  BY <1>16
  DEF Invalidate, Pick, Histories, Crosses, Uses, Refreshes, SolveInv, Solving, StrandingInv,
      PlacesInv, CrossInv, SlotInv, TypeOK, TaskState, Pcs
<1>17. ASSUME RefreshBegin PROVE CrossInv'
  BY <1>17
  DEF RefreshBegin, Goto, Histories, Crosses, Uses, Refreshes, SolveInv, Solving,
      StrandingInv, PlacesInv, CrossInv, SlotInv, TypeOK, TaskState, Pcs
<1>18. ASSUME Take PROVE CrossInv'
  BY <1>18
  DEF Take, Goto, Histories, Crosses, Uses, Refreshes, SolveInv, Solving, StrandingInv,
      PlacesInv, CrossInv, SlotInv, TypeOK, TaskState, Pcs
<1>19. ASSUME Destroy PROVE CrossInv'
  BY <1>19
  DEF Destroy, Goto, Histories, Crosses, Uses, Refreshes, SolveInv, Solving, StrandingInv,
      PlacesInv, CrossInv, SlotInv, TypeOK, TaskState, Pcs
<1>20. ASSUME Recreate PROVE CrossInv'
  <2> SUFFICES ASSUME NEW r \in Request, ~crossed'[r], task'[r].session # None
               PROVE  /\ Uses(r)' => (slot[task[r].session] = task[r].session
                                        \/ Refreshes(task[r].session))'
                      /\ task'[r].pc = "scan" => task'[r].session \notin browsers'
    BY DEF CrossInv
  <2> DEFINE s == task[r].session
  <2>1. r # Refresher /\ r \in Task /\ Refresher \in Task
    BY <1>20 DEF Recreate, At, StrandingInv, PlacesInv, Task
  <2>2. task'[r] = task[r]
    BY <1>20, <2>1 DEF Recreate, SlotInv, TypeOK
  <2>3. /\ IdxOf(Refresher) \in Slots
        /\ s \in Slots
    BY <2>1, <2>2 DEF IdxOf, SlotInv, TypeOK, TaskState
  <2>4. /\ slot' = [slot EXCEPT ![IdxOf(Refresher)] = IdxOf(Refresher)] \/ slot' = slot
        /\ browsers' \subseteq browsers \cup {IdxOf(Refresher)}
    BY <1>20 DEF Recreate, FsCreates, FsCreateFails
  <2>5. Uses(r)' <=> Uses(r)
    BY <2>2 DEF Uses
  <2>6. Uses(r) => ~crossed[r] /\ IdxOf(Refresher) # s
    BY <1>20, <2>5 DEF Histories, Crosses
  <2>7. ASSUME Uses(r) PROVE slot[s] = s
    BY <2>2, <2>6, <2>7 DEF StrandingInv, CrossInv, Refreshes, IdxOf
  <2>8. ASSUME Uses(r) PROVE slot'[s] = s
    BY <2>3, <2>4, <2>6, <2>7, <2>8 DEF SlotInv, TypeOK
  <2>9. task[r].pc = "scan" => Uses(r) /\ s \notin browsers
    BY <2>2, <2>6 DEF Uses, StrandingInv, CrossInv
  <2> QED BY <2>2, <2>4, <2>5, <2>6, <2>8, <2>9
<1>21. ASSUME NEW r \in Request, Cancel(r) PROVE CrossInv'
  BY <1>21
  DEF Cancel, Finish, Idle, Histories, Crosses, Uses, Refreshes, SolveInv, Solving,
      StrandingInv, PlacesInv, CrossInv, SlotInv, TypeOK, TaskState, Pcs
<1>22. ASSUME FsLoses PROVE CrossInv'
  BY <1>22
  DEF FsLoses, Histories, Crosses, Uses, Refreshes, SolveInv, Solving, StrandingInv,
      PlacesInv, CrossInv, SlotInv, TypeOK, TaskState, Pcs
<1>23. ASSUME Lapse PROVE CrossInv'
  BY <1>23
  DEF Lapse, Histories, Crosses, Uses, Refreshes, SolveInv, Solving, StrandingInv, PlacesInv,
      CrossInv, SlotInv, TypeOK, TaskState, Pcs
<1> QED BY <1>1, <1>2, <1>3, <1>4, <1>5, <1>6, <1>7, <1>8, <1>9, <1>10, <1>11, <1>12, <1>13, <1>14, <1>15, <1>16, <1>17, <1>18, <1>19, <1>20, <1>21, <1>22, <1>23
  DEF Running, Fetch, Session, LockSlot, LockScanned, Refresh

LEMMA RunningBrowsers ==
  ASSUME SlotInv, SolveInv, StrandingInv, Running, Histories
  PROVE  BrowserInv'
<1>1. ASSUME NEW r \in Request, Begin(r) PROVE BrowserInv'
  BY <1>1
  DEF Begin, Goto, Histories, Unheard, Undestroyed, ThrownAway, Refreshes, Uses, SolveInv,
      Solving, StrandingInv, PlacesInv, CrossInv, BrowserInv, SlotInv, TypeOK, TaskState, Pcs
<1>2. ASSUME NEW r \in Request, DirectHit(r) PROVE BrowserInv'
  BY <1>2
  DEF DirectHit, Finish, Idle, Histories, Unheard, Undestroyed, ThrownAway, Refreshes, Uses,
      SolveInv, Solving, StrandingInv, PlacesInv, CrossInv, BrowserInv, SlotInv, TypeOK,
      TaskState, Pcs
<1>3. ASSUME NEW r \in Request, DirectMiss(r) PROVE BrowserInv'
  BY <1>3
  DEF DirectMiss, Goto, Histories, Unheard, Undestroyed, ThrownAway, Refreshes, Uses,
      SolveInv, Solving, StrandingInv, PlacesInv, CrossInv, BrowserInv, SlotInv, TypeOK,
      TaskState, Pcs
<1>4. ASSUME NEW r \in Request, EnterGate(r) PROVE BrowserInv'
  BY <1>4
  DEF EnterGate, Goto, Histories, Unheard, Undestroyed, ThrownAway, Refreshes, Uses, SolveInv,
      Solving, StrandingInv, PlacesInv, CrossInv, BrowserInv, SlotInv, TypeOK, TaskState, Pcs
<1>5. ASSUME NEW r \in Request, RecheckHit(r) PROVE BrowserInv'
  BY <1>5
  DEF RecheckHit, Finish, Idle, Histories, Unheard, Undestroyed, ThrownAway, Refreshes, Uses,
      SolveInv, Solving, StrandingInv, PlacesInv, CrossInv, BrowserInv, SlotInv, TypeOK,
      TaskState, Pcs
<1>6. ASSUME NEW r \in Request, RecheckMiss(r) PROVE BrowserInv'
  BY <1>6
  DEF RecheckMiss, Pick, Histories, Unheard, Undestroyed, ThrownAway, Refreshes, Uses,
      SolveInv, Solving, StrandingInv, PlacesInv, CrossInv, BrowserInv, SlotInv, TypeOK,
      TaskState, Pcs
<1>7. ASSUME WarmBegin PROVE BrowserInv'
  BY <1>7
  DEF WarmBegin, Pick, Histories, Unheard, Undestroyed, ThrownAway, Refreshes, Uses, SolveInv,
      Solving, StrandingInv, PlacesInv, CrossInv, BrowserInv, SlotInv, TypeOK, TaskState, Pcs
<1>8. ASSUME NEW t \in Request \cup {Warmer}, LockFilled(t) PROVE BrowserInv'
  BY <1>8
  DEF LockFilled, Histories, Unheard, Undestroyed, ThrownAway, Refreshes, Uses, SolveInv,
      Solving, StrandingInv, PlacesInv, CrossInv, BrowserInv, SlotInv, TypeOK, TaskState, Pcs
<1>9. ASSUME NEW t \in Request \cup {Warmer}, LockEmpty(t) PROVE BrowserInv'
  BY <1>9
  DEF LockEmpty, Goto, Histories, Unheard, Undestroyed, ThrownAway, Refreshes, Uses, SolveInv,
      Solving, StrandingInv, PlacesInv, CrossInv, BrowserInv, SlotInv, TypeOK, TaskState, Pcs
<1>10. ASSUME NEW t \in Request \cup {Warmer}, CreateOk(t) PROVE BrowserInv'
  BY <1>10
  DEF CreateOk, FsCreates, Histories, Unheard, Undestroyed, ThrownAway, Refreshes, Uses,
      SolveInv, Solving, StrandingInv, PlacesInv, CrossInv, BrowserInv, SlotInv, TypeOK,
      TaskState, Pcs
<1>11. ASSUME NEW t \in Request \cup {Warmer}, CreateFails(t) PROVE BrowserInv'
  BY <1>11
  DEF CreateFails, FsCreateFails, Goto, Histories, Unheard, Undestroyed, ThrownAway,
      Refreshes, Uses, SolveInv, Solving, StrandingInv, PlacesInv, CrossInv, BrowserInv,
      SlotInv, TypeOK, TaskState, Pcs
<1>12. ASSUME NEW t \in Request \cup {Warmer}, GetOk(t) PROVE BrowserInv'
  BY <1>12
  DEF GetOk, Finish, Idle, Missing, Histories, Unheard, Undestroyed, ThrownAway, Refreshes,
      Uses, SolveInv, Solving, StrandingInv, PlacesInv, CrossInv, BrowserInv, SlotInv, TypeOK,
      TaskState, Pcs
<1>13. ASSUME NEW t \in Request \cup {Warmer}, GetFails(t) PROVE BrowserInv'
  BY <1>13
  DEF GetFails, Finish, Idle, Histories, Unheard, Undestroyed, ThrownAway, Refreshes, Uses,
      SolveInv, Solving, StrandingInv, PlacesInv, CrossInv, BrowserInv, SlotInv, TypeOK,
      TaskState, Pcs
<1>14. ASSUME NEW t \in Request \cup {Warmer}, GetMissing(t) PROVE BrowserInv'
  BY <1>14
  DEF GetMissing, Missing, Histories, Unheard, Undestroyed, ThrownAway, Refreshes, Uses,
      SolveInv, Solving, StrandingInv, PlacesInv, CrossInv, BrowserInv, SlotInv, TypeOK,
      TaskState, Pcs
<1>15. ASSUME NEW r \in Request, ScanNext(r) PROVE BrowserInv'
  BY <1>15
  DEF ScanNext, Pick, Histories, Unheard, Undestroyed, ThrownAway, Refreshes, Uses, SolveInv,
      Solving, StrandingInv, PlacesInv, CrossInv, BrowserInv, SlotInv, TypeOK, TaskState, Pcs
<1>16. ASSUME NEW r \in Request, Invalidate(r) PROVE BrowserInv'
  <2> DEFINE s == task[r].session
  <2>1. /\ browsers' = browsers /\ slot' = [slot EXCEPT ![IdxOf(r)] = None]
        /\ slot[IdxOf(r)] = s /\ s # None /\ IdxOf(r) \in Slots /\ r # Refresher
        /\ task[r].pc = "scan" /\ task'[Refresher] = task[Refresher]
    BY <1>16 DEF Invalidate, Pick, StrandingInv, BrowserInv, SlotInv, TypeOK, TaskState
  <2>2. s = IdxOf(r)
    BY <2>1 DEF SlotInv
  <2>3. \A q \in Request : task'[q].pc = "scan" => task'[q].session # None
    BY <1>16 DEF Invalidate, Pick, StrandingInv, BrowserInv, SlotInv, TypeOK
  <2>4. excused \cap browsers \subseteq excused' /\ ThrownAway \subseteq excused'
    BY <2>1 DEF Histories
  <2>5. ASSUME s \in browsers PROVE s \in excused'
    <3>1. crossed[r]
      BY <2>1, <2>5 DEF StrandingInv, CrossInv
    <3>2. s \in ThrownAway
      BY <1>16, <2>1, <2>5, <3>1 DEF ThrownAway
    <3> QED BY <2>4, <3>2
  <2>6. ASSUME NEW i \in browsers, i # s
        PROVE  slot'[i] = i \/ i \in excused' \/ (Refreshes(i) /\ task[Refresher].pc = "destroy")'
    <3>1. slot'[i] = slot[i]
      BY <2>1, <2>2, <2>6 DEF SlotInv, TypeOK
    <3>2. slot[i] = i \/ i \in excused \/ (Refreshes(i) /\ task[Refresher].pc = "destroy")
      BY DEF StrandingInv, BrowserInv
    <3> QED BY <2>1, <2>4, <3>1, <3>2 DEF Refreshes
  <2> QED BY <2>1, <2>3, <2>5, <2>6 DEF BrowserInv
<1>17. ASSUME RefreshBegin PROVE BrowserInv'
  BY <1>17
  DEF RefreshBegin, Goto, Histories, Unheard, Undestroyed, ThrownAway, Refreshes, Uses,
      SolveInv, Solving, StrandingInv, PlacesInv, CrossInv, BrowserInv, SlotInv, TypeOK,
      TaskState, Pcs
<1>18. ASSUME Take PROVE BrowserInv'
  BY <1>18
  DEF Take, Goto, Histories, Unheard, Undestroyed, ThrownAway, Refreshes, Uses, SolveInv,
      Solving, StrandingInv, PlacesInv, CrossInv, BrowserInv, SlotInv, TypeOK, TaskState, Pcs
<1>19. ASSUME Destroy PROVE BrowserInv'
  BY <1>19
  DEF Destroy, Goto, Histories, Unheard, Undestroyed, ThrownAway, Refreshes, Uses, SolveInv,
      Solving, StrandingInv, PlacesInv, CrossInv, BrowserInv, SlotInv, TypeOK, TaskState, Pcs
<1>20. ASSUME Recreate PROVE BrowserInv'
  BY <1>20
  DEF Recreate, FsCreates, FsCreateFails, Idle, Histories, Unheard, Undestroyed, ThrownAway,
      Refreshes, Uses, SolveInv, Solving, StrandingInv, PlacesInv, CrossInv, BrowserInv,
      SlotInv, TypeOK, TaskState, Pcs
<1>21. ASSUME NEW r \in Request, Cancel(r) PROVE BrowserInv'
  BY <1>21
  DEF Cancel, Finish, Idle, Histories, Unheard, Undestroyed, ThrownAway, Refreshes, Uses,
      SolveInv, Solving, StrandingInv, PlacesInv, CrossInv, BrowserInv, SlotInv, TypeOK,
      TaskState, Pcs
<1>22. ASSUME FsLoses PROVE BrowserInv'
  BY <1>22
  DEF FsLoses, Histories, Unheard, Undestroyed, ThrownAway, Refreshes, Uses, SolveInv,
      Solving, StrandingInv, PlacesInv, CrossInv, BrowserInv, SlotInv, TypeOK, TaskState, Pcs
<1>23. ASSUME Lapse PROVE BrowserInv'
  BY <1>23
  DEF Lapse, Histories, Unheard, Undestroyed, ThrownAway, Refreshes, Uses, SolveInv, Solving,
      StrandingInv, PlacesInv, CrossInv, BrowserInv, SlotInv, TypeOK, TaskState, Pcs
<1> QED BY <1>1, <1>2, <1>3, <1>4, <1>5, <1>6, <1>7, <1>8, <1>9, <1>10, <1>11, <1>12, <1>13, <1>14, <1>15, <1>16, <1>17, <1>18, <1>19, <1>20, <1>21, <1>22, <1>23
  DEF Running, Fetch, Session, LockSlot, LockScanned, Refresh

LEMMA NextStrandingInv ==
  ASSUME SlotInv, SolveInv, StrandingInv, [StrandingNext]_strandingVars
  PROVE  StrandingInv'
<1>1. CASE Running /\ Histories
  BY <1>1, RunningPlaces, RunningCross, RunningBrowsers DEF StrandingInv
<1>2. CASE Restart /\ crossed' = [r \in Request |-> FALSE] /\ excused' = browsers'
  BY <1>2 DEF Restart, Idle, Refreshes, Uses, StrandingInv, PlacesInv, CrossInv, BrowserInv
<1>3. CASE UNCHANGED strandingVars
  BY <1>3 DEF strandingVars, vars, Refreshes, Uses, StrandingInv, PlacesInv,
              CrossInv, BrowserInv
<1> QED BY <1>1, <1>2, <1>3 DEF StrandingNext, Histories

\* Whatever fails, whoever disconnects and whenever the refresh runs: a browser
\* that FS has is in its slot, or its slot is locked, or it was lost for one of
\* the causes that the pool cannot see.  invalidate_session never empties a slot
\* whose browser lives but for a request that the refresh crossed.
THEOREM BrowsersAreStrandedForCause == StrandingSpec => []StrandedForCause
<1>1. StrandingInit => SlotInv /\ SolveInv /\ StrandingInv
  BY InitSlotInv, InitSolveInv, InitStrandingInv DEF StrandingInit
<1>2. SlotInv /\ SolveInv /\ StrandingInv /\ [StrandingNext]_strandingVars
        => SlotInv' /\ SolveInv' /\ StrandingInv'
  <2>1. [StrandingNext]_strandingVars => [Next]_vars
    BY DEF StrandingNext, Next, strandingVars
  <2> QED BY <2>1, NextSlotInv, NextSolveInv, NextStrandingInv
<1>3. SlotInv /\ StrandingInv => StrandedForCause
  <2>1. ASSUME SlotInv, StrandingInv, NEW i \in browsers, Stranded(i)
        PROVE  i \in excused
    <3>1. i \in Slots
      BY <2>1 DEF SlotInv, TypeOK
    <3>2. ~Refreshes(i)
      BY <2>1, <3>1 DEF StrandingInv, PlacesInv, Stranded, SlotInv, TypeOK
    <3> QED BY <2>1, <3>2 DEF StrandingInv, BrowserInv, Stranded
  <2> QED BY <2>1 DEF StrandedForCause
<1> QED BY <1>1, <1>2, <1>3, PTL DEF StrandingSpec

===============================================================================
