------------------------------ MODULE FsSessions ------------------------------
(***************************************************************************)
(* MuseScore's pool of FlareSolverr sessions (src/sources/musescore.rs):   *)
(* the direct fetch, the gate around solving, the slots and their locks,   *)
(* the retry after a lost session, the cookie warm-up, and the nightly     *)
(* refresh.  FlareSolverr ("FS") is another process: it can be restarted,  *)
(* lose a browser, fail a call, or do what it was asked without its answer *)
(* coming back in time.                                                    *)
(*                                                                         *)
(* Slot i always uses the session id "musescore-i", written i here.        *)
(***************************************************************************)
EXTENDS Naturals

CONSTANTS
  Request,     \* the searches and page fetches that can be running at once
  Warmer,      \* the task of spawn_warm_tasks
  Refresher,   \* the task of spawn_session_refresh
  PoolSize,    \* FLARESOLVERR_POOL_SIZE
  Refreshing,  \* the refresh task runs
  FsFaults,    \* calls of sessions.create and sessions.destroy may fail
  Disconnects, \* clients may disconnect in the middle of a request
  None

Slots == 0 .. PoolSize - 1
Task == Request \cup {Warmer, Refresher}

ASSUME PoolAssumption ==
  /\ PoolSize \in Nat \ {0}
  /\ Warmer \notin Request \cup {Refresher}
  /\ Refresher \notin Request
  /\ None \notin Task \cup Slots
  /\ {Refreshing, FsFaults, Disconnects} \subseteq BOOLEAN

VARIABLES
  slot,      \* fs_sessions: the session id in each slot, or None
  owner,     \* who holds the slot's mutex across an await, or None
  cursor,    \* fs_session_cursor, modulo the pool size
  gate,      \* fs_solve_lock: who holds it, or None
  clear,     \* the jar holds a cf_clearance that Cloudflare still accepts
  browsers,  \* the sessions FS has
  task,      \* the running calls
  solves     \* history: solves by challenged requests since clear last lapsed

vars == <<slot, owner, cursor, gate, clear, browsers, task, solves>>

Pcs == {"idle", "direct", "gate", "recheck", "lock", "create", "get", "scan",
        "take", "destroy", "recreate"}

\* blind: the direct fetch failed for a reason other than a challenge.
TaskState == [pc : Pcs, idx : Slots, session : Slots \cup {None},
              retry : BOOLEAN, blind : BOOLEAN]

Idle == [pc |-> "idle", idx |-> 0, session |-> None, retry |-> FALSE,
         blind |-> FALSE]

TypeOK ==
  /\ slot \in [Slots -> Slots \cup {None}]
  /\ owner \in [Slots -> Task \cup {None}]
  /\ cursor \in Slots
  /\ gate \in Request \cup {None}
  /\ clear \in BOOLEAN
  /\ browsers \subseteq Slots
  /\ task \in [Task -> TaskState]
  /\ solves \in 0 .. 2

\* What purge_all_sessions leaves of the browsers of a previous instance: it
\* lists them and destroys each, and only logs what fails.
Purged(b) == IF FsFaults THEN SUBSET b ELSE {{}}

Init ==
  /\ slot = [i \in Slots |-> None]
  /\ owner = [i \in Slots |-> None]
  /\ cursor = 0
  /\ gate = None
  /\ clear = FALSE
  /\ browsers \in Purged(Slots)
  /\ task = [t \in Task |-> Idle]
  /\ solves = 0

-----------------------------------------------------------------------------
At(t, pc) == task[t].pc = pc
IdxOf(t) == task[t].idx
Goto(t, pc) == task' = [task EXCEPT ![t].pc = pc]

\* The call of t is over; its guards are dropped.
Finish(t) ==
  /\ task' = [task EXCEPT ![t] = Idle]
  /\ gate' = IF gate = t THEN None ELSE gate

\* (Mutant of Pick) The cursor is used as it is, past the end of the pool.
PickUnreduced(t, retry, blind) ==
  /\ cursor' = cursor + 1
  /\ task' = [task EXCEPT ![t] =
                [pc |-> "lock", idx |-> cursor, session |-> None,
                 retry |-> retry, blind |-> blind]]

\* acquire_session begins: round robin, then the slot's lock is awaited.
Pick(t, retry, blind) ==
  /\ cursor' = (cursor + 1) % PoolSize
  /\ task' = [task EXCEPT ![t] =
                [pc |-> "lock", idx |-> cursor, session |-> None,
                 retry |-> retry, blind |-> blind]]

-----------------------------------------------------------------------------
\* fetch_html_challenged.  A direct fetch may go through at any time, since
\* Cloudflare does not challenge everybody; without an accepted clearance it
\* may be challenged, and it may always fail for another reason.
Begin(r) ==
  /\ At(r, "idle")
  /\ Goto(r, "direct")
  /\ UNCHANGED <<slot, owner, cursor, gate, clear, browsers, solves>>

DirectHit(r) ==
  /\ At(r, "direct")
  /\ Finish(r)
  /\ UNCHANGED <<slot, owner, cursor, clear, browsers, solves>>

DirectMiss(r) ==
  /\ At(r, "direct")
  /\ Goto(r, "gate")
  /\ UNCHANGED <<slot, owner, cursor, gate, clear, browsers, solves>>

\* (Mutant of EnterGate) Nobody waits for a solve that is under way.
EnterGateAnyway(r) ==
  /\ At(r, "gate")
  /\ gate' = r
  /\ Goto(r, "recheck")
  /\ UNCHANGED <<slot, owner, cursor, clear, browsers, solves>>

EnterGate(r) ==
  /\ At(r, "gate")
  /\ gate = None
  /\ gate' = r
  /\ Goto(r, "recheck")
  /\ UNCHANGED <<slot, owner, cursor, clear, browsers, solves>>

\* The direct fetch again, now that a peer may have solved.
RecheckHit(r) ==
  /\ At(r, "recheck")
  /\ Finish(r)
  /\ UNCHANGED <<slot, owner, cursor, clear, browsers, solves>>

\* (Mutant of RecheckMiss) The gate guards only the decision, not the solve.
RecheckMissLeavingGate(r) ==
  /\ At(r, "recheck")
  /\ Pick(r, FALSE, clear)
  /\ gate' = None
  /\ UNCHANGED <<slot, owner, clear, browsers, solves>>

RecheckMiss(r) ==
  /\ At(r, "recheck")
  /\ Pick(r, FALSE, clear)
  /\ UNCHANGED <<slot, owner, gate, clear, browsers, solves>>

\* force_warm, at startup and every KEEP_WARM_INTERVAL of an active instance.
\* It does not take the gate.
WarmBegin ==
  /\ At(Warmer, "idle")
  /\ Pick(Warmer, FALSE, FALSE)
  /\ UNCHANGED <<slot, owner, gate, clear, browsers, solves>>

-----------------------------------------------------------------------------
\* The slot's lock is free: a session in it is used, and an empty slot is kept
\* locked while a session is created for it.
LockFilled(t) ==
  /\ At(t, "lock")
  /\ owner[IdxOf(t)] = None
  /\ slot[IdxOf(t)] # None
  /\ task' = [task EXCEPT ![t].pc = "get", ![t].session = slot[IdxOf(t)]]
  /\ UNCHANGED <<slot, owner, cursor, gate, clear, browsers, solves>>

LockEmpty(t) ==
  /\ At(t, "lock")
  /\ owner[IdxOf(t)] = None
  /\ slot[IdxOf(t)] = None
  /\ owner' = [owner EXCEPT ![IdxOf(t)] = t]
  /\ Goto(t, "create")
  /\ UNCHANGED <<slot, cursor, gate, clear, browsers, solves>>

\* sessions.create of i at FS succeeds unless FS has a session of that name.
FsCreates(i) == i \notin browsers /\ browsers' = browsers \cup {i}

\* It fails: on the name, or FS did not do it, or did and nobody heard.
FsCreateFails(i) ==
  \/ i \in browsers /\ UNCHANGED browsers
  \/ FsFaults /\ browsers' \in {browsers, browsers \cup {i}}

CreateOk(t) ==
  /\ At(t, "create")
  /\ FsCreates(IdxOf(t))
  /\ slot' = [slot EXCEPT ![IdxOf(t)] = IdxOf(t)]
  /\ owner' = [owner EXCEPT ![IdxOf(t)] = None]
  /\ task' = [task EXCEPT ![t].pc = "get", ![t].session = IdxOf(t)]
  /\ UNCHANGED <<cursor, gate, clear, solves>>

\* The slot stays empty and this call goes on without a session.
CreateFails(t) ==
  /\ At(t, "create")
  /\ FsCreateFails(IdxOf(t))
  /\ owner' = [owner EXCEPT ![IdxOf(t)] = None]
  /\ Goto(t, "get")
  /\ UNCHANGED <<slot, cursor, gate, clear, solves>>

-----------------------------------------------------------------------------
Missing(t) == task[t].session # None /\ task[t].session \notin browsers

\* request.get comes back solved: the cookies and the user agent are kept.
GetOk(t) ==
  /\ At(t, "get")
  /\ ~Missing(t)
  /\ clear' = TRUE
  /\ solves' = IF t \in Request /\ ~task[t].blind /\ solves < 2
                 THEN solves + 1 ELSE solves
  /\ Finish(t)
  /\ UNCHANGED <<slot, owner, cursor, browsers>>

\* It fails, with an HTTP status or another FsError.
GetFails(t) ==
  /\ At(t, "get")
  /\ Finish(t)
  /\ UNCHANGED <<slot, owner, cursor, clear, browsers, solves>>

\* FsError::SessionMissing at the first attempt of a request.
GetMissing(t) ==
  /\ At(t, "get")
  /\ t \in Request
  /\ Missing(t)
  /\ ~task[t].retry
  /\ task' = [task EXCEPT ![t].pc = "scan", ![t].idx = 0]
  /\ UNCHANGED <<slot, owner, cursor, gate, clear, browsers, solves>>

\* invalidate_session: the slots are locked one after the other, and the one
\* that holds the session is emptied.  Then the request tries once more.
ScanNext(t) ==
  /\ At(t, "scan")
  /\ owner[IdxOf(t)] = None
  /\ slot[IdxOf(t)] # task[t].session
  /\ IF IdxOf(t) + 1 < PoolSize
       THEN task' = [task EXCEPT ![t].idx = @ + 1] /\ UNCHANGED cursor
       ELSE Pick(t, TRUE, task[t].blind)
  /\ UNCHANGED <<slot, owner, gate, clear, browsers, solves>>

\* (Mutant of Invalidate) The slot's guard lives on while the retry acquires.
InvalidateHolding(t) ==
  /\ At(t, "scan")
  /\ owner[IdxOf(t)] = None
  /\ slot[IdxOf(t)] = task[t].session
  /\ slot' = [slot EXCEPT ![IdxOf(t)] = None]
  /\ owner' = [owner EXCEPT ![IdxOf(t)] = t]
  /\ Pick(t, TRUE, task[t].blind)
  /\ UNCHANGED <<gate, clear, browsers, solves>>

Invalidate(t) ==
  /\ At(t, "scan")
  /\ owner[IdxOf(t)] = None
  /\ slot[IdxOf(t)] = task[t].session
  /\ slot' = [slot EXCEPT ![IdxOf(t)] = None]
  /\ Pick(t, TRUE, task[t].blind)
  /\ UNCHANGED <<owner, gate, clear, browsers, solves>>

-----------------------------------------------------------------------------
\* spawn_session_refresh: at startup and every night, slot after slot.
RefreshBegin ==
  /\ Refreshing
  /\ At(Refresher, "idle")
  /\ Goto(Refresher, "take")
  /\ UNCHANGED <<slot, owner, cursor, gate, clear, browsers, solves>>

\* refresh_one_session: the lock is held to the end, the old session taken out.
Take ==
  LET i == IdxOf(Refresher) IN
  /\ At(Refresher, "take")
  /\ owner[i] = None
  /\ owner' = [owner EXCEPT ![i] = Refresher]
  /\ slot' = [slot EXCEPT ![i] = None]
  /\ Goto(Refresher, IF slot[i] = None THEN "recreate" ELSE "destroy")
  /\ UNCHANGED <<cursor, gate, clear, browsers, solves>>

\* sessions.destroy; its failure is logged, and a session that does not exist
\* is no failure.
Destroy ==
  /\ At(Refresher, "destroy")
  /\ \/ browsers' = browsers \ {IdxOf(Refresher)}
     \/ FsFaults /\ UNCHANGED browsers
  /\ Goto(Refresher, "recreate")
  /\ UNCHANGED <<slot, owner, cursor, gate, clear, solves>>

Recreate ==
  LET i == IdxOf(Refresher) IN
  /\ At(Refresher, "recreate")
  /\ \/ FsCreates(i) /\ slot' = [slot EXCEPT ![i] = i]
     \/ FsCreateFails(i) /\ UNCHANGED slot
  /\ owner' = [owner EXCEPT ![i] = None]
  /\ task' = [task EXCEPT ![Refresher] =
                IF i + 1 < PoolSize
                  THEN [@ EXCEPT !.pc = "take", !.idx = i + 1] ELSE Idle]
  /\ UNCHANGED <<cursor, gate, clear, solves>>

-----------------------------------------------------------------------------
\* The client disconnects: the future is dropped, and with it the guards.  FS
\* may all the same have done what it was asked.
Cancel(r) ==
  /\ Disconnects
  /\ ~At(r, "idle")
  /\ Finish(r)
  /\ owner' = [i \in Slots |-> IF owner[i] = r THEN None ELSE owner[i]]
  /\ browsers' \in {browsers,
                    IF At(r, "create") THEN browsers \cup {IdxOf(r)}
                                       ELSE browsers}
  /\ UNCHANGED <<slot, cursor, clear, solves>>

\* FS is restarted or reaps browsers.
FsLoses ==
  /\ \E lost \in SUBSET browsers \ {{}} : browsers' = browsers \ lost
  /\ UNCHANGED <<slot, owner, cursor, gate, clear, task, solves>>

\* Cloudflare accepts the clearance no longer.
Lapse ==
  /\ clear
  /\ clear' = FALSE
  /\ solves' = 0
  /\ UNCHANGED <<slot, owner, cursor, gate, browsers, task>>

\* The process is restarted: FS is not, and the purge is all it gets.
Restart ==
  /\ slot' = [i \in Slots |-> None]
  /\ owner' = [i \in Slots |-> None]
  /\ cursor' = 0
  /\ gate' = None
  /\ clear' = FALSE
  /\ browsers' \in Purged(browsers)
  /\ task' = [t \in Task |-> Idle]
  /\ solves' = 0

-----------------------------------------------------------------------------
Fetch(r) == \/ DirectHit(r) \/ DirectMiss(r) \/ RecheckHit(r) \/ RecheckMiss(r)
Session(t) == \/ CreateOk(t) \/ CreateFails(t) \/ GetOk(t) \/ GetFails(t)
              \/ GetMissing(t)
LockSlot(t) == LockFilled(t) \/ LockEmpty(t)
LockScanned(t) == ScanNext(t) \/ Invalidate(t)
Refresh == Destroy \/ Recreate

Running ==
  \/ \E r \in Request :
       Begin(r) \/ Fetch(r) \/ EnterGate(r) \/ LockScanned(r) \/ Cancel(r)
  \/ \E t \in Request \cup {Warmer} : LockSlot(t) \/ Session(t)
  \/ WarmBegin \/ RefreshBegin \/ Take \/ Refresh
  \/ FsLoses \/ Lapse

Next == Running \/ Restart

Spec == Init /\ [][Next]_vars

\* Every HTTP call ends (TIMEOUT, FS_TIMEOUT), and tokio's mutexes are handed
\* over first come, first served: who waits while a lock is freed again and
\* again gets it.
Fairness ==
  /\ \A r \in Request :
       WF_vars(Fetch(r)) /\ SF_vars(EnterGate(r)) /\ SF_vars(LockScanned(r))
  /\ \A t \in Request \cup {Warmer} : SF_vars(LockSlot(t)) /\ WF_vars(Session(t))
  /\ SF_vars(Take) /\ WF_vars(Refresh)

FairSpec == Spec /\ Fairness

-----------------------------------------------------------------------------
\* musescore.rs:208-210: "the first caller [mints] the cf_clearance; the rest
\* wake, replay it via try_direct, and skip FlareSolverr entirely.  Only the
\* leader pays the solve cost": between two lapses at most one challenged
\* request drives FlareSolverr to a solution, whatever the warm-up, the refresh,
\* disconnects and lost sessions do meanwhile.
OneSolvePerLapse == solves <= 1

\* Whoever has begun comes to an end: two kinds of locks, held across calls of
\* FS that take turns with three kinds of tasks, never stop anybody for good.
TasksEnd == \A t \in Task : ~At(t, "idle") ~> At(t, "idle")

\* A browser FS keeps for the pool is out of reach when its slot is empty and
\* nobody is working on it: every create for that slot collides with the name.
Stranded(i) == slot[i] # i /\ owner[i] = None

\* musescore.rs:537-539 of invalidate_session, "called after FS reports
\* SessionMissing so the next acquire for that slot recreates it": what it throws
\* away is "a dead ID", no session that FS has.
InvalidatesDeadOnly ==
  [][\A r \in Request : Invalidate(r) => task[r].session \notin browsers]_vars

\* flaresolverr.rs:379-382, "FS restarted [...] null the slot and retry with a
\* fresh session ID -- much faster than failing the user request": the session a
\* request retries with is one that FS has.
RetriesWithLiveSession ==
  [][\A r \in Request :
       LockFilled(r) /\ task[r].retry => slot[IdxOf(r)] \in browsers]_vars

===============================================================================
