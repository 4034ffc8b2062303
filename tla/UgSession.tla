------------------------------ MODULE UgSession ------------------------------
(***************************************************************************)
(* Ultimate Guitar's FlareSolverr session                                  *)
(* (src/sources/ultimate_guitar.rs): a challenged fetch of Task t, from    *)
(* the direct replay to the text of the tab.  There is one session, created *)
(* on first need under the slot's mutex, and neither a gate nor a retry.   *)
(* An operator of a task leaves the variables of the other components to   *)
(* the module that composes it.                                            *)
(***************************************************************************)
EXTENDS Naturals

CONSTANTS Task, FsFaults, None

VARIABLES
  slot,   \* fs_session: whether it holds the id "ultimateguitar"
  owner,  \* who holds its mutex across sessions.create, or None
  alive,  \* FS has a session of that id
  agent,  \* fs_ua: whether a solve has reported its user agent
  told,   \* history: FS has said that the id in the slot does not exist
  call    \* the running fetches

vars == <<slot, owner, alive, agent, told, call>>

Idle == [pc |-> "idle", session |-> FALSE]
At(t, pc) == call[t].pc = pc
Goto(t, pc) == call' = [call EXCEPT ![t].pc = pc]

TypeOK ==
  /\ {slot, alive, agent, told} \subseteq BOOLEAN
  /\ owner \in Task \cup {None}
  /\ call \in [Task -> [pc : {"idle", "direct", "lock", "create", "get", "page",
                              "ok", "err"}, session : BOOLEAN]]

\* The purge at startup may have failed to destroy a session of an earlier run.
Init ==
  /\ slot = FALSE /\ owner = None /\ agent = FALSE /\ told = FALSE
  /\ alive \in IF FsFaults THEN BOOLEAN ELSE {FALSE}
  /\ call = [t \in Task |-> Idle]

-----------------------------------------------------------------------------
Begin(t) ==
  /\ At(t, "idle")
  /\ Goto(t, "direct")
  /\ UNCHANGED <<slot, owner, alive, agent, told>>

\* try_direct_clearance: only with the user agent of an earlier solve.
DirectHit(t) ==
  /\ At(t, "direct") /\ agent
  /\ Goto(t, "page")
  /\ UNCHANGED <<slot, owner, alive, agent, told>>

DirectMiss(t) ==
  /\ At(t, "direct")
  /\ Goto(t, "lock")
  /\ UNCHANGED <<slot, owner, alive, agent, told>>

\* ensure_fs_session: the id in the slot, or a create under the mutex.
LockFilled(t) ==
  /\ At(t, "lock") /\ owner = None /\ slot
  /\ call' = [call EXCEPT ![t] = [pc |-> "get", session |-> TRUE]]
  /\ UNCHANGED <<slot, owner, alive, agent, told>>

LockEmpty(t) ==
  /\ At(t, "lock") /\ owner = None /\ ~slot
  /\ owner' = t
  /\ Goto(t, "create")
  /\ UNCHANGED <<slot, alive, agent, told>>

CreateOk(t) ==
  /\ At(t, "create") /\ ~alive
  /\ alive' = TRUE /\ slot' = TRUE /\ told' = FALSE /\ owner' = None
  /\ call' = [call EXCEPT ![t] = [pc |-> "get", session |-> TRUE]]
  /\ UNCHANGED agent

\* FS has a session of that name, or it did not do it, or nobody heard: this
\* call goes on without a session.
CreateFails(t) ==
  /\ At(t, "create")
  /\ \/ alive /\ UNCHANGED alive
     \/ FsFaults /\ alive' \in {alive, TRUE}
  /\ owner' = None
  /\ Goto(t, "get")
  /\ UNCHANGED <<slot, agent, told>>

Missing(t) == call[t].session /\ ~alive

GetOk(t) ==
  /\ At(t, "get") /\ ~Missing(t)
  /\ agent' = TRUE
  /\ Goto(t, "page")
  /\ UNCHANGED <<slot, owner, alive, told>>

\* FsError of any kind, SessionMissing among them, or an HTTP status.
GetFails(t) ==
  /\ At(t, "get")
  /\ told' = (told \/ Missing(t))
  /\ Goto(t, "err")
  /\ UNCHANGED <<slot, owner, alive, agent>>

\* fetch_pdf_bytes goes on with the page: the js-store in one of its forms, the
\* tab's content in it, the text laid out as a PDF that is small enough; or not.
Render(t) ==
  /\ At(t, "page")
  /\ \E end \in {"ok", "err"} : Goto(t, end)
  /\ UNCHANGED <<slot, owner, alive, agent, told>>

LockSlot(t) == LockFilled(t) \/ LockEmpty(t)
Step(t) ==
  \/ DirectHit(t) \/ DirectMiss(t)
  \/ CreateOk(t) \/ CreateFails(t) \/ GetOk(t) \/ GetFails(t) \/ Render(t)

\* (Mutant of Drop) The dropped future leaves the mutex locked.
DropLocked(t) ==
  /\ call' = [call EXCEPT ![t] = Idle]
  /\ alive' \in {alive, alive \/ At(t, "create")}
  /\ UNCHANGED <<slot, owner, agent, told>>

\* The caller is done with the result, or its future is dropped and with it the
\* guard; FS may all the same have created the session.
Drop(t) ==
  /\ call' = [call EXCEPT ![t] = Idle]
  /\ owner' = IF owner = t THEN None ELSE owner
  /\ alive' \in {alive, alive \/ At(t, "create")}
  /\ UNCHANGED <<slot, agent, told>>

\* FS is restarted or reaps the browser.
FsLoses ==
  /\ alive /\ alive' = FALSE
  /\ UNCHANGED <<slot, owner, agent, told, call>>

-----------------------------------------------------------------------------
\* On its own: fetches come and go, and FS loses the session.
Next ==
  \/ \E t \in Task : Begin(t) \/ LockSlot(t) \/ Step(t)
  \/ \E t \in Task : ~At(t, "idle") /\ Drop(t)
  \/ FsLoses

Spec == Init /\ [][Next]_vars

\* ultimate_guitar.rs:161, "See MuseScore's ensure_fs_session -- same contract",
\* whose dead ids are cleared so that they are not tried repeatedly
\* (flaresolverr.rs:379-382): once FS has said that the id does not exist, no
\* fetch takes it from the slot again.
DeadIdNotReused == [][\A t \in Task : LockFilled(t) => ~told]_vars

==============================================================================
