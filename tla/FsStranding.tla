------------------------------ MODULE FsStranding ------------------------------
(***************************************************************************)
(* How the pool of FsSessions loses a browser: the two histories that tell *)
(* why a browser FS has is in no slot.                                     *)
(***************************************************************************)
EXTENDS FsSessions

VARIABLES
  crossed, \* for a request that uses or scans for a session: the refresh has
           \* created that session anew since the request took it
  excused  \* the browsers that were lost for one of the causes below

strandingVars == <<vars, crossed, excused>>

StrandingInit ==
  /\ Init
  /\ crossed = [r \in Request |-> FALSE]
  /\ excused = browsers

Uses(r) == task[r].pc \in {"get", "scan"}

Crosses(r) == Recreate /\ IdxOf(Refresher) = task[r].session

\* FS made a browser that the pool did not hear of: the answer was lost, or the
\* client whose request had asked for it was gone.
Unheard == {i \in browsers' \ browsers : slot'[i] # i}

\* The refresh took a session out of its slot and FS did not destroy it.
Undestroyed == {i \in browsers' : Destroy /\ IdxOf(Refresher) = i}

\* A request found its session missing, and threw away the one the refresh had
\* created under the same id meanwhile.
ThrownAway == {i \in browsers' : \E r \in Request :
                 crossed[r] /\ Invalidate(r) /\ task[r].session = i}

\* At a restart, what the purge leaves.
StrandingNext ==
  \/ /\ Running
     /\ crossed' = [r \in Request |->
                      Uses(r) /\ Uses(r)' /\ (crossed[r] \/ Crosses(r))]
     /\ excused' = (excused \cap browsers') \cup Unheard \cup Undestroyed
                     \cup ThrownAway
  \/ /\ Restart
     /\ crossed' = [r \in Request |-> FALSE]
     /\ excused' = browsers'

StrandingSpec == StrandingInit /\ [][StrandingNext]_strandingVars

-----------------------------------------------------------------------------
\* With the refresh, failing and unanswered calls, lost browsers, disconnects and
\* restarts, a browser is stranded for one of four causes only: an unheard
\* create, a failed destroy (musescore.rs:470), a failed purge, or a request that
\* the refresh crossed (musescore.rs:545).  Requests among themselves and the
\* keep-warm task strand none, though they all use the same ids: the gate
\* (musescore.rs:594) and the slot's lock are enough for them.
StrandedForCause == \A i \in browsers : Stranded(i) => i \in excused

===============================================================================
