----------------------------- MODULE ReadThrough -----------------------------
(***************************************************************************)
(* What a caller of the search cache is promised, whatever tiers, flights  *)
(* and background refreshes stand behind it.                               *)
(*                                                                         *)
(* An outcome is what the upstream source said of one key at one time:     *)
(* results (ok) or an error.  Outcomes enter only by asking upstream; the  *)
(* system may lose the ones it holds at any time; a call is answered with  *)
(* an outcome for the very key it asked, and of bounded age.  An error is  *)
(* handed on at once or not at all.                                        *)
(***************************************************************************)
EXTENDS Naturals

CONSTANTS
  Task,     \* the calls
  Keys,     \* the searches
  MaxAge,   \* MaxAge[k]: how old results for k may be when they are served
  None

VARIABLES
  now,      \* the clock
  held,     \* the outcomes that are still somewhere in the system
  reply     \* the answer the last step gave to a client, or None

vars == <<now, held, reply>>

Outcome == [key : Keys, at : Nat, ok : BOOLEAN]

\* What upstream may say of k now.
Upstream(k) == {[key |-> k, at |-> now, ok |-> b] : b \in BOOLEAN}

Init == now = 0 /\ held = {} /\ reply = None

\* Time passes.
Pass == now' = now + 1 /\ held' \subseteq held /\ reply' = None

\* Outcomes are lost, and at most one key is asked upstream.
Move ==
  /\ \/ held' \subseteq held
     \/ \E k \in Keys : held' \subseteq held \cup Upstream(k)
  /\ reply' = None
  /\ UNCHANGED now

\* Call t, which asked for k, is answered.
Answer(t, k) ==
  /\ \E v \in held \cup Upstream(k) :
       /\ v.key = k
       /\ now - v.at <= IF v.ok THEN MaxAge[k] ELSE 0
       /\ reply' = [task |-> t, key |-> k, out |-> v]
  /\ held' \subseteq held \cup Upstream(k)
  /\ UNCHANGED now

Next == Pass \/ Move \/ \E t \in Task, k \in Keys : Answer(t, k)

Spec == Init /\ [][Next]_vars

==============================================================================
