------------------------------ MODULE PdfWorker ------------------------------
(***************************************************************************)
(* The PDF worker (musescore-pdf-worker/worker.py) and its client          *)
(* (fetch_pdf_via_worker of src/sources/musescore.rs).  The worker is      *)
(* another process: it serves one request at a time, in the order they     *)
(* came, under its lock, and does not notice that a client has gone.       *)
(***************************************************************************)
EXTENDS Naturals, Sequences

CONSTANTS Task, None,
  QueueBound  \* requests that wait for the lock, the bound of the model

VARIABLES
  queue,    \* who waits for the lock: a task, or None for a client that has gone
  harvest,  \* the request that has the lock: its client, or Free
  browser,  \* "none" or "up": whether the next harvest has a Chrome to run on
  call      \* how far each client is

vars == <<queue, harvest, browser, call>>

Free == [on |-> FALSE, client |-> None]
At(t, pc) == call[t] = pc

TypeOK ==
  /\ queue \in Seq(Task \cup {None}) /\ Len(queue) <= QueueBound
  /\ harvest \in [on : BOOLEAN, client : Task \cup {None}]
  /\ browser \in {"none", "up"}
  /\ call \in [Task -> {"idle", "waiting", "ok", "err"}]

Init ==
  /\ queue = << >> /\ harvest = Free /\ browser = "none"
  /\ call = [t \in Task |-> "idle"]

-----------------------------------------------------------------------------
\* The request reaches the worker, which answers 400 if the id is no number.
Begin(t) ==
  /\ At(t, "idle")
  /\ \/ /\ Len(queue) < QueueBound
        /\ queue' = Append(queue, t)
        /\ call' = [call EXCEPT ![t] = "waiting"]
     \/ /\ call' = [call EXCEPT ![t] = "err"]
        /\ UNCHANGED queue
  /\ UNCHANGED <<harvest, browser>>

\* The lock is handed to the first in line.
Lock ==
  /\ ~harvest.on /\ queue # << >>
  /\ harvest' = [on |-> TRUE, client |-> Head(queue)]
  /\ queue' = Tail(queue)
  /\ UNCHANGED <<browser, call>>

\* The answer, for whoever still waits for it.
Answer(ends) ==
  IF harvest.client = None THEN UNCHANGED call
  ELSE \E end \in ends : call' = [call EXCEPT ![harvest.client] = end]

\* get_browser starts Chrome, in one of three attempts.
Launch ==
  /\ harvest.on /\ browser = "none"
  /\ browser' = "up"
  /\ UNCHANGED <<queue, harvest, call>>

\* They all fail: RuntimeError, 422.
LaunchFails ==
  /\ harvest.on /\ browser = "none"
  /\ Answer({"err"})
  /\ harvest' = Free
  /\ UNCHANGED <<queue, browser>>

\* The pages are there and the lock is released.  The PDF may not be assembled
\* (500), and the client refuses one that is too large.
HarvestOk ==
  /\ harvest.on /\ browser # "none"
  /\ Answer({"ok", "err"})
  /\ harvest' = Free
  /\ UNCHANGED <<queue, browser>>

\* A timeout, a score that cannot be had or any other error; in each case the
\* browser is dropped (reset_browser).
HarvestFails ==
  /\ harvest.on /\ browser # "none"
  /\ browser' = "none"
  /\ Answer({"err"})
  /\ harvest' = Free
  /\ UNCHANGED queue

Worker == Lock \/ Launch \/ LaunchFails \/ HarvestOk \/ HarvestFails

\* The request of t lives on without t.
Abandon(t) ==
  /\ queue' = [i \in DOMAIN queue |-> IF queue[i] = t THEN None ELSE queue[i]]
  /\ harvest' = IF harvest.client = t THEN [harvest EXCEPT !.client = None]
                                      ELSE harvest

\* PDF_WORKER_TIMEOUT.
GiveUp(t) ==
  /\ At(t, "waiting")
  /\ Abandon(t)
  /\ call' = [call EXCEPT ![t] = "err"]
  /\ UNCHANGED browser

\* The caller is done with the result, or the client's future is dropped.
Drop(t) ==
  /\ Abandon(t)
  /\ call' = [call EXCEPT ![t] = "idle"]
  /\ UNCHANGED browser

==============================================================================
