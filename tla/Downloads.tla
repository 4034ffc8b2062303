------------------------------- MODULE Downloads -------------------------------
(***************************************************************************)
(* Fetching a PDF, end to end: visitors who open a score (pdf_handler of   *)
(* src/routes/public.rs), admins who add one to the library (library_add   *)
(* of src/routes/admin.rs), and below them the sources, composed here:     *)
(* Ultimate Guitar's session, MuseScore by the worker or, without one, by  *)
(* its own pipeline, and IMSLP and Mutopia, which take one or two plain    *)
(* requests.  Clients disconnect, FlareSolverr loses sessions, MuseScore   *)
(* deploys, and the process restarts while the worker, FlareSolverr, the   *)
(* files and the database live on.                                         *)
(***************************************************************************)
EXTENDS Naturals, Sequences, FiniteSets

CONSTANTS
  Task,    \* the requests that can be running
  None,
  Crowds,  \* what happens in a behaviour: the sources that are asked, whether
           \* MUSESCORE_PDF_WORKER_URL is set, and how many adds are counted,
           \* which bounds the model
  FsFaults, QueueBound, Deploys, SaltIn, Fallback, Pages, Concurrency, Names,
  AddBound

Source == {"imslp", "mutopia", "musescore", "ultimate-guitar"}

ASSUME DownloadsAssumption ==
  /\ IsFiniteSet(Task) /\ None \notin Task
  /\ \A c \in Crowds : /\ c.sources \subseteq Source
                        /\ c.adds \in 0 .. AddBound
                        /\ c.worker \in BOOLEAN
  /\ FsFaults \in BOOLEAN /\ QueueBound \in Nat /\ AddBound \in Nat
  /\ Pages \in Nat \ {0} /\ Concurrency \in Nat \ {0}
  /\ Deploys # << >> /\ Len(Deploys) \in Nat /\ DOMAIN Deploys = 1 .. Len(Deploys)
  /\ \A i \in DOMAIN Deploys : Deploys[i].bundles \in Seq(DOMAIN SaltIn)
  /\ Fallback \in DOMAIN SaltIn /\ SaltIn[Fallback] # None

VARIABLES
  crowd,    \* one of Crowds
  request,  \* what each task is doing
  ugSlot, ugOwner, ugAlive, ugAgent, ugTold, ugCall,
  wkQueue, wkHarvest, wkBrowser, wkCall,
  jmDeploy, jmCached, jmCall,
  lbFile, lbQueue, lbLibrary, lbCall, lbAdds, lbName, lbOpened, lbLost

Ug == INSTANCE UgSession WITH
  slot <- ugSlot, owner <- ugOwner, alive <- ugAlive, agent <- ugAgent,
  told <- ugTold, call <- ugCall
Wk == INSTANCE PdfWorker WITH
  queue <- wkQueue, harvest <- wkHarvest, browser <- wkBrowser, call <- wkCall
Jm == INSTANCE JmusePipeline WITH
  deploy <- jmDeploy, cached <- jmCached, call <- jmCall
Lb == INSTANCE LibraryAdd WITH
  file <- lbFile, queue <- lbQueue, library <- lbLibrary, call <- lbCall,
  adds <- lbAdds, name <- lbName, opened <- lbOpened, lost <- lbLost

own == <<crowd, request>>
ug == <<ugSlot, ugOwner, ugAlive, ugAgent, ugTold, ugCall>>
wk == <<wkQueue, wkHarvest, wkBrowser, wkCall>>
jm == <<jmDeploy, jmCached, jmCall>>
lb == <<lbFile, lbQueue, lbLibrary, lbCall, lbAdds, lbName, lbOpened, lbLost>>
vars == <<own, ug, wk, jm, lb>>

\* add: the PDF is for the library, and not stored yet.
Idle == [pc |-> "idle", add |-> FALSE]
At(t, pc) == request[t].pc = pc
Goto(t, pc) == request' = [request EXCEPT ![t].pc = pc]
\* Which component fetches from source s, or s itself.
By(s) == CASE s = "ultimate-guitar" -> "ug"
           [] s = "musescore" -> IF crowd.worker THEN "wk" ELSE "jm"
           [] OTHER -> s

Init ==
  /\ crowd \in Crowds
  /\ request = [t \in Task |-> Idle]
  /\ Ug!Init /\ Wk!Init /\ Jm!Init /\ Lb!Init

-----------------------------------------------------------------------------
\* pdf_handler for a visitor or library_add for an admin asks a source.
Ask(t, s, add) ==
  /\ At(t, "idle")
  /\ add => lbAdds + Cardinality({u \in Task : request[u].add}) < crowd.adds
  /\ request' = [request EXCEPT ![t] = [pc |-> By(s), add |-> add]]
  /\ UNCHANGED <<crowd, lb>>
  /\ IF By(s) = "ug" THEN Ug!Begin(t) ELSE UNCHANGED ug
  /\ IF By(s) = "wk" THEN Wk!Begin(t) ELSE UNCHANGED wk
  /\ IF By(s) = "jm" THEN Jm!Begin(t) ELSE UNCHANGED jm

Moves(t, pcs) ==
  /\ \E pc \in pcs : Goto(t, pc)
  /\ UNCHANGED <<crowd, ug, wk, jm, lb>>

\* find_pdf_url of IMSLP: the work's page links the PDF itself, or a disclaimer,
\* or another PDF, or nothing, or cannot be had.
FindPdfUrl(t) == At(t, "imslp") /\ Moves(t, {"fetch", "disclaimer", "failed"})

\* Whatever the disclaimer answers, there is an address to try.
PassDisclaimer(t) == At(t, "disclaimer") /\ Moves(t, {"fetch"})

\* What is no PDF or too large is an error.
FetchFromImslp(t) == At(t, "fetch") /\ Moves(t, {"fetched", "failed"})

\* Mutopia's id is the address.
FetchFromMutopia(t) == At(t, "mutopia") /\ Moves(t, {"fetched", "failed"})

Plain(t) == \/ FindPdfUrl(t) \/ PassDisclaimer(t)
            \/ FetchFromImslp(t) \/ FetchFromMutopia(t)

\* The source has an end for t, which leaves it.
Joined(t, ends) ==
  /\ \E end \in ends :
       /\ Goto(t, IF end = "ok" THEN "fetched" ELSE "failed")
       /\ \/ At(t, "ug") /\ Ug!At(t, end)
          \/ At(t, "wk") /\ Wk!At(t, end)
          \/ At(t, "jm") /\ Jm!At(t, end)
  /\ UNCHANGED <<crowd, lb>>
  /\ IF At(t, "ug") THEN Ug!Drop(t) ELSE UNCHANGED ug
  /\ IF At(t, "wk") THEN Wk!Drop(t) ELSE UNCHANGED wk
  /\ IF At(t, "jm") THEN Jm!Drop(t) ELSE UNCHANGED jm

Join(t) == Joined(t, {"ok", "err"})

\* pdf_handler answers with the PDF or sends the visitor to the source; an add
\* that got nothing answers with a message.  Health and the audit row, whose
\* failure is ignored, are written before.
Respond(t) ==
  /\ At(t, "failed") \/ (At(t, "fetched") /\ ~request[t].add)
  /\ request' = [request EXCEPT ![t] = Idle]
  /\ UNCHANGED <<crowd, ug, wk, jm, lb>>

Store(t) ==
  /\ At(t, "fetched") /\ request[t].add
  /\ Lb!Begin(t)
  /\ request' = [request EXCEPT ![t] = [pc |-> "store", add |-> FALSE]]
  /\ UNCHANGED <<crowd, ug, wk, jm>>

Stored(t) ==
  /\ At(t, "store") /\ (Lb!At(t, "ok") \/ Lb!At(t, "err"))
  /\ Lb!Drop(t)
  /\ request' = [request EXCEPT ![t] = Idle]
  /\ UNCHANGED <<crowd, ug, wk, jm>>

\* (Mutant of Disconnect) The source's work goes on without the handler.
DisconnectDetached(t) ==
  /\ ~At(t, "idle")
  /\ request' = [request EXCEPT ![t] = Idle]
  /\ UNCHANGED <<crowd, ug, wk, jm, lb>>

\* The client disconnects and the handler's future is dropped.
Disconnect(t) ==
  /\ ~At(t, "idle")
  /\ request' = [request EXCEPT ![t] = Idle]
  /\ UNCHANGED crowd
  /\ IF At(t, "ug") THEN Ug!Drop(t) ELSE UNCHANGED ug
  /\ IF At(t, "wk") THEN Wk!Drop(t) ELSE UNCHANGED wk
  /\ IF At(t, "jm") THEN Jm!Drop(t) ELSE UNCHANGED jm
  /\ IF At(t, "store") THEN Lb!Drop(t) ELSE UNCHANGED lb

\* The process is killed and starts again.  What the database or FS were asked
\* may be done or not; of a file, only what has been written is there.
Crash ==
  /\ request' = [t \in Task |-> Idle]
  /\ ugSlot' = FALSE /\ ugOwner' = None /\ ugAgent' = FALSE /\ ugTold' = FALSE
  /\ ugCall' = [t \in Task |-> Ug!Idle]
  /\ ugAlive' \in {FALSE, \/ ugAlive /\ FsFaults
                         \/ \E t \in Task : Ug!At(t, "create")}
  /\ wkQueue' = [i \in DOMAIN wkQueue |-> None]
  /\ wkHarvest' = [wkHarvest EXCEPT !.client = None]
  /\ wkCall' = [t \in Task |-> "idle"]
  /\ jmCached' = None /\ jmCall' = [t \in Task |-> Jm!Idle]
  /\ lbCall' = [t \in Task |-> Lb!Idle]
  /\ \E done \in SUBSET {t \in Task : Lb!At(t, "queue")} :
       lbQueue' = lbQueue \cup {lbCall[t].add : t \in done}
  /\ \E done \in SUBSET {t \in Task : Lb!At(t, "library")} :
       lbLibrary' = lbLibrary \cup {lbCall[t].add : t \in done}
  /\ UNCHANGED <<crowd, wkBrowser, jmDeploy, lbFile, lbAdds, lbName,
                 lbOpened, lbLost>>

-----------------------------------------------------------------------------
\* Steps of a component, which leave the others alone.
UgOnly == UNCHANGED <<own, wk, jm, lb>>
WkOnly == UNCHANGED <<own, ug, jm, lb>>
JmOnly == UNCHANGED <<own, ug, wk, lb>>
LbOnly == UNCHANGED <<own, ug, wk, jm>>

UgLock(t) == Ug!LockSlot(t) /\ UgOnly
WkStep == Wk!Worker /\ WkOnly
Proceed(t) ==
  \/ Plain(t) \/ Join(t) \/ Respond(t) \/ Store(t) \/ Stored(t)
  \/ Ug!Step(t) /\ UgOnly
  \/ Wk!GiveUp(t) /\ WkOnly
  \/ Jm!Step(t) /\ JmOnly
  \/ Lb!Step(t) /\ LbOnly

Next ==
  \/ \E t \in Task :
       \/ \E s \in crowd.sources, add \in BOOLEAN : Ask(t, s, add)
       \/ UgLock(t) \/ Proceed(t) \/ Disconnect(t)
  \/ WkStep
  \/ Ug!FsLoses /\ UgOnly
  \/ "musescore" \in crowd.sources /\ Jm!Deploy /\ JmOnly
  \/ Crash

Spec == Init /\ [][Next]_vars

\* Every HTTP call, file operation and query ends, and a client of the worker
\* gives up in the end (PDF_WORKER_TIMEOUT).  Nothing is asked of the worker.
\* The mutex of the session is handed over first come, first served.
Fairness == \A t \in Task : WF_vars(Proceed(t)) /\ SF_vars(UgLock(t))

FairSpec == Spec /\ Fairness

-----------------------------------------------------------------------------
\* Type invariant, and who is where: a task is known to the one component that
\* works for it.
TypeOK ==
  /\ crowd \in Crowds
  /\ Ug!TypeOK /\ Wk!TypeOK /\ Jm!TypeOK /\ Lb!TypeOK
  /\ \A t \in Task :
       /\ request[t].pc \in {"idle", "ug", "wk", "jm", "imslp", "disclaimer",
                             "fetch", "mutopia", "fetched", "failed", "store"}
       /\ request[t].add \in BOOLEAN
       /\ ~Ug!At(t, "idle") <=> At(t, "ug")
       /\ ~Wk!At(t, "idle") <=> At(t, "wk")
       /\ ~Jm!At(t, "idle") <=> At(t, "jm")
       /\ ~Lb!At(t, "idle") <=> At(t, "store")

SaltFromOwnPage == Jm!SaltFromOwnPage
WholeScore == Jm!WholeScore
RowsHaveTheirFile == Lb!RowsHaveTheirFile

\* Every download ends, with a PDF, at the source or with a message: mutexes
\* whose holders disconnect, a worker that may be busy with other clients'
\* scores or hang, lost sessions and restarts stop no request for good.
DownloadsEnd == \A t \in Task : ~At(t, "idle") ~> At(t, "idle")

==============================================================================
