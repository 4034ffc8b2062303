-------------------------- MODULE DownloadsPartsProofs -------------------------
(***************************************************************************)
(* The parts of Downloads, namely the worker and the pipeline of MuseScore *)
(* and the library: which steps of the composition touch each, and an      *)
(* invariant for each that every step of the composition preserves.        *)
(***************************************************************************)
EXTENDS Downloads, TLAPS

USE DownloadsAssumption

-----------------------------------------------------------------------------
(* The worker: who has which place. *)

WkCrash ==
  /\ wkQueue' = [i \in DOMAIN wkQueue |-> None]
  /\ wkHarvest' = [wkHarvest EXCEPT !.client = None]
  /\ wkCall' = [t \in Task |-> "idle"]
  /\ UNCHANGED wkBrowser

\* What a step of the composition is for the worker.
LEMMA WorkerSteps ==
  ASSUME [Next]_vars
  PROVE  \/ \E t \in Task : Wk!Begin(t) \/ Wk!GiveUp(t) \/ Wk!Drop(t)
         \/ Wk!Worker \/ WkCrash \/ UNCHANGED wk
<1>1. ASSUME NEW t \in Task, NEW s, NEW add, Ask(t, s, add)
      PROVE  Wk!Begin(t) \/ UNCHANGED wk
  BY <1>1 DEF Ask
<1>2. ASSUME NEW t \in Task, Proceed(t)
      PROVE  Wk!Drop(t) \/ Wk!GiveUp(t) \/ UNCHANGED wk
  <2>1. CASE Plain(t)
    BY <2>1 DEF Plain, FindPdfUrl, PassDisclaimer, FetchFromImslp, FetchFromMutopia, Moves
  <2>2. CASE Join(t)
    BY <2>2 DEF Join, Joined
  <2>3. CASE Respond(t) \/ Store(t) \/ Stored(t)
    BY <2>3 DEF Respond, Store, Stored
  <2>4. CASE Ug!Step(t) /\ UgOnly
    BY <2>4 DEF UgOnly
  <2>5. CASE Wk!GiveUp(t) /\ WkOnly
    BY <2>5
  <2>6. CASE Jm!Step(t) /\ JmOnly
    BY <2>6 DEF JmOnly
  <2>7. CASE Lb!Step(t) /\ LbOnly
    BY <2>7 DEF LbOnly
  <2> QED BY <1>2, <2>1, <2>2, <2>3, <2>4, <2>5, <2>6, <2>7 DEF Proceed
<1>3. ASSUME NEW t \in Task, Disconnect(t)
      PROVE  Wk!Drop(t) \/ UNCHANGED wk
  BY <1>3 DEF Disconnect
<1>4. ASSUME NEW t \in Task, UgLock(t)
      PROVE  UNCHANGED wk
  BY <1>4 DEF UgLock, UgOnly
<1>5. ASSUME WkStep
      PROVE  Wk!Worker
  BY <1>5 DEF WkStep
<1>6. ASSUME (Ug!FsLoses /\ UgOnly) \/ (Jm!Deploy /\ JmOnly)
      PROVE  UNCHANGED wk
  BY <1>6 DEF UgOnly, JmOnly
<1>7. ASSUME Crash
      PROVE  WkCrash
  BY <1>7 DEF Crash, WkCrash
<1>8. ASSUME UNCHANGED vars
      PROVE  UNCHANGED wk
  BY <1>8 DEF vars
<1> QED BY <1>1, <1>2, <1>3, <1>4, <1>5, <1>6, <1>7, <1>8 DEF Next

Client(t) == wkHarvest.client = t
Queued(t) == \E i \in DOMAIN wkQueue : wkQueue[i] = t
QueuedOnce(t) ==
  \A i, j \in DOMAIN wkQueue : wkQueue[i] = t /\ wkQueue[j] = t => i = j

\* A client has its place once, in the queue or with the lock, exactly while it
\* waits.
WkInv ==
  /\ Wk!TypeOK
  /\ ~wkHarvest.on => wkHarvest.client = None
  /\ \A t \in Task :
       /\ QueuedOnce(t)
       /\ ~(Client(t) /\ Queued(t))
       /\ Wk!At(t, "waiting") <=> Client(t) \/ Queued(t)

LEMMA WorkerInit == Init => WkInv
<1>1. SUFFICES ASSUME Init PROVE WkInv
  OBVIOUS
<1>2. wkQueue = << >> /\ wkHarvest = Wk!Free /\ wkBrowser = "none"
      /\ wkCall = [t \in Task |-> "idle"]
  BY <1>1 DEF Init, Wk!Init
<1>3. Wk!TypeOK
  BY <1>2 DEF Wk!TypeOK, Wk!Free
<1> QED
  BY <1>2, <1>3 DEF WkInv, Wk!Free, Wk!At, Client, Queued, QueuedOnce

\* Nobody has moved to or in the queue.
LEMMA WorkerBegins ==
  ASSUME WkInv, NEW t \in Task, Wk!Begin(t)
  PROVE  WkInv'
<1>1. Wk!TypeOK'
  <2>1. CASE /\ Len(wkQueue) < QueueBound /\ wkQueue' = Append(wkQueue, t)
             /\ wkCall' = [wkCall EXCEPT ![t] = "waiting"]
    <3>1. wkQueue' \in Seq(Task \cup {None}) /\ Len(wkQueue') = Len(wkQueue) + 1
          /\ Len(wkQueue) \in Nat
      BY <2>1 DEF WkInv, Wk!TypeOK
    <3> QED BY <2>1, <3>1 DEF WkInv, Wk!TypeOK, Wk!Begin
  <2>2. CASE UNCHANGED wkQueue /\ wkCall' = [wkCall EXCEPT ![t] = "err"]
    BY <2>2 DEF WkInv, Wk!TypeOK, Wk!Begin
  <2> QED BY <2>1, <2>2 DEF Wk!Begin
<1>2. CASE UNCHANGED wkQueue
  BY <1>1, <1>2 DEF WkInv, Wk!TypeOK, Wk!Begin, Wk!At, Client, Queued, QueuedOnce
<1>3. CASE wkQueue' = Append(wkQueue, t) /\ wkCall' = [wkCall EXCEPT ![t] = "waiting"]
  <2>1. DOMAIN wkQueue = 1 .. Len(wkQueue) /\ Len(wkQueue) \in Nat
    BY DEF WkInv, Wk!TypeOK
  <2>2. /\ DOMAIN wkQueue' = 1 .. Len(wkQueue) + 1
        /\ \A i \in DOMAIN wkQueue : wkQueue'[i] = wkQueue[i]
        /\ wkQueue'[Len(wkQueue) + 1] = t
    BY <1>3, <2>1 DEF WkInv, Wk!TypeOK
  <2>3. ~Client(t) /\ ~Queued(t)
    BY DEF WkInv, Wk!Begin, Wk!At
  <2>4. ASSUME NEW u \in Task
        PROVE  /\ Client(u)' <=> Client(u)
               /\ Queued(u)' <=> Queued(u) \/ u = t
    <3>1. Client(u)' <=> Client(u)
      BY DEF Wk!Begin, Client
    <3>2. DOMAIN wkQueue' = DOMAIN wkQueue \cup {Len(wkQueue) + 1}
      BY <2>1, <2>2
    <3>3. Queued(u)' <=> Queued(u) \/ u = t
      BY <2>2, <3>2 DEF Queued
    <3> QED BY <3>1, <3>3
  <2>5. ASSUME NEW u \in Task PROVE QueuedOnce(u)'
    BY <2>1, <2>2, <2>3 DEF WkInv, Queued, QueuedOnce
  <2>6. ASSUME NEW u \in Task
        PROVE  (Wk!At(u, "waiting") <=> Client(u) \/ Queued(u))'
    BY <1>3, <2>3, <2>4 DEF WkInv, Wk!TypeOK, Wk!At
  <2> QED BY <1>1, <2>3, <2>4, <2>5, <2>6 DEF WkInv, Wk!Begin
<1> QED BY <1>2, <1>3 DEF Wk!Begin

LEMMA WorkerAbandons ==
  ASSUME WkInv, NEW t \in Task, Wk!GiveUp(t) \/ Wk!Drop(t)
  PROVE  WkInv'
<1>1. /\ wkQueue' = [i \in DOMAIN wkQueue |-> IF wkQueue[i] = t THEN None ELSE wkQueue[i]]
      /\ wkHarvest' = IF wkHarvest.client = t THEN [on |-> wkHarvest.on, client |-> None]
                                              ELSE wkHarvest
      /\ wkBrowser' = wkBrowser
  BY DEF WkInv, Wk!TypeOK, Wk!GiveUp, Wk!Drop, Wk!Abandon
<1>2. \E end \in {"idle", "err"} : wkCall' = [wkCall EXCEPT ![t] = end]
  BY DEF Wk!GiveUp, Wk!Drop
<1>3. DOMAIN wkQueue = 1 .. Len(wkQueue) /\ Len(wkQueue) \in Nat
  BY DEF WkInv, Wk!TypeOK
<1>4. wkQueue' \in Seq(Task \cup {None}) /\ Len(wkQueue') = Len(wkQueue)
  BY <1>1, <1>3 DEF WkInv, Wk!TypeOK
<1>5. Wk!TypeOK'
  BY <1>1, <1>2, <1>4 DEF WkInv, Wk!TypeOK
<1>6. ASSUME NEW u \in Task
      PROVE  /\ Client(u)' <=> Client(u) /\ u # t
             /\ Queued(u)' <=> Queued(u) /\ u # t
             /\ QueuedOnce(u)'
             /\ Wk!At(u, "waiting")' <=> Wk!At(u, "waiting") /\ u # t
  BY <1>1, <1>2 DEF WkInv, Wk!TypeOK, Wk!At, Client, Queued, QueuedOnce
<1> QED
  BY <1>1, <1>5, <1>6 DEF WkInv

LEMMA WorkerAnswers ==
  ASSUME WkInv, wkHarvest.on, wkHarvest' = Wk!Free, UNCHANGED wkQueue,
         wkBrowser' \in {"none", "up"}, Wk!Answer({"ok", "err"})
  PROVE  WkInv'
<1>1. CASE wkHarvest.client = None
  BY <1>1 DEF WkInv, Wk!TypeOK, Wk!Answer, Wk!Free, Wk!At, Client, Queued, QueuedOnce
<1>2. CASE wkHarvest.client # None
  <2>1. wkHarvest.client \in Task
    BY <1>2 DEF WkInv, Wk!TypeOK
  <2>2. PICK end \in {"ok", "err"} : wkCall' = [wkCall EXCEPT ![wkHarvest.client] = end]
    BY <1>2 DEF Wk!Answer
  <2>3. Wk!TypeOK'
    BY <2>1, <2>2 DEF WkInv, Wk!TypeOK, Wk!Free
  <2>4. ASSUME NEW u \in Task
        PROVE  /\ ~Client(u)'
               /\ Queued(u)' <=> Queued(u)
               /\ QueuedOnce(u)'
               /\ Wk!At(u, "waiting")' <=> Wk!At(u, "waiting") /\ ~Client(u)
    BY <2>1, <2>2 DEF WkInv, Wk!TypeOK, Wk!Free, Wk!At, Client, Queued, QueuedOnce
  <2> QED BY <2>3, <2>4 DEF WkInv, Wk!Free
<1> QED BY <1>1, <1>2

LEMMA WorkerWorks ==
  ASSUME WkInv, Wk!Worker
  PROVE  WkInv'
<1>1. CASE Wk!Lock
  <2>1. /\ wkQueue \in Seq(Task \cup {None}) /\ wkQueue # << >>
        /\ wkQueue' = Tail(wkQueue) /\ wkHarvest' = [on |-> TRUE, client |-> Head(wkQueue)]
        /\ UNCHANGED <<wkBrowser, wkCall>>
    BY <1>1 DEF WkInv, Wk!TypeOK, Wk!Lock
  <2>2. /\ DOMAIN wkQueue = 1 .. Len(wkQueue) /\ Len(wkQueue) \in Nat \ {0}
        /\ DOMAIN wkQueue' = 1 .. Len(wkQueue) - 1
        /\ \A i \in DOMAIN wkQueue' : wkQueue'[i] = wkQueue[i + 1]
        /\ Head(wkQueue) = wkQueue[1] /\ Head(wkQueue) \in Task \cup {None}
    BY <2>1
  <2>3. Wk!TypeOK'
    BY <2>1, <2>2 DEF WkInv, Wk!TypeOK
  <2>4. ASSUME NEW u \in Task
        PROVE  ~Client(u) /\ (Client(u)' <=> wkQueue[1] = u)
    BY <1>1, <2>1, <2>2 DEF WkInv, Wk!Lock, Client
  <2>5. ASSUME NEW u \in Task
        PROVE  Queued(u) <=> Queued(u)' \/ wkQueue[1] = u
    <3>1. ASSUME NEW i \in DOMAIN wkQueue, i # 1
          PROVE  i - 1 \in DOMAIN wkQueue' /\ wkQueue'[i - 1] = wkQueue[i]
      BY <2>2, <3>1
    <3>2. ASSUME NEW i \in DOMAIN wkQueue'
          PROVE  i + 1 \in DOMAIN wkQueue /\ wkQueue'[i] = wkQueue[i + 1]
      BY <2>2
    <3>3. 1 \in DOMAIN wkQueue
      BY <2>2
    <3> QED BY <3>1, <3>2, <3>3 DEF Queued
  <2>6. ASSUME NEW u \in Task
        PROVE  QueuedOnce(u)' /\ ~(wkQueue[1] = u /\ Queued(u)')
    <3>1. QueuedOnce(u)
      BY DEF WkInv
    <3>2. ASSUME NEW i \in DOMAIN wkQueue'
          PROVE  i + 1 \in DOMAIN wkQueue /\ wkQueue'[i] = wkQueue[i + 1]
                 /\ i \in Nat /\ i # 0
      BY <2>2
    <3>3. 1 \in DOMAIN wkQueue
      BY <2>2
    <3>4. QueuedOnce(u)'
      <4>1. SUFFICES ASSUME NEW i \in DOMAIN wkQueue', NEW j \in DOMAIN wkQueue',
                            wkQueue'[i] = u, wkQueue'[j] = u
                     PROVE  i = j
        BY DEF QueuedOnce
      <4>2. i + 1 = j + 1
        BY <3>1, <3>2, <4>1 DEF QueuedOnce
      <4> QED BY <3>2, <4>2
    <3>5. ASSUME wkQueue[1] = u, NEW i \in DOMAIN wkQueue', wkQueue'[i] = u
          PROVE  FALSE
      <4>1. i + 1 = 1
        BY <3>1, <3>2, <3>3, <3>5 DEF QueuedOnce
      <4> QED BY <3>2, <4>1
    <3> QED BY <3>4, <3>5 DEF Queued
  <2>7. ASSUME NEW u \in Task PROVE Wk!At(u, "waiting")' <=> Wk!At(u, "waiting")
    BY <2>1 DEF Wk!At
  <2> QED BY <2>1, <2>3, <2>4, <2>5, <2>6, <2>7 DEF WkInv
<1>2. CASE Wk!Launch
  BY <1>2 DEF WkInv, Wk!TypeOK, Wk!Launch, Wk!At, Client, Queued, QueuedOnce
<1>3. CASE Wk!LaunchFails
  BY <1>3, WorkerAnswers DEF WkInv, Wk!LaunchFails, Wk!Answer
<1>4. CASE Wk!HarvestOk
  BY <1>4, WorkerAnswers DEF WkInv, Wk!TypeOK, Wk!HarvestOk
<1>5. CASE Wk!HarvestFails
  BY <1>5, WorkerAnswers DEF WkInv, Wk!HarvestFails, Wk!Answer
<1> QED BY <1>1, <1>2, <1>3, <1>4, <1>5 DEF Wk!Worker

LEMMA WorkerSurvives ==
  ASSUME WkInv, WkCrash
  PROVE  WkInv'
<1>1. DOMAIN wkQueue = 1 .. Len(wkQueue) /\ Len(wkQueue) \in Nat
  BY DEF WkInv, Wk!TypeOK
<1>2. wkQueue' \in Seq(Task \cup {None}) /\ Len(wkQueue') = Len(wkQueue)
  BY <1>1 DEF WkCrash
<1>3. wkHarvest' = [on |-> wkHarvest.on, client |-> None]
  BY DEF WkInv, Wk!TypeOK, WkCrash
<1>4. Wk!TypeOK'
  BY <1>2, <1>3 DEF WkInv, Wk!TypeOK, WkCrash
<1> QED
  BY <1>3, <1>4 DEF WkInv, WkCrash, Wk!At, Client, Queued, QueuedOnce

LEMMA WorkerStays ==
  ASSUME WkInv, UNCHANGED wk
  PROVE  WkInv'
BY DEF WkInv, wk, Wk!TypeOK, Wk!At, Client, Queued, QueuedOnce

LEMMA WorkerInductive == WkInv /\ [Next]_vars => WkInv'
BY WorkerSteps, WorkerBegins, WorkerAbandons, WorkerWorks, WorkerSurvives, WorkerStays

-----------------------------------------------------------------------------
(* MuseScore's own pipeline. *)

JmCrash == jmCached' = None /\ jmCall' = [t \in Task |-> Jm!Idle] /\ UNCHANGED jmDeploy

\* What a step of the composition is for the pipeline.
LEMMA PipelineSteps ==
  ASSUME [Next]_vars
  PROVE  \/ \E t \in Task : Jm!Begin(t) \/ Jm!Step(t) \/ Jm!Drop(t)
         \/ Jm!Deploy \/ JmCrash \/ UNCHANGED jm
<1>1. ASSUME NEW t \in Task, NEW s, NEW add, Ask(t, s, add)
      PROVE  Jm!Begin(t) \/ UNCHANGED jm
  BY <1>1 DEF Ask
<1>2. ASSUME NEW t \in Task, Proceed(t)
      PROVE  Jm!Step(t) \/ Jm!Drop(t) \/ UNCHANGED jm
  <2>1. CASE Plain(t)
    BY <2>1 DEF Plain, FindPdfUrl, PassDisclaimer, FetchFromImslp, FetchFromMutopia, Moves
  <2>2. CASE Join(t)
    BY <2>2 DEF Join, Joined
  <2>3. CASE Respond(t) \/ Store(t) \/ Stored(t)
    BY <2>3 DEF Respond, Store, Stored
  <2>4. CASE \/ Ug!Step(t) /\ UgOnly
             \/ Wk!GiveUp(t) /\ WkOnly
             \/ Lb!Step(t) /\ LbOnly
    BY <2>4 DEF UgOnly, WkOnly, LbOnly
  <2> QED BY <1>2, <2>1, <2>2, <2>3, <2>4 DEF Proceed
<1>3. ASSUME NEW t \in Task, Disconnect(t)
      PROVE  Jm!Drop(t) \/ UNCHANGED jm
  BY <1>3 DEF Disconnect
<1>4. ASSUME (\E t \in Task : UgLock(t)) \/ WkStep \/ (Ug!FsLoses /\ UgOnly)
      PROVE  UNCHANGED jm
  BY <1>4 DEF UgLock, UgOnly, WkStep, WkOnly
<1>5. ASSUME Crash
      PROVE  JmCrash
  BY <1>5 DEF Crash, JmCrash
<1>6. ASSUME UNCHANGED vars
      PROVE  UNCHANGED jm
  BY <1>6 DEF vars
<1> QED BY <1>1, <1>2, <1>3, <1>4, <1>5, <1>6 DEF Next

Bundle == DOMAIN SaltIn
JmCall ==
  [pc : {"idle", "page", "cache", "walk", "resolve", "ok", "err"},
   bundles : Seq(Bundle), count : {0, Pages}, static : BOOLEAN,
   next : Nat \ {0}, salts : Seq(Bundle), working : Bundle \cup {None},
   images : Seq(Nat), pngs : Seq(Nat), landed : Seq(Nat), failed : BOOLEAN]
PagesOf(c) == IF c.count = 0 THEN 1 ELSE c.count

\* What one download knows is consistent.
Sound(c) ==
  /\ c \in JmCall
  /\ \A i \in DOMAIN c.salts : c.salts[i] \in Jm!ToSet(c.bundles) \cup {Fallback}
  /\ c.pc = "resolve" => c.next \in DOMAIN c.salts
  /\ c.images = [i \in 1 .. Len(c.images) |-> i - 1]
  /\ Len(c.images) <= PagesOf(c)
  /\ c.pngs = [i \in 1 .. Len(c.pngs) |-> i - 1]
  /\ Len(c.pngs) <= Len(c.images)
  /\ c.pc = "ok" => Len(c.pngs) = PagesOf(c)
  /\ Jm!ToSet(c.landed) \subseteq DOMAIN c.images

JmInv ==
  /\ jmDeploy \in DOMAIN Deploys
  /\ jmCached \in Bundle \cup {None}
  /\ DOMAIN jmCall = Task
  /\ jmCall = [t \in Task |-> jmCall[t]]
  /\ \A t \in Task : Sound(jmCall[t])

LEMMA IdleSound == Sound(Jm!Idle) /\ Sound([Jm!Idle EXCEPT !.pc = "err"])
<1>1. << >> \in Seq(Bundle) /\ << >> \in Seq(Nat) /\ Len(<< >>) = 0
  OBVIOUS
<1>2. 1 \in Nat \ {0}
  OBVIOUS
<1>3. /\ Jm!Idle \in JmCall /\ [Jm!Idle EXCEPT !.pc = "err"] \in JmCall
  BY <1>1, <1>2 DEF JmCall, Jm!Idle
<1>4. << >> = [i \in 1 .. Len(<< >>) |-> i - 1]
  OBVIOUS
<1>5. Jm!ToSet(<< >>) = {}
  BY DEF Jm!ToSet
<1> QED BY <1>1, <1>3, <1>4, <1>5 DEF Sound, PagesOf, Jm!Idle

LEMMA PipelineInit == Init => JmInv
BY IdleSound DEF Init, Jm!Init, JmInv, Bundle

\* A step that replaces what one download knows.
LEMMA OneDownload ==
  ASSUME JmInv, NEW t \in Task, NEW c, Sound(c), jmCall' = [jmCall EXCEPT ![t] = c],
         jmDeploy' = jmDeploy, jmCached' \in Bundle \cup {None}
  PROVE  JmInv'
BY DEF JmInv

LEMMA ResolvingSound ==
  ASSUME NEW c, Sound(c), NEW salts \in Seq(Bundle), 1 \in DOMAIN salts,
         \A i \in DOMAIN salts : salts[i] \in Jm!ToSet(c.bundles) \cup {Fallback}
  PROVE  Sound([c EXCEPT !.pc = "resolve", !.next = 1, !.salts = salts])
<1> DEFINE d == [c EXCEPT !.pc = "resolve", !.next = 1, !.salts = salts]
<1>1. d \in JmCall
  <2>1. c \in JmCall /\ 1 \in Nat \ {0}
    BY DEF Sound
  <2> QED BY <2>1 DEF JmCall
<1>2. /\ d.pc = "resolve" /\ d.next = 1 /\ d.salts = salts /\ d.bundles = c.bundles
      /\ d.count = c.count /\ d.images = c.images
  BY DEF Sound, JmCall
<1> QED BY <1>1, <1>2 DEF Sound, PagesOf

LEMMA CandidateSalts ==
  ASSUME NEW bundle \in Bundle
  PROVE  /\ Jm!Candidates(bundle) \in Seq(Bundle) /\ 1 \in DOMAIN Jm!Candidates(bundle)
         /\ \A i \in DOMAIN Jm!Candidates(bundle) :
              Jm!Candidates(bundle)[i] \in {bundle, Fallback}
<1>1. Fallback \in Bundle
  BY DEF Bundle
<1>2. CASE Jm!Candidates(bundle) = <<bundle>>
  BY <1>2
<1>3. CASE Jm!Candidates(bundle) = <<bundle, Fallback>>
  BY <1>1, <1>3
<1> QED BY <1>2, <1>3 DEF Jm!Candidates

LEMMA ResolvedSound ==
  ASSUME NEW c, Sound(c), c.pc = "resolve", Len(c.images) < PagesOf(c),
         NEW salt \in Bundle \cup {None}
  PROVE  Sound([c EXCEPT !.images = Append(c.images, Len(c.images)), !.working = salt])
<1> DEFINE images == Append(c.images, Len(c.images))
<1>1. /\ c.images \in Seq(Nat) /\ Len(c.images) \in Nat
      /\ DOMAIN c.images = 1 .. Len(c.images)
      /\ \A i \in 1 .. Len(c.images) : c.images[i] = i - 1
  BY DEF Sound, JmCall
<1>2. images \in Seq(Nat) /\ Len(images) = Len(c.images) + 1
  BY <1>1
<1>3. images = [i \in 1 .. Len(images) |-> i - 1]
  BY <1>1, <1>2
<1>4. Len(images) <= PagesOf(c)
  BY <1>1, <1>2 DEF Sound, PagesOf, JmCall
<1> DEFINE d == [c EXCEPT !.images = images, !.working = salt]
<1>5. /\ DOMAIN images = 1 .. Len(c.images) + 1
      /\ DOMAIN c.images \subseteq DOMAIN images /\ Len(c.images) <= Len(images)
  BY <1>1, <1>2
<1> HIDE DEF images
<1>6. d \in JmCall
  BY <1>2 DEF Sound, JmCall
<1>7. /\ d.next = c.next /\ d.salts = c.salts /\ d.bundles = c.bundles /\ d.pc = c.pc
      /\ d.count = c.count /\ d.images = images /\ d.pngs = c.pngs /\ d.landed = c.landed
  BY DEF Sound, JmCall
<1>8. Len(c.pngs) \in Nat /\ Len(c.pngs) <= Len(images)
  BY <1>1, <1>2 DEF Sound, JmCall
<1> HIDE DEF d
<1>9. Sound(d)
  BY <1>3, <1>4, <1>5, <1>6, <1>7, <1>8 DEF Sound, PagesOf
<1> QED BY <1>9 DEF d, images

\* A chunk begins after the images that are joined, and is empty when all are.
LEMMA ChunkProperties ==
  ASSUME NEW t \in Task, Sound(jmCall[t])
  PROVE  /\ Jm!Chunk(t) \subseteq DOMAIN jmCall[t].images
         /\ Jm!Chunk(t) = {} => Len(jmCall[t].pngs) = Len(jmCall[t].images)
<1> DEFINE c == jmCall[t]
<1>1. /\ Len(c.images) \in Nat /\ DOMAIN c.images = 1 .. Len(c.images)
      /\ Len(c.pngs) \in Nat /\ Len(c.pngs) <= Len(c.images)
  BY DEF Sound, JmCall
<1>2. Concurrency \in Nat \ {0}
  BY DownloadsAssumption
<1>3. Jm!Chunk(t) = Len(c.pngs) + 1 .. IF Len(c.pngs) + Concurrency < Len(c.images)
                                       THEN Len(c.pngs) + Concurrency ELSE Len(c.images)
  BY DEF Jm!Chunk, Jm!ChunkEnd, Jm!Index
<1>4. Jm!Chunk(t) = {} => ~(Len(c.pngs) + 1 \in Jm!Chunk(t))
  OBVIOUS
<1> HIDE DEF c
<1>5. Jm!Chunk(t) \subseteq 1 .. Len(c.images)
  BY <1>1, <1>2, <1>3
<1>6. Len(c.pngs) # Len(c.images) => Len(c.pngs) + 1 \in Jm!Chunk(t)
  BY <1>1, <1>2, <1>3
<1>7. Jm!Chunk(t) \subseteq DOMAIN c.images
  BY <1>1, <1>5
<1> QED BY <1>4, <1>6, <1>7 DEF c

LEMMA LandedSound ==
  ASSUME NEW c, Sound(c), NEW i \in DOMAIN c.images, NEW failed \in BOOLEAN
  PROVE  Sound([c EXCEPT !.landed = Append(c.landed, i), !.failed = c.failed \/ failed])
<1> DEFINE landed == Append(c.landed, i)
           d == [c EXCEPT !.landed = landed, !.failed = c.failed \/ failed]
<1>1. /\ c \in JmCall /\ c.landed \in Seq(Nat) /\ c.failed \in BOOLEAN
      /\ Jm!ToSet(c.landed) \subseteq DOMAIN c.images /\ i \in Nat
  BY DEF Sound, JmCall
<1>2. landed \in Seq(Nat)
  BY <1>1
<1>3. Jm!ToSet(landed) \subseteq DOMAIN c.images
  BY <1>1 DEF Jm!ToSet
<1> HIDE DEF landed
<1>4. d \in JmCall
  BY <1>1, <1>2 DEF JmCall
<1>5. /\ d.landed = landed /\ d.pc = c.pc /\ d.salts = c.salts /\ d.bundles = c.bundles
      /\ d.next = c.next /\ d.images = c.images /\ d.pngs = c.pngs /\ d.count = c.count
  BY <1>1 DEF JmCall
<1> HIDE DEF d
<1>6. Sound(d)
  BY <1>3, <1>4, <1>5 DEF Sound, PagesOf
<1> QED BY <1>6 DEF d, landed

LEMMA SliceProperties ==
  ASSUME NEW s \in Seq(Nat), NEW m \in Nat, NEW e \in Nat, m <= e, e <= Len(s)
  PROVE  /\ SubSeq(s, m + 1, e) \in Seq(Nat) /\ Len(SubSeq(s, m + 1, e)) = e - m
         /\ \A i \in 1 .. e - m : SubSeq(s, m + 1, e)[i] = s[m + i]
<1>1. \A i \in m + 1 .. e : i \in 1 .. Len(s) /\ s[i] \in Nat
  OBVIOUS
<1> QED BY <1>1

\* Two sequences of page numbers, the second going on where the first ends.
LEMMA CountsOn ==
  ASSUME NEW s \in Seq(Nat), NEW r \in Seq(Nat), NEW m \in Nat, NEW e \in Nat,
         m <= e, Len(s) = m, Len(r) = e - m,
         \A i \in 1 .. m : s[i] = i - 1,
         \A i \in 1 .. e - m : r[i] = m + i - 1
  PROVE  /\ s \o r \in Seq(Nat) /\ Len(s \o r) = e
         /\ \A i \in 1 .. e : (s \o r)[i] = i - 1
<1>1. s \o r \in Seq(Nat) /\ Len(s \o r) = e
  <2>1. s \o r \in Seq(Nat)
    OBVIOUS
  <2>2. \A x, y \in Seq(Nat) : Len(x \o y) = Len(x) + Len(y)
    BY ONLY SMT
  <2>3. m + (e - m) = e
    OBVIOUS
  <2> QED BY <2>1, <2>2, <2>3
<1>2. ASSUME NEW i \in 1 .. e PROVE (s \o r)[i] = i - 1
  <2>1. CASE i <= m
    BY <2>1
  <2>2. CASE i > m
    <3>1. i - m \in 1 .. e - m /\ (s \o r)[i] = r[i - m]
      <4>1. i - m \in 1 .. e - m
        BY <2>2
      <4>2. i \in Len(s) + 1 .. Len(s) + Len(r)
        BY <2>2
      <4> QED BY <4>1, <4>2, SMTT(30)
    <3>2. r[i - m] = m + (i - m) - 1
      BY <3>1
    <3> QED BY <3>1, <3>2
  <2> QED BY <2>1, <2>2
<1> QED BY <1>1, <1>2

\* A chunk that is complete continues what is joined.
LEMMA JoinedSound ==
  ASSUME NEW t \in Task, Sound(jmCall[t]), jmCall[t].pc = "resolve"
  PROVE  Sound([jmCall[t] EXCEPT !.pngs = jmCall[t].pngs \o Jm!Joined(t),
                                 !.landed = << >>])
<1> DEFINE c == jmCall[t]
           m == Len(c.pngs)
           e == IF m + Concurrency < Len(c.images) THEN m + Concurrency ELSE Len(c.images)
           chunk == SubSeq(c.images, m + 1, e)
           pngs == c.pngs \o chunk
           d == [c EXCEPT !.pngs = pngs, !.landed = << >>]
<1>1. Jm!Joined(t) = chunk
  BY DEF Jm!Joined, Jm!ChunkEnd, Jm!Index
<1>2. /\ c \in JmCall /\ c.images \in Seq(Nat) /\ c.pngs \in Seq(Nat)
      /\ m \in Nat /\ Len(c.images) \in Nat /\ m <= Len(c.images)
      /\ \A i \in 1 .. Len(c.images) : c.images[i] = i - 1
      /\ \A i \in 1 .. m : c.pngs[i] = i - 1
  <2>1. /\ c \in JmCall /\ c.images = [i \in 1 .. Len(c.images) |-> i - 1]
        /\ c.pngs = [i \in 1 .. Len(c.pngs) |-> i - 1] /\ m <= Len(c.images)
    BY DEF Sound
  <2>2. c.images \in Seq(Nat) /\ c.pngs \in Seq(Nat)
    BY <2>1 DEF JmCall
  <2> QED BY <2>1, <2>2
<1>3. e \in Nat /\ m <= e /\ e <= Len(c.images)
  <2>1. Concurrency \in Nat
    BY DownloadsAssumption
  <2>2. \A n \in Nat : m + Concurrency < n \/ n <= m + Concurrency
    BY <1>2, <2>1
  <2> HIDE DEF m, c
  <2> QED BY <1>2, <2>1, <2>2
<1> HIDE DEF e, c, m
<1>4. /\ chunk \in Seq(Nat) /\ Len(chunk) = e - m
      /\ \A i \in 1 .. e - m : chunk[i] = c.images[m + i]
  BY <1>2, <1>3, SliceProperties
<1> HIDE DEF chunk
<1>5. /\ pngs \in Seq(Nat) /\ Len(pngs) = e
      /\ \A i \in 1 .. e : pngs[i] = i - 1
  <2>1. \A i \in 1 .. e - m : chunk[i] = m + i - 1
    BY <1>2, <1>3, <1>4
  <2>2. Len(c.pngs) = m
    BY DEF m
  <2>3. c.pngs \in Seq(Nat) /\ \A i \in 1 .. m : c.pngs[i] = i - 1
    BY <1>2
  <2>4. m \in Nat /\ e \in Nat /\ m <= e
    BY <1>2, <1>3
  <2>5. chunk \in Seq(Nat) /\ Len(chunk) = e - m
    BY <1>4
  <2> QED BY ONLY <2>1, <2>2, <2>3, <2>4, <2>5, CountsOn
<1>6. pngs = [i \in 1 .. Len(pngs) |-> i - 1]
  <2>1. DOMAIN pngs = 1 .. Len(pngs)
        /\ pngs = [i \in DOMAIN pngs |-> pngs[i]]
    BY <1>5
  <2> HIDE DEF pngs
  <2> QED BY <1>5, <2>1
<1> HIDE DEF pngs
<1>7. d \in JmCall
  <2>1. << >> \in Seq(Nat)
    OBVIOUS
  <2> QED BY <1>2, <1>5, <2>1 DEF JmCall
<1>8. /\ d.landed = << >> /\ d.pc = c.pc /\ d.salts = c.salts /\ d.bundles = c.bundles
      /\ d.next = c.next /\ d.images = c.images /\ d.pngs = pngs /\ d.count = c.count
  BY <1>2 DEF JmCall
<1>9. Jm!ToSet(<< >>) = {}
  BY DEF Jm!ToSet
<1>10. Sound(c) /\ c.pc = "resolve"
  BY DEF c
<1> HIDE DEF d
<1>11. Sound(d)
  BY <1>3, <1>5, <1>6, <1>7, <1>8, <1>9, <1>10 DEF Sound, PagesOf
<1> QED BY <1>1, <1>11 DEF d, pngs, c

LEMMA PipelineWorks ==
  ASSUME JmInv, NEW t \in Task, Jm!Begin(t) \/ Jm!Step(t)
  PROVE  JmInv'
<1> DEFINE c == jmCall[t]
           Goes(pc) == [c EXCEPT !.pc = pc]
<1>1. /\ Sound(c) /\ c \in JmCall
      /\ jmCall \in [Task -> JmCall]
      /\ jmDeploy \in DOMAIN Deploys /\ jmCached \in Bundle \cup {None}
  BY DEF JmInv, Sound
<1>2. ASSUME NEW pc \in {"page", "walk"}
      PROVE  Sound(Goes(pc)) /\ (Jm!Goto(t, pc) => jmCall' = [jmCall EXCEPT ![t] = Goes(pc)])
  BY <1>1 DEF Sound, JmCall, PagesOf, Jm!Goto
<1>3. ASSUME Jm!Err(t), UNCHANGED <<jmDeploy, jmCached>> PROVE JmInv'
  BY <1>1, <1>3, IdleSound, OneDownload DEF Jm!Err
<1>4. CASE Jm!Begin(t)
  BY <1>1, <1>2, <1>4, OneDownload DEF Jm!Begin
<1>5. CASE Jm!PageOk(t)
  <2>1. PICK count \in {0, Pages}, static \in BOOLEAN :
          jmCall' = [jmCall EXCEPT ![t] =
             [Jm!Idle EXCEPT !.pc = "cache", !.count = count, !.static = static,
                             !.bundles = Deploys[jmDeploy].bundles]]
    BY <1>5 DEF Jm!PageOk
  <2>2. Deploys[jmDeploy].bundles \in Seq(Bundle)
    BY <1>1 DEF Bundle
  <2> DEFINE d == [Jm!Idle EXCEPT !.pc = "cache", !.count = count, !.static = static,
                                  !.bundles = Deploys[jmDeploy].bundles]
  <2>3. Jm!Idle \in JmCall
    BY IdleSound DEF Sound
  <2>4. d \in JmCall
    BY <2>2, <2>3 DEF JmCall
  <2>5. /\ d.pc = "cache" /\ d.salts = << >> /\ d.images = << >> /\ d.count \in {0, Pages}
        /\ d.pngs = << >> /\ d.landed = << >>
    BY DEF Jm!Idle
  <2>6. << >> = [i \in 1 .. Len(<< >>) |-> i - 1] /\ Len(<< >>) = 0 /\ DOMAIN << >> = {}
    OBVIOUS
  <2>7. Jm!ToSet(<< >>) = {}
    BY DEF Jm!ToSet
  <2>8. 0 <= PagesOf(d)
    BY <2>5, DownloadsAssumption DEF PagesOf
  <2> HIDE DEF d
  <2>9. Sound(d)
    BY <2>4, <2>5, <2>6, <2>7, <2>8 DEF Sound
  <2> QED BY <1>1, <1>5, <2>1, <2>9, OneDownload DEF Jm!PageOk, d
<1>6. CASE Jm!PageFails(t)
  BY <1>3, <1>6 DEF Jm!PageFails
<1>7. CASE Jm!CacheHit(t)
  <2>1. jmCached \in Jm!ToSet(c.bundles) /\ jmCached \in Bundle
    BY <1>1, <1>7 DEF Jm!CacheHit, Jm!CacheHits, Jm!ToSet, JmCall
  <2>2. jmCall' = [jmCall EXCEPT ![t] = [c EXCEPT !.pc = "resolve", !.next = 1,
                                                  !.salts = Jm!Candidates(jmCached)]]
    BY <1>1, <1>7 DEF Jm!CacheHit, Jm!Resolving, JmCall
  <2> QED BY <1>1, <1>7, <2>1, <2>2, CandidateSalts, ResolvingSound, OneDownload DEF Jm!CacheHit
<1>8. CASE Jm!CacheMiss(t)
  BY <1>1, <1>2, <1>8, OneDownload DEF Jm!CacheMiss
<1>9. CASE Jm!WalkFound(t)
  <2> DEFINE bundle == c.bundles[c.next]
  <2>1. bundle \in Jm!ToSet(c.bundles) /\ bundle \in Bundle
    BY <1>1, <1>9 DEF Jm!WalkFound, Jm!ToSet, JmCall
  <2>2. /\ jmCall' = [jmCall EXCEPT ![t] = [c EXCEPT !.pc = "resolve", !.next = 1,
                                                     !.salts = Jm!Candidates(bundle)]]
        /\ jmCached' = bundle /\ jmDeploy' = jmDeploy
    BY <1>1, <1>9 DEF Jm!WalkFound, Jm!Resolving, JmCall
  <2> QED BY <1>1, <2>1, <2>2, CandidateSalts, ResolvingSound, OneDownload
<1>10. CASE Jm!WalkNext(t)
  <2> DEFINE d == [c EXCEPT !.next = c.next + 1]
  <2>1. c.next + 1 \in Nat \ {0} /\ c.pc = "walk"
    BY <1>1, <1>10 DEF Jm!WalkNext, Jm!At, JmCall
  <2>2. d \in JmCall
    BY <1>1, <2>1 DEF JmCall
  <2>3. Sound(d)
    BY <1>1, <2>1, <2>2 DEF Sound, JmCall, PagesOf
  <2>4. jmCall' = [jmCall EXCEPT ![t] = d]
    BY <1>1, <1>10 DEF Jm!WalkNext, JmCall
  <2> QED BY <1>1, <1>10, <2>3, <2>4, OneDownload DEF Jm!WalkNext
<1>11. CASE Jm!WalkEnds(t)
  <2> DEFINE d == [c EXCEPT !.pc = "resolve", !.next = 1, !.salts = <<Fallback>>]
  <2>1. <<Fallback>> \in Seq(Bundle) /\ DOMAIN <<Fallback>> = {1} /\ <<Fallback>>[1] = Fallback
    BY DEF Bundle
  <2>2. Sound(d)
    BY <1>1, <2>1, ResolvingSound
  <2>3. jmCall' = [jmCall EXCEPT ![t] = d]
    BY <1>1, <1>11 DEF Jm!WalkEnds, Jm!Resolving, JmCall
  <2> QED BY <1>1, <1>11, <2>2, <2>3, OneDownload DEF Jm!WalkEnds
<1>12. ASSUME c.pc = "resolve", Len(c.images) < PagesOf(c),
              NEW salt \in Bundle \cup {None}, Jm!Resolved(t, salt),
              UNCHANGED <<jmDeploy, jmCached>>
       PROVE  JmInv'
  <2>1. jmCall' = [jmCall EXCEPT ![t] = [c EXCEPT !.images = Append(c.images, Len(c.images)),
                                                  !.working = salt]]
    BY <1>1, <1>12 DEF Jm!Resolved, Jm!Index, JmCall
  <2> QED BY <1>1, <1>12, <2>1, ResolvedSound, OneDownload
<1>13. CASE Jm!ResolveStatic(t)
  <2>1. Len(c.images) < PagesOf(c)
    BY <1>1, <1>13 DEF Jm!ResolveStatic, Jm!Index, PagesOf, JmCall
  <2> QED BY <1>12, <1>13, <2>1 DEF Jm!ResolveStatic, Jm!At
<1>14. ASSUME Jm!AsksJmuse(t)
       PROVE  /\ c.pc = "resolve" /\ Len(c.images) < PagesOf(c)
              /\ Jm!SaltToTry(t) \in Bundle /\ c.next \in DOMAIN c.salts
  <2>1. c.pc = "resolve" /\ c.next \in DOMAIN c.salts /\ c.salts \in Seq(Bundle)
    BY <1>1, <1>14 DEF Jm!AsksJmuse, Jm!At, Sound, JmCall
  <2>2. c.salts[c.next] \in Bundle
    BY <2>1
  <2>3. Jm!SaltToTry(t) \in Bundle
    BY <1>1, <2>2 DEF Jm!SaltToTry, JmCall
  <2>4. Len(c.images) < PagesOf(c)
    BY <1>14 DEF Jm!AsksJmuse, Jm!Index, Jm!Count, PagesOf
  <2> QED BY <2>1, <2>3, <2>4
<1>15. CASE Jm!JmuseOk(t)
  BY <1>12, <1>14, <1>15 DEF Jm!JmuseOk
<1>16. CASE Jm!JmuseFails(t)
  <2>1. CASE Jm!Err(t)
    BY <1>3, <1>16, <2>1 DEF Jm!JmuseFails
  <2>2. CASE c.next < Len(c.salts) /\ jmCall' = [jmCall EXCEPT ![t].next = @ + 1]
    <3> DEFINE d == [c EXCEPT !.next = c.next + 1]
    <3>1. c.next + 1 \in DOMAIN c.salts /\ c.next + 1 \in Nat \ {0}
      <4>1. c.next \in DOMAIN c.salts
        BY <1>14, <1>16 DEF Jm!JmuseFails
      <4>2. c.salts \in Seq(Bundle) /\ c.next \in Nat \ {0}
        BY <1>1 DEF JmCall
      <4>3. c.next < Len(c.salts)
        BY <2>2
      <4> HIDE DEF c
      <4> QED BY ONLY <4>1, <4>2, <4>3
    <3>2. d \in JmCall
      BY <1>1, <3>1 DEF JmCall
    <3>3. /\ d.next = c.next + 1 /\ d.salts = c.salts /\ d.bundles = c.bundles
          /\ d.count = c.count /\ d.images = c.images /\ d.pngs = c.pngs
          /\ d.landed = c.landed /\ d.pc = c.pc
      <4>1. c \in JmCall
        BY <1>1
      <4> HIDE DEF c
      <4> QED BY <4>1 DEF JmCall
    <3>4. Sound(d)
      <4> HIDE DEF d
      <4> QED BY <1>1, <1>14, <1>16, <3>1, <3>2, <3>3 DEF Sound, PagesOf, Jm!JmuseFails
    <3>5. jmCall' = [jmCall EXCEPT ![t] = d]
      <4>1. jmCall[t] \in JmCall
        BY <1>1
      <4>2. [jmCall[t] EXCEPT !.next = @ + 1] = d
        OBVIOUS
      <4> QED BY <2>2, <4>2
    <3> QED BY <1>1, <1>16, <3>4, <3>5, OneDownload DEF Jm!JmuseFails
  <2> QED BY <1>16, <2>1, <2>2 DEF Jm!JmuseFails
<1>17. CASE Jm!ImageLands(t)
  <2>1. PICK i \in Jm!Chunk(t), failed \in BOOLEAN :
          jmCall' = [jmCall EXCEPT ![t].landed = Append(@, i),
                                   ![t].failed = @ \/ failed]
    BY <1>17 DEF Jm!ImageLands
  <2>2. i \in DOMAIN c.images
    BY <1>1, ChunkProperties DEF Sound
  <2>3. Sound([c EXCEPT !.landed = Append(c.landed, i), !.failed = c.failed \/ failed])
    BY <1>1, <2>2, LandedSound
  <2>4. jmCall' = [jmCall EXCEPT ![t] = [c EXCEPT !.landed = Append(c.landed, i),
                                                  !.failed = c.failed \/ failed]]
    BY <1>1, <2>1 DEF JmCall
  <2> QED BY <1>1, <1>17, <2>3, <2>4, OneDownload DEF Jm!ImageLands
<1>18. CASE Jm!JoinChunk(t)
  <2>1. CASE Jm!Err(t)
    BY <1>3, <1>18, <2>1 DEF Jm!JoinChunk
  <2>2. CASE jmCall' = [jmCall EXCEPT ![t].pngs = @ \o Jm!Joined(t), ![t].landed = << >>]
    <3>1. Sound([c EXCEPT !.pngs = c.pngs \o Jm!Joined(t), !.landed = << >>])
      BY <1>1, <1>18, JoinedSound DEF Jm!JoinChunk, Jm!Fetching, Jm!At
    <3>2. jmCall' = [jmCall EXCEPT ![t] = [c EXCEPT !.pngs = c.pngs \o Jm!Joined(t),
                                                    !.landed = << >>]]
      BY <1>1, <2>2 DEF JmCall
    <3> QED BY <1>1, <1>18, <3>1, <3>2, OneDownload DEF Jm!JoinChunk
  <2> QED BY <1>18, <2>1, <2>2 DEF Jm!JoinChunk
<1>19. CASE Jm!Assemble(t)
  <2>1. CASE Jm!Goto(t, "ok")
    <3>1. jmCall' = [jmCall EXCEPT ![t] = Goes("ok")]
      BY <1>1, <2>1 DEF Jm!Goto, JmCall
    <3>2. Len(c.pngs) = PagesOf(c)
      <4>1. Len(c.images) = PagesOf(c) /\ Jm!Chunk(t) = {}
        BY <1>19 DEF Jm!Assemble, Jm!Fetching, Jm!Index, Jm!Count, PagesOf
      <4> QED BY <1>1, <4>1, ChunkProperties
    <3>3. Sound(Goes("ok"))
      BY <1>1, <3>2 DEF Sound, JmCall, PagesOf
    <3> QED BY <1>1, <1>19, <3>1, <3>3, OneDownload DEF Jm!Assemble
  <2> QED BY <1>3, <1>19, <2>1 DEF Jm!Assemble
<1> QED
  BY <1>4, <1>5, <1>6, <1>7, <1>8, <1>9, <1>10, <1>11, <1>13, <1>15, <1>16, <1>17,
     <1>18, <1>19
  DEF Jm!Step

LEMMA PipelineInductive == JmInv /\ [Next]_vars => JmInv'
<1>1. SUFFICES ASSUME JmInv, [Next]_vars PROVE JmInv'
  OBVIOUS
<1>2. ASSUME NEW t \in Task, Jm!Drop(t) PROVE JmInv'
  BY <1>1, <1>2, IdleSound, OneDownload DEF Jm!Drop, JmInv
<1>3. CASE Jm!Deploy
  BY <1>1, <1>3 DEF Jm!Deploy, JmInv
<1>4. CASE JmCrash
  BY <1>1, <1>4, IdleSound DEF JmCrash, JmInv
<1>5. CASE UNCHANGED jm
  BY <1>1, <1>5 DEF jm, JmInv
<1> QED BY <1>1, <1>2, <1>3, <1>4, <1>5, PipelineSteps, PipelineWorks

LEMMA PipelineTypes == JmInv => Jm!TypeOK
<1>1. SUFFICES ASSUME JmInv PROVE Jm!TypeOK
  OBVIOUS
<1>2. ASSUME NEW t \in Task
      PROVE  /\ jmCall[t].pc \in {"idle", "page", "cache", "walk", "resolve", "ok", "err"}
             /\ jmCall[t].count \in {0, Pages}
             /\ jmCall[t].salts \in Seq(DOMAIN SaltIn)
             /\ Len(jmCall[t].images) <= Pages
             /\ Jm!ToSet(jmCall[t].landed) \subseteq DOMAIN jmCall[t].images
  <2>1. jmCall[t] \in JmCall /\ Len(jmCall[t].images) <= PagesOf(jmCall[t])
        /\ Jm!ToSet(jmCall[t].landed) \subseteq DOMAIN jmCall[t].images
    BY <1>1 DEF JmInv, Sound
  <2>2. Len(jmCall[t].images) \in Nat
    BY <2>1 DEF JmCall
  <2> QED BY <2>1, <2>2 DEF JmCall, PagesOf, Bundle
<1> QED BY <1>1, <1>2 DEF JmInv, Bundle, Jm!TypeOK

LEMMA PipelineSalts == JmInv => Jm!SaltFromOwnPage
BY DEF JmInv, Sound, Jm!SaltFromOwnPage

LEMMA PipelineScore == JmInv => Jm!WholeScore
BY DEF JmInv, Sound, JmCall, PagesOf, Jm!WholeScore, Jm!At

-----------------------------------------------------------------------------
(* Which steps touch the library. *)

LbCrash ==
  /\ lbCall' = [t \in Task |-> Lb!Idle]
  /\ \E done \in SUBSET {t \in Task : Lb!At(t, "queue")} :
       lbQueue' = lbQueue \cup {lbCall[t].add : t \in done}
  /\ \E done \in SUBSET {t \in Task : Lb!At(t, "library")} :
       lbLibrary' = lbLibrary \cup {lbCall[t].add : t \in done}
  /\ UNCHANGED <<lbFile, lbAdds, lbName, lbOpened, lbLost>>

LEMMA StoreSteps ==
  ASSUME [Next]_vars
  PROVE  \/ \E t \in Task : Lb!Begin(t) \/ Lb!Step(t) \/ Lb!Drop(t)
         \/ LbCrash \/ UNCHANGED lb
<1>1. ASSUME NEW t \in Task, NEW s, NEW add, Ask(t, s, add)
      PROVE  UNCHANGED lb
  BY <1>1 DEF Ask
<1>2. ASSUME NEW t \in Task, Proceed(t)
      PROVE  Lb!Begin(t) \/ Lb!Step(t) \/ Lb!Drop(t) \/ UNCHANGED lb
  <2>1. CASE Plain(t)
    BY <2>1 DEF Plain, FindPdfUrl, PassDisclaimer, FetchFromImslp, FetchFromMutopia, Moves
  <2>2. CASE Join(t)
    BY <2>2 DEF Join, Joined
  <2>3. CASE Respond(t) \/ Store(t) \/ Stored(t)
    BY <2>3 DEF Respond, Store, Stored
  <2>4. CASE \/ Ug!Step(t) /\ UgOnly
             \/ Wk!GiveUp(t) /\ WkOnly
             \/ Jm!Step(t) /\ JmOnly
    BY <2>4 DEF UgOnly, WkOnly, JmOnly
  <2>5. CASE Lb!Step(t)
    BY <2>5
  <2> QED BY <1>2, <2>1, <2>2, <2>3, <2>4, <2>5 DEF Proceed
<1>3. ASSUME NEW t \in Task, Disconnect(t)
      PROVE  Lb!Drop(t) \/ UNCHANGED lb
  BY <1>3 DEF Disconnect
<1>4. ASSUME \/ \E t \in Task : UgLock(t)
             \/ WkStep
             \/ Ug!FsLoses /\ UgOnly
             \/ Jm!Deploy /\ JmOnly
      PROVE  UNCHANGED lb
  BY <1>4 DEF UgLock, UgOnly, WkStep, WkOnly, JmOnly
<1>5. ASSUME Crash
      PROVE  LbCrash
  BY <1>5 DEF Crash, LbCrash
<1>6. ASSUME UNCHANGED vars
      PROVE  UNCHANGED lb
  BY <1>6 DEF vars
<1> QED BY <1>1, <1>2, <1>3, <1>4, <1>5, <1>6 DEF Next

-----------------------------------------------------------------------------
(* The inductive invariant. *)

LbPcs == {"idle", "create", "write", "flush", "queue", "library", "ok", "err"}
Chunks(k) == {<< >>} \cup {<<a>> : a \in 0 .. k} \cup {<<a, b>> : a, b \in 0 .. k}

LbTypes ==
  /\ lbAdds \in Nat
  /\ lbName \in [1 .. lbAdds -> Names]
  /\ lbFile \in [Names -> Chunks(lbAdds) \cup {None}]
  /\ lbOpened \in [Names -> SUBSET (1 .. lbAdds)]
  /\ \A n \in Names : lbOpened[n] # {} => lbFile[n] \in Chunks(lbAdds)
  /\ lbQueue \subseteq 1 .. lbAdds /\ lbLibrary \subseteq 1 .. lbAdds
  /\ lbLost \subseteq 1 .. lbAdds
  /\ lbCall \in [Task -> [pc : LbPcs, add : 0 .. lbAdds]]

\* Every running add has a task of its own.
OwnAdds ==
  \A t \in Task : ~Lb!At(t, "idle") =>
    /\ lbCall[t].add # 0
    /\ \A u \in Task : ~Lb!At(u, "idle") /\ lbCall[u].add = lbCall[t].add => u = t

\* Nobody else has opened the file of add a.
Only(a) == lbOpened[lbName[a]] = {a}
Whole(a) == Only(a) /\ a \notin lbLost => lbFile[lbName[a]] = <<a, a>>

\* What is in the file of an add, as far as it has come.
Progress(t, a) ==
  /\ lbCall[t].pc \in {"create", "write", "flush"} => a \notin lbLibrary
  /\ lbCall[t].pc \in {"write", "flush"} => a \in lbOpened[lbName[a]]
  /\ Lb!At(t, "write") /\ Only(a) => lbFile[lbName[a]] = << >>
  /\ Lb!At(t, "flush") /\ Only(a) => lbFile[lbName[a]] = <<a>>
  /\ lbCall[t].pc \in {"queue", "library", "ok"} => Whole(a)
  /\ lbCall[t].pc \in {"library", "ok"} => a \in lbQueue

LbInv ==
  /\ LbTypes /\ OwnAdds
  /\ \A t \in Task : Progress(t, lbCall[t].add)
  /\ \A a \in lbLibrary : a \in lbQueue /\ Whole(a)

LEMMA StoreInit == Init => LbInv
<1>1. SUFFICES ASSUME Init PROVE LbInv
  OBVIOUS
<1>2. LbTypes
  BY <1>1 DEF Init, Lb!Init, Lb!Idle, LbTypes, LbPcs
<1> QED
  BY <1>1, <1>2 DEF Init, Lb!Init, Lb!Idle, Lb!At, LbInv, OwnAdds, Progress

-----------------------------------------------------------------------------
LEMMA StoreBegins ==
  ASSUME LbInv, NEW t \in Task, Lb!Begin(t)
  PROVE  LbInv'
<1> DEFINE a == lbAdds + 1
<1>1. PICK n \in Names : lbName' = Append(lbName, n)
  BY DEF Lb!Begin
<1>2. LbTypes
  BY DEF LbInv
<1>3. /\ lbAdds' = a /\ lbCall' = [lbCall EXCEPT ![t] = [pc |-> "create", add |-> a]]
      /\ UNCHANGED <<lbFile, lbQueue, lbLibrary, lbOpened, lbLost>>
  BY DEF Lb!Begin
<1>4. /\ lbName' \in [1 .. a -> Names]
      /\ \A b \in 1 .. lbAdds : lbName'[b] = lbName[b]
  <2>1. lbName \in Seq(Names) /\ Len(lbName) = lbAdds /\ lbAdds \in Nat
    BY <1>2 DEF LbTypes
  <2>2. lbName' \in Seq(Names) /\ Len(lbName') = a
        /\ \A b \in 1 .. lbAdds : lbName'[b] = lbName[b]
    BY <1>1, <2>1
  <2> QED BY <2>2
<1>5. Chunks(lbAdds) \subseteq Chunks(a)
  BY <1>2 DEF LbTypes, Chunks
<1>6. LbTypes'
  BY <1>2, <1>3, <1>4, <1>5 DEF LbTypes, LbPcs
<1>7. OwnAdds'
  BY <1>2, <1>3 DEF LbInv, LbTypes, OwnAdds, Lb!At
<1>8. \A b \in 1 .. lbAdds : (Only(b)' <=> Only(b)) /\ (Whole(b)' <=> Whole(b))
  BY <1>2, <1>3, <1>4 DEF Only, Whole
<1>9. ASSUME NEW u \in Task PROVE Progress(u, lbCall[u].add)'
  <2>1. CASE u = t
    BY <1>2, <1>3, <2>1 DEF LbTypes, Progress, Lb!At
  <2>2. CASE u # t
    <3>1. lbCall'[u] = lbCall[u] /\ Progress(u, lbCall[u].add)
      BY <1>2, <1>3, <2>2 DEF LbInv, LbTypes
    <3>2. CASE lbCall[u].pc = "idle"
      BY <3>1, <3>2 DEF Progress, Lb!At
    <3>3. CASE lbCall[u].pc # "idle"
      <4>1. lbCall[u].add \in 1 .. lbAdds
        BY <1>2, <3>3 DEF LbInv, LbTypes, OwnAdds, Lb!At
      <4> QED BY <1>3, <1>4, <1>8, <3>1, <4>1 DEF Progress, Lb!At
    <3> QED BY <3>2, <3>3
  <2> QED BY <2>1, <2>2
<1>10. \A b \in lbLibrary' : (b \in lbQueue /\ Whole(b))'
  BY <1>2, <1>3, <1>8 DEF LbInv, LbTypes
<1> QED BY <1>6, <1>7, <1>9, <1>10 DEF LbInv

-----------------------------------------------------------------------------
\* A step of t that changes its file, of which it is sure to have opened it now,
\* and goes on.
Opens(t, chunks, c) ==
  /\ lbFile' = [lbFile EXCEPT ![Lb!FileOf(t)] = chunks]
  /\ lbOpened' = [lbOpened EXCEPT ![Lb!FileOf(t)] = @ \cup {lbCall[t].add}]
  /\ lbCall' = [lbCall EXCEPT ![t] = c]
  /\ UNCHANGED <<lbQueue, lbLibrary, lbAdds, lbName, lbLost>>

\* What is expected of the file at the place t goes to.
Alone(t) == lbOpened[Lb!FileOf(t)] \cup {lbCall[t].add} = {lbCall[t].add}
Fits(t, chunks, c) ==
  \/ c = Lb!Idle
  \/ /\ c.add = lbCall[t].add
     /\ \/ c.pc = "write" /\ chunks = << >>
        \/ c.pc = "flush" /\ (Alone(t) => chunks = <<c.add>>)
        \/ c.pc = "queue" /\ (Alone(t) => chunks = <<c.add, c.add>>)

LEMMA FileChanges ==
  ASSUME LbInv, NEW t \in Task, lbCall[t].pc \in {"create", "write", "flush"},
         NEW chunks \in Chunks(lbAdds), NEW c \in [pc : LbPcs, add : 0 .. lbAdds],
         Opens(t, chunks, c), Fits(t, chunks, c)
  PROVE  LbInv'
<1> DEFINE a == lbCall[t].add
<1>1. LbTypes /\ a \in 1 .. lbAdds /\ lbName[a] \in Names
  BY DEF LbInv, LbTypes, OwnAdds, Lb!At
<1>2. /\ lbFile' = [lbFile EXCEPT ![lbName[a]] = chunks]
      /\ lbOpened' = [lbOpened EXCEPT ![lbName[a]] = lbOpened[lbName[a]] \cup {a}]
      /\ lbCall' = [lbCall EXCEPT ![t] = c]
      /\ UNCHANGED <<lbQueue, lbLibrary, lbAdds, lbName, lbLost>>
  BY <1>1 DEF Opens, Lb!FileOf, LbTypes
<1>3. LbTypes'
  BY <1>1, <1>2 DEF LbTypes
<1>4. OwnAdds'
  BY <1>1, <1>2 DEF LbInv, LbTypes, OwnAdds, Lb!At, Fits, Lb!Idle
\* Another add has its file to itself only if it is another file.
<1>5. ASSUME NEW b \in 1 .. lbAdds, b # a, Only(b)'
      PROVE  Only(b) /\ lbFile'[lbName[b]] = lbFile[lbName[b]]
  BY <1>1, <1>2, <1>5 DEF LbTypes, Only
<1>6. ASSUME NEW b \in 1 .. lbAdds, b # a, Whole(b)
      PROVE  Whole(b)'
  BY <1>2, <1>5, <1>6 DEF Whole
<1>7. ASSUME NEW u \in Task PROVE Progress(u, lbCall[u].add)'
  <2>1. CASE u = t
    <3>1. lbCall'[u] = c
      BY <1>1, <1>2, <2>1 DEF LbTypes
    <3>2. CASE c = Lb!Idle
      BY <3>1, <3>2 DEF Progress, Lb!At, Lb!Idle
    <3>3. CASE c # Lb!Idle
      <4>1. c.add = a /\ c.pc \in {"write", "flush", "queue"}
        BY <3>3 DEF Fits
      <4>2. a \notin lbLibrary /\ a \in lbOpened'[lbName'[a]] /\ lbFile'[lbName'[a]] = chunks
        BY <1>1, <1>2 DEF LbInv, LbTypes, Progress
      <4>3. /\ c.pc = "write" => chunks = << >>
            /\ c.pc = "flush" /\ Alone(t) => chunks = <<a>>
            /\ c.pc = "queue" /\ Alone(t) => chunks = <<a, a>>
            /\ lbOpened'[lbName'[a]] = {a} => Alone(t)
        BY <1>1, <1>2, <3>3, <4>1 DEF Fits, Alone, LbTypes, Lb!FileOf
      <4>4. CASE c.pc = "write"
        BY <1>2, <2>1, <3>1, <4>1, <4>2, <4>3, <4>4 DEF Progress, Only, Lb!At
      <4>5. CASE c.pc = "flush"
        BY <1>2, <2>1, <3>1, <4>1, <4>2, <4>3, <4>5 DEF Progress, Only, Lb!At
      <4>6. CASE c.pc = "queue"
        BY <1>2, <2>1, <3>1, <4>1, <4>2, <4>3, <4>6 DEF Progress, Only, Whole, Lb!At
      <4> QED BY <2>1, <4>1, <4>4, <4>5, <4>6
    <3> QED BY <3>2, <3>3
  <2>2. CASE u # t
    <3>1. lbCall'[u] = lbCall[u] /\ Progress(u, lbCall[u].add)
      BY <1>1, <1>2, <2>2 DEF LbInv, LbTypes
    <3>2. CASE lbCall[u].pc = "idle"
      BY <3>1, <3>2 DEF Progress, Lb!At
    <3>3. CASE lbCall[u].pc # "idle"
      <4>1. lbCall[u].add \in 1 .. lbAdds /\ lbCall[u].add # a
        BY <1>1, <2>2, <3>3 DEF LbInv, LbTypes, OwnAdds, Lb!At
      <4>2. lbCall[u].add \in lbOpened[lbName[lbCall[u].add]]
              => lbCall[u].add \in lbOpened'[lbName'[lbCall[u].add]]
        BY <1>1, <1>2, <4>1 DEF LbTypes
      <4>3. PICK b \in 1 .. lbAdds : b = lbCall[u].add /\ b = lbCall'[u].add /\ b # a
        BY <3>1, <4>1
      <4>4. Only(b)' => Only(b) /\ lbFile'[lbName[b]] = lbFile[lbName[b]]
        BY <1>5, <4>3
      <4>5. Whole(b) => Whole(b)'
        BY <1>6, <4>3
      <4>6. Progress(u, b) /\ (b \in lbOpened[lbName[b]] => b \in lbOpened'[lbName'[b]])
        BY <3>1, <4>2, <4>3
      <4>7. Progress(u, b)'
        BY <1>2, <3>1, <4>4, <4>5, <4>6 DEF Progress, Lb!At
      <4> QED BY <4>3, <4>7 DEF Progress, Only, Whole
    <3> QED BY <3>2, <3>3
  <2> QED BY <2>1, <2>2
<1>8. \A b \in lbLibrary' : (b \in lbQueue /\ Whole(b))'
  <2>1. a \notin lbLibrary
    BY DEF LbInv, Progress
  <2> QED BY <1>1, <1>2, <1>6, <2>1 DEF LbInv, LbTypes
<1> QED BY <1>3, <1>4, <1>7, <1>8 DEF LbInv

-----------------------------------------------------------------------------
\* A step that leaves the files alone and may add rows.
LEMMA RowsChange ==
  ASSUME LbInv,
         UNCHANGED <<lbFile, lbOpened, lbAdds, lbName>>,
         lbCall' \in [Task -> [pc : LbPcs, add : 0 .. lbAdds]],
         lbQueue \subseteq lbQueue', lbQueue' \subseteq 1 .. lbAdds,
         lbLost \subseteq lbLost', lbLost' \subseteq 1 .. lbAdds,
         lbLibrary \subseteq lbLibrary',
         \A a \in lbLibrary' \ lbLibrary :
           \E t \in Task : Lb!At(t, "library") /\ lbCall[t].add = a,
         \A t \in Task :
           \/ lbCall'[t] = lbCall[t]
           \/ lbCall'[t].pc = "idle"
           \/ /\ ~Lb!At(t, "idle") /\ lbCall'[t].add = lbCall[t].add
              /\ \/ lbCall'[t].pc = "err"
                 \/ /\ Lb!At(t, "flush") /\ lbCall'[t].pc = "queue"
                    /\ lbCall[t].add \in lbLost'
                 \/ /\ Lb!At(t, "queue") /\ lbCall'[t].pc = "library"
                    /\ lbCall[t].add \in lbQueue'
                 \/ Lb!At(t, "library") /\ lbCall'[t].pc = "ok"
  PROVE  LbInv'
<1>1. LbTypes
  BY DEF LbInv
<1>2. lbLibrary' \subseteq 1 .. lbAdds
  BY <1>1 DEF LbInv, LbTypes, OwnAdds, Lb!At
<1>3. LbTypes'
  BY <1>1, <1>2 DEF LbTypes
<1>4. OwnAdds'
  BY DEF LbInv, OwnAdds, Lb!At
<1>5. ASSUME NEW a, Whole(a) PROVE Whole(a)'
  <2>1. (Only(a)' <=> Only(a)) /\ (a \in lbLost => a \in lbLost')
    BY DEF Only
  <2> QED BY <1>5, <2>1 DEF Whole
<1>6. \A a \in lbLibrary' : (a \in lbQueue /\ Whole(a))'
  <2>1. ASSUME NEW a \in lbLibrary PROVE a \in lbQueue /\ Whole(a)
    BY DEF LbInv
  <2>2. ASSUME NEW a \in lbLibrary' \ lbLibrary PROVE a \in lbQueue /\ Whole(a)
    BY <2>2 DEF LbInv, Progress, Lb!At
  <2> QED BY <1>5, <2>1, <2>2
<1>7. ASSUME NEW t \in Task, lbCall[t].pc \in {"create", "write", "flush"}
      PROVE  lbCall[t].add \notin lbLibrary'
  BY <1>7 DEF LbInv, OwnAdds, Progress, Lb!At
<1>8. ASSUME NEW t \in Task PROVE Progress(t, lbCall[t].add)'
  <2>1. Progress(t, lbCall[t].add)
    BY DEF LbInv
  <2>2. CASE lbCall'[t] = lbCall[t]
    BY <1>5, <1>7, <2>1, <2>2 DEF Progress, Lb!At, Only
  <2>3. CASE lbCall'[t].pc \in {"idle", "err"}
    BY <2>3 DEF Progress, Lb!At
  <2>4. CASE Lb!At(t, "flush") /\ lbCall'[t].pc = "queue"
    BY <2>1, <2>4 DEF Progress, Lb!At, Whole
  <2>5. CASE Lb!At(t, "queue") /\ lbCall'[t].pc = "library"
    BY <1>5, <2>1, <2>5 DEF Progress, Lb!At
  <2>6. CASE Lb!At(t, "library") /\ lbCall'[t].pc = "ok"
    BY <1>5, <2>1, <2>6 DEF Progress, Lb!At
  <2> QED BY <2>2, <2>3, <2>4, <2>5, <2>6
<1> QED BY <1>3, <1>4, <1>6, <1>8 DEF LbInv

-----------------------------------------------------------------------------
\* Writing a chunk gives chunks, and those that are expected.
LEMMA WrittenChunks ==
  ASSUME NEW m \in Nat, NEW chunks \in Chunks(m), NEW k \in {1, 2}, NEW a \in 0 .. m
  PROVE  /\ Lb!Written(chunks, k, a) \in Chunks(m)
         /\ chunks = << >> /\ k = 1 => Lb!Written(chunks, k, a) = <<a>>
         /\ chunks = <<a>> /\ k = 2 => Lb!Written(chunks, k, a) = <<a, a>>
<1> DEFINE w == Lb!Written(chunks, k, a)
<1>1. CASE chunks = << >>
  <2>1. k = 1 => w = <<a>>
    BY <1>1 DEF Lb!Written
  <2>2. k = 2 => w = <<0, a>>
    BY <1>1 DEF Lb!Written
  <2>3. chunks # <<a>>
    BY <1>1
  <2> QED BY <2>1, <2>2, <2>3 DEF Chunks
<1>2. ASSUME NEW x \in 0 .. m, chunks = <<x>>
      PROVE  w \in Chunks(m) /\ (k = 2 => w = <<x, a>>)
  <2>1. k = 1 => w = <<a>>
    BY <1>2 DEF Lb!Written
  <2>2. k = 2 => w = <<x, a>>
    BY <1>2 DEF Lb!Written
  <2> QED BY <2>1, <2>2 DEF Chunks
<1>3. ASSUME NEW x \in 0 .. m, NEW y \in 0 .. m, chunks = <<x, y>>
      PROVE  w \in Chunks(m) /\ chunks # << >> /\ chunks # <<a>>
  <2>1. k = 1 => w = <<a, y>>
    BY <1>3 DEF Lb!Written
  <2>2. k = 2 => w = <<x, a>>
    BY <1>3 DEF Lb!Written
  <2> QED BY <1>3, <2>1, <2>2 DEF Chunks
<1>4. \/ chunks = << >> \/ \E x \in 0 .. m : chunks = <<x>>
      \/ \E x, y \in 0 .. m : chunks = <<x, y>>
  BY DEF Chunks
<1>5. CASE \E x \in 0 .. m : chunks = <<x>>
  <2>1. PICK x \in 0 .. m : chunks = <<x>>
    BY <1>5
  <2>2. chunks # << >> /\ (chunks = <<a>> => x = a)
    BY <2>1
  <2> QED BY <1>2, <2>1, <2>2
<1> QED BY <1>1, <1>3, <1>4, <1>5

\* The chunks that t may leave in its file when it goes on to c.
LEMMA FileIsOpen ==
  ASSUME LbInv, NEW t \in Task, lbCall[t].pc \in {"write", "flush"}, NEW k \in {1, 2}
  PROVE  /\ Lb!Written(lbFile[Lb!FileOf(t)], k, lbCall[t].add) \in Chunks(lbAdds)
         /\ [lbOpened EXCEPT ![Lb!FileOf(t)] = @ \cup {lbCall[t].add}] = lbOpened
<1>1. LbTypes /\ lbCall[t].add \in 1 .. lbAdds
  BY DEF LbInv, LbTypes, OwnAdds, Lb!At
<1>2. Lb!FileOf(t) \in Names /\ lbCall[t].add \in lbOpened[Lb!FileOf(t)]
  BY <1>1 DEF LbInv, LbTypes, Progress, Lb!FileOf
<1>3. lbFile[Lb!FileOf(t)] \in Chunks(lbAdds) /\ lbAdds \in Nat
  BY <1>1, <1>2 DEF LbTypes
<1>4. [lbOpened EXCEPT ![Lb!FileOf(t)] = @ \cup {lbCall[t].add}] = lbOpened
  BY <1>1, <1>2 DEF LbTypes
<1> QED BY <1>1, <1>3, <1>4, WrittenChunks

LEMMA StoreWorks ==
  ASSUME LbInv, NEW t \in Task, Lb!Step(t)
  PROVE  LbInv'
<1> DEFINE a == lbCall[t].add
           Going(pc) == [pc |-> pc, add |-> a]
<1>1. LbTypes /\ (~Lb!At(t, "idle") => a \in 1 .. lbAdds)
  BY DEF LbInv, LbTypes, OwnAdds, Lb!At
<1>2. ASSUME NEW pc \in LbPcs
      PROVE  /\ Going(pc) \in [pc : LbPcs, add : 0 .. lbAdds]
             /\ Lb!Goto(t, pc) => lbCall' = [lbCall EXCEPT ![t] = Going(pc)]
  BY <1>1 DEF LbTypes, Lb!Goto
<1>3. CASE Lb!Create(t)
  <2>1. << >> \in Chunks(lbAdds)
    BY DEF Chunks
  <2>2. Opens(t, << >>, Going("write")) /\ Fits(t, << >>, Going("write"))
    BY <1>2, <1>3 DEF Lb!Create, Opens, Fits, LbPcs
  <2>3. lbCall[t].pc \in {"create", "write", "flush"} /\ "write" \in LbPcs
    BY <1>3 DEF Lb!Create, Lb!At, LbPcs
  <2> QED BY <1>2, <2>1, <2>2, <2>3, FileChanges
<1>4. CASE Lb!Write(t)
  <2> DEFINE chunks == Lb!Written(lbFile[Lb!FileOf(t)], 1, a)
  <2>1. Lb!At(t, "write") /\ "flush" \in LbPcs
    BY <1>4 DEF Lb!Write, LbPcs
  <2>2. chunks \in Chunks(lbAdds)
    BY <2>1, FileIsOpen DEF Lb!At
  <2>3. Opens(t, chunks, Going("flush"))
    BY <1>2, <1>4, <2>1, FileIsOpen DEF Lb!Write, Opens, Lb!At, LbTypes
  <2>4. Alone(t) => chunks = <<a>>
    <3>1. Alone(t) => Only(a)
      BY <1>1, <2>1, FileIsOpen DEF Alone, Only, Lb!FileOf, Lb!At, LbTypes
    <3>2. Only(a) => lbFile[Lb!FileOf(t)] = << >>
      BY <2>1 DEF LbInv, Progress, Lb!FileOf
    <3>3. lbFile[Lb!FileOf(t)] = << >> => chunks = <<a>>
      BY <1>1, <2>1 DEF Lb!Written, Lb!At
    <3> QED BY <3>1, <3>2, <3>3
  <2>5. Fits(t, chunks, Going("flush"))
    BY <2>4 DEF Fits
  <2> QED BY <1>2, <2>1, <2>2, <2>3, <2>5, FileChanges DEF Lb!At
<1>5. CASE Lb!Flush(t)
  <2> DEFINE chunks == Lb!Written(lbFile[Lb!FileOf(t)], 2, a)
  <2>1. Lb!At(t, "flush") /\ "queue" \in LbPcs
    BY <1>5 DEF Lb!Flush, LbPcs
  <2>2. CASE lbFile' = [lbFile EXCEPT ![Lb!FileOf(t)] = chunks] /\ UNCHANGED lbLost
    <3>1. chunks \in Chunks(lbAdds)
      BY <2>1, FileIsOpen DEF Lb!At
    <3>2. Opens(t, chunks, Going("queue"))
      BY <1>2, <1>5, <2>1, <2>2, FileIsOpen DEF Lb!Flush, Opens, Lb!At, LbTypes
    <3>3. Alone(t) => chunks = <<a, a>>
      <4>1. Alone(t) => Only(a)
        BY <1>1, <2>1, FileIsOpen DEF Alone, Only, Lb!FileOf, Lb!At, LbTypes
      <4>2. Only(a) => lbFile[Lb!FileOf(t)] = <<a>>
        BY <2>1 DEF LbInv, Progress, Lb!FileOf
      <4>3. lbFile[Lb!FileOf(t)] = <<a>> => chunks = <<a, a>>
        BY <1>1, <2>1 DEF Lb!Written
      <4> QED BY <4>1, <4>2, <4>3
    <3>4. Fits(t, chunks, Going("queue"))
      BY <3>3 DEF Fits
    <3> QED BY <1>2, <2>1, <3>1, <3>2, <3>4, FileChanges DEF Lb!At
  <2>3. CASE lbLost' = lbLost \cup {a} /\ UNCHANGED lbFile
    <3>1. /\ lbCall' = [lbCall EXCEPT ![t] = Going("queue")] /\ a \in 1 .. lbAdds
          /\ UNCHANGED <<lbQueue, lbLibrary, lbAdds, lbName, lbOpened>>
      BY <1>1, <1>2, <1>5, <2>1 DEF Lb!Flush, Lb!At
    <3> QED BY <1>1, <1>2, <2>1, <2>3, <3>1, RowsChange DEF LbTypes, Lb!At
  <2> QED BY <1>5, <2>2, <2>3 DEF Lb!Flush
<1>6. CASE Lb!InsertQueue(t)
  <2>1. /\ Lb!At(t, "queue") /\ a \in 1 .. lbAdds
        /\ lbCall' = [lbCall EXCEPT ![t] = Going("library")] /\ lbQueue' = lbQueue \cup {a}
        /\ UNCHANGED <<lbFile, lbLibrary, lbAdds, lbName, lbOpened, lbLost>>
    BY <1>1, <1>2, <1>6 DEF Lb!InsertQueue, Lb!At, LbPcs
  <2>2. Going("library") \in [pc : LbPcs, add : 0 .. lbAdds]
    BY <1>2 DEF LbPcs
  <2> QED BY <1>1, <2>1, <2>2, RowsChange DEF LbTypes, Lb!At
<1>7. CASE Lb!InsertLibrary(t)
  <2>1. /\ Lb!At(t, "library") /\ a \in 1 .. lbAdds
        /\ lbCall' = [lbCall EXCEPT ![t] = Going("ok")] /\ lbLibrary' = lbLibrary \cup {a}
        /\ UNCHANGED <<lbFile, lbQueue, lbAdds, lbName, lbOpened, lbLost>>
    BY <1>1, <1>2, <1>7 DEF Lb!InsertLibrary, Lb!At, LbPcs
  <2>2. Going("ok") \in [pc : LbPcs, add : 0 .. lbAdds]
    BY <1>2 DEF LbPcs
  <2> QED BY <1>1, <2>1, <2>2, RowsChange DEF LbTypes, Lb!At
<1>8. CASE Lb!Fails(t)
  <2>1. /\ ~Lb!At(t, "idle") /\ lbCall' = [lbCall EXCEPT ![t] = Going("err")]
        /\ UNCHANGED <<lbFile, lbQueue, lbLibrary, lbAdds, lbName, lbOpened, lbLost>>
    BY <1>2, <1>8 DEF Lb!Fails, Lb!Fail, Lb!At, LbPcs
  <2>2. Going("err") \in [pc : LbPcs, add : 0 .. lbAdds]
    BY <1>2 DEF LbPcs
  <2> QED BY <1>1, <2>1, <2>2, RowsChange DEF LbTypes, Lb!At
<1> QED BY <1>3, <1>4, <1>5, <1>6, <1>7, <1>8 DEF Lb!Step

LEMMA StoreDropped ==
  ASSUME LbInv, NEW t \in Task, Lb!Drop(t)
  PROVE  LbInv'
<1> DEFINE a == lbCall[t].add
<1>1. LbTypes /\ (~Lb!At(t, "idle") => a \in 1 .. lbAdds)
  BY DEF LbInv, LbTypes, OwnAdds, Lb!At
<1>2. Lb!Idle \in [pc : LbPcs, add : 0 .. lbAdds] /\ Lb!Idle.pc = "idle"
  BY <1>1 DEF LbTypes, Lb!Idle, LbPcs
<1>3. lbCall' = [lbCall EXCEPT ![t] = Lb!Idle] /\ UNCHANGED <<lbAdds, lbName, lbLost>>
  BY DEF Lb!Drop
<1>4. CASE UNCHANGED <<lbFile, lbQueue, lbLibrary, lbOpened>>
  BY <1>1, <1>2, <1>3, <1>4, RowsChange DEF LbTypes
<1>5. CASE /\ Lb!At(t, "queue") /\ lbQueue' = lbQueue \cup {a}
           /\ UNCHANGED <<lbFile, lbLibrary, lbOpened>>
  BY <1>1, <1>2, <1>3, <1>5, RowsChange DEF LbTypes, Lb!At
<1>6. CASE /\ Lb!At(t, "library") /\ lbLibrary' = lbLibrary \cup {a}
           /\ UNCHANGED <<lbFile, lbQueue, lbOpened>>
  BY <1>1, <1>2, <1>3, <1>6, RowsChange DEF LbTypes, Lb!At
<1>7. ASSUME NEW chunks \in Chunks(lbAdds), Opens(t, chunks, Lb!Idle),
             lbCall[t].pc \in {"create", "write", "flush"}
      PROVE  LbInv'
  BY <1>2, <1>7, FileChanges DEF Fits
<1>8. CASE /\ Lb!At(t, "create") /\ lbFile' = [lbFile EXCEPT ![Lb!FileOf(t)] = << >>]
           /\ lbOpened' = [lbOpened EXCEPT ![Lb!FileOf(t)] = @ \cup {a}]
           /\ UNCHANGED <<lbQueue, lbLibrary>>
  <2>1. << >> \in Chunks(lbAdds)
    BY DEF Chunks
  <2> QED BY <1>3, <1>7, <1>8, <2>1 DEF Opens, Lb!At
<1>9. ASSUME NEW k \in {1, 2}, lbCall[t].pc \in {"write", "flush"},
             lbFile' = [lbFile EXCEPT ![Lb!FileOf(t)] = Lb!Written(lbFile[Lb!FileOf(t)], k, a)],
             UNCHANGED <<lbQueue, lbLibrary, lbOpened>>
      PROVE  LbInv'
  BY <1>3, <1>7, <1>9, FileIsOpen DEF Opens
<1> QED
  BY <1>4, <1>5, <1>6, <1>8, <1>9 DEF Lb!Drop, Lb!At

LEMMA StoreInductive == LbInv /\ [Next]_vars => LbInv'
<1>1. SUFFICES ASSUME LbInv, [Next]_vars PROVE LbInv'
  OBVIOUS
<1>2. LbTypes
  BY <1>1 DEF LbInv
<1>3. CASE LbCrash
  <2>1. PICK done \in SUBSET {t \in Task : Lb!At(t, "queue")} :
          lbQueue' = lbQueue \cup {lbCall[t].add : t \in done}
    BY <1>3 DEF LbCrash
  <2>2. PICK gone \in SUBSET {t \in Task : Lb!At(t, "library")} :
          lbLibrary' = lbLibrary \cup {lbCall[t].add : t \in gone}
    BY <1>3 DEF LbCrash
  <2>3. \A t \in Task : ~Lb!At(t, "idle") => lbCall[t].add \in 1 .. lbAdds
    BY <1>1, <1>2 DEF LbInv, LbTypes, OwnAdds, Lb!At
  <2>4. lbQueue \subseteq lbQueue' /\ lbQueue' \subseteq 1 .. lbAdds
    <3>1. \A t \in done : lbCall[t].add \in 1 .. lbAdds
      BY <2>3 DEF Lb!At
    <3>2. {lbCall[t].add : t \in done} \subseteq 1 .. lbAdds
      BY <3>1
    <3> QED BY <1>2, <2>1, <3>2 DEF LbTypes
  <2>5. /\ lbLibrary \subseteq lbLibrary'
        /\ \A a \in lbLibrary' \ lbLibrary :
             \E t \in Task : Lb!At(t, "library") /\ lbCall[t].add = a
    BY <2>2
  <2>6. /\ lbCall' \in [Task -> [pc : LbPcs, add : 0 .. lbAdds]]
        /\ \A t \in Task : lbCall'[t].pc = "idle"
    BY <1>2, <1>3 DEF LbCrash, LbTypes, LbPcs, Lb!Idle
  <2> QED BY <1>1, <1>2, <1>3, <2>4, <2>5, <2>6, RowsChange DEF LbCrash, LbTypes
<1>4. CASE UNCHANGED lb
  BY <1>1, <1>2, <1>4, RowsChange DEF lb, LbTypes
<1> QED BY <1>1, <1>3, <1>4, StoreSteps, StoreBegins, StoreWorks, StoreDropped

LEMMA StoreRows == LbInv => Lb!RowsHaveTheirFile
BY DEF LbInv, Whole, Only, Lb!RowsHaveTheirFile

==============================================================================
