---------------------------- MODULE JmusePipeline ----------------------------
(***************************************************************************)
(* MuseScore's own download pipeline (src/sources/musescore.rs,            *)
(* fetch_pdf_bytes without a worker): the score page, the salt that is     *)
(* hidden in one of its bundles, the address of each page image, which     *)
(* /api/jmuse gives for a token made with the salt, and the images.        *)
(* MuseScore deploys new bundles and salts at any time; the salt of the    *)
(* last bundle that had one is cached, for all downloads.                  *)
(***************************************************************************)
EXTENDS Naturals, Sequences, SequencesExt

CONSTANTS
  Task, None,
  Deploys,  \* the deploys in order: what a page lists (bundles) and the salt
            \* that /api/jmuse accepts (accepts)
  SaltIn,   \* the salt each bundle carries, or None; and the one of Fallback
  Fallback, \* stands for the FALLBACK_SALT of the code
  Pages,    \* how many pages the score has
  Concurrency \* PNG_FETCH_CONCURRENCY

VARIABLES
  deploy,  \* the current one
  cached,  \* the bundle whose salt is cached, or None
  call     \* the running downloads

vars == <<deploy, cached, call>>

\* count: the pages as read from the score page, 0 if unreadable.  static: it
\* names the image of page 0.  salts: the candidates.  working: the salt that
\* was accepted.  images: the pages whose image addresses are resolved.  pngs:
\* the pages that are there, of the chunks that are joined.  landed: the images
\* of the chunk that have come or failed (failed), in this order.
Idle == [pc |-> "idle", bundles |-> << >>, count |-> 0, static |-> FALSE,
         next |-> 1, salts |-> << >>, working |-> None, images |-> << >>,
         pngs |-> << >>, landed |-> << >>, failed |-> FALSE]
At(t, pc) == call[t].pc = pc
Goto(t, pc) == call' = [call EXCEPT ![t].pc = pc]
Err(t) == call' = [call EXCEPT ![t] = [Idle EXCEPT !.pc = "err"]]

TypeOK ==
  /\ deploy \in DOMAIN Deploys
  /\ cached \in DOMAIN SaltIn \cup {None}
  /\ \A t \in Task :
       /\ call[t].pc \in {"idle", "page", "cache", "walk", "resolve",
                          "ok", "err"}
       /\ call[t].count \in {0, Pages}
       /\ call[t].salts \in Seq(DOMAIN SaltIn)
       /\ Len(call[t].images) <= Pages
       /\ ToSet(call[t].landed) \subseteq DOMAIN call[t].images

Init == /\ deploy = 1 /\ cached = None
        /\ call = [t \in Task |-> Idle]

-----------------------------------------------------------------------------
\* What extracted adds to the candidates, and the fallback, each once.  A salt
\* is kept with the bundle it came from: candidates are bundles, or Fallback.
Candidates(bundle) ==
  IF SaltIn[bundle] = SaltIn[Fallback] THEN <<bundle>> ELSE <<bundle, Fallback>>

Begin(t) ==
  /\ At(t, "idle")
  /\ Goto(t, "page")
  /\ UNCHANGED <<deploy, cached>>

\* fetch_score_page, whose transport is FsSessions.  Nothing on the page is
\* certain; an SVG score ends the download.
PageOk(t) ==
  /\ At(t, "page")
  /\ \E count \in {0, Pages}, static \in BOOLEAN :
       call' = [call EXCEPT ![t] =
                  [Idle EXCEPT !.pc = "cache", !.count = count,
                     !.static = static, !.bundles = Deploys[deploy].bundles]]
  /\ UNCHANGED <<deploy, cached>>

PageFails(t) ==
  /\ At(t, "page")
  /\ Err(t)
  /\ UNCHANGED <<deploy, cached>>

Resolving(t, salts) ==
  call' = [call EXCEPT ![t].pc = "resolve", ![t].next = 1, ![t].salts = salts]

\* (Mutant of CacheHits) The cached salt is good for every page.
CacheHitsAny(t) == cached # None

\* prepare_algorithm: the page still lists the cached bundle.
CacheHits(t) == cached \in ToSet(call[t].bundles)

CacheHit(t) ==
  /\ At(t, "cache") /\ CacheHits(t)
  /\ Resolving(t, Candidates(cached))
  /\ UNCHANGED <<deploy, cached>>

CacheMiss(t) ==
  /\ At(t, "cache") /\ ~CacheHits(t)
  /\ Goto(t, "walk")
  /\ UNCHANGED <<deploy, cached>>

\* The bundles are read in order until one has a salt.
WalkFound(t) ==
  /\ At(t, "walk") /\ call[t].next <= Len(call[t].bundles)
  /\ LET bundle == call[t].bundles[call[t].next] IN
       /\ SaltIn[bundle] # None
       /\ cached' = bundle
       /\ Resolving(t, Candidates(bundle))
  /\ UNCHANGED deploy

\* No salt in it, or it cannot be fetched.
WalkNext(t) ==
  /\ At(t, "walk") /\ call[t].next <= Len(call[t].bundles)
  /\ call' = [call EXCEPT ![t].next = @ + 1]
  /\ UNCHANGED <<deploy, cached>>

WalkEnds(t) ==
  /\ At(t, "walk") /\ call[t].next > Len(call[t].bundles)
  /\ Resolving(t, <<Fallback>>)
  /\ UNCHANGED <<deploy, cached>>

-----------------------------------------------------------------------------
\* A count that cannot be read is taken for 1.
Count(t) == IF call[t].count = 0 THEN 1 ELSE call[t].count
Index(t) == Len(call[t].images)
Resolved(t, salt) ==
  call' = [call EXCEPT ![t].images = Append(@, Index(t)), ![t].working = salt]

ResolveStatic(t) ==
  /\ At(t, "resolve") /\ Index(t) = 0 /\ call[t].static
  /\ Resolved(t, None)
  /\ UNCHANGED <<deploy, cached>>

\* resolve_page_url: one call of /api/jmuse with the salt that worked before, or
\* with the next candidate.
AsksJmuse(t) == /\ At(t, "resolve") /\ Index(t) < Count(t)
                /\ ~(Index(t) = 0 /\ call[t].static)
SaltToTry(t) == IF call[t].working # None THEN call[t].working
                ELSE call[t].salts[call[t].next]

JmuseOk(t) ==
  /\ AsksJmuse(t)
  /\ SaltIn[SaltToTry(t)] = Deploys[deploy].accepts
  /\ Resolved(t, SaltToTry(t))
  /\ UNCHANGED <<deploy, cached>>

\* A rejected token, a page for paying visitors, or any failure.  The next
\* candidate is tried as long as none has been accepted.
JmuseFails(t) ==
  /\ AsksJmuse(t)
  /\ IF call[t].working = None /\ call[t].next < Len(call[t].salts)
       THEN call' = [call EXCEPT ![t].next = @ + 1] ELSE Err(t)
  /\ UNCHANGED <<deploy, cached>>

\* All addresses are resolved.  The images are fetched in chunks.
Fetching(t) == At(t, "resolve") /\ Index(t) = Count(t)
ChunkEnd(t) == IF Len(call[t].pngs) + Concurrency < Index(t)
               THEN Len(call[t].pngs) + Concurrency ELSE Index(t)
Chunk(t) == Len(call[t].pngs) + 1 .. ChunkEnd(t)

\* The images of a chunk come at once, in any order, or fail.
ImageLands(t) ==
  /\ Fetching(t)
  /\ \E i \in Chunk(t) \ ToSet(call[t].landed), failed \in BOOLEAN :
       call' = [call EXCEPT ![t].landed = Append(@, i),
                            ![t].failed = @ \/ failed]
  /\ UNCHANGED <<deploy, cached>>

\* (Mutant of Joined) The images are taken as they come (buffer_unordered).
JoinedAsLanded(t) ==
  [i \in DOMAIN call[t].landed |-> call[t].images[call[t].landed[i]]]

\* join_all gives the images of a chunk in the order of their addresses.
Joined(t) == SubSeq(call[t].images, Len(call[t].pngs) + 1, ChunkEnd(t))

\* The chunk is complete.  An image that failed, or is too large together with
\* the others, ends the download.
JoinChunk(t) ==
  /\ Fetching(t) /\ Chunk(t) # {} /\ Chunk(t) \subseteq ToSet(call[t].landed)
  /\ \/ /\ ~call[t].failed
        /\ call' = [call EXCEPT ![t].pngs = @ \o Joined(t), ![t].landed = << >>]
     \/ Err(t)
  /\ UNCHANGED <<deploy, cached>>

\* All images are bound together; one may be no PNG, or the PDF too large.
Assemble(t) ==
  /\ Fetching(t) /\ Chunk(t) = {}
  /\ Goto(t, "ok") \/ Err(t)
  /\ UNCHANGED <<deploy, cached>>

Step(t) ==
  \/ PageOk(t) \/ PageFails(t) \/ CacheHit(t) \/ CacheMiss(t)
  \/ WalkFound(t) \/ WalkNext(t) \/ WalkEnds(t)
  \/ ResolveStatic(t) \/ JmuseOk(t) \/ JmuseFails(t)
  \/ ImageLands(t) \/ JoinChunk(t) \/ Assemble(t)

\* The caller is done with the result, or its future is dropped.
Drop(t) ==
  /\ call' = [call EXCEPT ![t] = Idle]
  /\ UNCHANGED <<deploy, cached>>

\* MuseScore deploys.
Deploy ==
  /\ deploy < Len(Deploys)
  /\ deploy' = deploy + 1
  /\ UNCHANGED <<cached, call>>

-----------------------------------------------------------------------------
\* Downloads share the cached salt, and MuseScore deploys while they run
\* (prepare_algorithm, 774-789): a download tries the salt of a bundle that its
\* own page lists, or the fallback, never one of another deploy's.
SaltFromOwnPage ==
  \A t \in Task : \A i \in DOMAIN call[t].salts :
    call[t].salts[i] \in ToSet(call[t].bundles) \cup {Fallback}

\* A score is delivered whole and in order: each page once, in whatever order
\* the images of a chunk come (1251-1274), whichever salts were rejected and
\* whatever was deployed on the way.  Of a page that did not tell how many
\* there are it is page 0 alone (1181-1184, "silently truncates to page 0").
WholeScore ==
  \A t \in Task : At(t, "ok") =>
    call[t].pngs = [i \in 1 .. IF call[t].count = 0 THEN 1 ELSE Pages |-> i - 1]

==============================================================================
