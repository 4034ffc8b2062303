# A verification project for sheet-music-browsarr

sheet-music-browsarr is an axum/tokio server. A search fans out to four upstream
sources (MuseScore, Ultimate Guitar, IMSLP, Mutopia); results come through a
two-tier cache; MuseScore and Ultimate Guitar sit behind Cloudflare, so their
pages are fetched with a `cf_clearance` cookie that a separate process,
FlareSolverr ("FS"), mints with real browsers; MuseScore PDFs are rendered by a
second process, the PDF worker. Paths below are relative to the repository.

## The system: inventory

| Component | State | Operations | Talks to |
|---|---|---|---|
| Search cache, `src/cache.rs` | moka L1 with per-entry TTL and its waiter map; SQLite table `search_cache` (L2) | `cached_search`, `fetch_single_flight`, `spawn_refresh`, `L2Cache::get`/`insert` | called by the fan-out and by prewarm; calls `source.search` |
| MuseScore session pool, `src/sources/musescore.rs`, `flaresolverr.rs` | cookie jar and user agent; solve gate; one mutex-guarded slot per FS session; round-robin cursor | `fetch_html_challenged`, `acquire_session`, `invalidate_session`, `refresh_one_session`, `force_warm`, purge at start and stop | called by searches, detail pages and PDFs; calls FS |
| Thumbnail caches, `src/cache.rs`, `routes/public.rs` | moka caches | get, insert | upstream images |
| Search route, `routes/public.rs` | none of its own: every request computes its pages anew through the cache | fan-out over sources and query variants, prewarm, filters, pagination, deferred and append fragments | cache, expansion, health |
| Source health, `sources/health.rs` | consecutive failures and successes per source | record, read | every fan-out, every PDF; an admin page |
| MuseScore PDF pipeline, `sources/musescore.rs` | salt cache | delegate to the worker, or the legacy page-by-page pipeline | worker, session pool |
| PDF worker, `musescore-pdf-worker/worker.py` | one browser, one lock | harvest | MuseScore |
| Ultimate Guitar, `sources/ultimate_guitar.rs` | cookie jar, one FS session | search, tab page | FS |
| IMSLP, Mutopia | none | search, download | upstream |
| Query expansion, `i18n/` | generated alias table | lookup, expand | search route |
| Admin library, `routes/admin.rs` | files, two tables | fetch, add, delete | sources, database |
| Account and login, audit log, secrets, configuration | rows in the database | | |

What is hard about them:

- **Search cache.** Many requests miss one key at once; the one that leads may
  fail, or its client may go away; entries expire, are evicted and are re-warmed
  under it; SQL statements of cancelled tasks are executed all the same; ages of
  two tiers and a grace window add up. It is right if an answer is for the key
  that was asked and no older than two TTLs, if a key is fetched once at a time,
  and if nobody waits for a flight that nobody flies.
- **Session pool.** Two kinds of locks held across network calls; three kinds
  of tasks; another process that loses what the slots name, and that does what it
  was asked without the answer coming back; ids that are used again. It is right
  if a lapsed clearance is solved once, if nobody waits for ever, and if slots and
  browsers do not drift apart.
- **Search route.** Slow sources that are prewarmed by one request and asked
  again by the next; one source failing; a page boundary in a list that is computed
  anew with another limit. It is right if scrolling shows one list, if a slow source
  is fetched once per search, and if filters and selection survive three requests.
- **Source health.** One counter per source that every visitor's searches and PDFs
  record into: followers of one failed flight count it once each, and answers that
  caches give count as successes. It is right if a hiccup is ridden out and an outage shows.
- **PDF pipeline and worker.** The client's timeout against the worker's own; a
  queue of requests whose clients have gone; images that land in any order; a cached
  salt while MuseScore deploys. It is right if every download ends,
  with the whole score or an error.
- **Ultimate Guitar.** A session lost in FS that nobody clears; a page's data to be
  found in a script by counting braces.
- **Query expansion.** Which row a form belongs to, and typos that are as near to
  one form as to another. It is right if any text of an expansion leads to it.
- **Admin library.** A file and two rows, any of which may fail. It is right if a
  row that visitors see has its file.

`PROJECT.json` lists each hazard at its line with the properties that cover it.

## Modules

| Module | Models |
|---|---|
| `CacheKey` | `CacheKey`, `l2_key` and the TTL of a key. Texts are sequences over an abstract alphabet that contains the separator. |
| `SearchCache` | the whole of `cached_search`: L1, single flight, L2, stale serving, refresh. Extends `CacheKey`. |
| `ReadThrough` | the abstract promise to a caller: an answer is something upstream said of this key, within its age. |
| `SourceHealth` | `health.rs` and all that record into it. Extends `SearchCache`. |
| `FsSessions` | the session pool, gate, warm-up, refresh and FS as its environment. |
| `FsStranding` | `FsSessions` with two histories that tell why a browser is out of reach. |
| `Listings` | sequences as the search and expansion code cuts, filters, deduplicates and joins them, without recursion. |
| `SourceSearch` | how each source's answer depends on limit, instrument and the listing upstream has; the filters and the merge applied afterwards. Extends `Listings`. |
| `SearchRoute` | the search route under one visitor's tab. Extends `SourceSearch`. |
| `UgSession` | Ultimate Guitar's single FS session. |
| `PdfWorker` | the worker's lock, queue and browser, and its client. |
| `JmusePipeline` | MuseScore's own pipeline: page, salt cache, bundles, `/api/jmuse`, images. |
| `LibraryAdd` | the admin's add: file, queue row, library row. |
| `Downloads` | composes `UgSession`, `PdfWorker`, `JmusePipeline` and `LibraryAdd`: `pdf_handler` and `library_add` from the request to its end. |
| `QueryExpansion` | `alias.rs`: index, exact and fuzzy lookup, expansion. Extends `Listings`. |
| `JsStore` | Ultimate Guitar's scanners: `find_assignment`, `balanced_braces`, `js_string_literal`. |
| `Texts` | those who write the texts that the last two take apart. Extends both. |
| `MC...` | values for TLC. |
| `...Proofs` | the proofs. `ListingsProofs` serves the two that concern lists, `DownloadsPartsProofs` the one of `Downloads`. |

### SearchCache and cache.rs

Between two awaits a tokio task runs alone as far as the cache's data is
concerned (moka's and sqlx's operations are atomic), so an action is the code
from one await to the next, and `pc` names the await a call is at:

| pc | in the code | left by |
|---|---|---|
| `lookup` | `cache.get` | `L1Hit`, `L1Miss` |
| `select` | the SELECT of `L2Cache::get` | `SelectRow`, `SelectMiss` |
| `judge` | expiry and payload are examined | `ServeFresh`, `ServeStale`, `JudgeUnusable` |
| `sweep` | the DELETE of an unusable row | `Sweep` |
| `join` | `try_get_with` | `JoinHit`, `JoinWait`, `JoinLead` |
| `wait`, `woken` | a follower of a flight | `Wake`, by its leader's end |
| `fetch` | `source.search` of the leader | `FetchOk`, `FetchErr` |
| `write` | the upsert of `L2Cache::insert` | `WriteRow` |
| `publish` | moka stores the value, the flight ends | `Publish` |

`kind` separates a call with a client (`request`) from a prewarm or a refresh
(`detached`). `Cancel` is the client's disconnect: axum drops the handler's
future. It does not drop a statement that sqlx's worker thread has already taken:
an `orphan` is such a statement, which may be executed later or never. `Restart`
empties L1 and the flights, keeps L2, and may make rows unreadable, as a new
version with another payload type does. A row is read at one await and judged by
the clock later: a `Tick` may come between.

moka is a library and is modelled from how `cache.rs` configures and uses it
(the rows of the map marked external). Two of its rules matter: an insert over a
live entry keeps that entry's expiry (`expire_after_update` keeps the default);
and a flight whose leader is dropped is retried by its followers. L1's capacity
is `Evict`, of any entry at any time. A failing SELECT is a miss (`SelectMiss`);
a failing DELETE or upsert is ignored (second disjuncts of `Sweep`, `WriteRow`).

The clock is in ticks of an arbitrary length. `DbLag` bounds how long an upsert
that has begun stays pending. The properties need `DbLag <= ShortTtl`: a
connection is waited for at most 30 s and a lock of SQLite at most 5 s (defaults
of sqlx, which `db.rs` keeps), and the shorter TTL is `CACHE_TTL_SECS`, 60 s.

### SourceHealth, health.rs and those who record

`SourceHealth` adds the counter of each source to the steps of `SearchCache`: when
`cached_search` returns to a request (`reply`), the fan-out records a success or an
error (`public.rs:690-717`), whoever's flight it was; `FetchPdf` is `pdf_handler`,
which records the outcome of its own upstream call (`public.rs:997-1028`). Detached
calls (prewarms, background refreshes) record nothing. A restart sets the counts to zero.
`fails` is capped at the threshold, since `is_degraded` asks no more.
Two histories say what upstream did: `silent`, for how long it has not answered; `denied`, the
errors recorded since it has been silent for longer than any tier can cover (two TTLs).

`health.rs:18-22` says two things of the threshold. That it rides out one or two hiccups
does not hold: each follower of a failed flight records its error. That "a real outage flips the public banner
within a single user's search session" is not what holds either: cached answers reset the
count for as long as there are any, MuseScore and Ultimate Guitar get one query per search
and not four (`public.rs:644`), and no banner reads `is_degraded`, only an admin page does
(`admin.rs:314`). What holds is `OutageShows`: past two TTLs nothing resets the
count any more, and any threshold of errors, by whichever visitors, degrade the source.

### FsSessions, FsStranding and musescore.rs

| pc | in the code | left by |
|---|---|---|
| `direct` | first `try_direct` | `DirectHit`, `DirectMiss` |
| `gate` | `fs_solve_lock.lock()` | `EnterGate` |
| `recheck` | `try_direct` again, under the gate | `RecheckHit`, `RecheckMiss` |
| `lock` | the slot's lock in `acquire_session` | `LockFilled`, `LockEmpty` |
| `create` | `sessions.create`, slot locked | `CreateOk`, `CreateFails` |
| `get` | `request.get` | `GetOk`, `GetFails`, `GetMissing` |
| `scan` | the slots' locks in `invalidate_session` | `ScanNext`, `Invalidate` |
| `take`, `destroy`, `recreate` | `refresh_one_session`, slot locked | `Take`, `Destroy`, `Recreate` |

A filled slot is read and its lock released within one step; a lock is a variable
(`owner`, `gate`) where it is held across an await. The tasks are the requests,
the warm-up (`force_warm`, outside the gate) and the refresh. The environment:
`FsLoses` (FS is restarted or reaps browsers), `Lapse` (Cloudflare accepts the
clearance no longer), `Cancel` (a client goes away, its guards are dropped, FS
may finish what it was asked), `Restart`. Session ids are fixed per slot
(`musescore-<idx>`), and FS refuses to create a session under a name it has, as
`src/src/main.rs:45-47` explains of the purge. Three constants switch the
refresh, failing calls of FS and disconnects on and off, so that a run can say
under which of them a property holds.

A challenge is possible only without an accepted clearance. A direct fetch can
also fail for another reason (a transport error, say), in which case the request
drives FS all the same: `blind` marks it, and it is not a solve of a lapse.
`solves` is a history variable, capped at 2; it counts the solves of challenged
requests since the clearance last lapsed.

A browser is `Stranded` when FS has it, its slot does not name it and nobody works on the
slot: it stays until FS loses it or the process restarts, and every create for that slot collides
with its name. `FsStranding` adds two histories to the steps of
`FsSessions`: `crossed`, that the refresh recreated a session while a request was using it or
scanning for it, and `excused`, the browsers lost to one of four causes: `Unheard` creates (the
answer was lost, or the client gone), `Undestroyed` ones (the refresh's destroy failed),
`ThrownAway` ones (by a crossed request), and what a purge left. `StrandedForCause` says that
there is no fifth.

### SearchRoute, SourceSearch and public.rs

A request of the list or of the block is an element of `fan`: the searches it
fans out to (`Pairs`), the answers so far, and `RespondList`/`RespondBlock` when
the last is there. Of the cache the module keeps what SearchCache promises: a
key is fetched once at a time (`flights`), then `held`, and forgotten at any time
(`Forget`). `tab` is what the visitor's page has received: the cards, the page the
sentinel will load, and the block's state. `Visits` fixes per behaviour what
upstream lists, the filters and the selection; `Land` also chooses which of its
`Shapes` a source's page comes in (MuseScore's with its data, with its cards only or with neither,
Ultimate Guitar's with its store or without). A failed source contributes an empty group. `Leave` lets the visitor
search again on the caches as they are.

IMSLP over-fetches and then filters by name (`ImslpAsks`), so that it does not answer
a smaller limit with the beginning of what it answers to a larger one;
`AnswersByPrefix` says when all sources do, and the properties of the append slice
are claimed under it. Variants come from a constant here and from
`QueryExpansion` in `Texts`.

Four assumptions are on the constants. `RouteAssumption`: the page size and the
cap are not zero, as `public.rs:41-52` has them. `VariantsAssumption`: an expansion names no text twice, which
`expand_query` sees to (`alias.rs:150-165`). `CatalogAssumption`:
listings are sequences, and IMSLP's names no page twice. The last is a fact about
MediaWiki's opensearch, whose entries are distinct page titles, and it is
needed: `Imslp::search` keeps what it is sent, while Mutopia's repetitions
are removed by the code and so are allowed. `MarksAssumption`: the two marks of a
search without an answer are no answers.

`Listings` builds all its operators from one, `Gather`: the entries at a set of
positions, in the order of the positions, entry n being the one of rank n. The
loops of the code are folds; a rank says the same without recursion, so that
lemmas about it can be proved.

### Downloads, its components and their code

`request[t].pc` says which component works for task t; each component has its own
`call[t]`, and `Joined` takes its end over. An action of a component leaves the
variables of the others to the composition.

| Component | code | actions |
|---|---|---|
| `UgSession` | `ultimate_guitar.rs:161-330` | `DirectHit/Miss`, `LockFilled/Empty`, `CreateOk/Fails`, `GetOk/Fails`, `Render` |
| `PdfWorker` | `musescore.rs` `fetch_pdf_via_worker`; `worker.py` | client: `Begin`, `GiveUp`, `Drop`; worker: `Lock`, `Launch`, `LaunchFails`, `HarvestOk`, `HarvestFails` |
| `JmusePipeline` | `musescore.rs` `fetch_pdf_bytes` and `prepare_algorithm` | `PageOk/Fails`, `CacheHit/Miss`, `WalkFound/Next/Ends`, `ResolveStatic`, `JmuseOk/Fails`, `ImageLands`, `JoinChunk`, `Assemble`; `Deploy` by MuseScore |
| `LibraryAdd` | `admin.rs:155-286` | `Create`, `Write`, `Flush`, `InsertQueue`, `InsertLibrary`, `Fails` |
| IMSLP, Mutopia | their `fetch_pdf_bytes` | `FindPdfUrl`, `PassDisclaimer`, `FetchFromImslp`, `FetchFromMutopia` |

`Disconnect` drops a task with what it holds; the worker keeps its request without a
client, FS may finish a create, the file system a write, SQLite an insert. `Crash`
restarts this process: the worker, FS, files and rows live on. A PDF is two chunks
because tokio's file returns from `write_all` with the last one in hand; whether
that one lands is told to `flush`, whose failure is only logged.
The images of a chunk of `Concurrency` addresses land in any order, each fetched or failed
(`landed`, `failed`); the chunk is joined in the order of the addresses, as `join_all`
gives it, and an error in it ends the download. `pngs` is what the PDF is made of.

### Texts and the scanners

`Texts` builds a text one symbol at a time by the grammar of its writer, who keeps
in `written` what the text means; in each state the scanners of `JsStore` or
the expansion of `QueryExpansion` read the text so far. So a property about an algorithm
is checked over every text up to the bound, the unfinished ones included.
A scanner's loop is a function of the number of symbols it has passed (`Scans`, `Reads`).
A script is a sequence of `Symbol`, in which the braces, the quotes, the backslash, the
equals sign, the blank and the store's name stand for themselves and `x` for the rest;
`PreambleAssumption` says of the pieces before the assignment that none assigns to the store or
compares it (`find_assignment` takes `==` for an assignment), and
`ScalarsAssumption` that what a literal spells are Unicode scalars. A literal is a sequence of units (a character, a short escape, a `\u` escape). In
`QueryExpansion` the edit distance is a constant, and an expansion is a set: where
two forms are equally near, the code takes the one a hash map visits first.

## What is checked

| Run | Shows | Instance |
|---|---|---|
| `search_cache` | types, `AnswerIsRecent`, `SingleFlight`, `FollowersHaveLeader`, `TierBound`, and that the cache implements `ReadThrough` | one key, three calls, TTL 2, lag 1, clock to 5 |
| `search_cache_liveness` | `AnswerIsForKey`: two searches never share an entry, a row or a flight; `CallsEnd`: every call ends | two keys built to collide, two calls, TTL 1, clock to 1, fairness |
| `source_health` | types, `OutageShows` | one key, two calls, PDFs, TTL 2, clock to 5, threshold of two |
| `fs_sessions` | types, `OneSolvePerLapse`, `StrandedForCause` | two requests, warm-up, refresh, two slots, every fault |
| `fs_sessions_liveness` | `TasksEnd`: no deadlock, no starvation | two requests, one slot, every fault, fairness |
| `search_route` | types, `AppendsContinue`, `LastPageIsLast`, `OneSolvePerSearch`, `SelectedOnly` | six visits, pages of two, three pages, two faults |
| `downloads` | types, `SaltFromOwnPage`, `WholeScore`, `RowsHaveTheirFile`, `DownloadsEnd` | two tasks, five crowds, two deploys, three pages in chunks of two, two adds, fairness |
| `texts` | `AnyTextWillDo`, `StoreFound`, `LiteralRead` | three words, objects of six symbols, literals of two characters |
| `fs_sessions_refresh` | violated: `InvalidatesDeadOnly` | two requests, two slots, refresh |
| `fs_sessions_retry` | violated: `RetriesWithLiveSession` | two requests, two slots |
| `search_route_append` | violated: `ShownOnce` | one visit |
| `ug_session` | violated: `DeadIdNotReused` | two fetches |

**Bounds.** In SearchCache keys meet only in L2 (by their primary key), so one
key shows everything but confusion of keys, and the second run has two keys that
the separator in a query would confuse if a field were left out. Three calls are
a leader, a follower and a third that overtakes both: cancel, take over and be
overtaken. With a TTL of two ticks a row is fresh, stale and past its grace
window within five, and an answer at the limit of two TTLs exists. The run with
fairness needs a row that expires, which one tick does, and no more. In FsSessions
two slots are the least that have a round robin; the pool of one in the liveness
run makes every task compete for one lock. In SourceHealth a threshold of two is the least
that has an inside, and the clock reaches past two TTLs, after which a silent source must show.

In SearchRoute a page of two cards has an inside and an end, and three pages have a
first, a middle and a capped one. The visits hold a catalogue shorter than the pages,
one longer, and one with entries that IMSLP's parser or its instrument test drops;
a work shared by two expansions and a PDF listed twice; filters of each kind;
and selections with and without slow sources. Two variants stand
for the code's four; two faults are two sources failing or one failing twice. In Downloads two tasks are a holder and a waiter of each lock; a crowd keeps
one kind of source, because tasks of different sources share nothing (an add is only
stored after its fetch, so the crowds of IMSLP and Mutopia carry the adds). Two deploys
exchange the salt under a bundle that stays; three pages in chunks of two (four in the code)
have a whole chunk, in which images overtake each other, and a last one that is not full; two adds meet in one file name or not.
In Texts six symbols hold a string with an escaped quote inside braces; the scalars
include both ends of the planes that need a pair, the code points around the surrogates, both quotes and
the backslash.

Capped are the clock (`MaxTime`), `solves` of FsSessions, `Faults`, `QueueBound`, `AddBound` and
the lengths of Texts, each in a guard. Only in Texts, whose writers stop at their bound, is
the check of deadlock switched off.

**Fairness.** `SearchCache`: weak fairness of each call's steps. tokio polls a
ready task, SQLite answers within its timeouts, each source's HTTP client has
one. Evictions, disconnects, restarts, new calls and the clock are not fair. A
follower whose leader's client goes away starts over, so `CallsEnd` is claimed
when clients do not disconnect for ever. `FsSessions`: weak fairness of what
waits for an HTTP call (each has a timeout), strong fairness of lock
acquisitions: tokio's mutexes are handed over in order of arrival, so that a waiter
whose lock is freed again and again gets it. Nothing is assumed of FS except that
a call ends, in success or failure; no restart or lapse is assumed to stop.
`Downloads`: weak fairness of each task's own steps, among them the client's
`GiveUp` after `PDF_WORKER_TIMEOUT`, strong fairness of the session's mutex. Nothing is assumed of the worker:
it may hang, and downloads end all the same.

**Mutants.** Next to the definition it changes, each property has a mutant
(`... Mutant of ...`): a plausible bug in that code which the run detects.

### Where code and comments disagree

Shown by a run:

- `invalidate_session` compares ids, and ids are used again: a request that hits
  the gap between the refresh's destroy and create clears the recreated session,
  and the slot's next create collides (`fs_sessions_refresh`).
- After an FS restart the one retry acquires the next slot of the round robin,
  whose session is as dead: the request fails (`fs_sessions_retry`).
- `public.rs:799-801` takes the first `(page-1)*PAGE_SIZE` results for those already
  shown. The list is computed anew for each page. A source that does not answer by prefix
  shifts it, which needs no fault: IMSLP's over-fetch is enough (`search_route_append`).
  A card is shown twice, another never.
- `ultimate_guitar.rs:161` claims MuseScore's contract for `ensure_fs_session`, but a
  lost session is never cleared from the slot: every later fetch that needs a
  solve fails until the process restarts (`ug_session`).

Read in the code while modelling:

- `cache.rs:317` calls what L1 holds "always fresh (moka enforces the TTL)". A row
  read just before it expires is put into L1 for a whole further TTL. What holds
  instead is `AnswerIsRecent`: two TTLs.
- The sweep of an unusable row deletes by key what it judged by content
  (`cache.rs:236`): a fresh row written in between is deleted. One upstream call is wasted.
- `public.rs:518-521`: a hand-typed `?defer=musescore` is said to render a full search
  with MuseScore inline. It renders the fast sources and the loader.
- A source that fails on one page and answers on the next shifts the list of
  `public.rs:803` in the same way as IMSLP's over-fetch: `AppendsContinue` is of pages whose
  sources have all answered.
- `health.rs:18-20`: the threshold rides out one or two hiccups. The followers of one failed
  flight each record its error, so that one failing upstream call of four tabs degrades the
  source.
- `health.rs:20-22` speaks of a public banner and of four variants per source; see SourceHealth above.
- `public.rs:694-696` gives a cache hit 60 s of age. It may be two TTLs old, as `AnswerIsRecent`
  allows, and MuseScore's TTL is a week.
- `main.rs:41-49` takes sessions that creates collide with for those of a previous instance. A
  client that leaves during `sessions.create` makes one too, and its slot stays empty.
- `musescore.rs:1185-1186` says that source health surfaces an unreadable page count. It is a
  warning in the log; the download is recorded as a success.
- A full load of `?page=N` with N > 1 never offers the slow sources' block.
- `js_string_literal` makes some scalar of a high surrogate followed by a `\u` escape that is no low one; its comment says `None`.
- `find_assignment` takes `==` for an assignment.
- `musescore.rs:49-53` says that the worker caps a harvest at 240 s; `worker.py:73` says 360 and
  the deployment 420, both more than the client's 300, so that it gives up before the worker's
  own error (`HANDOFF.md:188-189` of the worker knows). A lower cap alone would not do: the
  client's time runs while it waits for the lock, behind harvests for nobody among others.
- Titles that differ only in what `sanitize_filename` replaces share one file, which the later add
  overwrites; `opened` in `RowsHaveTheirFile` leaves these out, and `lost` the adds whose `flush` failed.
- Which row a typo that is equally near to two forms belongs to depends on a hash map's order.

That no browser is ever stranded holds without the refresh, failing calls and disconnects
only: a refresh strands one by the first item above; a create whose answer is lost, or whose
client is gone, by leaving a browser without a slot. `StrandedForCause` is what holds with all of them.

## What is proved

Proofs are for every value of the constants that the named assumptions allow:
any number of keys, calls, slots and requests, any TTL and any clock bound.

- `L2KeyInjective` (`SearchCacheProofs`): two keys have one primary key only if they
  are equal. The query may hold any character, the separator included, because
  it comes last; the proof cuts the text at its first three separators. It assumes
  `KeyAssumption`: source ids, numbers and slugs hold no separator, different
  limits and different instruments have different texts, no slug is empty.
- `TypeCorrect`, `AnswersAreForKey`, `AnswersAreRecent`, `OneFlightPerKey`,
  `NoFollowerLeftBehind`, `TiersAreBounded` (`SearchCacheProofs`), all from one
  inductive invariant `IInv`. That an answer is recent says nothing of what the
  tiers hold, and what they hold comes from what a call carried across an
  await, so `IInv` adds `CallInv` (a row that is being written expires one TTL
  after its fetch; its write is no older than `DbLag`; a woken follower's outcome
  is as recent), `FlightInv` (the waiter map and the leaders name each other) and
  `TierBound` (L1: at most two TTLs after the fetch). `L2KeyInjective` is what
  makes `AnswersAreForKey` inductive. The assumptions are `TtlAssumption`,
  `KeyAssumption` and `CacheAssumption`, with `DbLag <= ShortTtl` in it.
- `Implements` (`SearchCacheProofs`): `Spec => KeepsPromise`, the abstract
  cache's `held` being the outcomes in the tiers and in running calls. Each step
  brings in at most what upstream says of one key now (`Serves`), or is a tick.
- `PoolTypeCorrect`, `SolvesAreCoalesced`, `BrowsersAreStrandedForCause`
  (`FsSessionsProofs`). `SlotInv`: slot i holds `musescore-i` or nothing.
  `SolveInv`: whoever rechecks or solves holds the gate, and a challenged solver
  means that nobody has solved since the lapse. The third has every fault
  switched on or off as one likes. That a browser is in its slot or excused is not inductive:
  `Invalidate` empties a slot, so one must know that its browser is gone. `CrossInv` says why: a
  request that the refresh has not crossed finds its session where it took it from, or in the
  hands of the refresh, and one that scans knows that FS does not have it; nobody can have created it
  again meanwhile, because that takes an empty slot (`PlacesInv`) and only the request itself, who
  holds the gate (`SolveInv`), or the refresh empties one.

- `TypeCorrect`, `OwnSalts`, `WholeScores`, `RowsAndFiles` (`DownloadsProofs`), of the composition `Downloads`, from
  `DownloadsAssumption` alone: any finite set of tasks, any crowd, any deploys, page
  count, size of chunk and names. The invariant is the conjunction of one per component, because a
  step of the composition is for each component one of its own steps, a restart or
  nothing (`WorkerSteps`, `PipelineSteps`, `StoreSteps`).
  `WkInv` (`DownloadsPartsProofs`): a client has its place once, in the queue or with
  the lock, exactly while it waits. `JmInv`: what a download knows fits together: its salts with its
  bundles; its addresses, one per page in order; what it has joined, a
  beginning of them that ends with a chunk; what has landed, positions of the next chunk. `LbInv`: running adds have numbers of their
  own, and the file of an add that nobody else opened holds as much as its place
  in the code says (`Progress`); only this makes `RowsHaveTheirFile` inductive,
  since the row comes four steps after the file. `Placed` and the count of adds
  that have yet to begin link the components to the requests.

- Of the search route (`SearchRouteProofs`), for any catalog upstream may have, any
  variants, page size, cap and number of failures: `RouteInvariant` is the
  inductive invariant, `RouteInv`. It says of the two requests that may be under way
  that they are those the page made (`FanInv`: an append asks for the page after
  the one shown), and of each answer, in the cache or in a fan-out, that it is one the
  source gives to that search (`AnswerInv`). Three kinds of properties are inductive
  relative to it with a strengthening each:
  `SolvesOnce` with `SolveInv` (a slow source that was fetched is in flight or held
  under the one key both requests compute);
  `SelectionHolds` with `CardsInv`; `PagesContinue` and `LastPageEnds` with `ListInv`
  (what is shown is the first `PageSize * page` cards of the whole list, and the
  next page was offered from just those). `TypeCorrect` collects them.
- What `ListInv` needs is `MergedPrefix` (`SourceSearchProofs`): merging answers that
  are cut to their first n results, deduplicating across all of them, and cutting the
  result to n gives the same cards as with the answers uncut. It is not obvious, because
  a card of a later answer may be dropped for one in an earlier answer past the cut. But
  an answer that is longer than n and repeats no card fills the n places alone or
  with what came before it (`Crowded`), so that no position past a cut can have a
  rank up to n. Its third condition, that the filters pass all or none, holds of the list
  because IMSLP and Mutopia give all their results one level, one licence and one
  type (`PublicDomain`, lemmas `ImslpAnswer` and `MutopiaAnswer`).
- `PrefixesAnswered`: the condition of the two theorems on pages, `AnswersByPrefix`,
  holds whenever IMSLP's own filter rejects none of the entries it was sent; Mutopia,
  which sends all it has, always meets it. So the over-fetch of `Imslp::search` is all
  that can make pages repeat cards without a failure, as `search_route_append` shows.

- `AnyTextAgrees` (`TextsProofs`), for any table and any query: where no form belongs
  to two rows (`RowsApart`, without which the first row wins and the promise fails), a form
  is looked up exactly, so the tokens of a rendering have the rows that the query's tokens
  had, whichever of the near forms a typo was taken for (`RenderingIsLookedUpAlike`).
  `ExpansionsAreLists` shows that `VariantsAssumption` of `SearchRoute` is what
  `expand_query` gives.
- `StoreIsFound` and `LiteralIsReadBack` (`TextsProofs`), for texts of every length, from
  one invariant, `TextsInv`, that has a part for each text. `ScriptInv`: until the assignment nothing in
  the text is one (`Unassigned`); from then on the text is a head that ends
  with the assignment and a body that starts with the brace, and the loop of
  `balanced_braces`, run over the body, stands at the writer's depth, in the writer's string
  or not, after the writer's backslash or not, and has stopped when the object was whole.
  `LiteralInv`: the loop of `js_string_literal` has read what was written and waits for no
  second half of a pair (`SpellingIsRead`, for each way to spell a code point; `HalvesCombine` is the
  arithmetic of pairs). That the loop does one more turn on one more symbol (`ScanMore`,
  `ReadMore`) needs induction over its recursive function: `SetInduction` of `ListingsProofs`
  derives it for a set from the well-foundedness of `<`, the library's own theorem
  being out of reach of the provers.

Only model-checked: `CallsEnd`, `TasksEnd` and `DownloadsEnd` (liveness under
fairness), `OutageShows`, the disagreements above,
and that the situations the bounds are meant to allow do occur.

## What is not modelled, and why

- In FsSessions: the pairing of cookie and user agent (`force_warm` absorbs them one
  after the other, outside the gate; a cookie under another agent is one that
  Cloudflare does not accept, a `DirectMiss`), the idle test of
  the keep-warm loop (warming at any time includes it), and the shutdown purge,
  which differs from the one at startup only in who else is running.
- In SearchRoute: empty and short queries, and rendering. In Downloads: what a harvest
  does inside the page, the layout of a tab as a PDF, the audit row.
- In JsStore: the `div` form of the store, which is an attribute and a JSON parser.
- The shape of pages, JSON and HTML of the sources, and the libraries.
- Thumbnail caches are one get and one insert each. Login is a hash comparison and
  the session store a library. The audit log is written and never read back but by
  an admin page; `secrets.rs` has no caller. Configuration, database connection,
  templates and build code keep no state; the other admin pages only read.
- Not proved: liveness, which stays with TLC: the prover has no `ENABLED`.

## Plan

1. A refinement: `SearchRoute` uses the cache's contract as `flights` and `held`; state it as
   an abstract module that `SearchCache` implements.
2. Action properties of the cache and the pool as theorems.
3. Cookie and user agent as separate state in FsSessions.
