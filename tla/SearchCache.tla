----------------------------- MODULE SearchCache -----------------------------
(***************************************************************************)
(* The two-tier search cache of src/cache.rs: cached_search, the moka L1   *)
(* with its single flight, the durable SQLite L2, stale-while-revalidate.  *)
(*                                                                         *)
(* A task is one running call of cached_search or fetch_single_flight.     *)
(* Between two awaits a task runs alone, so one action is the code from    *)
(* one await to the next.  A task started by a client request disappears   *)
(* when the client disconnects; a detached one (prewarm, refresh) does     *)
(* not.  The SQL statement of a cancelled task may still be executed by    *)
(* the connection's worker thread: such a task lives on as an "orphan".    *)
(***************************************************************************)
EXTENDS CacheKey

CONSTANTS
  Keys,       \* the searches that are made
  Task,       \* the calls that can be running at once
  L2Enabled,  \* BROWSARR_PERSISTENT_SEARCH_CACHE
  DbLag,      \* ticks a pending SQL write takes at most
  MaxTime,    \* bound of the clock
  None

ASSUME CacheAssumption ==
  /\ Keys \subseteq Key
  /\ L2Enabled \in BOOLEAN
  /\ DbLag \in Nat
  /\ DbLag <= ShortTtl
  /\ MaxTime \in Nat
  /\ None \notin Keys \cup Task

VARIABLES
  now,     \* the clock, in ticks
  l1,      \* moka: the live entry of each key, or None
  l2,      \* table search_cache: the row of each primary key, or None
  flight,  \* moka's waiter map: the task that fetches each key, or None
  task,    \* the running calls
  reply    \* the answer the last step gave to a client, or None

vars == <<now, l1, l2, flight, task, reply>>

-----------------------------------------------------------------------------
\* What upstream said of a key, when, and whether it was an error.
Outcome == [key : Keys, at : Nat, ok : BOOLEAN]
Entry   == [val : Outcome, exp : Nat]
\* readable: expires_at parses and the payload decodes.
Row     == [val : Outcome, exp : Nat, readable : BOOLEAN]

Kinds == {"request", "detached", "orphan"}
Pcs == {"idle", "lookup", "select", "judge", "sweep", "join", "wait",
        "fetch", "write", "publish", "woken"}

\* The single-flight leader of a key is at one of these.
LeaderPcs == {"fetch", "write", "publish"}
\* Steps that wait for nothing: they are taken within the tick.
LocalPcs == {"lookup", "join", "publish", "woken"}

TaskState == [pc   : Pcs,
              kind : Kinds,
              key  : Keys \cup {None},
              row  : Row \cup {None},
              out  : Outcome \cup {None}]

Idle == [pc |-> "idle", kind |-> "request", key |-> None,
         row |-> None, out |-> None]

RowKeys == {L2Key(k) : k \in Keys}

Reply == [task : Task, key : Keys, out : Outcome]

TypeOK ==
  /\ now \in Nat
  /\ l1 \in [Keys -> Entry \cup {None}]
  /\ l2 \in [RowKeys -> Row \cup {None}]
  /\ flight \in [Keys -> Task \cup {None}]
  /\ task \in [Task -> TaskState]
  /\ reply \in Reply \cup {None}

Init ==
  /\ now = 0
  /\ l1 = [k \in Keys |-> None]
  /\ l2 = [x \in RowKeys |-> None]
  /\ flight = [k \in Keys |-> None]
  /\ task = [t \in Task |-> Idle]
  /\ reply = None

-----------------------------------------------------------------------------
At(t, pc) == task[t].pc = pc
KeyOf(t) == task[t].key
Leads(t) == task[t].pc \in LeaderPcs /\ task[t].kind # "orphan"

\* (Mutant of Done) A call that has returned is left in a state of its own.
DoneLingering(t) == task' = [task EXCEPT ![t].pc = "returned"]

Goto(t, pc) == task' = [task EXCEPT ![t].pc = pc]
Done(t) == task' = [task EXCEPT ![t] = Idle]

\* Task t returns outcome v; only a request has a client to hand it to.
Return(t, v) ==
  reply' = IF task[t].kind = "request"
             THEN [task |-> t, key |-> KeyOf(t), out |-> v]
             ELSE None
NoReply == reply' = None

\* moka's insert with SearchExpiry: a new entry gets the key's TTL; an
\* insert over a live entry keeps that entry's expiry, since
\* expire_after_update has its default.
Inserted(k, v) ==
  [l1 EXCEPT ![k] =
     [val |-> v,
      exp |-> IF l1[k] = None THEN now + Ttl(k) ELSE l1[k].exp]]

\* (For the mutants of FetchErr and Publish) The waiter is removed but nobody
\* wakes the followers.
LandedAlone(t, k, v) ==
  /\ flight' = [flight EXCEPT ![k] = None]
  /\ task' = [task EXCEPT ![t] = Idle]

\* The flight of k ends with outcome v: the waiter is removed and the
\* followers wake up with the leader's outcome; the leader t itself is done.
Landed(t, k, v) ==
  /\ flight' = [flight EXCEPT ![k] = None]
  /\ task' = [u \in Task |->
       IF u = t THEN Idle
       ELSE IF At(u, "wait") /\ KeyOf(u) = k
         THEN [task[u] EXCEPT !.pc = "woken", !.out = v]
       ELSE task[u]]

-----------------------------------------------------------------------------
\* A call of cached_search begins: in a search request's fan-out, or
\* detached as a prewarm.
Start(t, k, kind) ==
  /\ At(t, "idle")
  /\ task' = [task EXCEPT ![t] =
                [Idle EXCEPT !.pc = "lookup", !.kind = kind, !.key = k]]
  /\ NoReply
  /\ UNCHANGED <<now, l1, l2, flight>>

\* cache.get(&key): a live entry is the answer.
L1Hit(t) ==
  /\ At(t, "lookup")
  /\ l1[KeyOf(t)] # None
  /\ Return(t, l1[KeyOf(t)].val)
  /\ Done(t)
  /\ UNCHANGED <<now, l1, l2, flight>>

L1Miss(t) ==
  /\ At(t, "lookup")
  /\ l1[KeyOf(t)] = None
  /\ Goto(t, IF L2Enabled THEN "select" ELSE "join")
  /\ NoReply
  /\ UNCHANGED <<now, l1, l2, flight>>

\* The SELECT of L2Cache::get finds a row.
SelectRow(t) ==
  /\ At(t, "select")
  /\ l2[L2Key(KeyOf(t))] # None
  /\ task' = [task EXCEPT ![t].pc = "judge",
                          ![t].row = l2[L2Key(KeyOf(t))]]
  /\ NoReply
  /\ UNCHANGED <<now, l1, l2, flight>>

\* The SELECT finds nothing, or fails, which counts as a miss.
SelectMiss(t) ==
  /\ At(t, "select")
  /\ Goto(t, "join")
  /\ NoReply
  /\ UNCHANGED <<now, l1, l2, flight>>

\* (Mutant of Unusable) The grace window is forgotten: a row that decodes is
\* served whatever its age.
UnusableAnyAge(row, k) == ~row.readable

\* What L2Cache::get makes of a row.  The age is tested before the payload
\* is decoded; either way the row is swept.
Unusable(row, k) == now > row.exp + Ttl(k) \/ ~row.readable
Fresh(row, k) == ~Unusable(row, k) /\ now < row.exp
Stale(row, k) == ~Unusable(row, k) /\ now >= row.exp

JudgeUnusable(t) ==
  /\ At(t, "judge")
  /\ Unusable(task[t].row, KeyOf(t))
  /\ task' = [task EXCEPT ![t].pc = "sweep", ![t].row = None]
  /\ NoReply
  /\ UNCHANGED <<now, l1, l2, flight>>

\* L2Lookup::Fresh: re-warm L1 and return.
ServeFresh(t) ==
  /\ At(t, "judge")
  /\ Fresh(task[t].row, KeyOf(t))
  /\ l1' = Inserted(KeyOf(t), task[t].row.val)
  /\ Return(t, task[t].row.val)
  /\ Done(t)
  /\ UNCHANGED <<now, l2, flight>>

\* (Mutant of ServeStale) The stale hit re-warms L1 too, as the fresh one does.
ServeStaleRewarming(t) ==
  /\ At(t, "judge")
  /\ Stale(task[t].row, KeyOf(t))
  /\ l1' = Inserted(KeyOf(t), task[t].row.val)
  /\ Return(t, task[t].row.val)
  /\ task' = [task EXCEPT ![t] =
                [@ EXCEPT !.pc = "join", !.kind = "detached", !.row = None]]
  /\ UNCHANGED <<now, l2, flight>>

\* L2Lookup::Stale: return the stale results and spawn_refresh.  The task
\* goes on as the detached refresh.
ServeStale(t) ==
  /\ At(t, "judge")
  /\ Stale(task[t].row, KeyOf(t))
  /\ Return(t, task[t].row.val)
  /\ task' = [task EXCEPT ![t] =
                [@ EXCEPT !.pc = "join", !.kind = "detached", !.row = None]]
  /\ UNCHANGED <<now, l1, l2, flight>>

\* DELETE by primary key; its failure is ignored.  What follows is a miss.
Sweep(t) ==
  /\ At(t, "sweep")
  /\ \/ l2' = [l2 EXCEPT ![L2Key(KeyOf(t))] = None]
     \/ UNCHANGED l2
  /\ IF task[t].kind = "orphan" THEN Done(t) ELSE Goto(t, "join")
  /\ NoReply
  /\ UNCHANGED <<now, l1, flight>>

-----------------------------------------------------------------------------
\* try_get_with: a live entry is returned without a fetch,
JoinHit(t) ==
  /\ At(t, "join")
  /\ l1[KeyOf(t)] # None
  /\ Return(t, l1[KeyOf(t)].val)
  /\ Done(t)
  /\ UNCHANGED <<now, l1, l2, flight>>

\* a running flight of the key is awaited,
JoinWait(t) ==
  /\ At(t, "join")
  /\ l1[KeyOf(t)] = None
  /\ flight[KeyOf(t)] # None
  /\ Goto(t, "wait")
  /\ NoReply
  /\ UNCHANGED <<now, l1, l2, flight>>

\* (Mutant of JoinLead) Cache-aside without a waiter map: every miss fetches.
JoinLeadAlways(t) ==
  /\ At(t, "join")
  /\ l1[KeyOf(t)] = None
  /\ flight' = [flight EXCEPT ![KeyOf(t)] = t]
  /\ Goto(t, "fetch")
  /\ NoReply
  /\ UNCHANGED <<now, l1, l2>>

\* and otherwise the caller becomes the leader and asks upstream.
JoinLead(t) ==
  /\ At(t, "join")
  /\ l1[KeyOf(t)] = None
  /\ flight[KeyOf(t)] = None
  /\ flight' = [flight EXCEPT ![KeyOf(t)] = t]
  /\ Goto(t, "fetch")
  /\ NoReply
  /\ UNCHANGED <<now, l1, l2>>

\* (Mutant of FetchOk) The expiry of the row is computed with the grace window
\* already in it.
FetchOkWithGrace(t) ==
  LET v == [key |-> KeyOf(t), at |-> now, ok |-> TRUE] IN
  /\ At(t, "fetch")
  /\ task' = [task EXCEPT ![t] =
       IF L2Enabled
         THEN [@ EXCEPT !.pc = "write",
                        !.row = [val |-> v, exp |-> now + 2 * Ttl(KeyOf(t)),
                                 readable |-> TRUE]]
         ELSE [@ EXCEPT !.pc = "publish", !.out = v]]
  /\ NoReply
  /\ UNCHANGED <<now, l1, l2, flight>>

\* source.search succeeds.  L2Cache::insert takes the expiry from the clock
\* before its upsert is awaited.
FetchOk(t) ==
  LET v == [key |-> KeyOf(t), at |-> now, ok |-> TRUE] IN
  /\ At(t, "fetch")
  /\ task' = [task EXCEPT ![t] =
       IF L2Enabled
         THEN [@ EXCEPT !.pc = "write",
                        !.row = [val |-> v, exp |-> now + Ttl(KeyOf(t)),
                                 readable |-> TRUE]]
         ELSE [@ EXCEPT !.pc = "publish", !.out = v]]
  /\ NoReply
  /\ UNCHANGED <<now, l1, l2, flight>>

\* (Mutant of FetchErr) The error is returned to the leader alone.
FetchErrAlone(t) ==
  LET v == [key |-> KeyOf(t), at |-> now, ok |-> FALSE] IN
  /\ At(t, "fetch")
  /\ LandedAlone(t, KeyOf(t), v)
  /\ Return(t, v)
  /\ UNCHANGED <<now, l1, l2>>

\* source.search fails: nothing is cached, the leader and its followers get
\* the error.
FetchErr(t) ==
  LET v == [key |-> KeyOf(t), at |-> now, ok |-> FALSE] IN
  /\ At(t, "fetch")
  /\ Landed(t, KeyOf(t), v)
  /\ Return(t, v)
  /\ UNCHANGED <<now, l1, l2>>

\* The upsert is executed, or fails, which is ignored.
WriteRow(t) ==
  /\ At(t, "write")
  /\ \/ l2' = [l2 EXCEPT ![L2Key(KeyOf(t))] = task[t].row]
     \/ UNCHANGED l2
  /\ task' = [task EXCEPT ![t] =
       IF @.kind = "orphan" THEN Idle
       ELSE [@ EXCEPT !.pc = "publish", !.out = task[t].row.val, !.row = None]]
  /\ NoReply
  /\ UNCHANGED <<now, l1, flight>>

\* (Mutant of Publish) L1 is filled, and the followers are left to themselves.
PublishAlone(t) ==
  /\ At(t, "publish")
  /\ l1' = Inserted(KeyOf(t), task[t].out)
  /\ LandedAlone(t, KeyOf(t), task[t].out)
  /\ Return(t, task[t].out)
  /\ UNCHANGED <<now, l2>>

\* The leader's init future is done: moka inserts its value and wakes the
\* followers.
Publish(t) ==
  /\ At(t, "publish")
  /\ l1' = Inserted(KeyOf(t), task[t].out)
  /\ Landed(t, KeyOf(t), task[t].out)
  /\ Return(t, task[t].out)
  /\ UNCHANGED <<now, l2>>

\* A follower returns what its leader came back with.
Wake(t) ==
  /\ At(t, "woken")
  /\ Return(t, task[t].out)
  /\ Done(t)
  /\ UNCHANGED <<now, l1, l2, flight>>

-----------------------------------------------------------------------------
\* The client disconnects and the handler's future is dropped.  A leader's
\* flight is given up: moka lets the followers try again.  A SQL write that
\* was under way may be executed all the same.
Cancel(t) ==
  LET k == KeyOf(t)
      rest == IF task[t].pc \in {"sweep", "write"}
                THEN {Idle, [task[t] EXCEPT !.kind = "orphan"]}
                ELSE {Idle}
  IN
  /\ ~At(t, "idle")
  /\ task[t].kind = "request"
  /\ flight' = IF Leads(t) THEN [flight EXCEPT ![k] = None] ELSE flight
  /\ \E r \in rest :
       task' = [u \in Task |->
         IF u = t THEN r
         ELSE IF Leads(t) /\ At(u, "wait") /\ KeyOf(u) = k
           THEN [task[u] EXCEPT !.pc = "join"]
         ELSE task[u]]
  /\ NoReply
  /\ UNCHANGED <<now, l1, l2>>

\* moka drops an entry at its capacity, or does not admit a new one.
Evict(k) ==
  /\ l1[k] # None
  /\ l1' = [l1 EXCEPT ![k] = None]
  /\ NoReply
  /\ UNCHANGED <<now, l2, flight, task>>

\* The process is restarted, perhaps as a new version that cannot decode
\* the rows in a set `drifted` any more.
Restart ==
  /\ l1' = [k \in Keys |-> None]
  /\ flight' = [k \in Keys |-> None]
  /\ task' = [t \in Task |-> Idle]
  /\ \E drifted \in SUBSET RowKeys :
       l2' = [x \in RowKeys |->
                IF x \in drifted /\ l2[x] # None
                  THEN [l2[x] EXCEPT !.readable = FALSE] ELSE l2[x]]
  /\ NoReply
  /\ UNCHANGED now

\* A tick of the clock; moka expires what has reached its time.
Tick ==
  /\ now < MaxTime
  /\ \A t \in Task : task[t].pc \notin LocalPcs
  /\ \A t \in Task : At(t, "write") => now < task[t].row.val.at + DbLag
  /\ now' = now + 1
  /\ l1' = [k \in Keys |->
              IF l1[k] # None /\ now + 1 < l1[k].exp THEN l1[k] ELSE None]
  /\ NoReply
  /\ UNCHANGED <<l2, flight, task>>

-----------------------------------------------------------------------------
Lookup(t) == L1Hit(t) \/ L1Miss(t)
Select(t) == SelectRow(t) \/ SelectMiss(t)
Judge(t) == JudgeUnusable(t) \/ ServeFresh(t) \/ ServeStale(t)
TryGetWith(t) == JoinHit(t) \/ JoinWait(t) \/ JoinLead(t)
Fetched(t) == FetchOk(t) \/ FetchErr(t)

\* The steps of a call once it has begun.
Step(t) == \/ Lookup(t) \/ Select(t) \/ Judge(t) \/ Sweep(t) \/ TryGetWith(t)
           \/ Fetched(t) \/ WriteRow(t) \/ Publish(t) \/ Wake(t)

Next ==
  \/ \E t \in Task :
       \/ \E k \in Keys, kind \in {"request", "detached"} : Start(t, k, kind)
       \/ Step(t)
       \/ Cancel(t)
  \/ \E k \in Keys : Evict(k)
  \/ Restart
  \/ Tick

Spec == Init /\ [][Next]_vars

\* The executor runs every ready task and every await ends: SQLite answers,
\* and the sources' HTTP clients have timeouts.
Fairness == \A t \in Task : WF_vars(Step(t))
FairSpec == Spec /\ Fairness

-----------------------------------------------------------------------------
\* Nobody is answered with the results of another search.  The keys of the
\* instance differ in one field only, or join to similar texts.
AnswerIsForKey == reply # None => reply.out.key = reply.key

\* Results are at most two TTLs old when a client gets them, however the
\* tiers add up: a row served at the end of its grace window, a row that
\* re-warms L1 just before it expires, an entry that is overwritten in place,
\* a slow upsert before the L1 insert.  An error is passed on in the instant
\* it happens and never comes out of a cache.
AnswerIsRecent ==
  reply # None =>
    IF reply.out.ok THEN now - reply.out.at <= 2 * Ttl(reply.key)
                    ELSE reply.out.at = now

\* At most one task per key asks upstream ("N concurrent identical misses
\* collapse into one upstream call"), and it is the one the followers wait for.
SingleFlight ==
  \A t \in Task : Leads(t) => flight[KeyOf(t)] = t

\* Nobody waits for a flight that no task flies: a follower whose leader failed,
\* was cancelled or was restarted away has been woken.
FollowersHaveLeader ==
  \A t \in Task : At(t, "wait") =>
    /\ flight[KeyOf(t)] # None
    /\ Leads(flight[KeyOf(t)])
    /\ KeyOf(flight[KeyOf(t)]) = KeyOf(t)

\* How old what the tiers hold can get: the strengthening that makes
\* AnswerIsRecent inductive.  A row expires one TTL after its fetch, an L1
\* entry at most one TTL from now and at most two after its fetch.
OutcomeBound(v, k) == v.key = k /\ v.at <= now
RowBound(row, k) ==
  OutcomeBound(row.val, k) /\ row.val.ok /\ row.exp = row.val.at + Ttl(k)
TierBound ==
  /\ \A k \in Keys : l1[k] # None =>
       /\ OutcomeBound(l1[k].val, k) /\ l1[k].val.ok
       /\ now < l1[k].exp
       /\ l1[k].exp <= now + Ttl(k)
       /\ l1[k].exp <= l1[k].val.at + 2 * Ttl(k)
  /\ \A k \in Keys : l2[L2Key(k)] # None => RowBound(l2[L2Key(k)], k)

\* Every call that has begun comes to an end, as an answer, an error or with
\* its client gone, followers of failed and of cancelled leaders and background
\* refreshes included, unless clients go on disconnecting for ever.
CallsEnd ==
  <>[][\A t \in Task : ~Cancel(t)]_vars
    => \A t \in Task : task[t].pc # "idle" ~> task[t].pc = "idle"

\* The outcomes that the tiers and the running calls hold.
Held ==
  {l1[k].val : k \in {j \in Keys : l1[j] # None}}
    \cup {l2[x].val : x \in {y \in RowKeys : l2[y] # None}}
    \cup {task[t].row.val : t \in {u \in Task : task[u].pc \in {"judge", "write"}}}
    \cup {task[t].out : t \in {u \in Task : task[u].pc \in {"publish", "woken"}}}

\* The cache keeps the promise of ReadThrough to its callers.
Promise == INSTANCE ReadThrough
             WITH MaxAge <- [k \in Keys |-> 2 * Ttl(k)], held <- Held
KeepsPromise == Promise!Spec

=============================================================================
