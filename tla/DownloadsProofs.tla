---------------------------- MODULE DownloadsProofs ----------------------------
(***************************************************************************)
(* The promises of Downloads, for every number of tasks, any crowd, any    *)
(* deploys of MuseScore, any page count and any names: the invariants of   *)
(* its components, the types, and that a task is known to the one          *)
(* component that works for it.                                            *)
(***************************************************************************)
EXTENDS DownloadsPartsProofs, FiniteSetTheorems

USE DownloadsAssumption

-----------------------------------------------------------------------------
(* Who is where. *)

RequestPcs == {"idle", "ug", "wk", "jm", "imslp", "disclaimer", "fetch", "mutopia",
               "fetched", "failed", "store"}
RequestState == [pc : RequestPcs, add : BOOLEAN]

In(pc) == {t \in Task : request[t].pc = pc}
UgBusy == {t \in Task : ~Ug!At(t, "idle")}
WkBusy == {t \in Task : ~Wk!At(t, "idle")}
JmBusy == {t \in Task : ~Jm!At(t, "idle")}
LbBusy == {t \in Task : ~Lb!At(t, "idle")}

\* The requests that still have an add to begin.
Adding == {t \in Task : request[t].add}

Placed ==
  /\ request \in [Task -> RequestState]
  /\ UgBusy = In("ug") /\ WkBusy = In("wk") /\ JmBusy = In("jm") /\ LbBusy = In("store")

IInv ==
  /\ WkInv /\ JmInv /\ LbInv /\ Ug!TypeOK
  /\ crowd \in Crowds
  /\ Placed
  /\ lbAdds + Cardinality(Adding) <= crowd.adds

\* Of each component: who begins, goes on and leaves.
LEMMA UgMoves ==
  ASSUME Ug!TypeOK, NEW t \in Task
  PROVE  /\ Ug!Begin(t) => Ug!TypeOK' /\ UgBusy' = UgBusy \cup {t}
         /\ Ug!Drop(t) => Ug!TypeOK' /\ UgBusy' = UgBusy \ {t}
         /\ Ug!Step(t) \/ Ug!LockSlot(t) => Ug!TypeOK' /\ UgBusy' = UgBusy
<1>1. ASSUME Ug!Begin(t) PROVE Ug!TypeOK' /\ UgBusy' = UgBusy \cup {t}
  BY <1>1 DEF Ug!TypeOK, UgBusy, Ug!At, Ug!Goto, Ug!Begin
<1>2. ASSUME Ug!Drop(t) PROVE Ug!TypeOK' /\ UgBusy' = UgBusy \ {t}
  BY <1>2 DEF Ug!TypeOK, UgBusy, Ug!At, Ug!Drop, Ug!Idle
<1>3. ASSUME Ug!Step(t) \/ Ug!LockSlot(t) PROVE Ug!TypeOK' /\ UgBusy' = UgBusy
  <2>1. CASE Ug!LockFilled(t)
    BY <2>1 DEF Ug!TypeOK, UgBusy, Ug!At, Ug!LockFilled
  <2>8. CASE Ug!LockEmpty(t)
    BY <2>8 DEF Ug!TypeOK, UgBusy, Ug!At, Ug!Goto, Ug!LockEmpty
  <2>2. CASE Ug!DirectHit(t) \/ Ug!DirectMiss(t)
    <3>1. CASE Ug!DirectHit(t)
      BY <3>1 DEF Ug!TypeOK, UgBusy, Ug!At, Ug!Goto, Ug!DirectHit
    <3>2. CASE Ug!DirectMiss(t)
      BY <3>2 DEF Ug!TypeOK, UgBusy, Ug!At, Ug!Goto, Ug!DirectMiss
    <3> QED BY <2>2, <3>1, <3>2
  <2>3. CASE Ug!CreateOk(t)
    BY <2>3 DEF Ug!TypeOK, UgBusy, Ug!At, Ug!CreateOk
  <2>4. CASE Ug!CreateFails(t)
    BY <2>4 DEF Ug!TypeOK, UgBusy, Ug!At, Ug!Goto, Ug!CreateFails
  <2>5. CASE Ug!GetOk(t)
    BY <2>5 DEF Ug!TypeOK, UgBusy, Ug!At, Ug!Goto, Ug!GetOk
  <2>6. CASE Ug!GetFails(t)
    BY <2>6 DEF Ug!TypeOK, UgBusy, Ug!At, Ug!Goto, Ug!GetFails, Ug!Missing
  <2>7. CASE Ug!Render(t)
    BY <2>7 DEF Ug!TypeOK, UgBusy, Ug!At, Ug!Goto, Ug!Render
  <2> QED BY <1>3, <2>1, <2>2, <2>3, <2>4, <2>5, <2>6, <2>7, <2>8 DEF Ug!Step, Ug!LockSlot
<1> QED BY <1>1, <1>2, <1>3

LEMMA WkMoves ==
  ASSUME WkInv
  PROVE  /\ \A t \in Task : Wk!Begin(t) => WkBusy' = WkBusy \cup {t}
         /\ \A t \in Task : Wk!Drop(t) => WkBusy' = WkBusy \ {t}
         /\ \A t \in Task : Wk!GiveUp(t) => WkBusy' = WkBusy
         /\ Wk!Worker => WkBusy' = WkBusy
<1>1. ASSUME NEW t \in Task, Wk!Begin(t) PROVE WkBusy' = WkBusy \cup {t}
  BY <1>1 DEF WkInv, Wk!TypeOK, WkBusy, Wk!At, Wk!Begin
<1>2. ASSUME NEW t \in Task, Wk!Drop(t) PROVE WkBusy' = WkBusy \ {t}
  BY <1>2 DEF WkInv, Wk!TypeOK, WkBusy, Wk!At, Wk!Drop
<1>3. ASSUME NEW t \in Task, Wk!GiveUp(t) PROVE WkBusy' = WkBusy
  BY <1>3 DEF WkInv, Wk!TypeOK, WkBusy, Wk!At, Wk!GiveUp
<1>4. ASSUME NEW ends \in {{"ok", "err"}, {"err"}}, Wk!Answer(ends)
      PROVE  WkBusy' = WkBusy
  <2>1. CASE wkHarvest.client = None
    BY <1>4, <2>1 DEF WkBusy, Wk!At, Wk!Answer
  <2>2. CASE wkHarvest.client # None
    <3>1. wkHarvest.client \in Task /\ Wk!At(wkHarvest.client, "waiting")
      BY <2>2 DEF WkInv, Wk!TypeOK, Client
    <3>2. PICK end \in ends : wkCall' = [wkCall EXCEPT ![wkHarvest.client] = end]
      BY <1>4, <2>2 DEF Wk!Answer
    <3>3. end # "idle"
      BY <1>4, <3>2
    <3> QED BY <3>1, <3>2, <3>3 DEF WkInv, Wk!TypeOK, WkBusy, Wk!At
  <2> QED BY <2>1, <2>2
<1>5. ASSUME Wk!Worker PROVE WkBusy' = WkBusy
  <2>1. CASE UNCHANGED wkCall
    BY <2>1 DEF WkBusy, Wk!At
  <2> QED
    BY <1>4, <1>5, <2>1
    DEF Wk!Worker, Wk!Lock, Wk!Launch, Wk!LaunchFails, Wk!HarvestOk, Wk!HarvestFails
<1> QED BY <1>1, <1>2, <1>3, <1>5

LEMMA JmMoves ==
  ASSUME JmInv, NEW t \in Task
  PROVE  /\ Jm!Begin(t) => JmBusy' = JmBusy \cup {t}
         /\ Jm!Drop(t) => JmBusy' = JmBusy \ {t}
         /\ Jm!Step(t) => JmBusy' = JmBusy
<1>1. DOMAIN jmCall = Task /\ \A u \in Task : jmCall[u] \in JmCall
  BY DEF JmInv, Sound
<1>2. Jm!Begin(t) => JmBusy' = JmBusy \cup {t}
  BY <1>1 DEF JmCall, JmBusy, Jm!At, Jm!Goto, Jm!Begin
<1>3. Jm!Drop(t) => JmBusy' = JmBusy \ {t}
  BY <1>1 DEF JmBusy, Jm!At, Jm!Drop, Jm!Idle
<1>4. ASSUME ~Jm!At(t, "idle"), NEW c, c.pc # "idle", jmCall' = [jmCall EXCEPT ![t] = c]
      PROVE  JmBusy' = JmBusy
  BY <1>1, <1>4 DEF JmBusy, Jm!At
<1>5. ASSUME ~Jm!At(t, "idle"), NEW pc, pc # "idle", Jm!Goto(t, pc)
      PROVE  JmBusy' = JmBusy
  BY <1>1, <1>5 DEF JmCall, JmBusy, Jm!At, Jm!Goto
<1>6. ASSUME ~Jm!At(t, "idle"), Jm!Err(t) PROVE JmBusy' = JmBusy
  BY <1>1, <1>6 DEF JmBusy, Jm!At, Jm!Err, Jm!Idle
<1>7. ASSUME ~Jm!At(t, "idle"), NEW salts, Jm!Resolving(t, salts) PROVE JmBusy' = JmBusy
  BY <1>1, <1>7 DEF JmCall, JmBusy, Jm!At, Jm!Resolving
<1>8. ASSUME ~Jm!At(t, "idle"), NEW salt, Jm!Resolved(t, salt) PROVE JmBusy' = JmBusy
  BY <1>1, <1>8 DEF JmCall, JmBusy, Jm!At, Jm!Resolved
<1>9. ASSUME ~Jm!At(t, "idle"), jmCall' = [jmCall EXCEPT ![t].next = @ + 1]
      PROVE  JmBusy' = JmBusy
  BY <1>1, <1>9 DEF JmCall, JmBusy, Jm!At
<1>10. ASSUME Jm!Step(t) PROVE JmBusy' = JmBusy
  <2>1. CASE Jm!PageOk(t)
    BY <1>1, <2>1 DEF JmBusy, Jm!PageOk, Jm!At, Jm!Idle
  <2>2. CASE Jm!PageFails(t)
    BY <1>6, <2>2 DEF Jm!PageFails, Jm!At
  <2>3. CASE Jm!CacheHit(t) \/ Jm!WalkFound(t) \/ Jm!WalkEnds(t)
    BY <1>7, <2>3 DEF Jm!CacheHit, Jm!WalkFound, Jm!WalkEnds, Jm!At
  <2>4. CASE Jm!CacheMiss(t)
    BY <1>5, <2>4 DEF Jm!CacheMiss, Jm!At
  <2>5. CASE Jm!WalkNext(t)
    BY <1>9, <2>5 DEF Jm!WalkNext, Jm!At
  <2>6. CASE Jm!ResolveStatic(t) \/ Jm!JmuseOk(t)
    BY <1>8, <2>6 DEF Jm!ResolveStatic, Jm!JmuseOk, Jm!AsksJmuse, Jm!At
  <2>7. CASE Jm!JmuseFails(t)
    BY <1>6, <1>9, <2>7 DEF Jm!JmuseFails, Jm!AsksJmuse, Jm!At
  <2>8. CASE Jm!ImageLands(t)
    <3>1. jmCall[t].pc = "resolve"
          /\ \E l, f : jmCall' = [jmCall EXCEPT ![t].landed = l, ![t].failed = f]
      BY <2>8 DEF Jm!ImageLands, Jm!Fetching, Jm!At
    <3>2. PICK l, f : jmCall' = [jmCall EXCEPT ![t].landed = l, ![t].failed = f]
      BY <3>1
    <3> DEFINE c == [jmCall[t] EXCEPT !.landed = l, !.failed = f]
    <3>3. jmCall' = [jmCall EXCEPT ![t] = c] /\ c.pc = jmCall[t].pc
      BY <1>1, <3>2 DEF JmCall
    <3> HIDE DEF c
    <3> QED BY <1>4, <3>1, <3>3 DEF Jm!At
  <2>9. CASE Jm!JoinChunk(t)
    <3>1. CASE Jm!Err(t)
      BY <1>6, <2>9, <3>1 DEF Jm!JoinChunk, Jm!Fetching, Jm!At
    <3>2. CASE jmCall' = [jmCall EXCEPT ![t].pngs = @ \o Jm!Joined(t),
                                        ![t].landed = << >>]
      BY <1>1, <2>9, <3>2 DEF JmCall, JmBusy, Jm!JoinChunk, Jm!Fetching, Jm!At
    <3> QED BY <2>9, <3>1, <3>2 DEF Jm!JoinChunk
  <2>10. CASE Jm!Assemble(t)
    BY <1>5, <1>6, <2>10 DEF Jm!Assemble, Jm!Fetching, Jm!At
  <2> QED BY <1>10, <2>1, <2>2, <2>3, <2>4, <2>5, <2>6, <2>7, <2>8, <2>9, <2>10
      DEF Jm!Step
<1> QED BY <1>2, <1>3, <1>10

LEMMA LbMoves ==
  ASSUME LbInv, NEW t \in Task
  PROVE  /\ Lb!Begin(t) => LbBusy' = LbBusy \cup {t} /\ lbAdds' = lbAdds + 1
         /\ Lb!Drop(t) => LbBusy' = LbBusy \ {t} /\ lbAdds' = lbAdds
         /\ Lb!Step(t) => LbBusy' = LbBusy /\ lbAdds' = lbAdds
<1>1. lbCall \in [Task -> [pc : LbPcs, add : 0 .. lbAdds]]
  BY DEF LbInv, LbTypes
<1>2. Lb!Begin(t) => LbBusy' = LbBusy \cup {t} /\ lbAdds' = lbAdds + 1
  BY <1>1 DEF LbBusy, Lb!At, Lb!Begin
<1>3. Lb!Drop(t) => LbBusy' = LbBusy \ {t} /\ lbAdds' = lbAdds
  BY <1>1 DEF LbBusy, Lb!At, Lb!Drop, Lb!Idle
<1>4. ASSUME ~Lb!At(t, "idle"), NEW pc, pc # "idle", Lb!Goto(t, pc)
      PROVE  LbBusy' = LbBusy
  BY <1>1, <1>4 DEF LbBusy, Lb!At, Lb!Goto
<1>5. ASSUME Lb!Step(t)
      PROVE  LbBusy' = LbBusy /\ lbAdds' = lbAdds
  BY <1>4, <1>5
  DEF Lb!Step, Lb!Create, Lb!Write, Lb!Flush, Lb!InsertQueue, Lb!InsertLibrary, Lb!Fails,
      Lb!Fail, Lb!At
<1> QED BY <1>2, <1>3, <1>5

LEMMA Rests ==
  /\ UNCHANGED ug => UgBusy' = UgBusy /\ (Ug!TypeOK => Ug!TypeOK')
  /\ UNCHANGED wk => WkBusy' = WkBusy
  /\ UNCHANGED jm => JmBusy' = JmBusy
  /\ UNCHANGED lb => LbBusy' = LbBusy /\ lbAdds' = lbAdds
<1>1. UNCHANGED ug => UgBusy' = UgBusy /\ (Ug!TypeOK => Ug!TypeOK')
  BY DEF ug, UgBusy, Ug!At, Ug!TypeOK
<1>2. UNCHANGED wk => WkBusy' = WkBusy
  BY DEF wk, WkBusy, Wk!At
<1>3. UNCHANGED jm => JmBusy' = JmBusy
  BY DEF jm, JmBusy, Jm!At
<1>4. UNCHANGED lb => LbBusy' = LbBusy /\ lbAdds' = lbAdds
  BY DEF lb, LbBusy, Lb!At
<1> QED BY <1>1, <1>2, <1>3, <1>4

-----------------------------------------------------------------------------
(* The composition. *)

LinkInv ==
  /\ Ug!TypeOK /\ crowd \in Crowds /\ Placed
  /\ lbAdds + Cardinality(Adding) <= crowd.adds

LEMMA CrowdFacts ==
  ASSUME crowd \in Crowds
  PROVE  crowd.sources \subseteq Source /\ crowd.worker \in BOOLEAN /\ crowd.adds \in 0 .. AddBound
OBVIOUS

Seat(pc, place, t) == IF pc = place THEN {t} ELSE {}

LEMMA AddingIsFinite == IsFiniteSet(Adding) /\ Cardinality(Adding) \in Nat
<1>1. Adding \in SUBSET Task
  BY DEF Adding
<1> QED BY <1>1, FS_Subset, FS_CardinalityType

\* A task goes from one place to another.
LEMMA Relocates ==
  ASSUME Placed, NEW t \in Task, NEW r \in RequestState,
         request' = [request EXCEPT ![t] = r],
         UgBusy' = (UgBusy \ {t}) \cup Seat(r.pc, "ug", t),
         WkBusy' = (WkBusy \ {t}) \cup Seat(r.pc, "wk", t),
         JmBusy' = (JmBusy \ {t}) \cup Seat(r.pc, "jm", t),
         LbBusy' = (LbBusy \ {t}) \cup Seat(r.pc, "store", t)
  PROVE  Placed' /\ Adding' = (Adding \ {t}) \cup (IF r.add THEN {t} ELSE {})
<1>1. request \in [Task -> RequestState] /\ request' \in [Task -> RequestState]
  BY DEF Placed
<1>2. ASSUME NEW place PROVE In(place)' = (In(place) \ {t}) \cup Seat(r.pc, place, t)
  BY <1>1 DEF In, Seat
<1>3. /\ In("ug")' = UgBusy' /\ In("wk")' = WkBusy'
      /\ In("jm")' = JmBusy' /\ In("store")' = LbBusy'
  BY <1>2 DEF Placed
<1>4. Adding' = (Adding \ {t}) \cup (IF r.add THEN {t} ELSE {})
  BY <1>1 DEF Adding
<1> QED BY <1>1, <1>3, <1>4 DEF Placed

\* No add begins that was not counted.
LEMMA CountHolds ==
  ASSUME LinkInv, Adding' \subseteq Adding, lbAdds' = lbAdds, crowd' = crowd, lbAdds \in Nat
  PROVE  (lbAdds + Cardinality(Adding) <= crowd.adds)'
<1>1. Cardinality(Adding') <= Cardinality(Adding) /\ Cardinality(Adding') \in Nat
  BY AddingIsFinite, FS_Subset, FS_CardinalityType
<1>2. crowd.adds \in Nat
  BY CrowdFacts DEF LinkInv
<1> QED BY <1>1, <1>2, AddingIsFinite DEF LinkInv

LEMMA LinkInit == Init => LinkInv
<1>1. SUFFICES ASSUME Init PROVE LinkInv
  OBVIOUS
<1>2. Ug!TypeOK
  BY <1>1 DEF Init, Ug!Init, Ug!TypeOK, Ug!Idle
<1>3. Placed
  BY <1>1
  DEF Init, Idle, RequestState, RequestPcs, Placed, In, UgBusy, WkBusy, JmBusy, LbBusy,
      Ug!Init, Ug!At, Ug!Idle, Wk!Init, Wk!At, Jm!Init, Jm!At, Jm!Idle, Lb!Init, Lb!At, Lb!Idle
<1>4. Adding = {}
  BY <1>1 DEF Init, Idle, Adding
<1>5. Cardinality(Adding) = 0
  BY <1>4, FS_EmptySet
<1> QED BY <1>1, <1>2, <1>3, <1>5, CrowdFacts DEF LinkInv, Init, Lb!Init

LEMMA AsksLink ==
  ASSUME IInv, NEW t \in Task, NEW s \in crowd.sources, NEW add \in BOOLEAN, Ask(t, s, add)
  PROVE  LinkInv'
<1> DEFINE r == [pc |-> By(s), add |-> add]
<1>1. By(s) \in {"ug", "wk", "jm", "imslp", "mutopia"}
  <2>1. s \in Source
    BY CrowdFacts DEF IInv
  <2> QED BY <2>1 DEF By, Source
<1>2. r \in RequestState /\ request' = [request EXCEPT ![t] = r] /\ crowd' = crowd
  BY <1>1 DEF Ask, RequestState, RequestPcs
<1>3. t \notin UgBusy /\ t \notin WkBusy /\ t \notin JmBusy /\ t \notin LbBusy
  BY DEF IInv, Placed, In, Ask, At
<1>4. UgBusy' = (UgBusy \ {t}) \cup Seat(By(s), "ug", t) /\ Ug!TypeOK'
  BY <1>3, Rests, UgMoves DEF IInv, Ask, Seat
<1>5. WkBusy' = (WkBusy \ {t}) \cup Seat(By(s), "wk", t)
  BY <1>3, Rests, WkMoves DEF IInv, Ask, Seat
<1>6. JmBusy' = (JmBusy \ {t}) \cup Seat(By(s), "jm", t)
  BY <1>3, Rests, JmMoves DEF IInv, Ask, Seat
<1>7. LbBusy' = (LbBusy \ {t}) \cup Seat(By(s), "store", t) /\ lbAdds' = lbAdds
  BY <1>1, <1>3, Rests DEF Ask, Seat
<1>8. Placed' /\ Adding' = (Adding \ {t}) \cup (IF add THEN {t} ELSE {})
  BY <1>2, <1>4, <1>5, <1>6, <1>7, Relocates DEF IInv
<1>9. lbAdds \in Nat /\ LinkInv
  BY DEF IInv, LinkInv, LbInv, LbTypes
<1>10. (lbAdds + Cardinality(Adding) <= crowd.adds)'
  <2>1. CASE Adding' \subseteq Adding
    BY <1>2, <1>7, <1>9, <2>1, CountHolds
  <2>2. CASE add /\ Adding' = Adding \cup {t}
    <3>1. lbAdds + Cardinality(Adding) < crowd.adds
      BY <2>2 DEF Ask, Adding
    <3>2. Cardinality(Adding \cup {t}) <= Cardinality(Adding) + 1
          /\ Cardinality(Adding \cup {t}) \in Nat
      <4>1. Cardinality(Adding \cup {t}) = IF t \in Adding THEN Cardinality(Adding)
                                                           ELSE Cardinality(Adding) + 1
        BY AddingIsFinite, FS_AddElement
      <4> QED BY <4>1, AddingIsFinite
    <3>3. crowd.adds \in Nat
      BY CrowdFacts DEF IInv
    <3> QED BY <1>2, <1>7, <1>9, <2>2, <3>1, <3>2, <3>3, AddingIsFinite
  <2> QED BY <1>8, <2>1, <2>2
<1> QED BY <1>2, <1>4, <1>8, <1>9, <1>10 DEF LinkInv

\* A task is done with its components and goes on, or is over.
LEMMA LeavesLink ==
  ASSUME IInv, NEW t \in Task, NEW r \in RequestState,
         r.pc \notin {"ug", "wk", "jm", "store"}, r.add => request[t].add,
         request' = [request EXCEPT ![t] = r], crowd' = crowd,
         IF At(t, "ug") THEN Ug!Drop(t) ELSE UNCHANGED ug,
         IF At(t, "wk") THEN Wk!Drop(t) ELSE UNCHANGED wk,
         IF At(t, "jm") THEN Jm!Drop(t) ELSE UNCHANGED jm,
         IF At(t, "store") THEN Lb!Drop(t) ELSE UNCHANGED lb
  PROVE  LinkInv'
<1>1. /\ UgBusy' = (UgBusy \ {t}) \cup Seat(r.pc, "ug", t) /\ Ug!TypeOK'
      /\ WkBusy' = (WkBusy \ {t}) \cup Seat(r.pc, "wk", t)
      /\ JmBusy' = (JmBusy \ {t}) \cup Seat(r.pc, "jm", t)
      /\ LbBusy' = (LbBusy \ {t}) \cup Seat(r.pc, "store", t) /\ lbAdds' = lbAdds
  <2>1. UgBusy' = UgBusy \ {t} /\ Ug!TypeOK'
    BY Rests, UgMoves DEF IInv, Placed, In, At
  <2>2. WkBusy' = WkBusy \ {t}
    BY Rests, WkMoves DEF IInv, Placed, In, At
  <2>3. JmBusy' = JmBusy \ {t}
    BY Rests, JmMoves DEF IInv, Placed, In, At
  <2>4. LbBusy' = LbBusy \ {t} /\ lbAdds' = lbAdds
    BY Rests, LbMoves DEF IInv, Placed, In, At
  <2> QED BY <2>1, <2>2, <2>3, <2>4 DEF Seat
<1>2. Placed' /\ Adding' = (Adding \ {t}) \cup (IF r.add THEN {t} ELSE {})
  BY <1>1, Relocates DEF IInv
<1>3. Adding' \subseteq Adding
  BY <1>2 DEF Adding
<1>4. LinkInv /\ lbAdds \in Nat
  BY DEF IInv, LinkInv, LbInv, LbTypes
<1> QED BY <1>1, <1>2, <1>3, <1>4, CountHolds DEF LinkInv

LEMMA StoresLink ==
  ASSUME IInv, NEW t \in Task, Store(t)
  PROVE  LinkInv'
<1> DEFINE r == [pc |-> "store", add |-> FALSE]
<1>1. /\ r \in RequestState /\ request' = [request EXCEPT ![t] = r] /\ crowd' = crowd
      /\ t \in Adding /\ lbAdds \in Nat
  BY DEF IInv, LbInv, LbTypes, Store, Adding, RequestState, RequestPcs
<1>2. t \notin UgBusy /\ t \notin WkBusy /\ t \notin JmBusy /\ t \notin LbBusy
  BY DEF IInv, Placed, In, Store, At
<1>3. /\ UgBusy' = UgBusy /\ Ug!TypeOK' /\ WkBusy' = WkBusy /\ JmBusy' = JmBusy
      /\ LbBusy' = LbBusy \cup {t} /\ lbAdds' = lbAdds + 1
  BY Rests, LbMoves DEF IInv, Store
<1>4. /\ UgBusy' = (UgBusy \ {t}) \cup Seat(r.pc, "ug", t)
      /\ WkBusy' = (WkBusy \ {t}) \cup Seat(r.pc, "wk", t)
      /\ JmBusy' = (JmBusy \ {t}) \cup Seat(r.pc, "jm", t)
      /\ LbBusy' = (LbBusy \ {t}) \cup Seat(r.pc, "store", t)
  BY <1>2, <1>3 DEF Seat
<1>5. Placed' /\ Adding' = Adding \ {t}
  BY <1>1, <1>4, Relocates DEF IInv
<1>6. Cardinality(Adding') = Cardinality(Adding) - 1
  BY <1>1, <1>5, AddingIsFinite, FS_RemoveElement
<1>7. crowd \in Crowds /\ crowd.adds \in Nat /\ lbAdds + Cardinality(Adding) <= crowd.adds
  BY CrowdFacts DEF IInv
<1>8. (lbAdds + Cardinality(Adding) <= crowd.adds)'
  BY <1>1, <1>3, <1>6, <1>7, AddingIsFinite
<1> QED BY <1>1, <1>3, <1>5, <1>7, <1>8 DEF LinkInv

\* A component works and everybody stays in place.
LEMMA StaysLink ==
  ASSUME IInv, UNCHANGED own, Ug!TypeOK', lbAdds' = lbAdds,
         UgBusy' = UgBusy, WkBusy' = WkBusy, JmBusy' = JmBusy, LbBusy' = LbBusy
  PROVE  LinkInv'
<1>1. UNCHANGED <<crowd, request>> /\ LinkInv /\ lbAdds \in Nat
  BY DEF own, IInv, LinkInv, LbInv, LbTypes
<1>2. Placed' /\ Adding' = Adding
  BY <1>1 DEF LinkInv, Placed, In, Adding
<1> QED BY <1>1, <1>2, CountHolds DEF LinkInv

LEMMA CrashLink ==
  ASSUME IInv, Crash
  PROVE  LinkInv'
<1>1. Ug!TypeOK'
  BY DEF IInv, Crash, Ug!TypeOK, Ug!Idle
<1>2. Placed'
  BY
  DEF Crash, Idle, RequestState, RequestPcs, Placed, In, UgBusy, WkBusy, JmBusy, LbBusy,
      Ug!At, Ug!Idle, Wk!At, Jm!At, Jm!Idle, Lb!At, Lb!Idle
<1>3. Adding' = {} /\ UNCHANGED <<crowd, lbAdds>>
  BY DEF Crash, Idle, Adding
<1>4. LinkInv /\ lbAdds \in Nat
  BY DEF IInv, LinkInv, LbInv, LbTypes
<1> QED BY <1>1, <1>2, <1>3, <1>4, CountHolds DEF LinkInv

LEMMA LinkInductive == IInv /\ [Next]_vars => LinkInv'
<1>1. SUFFICES ASSUME IInv, [Next]_vars PROVE LinkInv'
  OBVIOUS
<1>2. request \in [Task -> RequestState]
  BY <1>1 DEF IInv, Placed
<1>3. Idle \in RequestState /\ Idle.pc = "idle" /\ Idle.add = FALSE
  BY DEF Idle, RequestState, RequestPcs
<1>4. ASSUME NEW t \in Task, NEW pc \in {"disclaimer", "fetch", "fetched", "failed"}, Goto(t, pc)
      PROVE  \E r \in RequestState :
               /\ request' = [request EXCEPT ![t] = r]
               /\ r.pc = pc /\ r.add = request[t].add
  <2> DEFINE r == [pc |-> pc, add |-> request[t].add]
  <2>1. r \in RequestState
    BY <1>2 DEF RequestState, RequestPcs
  <2>2. request' = [request EXCEPT ![t] = r]
    <3>1. request[t] = [pc |-> request[t].pc, add |-> request[t].add]
      BY <1>2 DEF RequestState
    <3>2. [request[t] EXCEPT !.pc = pc] = r
      BY <3>1
    <3>3. request' = [request EXCEPT ![t] = [request[t] EXCEPT !.pc = pc]]
      BY <1>4 DEF Goto
    <3> QED BY <3>2, <3>3
  <2> QED BY <2>1, <2>2
<1>5. ASSUME NEW t \in Task, Plain(t) PROVE LinkInv'
  <2>1. PICK pc \in {"disclaimer", "fetch", "fetched", "failed"} :
          Goto(t, pc) /\ UNCHANGED <<crowd, ug, wk, jm, lb>>
    BY <1>5 DEF Plain, FindPdfUrl, PassDisclaimer, FetchFromImslp, FetchFromMutopia, Moves
  <2>2. PICK r \in RequestState : /\ request' = [request EXCEPT ![t] = r]
                                  /\ r.pc = pc /\ r.add = request[t].add
    BY <1>4, <2>1
  <2>3. /\ ~At(t, "ug") /\ ~At(t, "wk") /\ ~At(t, "jm") /\ ~At(t, "store")
    BY <1>5 DEF Plain, FindPdfUrl, PassDisclaimer, FetchFromImslp, FetchFromMutopia, At
  <2> QED BY <1>1, <2>1, <2>2, <2>3, LeavesLink
<1>6. ASSUME NEW t \in Task, Join(t) PROVE LinkInv'
  <2>1. PICK pc \in {"fetched", "failed"} : Goto(t, pc)
    BY <1>6 DEF Join, Joined
  <2>2. PICK r \in RequestState : /\ request' = [request EXCEPT ![t] = r]
                                  /\ r.pc = pc /\ r.add = request[t].add
    BY <1>4, <2>1
  <2>3. ~At(t, "store") /\ UNCHANGED <<crowd, lb>>
    BY <1>6 DEF Join, Joined, At
  <2>4. /\ IF At(t, "ug") THEN Ug!Drop(t) ELSE UNCHANGED ug
        /\ IF At(t, "wk") THEN Wk!Drop(t) ELSE UNCHANGED wk
        /\ IF At(t, "jm") THEN Jm!Drop(t) ELSE UNCHANGED jm
    BY <1>6 DEF Join, Joined
  <2> QED BY <1>1, <2>1, <2>2, <2>3, <2>4, LeavesLink
<1>7. ASSUME NEW t \in Task, Respond(t) PROVE LinkInv'
  <2>1. ~At(t, "ug") /\ ~At(t, "wk") /\ ~At(t, "jm") /\ ~At(t, "store")
    BY <1>7 DEF Respond, At
  <2>2. request' = [request EXCEPT ![t] = Idle] /\ UNCHANGED <<crowd, ug, wk, jm, lb>>
    BY <1>7 DEF Respond
  <2> QED BY <1>1, <1>3, <2>1, <2>2, LeavesLink
<1>8. ASSUME NEW t \in Task, Stored(t) PROVE LinkInv'
  <2>1. ~At(t, "ug") /\ ~At(t, "wk") /\ ~At(t, "jm") /\ At(t, "store")
    BY <1>8 DEF Stored, At
  <2>2. /\ request' = [request EXCEPT ![t] = Idle] /\ Lb!Drop(t)
        /\ UNCHANGED <<crowd, ug, wk, jm>>
    BY <1>8 DEF Stored
  <2> QED BY <1>1, <1>3, <2>1, <2>2, LeavesLink
<1>9. ASSUME NEW t \in Task, Disconnect(t) PROVE LinkInv'
  BY <1>1, <1>3, <1>9, LeavesLink DEF Disconnect
<1>10. ASSUME NEW t \in Task, UgLock(t) \/ (Ug!Step(t) /\ UgOnly) PROVE LinkInv'
  BY <1>1, <1>10, UgMoves, Rests, StaysLink DEF IInv, UgLock, UgOnly
<1>11. ASSUME NEW t \in Task, (Wk!GiveUp(t) /\ WkOnly) \/ WkStep PROVE LinkInv'
  BY <1>1, <1>11, WkMoves, Rests, StaysLink DEF IInv, WkStep, WkOnly
<1>12. ASSUME NEW t \in Task, Jm!Step(t) /\ JmOnly PROVE LinkInv'
  BY <1>1, <1>12, JmMoves, Rests, StaysLink DEF IInv, JmOnly
<1>13. ASSUME NEW t \in Task, Lb!Step(t) /\ LbOnly PROVE LinkInv'
  BY <1>1, <1>13, LbMoves, Rests, StaysLink DEF IInv, LbOnly
<1>14. ASSUME NEW t \in Task, Proceed(t) PROVE LinkInv'
  BY <1>1, <1>5, <1>6, <1>7, <1>8, <1>10, <1>11, <1>12, <1>13, <1>14, StoresLink DEF Proceed
<1>15. CASE WkStep
  BY <1>1, <1>15, WkMoves, Rests, StaysLink DEF IInv, WkStep, WkOnly
<1>16. CASE Ug!FsLoses /\ UgOnly
  <2>1. UgBusy' = UgBusy /\ Ug!TypeOK'
    BY <1>1, <1>16 DEF IInv, Ug!FsLoses, Ug!TypeOK, UgBusy, Ug!At
  <2> QED BY <1>1, <1>16, <2>1, Rests, StaysLink DEF IInv, UgOnly
<1>17. CASE Jm!Deploy /\ JmOnly
  <2>1. JmBusy' = JmBusy
    BY <1>17 DEF Jm!Deploy, JmBusy, Jm!At
  <2> QED BY <1>1, <1>17, <2>1, Rests, StaysLink DEF IInv, JmOnly
<1>18. CASE UNCHANGED vars
  BY <1>1, <1>18, Rests, StaysLink DEF IInv, vars
<1> QED BY <1>1, <1>9, <1>10, <1>14, <1>15, <1>16, <1>17, <1>18, AsksLink, CrashLink DEF Next

-----------------------------------------------------------------------------
(* The promises. *)

LEMMA Initially == Init => IInv
BY WorkerInit, PipelineInit, StoreInit, LinkInit DEF IInv, LinkInv

LEMMA Inductive == IInv /\ [Next]_vars => IInv'
BY WorkerInductive, PipelineInductive, StoreInductive, LinkInductive DEF IInv, LinkInv

LEMMA Invariance == Spec => []IInv
BY Initially, Inductive, PTL DEF Spec

LEMMA StoreTypes ==
  ASSUME LbTypes, lbAdds <= AddBound
  PROVE  Lb!TypeOK
<1>1. Chunks(lbAdds) \subseteq Seq(0 .. AddBound)
      /\ \A chunks \in Chunks(lbAdds) : Len(chunks) <= 2
  <2>1. ASSUME NEW chunks \in Chunks(lbAdds)
        PROVE  chunks \in Seq(0 .. AddBound) /\ Len(chunks) <= 2
    <3>1. CASE chunks = << >>
      BY <3>1
    <3>2. CASE \E a \in 0 .. lbAdds : chunks = <<a>>
      BY <3>2 DEF LbTypes
    <3>3. CASE \E a, b \in 0 .. lbAdds : chunks = <<a, b>>
      BY <3>3 DEF LbTypes
    <3> QED BY <3>1, <3>2, <3>3 DEF Chunks
  <2> QED BY <2>1
<1>2. 1 .. lbAdds \subseteq 1 .. AddBound /\ 0 .. lbAdds \subseteq 0 .. AddBound
  BY DEF LbTypes
<1>3. lbFile \in [Names -> Seq(0 .. AddBound) \cup {None}]
      /\ \A n \in Names : lbFile[n] # None => Len(lbFile[n]) <= 2
  BY <1>1 DEF LbTypes
<1>4. lbName \in Seq(Names) /\ Len(lbName) = lbAdds
  BY DEF LbTypes
<1>5. lbCall \in [Task -> [pc : LbPcs, add : 0 .. AddBound]]
  BY <1>2 DEF LbTypes
<1>6. lbOpened \in [Names -> SUBSET (1 .. AddBound)]
  BY <1>2 DEF LbTypes
<1> QED BY <1>2, <1>3, <1>4, <1>5, <1>6 DEF LbTypes, Lb!TypeOK, Lb!Adds, LbPcs

\* Every variable keeps its type, and a task is known to the one component that
\* fetches or stores for it: Ask, Joined, Store, Disconnect and Crash move it
\* between them as a whole.
THEOREM TypeCorrect == Spec => []TypeOK
<1>1. IInv => TypeOK
  <2>1. SUFFICES ASSUME IInv PROVE TypeOK
    OBVIOUS
  <2>2. lbAdds <= AddBound
    BY <2>1, CrowdFacts, AddingIsFinite DEF IInv, LbInv, LbTypes
  <2>3. Lb!TypeOK /\ Jm!TypeOK /\ Wk!TypeOK /\ Ug!TypeOK
    BY <2>1, <2>2, StoreTypes, PipelineTypes DEF IInv, LbInv, WkInv
  <2>4. ASSUME NEW t \in Task
        PROVE  /\ request[t].pc \in RequestPcs /\ request[t].add \in BOOLEAN
               /\ ~Ug!At(t, "idle") <=> At(t, "ug")
               /\ ~Wk!At(t, "idle") <=> At(t, "wk")
               /\ ~Jm!At(t, "idle") <=> At(t, "jm")
               /\ ~Lb!At(t, "idle") <=> At(t, "store")
    <3>1. Placed
      BY <2>1 DEF IInv
    <3>2. request[t] \in RequestState
      BY <3>1 DEF Placed
    <3>3. /\ t \in UgBusy <=> t \in In("ug")
          /\ t \in WkBusy <=> t \in In("wk")
          /\ t \in JmBusy <=> t \in In("jm")
          /\ t \in LbBusy <=> t \in In("store")
      BY <3>1 DEF Placed
    <3> QED BY <3>2, <3>3 DEF RequestState, In, UgBusy, WkBusy, JmBusy, LbBusy, At
  <2> QED BY <2>1, <2>3, <2>4 DEF IInv, TypeOK, RequestPcs
<1> QED BY Invariance, <1>1, PTL

\* A page is asked for with the salt of a bundle that the download's own score
\* page lists, or with the fallback, though the cached salt is shared and
\* MuseScore deploys in between: prepare_algorithm.
THEOREM OwnSalts == Spec => []SaltFromOwnPage
<1>1. IInv => SaltFromOwnPage
  BY PipelineSalts DEF IInv, SaltFromOwnPage
<1> QED BY Invariance, <1>1, PTL

\* A download that ends with a PDF has every page of the score, in order and
\* once, in whatever order the images of a chunk come and for every size of the
\* chunks; without a page count it has page 0 alone: fetch_pdf_bytes.
THEOREM WholeScores == Spec => []WholeScore
<1>1. IInv => WholeScore
  BY PipelineScore DEF IInv, WholeScore
<1> QED BY Invariance, <1>1, PTL

\* Whatever fails, disconnects or restarts in library_add, a library row has its
\* queue row and, with a file name of its own and a flush that worked, its PDF.
THEOREM RowsAndFiles == Spec => []RowsHaveTheirFile
<1>1. IInv => RowsHaveTheirFile
  BY StoreRows DEF IInv, RowsHaveTheirFile
<1> QED BY Invariance, <1>1, PTL

===============================================================================
