------------------------------ MODULE LibraryAdd ------------------------------
(***************************************************************************)
(* The admin's "add to library" once the PDF is fetched (library_add of    *)
(* src/routes/admin.rs): the file is created, which truncates one of the   *)
(* same name, written and flushed; then a queue row and a library row are  *)
(* inserted.  Each step may fail, and nothing is undone.                   *)
(*                                                                         *)
(* A PDF is two chunks, the last of which is still in the hands of tokio's *)
(* file when write_all returns.  Files and rows outlive the process.       *)
(***************************************************************************)
EXTENDS Naturals, Sequences

CONSTANTS Task, None,
  Names,    \* sanitize_filename of the titles that are given; titles share one
            \* when they differ in what is replaced, such as Chinese characters
  AddBound  \* adds in a behaviour, the bound of the model

Adds == 1 .. AddBound

VARIABLES
  file,     \* of each name: its chunks, by the add that wrote them; None without
  queue,    \* queue_items, as adds
  library,  \* library_items
  call,     \* the running adds
  adds,     \* adds so far
  name,     \* the name of each add's file
  opened,   \* history: the adds that created or truncated each file
  lost      \* history: the adds whose last chunk was lost

vars == <<file, queue, library, call, adds, name, opened, lost>>

Idle == [pc |-> "idle", add |-> 0]
At(t, pc) == call[t].pc = pc
Goto(t, pc) == call' = [call EXCEPT ![t].pc = pc]
FileOf(t) == name[call[t].add]

TypeOK ==
  /\ file \in [Names -> Seq(0 .. AddBound) \cup {None}]
  /\ \A n \in Names : file[n] # None => Len(file[n]) <= 2
  /\ queue \subseteq Adds /\ library \subseteq Adds /\ lost \subseteq Adds
  /\ adds \in 0 .. AddBound /\ name \in Seq(Names) /\ Len(name) = adds
  /\ opened \in [Names -> SUBSET Adds]
  /\ call \in [Task -> [pc : {"idle", "create", "write", "flush", "queue",
                              "library", "ok", "err"}, add : 0 .. AddBound]]

Init ==
  /\ file = [n \in Names |-> None]
  /\ queue = {} /\ library = {} /\ lost = {}
  /\ call = [t \in Task |-> Idle]
  /\ adds = 0 /\ name = << >>
  /\ opened = [n \in Names |-> {}]

-----------------------------------------------------------------------------
Begin(t) ==
  /\ At(t, "idle")
  /\ \E n \in Names : name' = Append(name, n)
  /\ adds' = adds + 1
  /\ call' = [call EXCEPT ![t] = [pc |-> "create", add |-> adds + 1]]
  /\ UNCHANGED <<file, queue, library, opened, lost>>

Fail(t, pcs) ==
  /\ call[t].pc \in pcs
  /\ Goto(t, "err")
  /\ UNCHANGED <<file, queue, library, adds, name, opened, lost>>

\* File::create.
Create(t) ==
  /\ At(t, "create")
  /\ file' = [file EXCEPT ![FileOf(t)] = << >>]
  /\ opened' = [opened EXCEPT ![FileOf(t)] = @ \cup {call[t].add}]
  /\ Goto(t, "write")
  /\ UNCHANGED <<queue, library, adds, name, lost>>

\* Chunk k written at its offset, past the end if the file was truncated.
Written(chunks, k, a) ==
  [i \in 1 .. (IF Len(chunks) > k THEN Len(chunks) ELSE k) |->
     IF i = k THEN a ELSE IF i <= Len(chunks) THEN chunks[i] ELSE 0]

Write(t) ==
  /\ At(t, "write")
  /\ file' = [file EXCEPT ![FileOf(t)] = Written(@, 1, call[t].add)]
  /\ Goto(t, "flush")
  /\ UNCHANGED <<queue, library, adds, name, opened, lost>>

\* The last chunk lands, or does not: flush tells, and is only logged.
Flush(t) ==
  /\ At(t, "flush")
  /\ \/ /\ file' = [file EXCEPT ![FileOf(t)] = Written(@, 2, call[t].add)]
        /\ UNCHANGED lost
     \/ /\ lost' = lost \cup {call[t].add}
        /\ UNCHANGED file
  /\ Goto(t, "queue")
  /\ UNCHANGED <<queue, library, adds, name, opened>>

InsertQueue(t) ==
  /\ At(t, "queue")
  /\ queue' = queue \cup {call[t].add}
  /\ Goto(t, "library")
  /\ UNCHANGED <<file, library, adds, name, opened, lost>>

InsertLibrary(t) ==
  /\ At(t, "library")
  /\ library' = library \cup {call[t].add}
  /\ Goto(t, "ok")
  /\ UNCHANGED <<file, queue, adds, name, opened, lost>>

\* (Mutant of Fails) An insert is tried even if the write failed.
FailsOnward(t) ==
  \/ Fail(t, {"create", "queue", "library"})
  \/ /\ At(t, "write")
     /\ Goto(t, "queue")
     /\ UNCHANGED <<file, queue, library, adds, name, opened, lost>>

\* The creation, the write or an insert fails: a message, and nothing more.
Fails(t) == Fail(t, {"create", "write", "queue", "library"})

Step(t) == \/ Create(t) \/ Write(t) \/ Flush(t)
           \/ InsertQueue(t) \/ InsertLibrary(t) \/ Fails(t)

\* The add is over, or its future is dropped.  What had been asked of the file
\* system or of the database may still be done.
Drop(t) ==
  LET a == call[t].add
      Lands(chunks) == file' = [file EXCEPT ![FileOf(t)] = chunks]
  IN  /\ call' = [call EXCEPT ![t] = Idle]
      /\ \/ UNCHANGED <<file, queue, library, opened>>
         \/ /\ At(t, "create") /\ Lands(<< >>)
            /\ opened' = [opened EXCEPT ![FileOf(t)] = @ \cup {a}]
            /\ UNCHANGED <<queue, library>>
         \/ /\ At(t, "write") /\ Lands(Written(file[FileOf(t)], 1, a))
            /\ UNCHANGED <<queue, library, opened>>
         \/ /\ At(t, "flush") /\ Lands(Written(file[FileOf(t)], 2, a))
            /\ UNCHANGED <<queue, library, opened>>
         \/ /\ At(t, "queue") /\ queue' = queue \cup {a}
            /\ UNCHANGED <<file, library, opened>>
         \/ /\ At(t, "library") /\ library' = library \cup {a}
            /\ UNCHANGED <<file, queue, opened>>
      /\ UNCHANGED <<adds, name, lost>>

-----------------------------------------------------------------------------
\* Steps that fail and are not undone, disconnects and restarts in between
\* (admin.rs, 211-275): every library row has its queue row, and its file is its
\* PDF and whole, unless an add of the same name opened the file too or the last
\* chunk was lost, which the code only logs.
RowsHaveTheirFile ==
  \A a \in library :
    /\ a \in queue
    /\ opened[name[a]] = {a} /\ a \notin lost => file[name[a]] = <<a, a>>

==============================================================================
