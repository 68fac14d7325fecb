--------------------------- MODULE PlaylistProofs ---------------------------
(***************************************************************************)
(* Proofs about Playlist for any effects, any lists and any number of      *)
(* tasks: its types, that one task drives the live leg, that an            *)
(* acknowledged list is on the disk, and that the tasks together make one  *)
(* player (Player).                                                        *)
(*                                                                         *)
(* OneDriver is inductive together with the types.  For the player it      *)
(* takes its converse as well, that a task drives while the playlist runs  *)
(* (Driven): then the slot is that of this task, and what any other does   *)
(* is to end, which the player does not show.                              *)
(***************************************************************************)
EXTENDS Playlist, SequenceTheorems, TLAPS

IInv == TypeOK /\ OneDriver

TaskRecord == [at : {"ended", "created", "idling", "slot"},
               cancelled : BOOLEAN, playing : Name, left : Nat]

(***************************************************************************)
(* The ways a task is written.                                             *)
(***************************************************************************)
LEMMA TaskRecords ==
  /\ Ended \in TaskRecord /\ Created \in TaskRecord /\ Idling \in TaskRecord
  /\ \A name \in Name, slices \in Nat : Sitting(name, slices) \in TaskRecord
BY PlaylistAssumption DEF Ended, Created, Idling, Sitting, TaskRecord

LEMMA InitEstablishes == Init => IInv
<1> SUFFICES ASSUME Init PROVE IInv
  OBVIOUS
<1>1. TypeOK
  <2>1. task \in [Task -> TaskRecord]
    BY TaskRecords DEF Init
  <2>2. /\ entries \in Seq(Entry) /\ disk \in Seq(Entry) /\ index = 0
        /\ acknowledged \in BOOLEAN
    BY DEF Init
  <2>3. running \in BOOLEAN /\ current = NoTask /\ library \subseteq Name /\ live \in Name
    BY PlaylistAssumption DEF Init
  <2> QED BY <2>1, <2>2, <2>3 DEF TypeOK, TaskRecord
<1>2. OneDriver
  BY DEF Init, OneDriver, Alive, Ended
<1> QED BY <1>1, <1>2 DEF IInv

(***************************************************************************)
(* A list that may be PUT is a list over any set its entries are in.       *)
(***************************************************************************)
LEMMA ListsAreLists ==
  ASSUME NEW list \in Lists
  PROVE  /\ Len(list) \in Nat
         /\ \A i \in DOMAIN list : list[i] \in Entry
         /\ \A S : (\A i \in DOMAIN list : list[i] \in S) => list \in Seq(S)
<1> DEFINE Given == [name : Name, slices : Nat \ {0}]
<1>1. list \in Seq(Given) /\ Given \subseteq Entry
  BY PlaylistAssumption DEF Entry
<1> HIDE DEF Given
<1>2. Len(list) \in Nat /\ list \in [1..Len(list) -> Given]
  BY <1>1
<1>3. ASSUME NEW S, \A i \in DOMAIN list : list[i] \in S PROVE list \in Seq(S)
  <2>1. list \in [1..Len(list) -> S]
    BY <1>2, <1>3
  <2> QED BY <1>2, <2>1
<1> QED BY <1>1, <1>2, <1>3

(***************************************************************************)
(* An edit of the list refits the index.                                   *)
(***************************************************************************)
LEMMA PutKeeps ==
  ASSUME IInv, PutPlaylist PROVE IInv'
<1>1. PICK list \in Lists :
        /\ entries' = list /\ index' = Refit(Len(list)) /\ Save
        /\ UNCHANGED <<running, current, task, library, live>>
  BY DEF PutPlaylist
<1>2. list \in Seq(Entry) /\ Len(list) \in Nat
  BY ListsAreLists
<1>3. index' = 0 \/ index' \in 1..(Len(list) - 1)
  BY <1>1, <1>2 DEF Refit, IInv, TypeOK
<1>4. TypeOK'
  BY <1>1, <1>2, <1>3 DEF Save, IInv, TypeOK
<1>5. OneDriver'
  BY <1>1 DEF IInv, OneDriver, Alive
<1> QED BY <1>4, <1>5 DEF IInv

(***************************************************************************)
(* Before a start nothing drives; a stop cancels what drives.              *)
(***************************************************************************)
LEMMA StartKeeps ==
  ASSUME IInv, StartPlaylist PROVE IInv'
<1>1. PICK t \in Task \ Alive : current' = t /\ task' = [task EXCEPT ![t] = Created]
  BY DEF StartPlaylist
<1>2. TypeOK'
  BY <1>1, TaskRecords DEF StartPlaylist, IInv, TypeOK, stored, TaskRecord
<1>3. OneDriver'
  <2> SUFFICES ASSUME NEW u \in Task, task'[u].at # "ended", ~task'[u].cancelled
               PROVE  running' /\ u = current'
    BY DEF OneDriver, Alive
  <2>1. CASE u = t
    BY <1>1, <2>1 DEF StartPlaylist
  <2>2. CASE u # t
    <3>1. task'[u] = task[u]
      BY <1>1, <2>2 DEF IInv, TypeOK
    <3> QED BY <3>1 DEF StartPlaylist, IInv, OneDriver, Alive
  <2> QED BY <2>1, <2>2
<1> QED BY <1>2, <1>3 DEF IInv

LEMMA StopKeeps ==
  ASSUME IInv, StopPlaylist PROVE IInv'
<1>1. /\ running' = FALSE /\ current' = NoTask
      /\ task' = IF current \in Alive
                 THEN [task EXCEPT ![current].cancelled = TRUE] ELSE task
      /\ UNCHANGED <<entries, index, library, live, stored>>
  BY DEF StopPlaylist
<1>2. task' \in [Task -> TaskRecord]
  BY <1>1 DEF IInv, TypeOK, TaskRecord, Alive
<1>3. TypeOK'
  BY <1>1, <1>2 DEF IInv, TypeOK, stored, TaskRecord
<1>4. OneDriver'
  <2> SUFFICES ASSUME NEW u \in Task, task'[u].at # "ended", ~task'[u].cancelled
               PROVE  FALSE
    BY DEF OneDriver, Alive
  <2>1. CASE u = current /\ current \in Alive
    BY <1>1, <2>1 DEF IInv, TypeOK
  <2>2. CASE ~(u = current /\ current \in Alive)
    <3>1. task'[u] = task[u]
      BY <1>1, <2>2 DEF IInv, TypeOK, Alive
    <3> QED BY <2>2, <3>1 DEF IInv, OneDriver, Alive
  <2> QED BY <2>1, <2>2
<1> QED BY <1>3, <1>4 DEF IInv

(***************************************************************************)
(* A task that resumes with the right to drive keeps it or gives it up;    *)
(* any other task ends.                                                    *)
(***************************************************************************)
LEMMA EndKeeps ==
  ASSUME IInv, NEW t \in Alive, End(t),
         UNCHANGED <<entries, running, current, library, stored>>
  PROVE  IInv'
<1>1. TypeOK'
  BY TaskRecords DEF End, IInv, TypeOK, stored, TaskRecord, Alive
<1>2. OneDriver'
  <2> SUFFICES ASSUME NEW u \in Task, task'[u].at # "ended", ~task'[u].cancelled
               PROVE  running' /\ u = current'
    BY DEF OneDriver, Alive
  <2>1. u # t /\ task'[u] = task[u]
    BY DEF End, Ended, IInv, TypeOK, Alive
  <2> QED BY <2>1 DEF IInv, OneDriver, Alive
<1> QED BY <1>1, <1>2 DEF IInv

LEMMA DriveKeeps ==
  ASSUME IInv, NEW t \in Alive, running, ~task[t].cancelled,
         NEW record \in TaskRecord, task' = [task EXCEPT ![t] = record],
         index' = 0 \/ index' \in 1..(Len(entries) - 1),
         live' \in Name,
         UNCHANGED <<entries, running, current, library, stored>>
  PROVE  IInv'
<1>1. TypeOK'
  BY DEF IInv, TypeOK, stored, TaskRecord, Alive
<1>2. OneDriver'
  <2> SUFFICES ASSUME NEW u \in Task, task'[u].at # "ended", ~task'[u].cancelled
               PROVE  running' /\ u = current'
    BY DEF OneDriver, Alive
  <2>1. CASE u = t
    BY <2>1 DEF IInv, OneDriver, Alive
  <2>2. CASE u # t
    <3>1. task'[u] = task[u]
      BY <2>2 DEF IInv, TypeOK, Alive
    <3> QED BY <3>1 DEF IInv, OneDriver, Alive
  <2> QED BY <2>1, <2>2
<1> QED BY <1>1, <1>2 DEF IInv

LEMMA LoadSlotKeeps ==
  ASSUME IInv, NEW t \in Alive, running, ~task[t].cancelled,
         NEW i \in Nat, entries = << >> => i = 0, LoadSlot(t, i),
         UNCHANGED <<entries, running, current, library, stored>>
  PROVE  IInv'
<1>1. CASE entries = << >>
  <2>1. index' = 0 /\ task' = [task EXCEPT ![t] = Idling] /\ live' \in Name
    BY <1>1 DEF LoadSlot, IInv, TypeOK
  <2> QED BY <2>1, TaskRecords, DriveKeeps
<1>2. CASE entries # << >>
  <2> DEFINE at == IF i >= Len(entries) THEN 0 ELSE i
             entry == entries[at + 1]
  <2>1. /\ index' = at /\ LoadIntoLive(entry.name)
        /\ task' = [task EXCEPT ![t] = Sitting(entry.name, entry.slices)]
    BY <1>2 DEF LoadSlot
  <2>2. entries \in Seq(Entry) /\ Len(entries) \in Nat /\ Len(entries) > 0
    BY <1>2 DEF IInv, TypeOK
  <2>3. at \in Nat /\ at < Len(entries) /\ at + 1 \in 1..Len(entries)
    BY <2>2
  <2>4. entry \in Entry
    BY <2>2, <2>3
  <2>5. live' \in Name
    BY <2>1, <2>4 DEF LoadIntoLive, IInv, TypeOK, Entry
  <2>6. Sitting(entry.name, entry.slices) \in TaskRecord
    BY <2>4, TaskRecords DEF Entry
  <2>7. index' = 0 \/ index' \in 1..(Len(entries) - 1)
    BY <2>1, <2>2, <2>3
  <2> HIDE DEF at, entry
  <2> QED BY <2>1, <2>5, <2>6, <2>7, DriveKeeps
<1> QED BY <1>1, <1>2

LEMMA ResumeKeeps ==
  ASSUME IInv, NEW t \in Task, Resume(t) PROVE IInv'
<1>1. t \in Alive /\ UNCHANGED <<entries, running, current, library, stored>>
  BY DEF Resume
<1>2. entries \in Seq(Entry) /\ Len(entries) \in Nat /\ index \in Nat
  BY DEF IInv, TypeOK
<1>3. CASE task[t].cancelled \/ ~running
  BY <1>1, <1>3, EndKeeps DEF Resume
<1>4. CASE /\ running /\ ~task[t].cancelled
           /\ task[t].at \in {"created", "idling"}
  <2>1. LoadSlot(t, index)
    BY <1>4 DEF Resume
  <2>2. entries = << >> => index = 0
    BY DEF IInv, TypeOK
  <2> QED BY <1>1, <1>2, <1>4, <2>1, <2>2, LoadSlotKeeps
<1>5. CASE /\ running /\ ~task[t].cancelled
           /\ task[t].at = "slot" /\ task[t].left > 1
  <2> DEFINE record == [task[t] EXCEPT !.left = task[t].left - 1]
  <2>1. /\ task' = [task EXCEPT ![t].left = task[t].left - 1]
        /\ UNCHANGED <<index, live>>
    BY <1>5 DEF Resume
  <2>2. task' = [task EXCEPT ![t] = record]
    BY <1>1, <2>1 DEF IInv, TypeOK, Alive
  <2>3. record \in TaskRecord
    BY <1>1, <1>5 DEF IInv, TypeOK, TaskRecord, Alive
  <2>4. /\ index' = 0 \/ index' \in 1..(Len(entries) - 1)
        /\ live' \in Name
    BY <2>1 DEF IInv, TypeOK
  <2> HIDE DEF record
  <2> QED BY <1>1, <1>5, <2>2, <2>3, <2>4, DriveKeeps
<1>6. CASE /\ running /\ ~task[t].cancelled
           /\ task[t].at = "slot" /\ ~(task[t].left > 1)
  <2>1. LoadSlot(t, NextIndex)
    BY <1>6 DEF Resume
  <2>2. NextIndex \in Nat /\ (entries = << >> => NextIndex = 0)
    BY <1>2 DEF NextIndex
  <2> QED BY <1>1, <1>6, <2>1, <2>2, LoadSlotKeeps
<1>7. task[t].at \in {"created", "idling", "slot"}
  BY <1>1 DEF IInv, TypeOK, Alive
<1> QED BY <1>3, <1>4, <1>5, <1>6, <1>7

LEMMA NextKeeps == IInv /\ [Next]_vars => IInv'
<1> SUFFICES ASSUME IInv, [Next]_vars PROVE IInv'
  OBVIOUS
<1>1. CASE PutPlaylist
  BY <1>1, PutKeeps
<1>2. CASE StartPlaylist
  BY <1>2, StartKeeps
<1>3. CASE StopPlaylist
  BY <1>3, StopKeeps
<1>4. ASSUME NEW name \in Name,
             SaveEffect(name) \/ DeleteEffect(name) \/ LoadLive(name)
      PROVE  IInv'
  BY <1>4 DEF SaveEffect, DeleteEffect, LoadLive, IInv, TypeOK, stored, OneDriver, Alive
<1>5. ASSUME NEW t \in Task, Resume(t) PROVE IInv'
  BY <1>5, ResumeKeeps
<1>6. CASE Restart
  <2>1. TypeOK'
    BY <1>6, TaskRecords, PlaylistAssumption DEF Restart, IInv, TypeOK, stored, TaskRecord
  <2>2. OneDriver'
    BY <1>6 DEF Restart, OneDriver, Alive, Ended
  <2> QED BY <2>1, <2>2 DEF IInv
<1>7. CASE UNCHANGED vars
  BY <1>7 DEF vars, IInv, TypeOK, stored, OneDriver, Alive
<1> QED BY <1>1, <1>2, <1>3, <1>4, <1>5, <1>6, <1>7 DEF Next, Operator

(***************************************************************************)
(* However starts, stops, edits and restarts interleave with the sleeps of *)
(* the loop, every variable of the playlist keeps its type: the index in   *)
(* particular denotes an entry, or is 0.                                   *)
(***************************************************************************)
THEOREM TypeCorrect == Spec => []TypeOK
<1>1. Spec => []IInv
  BY InitEstablishes, NextKeeps, PTL DEF Spec
<1>2. IInv => TypeOK
  BY DEF IInv
<1> QED BY <1>1, <1>2, PTL

(***************************************************************************)
(* At most one task can install effects on the live leg, and it is the one *)
(* stop() would cancel (OneDriver), for any number of tasks that were      *)
(* cancelled and have not run since.                                       *)
(***************************************************************************)
THEOREM OneDriverAlways == Spec => []OneDriver
<1>1. Spec => []IInv
  BY InitEstablishes, NextKeeps, PTL DEF Spec
<1>2. IInv => OneDriver
  BY DEF IInv
<1> QED BY <1>1, <1>2, PTL

(***************************************************************************)
(* Whatever writes fail and whenever the process dies, a list whose edit   *)
(* was acknowledged is the one playlist.yaml holds (AcknowledgedIsStored): *)
(* only after a 500 does a restart bring back another list than the one in *)
(* force.                                                                  *)
(***************************************************************************)
THEOREM AcknowledgedStored == Spec => []AcknowledgedIsStored
<1>1. Init => AcknowledgedIsStored
  BY DEF Init, AcknowledgedIsStored
<1>2. AcknowledgedIsStored /\ [Next]_vars => AcknowledgedIsStored'
  <2> SUFFICES ASSUME AcknowledgedIsStored, [Next]_vars PROVE AcknowledgedIsStored'
    OBVIOUS
  <2>1. CASE PutPlaylist
    BY <2>1 DEF PutPlaylist, Save, AcknowledgedIsStored
  <2>2. CASE Restart
    BY <2>2 DEF Restart, stored, AcknowledgedIsStored
  <2>3. CASE UNCHANGED <<entries, stored>>
    BY <2>3 DEF stored, AcknowledgedIsStored
  <2>4. ASSUME NEW t \in Task, Resume(t) PROVE UNCHANGED <<entries, stored>>
    BY <2>4 DEF Resume
  <2>5. ASSUME NEW name \in Name,
               SaveEffect(name) \/ DeleteEffect(name) \/ LoadLive(name)
        PROVE  UNCHANGED <<entries, stored>>
    BY <2>5 DEF SaveEffect, DeleteEffect, LoadLive
  <2>6. StartPlaylist \/ StopPlaylist => UNCHANGED <<entries, stored>>
    BY DEF StartPlaylist, StopPlaylist
  <2>7. UNCHANGED vars => UNCHANGED <<entries, stored>>
    BY DEF vars
  <2> QED BY <2>1, <2>2, <2>3, <2>4, <2>5, <2>6, <2>7 DEF Next, Operator
<1> QED BY <1>1, <1>2, PTL DEF Spec
-----------------------------------------------------------------------------
(***************************************************************************)
(* The player.                                                             *)
(***************************************************************************)
Driven == running => current \in Alive /\ ~task[current].cancelled

PInv == IInv /\ Driven

(* A task that resumes ends, or it is the driver and plays on. *)
LEMMA Resumed ==
  ASSUME PInv, NEW t \in Task, Resume(t)
  PROVE  \/ (task[t].cancelled \/ ~running) /\ End(t)
         \/ /\ running /\ t = current
            /\ \/ task[t].at # "slot" /\ LoadSlot(t, index)
               \/ /\ task[t].at = "slot" /\ task[t].left > 1
                  /\ task' = [task EXCEPT ![t].left = @ - 1]
                  /\ UNCHANGED <<index, live>>
               \/ /\ task[t].at = "slot" /\ ~(task[t].left > 1)
                  /\ LoadSlot(t, NextIndex)
<1>1. t \in Alive /\ task[t].at \in {"created", "idling", "slot"}
  BY DEF Resume, Alive, PInv, IInv, TypeOK
<1>2. CASE task[t].cancelled \/ ~running
  BY <1>2 DEF Resume
<1>3. CASE running /\ ~task[t].cancelled
  <2>1. t = current
    BY <1>1, <1>3 DEF PInv, IInv, OneDriver
  <2> QED BY <1>1, <1>3, <2>1 DEF Resume
<1> QED BY <1>2, <1>3

LEMMA LoadSlotDrives ==
  ASSUME PInv, NEW t \in Task, NEW i, LoadSlot(t, i)
  PROVE  task'[t].at # "ended" /\ ~task'[t].cancelled
<1>1. task \in [Task -> TaskRecord]
  BY DEF PInv, IInv, TypeOK, TaskRecord
<1>2. CASE entries = << >>
  BY <1>1, <1>2 DEF LoadSlot, Idling
<1>3. CASE entries # << >>
  <2>1. PICK name, slices : task' = [task EXCEPT ![t] = Sitting(name, slices)]
    BY <1>3 DEF LoadSlot
  <2> QED BY <1>1, <2>1 DEF Sitting
<1> QED BY <1>2, <1>3

LEMMA NextDrives == PInv /\ [Next]_vars => PInv'
<1> SUFFICES ASSUME PInv, [Next]_vars PROVE PInv'
  OBVIOUS
<1>1. IInv'
  BY NextKeeps DEF PInv
<1>2. task \in [Task -> TaskRecord]
  BY DEF PInv, IInv, TypeOK, TaskRecord
<1>3. CASE PutPlaylist
  BY <1>1, <1>3 DEF PutPlaylist, PInv, Driven, Alive
<1>4. CASE StartPlaylist
  <2>1. PICK t \in Task \ Alive : current' = t /\ task' = [task EXCEPT ![t] = Created]
    BY <1>4 DEF StartPlaylist
  <2>2. task'[t] = Created
    BY <1>2, <2>1
  <2>3. Driven'
    BY <2>1, <2>2 DEF Driven, Alive, Created
  <2> QED BY <1>1, <1>4, <2>3 DEF StartPlaylist, PInv
<1>5. CASE StopPlaylist \/ Restart
  BY <1>1, <1>5 DEF StopPlaylist, Restart, PInv, Driven
<1>6. ASSUME NEW name \in Name,
             SaveEffect(name) \/ DeleteEffect(name) \/ LoadLive(name)
      PROVE  PInv'
  BY <1>1, <1>6 DEF SaveEffect, DeleteEffect, LoadLive, PInv, Driven, Alive
<1>7. ASSUME NEW t \in Task, Resume(t) PROVE PInv'
  <2>1. UNCHANGED <<entries, running, current, library, stored>>
    BY <1>7 DEF Resume
  <2>2. SUFFICES ASSUME running PROVE current \in Alive' /\ ~task'[current].cancelled
    BY <1>1, <2>1 DEF PInv, Driven
  <2>3. current \in Task /\ task[current].at # "ended" /\ ~task[current].cancelled
    BY <2>2 DEF PInv, Driven, Alive
  <2>4. CASE t = current
    <3>1. CASE LoadSlot(t, index) \/ LoadSlot(t, NextIndex)
      BY <2>3, <2>4, <3>1, LoadSlotDrives DEF Alive
    <3>2. CASE task' = [task EXCEPT ![t].left = @ - 1]
      BY <1>2, <2>3, <2>4, <3>2 DEF Alive
    <3> QED BY <1>7, <2>2, <2>3, <2>4, <3>1, <3>2, Resumed
  <2>5. CASE t # current
    <3>1. task' = [task EXCEPT ![t] = Ended]
      BY <1>7, <2>5, Resumed DEF End
    <3> QED BY <1>2, <2>3, <2>5, <3>1 DEF Alive
  <2> QED BY <2>4, <2>5
<1>8. CASE UNCHANGED vars
  BY <1>8, <1>1 DEF vars, PInv, Driven, Alive
<1> QED BY <1>3, <1>4, <1>5, <1>6, <1>7, <1>8 DEF Next, Operator

(***************************************************************************)
(* The slot of the player before and after a step.                         *)
(***************************************************************************)
LEMMA SlotTold ==
  ASSUME running
  PROVE  (TheSlot.on <=> task[current].at = "slot") /\ TheSlot.left = task[current].left
BY Zenon DEF TheSlot

LEMMA SlotThen ==
  ASSUME running', NEW on \in BOOLEAN, NEW left,
         task'[current'].at = "slot" <=> on, task'[current'].left = left
  PROVE  TheSlot' = [on |-> on, left |-> left]
<1>1. (task'[current'].at = "slot") = on
  BY Zenon
<1> QED BY <1>1, Zenon DEF TheSlot

LEMMA SlotSame ==
  ASSUME UNCHANGED <<running, current>>,
         running => task'[current] = task[current]
  PROVE  TheSlot' = TheSlot
BY DEF TheSlot

LEMMA LoadSlotPlays ==
  ASSUME PInv, running, NEW i \in Nat, LoadSlot(current, i),
         IF entries = << >> THEN i = 0 ELSE i < Len(entries),
         UNCHANGED <<entries, running, current, library, stored>>
  PROVE  IF entries = << >> THEN Played!Idle ELSE Played!PutOn(i)
<1>1. current \in Task /\ task \in [Task -> TaskRecord]
  BY DEF PInv, Driven, Alive, IInv, TypeOK, TaskRecord
<1>2. CASE entries = << >>
  <2>1. index' = 0 /\ index = 0 /\ task'[current] = Idling /\ live' = live
    BY <1>1, <1>2 DEF LoadSlot, PInv, IInv, TypeOK
  <2>2. TheSlot' = [on |-> FALSE, left |-> 0]
    <3>1. task'[current'].at = "slot" <=> FALSE
      BY <2>1 DEF Idling
    <3>2. running' /\ task'[current'].left = 0
      BY <2>1 DEF Idling
    <3> QED BY <3>1, <3>2, SlotThen
  <2> QED BY <1>2, <2>1, <2>2 DEF Played!lists, stored, Played!Idle, Played!Pending
<1>3. CASE entries # << >>
  <2> DEFINE entry == entries[i + 1]
  <2>1. entries \in Seq(Entry) /\ Len(entries) \in Nat
    BY DEF PInv, IInv, TypeOK
  <2>2. ~(i >= Len(entries))
    BY <1>3, <2>1
  <2>3. /\ index' = i /\ LoadIntoLive(entry.name)
        /\ task' = [task EXCEPT ![current] = Sitting(entry.name, entry.slices)]
    BY <1>3, <2>2 DEF LoadSlot
  <2> HIDE DEF entry
  <2>4. TheSlot' = [on |-> TRUE, left |-> entry.slices]
    BY <1>1, <2>3, SlotThen DEF Sitting
  <2>5. live' = IF entry.name \in library \ Broken THEN entry.name ELSE live
    BY <2>3 DEF LoadIntoLive
  <2> QED BY <1>3, <2>3, <2>4, <2>5 DEF Played!lists, stored, Played!PutOn, Played!Slot, entry
<1> QED BY <1>2, <1>3

LEMMA ResumePlays ==
  ASSUME PInv, NEW t \in Task, Resume(t)
  PROVE  Played!Play \/ UNCHANGED Played!vars
<1>1. UNCHANGED <<entries, running, current, library, stored>>
  BY DEF Resume
<1>2. task \in [Task -> TaskRecord] /\ index \in Nat
      /\ entries \in Seq(Entry) /\ Len(entries) \in Nat
      /\ (index = 0 \/ index \in 1..(Len(entries) - 1))
  BY DEF PInv, IInv, TypeOK, TaskRecord
<1>3. CASE (task[t].cancelled \/ ~running) /\ End(t)
  <2>1. running => task'[current] = task[current]
    BY <1>2, <1>3 DEF End, PInv, Driven, Alive
  <2>2. TheSlot' = TheSlot
    BY <1>1, <2>1, SlotSame
  <2> QED BY <1>1, <1>3, <2>2 DEF Played!vars, Played!lists, stored, End
<1>4. CASE running /\ t = current /\ task[t].at # "slot" /\ LoadSlot(t, index)
  <2>1. IF entries = << >> THEN index = 0 ELSE index < Len(entries)
    BY <1>2
  <2>2. IF entries = << >> THEN Played!Idle ELSE Played!PutOn(index)
    BY <1>1, <1>2, <1>4, <2>1, LoadSlotPlays
  <2>3. ~TheSlot.on
    BY <1>4, SlotTold
  <2> QED BY <1>4, <2>2, <2>3 DEF Played!Play
<1>5. CASE /\ running /\ t = current /\ task[t].at = "slot" /\ task[t].left > 1
           /\ task' = [task EXCEPT ![t].left = @ - 1]
           /\ UNCHANGED <<index, live>>
  <2>1. TheSlot.on /\ TheSlot.left = task[t].left
    BY <1>5, SlotTold
  <2>2. task'[t].at = "slot" /\ task'[t].left = task[t].left - 1
    BY <1>2, <1>5
  <2>3. TheSlot' = [on |-> TRUE, left |-> task[t].left - 1]
    BY <1>1, <1>5, <2>2, SlotThen
  <2>4. Played!Sit
    BY <1>1, <1>5, <2>1, <2>3 DEF Played!lists, stored, Played!Sit, Played!Slot
  <2> QED BY <1>5, <2>1, <2>4 DEF Played!Play
<1>6. CASE /\ running /\ t = current /\ task[t].at = "slot" /\ ~(task[t].left > 1)
           /\ LoadSlot(t, NextIndex)
  <2>1. TheSlot.on /\ TheSlot.left <= 1 /\ ~(TheSlot.left > 1)
    <3>1. task[t].left \in Nat
      BY <1>2 DEF TaskRecord
    <3>2. TheSlot.on /\ TheSlot.left = task[t].left
      BY <1>6, SlotTold
    <3> QED BY <1>6, <3>1, <3>2
  <2>2. NextIndex \in Nat /\ IF entries = << >> THEN NextIndex = 0
                              ELSE NextIndex < Len(entries)
    BY <1>2 DEF NextIndex
  <2>3. IF entries = << >> THEN Played!Idle ELSE Played!PutOn(NextIndex)
    BY <1>1, <1>2, <1>6, <2>2, LoadSlotPlays
  <2>4. entries # << >> => NextIndex = (index + 1) % Len(entries)
    BY DEF NextIndex
  <2>5. CASE entries = << >>
    BY <1>6, <2>1, <2>3, <2>5 DEF Played!Play
  <2>6. CASE entries # << >>
    BY <1>6, <2>1, <2>3, <2>4, <2>6 DEF Played!Play
  <2> QED BY <2>5, <2>6
<1> QED BY <1>3, <1>4, <1>5, <1>6, Resumed

LEMMA PlayedNext ==
  ASSUME PInv, [Next]_vars
  PROVE  [Played!Next]_Played!vars
<1>1. CASE PutPlaylist
  <2>1. PICK list \in Lists :
          /\ \A i \in DOMAIN list : list[i].name \in library
          /\ entries' = list /\ index' = Refit(Len(list)) /\ Save
          /\ UNCHANGED <<running, current, task, library, live>>
    BY <1>1 DEF PutPlaylist
  <2>2. list \in Seq([name : library, slices : Nat])
    <3>1. ASSUME NEW i \in DOMAIN list PROVE list[i] \in [name : library, slices : Nat]
      <4>1. list[i] \in Entry
        BY ListsAreLists
      <4> QED BY <4>1, <2>1 DEF Entry
    <3> QED BY <3>1, ListsAreLists
  <2>3. Refit(Len(list)) = IF index < Len(list) THEN index ELSE 0
    BY <2>2 DEF Refit, PInv, IInv, TypeOK
  <2>4. TheSlot' = TheSlot
    BY <2>1, SlotSame
  <2> QED BY <2>1, <2>2, <2>3, <2>4 DEF Save, Played!Next, Played!Edit
<1>2. CASE StartPlaylist
  <2>1. PICK t \in Task \ Alive : current' = t /\ task' = [task EXCEPT ![t] = Created]
    BY <1>2 DEF StartPlaylist
  <2>2. task'[t] = Created
    BY <2>1 DEF PInv, IInv, TypeOK
  <2>3. TheSlot' = [on |-> FALSE, left |-> 0]
    <3>1. task'[current'].at = "slot" <=> FALSE
      BY <2>1, <2>2 DEF Created
    <3>2. running' /\ task'[current'].left = 0
      BY <1>2, <2>1, <2>2 DEF StartPlaylist, Created
    <3> QED BY <3>1, <3>2, SlotThen
  <2> QED BY <1>2, <2>3 DEF StartPlaylist, Played!Next, Played!lists, stored, Played!Start, Played!Pending
<1>3. CASE StopPlaylist
  <2>1. TheSlot' = [on |-> FALSE, left |-> 0]
    BY <1>3 DEF StopPlaylist, TheSlot
  <2> QED BY <1>3, <2>1 DEF StopPlaylist, Played!Next, Played!lists, stored, Played!Stop, Played!Pending
<1>4. ASSUME NEW name \in Name, SaveEffect(name) \/ DeleteEffect(name)
      PROVE  Played!Next
  <2>1. TheSlot' = TheSlot
    BY <1>4, SlotSame DEF SaveEffect, DeleteEffect
  <2>2. library' \subseteq Name
    BY <1>4 DEF SaveEffect, DeleteEffect, PInv, IInv, TypeOK
  <2> QED BY <1>4, <2>1, <2>2 DEF SaveEffect, DeleteEffect, Played!Next, Played!lists, stored, Played!ChangeLibrary
<1>5. ASSUME NEW name \in Name, LoadLive(name) PROVE Played!Next
  <2>1. TheSlot' = TheSlot
    BY <1>5, SlotSame DEF LoadLive
  <2> QED BY <1>5, <2>1 DEF LoadLive, Played!Next, Played!lists, stored, Played!Load
<1>6. ASSUME NEW t \in Task, Resume(t) PROVE [Played!Next]_Played!vars
  BY <1>6, ResumePlays DEF Played!Next
<1>7. CASE Restart
  <2>1. TheSlot' = [on |-> FALSE, left |-> 0]
    BY <1>7 DEF Restart, TheSlot
  <2> QED BY <1>7, <2>1 DEF stored, Restart, Played!Next, Played!Restart, Played!Pending
<1>8. CASE UNCHANGED vars
  <2>1. TheSlot' = TheSlot
    BY <1>8, SlotSame DEF vars
  <2> QED BY <1>8, <2>1 DEF vars, stored, Played!vars, Played!lists
<1> QED BY <1>1, <1>2, <1>3, <1>4, <1>5, <1>6, <1>7, <1>8 DEF Next, Operator

(***************************************************************************)
(* The asyncio tasks of the playlist, cancelled ones included, together    *)
(* with its file make one player: Playlist implements Player.              *)
(***************************************************************************)
THEOREM Implements == Spec => IsPlayer
<1>1. Init => PInv
  BY InitEstablishes DEF PInv, Init, Driven
<1>2. Init => Played!Init
  BY DEF Init, TheSlot, Played!Init, Played!Pending
<1> QED BY <1>1, <1>2, NextDrives, PlayedNext, PTL DEF Spec, IsPlayer, Played!Spec
=============================================================================
