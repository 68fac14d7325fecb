------------------------------ MODULE Playlist ------------------------------
(***************************************************************************)
(* The playlist (playlist.py): an asyncio task that walks the entries and  *)
(* installs each on the live leg for its slot, the operator who replaces   *)
(* the entries, starts and stops it at any moment (api/server.py), and the *)
(* effect library and playlist.yaml under them.                            *)
(*                                                                         *)
(* The task suspends only in its sleeps of at most one second, so what it  *)
(* does between two of them is one atomic step.  One clock unit is one     *)
(* such slice.                                                             *)
(*                                                                         *)
(* Covered faults: playlist.yaml cannot be written (the new list plays on  *)
(* in memory and the request ends in a 500), and the process dies.         *)
(***************************************************************************)
EXTENDS Integers, Sequences

CONSTANTS
  Name,        \* names of effects
  Boot,        \* the effect both legs show after boot
  Broken,      \* the effects whose source cannot be installed
  Lists,       \* the lists the operator may PUT; play_seconds in slices
  Task         \* bound: asyncio tasks not yet collected, cancelled ones included

ASSUME PlaylistAssumption ==
  /\ Boot \in Name
  /\ Broken \subseteq Name
  /\ Lists \subseteq Seq([name : Name, slices : Nat \ {0}])

VARIABLES
  entries,  \* self.entries
  running,  \* self.running
  index,    \* self.current_index
  current,  \* self._task
  task,     \* every task created: where it is suspended
  library,  \* the effects in the EffectStore
  live,     \* the effect in the selected live layer
  disk,     \* playlist.yaml
  acknowledged  \* history: the last PUT /playlist was not answered with a 500

stored == <<disk, acknowledged>>
vars == <<entries, running, index, current, task, library, live, stored>>

-----------------------------------------------------------------------------
Entry == [name : Name, slices : Nat]
NoTask == "none"

(***************************************************************************)
(* at: where a task is suspended.  A cancelled task ends the next time it  *)
(* runs.  playing and left: the slot it sits out, its name and the slices  *)
(* left of it.                                                             *)
(***************************************************************************)
Ended == [at |-> "ended", cancelled |-> FALSE, playing |-> Boot, left |-> 0]
Created == [at |-> "created", cancelled |-> FALSE, playing |-> Boot, left |-> 0]
Idling == [at |-> "idling", cancelled |-> FALSE, playing |-> Boot, left |-> 0]
Sitting(name, slices) ==
  [at |-> "slot", cancelled |-> FALSE, playing |-> name, left |-> slices]

Alive == {t \in Task : task[t].at # "ended"}

TypeOK ==
  /\ entries \in Seq(Entry)
  /\ running \in BOOLEAN
  /\ index = 0 \/ index \in 1..(Len(entries) - 1)
  /\ current \in Task \cup {NoTask}
  /\ task \in [Task -> [at : {"ended", "created", "idling", "slot"},
                        cancelled : BOOLEAN, playing : Name, left : Nat]]
  /\ library \subseteq Name
  /\ live \in Name
  /\ disk \in Seq(Entry)
  /\ acknowledged \in BOOLEAN

Init ==
  /\ entries = << >>
  /\ running = FALSE
  /\ index = 0
  /\ current = NoTask
  /\ task = [t \in Task |-> Ended]
  /\ library = Name
  /\ live = Boot
  /\ disk = << >>
  /\ acknowledged = TRUE

-----------------------------------------------------------------------------
(***************************************************************************)
(* Playlist.save, the last thing an edit does.  It writes a temporary      *)
(* beside playlist.yaml, which nothing reads, and moves it there; an       *)
(* OSError on the way leaves the file as it was and fails the request.     *)
(* Mutant: the error is logged and the request answered all the same.      *)
(***************************************************************************)
SaveQuietly ==
  /\ disk' \in {entries', disk}
  /\ acknowledged' = TRUE

Save ==
  \/ disk' = entries' /\ acknowledged' = TRUE
  \/ disk' = disk /\ acknowledged' = FALSE

(***************************************************************************)
(* PUT /playlist: names that are not in the library are refused; the list  *)
(* is replaced, the index falls back to the first entry when it fell off,  *)
(* and both stay so when the list is then not saved.                       *)
(* Mutant: the index is left alone.                                        *)
(***************************************************************************)
KeepIndex(n) == index
Refit(n) == IF index >= n THEN 0 ELSE index

PutPlaylist ==
  \E list \in Lists :
    /\ \A i \in DOMAIN list : list[i].name \in library
    /\ entries' = list
    /\ index' = Refit(Len(list))
    /\ Save
    /\ UNCHANGED <<running, current, task, library, live>>

(***************************************************************************)
(* POST /playlist/start: nothing happens while it runs, and an empty list  *)
(* is refused.                                                             *)
(***************************************************************************)
StartPlaylist ==
  /\ ~running
  /\ entries # << >>
  /\ running' = TRUE
  /\ index' = 0
  /\ \E t \in Task \ Alive :
       /\ current' = t
       /\ task' = [task EXCEPT ![t] = Created]
  /\ UNCHANGED <<entries, library, live, stored>>

(***************************************************************************)
(* POST /playlist/stop.  Mutant: only the flag is cleared, and the task    *)
(* left to notice it.                                                      *)
(***************************************************************************)
StopByFlag ==
  /\ running' = FALSE
  /\ current' = NoTask
  /\ UNCHANGED <<entries, index, task, library, live, stored>>
StopPlaylist ==
  /\ running' = FALSE
  /\ current' = NoTask
  /\ task' = IF current \in Alive THEN [task EXCEPT ![current].cancelled = TRUE]
                                  ELSE task
  /\ UNCHANGED <<entries, index, library, live, stored>>

-----------------------------------------------------------------------------
(***************************************************************************)
(* _load_into_live: an effect that is missing or does not install is       *)
(* logged and what is live stays.                                          *)
(***************************************************************************)
LoadIntoLive(name) ==
  live' = IF name \in library \ Broken THEN name ELSE live

(***************************************************************************)
(* The head of the loop, up to its next sleep, from index i.               *)
(***************************************************************************)
LoadSlot(t, i) ==
  IF entries = << >>
  THEN /\ index' = i
       /\ task' = [task EXCEPT ![t] = Idling]
       /\ UNCHANGED live
  ELSE LET at == IF i >= Len(entries) THEN 0 ELSE i
           entry == entries[at + 1]
       IN  /\ index' = at
           /\ LoadIntoLive(entry.name)
           /\ task' = [task EXCEPT ![t] = Sitting(entry.name, entry.slices)]

End(t) ==
  /\ task' = [task EXCEPT ![t] = Ended]
  /\ UNCHANGED <<index, live>>

(***************************************************************************)
(* The entry after the current one, the first after the last.              *)
(* Mutant: the last entry is never left.                                   *)
(***************************************************************************)
NextWithoutWrap == IF index + 1 < Len(entries) THEN index + 1 ELSE index
NextIndex == IF entries = << >> THEN 0 ELSE (index + 1) % Len(entries)

(***************************************************************************)
(* A task resumes: for the first time, from the idle sleep, or from one    *)
(* slice of its slot.                                                      *)
(***************************************************************************)
Resume(t) ==
  /\ t \in Alive
  /\ CASE task[t].cancelled \/ ~running -> End(t)
       [] running /\ ~task[t].cancelled /\ task[t].at \in {"created", "idling"} ->
            LoadSlot(t, index)
       [] running /\ ~task[t].cancelled /\ task[t].at = "slot" /\ task[t].left > 1 ->
            /\ task' = [task EXCEPT ![t].left = @ - 1]
            /\ UNCHANGED <<index, live>>
       [] OTHER -> LoadSlot(t, NextIndex)
  /\ UNCHANGED <<entries, running, current, library, stored>>

-----------------------------------------------------------------------------
(***************************************************************************)
(* What the rest of the program does around it: effects are saved,         *)
(* deleted, renamed (both) and installed by hand, and the process may      *)
(* restart, which keeps only the files.                                    *)
(***************************************************************************)
SaveEffect(name) ==
  /\ library' = library \cup {name}
  /\ UNCHANGED <<entries, running, index, current, task, live, stored>>

DeleteEffect(name) ==
  /\ library' = library \ {name}
  /\ UNCHANGED <<entries, running, index, current, task, live, stored>>

LoadLive(name) ==
  /\ name \in library \ Broken
  /\ live' = name
  /\ UNCHANGED <<entries, running, index, current, task, library, stored>>

Restart ==
  /\ entries' = disk
  /\ running' = FALSE
  /\ index' = 0
  /\ current' = NoTask
  /\ task' = [t \in Task |-> Ended]
  /\ live' = Boot
  /\ UNCHANGED <<library, stored>>

Operator ==
  \/ PutPlaylist
  \/ StartPlaylist
  \/ StopPlaylist
  \/ \E name \in Name : SaveEffect(name) \/ DeleteEffect(name) \/ LoadLive(name)

Next ==
  \/ Operator
  \/ \E t \in Task : Resume(t)
  \/ Restart

Spec == Init /\ [][Next]_vars

(***************************************************************************)
(* The event loop runs every task whose sleep is over.                     *)
(***************************************************************************)
FairSpec == Spec /\ \A t \in Task : WF_vars(Resume(t))

-----------------------------------------------------------------------------
(* However starts and stops follow one another, within one slice or over
   many, at most one task can still install effects on the live leg, and it
   is the one stop() would cancel. *)
OneDriver ==
  \A t \in Alive : ~task[t].cancelled => running /\ t = current

(* What was acknowledged is on the disk: after a failed write, the list in
   memory and the one a restart brings back differ, and the operator has been
   told. *)
AcknowledgedIsStored == acknowledged => disk = entries

(***************************************************************************)
(* The player that the tasks make up, and the list its file keeps.         *)
(***************************************************************************)
TheSlot ==
  IF running THEN [on |-> task[current].at = "slot", left |-> task[current].left]
  ELSE [on |-> FALSE, left |-> 0]

Played == INSTANCE Player WITH slot <- TheSlot, kept <- disk

(* However many cancelled tasks linger, and whatever starts, stops, edits and
   restarts come between two slices of a slot, the live leg sees one player:
   each entry gets its slot and is followed by the next, and what is stopped
   shows nothing more.  An edit is in force whether or not its write fails,
   and a restart brings back the last list that was acknowledged (Player). *)
IsPlayer == Played!Spec

(* While the list stays as it is and the playlist runs, every entry whose
   effect is in the library and installs is on the LEDs again and again,
   whatever entries before or after it are missing or broken. *)
Playable(name) ==
  /\ running
  /\ name \in library \ Broken
  /\ \E i \in DOMAIN entries : entries[i].name = name

EveryEntryPlays ==
  \A name \in Name :
    <>[]Playable(name) /\ <>[][entries' = entries]_vars => []<>(live = name)
=============================================================================
