------------------------- MODULE InstallationProofs -------------------------
(***************************************************************************)
(* Proofs about Installation, for any layouts, knobs, patches and faults:  *)
(* its types, the backup, and that the files and the server's copies       *)
(* implement the register of ConfigRegister.                               *)
(*                                                                         *)
(* The argument: a write goes through bak and tmp, and only its last step  *)
(* touches config.yaml, so that whatever interrupts it, config.yaml is the *)
(* old or the new configuration (WriteIsAtomic).  With that, the file and  *)
(* the running server agree on strips and stored knobs in every state      *)
(* (Agreement), which is what the register's steps need.                   *)
(* Of the layout: no two strips of an accepted list on one controller      *)
(* share a pixel (NeighboursSuffice), so each LED is in its place          *)
(* (LedsInPlace); the walk of u_loop counts the LEDs it has passed, which  *)
(* grows strictly and so takes each number once (WalkInOrder).             *)
(***************************************************************************)
EXTENDS Installation, FiniteSetTheorems, WellFoundedInduction, TLAPS

IsDisk == disk \in [yaml : WholeFiles, bak : Files, tmp : Files]

(* What runs is what the file holds, but for knobs turned since. *)
Agreement ==
  Up => /\ server.built = Built(server.config.strips)
        /\ disk.yaml.config.strips = server.config.strips
        /\ disk.yaml.config.masters = server.config.masters

Inv == TypeOK /\ Agreement

-----------------------------------------------------------------------------
(***************************************************************************)
(* Whatever cuts a write off, config.yaml is the old configuration or the  *)
(* new one, and the new one only when the backup holds the old.            *)
(***************************************************************************)
LEMMA WriteIsAtomic ==
  ASSUME IsDisk, faults \in 0..MaxFaults,
         NEW config \in Configs(Lists), NEW done, NEW failed,
         Write(config, done, failed)
  PROVE  /\ IsDisk' /\ BackedUp
         /\ \/ /\ disk'.yaml = File(WrittenBack(config))
               /\ disk'.bak = disk.yaml
               /\ server' \in {done, Down}
            \/ disk'.yaml = disk.yaml /\ server' \in {failed, Down}
         /\ faults' \in 0..MaxFaults
<1> DEFINE new == WrittenBack(config)
           torn == [disk EXCEPT !.bak = TornFile]
           saved == [disk EXCEPT !.bak = disk.yaml]
           half == [saved EXCEPT !.tmp = TornFile]
           written == [saved EXCEPT !.tmp = File(new)]
           moved == [written EXCEPT !.yaml = written.tmp, !.tmp = NoFile]
<1>1. /\ File(new) \in WholeFiles /\ WholeFiles \subseteq Files
      /\ TornFile \in Files /\ NoFile \in Files
  BY DEF Configs, WrittenBack, Files, WholeFiles, File
<1>2. WriteSteps(config) = <<torn, saved, half, written, moved>>
  BY DEF WriteSteps
<1>3. \/ disk' = moved /\ server' \in {done, Down}
      \/ disk' \in {torn, saved, half, written} /\ server' \in {failed, Down}
  <2> HIDE DEF torn, saved, half, written, moved
  <2>1. Len(WriteSteps(config)) = 5
    BY <1>2
  <2>2. /\ WriteSteps(config)[1] = torn /\ WriteSteps(config)[2] = saved
        /\ WriteSteps(config)[3] = half /\ WriteSteps(config)[4] = written
        /\ WriteSteps(config)[5] = moved
    BY <1>2
  <2>3. \/ disk' = WriteSteps(config)[5] /\ server' = done
        \/ \E i \in 1..4 : disk' = WriteSteps(config)[i] /\ server' = failed
        \/ \E i \in 1..5 : disk' = WriteSteps(config)[i] /\ server' = Down
    BY <2>1 DEF Write
  <2> QED
    BY <2>2, <2>3
<1>4. faults' \in 0..MaxFaults
  BY InstallationAssumption DEF Write
<1>5. /\ moved \in [yaml : WholeFiles, bak : Files, tmp : Files]
      /\ moved.yaml = File(new) /\ moved.bak = disk.yaml
  <2> HIDE DEF new
  <2> QED
    BY <1>1 DEF IsDisk
<1>6. \A d \in {torn, saved, half, written} :
        /\ d \in [yaml : WholeFiles, bak : Files, tmp : Files]
        /\ d.yaml = disk.yaml /\ d.bak \in {TornFile, disk.yaml}
  <2> HIDE DEF new
  <2> QED
    BY <1>1 DEF IsDisk
<1>7. CASE disk' = moved /\ server' \in {done, Down}
  <2> HIDE DEF moved
  <2> QED
    BY <1>7, <1>4, <1>5 DEF IsDisk, BackedUp
<1>8. CASE disk' \in {torn, saved, half, written} /\ server' \in {failed, Down}
  <2> HIDE DEF torn, saved, half, written
  <2> QED
    BY <1>8, <1>4, <1>6 DEF IsDisk, BackedUp
<1> QED
  BY <1>3, <1>7, <1>8
-----------------------------------------------------------------------------
LEMMA KnobsTurned ==
  ASSUME server \in Servers, NEW patch \in Patches
  PROVE  MergedMasters(patch) \in Knobs
<1>1. server.masters \in Knobs
  BY DEF Servers
<1>2. \A k \in Knob : /\ Limit[k] \in Nat
                      /\ k \in DOMAIN patch => patch[k] \in Nat
  BY InstallationAssumption DEF Knob
<1>3. \A k \in DOMAIN patch : k \in Knob =>
        Clip(k, patch[k]) \in Nat /\ Clip(k, patch[k]) <= Limit[k]
  BY <1>2 DEF Clip
<1> QED
  BY <1>1, <1>3 DEF MergedMasters, Knobs

LEMMA InitInv == Init => Inv
<1> SUFFICES ASSUME Init PROVE Inv
  OBVIOUS
<1>1. Limit \in Knobs
  BY InstallationAssumption DEF Knobs, Knob
<1>2. PICK strips \in Installed, auth \in BOOLEAN :
        disk = [yaml |-> File(Config(strips, Limit, auth)), bak |-> NoFile, tmp |-> NoFile]
  BY DEF Init
<1>3. Config(strips, Limit, auth) \in Configs(Lists)
  BY <1>1 DEF Config, Configs, Lists
<1>4. disk.yaml = File(Config(strips, Limit, auth)) /\ IsDisk
  BY <1>2, <1>3 DEF IsDisk, Files, WholeFiles, File, NoFile
<1>5. TypeOK
  BY <1>4, InstallationAssumption DEF Init, TypeOK, IsDisk
<1>6. Agreement
  BY DEF Init, Agreement, Up, Down
<1> QED
  BY <1>4, <1>5, <1>6 DEF Inv

(***************************************************************************)
(* What each action does to the three copies, in one place: the facts that *)
(* the invariant, the backup and the refinement need of it.                *)
(***************************************************************************)
LEMMA StartStep ==
  ASSUME Inv, Start
  PROVE  /\ Inv' /\ server \notin Servers /\ server = Down
         /\ UNCHANGED disk
         /\ disk.yaml.config.strips \in Startable
         /\ server' \in Servers
         /\ server'.built.strips = disk.yaml.config.strips
         /\ server'.masters = disk.yaml.config.masters
<1> DEFINE config == disk.yaml.config
<1>1. config \in Configs(Lists)
  BY DEF Inv, TypeOK, WholeFiles
<1>2. config \in Configs(Startable) /\ config.strips \in Startable
  BY <1>1 DEF Start, Configs, Startable
<1>3. server' = Running(config, Built(config.strips), config.masters)
  BY DEF Start
<1>4. server' \in Servers
  <2>1. Built(config.strips) \in Topologies /\ config.masters \in Knobs
    BY <1>2 DEF Topologies, Configs
  <2> HIDE DEF config
  <2> QED
    BY <1>2, <1>3, <2>1 DEF Servers, Running
<1>5. /\ server'.built = Built(config.strips) /\ server'.masters = config.masters
      /\ server'.config = config
  <2> HIDE DEF config
  <2> QED
    BY <1>3 DEF Running
<1>6. server = Down /\ server \notin Servers
  BY DEF Start, Inv, TypeOK, Up, Servers
<1>7. Inv'
  BY <1>4, <1>5 DEF Inv, TypeOK, Agreement, Start
<1>8. Built(config.strips).strips = config.strips
  BY DEF Built
<1> QED
  BY <1>2, <1>4, <1>5, <1>6, <1>7, <1>8 DEF Start

LEMMA CrashStep ==
  ASSUME Inv, Crash
  PROVE  Inv' /\ server \in Servers /\ server' = Down /\ UNCHANGED disk
<1>1. server \in Servers
  BY DEF Crash, Inv, TypeOK, Up, Down
<1>2. faults' \in 0..MaxFaults
  BY InstallationAssumption DEF Crash, Inv, TypeOK
<1> QED
  BY <1>1, <1>2 DEF Inv, TypeOK, Agreement, Crash, Up, Down

LEMMA PutConfigStep ==
  ASSUME Inv, NEW strips \in Edits, PutConfig(strips)
  PROVE  /\ Inv' /\ server \in Servers /\ strips \in Startable
         /\ BackedUp
         /\ \/ /\ disk'.yaml.config.strips = strips
               /\ disk'.yaml.config.masters = disk.yaml.config.masters
               /\ \/ server' = Down
                  \/ /\ server' \in Servers
                     /\ server'.built.strips = strips
                     /\ server'.masters = server.masters
            \/ disk'.yaml = disk.yaml /\ server' \in {server, Down}
<1>1. server \in Servers /\ Up
  BY DEF PutConfig, Inv, TypeOK, Up, Down
<1>2. strips \in Startable
  BY DEF PutConfig, Valid, Startable, Lists
<1> DEFINE config == WithStrips(strips)
           done == [server EXCEPT !.config = config, !.built = Built(strips)]
<1>3. /\ config \in Configs(Startable) /\ config \in Configs(Lists)
      /\ config.strips = strips /\ config.masters = server.config.masters
  BY <1>1, <1>2 DEF WithStrips, Servers, Configs, Startable
<1>4. /\ done \in Servers /\ done.config = config /\ done.built = Built(strips)
      /\ done.masters = server.masters
  <2>1. Built(strips) \in Topologies
    BY <1>2 DEF Topologies
  <2> HIDE DEF config
  <2> QED
    BY <1>1, <1>3, <2>1 DEF Servers
<1>5. Write(config, done, server)
  BY DEF PutConfig
<1> HIDE DEF config, done
<1>6. PICK c, d, s : c \in Configs(Lists) /\ c = config /\ d = done /\ s = server
  BY <1>3
<1>7. Write(c, d, s)
  BY <1>5, <1>6
<1>8. /\ IsDisk' /\ BackedUp
      /\ \/ /\ disk'.yaml = File(WrittenBack(c)) /\ disk'.bak = disk.yaml
            /\ server' \in {d, Down}
         \/ disk'.yaml = disk.yaml /\ server' \in {s, Down}
      /\ faults' \in 0..MaxFaults
  BY <1>6, <1>7, WriteIsAtomic DEF Inv, TypeOK, IsDisk
<1>9. /\ WrittenBack(c) \in Configs(Lists)
      /\ WrittenBack(c).strips = c.strips /\ WrittenBack(c).masters = c.masters
  BY <1>6 DEF WrittenBack, Configs
<1>10. Built(strips).strips = strips
  BY DEF Built
<1>11. CASE /\ disk'.yaml = File(WrittenBack(c)) /\ disk'.bak = disk.yaml
            /\ server' \in {d, Down}
  <2>1. /\ disk'.yaml \in WholeFiles
        /\ disk'.yaml.config.strips = strips
        /\ disk'.yaml.config.masters = server.config.masters
    BY <1>11, <1>9, <1>6, <1>3 DEF File, WholeFiles
  <2>2. server.config.masters = disk.yaml.config.masters
    BY <1>1 DEF Inv, Agreement
  <2>3. Inv'
    <3>1. CASE server' = Down
      BY <3>1, <1>8, <2>1 DEF Inv, TypeOK, IsDisk, Agreement, Up, Down
    <3>2. CASE server' = done
      BY <3>2, <1>8, <2>1, <1>3, <1>4
         DEF Inv, TypeOK, IsDisk, Agreement, Up, Down
    <3> QED
      BY <3>1, <3>2, <1>11, <1>6
  <2> QED
    BY <2>1, <2>2, <2>3, <1>8, <1>1, <1>2, <1>4, <1>6, <1>10, <1>11
<1>12. CASE disk'.yaml = disk.yaml /\ server' \in {s, Down}
  <2>1. Inv'
    BY <1>12, <1>6, <1>8 DEF Inv, TypeOK, IsDisk, Agreement, Up, Down
  <2> QED
    BY <2>1, <1>8, <1>1, <1>2, <1>6, <1>12
<1> QED
  BY <1>8, <1>11, <1>12
LEMMA PatchMastersStep ==
  ASSUME Inv, NEW patch \in Patches, PatchMasters(patch)
  PROVE  /\ Inv' /\ server \in Servers /\ UNCHANGED disk
         /\ server' \in Servers
         /\ server'.built = server.built /\ server'.masters \in Knobs
<1>1. server \in Servers /\ Up
  BY DEF PatchMasters, Inv, TypeOK, Up, Down
<1>2. MergedMasters(patch) \in Knobs
  BY <1>1, KnobsTurned
<1>3. /\ server' \in Servers /\ server'.masters = MergedMasters(patch)
      /\ server'.built = server.built /\ server'.config = server.config
  BY <1>1, <1>2 DEF PatchMasters, Servers
<1> QED
  BY <1>1, <1>2, <1>3
     DEF PatchMasters, Inv, TypeOK, Agreement

LEMMA PersistMastersStep ==
  ASSUME Inv, NEW patch \in Patches, PersistMasters(patch)
  PROVE  /\ Inv' /\ server \in Servers
         /\ BackedUp
         /\ \E masters \in Knobs :
              \/ /\ disk'.yaml.config.strips = disk.yaml.config.strips
                 /\ disk'.yaml.config.masters = masters
                 /\ \/ server' = Down
                    \/ /\ server' \in Servers
                       /\ server'.built = server.built
                       /\ server'.masters = masters
              \/ /\ disk'.yaml = disk.yaml
                 /\ \/ server' = Down
                    \/ /\ server' \in Servers
                       /\ server'.built = server.built
                       /\ server'.masters = masters
<1>1. server \in Servers /\ Up
  BY DEF PersistMasters, Inv, TypeOK, Up, Down
<1> DEFINE masters == MergedMasters(patch)
           config == [server.config EXCEPT !.masters = masters]
           turned == [server EXCEPT !.masters = masters]
           done == [turned EXCEPT !.config = config]
<1>2. masters \in Knobs
  BY <1>1, KnobsTurned
<1>3. Write(config, done, turned)
  BY DEF PersistMasters
<1> HIDE DEF masters
<1>4. /\ config \in Configs(Startable) /\ config \in Configs(Lists)
      /\ config.strips = server.config.strips /\ config.masters = masters
  BY <1>1, <1>2 DEF Servers, Configs, Startable
<1>5. /\ turned \in Servers /\ turned.config = server.config
      /\ turned.built = server.built /\ turned.masters = masters
  BY <1>1, <1>2 DEF Servers
<1> HIDE DEF config, turned
<1>6. /\ done \in Servers /\ done.config = config
      /\ done.built = server.built /\ done.masters = masters
  BY <1>4, <1>5 DEF Servers
<1> HIDE DEF done
<1>7. PICK c, d, s : c \in Configs(Lists) /\ c = config /\ d = done /\ s = turned
  BY <1>4
<1>8. Write(c, d, s)
  BY <1>3, <1>7
<1>9. /\ IsDisk' /\ BackedUp
      /\ \/ /\ disk'.yaml = File(WrittenBack(c)) /\ disk'.bak = disk.yaml
            /\ server' \in {d, Down}
         \/ disk'.yaml = disk.yaml /\ server' \in {s, Down}
      /\ faults' \in 0..MaxFaults
  BY <1>7, <1>8, WriteIsAtomic DEF Inv, TypeOK, IsDisk
<1>10. /\ WrittenBack(c) \in Configs(Lists)
       /\ WrittenBack(c).strips = c.strips /\ WrittenBack(c).masters = c.masters
  BY <1>7 DEF WrittenBack, Configs
<1>11. /\ server.built = Built(server.config.strips)
       /\ disk.yaml.config.strips = server.config.strips
       /\ disk.yaml.config.masters = server.config.masters
  BY <1>1 DEF Inv, Agreement
<1>12. CASE /\ disk'.yaml = File(WrittenBack(c)) /\ disk'.bak = disk.yaml
            /\ server' \in {d, Down}
  <2>1. /\ disk'.yaml \in WholeFiles
        /\ disk'.yaml.config.strips = disk.yaml.config.strips
        /\ disk'.yaml.config.masters = masters
    BY <1>12, <1>10, <1>7, <1>4, <1>11 DEF File, WholeFiles
  <2>2. CASE server' = Down
    <3>1. Inv'
      BY <2>2, <1>9, <2>1 DEF Inv, TypeOK, IsDisk, Agreement, Up, Down
    <3> QED
      BY <3>1, <2>1, <2>2, <1>1, <1>2, <1>12, <1>9
  <2>3. CASE server' = done
    <3>1. Inv'
      BY <2>3, <1>9, <2>1, <1>4, <1>6, <1>11
         DEF Inv, TypeOK, IsDisk, Agreement, Up, Down
    <3> QED
      BY <3>1, <2>1, <2>3, <1>1, <1>2, <1>6, <1>12, <1>9
  <2> QED
    BY <2>2, <2>3, <1>12, <1>7
<1>13. CASE disk'.yaml = disk.yaml /\ server' \in {s, Down}
  <2>1. CASE server' = Down
    <3>1. Inv'
      BY <2>1, <1>9, <1>13 DEF Inv, TypeOK, IsDisk, Agreement, Up, Down
    <3> QED
      BY <3>1, <2>1, <1>1, <1>2, <1>13, <1>9
  <2>2. CASE server' = turned
    <3>1. Inv'
      BY <2>2, <1>9, <1>13, <1>5, <1>11
         DEF Inv, TypeOK, IsDisk, Agreement, Up, Down
    <3> QED
      BY <3>1, <2>2, <1>1, <1>2, <1>5, <1>13, <1>9
  <2> QED
    BY <2>1, <2>2, <1>13, <1>7
<1> QED
  BY <1>9, <1>12, <1>13

LEMMA NextInv ==
  ASSUME Inv, [Next]_vars
  PROVE  Inv' /\ BackedUp
<1>1. CASE Start
  BY <1>1, StartStep DEF BackedUp
<1>2. CASE Crash
  BY <1>2, CrashStep DEF BackedUp
<1>3. ASSUME NEW strips \in Edits, PutConfig(strips)
      PROVE  Inv' /\ BackedUp
  BY <1>3, PutConfigStep
<1>4. ASSUME NEW patch \in Patches, PatchMasters(patch)
      PROVE  Inv' /\ BackedUp
  BY <1>4, PatchMastersStep DEF BackedUp
<1>5. ASSUME NEW patch \in Patches, PersistMasters(patch)
      PROVE  Inv' /\ BackedUp
  BY <1>5, PersistMastersStep
<1>6. CASE UNCHANGED vars
  BY <1>6 DEF vars, Inv, TypeOK, Agreement, Up, BackedUp
<1> QED
  BY <1>1, <1>2, <1>3, <1>4, <1>5, <1>6 DEF Next

THEOREM Invariance == Spec => []Inv
<1>1. Inv /\ [Next]_vars => Inv'
  BY NextInv
<1> QED
  BY InitInv, <1>1, PTL DEF Spec
-----------------------------------------------------------------------------
(* Every variable keeps its type: config.yaml holds a whole configuration in
   every state, while its backup and its temporary may be absent or torn; a
   running server's strips were accepted and its topology is built from such. *)
THEOREM TypeCorrect == Spec => []TypeOK
<1>1. Inv => TypeOK
  BY DEF Inv
<1> QED
  BY Invariance, <1>1, PTL

(* Whatever cuts a write off, the step that changes config.yaml has its former
   contents in config.yaml.bak; a write that does not get so far leaves the
   backup alone, torn, or a copy of config.yaml. *)
THEOREM BackupCorrect == Spec => BackupIsPrevious
<1>1. Inv /\ [Next]_vars => [BackedUp]_vars
  BY NextInv
<1> QED
  BY Invariance, <1>1, PTL DEF Spec, BackupIsPrevious

-----------------------------------------------------------------------------
(***************************************************************************)
(* The refinement: the register's stored value is what config.yaml holds,  *)
(* its value in force what the engine was built from and its knobs.        *)
(***************************************************************************)
LEMMA StoredIs ==
  ASSUME IsDisk
  PROVE  Stored = [layout |-> disk.yaml.config.strips,
                   knobs |-> disk.yaml.config.masters]
BY DEF IsDisk, WholeFiles, Stored

LEMMA ValuesAreNotOff == \A l, k : [layout |-> l, knobs |-> k] # Down
<1>1. \A l, k : "is" \notin DOMAIN [layout |-> l, knobs |-> k]
  OBVIOUS
<1>2. "is" \in DOMAIN Down
  BY DEF Down
<1> QED
  BY <1>1, <1>2

LEMMA InForceIs ==
  /\ server = Down => InForce = Down
  /\ server \in Servers =>
       /\ InForce = [layout |-> server.built.strips, knobs |-> server.masters]
       /\ InForce # Down
<1>1. server = Down => InForce = Down
  BY DEF InForce, Up, Down
<1>2. ASSUME server \in Servers
      PROVE  InForce = [layout |-> server.built.strips, knobs |-> server.masters]
  BY <1>2 DEF InForce, Up, Servers
<1> QED
  BY <1>1, <1>2, ValuesAreNotOff

LEMMA RegisterInit == Init => Register!Init
<1> SUFFICES ASSUME Init PROVE Register!Init
  OBVIOUS
<1>1. Inv /\ server = Down
  BY InitInv DEF Init
<1>2. Stored \in [layout : Lists, knobs : Knobs]
  BY <1>1, StoredIs DEF Inv, TypeOK, IsDisk, WholeFiles, Configs
<1> QED
  BY <1>1, <1>2, InForceIs DEF Register!Init

LEMMA RegisterNext ==
  ASSUME Inv, [Next]_vars
  PROVE  [Register!Next]_(Register!vars)
<1>1. Inv'
  BY NextInv
<1>2. /\ Stored = [layout |-> disk.yaml.config.strips,
                   knobs |-> disk.yaml.config.masters]
      /\ Stored' = [layout |-> disk'.yaml.config.strips,
                    knobs |-> disk'.yaml.config.masters]
  BY <1>1, StoredIs DEF Inv, Stored, TypeOK, IsDisk, WholeFiles
<1>3. /\ server' = Down => InForce' = Down
      /\ server' \in Servers =>
           /\ InForce' = [layout |-> server'.built.strips, knobs |-> server'.masters]
           /\ InForce' # Down
  <2>1. server' = Down => InForce' = Down
    BY DEF InForce, Up, Down
  <2>2. ASSUME server' \in Servers
        PROVE  InForce' = [layout |-> server'.built.strips, knobs |-> server'.masters]
    BY <2>2 DEF InForce, Up, Servers
  <2> QED
    BY <2>1, <2>2, ValuesAreNotOff
<1>4. server \in Servers =>
        /\ disk.yaml.config.strips \in Startable
        /\ disk.yaml.config.masters \in Knobs
        /\ server.built.strips = disk.yaml.config.strips
  BY DEF Inv, TypeOK, Agreement, Up, Servers, Configs, Built
<1>5. CASE Start
  <2>1. Register!Start
    BY <1>5, <1>2, <1>3, StartStep, InForceIs DEF Register!Start
  <2> QED
    BY <2>1 DEF Register!Next
<1>6. CASE Crash
  <2>1. Register!Stop
    BY <1>6, <1>2, <1>3, <1>4, CrashStep, InForceIs DEF Register!Stop
  <2> QED
    BY <2>1 DEF Register!Next
<1>7. ASSUME NEW strips \in Edits, PutConfig(strips)
      PROVE  [Register!Next]_(Register!vars)
  <2>1. CASE server' = Down
    <3>1. Register!Stop
      BY <1>7, <2>1, <1>2, <1>3, <1>4, PutConfigStep, InForceIs DEF Register!Stop
    <3> QED
      BY <3>1 DEF Register!Next
  <2>2. CASE /\ server' \in Servers /\ server'.built.strips = strips
             /\ server'.masters = server.masters
             /\ disk'.yaml.config.strips = strips
             /\ disk'.yaml.config.masters = disk.yaml.config.masters
    <3>1. Register!Relayout
      BY <1>7, <2>2, <1>2, <1>3, <1>4, PutConfigStep, InForceIs DEF Register!Relayout
    <3> QED
      BY <3>1 DEF Register!Next
  <2>3. CASE disk'.yaml = disk.yaml /\ server' = server
    BY <2>3, <1>2 DEF Register!vars, InForce, Up
  <2> QED
    BY <1>7, <2>1, <2>2, <2>3, PutConfigStep
<1>8. ASSUME NEW patch \in Patches, PatchMasters(patch)
      PROVE  [Register!Next]_(Register!vars)
  <2>1. Register!Turn
    BY <1>8, <1>2, <1>3, <1>4, PatchMastersStep, InForceIs DEF Register!Turn
  <2> QED
    BY <2>1 DEF Register!Next
<1>9. ASSUME NEW patch \in Patches, PersistMasters(patch)
      PROVE  [Register!Next]_(Register!vars)
  <2>1. PICK masters \in Knobs :
          \/ /\ disk'.yaml.config.strips = disk.yaml.config.strips
             /\ disk'.yaml.config.masters = masters
             /\ \/ server' = Down
                \/ /\ server' \in Servers /\ server'.built = server.built
                   /\ server'.masters = masters
          \/ /\ disk'.yaml = disk.yaml
             /\ \/ server' = Down
                \/ /\ server' \in Servers /\ server'.built = server.built
                   /\ server'.masters = masters
    BY <1>9, PersistMastersStep
  <2>2. server \in Servers
    BY <1>9, PersistMastersStep
  <2>3. CASE server' = Down
    <3>1. Register!Stop
      BY <2>1, <2>2, <2>3, <1>2, <1>3, <1>4, InForceIs DEF Register!Stop
    <3> QED
      BY <3>1 DEF Register!Next
  <2>4. CASE /\ server' \in Servers /\ server'.built = server.built
             /\ server'.masters = masters
    <3>1. CASE disk'.yaml = disk.yaml
      <4>1. Register!Turn
        BY <2>2, <2>4, <3>1, <1>2, <1>3, InForceIs DEF Register!Turn
      <4> QED
        BY <4>1 DEF Register!Next
    <3>2. CASE /\ disk'.yaml.config.strips = disk.yaml.config.strips
               /\ disk'.yaml.config.masters = masters
      <4>1. Register!Keep
        BY <2>2, <2>4, <3>2, <1>2, <1>3, InForceIs DEF Register!Keep
      <4> QED
        BY <4>1 DEF Register!Next
    <3> QED
      BY <2>1, <2>4, <3>1, <3>2
  <2> QED
    BY <2>1, <2>3, <2>4
<1>10. CASE UNCHANGED vars
  BY <1>10, <1>2 DEF vars, Register!vars, InForce, Up
<1> QED
  BY <1>5, <1>6, <1>7, <1>8, <1>9, <1>10 DEF Next

(* The files and the server's copies implement the register: acknowledged
   configurations survive a restart, interrupted ones are stored as a whole
   or not at all, and neither layout nor knobs are written along with the
   other. *)
THEOREM Implements == Spec => IsRegister
<1>1. Inv /\ [Next]_vars => [Register!Next]_(Register!vars)
  BY RegisterNext
<1> QED
  BY RegisterInit, Invariance, <1>1, PTL DEF Spec, IsRegister, Register!Spec

-----------------------------------------------------------------------------
LEMMA ListDomain ==
  ASSUME NEW strips, IsList(strips)
  PROVE  \E n \in Nat : DOMAIN strips = 1..n /\ (n = 0 => strips = << >>)
<1> DEFINE S == Range(strips)
<1>1. strips \in Seq(S)
  BY DEF IsList
<1> HIDE DEF S
<1> QED
  BY <1>1

LEMMA LessIsLess ==
  ASSUME NEW a \in Nat, NEW b \in Nat, a < b
  PROVE  <<a, b>> \in OpToRel(<, Nat)
<1>1. <<a, b>> \in Nat \X Nat
  OBVIOUS
<1>2. <<a, b>>[1] = a /\ <<a, b>>[2] = b
  OBVIOUS
<1>3. <<a, b>>[1] < <<a, b>>[2]
  BY <1>2
<1> QED
  BY <1>1, <1>3, Zenon DEF OpToRel

LEMMA Least ==
  ASSUME NEW T \in SUBSET Nat, T # {}
  PROVE  \E x \in T : \A y \in T : x <= y
<1>1. PICK x \in T : \A y \in T : ~(<<y, x>> \in OpToRel(<, Nat))
  BY NatLessThanWellFounded, WFMin
<1>2. \A y \in T : ~(y < x)
  BY <1>1, LessIsLess
<1> QED
  BY <1>2

LEMMA MaxIsGreatest ==
  ASSUME NEW n \in Nat, NEW T \in SUBSET (0..n), T # {}
  PROVE  Max(T) \in T /\ \A y \in T : Max(T) >= y
<1> DEFINE mirrored == {n - i : i \in T}
<1>1. mirrored \in SUBSET Nat /\ mirrored # {}
  <2>1. \A i \in T : n - i \in Nat
    OBVIOUS
  <2>2. \A x \in mirrored : x \in Nat
    BY <2>1
  <2> QED
    BY <2>2
<1>2. PICK x \in mirrored : \A y \in mirrored : x <= y
  BY <1>1, Least
<1>3. PICK i \in T : x = n - i
  OBVIOUS
<1>4. \A j \in T : x <= n - j
  BY <1>2
<1>5. \A j \in T : i >= j
  BY <1>3, <1>4
<1> QED
  BY <1>5 DEF Max

(* The order in which the strips of a controller are compared. *)
LEMMA SortedIsStrict ==
  ASSUME NEW strips, IsList(strips),
         NEW j \in DOMAIN strips, NEW k \in DOMAIN strips, NEW m \in DOMAIN strips
  PROVE  /\ ~Sorted(strips, j, j)
         /\ Sorted(strips, j, k) /\ Sorted(strips, k, m) => Sorted(strips, j, m)
         /\ strips[j].id # strips[k].id => Sorted(strips, j, k) \/ Sorted(strips, k, j)
         /\ Sorted(strips, j, k) => First(strips[j]) <= First(strips[k])
<1>1. \A i \in {j, k, m} : /\ First(strips[i]) \in Int /\ End(strips[i]) \in Int
                           /\ strips[i].id \in Int
  BY DEF IsList, First, End
<1> HIDE DEF IsList
<1> QED
  BY <1>1 DEF Sorted

(* The strip that comes next after j, when one does. *)
LEMMA NextNeighbour ==
  ASSUME NEW strips, IsList(strips), NEW c,
         NEW j \in OnController(strips, c), NEW k \in OnController(strips, c),
         Sorted(strips, j, k)
  PROVE  \E m \in OnController(strips, c) :
           /\ <<j, m>> \in Neighbours(strips, c)
           /\ \A x \in OnController(strips, c) :
                ~(Sorted(strips, j, x) /\ Sorted(strips, x, m))
<1> DEFINE later == {m \in OnController(strips, c) : Sorted(strips, j, m)}
           before(m) == {x \in later : Sorted(strips, x, m)}
           counts == {Cardinality(before(m)) : m \in later}
<1>1. IsFiniteSet(DOMAIN strips) /\ later \in SUBSET DOMAIN strips
  BY FS_Interval DEF IsList, OnController
<1>2. IsFiniteSet(later)
  BY <1>1, FS_Subset
<1> HIDE DEF later
<1>3. \A m : before(m) \in SUBSET later
  OBVIOUS
<1>4. ASSUME NEW m PROVE IsFiniteSet(before(m)) /\ Cardinality(before(m)) \in Nat
  <2> HIDE DEF before
  <2> QED
    BY <1>2, <1>3, FS_Subset, FS_CardinalityType
<1>5. k \in later
  BY DEF later
<1>6. counts \in SUBSET Nat /\ counts # {}
  BY <1>4, <1>5
<1>7. PICK least \in counts : \A y \in counts : least <= y
  BY <1>6, Least
<1>8. PICK m \in later : least = Cardinality(before(m))
  BY <1>7
<1>9. ASSUME NEW x \in OnController(strips, c), Sorted(strips, j, x), Sorted(strips, x, m)
      PROVE  FALSE
  <2>1. x \in later /\ {x, m} \subseteq DOMAIN strips
    BY <1>9, <1>1, <1>8 DEF later
  <2>2. x \in before(m) /\ ~(x \in before(x))
    BY <2>1, <1>9, SortedIsStrict
  <2>3. before(x) \in SUBSET before(m)
    <3>1. \A y \in later : Sorted(strips, y, x) => Sorted(strips, y, m)
      BY <2>1, <1>9, <1>1, SortedIsStrict
    <3> QED
      BY <3>1
  <2>4. Cardinality(before(x)) <= Cardinality(before(m))
        /\ Cardinality(before(x)) # Cardinality(before(m))
    <3> HIDE DEF before
    <3> QED
      BY <2>2, <2>3, <1>4, FS_Subset
  <2>5. Cardinality(before(m)) <= Cardinality(before(x))
    BY <1>7, <1>8, <2>1
  <2> QED
    BY <2>4, <2>5, <1>4
<1>10. m \in OnController(strips, c) /\ Sorted(strips, j, m)
  BY <1>8 DEF later
<1>11. <<j, m>> \in Neighbours(strips, c)
  BY <1>9, <1>10 DEF Neighbours
<1> QED
  BY <1>9, <1>10, <1>11

(***************************************************************************)
(* _check_strip_layout compares each strip only with the next one in its   *)
(* order, which is enough: no two strips of an accepted list that are on   *)
(* one controller share a pixel, however long the list and however it is   *)
(* ordered.                                                                *)
(***************************************************************************)
THEOREM NeighboursSuffice ==
  ASSUME NEW strips, IsList(strips), Accepted(strips),
         NEW j \in DOMAIN strips, NEW k \in DOMAIN strips, j # k,
         strips[j].controller = strips[k].controller
  PROVE  Pixels(strips[j]) \cap Pixels(strips[k]) = {}
<1> DEFINE c == strips[j].controller
<1>1. /\ strips[j].id # strips[k].id
      /\ c \in Controller /\ ~Overlapping(strips, c)
      /\ j \in OnController(strips, c) /\ k \in OnController(strips, c)
  BY DEF Accepted, OnController
<1> HIDE DEF c
<1>2. ASSUME NEW a \in {j, k}, NEW b \in {j, k}, Sorted(strips, a, b)
      PROVE  End(strips[a]) <= First(strips[b])
  <2>1. PICK m \in OnController(strips, c) :
          /\ <<a, m>> \in Neighbours(strips, c)
          /\ \A x \in OnController(strips, c) :
               ~(Sorted(strips, a, x) /\ Sorted(strips, x, m))
    BY <1>1, <1>2, NextNeighbour
  <2>2. m \in DOMAIN strips /\ a \in DOMAIN strips /\ b \in DOMAIN strips
    BY DEF OnController
  <2>3. /\ End(strips[a]) \in Int /\ First(strips[m]) \in Int
        /\ First(strips[b]) \in Int
    BY <2>2 DEF IsList, End, First
  <2>4. ~(First(strips[m]) < End(strips[a]))
    <3>1. <<a, m>>[1] = a /\ <<a, m>>[2] = m
      OBVIOUS
    <3> QED
      BY <2>1, <1>1, <3>1 DEF Overlapping
  <2>5. m = b \/ Sorted(strips, m, b)
    <3>1. ~Sorted(strips, b, m)
      <4>1. b \in OnController(strips, c) /\ Sorted(strips, a, b)
        BY <1>1, <1>2
      <4> QED
        BY <2>1, <4>1
    <3>2. m # b => strips[m].id # strips[b].id
      BY <2>2 DEF Accepted
    <3> QED
      BY <3>1, <3>2, <2>2, SortedIsStrict
  <2>6. First(strips[m]) <= First(strips[b])
    BY <2>5, <2>2, <2>3, SortedIsStrict
  <2> QED
    BY <2>3, <2>4, <2>6
<1>3. End(strips[j]) <= First(strips[k]) \/ End(strips[k]) <= First(strips[j])
  BY <1>1, <1>2, SortedIsStrict
<1>4. \A i \in {j, k} : /\ End(strips[i]) \in Int /\ First(strips[i]) \in Int
                        /\ Pixels(strips[i]) = First(strips[i])..(End(strips[i]) - 1)
  BY DEF IsList, End, First, Pixels
<1> QED
  BY <1>3, <1>4

(* The frame ends where the last strip ends. *)
LEMMA FrameHoldsAll ==
  ASSUME NEW strips, IsList(strips), Accepted(strips), OneController(strips)
  PROVE  /\ PixelCount(strips) \in Nat
         /\ \A j \in DOMAIN strips :
              Pixels(strips[j]) \subseteq 0..(PixelCount(strips) - 1)
<1> DEFINE ends == {End(strips[j]) : j \in DOMAIN strips}
<1>1. \A k \in DOMAIN strips : strips[k].offset \in Nat /\ End(strips[k]) \in Nat
  BY DEF IsList, End
<1>2. PICK i : i \in DOMAIN strips
  <2>1. PICK n \in Nat : DOMAIN strips = 1..n /\ (n = 0 => strips = << >>)
    BY ListDomain
  <2>2. n # 0
    BY <2>1 DEF Accepted
  <2> QED
    BY <2>1, <2>2
<1> DEFINE n == Capacity[strips[i].controller]
<1>3. n \in Nat /\ \A k \in DOMAIN strips : End(strips[k]) <= n
  BY <1>2, TopologyAssumption DEF Accepted, OneController, Controller
<1>4. ends \in SUBSET (0..n) /\ ends # {}
  BY <1>1, <1>2, <1>3
<1>5. PixelCount(strips) \in 0..n /\ \A y \in ends : PixelCount(strips) >= y
  <2>1. Max(ends) \in ends /\ \A y \in ends : Max(ends) >= y
    BY <1>3, <1>4, MaxIsGreatest
  <2> QED
    BY <1>4, <2>1 DEF PixelCount
<1> QED
  BY <1>1, <1>3, <1>5 DEF Pixels, First, End

(* A pixel of a strip is no other strip's. *)
LEMMA CoveredOnce ==
  ASSUME NEW strips, IsList(strips), Accepted(strips), OneController(strips),
         NEW j \in DOMAIN strips, NEW g \in Pixels(strips[j])
  PROVE  Covering(strips, g) = {j}
<1>1. \A k \in DOMAIN strips : k # j => ~(g \in Pixels(strips[k]))
  BY NeighboursSuffice DEF OneController
<1> QED
  BY <1>1 DEF Covering

(***************************************************************************)
(* Of an accepted list on one controller, from_config puts every LED of    *)
(* every strip at the very pixel of the frame that the controller sends to *)
(* it, for any number of strips, in any order, with any gaps.              *)
(***************************************************************************)
THEOREM LedsInPlace ==
  ASSUME NEW strips, IsList(strips), Accepted(strips), OneController(strips)
  PROVE  EveryLedAtItsPixel(strips, Leds(strips))
<1>1. SUFFICES ASSUME NEW j \in DOMAIN strips, NEW i \in 0..(strips[j].count - 1)
               PROVE  /\ strips[j].offset + i \in DOMAIN Leds(strips)
                      /\ Leds(strips)[strips[j].offset + i] = <<j, i>>
  BY DEF EveryLedAtItsPixel
<1> DEFINE g == strips[j].offset + i
<1>2. strips[j].offset \in Nat /\ strips[j].count \in Nat /\ j \in Int
  BY DEF IsList
<1>3. g \in Pixels(strips[j])
  BY <1>2 DEF Pixels, First, End
<1>4. g \in 0..(PixelCount(strips) - 1)
  BY <1>3, FrameHoldsAll
<1>5. Covering(strips, g) = {j}
  BY <1>3, CoveredOnce
<1>6. Max({j}) = j
  BY <1>2 DEF Max
<1>7. Led(strips, g) = <<j, Chain(strips[j], g)>>
  BY <1>5, <1>6 DEF Led
<1>8. Chain(strips[j], g) = i
  BY <1>2 DEF Chain, First
<1> QED
  BY <1>4, <1>7, <1>8 DEF Leds

(***************************************************************************)
(* The walk of u_loop.  Before it comes to a pixel it has passed all of    *)
(* the earlier strips and a part of the pixel's own; the rank of the pixel *)
(* is how many that are.                                                   *)
(***************************************************************************)
OwnPassed(strip, g) ==
  IF WalksBack(strip) THEN (g + 1)..(End(strip) - 1) ELSE First(strip)..(g - 1)

Passed(strips, j, g) ==
  Walked(strips, Earlier(strips, j)) \cup ({j} \X OwnPassed(strips[j], g))

LEMMA WalkedIs ==
  ASSUME NEW strips, NEW ks, NEW k, NEW g
  PROVE  <<k, g>> \in Walked(strips, ks) <=> k \in ks /\ g \in Pixels(strips[k])
BY DEF Walked

LEMMA WalkedArePairs ==
  ASSUME NEW strips, NEW ks, NEW x \in Walked(strips, ks)
  PROVE  \E k \in ks : \E g \in Pixels(strips[k]) : x = <<k, g>>
BY DEF Walked

LEMMA WalkIsStrict ==
  ASSUME NEW strips, IsList(strips),
         NEW j \in DOMAIN strips, NEW k \in DOMAIN strips, NEW m \in DOMAIN strips
  PROVE  /\ ~WalkedBefore(strips, j, j)
         /\ WalkedBefore(strips, j, k) /\ WalkedBefore(strips, k, m)
              => WalkedBefore(strips, j, m)
         /\ j # k => WalkedBefore(strips, j, k) \/ WalkedBefore(strips, k, j)
<1>1. /\ DOMAIN strips \subseteq Int
      /\ \A i \in DOMAIN strips : strips[i].bucket \in 0..4 /\ strips[i].endx \in Int
  BY ListDomain DEF IsList
<1> HIDE DEF IsList
<1> QED
  BY <1>1 DEF WalkedBefore

LEMMA WalkIsFinite ==
  ASSUME NEW strips, IsList(strips), Accepted(strips), OneController(strips),
         NEW ks \in SUBSET DOMAIN strips
  PROVE  /\ IsFiniteSet(Walked(strips, ks))
         /\ Cardinality(Walked(strips, ks)) \in Nat
<1> DEFINE grid == (DOMAIN strips) \X (0..(PixelCount(strips) - 1))
<1>1. /\ IsFiniteSet(DOMAIN strips)
      /\ IsFiniteSet(0..(PixelCount(strips) - 1))
  BY ListDomain, FrameHoldsAll, FS_Interval
<1>2. IsFiniteSet(grid)
  BY <1>1, FS_Product
<1>3. Walked(strips, ks) \in SUBSET grid
  <2>1. ASSUME NEW x \in Walked(strips, ks) PROVE x \in grid
    BY WalkedArePairs, FrameHoldsAll
  <2> QED
    BY <2>1
<1> QED
  BY <1>2, <1>3, FS_Subset, FS_CardinalityType

(* The rank of a pixel counts what the walk has passed. *)
LEMMA RankCountsPassed ==
  ASSUME NEW strips, IsList(strips), Accepted(strips), OneController(strips),
         NEW j \in DOMAIN strips, NEW g \in Pixels(strips[j])
  PROVE  /\ IsFiniteSet(Passed(strips, j, g))
         /\ Rank(strips, g) = Cardinality(Passed(strips, j, g))
<1> DEFINE ks == Earlier(strips, j)
           before == Walked(strips, ks)
           own == OwnPassed(strips[j], g)
           row == {j} \X own
           steps == IF WalksBack(strips[j]) THEN End(strips[j]) - 1 - g
                                            ELSE g - First(strips[j])
<1>1. /\ First(strips[j]) \in Nat /\ End(strips[j]) \in Nat /\ g \in Nat
      /\ First(strips[j]) <= g /\ g < End(strips[j])
  BY DEF IsList, First, End, Pixels
<1>2. IsFiniteSet(own) /\ Cardinality(own) = steps
  <2>1. CASE WalksBack(strips[j])
    <3>1. own = (g + 1)..(End(strips[j]) - 1)
      BY <2>1 DEF OwnPassed
    <3>2. /\ g + 1 \in Int /\ End(strips[j]) - 1 \in Int
          /\ steps = End(strips[j]) - 1 - g
      BY <1>1, <2>1
    <3>3. /\ IsFiniteSet(own)
          /\ Cardinality(own) = IF g + 1 > End(strips[j]) - 1 THEN 0
                                ELSE End(strips[j]) - 1 - (g + 1) + 1
      BY <3>1, <3>2, FS_Interval
    <3> HIDE DEF own, steps
    <3> QED
      BY <3>2, <3>3, <1>1
  <2>2. CASE ~WalksBack(strips[j])
    <3>1. own = First(strips[j])..(g - 1)
      BY <2>2 DEF OwnPassed
    <3> QED
      BY <2>2, <3>1, <1>1, FS_Interval
  <2> QED
    BY <2>1, <2>2
<1>3. steps \in Nat
  BY <1>1
<1>4. IsFiniteSet(row) /\ Cardinality(row) = steps
  <2>1. IsFiniteSet({j}) /\ Cardinality({j}) = 1
    BY FS_Singleton
  <2> HIDE DEF own, steps
  <2>2. IsFiniteSet(row) /\ Cardinality(row) = 1 * steps
    BY <1>2, <2>1, FS_Product
  <2> QED
    BY <2>2, <1>3
<1>5. ks \in SUBSET DOMAIN strips /\ ~(j \in ks)
  BY WalkIsStrict DEF Earlier
<1>6. IsFiniteSet(before) /\ Cardinality(before) \in Nat
  BY <1>5, WalkIsFinite
<1>7. before \cap row = {}
  BY <1>5, WalkedArePairs
<1>8. /\ IsFiniteSet(Passed(strips, j, g))
      /\ Cardinality(Passed(strips, j, g)) = Cardinality(before) + steps
  <2> HIDE DEF before, row, steps
  <2>1. /\ IsFiniteSet(before \cup row)
        /\ Cardinality(before \cup row)
             = Cardinality(before) + Cardinality(row) - Cardinality(before \cap row)
    BY <1>4, <1>6, FS_Union
  <2>2. Cardinality(before \cap row) = 0
    BY <1>7, FS_EmptySet
  <2>3. Passed(strips, j, g) = before \cup row
    BY DEF Passed, before, row
  <2> QED
    BY <2>1, <2>2, <2>3, <1>3, <1>4, <1>6
<1>9. Rank(strips, g) = StartRank(strips, j) + steps
  <2>1. Covering(strips, g) = {j}
    BY CoveredOnce
  <2>2. (CHOOSE i \in {j} : \A k \in {j} \ {i} : WalkedBefore(strips, k, i)) = j
    OBVIOUS
  <2> QED
    BY <2>1, <2>2 DEF Rank
<1> QED
  BY <1>8, <1>9 DEF StartRank

(* Of two pixels the walk has passed one when it comes to the other. *)
LEMMA WalkIsTotal ==
  ASSUME NEW strips, IsList(strips), Accepted(strips), OneController(strips),
         NEW j \in DOMAIN strips, NEW g \in Pixels(strips[j]),
         NEW k \in DOMAIN strips, NEW h \in Pixels(strips[k]),
         <<j, g>> # <<k, h>>
  PROVE  <<j, g>> \in Passed(strips, k, h) \/ <<k, h>> \in Passed(strips, j, g)
<1>1. CASE j = k
  <2>1. /\ First(strips[j]) \in Nat /\ End(strips[j]) \in Nat /\ g # h
        /\ g \in First(strips[j])..(End(strips[j]) - 1)
        /\ h \in First(strips[j])..(End(strips[j]) - 1)
    BY <1>1 DEF IsList, First, End, Pixels
  <2>2. g \in OwnPassed(strips[j], h) \/ h \in OwnPassed(strips[j], g)
    <3> HIDE DEF IsList
    <3>1. CASE WalksBack(strips[j])
      BY <3>1, <2>1 DEF OwnPassed
    <3>2. CASE ~WalksBack(strips[j])
      BY <3>2, <2>1 DEF OwnPassed
    <3> QED
      BY <3>1, <3>2
  <2> QED
    BY <1>1, <2>2 DEF Passed
<1>2. CASE j # k
  <2>1. j \in Earlier(strips, k) \/ k \in Earlier(strips, j)
    BY <1>2, WalkIsStrict DEF Earlier
  <2> QED
    BY <2>1, WalkedIs DEF Passed
<1> QED
  BY <1>1, <1>2

(* What was passed before a pixel was passed before all that come after. *)
LEMMA WalkIsTransitive ==
  ASSUME NEW strips, IsList(strips),
         NEW j \in DOMAIN strips, NEW g \in Pixels(strips[j]),
         NEW k \in DOMAIN strips, NEW h \in Pixels(strips[k]),
         <<j, g>> \in Passed(strips, k, h)
  PROVE  Passed(strips, j, g) \subseteq Passed(strips, k, h)
<1>1. \/ j \in Earlier(strips, k)
      \/ j = k /\ g \in OwnPassed(strips[k], h)
  BY WalkedIs DEF Passed
<1>2. OwnPassed(strips[j], g) \subseteq Pixels(strips[j])
  <2>1. /\ First(strips[j]) \in Nat /\ End(strips[j]) \in Nat
        /\ g \in First(strips[j])..(End(strips[j]) - 1)
    BY DEF IsList, First, End, Pixels
  <2> QED
    BY <2>1 DEF OwnPassed, Pixels
<1>3. CASE j \in Earlier(strips, k)
  <2>1. Earlier(strips, j) \subseteq Earlier(strips, k)
    <3>1. ASSUME NEW m \in Earlier(strips, j) PROVE m \in Earlier(strips, k)
      BY <1>3, WalkIsStrict DEF Earlier
    <3> QED
      BY <3>1
  <2>2. Walked(strips, Earlier(strips, j)) \subseteq Walked(strips, Earlier(strips, k))
    BY <2>1 DEF Walked
  <2>3. {j} \X OwnPassed(strips[j], g) \subseteq Walked(strips, Earlier(strips, k))
    BY <1>2, <1>3 DEF Walked
  <2> QED
    BY <2>2, <2>3 DEF Passed
<1>4. CASE j = k /\ g \in OwnPassed(strips[k], h)
  <2>1. /\ First(strips[j]) \in Nat /\ End(strips[j]) \in Nat
        /\ g \in First(strips[j])..(End(strips[j]) - 1)
        /\ h \in First(strips[j])..(End(strips[j]) - 1)
    BY <1>4 DEF IsList, First, End, Pixels
  <2>2. OwnPassed(strips[j], g) \subseteq OwnPassed(strips[j], h)
    <3>1. CASE WalksBack(strips[j])
      BY <3>1, <2>1, <1>4 DEF OwnPassed
    <3>2. CASE ~WalksBack(strips[j])
      BY <3>2, <2>1, <1>4 DEF OwnPassed
    <3> QED
      BY <3>1, <3>2
  <2> QED
    BY <2>2, <1>4 DEF Passed
<1> QED
  BY <1>1, <1>3, <1>4

(* No pixel is passed before the walk comes to it. *)
LEMMA WalkIsIrreflexive ==
  ASSUME NEW strips, IsList(strips),
         NEW j \in DOMAIN strips, NEW g \in Pixels(strips[j])
  PROVE  <<j, g>> \notin Passed(strips, j, g)
<1>1. ~(j \in Earlier(strips, j))
  BY WalkIsStrict DEF Earlier
<1>2. /\ First(strips[j]) \in Nat /\ End(strips[j]) \in Nat
      /\ g \in First(strips[j])..(End(strips[j]) - 1)
  BY DEF IsList, First, End, Pixels
<1>3. g \notin OwnPassed(strips[j], g)
  BY <1>2 DEF OwnPassed
<1> QED
  BY <1>1, <1>3, WalkedIs DEF Passed

(***************************************************************************)
(* Of an accepted list on one controller, u_loop visits every LED once and *)
(* leaves no rank out, for any number of strips, in any quadrant, with any *)
(* gaps.  What was passed before a pixel grows strictly along the walk, so *)
(* that no two LEDs have the same rank; and there are as many LEDs as      *)
(* ranks, so that every rank is taken.                                     *)
(***************************************************************************)
THEOREM WalkInOrder ==
  ASSUME NEW strips, IsList(strips), Accepted(strips), OneController(strips)
  PROVE  WalkIsComplete(Leds(strips), Loop(strips))
<1> DEFINE leds == Leds(strips)
           loop == Loop(strips)
           lit == {g \in DOMAIN leds : leds[g] # Hole}
           strip(g) == CHOOSE j \in DOMAIN strips : g \in Pixels(strips[j])
           all == Walked(strips, DOMAIN strips)
           where == [g \in lit |-> <<strip(g), g>>]
           n == Cardinality(lit)
           ranks == [g \in lit |-> loop[g]]
<1>1. /\ DOMAIN leds = 0..(PixelCount(strips) - 1)
      /\ DOMAIN loop = 0..(PixelCount(strips) - 1)
      /\ PixelCount(strips) \in Nat
  BY FrameHoldsAll DEF Leds, Loop
<1>2. ASSUME NEW j \in DOMAIN strips, NEW g \in Pixels(strips[j])
      PROVE  g \in lit
  <2>1. g \in DOMAIN leds
    BY <1>1, FrameHoldsAll
  <2>2. Covering(strips, g) = {j} /\ j \in Int
    BY CoveredOnce, ListDomain
  <2>3. Led(strips, g) = <<j, Chain(strips[j], g)>>
    BY <2>2 DEF Led, Max
  <2>4. Chain(strips[j], g) \in Nat
    BY DEF Chain, IsList, Pixels, First, End
  <2> QED
    BY <1>1, <2>1, <2>3, <2>4 DEF Leds, Hole
<1>3. ASSUME NEW g \in lit
      PROVE  strip(g) \in DOMAIN strips /\ g \in Pixels(strips[strip(g)])
  <2>1. Covering(strips, g) # {}
    BY DEF Leds, Led
  <2> QED
    BY <2>1 DEF Covering
<1>4. \A g \in lit : loop[g] = Rank(strips, g)
  BY <1>1 DEF Loop
<1> HIDE DEF leds, loop, strip
<1>5. IsFiniteSet(all) /\ IsFiniteSet(lit)
  <2>1. IsFiniteSet(DOMAIN leds)
    BY <1>1, FS_Interval
  <2> QED
    BY <2>1, WalkIsFinite, FS_Subset
<1>6. n \in Nat /\ IsFiniteSet(0..(n - 1)) /\ Cardinality(0..(n - 1)) = n
  <2>1. n \in Nat
    BY <1>5, FS_CardinalityType
  <2> HIDE DEF n
  <2> QED
    BY <2>1, FS_Interval
<1>7. Cardinality(all) = n
  <2>1. where \in [lit -> all]
    BY <1>3, WalkedIs
  <2>2. IsInjective(where)
    BY DEF IsInjective
  <2>3. ASSUME NEW x \in all PROVE \E g \in lit : where[g] = x
    <3>1. PICK j \in DOMAIN strips : \E h \in Pixels(strips[j]) : x = <<j, h>>
      BY WalkedArePairs
    <3> PICK g \in Pixels(strips[j]) : x = <<j, g>>
      BY <3>1
    <3>2. g \in lit
      BY <1>2
    <3>3. strip(g) = j
      BY <1>3, <3>2, NeighboursSuffice DEF OneController
    <3> QED
      BY <3>2, <3>3
  <2>4. where \in Bijection(lit, all)
    BY <2>1, <2>2, <2>3 DEF Bijection, Injection, Surjection
  <2> QED
    BY <2>4, <1>5, FS_Bijection DEF ExistsBijection
<1>8. ASSUME NEW g \in lit
      PROVE  ranks[g] = Cardinality(Passed(strips, strip(g), g))
  BY <1>3, <1>4, RankCountsPassed
<1>9. ASSUME NEW g \in lit, NEW h \in lit, <<strip(g), g>> \in Passed(strips, strip(h), h)
      PROVE  ranks[g] < ranks[h]
  <2> DEFINE P == Passed(strips, strip(g), g)
             Q == Passed(strips, strip(h), h)
  <2>1. P \in SUBSET Q /\ <<strip(g), g>> \in Q /\ <<strip(g), g>> \notin P
    BY <1>3, <1>9, WalkIsTransitive, WalkIsIrreflexive
  <2>2. IsFiniteSet(P) /\ IsFiniteSet(Q)
    BY <1>3, RankCountsPassed
  <2> HIDE DEF P, Q
  <2>3. /\ Cardinality(P) <= Cardinality(Q) /\ Cardinality(P) # Cardinality(Q)
        /\ Cardinality(P) \in Nat /\ Cardinality(Q) \in Nat
    BY <2>1, <2>2, FS_Subset, FS_CardinalityType
  <2> QED
    BY <2>3, <1>8 DEF P, Q
<1>10. ASSUME NEW g \in lit PROVE ranks[g] \in 0..(n - 1)
  <2> DEFINE P == Passed(strips, strip(g), g)
  <2>1. P \in SUBSET all
    <3>1. Earlier(strips, strip(g)) \subseteq DOMAIN strips
      BY DEF Earlier
    <3>2. Walked(strips, Earlier(strips, strip(g))) \subseteq all
      BY <3>1 DEF Walked
    <3>3. OwnPassed(strips[strip(g)], g) \subseteq Pixels(strips[strip(g)])
      <4>1. /\ First(strips[strip(g)]) \in Nat /\ End(strips[strip(g)]) \in Nat
            /\ g \in First(strips[strip(g)])..(End(strips[strip(g)]) - 1)
        BY <1>3 DEF IsList, First, End, Pixels
      <4> QED
        BY <4>1 DEF OwnPassed, Pixels
    <3>4. {strip(g)} \X OwnPassed(strips[strip(g)], g) \subseteq all
      BY <1>3, <3>3 DEF Walked
    <3> QED
      BY <3>2, <3>4 DEF Passed
  <2>2. <<strip(g), g>> \in all /\ <<strip(g), g>> \notin P
    BY <1>3, WalkedIs, WalkIsIrreflexive
  <2> HIDE DEF P, all
  <2>3. /\ Cardinality(P) <= Cardinality(all) /\ Cardinality(P) # Cardinality(all)
        /\ Cardinality(P) \in Nat
    BY <2>1, <2>2, <1>5, FS_Subset, FS_CardinalityType
  <2> HIDE DEF n
  <2> QED
    BY <2>3, <1>6, <1>7, <1>8 DEF P
<1>11. ranks \in Injection(lit, 0..(n - 1))
  <2>1. ranks \in [lit -> 0..(n - 1)]
    BY <1>10
  <2>2. ASSUME NEW g \in lit, NEW h \in lit, g # h
        PROVE  ranks[g] # ranks[h]
    <3>1. \/ <<strip(g), g>> \in Passed(strips, strip(h), h)
          \/ <<strip(h), h>> \in Passed(strips, strip(g), g)
      <4>1. <<strip(g), g>> # <<strip(h), h>>
        BY <2>2
      <4> QED
        BY <4>1, <1>3, WalkIsTotal
    <3>2. ranks[g] \in Int /\ ranks[h] \in Int
      BY <1>10, <1>6
    <3> HIDE DEF ranks
    <3> QED
      BY <3>1, <3>2, <1>9
  <2> HIDE DEF ranks
  <2>3. IsInjective(ranks)
    BY <2>1, <2>2 DEF IsInjective
  <2> QED
    BY <2>1, <2>3 DEF Injection
<1>12. ranks \in Surjection(lit, 0..(n - 1))
  <2> HIDE DEF ranks, n, lit
  <2> QED
    BY <1>5, <1>6, <1>11, FS_Injection DEF n
<1>13. {loop[g] : g \in lit} = 0..(n - 1)
  <2>1. \A g \in lit : loop[g] \in 0..(n - 1)
    BY <1>10
  <2>2. \A y \in 0..(n - 1) : \E g \in lit : loop[g] = y
    BY <1>12 DEF Surjection
  <2> HIDE DEF n, lit
  <2> QED
    BY <2>1, <2>2
<1> QED
  BY <1>13 DEF WalkIsComplete, leds, loop

(* For any layouts an installer writes and an editor puts: of a rig on one
   controller that is running, every LED is at its pixel and the loop visits
   every LED once. *)
THEOREM LedsCorrect == Spec => []EveryLedOnce
<1>1. Inv => EveryLedOnce
  <2>1. SUFFICES ASSUME Inv, Up, OneController(server.built.strips)
                 PROVE  /\ EveryLedAtItsPixel(server.built.strips, server.built.leds)
                        /\ WalkIsComplete(server.built.leds, server.built.loop)
    BY DEF EveryLedOnce
  <2>2. PICK strips \in Startable : server.built = Built(strips)
    BY <2>1 DEF Inv, TypeOK, Up, Down, Servers, Topologies
  <2>3. /\ server.built.strips = strips /\ server.built.leds = Leds(strips)
        /\ server.built.loop = Loop(strips)
    BY <2>2 DEF Built
  <2>4. IsList(strips) /\ Accepted(strips)
    BY InstallationAssumption DEF Startable, Lists
  <2> QED
    BY <2>1, <2>3, <2>4, LedsInPlace, WalkInOrder
<1> QED
  BY Invariance, <1>1, PTL
=============================================================================
