---------------------------- MODULE Installation ----------------------------
(***************************************************************************)
(* The configuration of the rig and its write-back (api/server.py,         *)
(* config.py, masters.py): config.yaml with its .bak and .tmp beside it,   *)
(* the server's config, the topology the engine was built from and its     *)
(* master knobs.  PUT /config and PATCH /masters change some of these at   *)
(* once, and the file one step at a time.                                  *)
(*                                                                         *)
(* Covered faults: a crash after any file-system step, and an OSError of   *)
(* any step, which the handlers answer with a 500.  Of a configuration     *)
(* only the strips, the masters and the presence of the auth block are     *)
(* kept.  The server is run with a config path, as cli.py does.  An edit   *)
(* of config.yaml by hand counts only before the first start.              *)
(***************************************************************************)
EXTENDS Topology

CONSTANTS
  Installed,  \* the lists of strips the installer may have written
  Edits,      \* the lists the layout editor may PUT
  Limit,      \* the upper bound of each master knob
  Patches,    \* the fields of PATCH /masters, functions on subsets of knobs
  MaxFaults   \* bound: crashes and failed writes

Knob == DOMAIN Limit
Knobs == {m \in [Knob -> Nat] : \A k \in Knob : m[k] <= Limit[k]}

ASSUME InstallationAssumption ==
  /\ \A strips \in Installed \cup Edits : IsList(strips)
  /\ Limit \in [DOMAIN Limit -> Nat]
  /\ \A patch \in Patches :
       /\ DOMAIN patch \subseteq Knob
       /\ \A k \in DOMAIN patch : patch[k] \in Nat
  /\ MaxFaults \in Nat

VARIABLES
  disk,    \* config.yaml, config.yaml.bak and config.yaml.tmp
  server,  \* app.state.config, and the engine's topology and masters
  faults   \* number of faults so far

vars == <<disk, server, faults>>

Config(strips, masters, auth) ==
  [strips |-> strips, masters |-> masters, auth |-> auth]

NoFile == [is |-> "absent"]
TornFile == [is |-> "torn"]
File(config) == [is |-> "whole", config |-> config]

Down == [is |-> "down"]
Running(config, built, masters) ==
  [is |-> "up", config |-> config, built |-> built, masters |-> masters]
Up == server.is = "up"

-----------------------------------------------------------------------------
(***************************************************************************)
(* _config_to_yaml_dict has no entry for the auth block.                   *)
(***************************************************************************)
WrittenBack(config) == [config EXCEPT !.auth = FALSE]

(***************************************************************************)
(* _write_config_yaml, one file-system step after the other.               *)
(* Mutants: without the temporary file; a backup that is there is kept.    *)
(***************************************************************************)
WriteInPlace(config) ==
  LET saved == [disk EXCEPT !.bak = disk.yaml]
  IN  <<[disk EXCEPT !.bak = TornFile], saved,
        [saved EXCEPT !.yaml = TornFile],
        [saved EXCEPT !.yaml = File(WrittenBack(config))]>>

BackupOnce(config) ==
  LET saved   == [disk EXCEPT !.bak = IF @.is = "whole" THEN @ ELSE disk.yaml]
      written == [saved EXCEPT !.tmp = File(WrittenBack(config))]
  IN  <<saved, [saved EXCEPT !.tmp = TornFile], written,
        [written EXCEPT !.yaml = written.tmp, !.tmp = NoFile]>>

WriteSteps(config) ==
  LET saved   == [disk EXCEPT !.bak = disk.yaml]
      written == [saved EXCEPT !.tmp = File(WrittenBack(config))]
  IN  <<[disk EXCEPT !.bak = TornFile], saved,
        [saved EXCEPT !.tmp = TornFile], written,
        [written EXCEPT !.yaml = written.tmp, !.tmp = NoFile]>>

(* The write succeeds and then = done; it fails and then = failed; or the
   process dies within it, or before it has answered. *)
Write(config, done, failed) ==
  LET steps == WriteSteps(config)
      last  == Len(steps)
  IN  \/ disk' = steps[last] /\ server' = done /\ UNCHANGED faults
      \/ /\ faults < MaxFaults /\ faults' = faults + 1
         /\ \/ \E i \in 1..(last - 1) : disk' = steps[i] /\ server' = failed
            \/ \E i \in 1..last : disk' = steps[i] /\ server' = Down

-----------------------------------------------------------------------------
Init ==
  /\ \E strips \in Installed, auth \in BOOLEAN :
       disk = [yaml |-> File(Config(strips, Limit, auth)),
               bak |-> NoFile, tmp |-> NoFile]
  /\ server = Down
  /\ faults = 0

(***************************************************************************)
(* load_config, then create_app: a file that does not validate ends the    *)
(* process.                                                                *)
(***************************************************************************)
Start ==
  /\ ~Up
  /\ disk.yaml.is = "whole" /\ Accepted(disk.yaml.config.strips)
  /\ LET config == disk.yaml.config
     IN  server' = Running(config, Built(config.strips), config.masters)
  /\ UNCHANGED <<disk, faults>>

Crash ==
  /\ Up /\ faults < MaxFaults
  /\ server' = Down
  /\ faults' = faults + 1
  /\ UNCHANGED disk

(***************************************************************************)
(* put_config: validate, build, write, and only then swap.                 *)
(* Mutants: the strips are not validated; the knobs as they are set are    *)
(* written along.                                                          *)
(***************************************************************************)
Unchecked(strips) == strips # <<>>
Valid(strips) == Accepted(strips)

WithKnobs(strips) == [server.config EXCEPT !.strips = strips, !.masters = server.masters]
WithStrips(strips) == [server.config EXCEPT !.strips = strips]

PutConfig(strips) ==
  /\ Up /\ Valid(strips)
  /\ LET config == WithStrips(strips)
     IN  Write(config, [server EXCEPT !.config = config, !.built = Built(strips)],
               server)

(***************************************************************************)
(* patch_masters: the engine's knobs are merged and clamped first; if the  *)
(* patch asks for it, all of them are then written, and stay set when      *)
(* that fails.                                                             *)
(***************************************************************************)
Clip(k, v) == IF v > Limit[k] THEN Limit[k] ELSE v

MergedMasters(patch) ==
  [k \in Knob |-> IF k \in DOMAIN patch THEN Clip(k, patch[k]) ELSE server.masters[k]]

PatchMasters(patch) ==
  /\ Up
  /\ server' = [server EXCEPT !.masters = MergedMasters(patch)]
  /\ UNCHANGED <<disk, faults>>

PersistMasters(patch) ==
  /\ Up
  /\ LET masters == MergedMasters(patch)
         config  == [server.config EXCEPT !.masters = masters]
         turned  == [server EXCEPT !.masters = masters]
     IN  Write(config, [turned EXCEPT !.config = config], turned)

Next ==
  \/ Start \/ Crash
  \/ \E strips \in Edits : PutConfig(strips)
  \/ \E patch \in Patches : PatchMasters(patch) \/ PersistMasters(patch)

Spec == Init /\ [][Next]_vars

-----------------------------------------------------------------------------
Lists == Installed \cup Edits
Startable == {strips \in Lists : Accepted(strips)}
Topologies == {Built(strips) : strips \in Startable}

Configs(lists) == [strips : lists, masters : Knobs, auth : BOOLEAN]
WholeFiles == [is : {"whole"}, config : Configs(Lists)]
Files == WholeFiles \cup {NoFile, TornFile}
Servers ==
  [is : {"up"}, config : Configs(Startable), built : Topologies, masters : Knobs]

(* config.yaml is whole whatever happens; what is beside it may be torn. *)
TypeOK ==
  /\ disk \in [yaml : WholeFiles, bak : Files, tmp : Files]
  /\ server = Down \/ server \in Servers
  /\ faults \in 0..MaxFaults

(* Of a rig on one controller, whatever order its strips are listed in and
   however they are mounted, every LED is in the frame at the very pixel the
   controller expects it at, and the loop coordinate visits every LED once:
   the overlap check of the configuration is enough for the topology that is
   built from it. *)
EveryLedOnce ==
  Up /\ OneController(server.built.strips) =>
    /\ EveryLedAtItsPixel(server.built.strips, server.built.leds)
    /\ WalkIsComplete(server.built.leds, server.built.loop)

(* PUT /config "replace strips, validate, write YAML (.bak first)": a step that
   changes config.yaml leaves in config.yaml.bak what it was before, and one
   that does not leaves the backup alone, torn, or a copy of config.yaml. *)
BackedUp ==
  IF disk'.yaml # disk.yaml
  THEN disk'.bak = disk.yaml
  ELSE disk'.bak \in {disk.bak, TornFile, disk.yaml}

BackupIsPrevious == [][BackedUp]_vars

(***************************************************************************)
(* The files and the server's three copies are a ConfigRegister: the file  *)
(* is always whole, what runs is what it holds, a layout is written        *)
(* without the knobs that were only turned, and knobs without a layout.    *)
(***************************************************************************)
Broken == <<>>
Stored ==
  IF disk.yaml.is = "whole"
  THEN [layout |-> disk.yaml.config.strips, knobs |-> disk.yaml.config.masters]
  ELSE [layout |-> Broken, knobs |-> Limit]

InForce ==
  IF ~Up THEN Down
  ELSE [layout |-> server.built.strips, knobs |-> server.masters]

Register == INSTANCE ConfigRegister WITH
  Layout   <- Lists,
  Playable <- Startable,
  Knobs    <- Knobs,
  Off      <- Down,
  stored   <- Stored,
  inForce  <- InForce

(* A configuration that was acknowledged is the one a restart restores, and
   one whose write was cut off is there as a whole or not at all. *)
IsRegister == Register!Spec
=============================================================================
