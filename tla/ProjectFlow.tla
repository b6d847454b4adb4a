----------------------------- MODULE ProjectFlow -----------------------------
(***************************************************************************)
(* What one Vivado session holds while its user edits files: the staleness *)
(* hashes (tools/vivado_core/hash.py), the preflight check and the refresh *)
(* plan (sync.py), the operations (operations.py), the two front ends that *)
(* run them (vivado_cli.py, vivado_tui.py), and the build of the firmware  *)
(* (test_builder.py with rv2coe.py).  One front end is used throughout.    *)
(*                                                                         *)
(* A file group is its version, a hash the versions it covers.  Vivado     *)
(* reads the lines of a script one after the other and goes on after one   *)
(* that fails: of the steps of a script any may be done that can be.       *)
(* Nobody edits or builds while a command line runs.                       *)
(***************************************************************************)
EXTENDS CacheGeometry, FiniteSets

CONSTANTS
    Geometries,      \* names of memory sections the user may write ...
    Memory,          \* ... and what load_config reads from each
    MaxVersion,      \* versions of each file group
    Edited,          \* file groups the user edits, besides the configuration
    MaxEdits,        \* bound on the edits, failed builds and cleanings
    MaxFlags,        \* bound on the operations of one command line
    FollowsWorkflow  \* after editing the configuration the user runs --gen-config,
                     \* and starts the TUI anew
ASSUME FlowAssumption ==
    /\ Memory \in [Geometries -> MemoryConfig]
    /\ \A g \in Geometries : ByteEnabled(Memory[g])
    /\ {MaxVersion, MaxEdits, MaxFlags} \subseteq Nat \ {0}
    /\ FollowsWorkflow \in BOOLEAN
    /\ "none" \notin Geometries
    /\ Edited \subseteq {"rtl", "tb", "src", "fpga"}

Missing == 0

VARIABLES
    files,     \* the versions of the file groups, the firmware, yaml and header
    edits,     \* those so far
    front,     \* the front end that is used: "cli" or "tui"
    config,    \* the configuration it has loaded
    hasTb,     \* does the task have a testbench?
    known,     \* does the session exist?
    hashes,    \* session.meta.hashes
    project,   \* what the Vivado project was made from
    sound,     \* all scripts that change it were done in full since it was last built
    todo,      \* operations of the command line still to run
    last       \* result of the last operation of the command line

vars == <<files, edits, front, config, hasTb, known, hashes, project, sound, todo, last>>
session == <<hashes, project, sound>>

Place   == [create |-> 1, refresh |-> 2, sim |-> 3, bitstream |-> 4, program |-> 5, archive |-> 6]
Flags   == {"create", "refresh", "sim", "bitstream", "program", "archive"}
Layers  == {"rtl", "tb", "src", "coe", "fpga"}
RefreshLayers == Layers \ {"src"}

\* listed: the RTL is in the fileset that is synthesised; prj: a simulation
\* has left its list of files.
NoProject == [exists |-> FALSE, ip |-> "none", rom |-> Missing, constrs |-> Missing,
              listed |-> FALSE, prj |-> FALSE]
NoHashes  == [l \in {} |-> {}]

Init ==
    /\ \E g \in Geometries :
          /\ files = [rtl |-> 1, tb |-> 1, src |-> 1, fpga |-> 1,
                      coe |-> 1, hex |-> 1, yaml |-> g, header |-> g]
          /\ config = g
    /\ front \in {"cli", "tui"}
    /\ edits = 0 /\ hasTb \in BOOLEAN /\ known = FALSE
    /\ hashes = NoHashes /\ project = NoProject /\ sound = FALSE
    /\ todo = {} /\ last = "none"

-----------------------------------------------------------------------------
(***************************************************************************)
(* Hashes, the preflight check and the refresh plan.                       *)
(***************************************************************************)
\* Slip: neither the configuration nor the header belongs to the RTL.
CoversSvOnly(layer) ==
    IF layer = "coe" THEN {"coe", "hex"} ELSE {layer}
Covers(layer) ==
    CASE layer = "rtl" -> {"rtl", "yaml", "header"}
      [] layer = "coe" -> {"coe", "hex"}
      [] OTHER         -> {layer}

Digest(fs, layer) == [f \in Covers(layer) |-> fs[f]]
Current(fs)   == [l \in Layers |-> Digest(fs, l)]
Stale(l)      == l \notin DOMAIN hashes \/ hashes[l] # Digest(files, l)
StaleLayers   == {l \in Layers : Stale(l)}

Created == hashes # NoHashes
\* What preflight_check says: "ok", "warning" or "error".
Severity(op) ==
    IF ~Created THEN "error"
    ELSE IF StaleLayers = {} THEN "ok"
    ELSE IF Stale("rtl") THEN "error"
    ELSE IF Stale("tb") /\ op = "sim" THEN "warning"
    ELSE IF Stale("src") /\ ~Stale("coe") /\ op = "sim" THEN "warning"
    ELSE IF Stale("coe") /\ op = "sim" THEN "error"
    ELSE IF Stale("fpga") /\ op = "bitstream" THEN "warning"
    ELSE "ok"
\* The layers it names, with which the result is shown.
Reported == IF Created THEN StaleLayers ELSE {}

\* Slip: a stale firmware is left to the simulation.
PlanWithoutCoe(stale) ==
    [full |-> "rtl" \in stale,
     layers |-> IF "rtl" \in stale THEN stale ELSE stale \cap {"tb", "fpga"}]
PlanRefresh(stale) ==
    [full |-> "rtl" \in stale,
     layers |-> IF "rtl" \in stale THEN stale ELSE stale \cap RefreshLayers]

-----------------------------------------------------------------------------
(***************************************************************************)
(* What the steps done of a script make of the project.                    *)
(***************************************************************************)
\* Without a project nothing else is done; the firmware needs its memory.
FullSteps(withTb) == {"project", "ip", "rom", "constrs"} \cup {s \in {"tb"} : withTb}
FullDone(withTb) ==
    {done \in SUBSET FullSteps(withTb) :
        /\ done # {} => "project" \in done
        /\ "rom" \in done => "ip" \in done /\ files.coe # Missing}
\* create_project, the memories, their contents, the constraints, and the
\* testbench, for which the RTL moves to the simulation.
Full(done) ==
    [exists  |-> "project" \in done,
     ip      |-> IF "ip" \in done THEN config ELSE "none",
     rom     |-> IF "rom" \in done THEN files.coe ELSE Missing,
     constrs |-> IF "constrs" \in done THEN files.fpga ELSE Missing,
     listed  |-> "tb" \notin done,
     prj     |-> FALSE]

\* A stale testbench has the firmware read as well.
IncrementalSteps(layers) ==
    {s \in {"tb"} : "tb" \in layers /\ hasTb}
    \cup {s \in {"rom"} : layers \cap {"tb", "coe"} # {}}
    \cup {s \in {"remove", "constrs"} : "fpga" \in layers}
IncrementalDone(layers) ==
    {done \in SUBSET IncrementalSteps(layers) :
        /\ done # {} => project.exists
        /\ "rom" \in done => project.ip # "none" /\ files.coe # Missing}
Incremental(done) ==
    [project EXCEPT
        !.listed  = @ /\ "tb" \notin done,
        !.rom     = IF "rom" \in done THEN files.coe ELSE @,
        !.constrs = IF "constrs" \in done THEN files.fpga
                    ELSE IF "remove" \in done THEN Missing ELSE @]

-----------------------------------------------------------------------------
(***************************************************************************)
(* The operations.                                                         *)
(***************************************************************************)
IsNext(op) == op \in todo /\ \A o \in todo : Place[op] <= Place[o]
Finish(op, ok) ==
    /\ last' = IF ok THEN "succeeded" ELSE "failed"
    /\ todo' = todo \ {op}
    /\ UNCHANGED <<edits, front, config, hasTb, known>>

\* _update_hashes: whatever became of the script.
Record(fs) == hashes' = Current(fs)

RequiredFiles == files.coe # Missing /\ files.hex # Missing

\* A full build starts by removing the old project.
Built(withTb, ok) ==
    \E done \in FullDone(withTb) :
        /\ ok => done = FullSteps(withTb)
        /\ IF done = {} THEN project' \in {project, NoProject} ELSE project' = Full(done)

Create ==
    /\ IsNext("create") /\ RequiredFiles
    /\ files' = [files EXCEPT !.header = config]
    /\ \E ok \in BOOLEAN : Finish("create", ok) /\ Built(FALSE, ok) /\ sound' = ok
    /\ Record(files')

\* Every operation may fail before its script: Vivado does not start, create
\* and sim miss a file, or the session is too stale.
Refused(op) ==
    /\ IsNext(op)
    /\ Finish(op, FALSE)
    /\ UNCHANGED <<files, session>>

NothingToRefresh ==
    /\ IsNext("refresh")
    /\ PlanRefresh(StaleLayers).layers = {}
    /\ Finish("refresh", TRUE)
    /\ UNCHANGED <<files, session>>

\* The layers --layers may name; the TUI has no such option.
Forced(layers) == {f \in SUBSET layers : front = "tui" => f = {}}
RefreshPlans(layers) == {PlanRefresh(StaleLayers \cup f) : f \in Forced(layers)}

Rebuilt(ok) ==
    /\ \E plan \in RefreshPlans({"rtl"}) : plan.full
    /\ Built(hasTb, ok)

RefreshFull ==
    /\ IsNext("refresh")
    /\ \E ok \in BOOLEAN : Finish("refresh", ok) /\ Rebuilt(ok) /\ sound' = ok
    /\ Record(files) /\ UNCHANGED files

Updated(ok) ==
    \E plan \in RefreshPlans(RefreshLayers) :
        /\ ~plan.full /\ plan.layers # {}
        /\ \E done \in IncrementalDone(plan.layers) :
              (ok => done = IncrementalSteps(plan.layers)) /\ project' = Incremental(done)

RefreshSome ==
    /\ IsNext("refresh")
    /\ \E ok \in BOOLEAN : Finish("refresh", ok) /\ Updated(ok) /\ sound' = (sound /\ ok)
    /\ Record(files) /\ UNCHANGED files

\* sim adds the testbench, takes the RTL out, and reads the current firmware.
SimSteps == {"tb", "rom", "launch"}
SimDone ==
    {done \in SUBSET SimSteps :
        /\ done # {} => project.exists
        /\ "rom" \in done => project.ip # "none"
        /\ "launch" \in done => hasTb}
\* Slip: the RTL stays in the fileset that is synthesised.
SimulatedKeepingRtl(done) ==
    project' = [project EXCEPT !.rom = IF "rom" \in done THEN files.coe ELSE @,
                               !.prj = @ \/ "launch" \in done]
Simulated(done) ==
    project' = [project EXCEPT !.listed = @ /\ "tb" \notin done,
                               !.rom    = IF "rom" \in done THEN files.coe ELSE @,
                               !.prj    = @ \/ "launch" \in done]

\* The verdict is that of Vivado's own run, or of one with the list of files
\* that a run has left and the operation completes: either needs the memories.
MayPass == project.ip # "none" /\ project.prj

Sim ==
    /\ IsNext("sim") /\ Severity("sim") # "error" /\ RequiredFiles
    /\ \E done \in SimDone, ok \in BOOLEAN :
          /\ Simulated(done)
          /\ ok => MayPass'
          /\ sound' = (sound /\ done \in {{}, SimSteps})
          /\ Finish("sim", ok)
    /\ UNCHANGED <<files, hashes>>

\* Synthesis reads the RTL and the header in place, if the project lists them.
Bitstream ==
    /\ IsNext("bitstream") /\ Severity("bitstream") # "error"
    /\ \E ok \in BOOLEAN :
          /\ ok => project.listed /\ project.ip # "none"
          /\ Finish("bitstream", ok)
    /\ UNCHANGED <<files, session>>

\* The file that is programmed is the one every session copies its bitstream
\* to: this session need not have built it.
Program ==
    /\ IsNext("program") /\ Severity("program") # "error"
    /\ \E ok \in BOOLEAN : Finish("program", ok)
    /\ UNCHANGED <<files, session>>

Archive ==
    /\ IsNext("archive") /\ Severity("archive") # "error"
    /\ \E ok \in BOOLEAN : (ok => project.exists) /\ Finish("archive", ok)
    /\ UNCHANGED <<files, session>>

\* The command line is interrupted, or an exception that is not the
\* orchestrator's own ends it: what Vivado has done remains, nothing is
\* recorded, and no further operation runs.
Aborted ==
    /\ todo # {} /\ todo' = {} /\ last' = "failed"
    /\ \/ /\ IsNext("create") /\ RequiredFiles /\ Built(FALSE, FALSE)
          /\ files' = [files EXCEPT !.header = config]
       \/ IsNext("refresh") /\ (Rebuilt(FALSE) \/ Updated(FALSE)) /\ UNCHANGED files
       \/ /\ IsNext("sim") /\ Severity("sim") # "error" /\ RequiredFiles
          /\ (\E done \in SimDone : Simulated(done)) /\ UNCHANGED files
       \/ UNCHANGED <<files, project>>
    /\ sound' = FALSE
    /\ UNCHANGED <<edits, front, config, hasTb, known, hashes>>

-----------------------------------------------------------------------------
(***************************************************************************)
(* The command line and the user.                                          *)
(***************************************************************************)
Prepared == todo = {} /\ (FollowsWorkflow => files.header = files.yaml)

\* _create_ gets or makes the session; the others need one.
CommandLine ==
    /\ front = "cli" /\ Prepared
    /\ todo' \in SUBSET Flags
    /\ Cardinality(todo') \in 1..MaxFlags
    /\ known \/ "create" \in todo'
    /\ known' = TRUE
    /\ config' = files.yaml
    /\ last' = "none"
    /\ UNCHANGED <<files, edits, front, hasTb, session>>

\* The TUI has one button per operation; it makes the session for any of them.
Button ==
    /\ front = "tui" /\ Prepared
    /\ FollowsWorkflow => config = files.yaml
    /\ \E op \in Flags : todo' = {op}
    /\ known' = TRUE
    /\ last' = "none"
    /\ UNCHANGED <<files, edits, front, config, hasTb, session>>

\* It reads the configuration when it starts.
StartTui ==
    /\ front = "tui" /\ todo = {}
    /\ config' = files.yaml
    /\ UNCHANGED <<files, edits, front, hasTb, known, session, todo, last>>

Idle == todo = {} /\ UNCHANGED <<front, config, hasTb, known, session, todo, last>>

Edit ==
    /\ Idle
    /\ edits < MaxEdits /\ edits' = edits + 1
    /\ \E f \in Edited : \E v \in (1..MaxVersion) \ {files[f]} : files' = [files EXCEPT ![f] = v]

EditConfig ==
    /\ Idle
    /\ edits < MaxEdits /\ edits' = edits + 1
    /\ \E g \in Geometries \ {files.yaml} : files' = [files EXCEPT !.yaml = g]

GenConfig ==
    /\ Idle
    /\ files' = [files EXCEPT !.header = files.yaml]
    /\ UNCHANGED edits

\* rv2coe writes the COE file, then the HEX file.
\* Slip: builds are numbered.
BuildNumbered ==
    /\ Idle
    /\ files' = [files EXCEPT !.coe = @ + 1, !.hex = @ + 1]
    /\ UNCHANGED edits
BuildFirmware ==
    /\ Idle
    /\ files' = [files EXCEPT !.coe = files.src, !.hex = files.src]
    /\ UNCHANGED edits

BuildStopsHalfway ==
    /\ Idle
    /\ edits < MaxEdits /\ edits' = edits + 1
    /\ files' = [files EXCEPT !.coe = files.src]

CleanFirmware ==
    /\ Idle
    /\ edits < MaxEdits /\ edits' = edits + 1
    /\ files' = [files EXCEPT !.coe = Missing, !.hex = Missing]

Next ==
    \/ Create \/ NothingToRefresh \/ RefreshFull \/ RefreshSome
    \/ Sim \/ Bitstream \/ Program \/ Archive
    \/ Aborted \/ \E op \in Flags : Refused(op)
    \/ CommandLine \/ Button \/ StartTui \/ Edit \/ EditConfig \/ GenConfig
    \/ BuildFirmware \/ BuildStopsHalfway \/ CleanFirmware

Spec == Init /\ [][Next]_vars

-----------------------------------------------------------------------------
Files ==
    [rtl : 1..MaxVersion, tb : 1..MaxVersion, src : 1..MaxVersion, fpga : 1..MaxVersion,
     coe : Missing..MaxVersion, hex : Missing..MaxVersion,
     yaml : Geometries, header : Geometries]
Projects ==
    [exists : BOOLEAN, ip : Geometries \cup {"none"},
     rom : Missing..MaxVersion, constrs : Missing..MaxVersion,
     listed : BOOLEAN, prj : BOOLEAN]
\* The files, the session and the command line have the types their uses assume.
TypeOK ==
    /\ files \in Files /\ edits \in 0..MaxEdits
    /\ config \in Geometries /\ front \in {"cli", "tui"}
    /\ hasTb \in BOOLEAN /\ known \in BOOLEAN
    /\ hashes = NoHashes \/ DOMAIN hashes = Layers
    /\ project \in Projects /\ sound \in BOOLEAN
    /\ todo \in SUBSET Flags
    /\ last \in {"none", "succeeded", "failed"}

InSync == Fits(CacheHeader(Memory[files.header]), CreatedIp(Memory[project.ip]))

\* While no script has failed on the session and its RTL is not reported stale,
\* the widths the RTL takes from cache_def.svh are those of the project's
\* memories, whatever was edited, generated, built and refreshed in between
\* (the staleness layers, create, refresh and --gen-config together).
GeometryInSync == sound /\ ~Stale("rtl") => InSync

Succeeds(op) == IsNext(op) /\ todo' = todo \ {op} /\ last' = "succeeded"

PartIsCurrent(layer) ==
    CASE layer = "rtl"  -> project.ip = files.yaml
      [] layer = "coe"  -> project.rom = files.coe
      [] layer = "fpga" -> project.constrs = files.fpga

\* A bitstream is made of the current memories, firmware and constraints, but
\* for the layers that the operation reports stale: what sim leaves in the
\* project, refreshes of other layers and reverted edits never make an old one
\* pass for current.
BitstreamIsCurrent ==
    [][Succeeds("bitstream") /\ sound =>
          \A l \in {"rtl", "coe", "fpga"} \ Reported : PartIsCurrent(l)]_vars

\* refresh plans by stale layer and records the hashes of all layers: after one
\* that succeeds the memories and the constraints are nevertheless those of the
\* files, also of the layers it has not touched, and so is the firmware while
\* the RTL is synthesised (a simulation, which reads a firmware without
\* recording it, takes the RTL out).
RefreshMakesCurrent ==
    [][Succeeds("refresh") /\ sound' =>
          \A l \in {"rtl", "coe", "fpga"} :
              (l = "coe" => project'.listed) => PartIsCurrent(l)']_vars

\* After a full refresh that succeeds the memories and the header agree:
\* vivado_config.yaml:23-24 says that changing the values regenerates both.
RefreshKeepsSync == [][Succeeds("refresh") /\ Created /\ PlanRefresh(StaleLayers).full => InSync']_vars
=============================================================================
