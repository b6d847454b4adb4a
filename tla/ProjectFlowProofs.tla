-------------------------- MODULE ProjectFlowProofs --------------------------
(***************************************************************************)
(* For every set of configurations, every number of versions and every     *)
(* sequence of edits, command lines and failures: while no script failed   *)
(* on a session and its RTL is fresh, the header the RTL is written with   *)
(* fits the memories of the project; a bitstream made on such a session    *)
(* holds the current memories, firmware and constraints, but for the       *)
(* layers reported stale; and a refresh that succeeds leaves none of them  *)
(* behind the files.                                                       *)
(***************************************************************************)
EXTENDS ProjectFlow, TLAPS

(***************************************************************************)
(* The header generated from a memory section has the widths of the        *)
(* memories created from it, whatever the geometry.                        *)
(***************************************************************************)
LEMMA PortsAgree ==
    ASSUME NEW mem \in MemoryConfig, ByteEnabled(mem), NEW n \in BramNames(mem)
    PROVE  CacheHeader(mem)[n] = CreatedIp(mem)[n]
<1>1. CASE n = "ROM"
  BY <1>1 DEF CacheHeader, CreatedIp, RomDefines, RomBram, Bram
<1>2. CASE n = "icached"
  BY <1>2 DEF CacheHeader, CreatedIp, AddrSlices, CacheDataBram, Bram
<1>3. CASE n = "dcached"
  BY <1>3 DEF CacheHeader, CreatedIp, AddrSlices, CacheDataBram, Bram
<1>4. CASE n = "icachet"
  <2>1. mem.icache.tag_bram_byte_enable
    BY <1>4 DEF BramNames, ByteEnabled
  <2> QED BY <1>4, <2>1 DEF CacheHeader, CreatedIp, TagBramDefines, CacheTagBram, Bram
<1>5. CASE n = "dcachet"
  <2>1. mem.dcache.tag_bram_byte_enable
    BY <1>5 DEF BramNames, ByteEnabled
  <2> QED BY <1>5, <2>1 DEF CacheHeader, CreatedIp, TagBramDefines, CacheTagBram, Bram
<1>6. CASE n = "tlb_flag"
  <2>1. mem.tlb.flag_byte_enable
    BY <1>6 DEF BramNames, ByteEnabled
  <2> QED BY <1>6, <2>1 DEF CacheHeader, CreatedIp, TlbDefines, TlbFlagBram, Bram
<1>7. CASE n = "tlb_data"
  <2>1. mem.tlb.data_byte_enable
    BY <1>7 DEF BramNames, ByteEnabled
  <2> QED BY <1>7, <2>1 DEF CacheHeader, CreatedIp, TlbDefines, TlbDataBram, Bram
<1> QED BY <1>1, <1>2, <1>3, <1>4, <1>5, <1>6, <1>7 DEF BramNames

THEOREM SameConfigFits ==
    ASSUME NEW mem \in MemoryConfig, ByteEnabled(mem)
    PROVE  Fits(CacheHeader(mem), CreatedIp(mem))
BY PortsAgree DEF Fits, CacheHeader, CreatedIp

-----------------------------------------------------------------------------
(***************************************************************************)
(* Type correctness.                                                       *)
(***************************************************************************)
LEMMA Versions ==
    /\ MaxVersion \in Nat \ {0} /\ MaxEdits \in Nat
    /\ Missing \in Missing..MaxVersion /\ 1 \in 1..MaxVersion
    /\ 1..MaxVersion \subseteq Missing..MaxVersion
<1>1. MaxVersion \in Nat \ {0} /\ MaxEdits \in Nat
  BY FlowAssumption
<1> QED BY <1>1 DEF Missing

LEMMA FullTyped ==
    ASSUME TypeOK, NEW done
    PROVE  Full(done) \in Projects
BY FlowAssumption DEF TypeOK, Files, Projects, Full, Missing

LEMMA IncrementalTyped ==
    ASSUME TypeOK, NEW done
    PROVE  Incremental(done) \in Projects /\ Incremental(done).ip = project.ip
<1> DEFINE listed == project.listed /\ "tb" \notin done
           rom == IF "rom" \in done THEN files.coe ELSE project.rom
           constrs == IF "constrs" \in done THEN files.fpga
                      ELSE IF "remove" \in done THEN Missing ELSE project.constrs
<1>1. project \in Projects /\ files.coe \in Missing..MaxVersion /\ files.fpga \in 1..MaxVersion
  BY DEF TypeOK, Files
<1>2. listed \in BOOLEAN /\ rom \in Missing..MaxVersion
  BY <1>1 DEF Projects
<1>3. constrs \in Missing..MaxVersion
  BY <1>1, Versions DEF Projects
<1>4. Incremental(done) =
        [project EXCEPT !.listed = listed, !.rom = rom, !.constrs = constrs]
  BY DEF Incremental
<1> HIDE DEF rom, constrs, listed
<1> QED BY <1>1, <1>2, <1>3, <1>4 DEF Projects

LEMMA SimulatedTyped ==
    ASSUME TypeOK, NEW done, Simulated(done)
    PROVE  project' \in Projects /\ project'.ip = project.ip
<1> DEFINE listed == project.listed /\ "tb" \notin done
           rom == IF "rom" \in done THEN files.coe ELSE project.rom
           prj == project.prj \/ "launch" \in done
<1>1. project \in Projects /\ files.coe \in Missing..MaxVersion
  BY DEF TypeOK, Files
<1>2. listed \in BOOLEAN /\ rom \in Missing..MaxVersion /\ prj \in BOOLEAN
  BY <1>1 DEF Projects
<1>3. project' = [project EXCEPT !.listed = listed, !.rom = rom, !.prj = prj]
  BY DEF Simulated
<1> HIDE DEF rom, listed, prj
<1> QED BY <1>1, <1>2, <1>3 DEF Projects

LEMMA CurrentDomain == ASSUME NEW fs PROVE DOMAIN Current(fs) = Layers
BY DEF Current

\* What every operation does to the command line.
LEMMA FinishTyped ==
    ASSUME TypeOK, NEW op, NEW ok \in BOOLEAN, Finish(op, ok)
    PROVE  /\ edits' \in 0..MaxEdits /\ config' \in Geometries
           /\ front' \in {"cli", "tui"}
           /\ hasTb' \in BOOLEAN /\ known' \in BOOLEAN
           /\ todo' \in SUBSET Flags /\ last' \in {"none", "succeeded", "failed"}
BY DEF TypeOK, Finish

LEMMA BuiltTyped ==
    ASSUME TypeOK, NEW withTb, NEW ok, Built(withTb, ok)
    PROVE  project' \in Projects
<1>1. PICK done \in FullDone(withTb) :
          IF done = {} THEN project' \in {project, NoProject} ELSE project' = Full(done)
  BY DEF Built
<1>2. NoProject \in Projects
  BY Versions DEF NoProject, Projects
<1> QED BY <1>1, <1>2, FullTyped DEF TypeOK

LEMMA UpdatedTyped ==
    ASSUME TypeOK, NEW ok, Updated(ok)
    PROVE  project' \in Projects /\ project'.ip = project.ip /\ ~Stale("rtl")
<1>1. PICK forced \in SUBSET RefreshLayers :
          /\ ~PlanRefresh(StaleLayers \cup forced).full
          /\ \E done \in IncrementalDone(PlanRefresh(StaleLayers \cup forced).layers) :
                project' = Incremental(done)
  BY DEF Updated, RefreshPlans, Forced
<1>2. ~Stale("rtl")
  BY <1>1 DEF PlanRefresh, StaleLayers, Layers
<1> QED BY <1>1, <1>2, IncrementalTyped

LEMMA TypeInit == Init => TypeOK
<1> SUFFICES ASSUME Init PROVE TypeOK
  OBVIOUS
<1>1. files \in Files /\ config \in Geometries
  BY Versions DEF Init, Files
<1>2. NoProject \in Projects
  BY Versions DEF NoProject, Projects
<1>3. edits \in 0..MaxEdits
  BY Versions DEF Init
<1> QED BY <1>1, <1>2, <1>3 DEF Init, TypeOK

LEMMA TypeStep == TypeOK /\ [Next]_vars => TypeOK'
<1> SUFFICES ASSUME TypeOK, [Next]_vars PROVE TypeOK'
  OBVIOUS
<1>1. CASE Create
  <2>1. PICK ok \in BOOLEAN : Finish("create", ok) /\ Built(FALSE, ok) /\ sound' = ok
    BY <1>1 DEF Create
  <2>2. files' \in Files
    BY <1>1 DEF Create, TypeOK, Files
  <2> QED BY <1>1, <2>1, <2>2, FinishTyped, BuiltTyped, CurrentDomain DEF Create, Record, TypeOK
<1>2. CASE NothingToRefresh
  BY <1>2, FinishTyped DEF NothingToRefresh, session, TypeOK
<1>3. CASE RefreshFull
  <2>1. PICK ok \in BOOLEAN : Finish("refresh", ok) /\ Rebuilt(ok) /\ sound' = ok
    BY <1>3 DEF RefreshFull
  <2> QED BY <1>3, <2>1, FinishTyped, BuiltTyped, CurrentDomain DEF RefreshFull, Rebuilt, Record, TypeOK
<1>4. CASE RefreshSome
  <2>1. PICK ok \in BOOLEAN : Finish("refresh", ok) /\ Updated(ok) /\ sound' = (sound /\ ok)
    BY <1>4 DEF RefreshSome
  <2> QED BY <1>4, <2>1, FinishTyped, UpdatedTyped, CurrentDomain DEF RefreshSome, Record, TypeOK
<1>5. CASE Sim
  <2>1. PICK done \in SimDone, ok \in BOOLEAN :
            /\ Simulated(done)
            /\ sound' = (sound /\ done \in {{}, SimSteps})
            /\ Finish("sim", ok)
    BY <1>5 DEF Sim
  <2>2. sound' \in BOOLEAN
    BY <2>1
  <2>3. files' = files /\ hashes' = hashes
    BY <1>5 DEF Sim
  <2> QED BY <2>1, <2>2, <2>3, FinishTyped, SimulatedTyped DEF TypeOK
<1>18. CASE Aborted
  <2>1. files' = files \/ files' = [files EXCEPT !.header = config]
    BY <1>18 DEF Aborted
  <2>2. files' \in Files
    BY <2>1 DEF TypeOK, Files
  <2>3. \/ Built(FALSE, FALSE) \/ Rebuilt(FALSE) \/ Updated(FALSE)
        \/ \E done \in SimDone : Simulated(done)
        \/ project' = project
    BY <1>18 DEF Aborted
  <2>4. project' \in Projects
    BY <2>3, BuiltTyped, UpdatedTyped, SimulatedTyped DEF Rebuilt, TypeOK
  <2> QED BY <1>18, <2>2, <2>4 DEF Aborted, TypeOK
<1>6. CASE Bitstream \/ Program \/ Archive
  BY <1>6, FinishTyped DEF Bitstream, Program, Archive, session, TypeOK
<1>7. ASSUME NEW op \in Flags, Refused(op) PROVE TypeOK'
  BY <1>7, FinishTyped DEF Refused, session, TypeOK
<1>8. CASE CommandLine \/ Button \/ StartTui
  BY <1>8 DEF CommandLine, Button, StartTui, session, TypeOK, Files
<1>9. CASE Edit
  <2>1. PICK f \in Edited, v \in 1..MaxVersion : files' = [files EXCEPT ![f] = v]
    BY <1>9 DEF Edit
  <2>2. f \in {"rtl", "tb", "src", "fpga"}
    BY FlowAssumption
  <2>3. files' \in Files
    BY <2>1, <2>2 DEF TypeOK, Files
  <2>4. edits' \in 0..MaxEdits
    BY <1>9, FlowAssumption DEF Edit, TypeOK
  <2> QED BY <1>9, <2>3, <2>4 DEF Edit, Idle, session, TypeOK
<1>10. CASE EditConfig
  <2>1. edits' \in 0..MaxEdits
    BY <1>10, Versions DEF EditConfig, TypeOK
  <2>2. PICK g \in Geometries : files' = [files EXCEPT !.yaml = g]
    BY <1>10 DEF EditConfig
  <2>3. files' \in Files
    BY <2>2 DEF TypeOK, Files
  <2> QED BY <1>10, <2>1, <2>3 DEF EditConfig, Idle, session, TypeOK
<1>11. CASE GenConfig
  <2>1. files' \in Files
    BY <1>11 DEF GenConfig, TypeOK, Files
  <2> QED BY <1>11, <2>1 DEF GenConfig, Idle, session, TypeOK
<1>13. ASSUME NEW coe \in Missing..MaxVersion, NEW hex \in Missing..MaxVersion,
              files' = [files EXCEPT !.coe = coe, !.hex = hex]
       PROVE  files' \in Files
  BY <1>13 DEF TypeOK, Files
<1>14. files.src \in Missing..MaxVersion /\ files.hex \in Missing..MaxVersion
  BY Versions DEF TypeOK, Files
<1>15. CASE BuildFirmware
  <2>1. files' \in Files
    BY <1>13, <1>14, <1>15 DEF BuildFirmware
  <2> QED BY <1>15, <2>1 DEF BuildFirmware, Idle, session, TypeOK
<1>16. CASE BuildStopsHalfway
  <2>1. edits' \in 0..MaxEdits
    BY <1>16, Versions DEF BuildStopsHalfway, TypeOK
  <2>2. files' = [files EXCEPT !.coe = files.src, !.hex = files.hex]
    BY <1>16 DEF BuildStopsHalfway, TypeOK, Files
  <2>3. files' \in Files
    BY <1>13, <1>14, <2>2
  <2> QED BY <1>16, <2>1, <2>3 DEF BuildStopsHalfway, Idle, session, TypeOK
<1>17. CASE CleanFirmware
  <2>1. edits' \in 0..MaxEdits
    BY <1>17, Versions DEF CleanFirmware, TypeOK
  <2>2. files' \in Files
    BY <1>13, <1>17, Versions DEF CleanFirmware
  <2> QED BY <1>17, <2>1, <2>2 DEF CleanFirmware, Idle, session, TypeOK
<1>12. CASE UNCHANGED vars
  BY <1>12 DEF vars, TypeOK
<1> QED BY <1>1, <1>2, <1>3, <1>4, <1>5, <1>6, <1>7, <1>8, <1>9, <1>10, <1>11,
           <1>12, <1>15, <1>16, <1>17, <1>18 DEF Next

(***************************************************************************)
(* The files, the session's record and the command line keep their types,  *)
(* whatever the user does and however the scripts fail.                    *)
(***************************************************************************)
THEOREM TypeCorrect == Spec => []TypeOK
BY TypeInit, TypeStep, PTL DEF Spec

-----------------------------------------------------------------------------
(***************************************************************************)
(* The header and the memories.  GeometryInSync alone is not inductive: it *)
(* needs what the hashes of the RTL say of the project, and that the       *)
(* operations of a command line meet the configuration it has loaded.      *)
(***************************************************************************)
ConfigHeld == todo # {} => config = files.yaml /\ files.header = files.yaml
RtlRecorded ==
    sound => /\ project.ip \in Geometries
             /\ "rtl" \in DOMAIN hashes
             /\ hashes["rtl"]["yaml"] = project.ip
             /\ hashes["rtl"]["header"] = project.ip
FlowInv == TypeOK /\ ConfigHeld /\ RtlRecorded

LEMMA DigestOfRtl ==
    ASSUME NEW fs
    PROVE  /\ Digest(fs, "rtl")["yaml"] = fs["yaml"]
           /\ Digest(fs, "rtl")["header"] = fs["header"]
           /\ "rtl" \in DOMAIN Current(fs)
           /\ Current(fs)["rtl"] = Digest(fs, "rtl")
BY DEF Digest, Covers, Current, Layers

LEMMA FullBuild ==
    ASSUME NEW withTb, Built(withTb, TRUE)
    PROVE  project'.ip = config
<1>1. project' = Full(FullSteps(withTb))
  BY DEF Built, FullSteps
<1> QED BY <1>1 DEF Full, FullSteps

\* An operation that leaves the files and the session alone.
LEMMA NothingChanged ==
    ASSUME FlowInv, NEW op, NEW ok \in BOOLEAN, Finish(op, ok), UNCHANGED <<files, session>>
    PROVE  ConfigHeld' /\ RtlRecorded'
BY DEF FlowInv, ConfigHeld, RtlRecorded, Finish, session

\* A user's step.
LEMMA UserStep ==
    ASSUME FlowInv, Idle
    PROVE  ConfigHeld' /\ RtlRecorded'
BY DEF FlowInv, ConfigHeld, RtlRecorded, Idle, session

LEMMA FlowStep ==
    ASSUME FollowsWorkflow, FlowInv, [Next]_vars
    PROVE  FlowInv'
<1>1. TypeOK'
  BY TypeStep DEF FlowInv
<1>2. CASE Create
  <2>1. PICK ok \in BOOLEAN : Finish("create", ok) /\ Built(FALSE, ok) /\ sound' = ok
    BY <1>2 DEF Create
  <2>2. config \in Geometries /\ config = files.yaml
    BY <1>2 DEF Create, IsNext, FlowInv, ConfigHeld, TypeOK
  <2>3. files'.yaml = config /\ files'.header = config
    BY <1>2, <2>2 DEF Create, FlowInv, TypeOK, Files
  <2>4. ConfigHeld'
    BY <2>1, <2>3 DEF ConfigHeld, Finish
  <2>5. sound' => project'.ip = config
    BY <2>1, FullBuild
  <2>6. hashes' = Current(files')
    BY <1>2 DEF Create, Record
  <2>7. RtlRecorded'
    BY <2>2, <2>3, <2>5, <2>6, DigestOfRtl DEF RtlRecorded
  <2> QED BY <1>1, <2>4, <2>7 DEF FlowInv
<1>3. CASE RefreshFull
  <2>1. PICK ok \in BOOLEAN : Finish("refresh", ok) /\ Rebuilt(ok) /\ sound' = ok
    BY <1>3 DEF RefreshFull
  <2>2. config \in Geometries /\ files.yaml = config /\ files.header = config
    BY <1>3 DEF RefreshFull, IsNext, FlowInv, ConfigHeld, TypeOK
  <2>3. ConfigHeld'
    BY <1>3, <2>1, <2>2 DEF RefreshFull, ConfigHeld, Finish
  <2>4. sound' => project'.ip = config
    BY <2>1, FullBuild DEF Rebuilt
  <2>5. hashes' = Current(files)
    BY <1>3 DEF RefreshFull, Record
  <2>6. RtlRecorded'
    BY <2>2, <2>4, <2>5, DigestOfRtl DEF RtlRecorded
  <2> QED BY <1>1, <2>3, <2>6 DEF FlowInv
<1>4. CASE RefreshSome
  <2>1. PICK ok \in BOOLEAN : Finish("refresh", ok) /\ Updated(ok) /\ sound' = (sound /\ ok)
    BY <1>4 DEF RefreshSome
  <2>2. project'.ip = project.ip /\ ~Stale("rtl")
    BY <2>1, UpdatedTyped DEF FlowInv
  <2>3. hashes["rtl"] = Digest(files, "rtl")
    BY <2>2 DEF Stale
  <2>4. hashes' = Current(files)
    BY <1>4 DEF RefreshSome, Record
  <2>5. sound' => sound
    BY <2>1
  <2>6. RtlRecorded'
    BY <2>2, <2>3, <2>4, <2>5, DigestOfRtl DEF RtlRecorded, FlowInv
  <2>7. ConfigHeld'
    BY <1>4, <2>1 DEF RefreshSome, FlowInv, ConfigHeld, Finish
  <2> QED BY <1>1, <2>6, <2>7 DEF FlowInv
<1>5. CASE Sim
  <2>1. PICK done \in SimDone, ok \in BOOLEAN :
            /\ Simulated(done)
            /\ sound' = (sound /\ done \in {{}, SimSteps})
            /\ Finish("sim", ok)
    BY <1>5 DEF Sim
  <2>2. project'.ip = project.ip
    BY <2>1, SimulatedTyped DEF FlowInv
  <2>3. files' = files /\ hashes' = hashes /\ (sound' => sound)
    BY <1>5, <2>1 DEF Sim
  <2>4. RtlRecorded'
    BY <2>2, <2>3 DEF FlowInv, RtlRecorded
  <2>5. ConfigHeld'
    BY <2>1, <2>3 DEF FlowInv, ConfigHeld, Finish
  <2> QED BY <1>1, <2>4, <2>5 DEF FlowInv
<1>11. CASE Aborted
  BY <1>1, <1>11 DEF Aborted, FlowInv, ConfigHeld, RtlRecorded
<1>6. CASE NothingToRefresh \/ Bitstream \/ Program \/ Archive
  BY <1>1, <1>6, NothingChanged DEF NothingToRefresh, Bitstream, Program, Archive, FlowInv
<1>7. ASSUME NEW op \in Flags, Refused(op) PROVE FlowInv'
  BY <1>1, <1>7, NothingChanged DEF Refused, FlowInv
<1>8. CASE CommandLine \/ Button \/ StartTui
  BY <1>1, <1>8
     DEF CommandLine, Button, StartTui, Prepared, session, FlowInv, ConfigHeld, RtlRecorded
<1>9. CASE Edit \/ EditConfig \/ GenConfig \/ BuildFirmware \/ BuildStopsHalfway \/ CleanFirmware
  BY <1>1, <1>9, UserStep
     DEF Edit, EditConfig, GenConfig, BuildFirmware, BuildStopsHalfway, CleanFirmware, FlowInv
<1>10. CASE UNCHANGED vars
  BY <1>1, <1>10 DEF vars, FlowInv, ConfigHeld, RtlRecorded
<1> QED BY <1>2, <1>3, <1>4, <1>5, <1>6, <1>7, <1>8, <1>9, <1>10, <1>11 DEF Next

LEMMA FlowInvSuffices ==
    ASSUME FlowInv
    PROVE  GeometryInSync
<1> SUFFICES ASSUME sound, ~Stale("rtl") PROVE InSync
  BY DEF GeometryInSync
<1>1. files.header = project.ip /\ project.ip \in Geometries
  BY DigestOfRtl DEF FlowInv, RtlRecorded, Stale
<1>2. Memory[project.ip] \in MemoryConfig /\ ByteEnabled(Memory[project.ip])
  BY <1>1, FlowAssumption
<1> QED BY <1>1, <1>2, SameConfigFits DEF InSync

(***************************************************************************)
(* A user who generates the header after editing the configuration, and    *)
(* starts the TUI anew, never has a fresh and sound session whose header   *)
(* misses its memories: for every set of configurations, number of         *)
(* versions and sequence of failures.                                      *)
(***************************************************************************)
THEOREM GeometrySync ==
    ASSUME FollowsWorkflow
    PROVE  Spec => []GeometryInSync
<1>1. Init => FlowInv
  BY TypeInit DEF Init, FlowInv, ConfigHeld, RtlRecorded
<1>2. FlowInv /\ [Next]_vars => FlowInv'
  BY FlowStep
<1>3. FlowInv => GeometryInSync
  BY FlowInvSuffices
<1> QED BY <1>1, <1>2, <1>3, PTL DEF Spec

-----------------------------------------------------------------------------
(***************************************************************************)
(* The bitstream and the refresh.  The hashes say which constraints the    *)
(* project holds and, while the RTL is in the fileset that is synthesised, *)
(* so that no simulation has touched the project since they were recorded, *)
(* which firmware.                                                         *)
(***************************************************************************)
PartsRecorded ==
    sound => /\ DOMAIN hashes = Layers
             /\ hashes["fpga"]["fpga"] = project.constrs
             /\ (project.listed => hashes["coe"]["coe"] = project.rom)
PartsInv == FlowInv /\ PartsRecorded

LEMMA DigestOfParts ==
    ASSUME NEW fs
    PROVE  /\ Digest(fs, "coe")["coe"] = fs["coe"] /\ Digest(fs, "fpga")["fpga"] = fs["fpga"]
           /\ Current(fs)["coe"] = Digest(fs, "coe") /\ Current(fs)["fpga"] = Digest(fs, "fpga")
           /\ DOMAIN Current(fs) = Layers
BY DEF Digest, Covers, Current, Layers

LEMMA FullParts ==
    ASSUME NEW withTb \in BOOLEAN, Built(withTb, TRUE)
    PROVE  /\ project'.listed = ~withTb
           /\ project'.rom = files.coe /\ project'.constrs = files.fpga
<1>1. project' = Full(FullSteps(withTb))
  BY DEF Built, FullSteps
<1>2. {"rom", "constrs"} \subseteq FullSteps(withTb) /\ ("tb" \in FullSteps(withTb) <=> withTb)
  BY DEF FullSteps
<1>3. /\ project'.listed = ("tb" \notin FullSteps(withTb))
      /\ project'.rom = files.coe /\ project'.constrs = files.fpga
  BY <1>1, <1>2 DEF Full
<1> QED BY <1>2, <1>3

LEMMA IncrementalParts ==
    ASSUME TypeOK, NEW done
    PROVE  /\ Incremental(done).listed => project.listed
           /\ Incremental(done).rom = IF "rom" \in done THEN files.coe ELSE project.rom
           /\ Incremental(done).constrs = IF "constrs" \in done THEN files.fpga
                                          ELSE IF "remove" \in done THEN Missing ELSE project.constrs
<1> DEFINE listed == project.listed /\ "tb" \notin done
           rom == IF "rom" \in done THEN files.coe ELSE project.rom
           constrs == IF "constrs" \in done THEN files.fpga
                      ELSE IF "remove" \in done THEN Missing ELSE project.constrs
<1>1. project \in Projects
  BY DEF TypeOK
<1>2. Incremental(done) =
        [project EXCEPT !.listed = listed, !.rom = rom, !.constrs = constrs]
  BY DEF Incremental
<1>3. listed => project.listed
  OBVIOUS
<1> HIDE DEF rom, constrs, listed
<1>4. /\ Incremental(done).listed = listed /\ Incremental(done).rom = rom
      /\ Incremental(done).constrs = constrs
  BY <1>1, <1>2 DEF Projects
<1> QED BY <1>3, <1>4 DEF rom, constrs

\* An incremental refresh brings in the firmware and the constraints where they
\* are stale.
LEMMA UpdatedParts ==
    ASSUME PartsInv, Updated(TRUE), sound
    PROVE  /\ project'.constrs = files.fpga
           /\ (project'.listed => project'.rom = files.coe)
<1>1. PICK forced \in SUBSET RefreshLayers :
          LET layers == PlanRefresh(StaleLayers \cup forced).layers IN
          /\ ~PlanRefresh(StaleLayers \cup forced).full
          /\ \E done \in IncrementalDone(layers) :
                done = IncrementalSteps(layers) /\ project' = Incremental(done)
  BY DEF Updated, RefreshPlans, Forced
<1> DEFINE layers == PlanRefresh(StaleLayers \cup forced).layers
           done == IncrementalSteps(layers)
<1>2. StaleLayers \cap {"coe", "fpga"} \subseteq layers
  BY <1>1 DEF PlanRefresh, RefreshLayers, Layers
<1>3. /\ ("coe" \in StaleLayers => "rom" \in done)
      /\ ("fpga" \in StaleLayers => "constrs" \in done)
      /\ ("remove" \in done => "constrs" \in done)
  BY <1>2 DEF IncrementalSteps
<1>4. project' = Incremental(done)
  BY <1>1
<1> HIDE DEF layers, done
<1>5. /\ (project'.listed => project.listed)
      /\ project'.rom = IF "rom" \in done THEN files.coe ELSE project.rom
      /\ project'.constrs = IF "constrs" \in done THEN files.fpga
                            ELSE IF "remove" \in done THEN Missing ELSE project.constrs
  BY <1>4, IncrementalParts DEF PartsInv, FlowInv
<1>6. /\ ("coe" \notin StaleLayers /\ project.listed => project.rom = files.coe)
      /\ ("fpga" \notin StaleLayers => project.constrs = files.fpga)
  BY <1>5, DigestOfParts DEF StaleLayers, Stale, Layers, PartsInv, PartsRecorded
<1> QED BY <1>3, <1>5, <1>6

\* A simulation that runs takes the RTL out of the fileset.
LEMMA SimulatedParts ==
    ASSUME TypeOK, NEW done \in {{}, SimSteps}, Simulated(done)
    PROVE  /\ project'.constrs = project.constrs
           /\ (project'.listed => project.listed /\ project'.rom = project.rom)
<1> DEFINE listed == project.listed /\ "tb" \notin done
           rom == IF "rom" \in done THEN files.coe ELSE project.rom
           prj == project.prj \/ "launch" \in done
<1>1. project \in Projects
  BY DEF TypeOK
<1>2. project' = [project EXCEPT !.listed = listed, !.rom = rom, !.prj = prj]
  BY DEF Simulated
<1>3. listed => project.listed /\ done = {}
  BY DEF SimSteps
<1>4. done = {} => rom = project.rom
  OBVIOUS
<1> HIDE DEF rom, listed, prj
<1>5. project'.listed = listed /\ project'.rom = rom /\ project'.constrs = project.constrs
  BY <1>1, <1>2 DEF Projects
<1> QED BY <1>3, <1>4, <1>5

LEMMA PartsStep ==
    ASSUME FollowsWorkflow, PartsInv, [Next]_vars
    PROVE  PartsInv'
<1>1. FlowInv'
  BY FlowStep DEF PartsInv
<1> SUFFICES PartsRecorded'
  BY <1>1 DEF PartsInv
<1>2. TypeOK /\ PartsRecorded
  BY DEF PartsInv, FlowInv
<1>3. CASE Create
  <2>1. PICK ok \in BOOLEAN : Built(FALSE, ok) /\ sound' = ok
    BY <1>3 DEF Create
  <2>2. sound' => project'.rom = files.coe /\ project'.constrs = files.fpga
    BY <2>1, FullParts
  <2>3. files'["coe"] = files.coe /\ files'["fpga"] = files.fpga
    BY <1>2, <1>3 DEF Create, TypeOK, Files
  <2>4. hashes' = Current(files')
    BY <1>3 DEF Create, Record
  <2> QED BY <2>2, <2>3, <2>4, DigestOfParts DEF PartsRecorded
<1>4. CASE RefreshFull
  <2>1. PICK ok \in BOOLEAN : Rebuilt(ok) /\ sound' = ok
    BY <1>4 DEF RefreshFull
  <2>2. sound' => project'.rom = files.coe /\ project'.constrs = files.fpga
    BY <1>2, <2>1, FullParts DEF Rebuilt, TypeOK
  <2>3. hashes' = Current(files)
    BY <1>4 DEF RefreshFull, Record
  <2> QED BY <2>2, <2>3, DigestOfParts DEF PartsRecorded
<1>5. CASE RefreshSome
  <2>1. PICK ok \in BOOLEAN : Updated(ok) /\ sound' = (sound /\ ok)
    BY <1>5 DEF RefreshSome
  <2>2. sound' => /\ project'.constrs = files.fpga
                  /\ (project'.listed => project'.rom = files.coe)
    BY <2>1, UpdatedParts
  <2>3. hashes' = Current(files)
    BY <1>5 DEF RefreshSome, Record
  <2> QED BY <2>2, <2>3, DigestOfParts DEF PartsRecorded
<1>6. CASE Sim
  <2>1. PICK done \in SimDone : Simulated(done) /\ sound' = (sound /\ done \in {{}, SimSteps})
    BY <1>6 DEF Sim
  <2>2. sound' => sound /\ done \in {{}, SimSteps}
    BY <2>1
  <2>3. hashes' = hashes
    BY <1>6 DEF Sim
  <2> QED BY <1>2, <2>1, <2>2, <2>3, SimulatedParts DEF PartsRecorded
<1>7. CASE Aborted
  BY <1>7 DEF Aborted, PartsRecorded
<1>8. ASSUME UNCHANGED session PROVE PartsRecorded'
  BY <1>2, <1>8 DEF session, PartsRecorded
<1>9. ASSUME NEW op \in Flags, Refused(op) PROVE PartsRecorded'
  BY <1>8, <1>9 DEF Refused
<1>10. CASE NothingToRefresh \/ Bitstream \/ Program \/ Archive \/ CommandLine \/ Button \/ StartTui
  BY <1>8, <1>10 DEF NothingToRefresh, Bitstream, Program, Archive, CommandLine, Button, StartTui
<1>11. CASE Edit \/ EditConfig \/ GenConfig \/ BuildFirmware \/ BuildStopsHalfway \/ CleanFirmware
  BY <1>8, <1>11
     DEF Edit, EditConfig, GenConfig, BuildFirmware, BuildStopsHalfway, CleanFirmware, Idle
<1>12. CASE UNCHANGED vars
  BY <1>8, <1>12 DEF vars, session
<1> QED BY <1>3, <1>4, <1>5, <1>6, <1>7, <1>9, <1>10, <1>11, <1>12 DEF Next

\* An operation that succeeds is that of one action.
LEMMA OneIsNext ==
    ASSUME NEW a \in Flags, NEW b \in Flags, IsNext(a), IsNext(b)
    PROVE  a = b
BY DEF IsNext, Place, Flags

LEMMA WhoSucceeds ==
    ASSUME [Next]_vars, NEW op \in Flags, Succeeds(op)
    PROVE  \/ op = "create" /\ Create
           \/ op = "refresh" /\ (NothingToRefresh \/ RefreshFull \/ RefreshSome)
           \/ op = "sim" /\ Sim
           \/ op = "bitstream" /\ Bitstream
           \/ op = "program" /\ Program
           \/ op = "archive" /\ Archive
<1>1. IsNext(op) /\ todo # {} /\ todo' # todo /\ last' = "succeeded"
  BY DEF Succeeds, IsNext
<1>2. Next
  BY <1>1 DEF vars
<1>3. ~Aborted /\ ~CommandLine /\ ~Button /\ ~StartTui /\ ~Idle
  BY <1>1 DEF Aborted, CommandLine, Button, StartTui, Idle
<1>4. \A o \in Flags : ~Refused(o)
  BY <1>1 DEF Refused, Finish
<1>5. ~Edit /\ ~EditConfig /\ ~GenConfig /\ ~BuildFirmware /\ ~BuildStopsHalfway /\ ~CleanFirmware
  BY <1>3 DEF Edit, EditConfig, GenConfig, BuildFirmware, BuildStopsHalfway, CleanFirmware
<1>6. {"create", "refresh", "sim", "bitstream", "program", "archive"} \subseteq Flags
  BY DEF Flags
<1>7. CASE Create
  BY <1>1, <1>6, <1>7, OneIsNext DEF Create
<1>8. CASE NothingToRefresh \/ RefreshFull \/ RefreshSome
  BY <1>1, <1>6, <1>8, OneIsNext DEF NothingToRefresh, RefreshFull, RefreshSome
<1>9. CASE Sim \/ Bitstream \/ Program \/ Archive
  BY <1>1, <1>6, <1>9, OneIsNext DEF Sim, Bitstream, Program, Archive
<1> QED BY <1>2, <1>3, <1>4, <1>5, <1>7, <1>8, <1>9 DEF Next

(***************************************************************************)
(* A bitstream that is made on a sound session holds the current memories, *)
(* firmware and constraints, but for the layers reported stale: for every  *)
(* sequence of edits, reverted edits, simulations and refreshes.           *)
(***************************************************************************)
THEOREM BitstreamCurrent ==
    ASSUME FollowsWorkflow
    PROVE  Spec => BitstreamIsCurrent
<1>1. Init => PartsInv
  BY TypeInit DEF Init, PartsInv, PartsRecorded, FlowInv, ConfigHeld, RtlRecorded
<1>2. PartsInv /\ [Next]_vars => PartsInv'
  BY PartsStep
<1>3. ASSUME PartsInv, [Next]_vars, Succeeds("bitstream"), sound,
             NEW l \in {"rtl", "coe", "fpga"} \ Reported
      PROVE  PartIsCurrent(l)
  <2>1. Bitstream /\ last' = "succeeded"
    BY <1>3, WhoSucceeds DEF Succeeds, Flags
  <2>2. project.listed /\ Created
    <3>1. Created
      BY <2>1 DEF Bitstream, Severity
    <3>2. PICK ok \in BOOLEAN : (ok => project.listed) /\ Finish("bitstream", ok)
      BY <2>1 DEF Bitstream
    <3>3. ok
      BY <2>1, <3>2 DEF Finish
    <3> QED BY <3>1, <3>2, <3>3
  <2>3. hashes[l] = Digest(files, l)
    BY <2>2 DEF Reported, StaleLayers, Stale, Layers
  <2>4. CASE l = "rtl"
    BY <1>3, <2>3, <2>4, DigestOfRtl DEF PartsInv, FlowInv, RtlRecorded, PartIsCurrent
  <2>5. PartsRecorded
    BY <1>3 DEF PartsInv
  <2>6. CASE l = "coe"
    <3>1. project.rom = files.coe
      BY <1>3, <2>2, <2>3, <2>5, <2>6, DigestOfParts DEF PartsRecorded
    <3> QED BY <2>6, <3>1 DEF PartIsCurrent
  <2>7. CASE l = "fpga"
    <3>1. project.constrs = files.fpga
      BY <1>3, <2>2, <2>3, <2>5, <2>7, DigestOfParts DEF PartsRecorded
    <3> QED BY <2>7, <3>1 DEF PartIsCurrent
  <2> QED BY <1>3, <2>4, <2>6, <2>7
<1>4. PartsInv /\ [Next]_vars =>
          [Succeeds("bitstream") /\ sound =>
              \A l \in {"rtl", "coe", "fpga"} \ Reported : PartIsCurrent(l)]_vars
  BY <1>3
<1> QED BY <1>1, <1>2, <1>4, PTL DEF Spec, BitstreamIsCurrent

(***************************************************************************)
(* A refresh that succeeds leaves the project with the memories, the       *)
(* constraints and, while the RTL is synthesised, the firmware of the      *)
(* files: recording the hashes of all layers, also of those it has done    *)
(* nothing for, hides no layer that is behind.                             *)
(***************************************************************************)
THEOREM RefreshCurrent ==
    ASSUME FollowsWorkflow
    PROVE  Spec => RefreshMakesCurrent
<1>1. Init => PartsInv
  BY TypeInit DEF Init, PartsInv, PartsRecorded, FlowInv, ConfigHeld, RtlRecorded
<1>2. PartsInv /\ [Next]_vars => PartsInv'
  BY PartsStep
<1>3. ASSUME PartsInv', [Next]_vars, Succeeds("refresh"), sound',
             NEW l \in {"rtl", "coe", "fpga"}, l = "coe" => project'.listed
      PROVE  PartIsCurrent(l)'
  <2>1. NothingToRefresh \/ RefreshFull \/ RefreshSome
    BY <1>3, WhoSucceeds DEF Flags
  <2>2. hashes'[l] = Digest(files', l)
    <3>1. CASE NothingToRefresh
      <4>1. l \notin StaleLayers
        BY <3>1 DEF NothingToRefresh, PlanRefresh, RefreshLayers, StaleLayers, Layers
      <4>2. hashes[l] = Digest(files, l)
        BY <4>1 DEF StaleLayers, Stale, Layers
      <4>3. hashes' = hashes /\ files' = files
        BY <3>1 DEF NothingToRefresh, session
      <4> QED BY <4>2, <4>3
    <3>2. CASE RefreshFull \/ RefreshSome
      <4>1. hashes' = Current(files) /\ files' = files
        BY <3>2 DEF RefreshFull, RefreshSome, Record
      <4> QED BY <4>1 DEF Current, Layers
    <3> QED BY <2>1, <3>1, <3>2
  <2>3. RtlRecorded' /\ PartsRecorded'
    BY <1>3 DEF PartsInv, FlowInv
  <2>4. CASE l = "rtl"
    BY <1>3, <2>2, <2>3, <2>4, DigestOfRtl DEF RtlRecorded, PartIsCurrent
  <2>5. CASE l = "coe"
    <3>1. project'.rom = files'.coe
      BY <1>3, <2>2, <2>3, <2>5, DigestOfParts DEF PartsRecorded
    <3> QED BY <2>5, <3>1 DEF PartIsCurrent
  <2>6. CASE l = "fpga"
    <3>1. project'.constrs = files'.fpga
      BY <1>3, <2>2, <2>3, <2>6, DigestOfParts DEF PartsRecorded
    <3> QED BY <2>6, <3>1 DEF PartIsCurrent
  <2> QED BY <1>3, <2>4, <2>5, <2>6
<1>4. PartsInv' /\ [Next]_vars =>
          [Succeeds("refresh") /\ sound' =>
              \A l \in {"rtl", "coe", "fpga"} :
                  (l = "coe" => project'.listed) => PartIsCurrent(l)']_vars
  BY <1>3
<1> QED BY <1>1, <1>2, <1>4, PTL DEF Spec, RefreshMakesCurrent
=============================================================================
