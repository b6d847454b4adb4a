# Formal models of simplecpu: the memory side of the core, and the Vivado orchestrator

The repository is a 32-bit RISC-V system on a chip in SystemVerilog (`src/dev/rtl`)
with a small operating system and a boot flow, and the Python tools that build it,
simulate it and put it on a board (`src/tools`). This directory holds TLA+ models of
the parts whose correctness depends on the *order* of things: in the hardware the data
cache, the bus bridge and what asks them; in the tools the sessions that hold Vivado
processes, the batch executor that runs them in parallel, and what a project is made
from while its user edits files. The models are checked with TLC on small instances; that the
data cache is a memory of words and keeps its tags consistent, what the bus bridge promises it, the permits and the order of
commands of the Vivado sessions, the exit code of a batch and what it gives back, and the agreement of
RTL header and block memories are proved with TLAPS for every value of the constants.

Paths below are relative to the repository, or to `tools/vivado_core` for bare Python file
names. In the hardware models "one step" is one rising clock edge; in the models of the
tools it is what one thread does between two points at which another may see it.

## 1. The system: components, state, operations, interactions

The core is multi-cycle and in-order (`cpu_controller.sv`): fetch, decode, execute,
memory and write-back take turns. Concurrency is between hardware blocks that step
together: two caches, the MMU's walker, the bus bridge, the slaves, the interrupt
controllers.

| Component (`dev/rtl/...`) | State it keeps | Operations | Talks to | What is hard | Correct when |
|---|---|---|---|---|---|
| Data cache `core/dcache_ctrl.sv` | FSM of 16 states, tag and data block RAMs, miss latches, scan counters, device-request flags | load, store, walk, device access, flush (write back + clear), reset scan | load/store unit, walker, bridge, fence logic | registered RAM ports, three requesters on one port, aborts and failed write-backs in mid-sequence | it is a memory of words; one way per line; a flush drops no store |
| Bus bridge `core/cpu_bus_bridge.sv` | FSM of 12 states, AXI valid registers, beat counter, shift registers, watchdog, starvation counters | device read/write, line refill, write-back | both caches, AXI | five requesters, AXI handshakes, watchdog, late answers | one transaction at a time, whole lines, one answer each, nobody starves |
| Load/store unit `core/cpu_mem.sv` | FSM, reservation, AMO data, double-word halves | load, store, LR/SC, AMO, FLD/FSD | data cache, trap manager | withdrawal by a trap, atomics in several accesses | an atomic is one; a reservation does not outlive what breaks it |
| MMU, TLB, walker `core/MMU.sv`, `tlb.sv`, `ptw.sv`, `pmp_checker.sv` | translation FSM, TLB entries, walk registers, timeout | translate, refill the TLB, walk two levels, flush | caches, CSRs | a walk through the cache it translates for; timeout and late answer; sfence in mid-walk | a translation is that of the page table; no stale entry after sfence |
| Instruction cache and fetch `core/icache_ctrl.sv`, `cpu_fetch.sv` | FSM, tags, lines, pending device fetch | fetch, device fetch, invalidate | MMU, bridge, controller | redirects while a refill or device fetch is under way | the word delivered is that of the pc |
| Controller `core/cpu_controller.sv` | stage FSM | advance, trap, interrupt, wait | every stage | fault, end of access and interrupt in one cycle | every instruction retires or traps, once |
| Traps `core/cpu_trap_manager.sv`, `cpu_clint.sv`, `cpu_trap_csr.sv`, `cpu_csr*.sv` | latched faults, cause, status | raise, delegate, return | controller, load/store unit | latched faults that outlive their instruction | a trap has the cause and pc of its instruction |
| Maintenance `core/core_top.sv` 759-837 | step flags | fence.i, sfence.vma | caches, TLB | three scans one after the other | each step ends and starts the next once |
| Decode, execute, write-back, register file | pipeline latches | data path | - | none: no interleaving | per-instruction tests |
| `core/tree_plru.sv` | - (pure) | victim, update | caches | - | performance only |
| PLIC `axi/axi4lite_plic.sv` | pending, enable, claim | gateway, claim, complete | core, peripherals | claim over several cycles | none lost, none claimed twice |
| Timer `axi/axi4lite_clint.sv` | mtime, mtimecmp | halves of 64-bit registers | core | torn reads and writes | no spurious interrupt by a split write |
| Interconnect `system_top.sv`, `AMBA/Axi_CDC.v` (generated) | router of one read and one write | route, cross clocks | bridge, slaves | answers of the right slave | one answer per address |
| Memory wrappers `ram_wrap/*` | burst FSMs | read and write bursts | router | - | burst per address |
| APB bridge and peripherals `APB/*` | bridge FSM, FIFOs, registers | register access | router | FIFO limits | no word lost or twice |
| `MU/*`, `ALU/*`, `FPU/*` | iterative divider and multiplier | arithmetic | execute | arithmetic | operand tests |
| `dev/os`, boot | - | trap and system-call dispatch | - | I/O | - |

The tools run on the developer's machine. A *session* is a directory with a Vivado project, a
record of it (`.session.yaml`) and at most one Vivado process; a *task* names a testbench and a
firmware; an *operation* is a Tcl script sent to the session's process.

| Component (`tools/...`) | State it keeps | Operations | Talks to | What is hard | Correct when |
|---|---|---|---|---|---|
| Sessions `vivado_core/session.py` | process handle, permit flag, queue of lines, record on disk; the semaphore of all sessions | start, execute, stop; create, find, destroy, evict | Vivado (two pipes), file system, operating system | a reader thread per process, timeouts, crashes, several objects for one session, pids of earlier commands | a command's answer is its own; every process has a permit; every call ends |
| Batch `vivado_core/batch.py` | rounds, futures, cancel event, results | run tasks in a pool, in rounds, under three error policies | sessions, operations | workers create and evict at once; exceptions; expected failures; restarts | honest exit code, no permit or process left, no session in use evicted |
| Operations `vivado_core/operations.py` | - (the session's project and record) | create, refresh, sim, bitstream, program, archive | session, hashes | scripts that go on after a failed line, hashes recorded afterwards | what is reported fresh is fresh |
| Staleness `vivado_core/hash.py`, `sync.py` | hashes of five file layers | compare, preflight check, refresh plan | operations | one record for five layers; reverted edits | a stale project is not used as a current one |
| Geometry `vivado_core/config.py`, `cache_header_gen.py`, `ip_gen.py` | `cache_def.svh` | derive header macros and block memories | operations | two texts from one section, written at different times | RTL and memories have the same widths |
| Front ends `vivado_cli.py`, `vivado_tui.py` | loaded configuration | operations in a fixed order; one button each | all of these | stale configuration, concurrent buttons | - |
| Firmware builder `test_builder.py`, `rv2coe.py` | COE and HEX files | build, clean | compiler | stops between the two files | both files of one build |
| `uart_*.py`, `trace_analyzer.py`, `run_*.py`, `bin2hex.py` | - | terminals and filters | ports, files | I/O | - |

`PROJECT.json` lists the same components with their status, and under "hazards" the
places where the code could go wrong and a test would hardly reach.

## 2. Modules

| Module | Models | Kind |
|---|---|---|
| `DCache` | `dcache_ctrl.sv`, whole | component |
| `DataSide` | the data cache and the contracts of its neighbours | composition, properties |
| `WordMemory` | what the cache promises | abstract specification |
| `DataSideInv` | the two inductive invariants: of the tags, of requests and contents | invariants |
| `DataSideProofs` | theorems and proofs about the tags | proofs |
| `WordMemoryProofs` | theorems and proofs that the cache is a `WordMemory` | proofs |
| `MCDataSide` | views, symmetry and constraint for TLC | model checking |
| `BusBridge` | `cpu_bus_bridge.sv`, whole | component |
| `DataBus` | what the bridge promises the data cache | abstract specification |
| `BridgeSide` | the bridge, the caches that ask, the slave behind it | composition, properties |
| `BridgeSideProofs` | theorems and proofs | proofs |
| `MCBridge` | view for TLC | model checking |
| `VivadoSession` | `session.py`: objects, processes, readers, permits | component, properties |
| `VivadoSessionProofs` | theorems and proofs | proofs |
| `SessionOrderProofs` | theorem and proof of the order of commands | proofs |
| `SessionOutputProofs` | theorem and proof that answers are the command's own | proofs |
| `PermitPool` | what the semaphore promises | abstract specification |
| `BatchRun` | `batch.py` on the session manager of `session.py` | component, properties |
| `BatchRunProofs` | theorems and proofs | proofs |
| `CacheGeometry` | `cache_header_gen.py`, `ip_gen.py`, the memory section of `config.py` | pure operators |
| `ProjectFlow` | `operations.py`, `hash.py`, `sync.py`, the front ends, the firmware build | composition, properties |
| `ProjectFlowProofs` | theorems and proofs | proofs |
| `MCProjectFlow` | two memory sections for TLC | model checking |

### DCache

One action per branch of the controller's `case (state)`; the names are those of the
states (`TagMiss` is the miss branch of `S_TAG_READ`, and so on). `CacheStep` is one
edge: `TagBram`, the two ports of the tag RAM, and one `Control` action. The write of
the tags is registered in the code: a state sets it up (`tagWr`), the next edge puts it
into the array (`tagRam`), and a read by port A in between gets the old tags
(`tagOut`). `EffTags` is the array after the pending write; all properties are about it.

A line is `NumWords` words, an address its tag, set and word fields; byte lanes and the
sizes of accesses are left out. The code is written out by hand for one shape: each of the four ways has its own
lines, word selections are literals of a line of eight words (`dcache_ctrl.sv:422`), and word offsets are declared
as wide as a set index (`:223`, `:229`, `:324`, `:335`), so with more words in a line than sets in the cache
an offset would be cut. `WordOffsetAssumption` (`NumWords <= NumSets`) keeps the model where that cannot
happen; a geometry other than the shipped one (8 sets, 4 ways, 8 words) is the model's, read from the code as if
its ways were a loop. The victim among valid ways is any way. `inv_line_req`
is left unconnected by `core_top`, so the `INV_LINE` states are entered only by a failed
write-back of a flush. At reset the tag RAM holds anything.

### DataSide

The neighbours, each as free as its code allows: the CPU side issues, holds, withdraws
(a trap) and turns the read of an atomic into its write; the walker asks and may give up;
the MMU raises `mmuReady` when no walk is under way; a flush is held until done; the bus
does one transaction at a time, in any time, with errors if `BusFaults`. `memory` is main
memory behind the bus; `devOps` counts device accesses per request.

What the bus does here is `DataBus` with lines added, action by action (`StartWb`,
`EndWb`, ...); `BridgeSide` shows that the real bridge does nothing else.

### WordMemory

A memory of words that answers a load, a store or a walk with a pulse; the answer is the
access. `DataSide` implements it with `mem <- Seen`, where `Seen` is the word of the way that
holds the line, or of main memory.

### BusBridge, DataBus, BridgeSide

`BusBridge` has one action per state, and five for `S_IDLE` (one per kind of grant). The
wires of the bus in a cycle are the argument of the actions. The watchdog counter is
replaced by the wire `i.timeout`, which may be up in any cycle of a state that looks at
the counter: the counter runs freely, is cleared on entry to such a state and a slave may
take any time, so the expiry can meet any other event. A beat is its number in the line,
which is enough to see a beat lost, doubled, out of place or not of this transaction.

`BridgeSide` adds the caches as requesters that raise and withdraw as they like and lower
what has been answered (more freedom than the real ones have), and one of two slaves:
`"fifo"` (what `system_top` wires there: `Axi_CDC`, always ready for a transaction) and
`"ram"` (`axi_wrap_ram`, ready only when idle, data after address). `addrs`, `filling`,
`bursts` and `reads` are what the slave has accepted and not answered; each knows whether
its transaction is still the bridge's (`own`).

Findings of modelling that are stated here and not checked as violations:
the address states of a read leave on `arready` alone, not on the handshake their comments
name; with both slaves `arready` is up from the start and the handshake falls in the first
cycle of the next state, so nothing is lost (`NothingLeft`). `awvalid` and `wvalid` stay up one
cycle after their own handshake; neither slave is ready again by then. A slave that
withdraws `arready`, or is ready again at once, would break the bridge. The address states
of a burst do not look at the watchdog.

### VivadoSession, PermitPool

An object is what `Session(...)` returns; several may stand for one directory, as `get_session`
and `destroy_session` make fresh ones. `Ask` to `Answer`, `Timeout` and `StopAfterTimeout` are
`execute()`, cut where another thread can see it: the check and the start, the write, each line
taken from the queue, the stop after a timeout. `ReadLine`, `PutLine` and `EndOfFile` are the
reader thread, which looks up the object's queue and process anew for each line, as the code
does. `Start` replaces the queue. A process is live, orphaned (killed while a command ran:
the children that run it go on and share the pipe) or dead. `save_meta` is `Saved`, in every
step that calls it. `PermitPool` is a semaphore as a set of holders; `VivadoSession` implements
it with the objects whose `_sem_held` is set.

Calls on one object follow each other: that is what a batch worker and the command line do. The
TUI does not ensure it (see section 6).

### BatchRun

One batch from its start to its exit code. `Main` is the caller (`execute`, `_execute_rounds`,
`_execute_single_round`), `Works` a worker (`_execute_single`), whose steps are separated where
another worker can come in between: in `create_session` the listing, the eviction and the making
of the directory. A command is one step: it starts, and succeeds, fails or finds its Vivado dead.
`disk` is the sessions there are, each with those whose last use is earlier, `pidOf` the recorded pids. `Stranger` is a Vivado that
an earlier command has left running: `is_alive` says yes, the handle is missing and `execute()`
raises (`NotOurs`). With `NamedSessions = FALSE` a plan names only sessions that are there, each
for one task, and none together with `create`; a plan file may do otherwise, and then two
workers share a session (section 6). So the Vivado that `OneVivadoPerSession` meets there is a `Stranger` or the
worker's own. Vivado may die at any time (`VivadoDies`), between two operations too: the object
keeps its permit and the next operation starts it again.

### CacheGeometry, ProjectFlow

`CacheGeometry` computes, for a memory section, the data, address and write-enable widths of
each block memory, once as the header's macros and once as `create_ip` makes them.

`ProjectFlow` follows one session. A file group is a version number, a hash the versions of
the groups it covers (`Covers` is `HASH_GLOBS`: the RTL layer covers `vivado_config.yaml` and
`cache_def.svh` too). A script is a set of steps: Vivado in Tcl mode reads the next line after one that
fails, so *any* of the steps may be done that can be; it reports success only if no line printed
`ERROR:`, so success means all of them. `project` is what the steps have made of the Vivado
project: from which configuration the memories are, from which firmware and constraints, whether
the RTL is in the synthesised fileset (`listed`; a testbench takes it out) and whether a simulation
has left its list of files (`prj`, used by `_patch_prj_and_rerun`: `MayPass`). Each operation is one
action for its branches (`NothingToRefresh`, `RefreshFull`, `RefreshSome` are the three of `refresh`)
plus `Refused` (no Vivado, a missing file, stale) and `Aborted` (an interrupt or an exception that
nobody catches). `front` is the front end of a behaviour: `"cli"` loads the configuration per command
line, checks for a session and runs its flags in the order of `main`; `"tui"` keeps the configuration
of its start. `sound` is history: every script since the last full build was done in full.

Assumed: files change only between operations; `import_files` and the synthesis read the text that is
there; a task has a COE and a HEX file; one front end throughout (two at once overwrite each other's
record); with `FollowsWorkflow` the user runs `--gen-config` after editing the configuration, as
`tools/README-vivado-orchestrator.md` asks, and restarts the TUI. CLI exit codes, `-status` and
`-cleanup` change nothing that is modelled.

## 3. Runs

| Run | Instance | States | Shows |
|---|---|---|---|
| `lines` | 1 set, 2 ways, 1 word, 3 tags, 2 values, no bus errors | 219 k | `IsWordMemory`, `CleanIsCopy`, `DeviceOnce` and the invariant `MemoryInv` they are proved from: three tags over two ways force evictions of dirty and clean lines in every interleaving with walks, device accesses, atomics and flushes |
| `geometry` | 2 sets, 1 way, 2 words, 1 tag, 2 values, no bus errors | 234 k | `IsWordMemory` when a line has other words and a flush other sets |
| `faults` | 1 set, 2 ways, 1 word, 3 tags, 2 values, bus errors and walker timeouts; CPU accesses to memory only, stores of one value | 166 k | the tag invariants, the inductive invariant and `DirtyKept` under errors, aborts and late answers: victims are written back, fail, and are chosen again |
| `flush` | 2 sets, 1 way, 1 tag, bus errors | 135 k | a flush with failing write-backs, from any tags at reset |
| `live` | 1 set, 1 way, 2 tags, no bus errors | 32 k | `CoreAnswered`, `WalkAnswered`, `FlushEnds` |
| `bridge` | lines of 3 beats, both slaves | 37 k | `KeepsContract` (refinement of `DataBus`), `WholeLines`, `NothingLeft`, `NoStarvation` |
| `bridge_late` | lines of 3 beats, slave answers late | - | violated: `OwnAnswer` |
| `session` | 1 session, 2 objects, 2 processes, 2 commands, 1 permit, 1 line each | 170 k | `KeepsToPool` (refinement of `PermitPool`), `LiveHasPermit`, `PermitsConserved`, `OneAtATime`, `OwnOutput`, `CommandEnds` |
| `late_reader` | 1 object, 2 processes, 2 commands, not `Settled` | - | violated: `VerdictIsOwn` |
| `batch` | 3 tasks of 2 operations, 2 sessions allowed and 3 there, 2 permits, 3 asked for | 465 k | `NeverDenied`, `EvictsNoneInUse`, `OneVivadoPerSession`, `ExitHonest`, `SparesLater`, `NothingLeft`, `BatchEnds` |
| `flow` | 2 memory sections, 2 versions, 3 edits, both front ends | 1.1 M | `GeometryInSync`, `BitstreamIsCurrent`, `RefreshMakesCurrent` |
| `header` | as `flow`, 2 edits, without the workflow | - | violated: `RefreshKeepsSync` |

Bounds. Two ways and three tags are the smallest instance in which a line is evicted
while another stays and comes back; two sets and two words the smallest in which a write
can reach the wrong one and a scan has a next set. The model treats ways, sets and words alike, and the
safety properties are proved of it for every geometry that `WordOffsetAssumption` admits, the shipped one
among them; that the four ways of the code are written alike is read, not checked (section 2). In `faults` too three tags meet
two ways, so that a write-back that fails has a victim and another line beside it, and both may be wanted again;
device accesses of the CPU are left out there (`CpuInMemory`), and `flush` has them under bus errors; stores
are of the value memory does not begin with (`StoresShow`), so that a refill that falls on a store is seen. Bursts of three
beats have a first, a middle and a last beat, which are the three cases the bridge's code
tells apart. `MaxOpen = 2` is the capacity of the `"fifo"` slave; with transactions that end
with the watchdog it is never reached by more than one.

Views. `LiveState` in `MCDataSide` and `MCBridge` leaves a payload register out of the
fingerprint while no state can read it (for instance `line` outside refills). The module
lists for each register the states that read it; states that agree on the view have the
same future in everything the properties speak of. `DirtyState`, in `faults`, leaves out memory and clean
lines besides: with one word per line a store writes the whole line, so neither ever gets into a dirty one, and the
properties of that run are about tags and dirty lines. `TagSymmetry` swaps the tags other than the all-zero
one, which the code only compares.

Bounds of the tools' runs. `session`: two processes and two commands are the least in which an old
reader, an old pipe or an old permit meets a new process; one permit makes the second object wait
for the first; a line and the marker are the two kinds of output the code tells apart. `batch`:
three tasks over two sessions make a second, smaller round; three old sessions over a limit of two
make every creation evict; two permits under a `max_parallel` of three make the limit bind; two
operations have a first and a last. `flow`: two versions suffice for an edit and for taking it back; three
edits for one before an operation, one between two operations and one to hide it again; command lines of one flag
each, since a line of several is the same operations without an edit in between. Editing the RTL
files is left out of `Edited` there: an edit of the configuration or the header makes the same layer stale. The
two memory sections differ in `num_sets` of the data cache.

`late_reader`: `ExecuteResult.success` is documented as "True if the command completed without a
Vivado-reported error" (`session.py:51`). `stop_vivado` does not join the reader, and a surviving
`xelab` or `xsim` keeps its pipe open: its late `ERROR:` line goes into the next process's queue. The run
`session` assumes `Settled`, that what a stopped Vivado leaves has ended before the object's next
start; `batch.py:687` itself says that children may still be terminating.

`header`: `vivado_config.yaml:23` says that changing the memory section regenerates IP and header
together. `create` and `--gen-config` write the header; a full refresh makes the memories from the new
section, keeps the old header and records both hashes as current. With `--gen-config` first, `GeometryInSync`
holds (run `flow`, theorem `GeometrySync`).

`bridge_late`: "This is safe: rvalid/bvalid only come after we initiated the transaction"
(`cpu_bus_bridge.sv:940`) fails when the watchdog has given up a read. The bridge
returns to idle, the slave does not know, and the next read takes the old one's answer: in
the run an instruction word becomes the data of a load. Nothing in an answer tells the
bridge which read it belongs to. It needs a slave that takes longer than 4096 cycles.

## 4. Fairness

`DataSide` (`FairSpec`):
- `ClockRuns`, weak fairness of the cache's own step: the clock does not stop.
- `BusServes`, weak fairness of starting and of ending a bus transaction. An end is due
  because a slave answers or the watchdog fires. A start is due because the core is
  in-order: while a data access waits nothing is fetched, so the instruction side leaves the
  bridge idle. `NoStarvation` shows that write-backs (and instruction refills) get through even
  without that argument, by the starvation counters. A data refill or device access does not:
  an instruction side that alternates device reads and refills for ever passes it over, because
  a granted instruction refill resets the counter both refills share.
- `MmuEnds`, strong fairness of the end of a translation: a walk is at most two reads, and the
  state in which the MMU may finish comes back between them.

`BridgeSide`: `ClockRuns`, and `WatchdogFires`, weak fairness of an expiry in a state that is not
left: the counter is cleared on entry, counts every cycle and wraps at the threshold.

`VivadoSession`: weak fairness of each call's next step (a thread that can run does, and a wait with a
timeout ends), of each reader, and of the end of orphans. Vivado itself owes nothing: it may never
answer or die. `CommandEnds` therefore rests on the timeout alone.

`BatchRun`: weak fairness of the caller and of each worker. A command ends because `execute()` does.

`ProjectFlow` has no fairness: nobody has to run anything.

## 5. Proofs

`DataSideProofs`, for every `NumSets`, `NumWays`, `NumWords`, `Tags`, `Values` and with or
without bus errors, from `GeometryAssumption` (the three sizes are positive naturals),
`WordOffsetAssumption` (no more words in a line than sets; no proof needs it), `ZeroAssumption` (the all-zero tag
and word exist) and `BusFaultsAssumption`:

- `TypeCorrect`: `Spec => []TypeOK`. By one step per action of the controller and one for the
  neighbours. The content is that the scan counters never leave the cache.
- `Invariant`: `Spec => []CacheInv`, the inductive invariant `IInv` with the types, and from it `LinesUnique`, `DirtyLinesValid`,
  `FlushKeepsStores`, `FlushEmpties`, `LookupsTranslated`, `PortsNeverMeet`.

`IInv` (in `DataSideInv`) is needed because no property is inductive alone. That a refill does not
duplicate a line depends on the miss having been a miss, three states ago, and on nobody having
written the tags since (`MissHolds`). That the tags compared are the current ones depends on no
write being pending when a read starts (`Shown`, `PendingWrites`), which in turn rests on the one
idle cycle after each answer, and after reset on nobody asking before the last clear has landed
(`QuietUntilBooted`). That a flush zeroes only clean lines depends on every line before the scan
position being clean, also when a failed write-back made it drop a line and resume
(`ScanClean`, `DrainsHere`, `VictimHolds`). TLC checks it (`CacheInv`) in the run `faults`.

- `DirtyLinesKept`: `Spec => DirtyKept`. What a store left in a line stays in its way, under its tag, dirty and
  changed by stores only, until a write-back of it is reported good; only a flush gives up the line under its
  scan. Beside `CacheInv` it needs that the way a refill fills is clean by then (`RoomMade`, lemma `RoomIsMade`, which
  with bus errors rests on the victim being marked clean only by an answer without one), and goes by the kinds
  of step a dirty line can meet (`QuietStep` to `DropStep`).

`WordMemoryProofs`, for every geometry, tags and values, from the same assumptions and with a bus that makes no errors
(`~BusFaults`, a hypothesis of each theorem):

- `MemoryInvariant`: `Spec => []MemoryInv`, and from it `CleanLinesAreCopies` (`CleanIsCopy`) and `DeviceAccessedOnce`
  (`DeviceOnce`).
- `CacheIsWordMemory`: `Spec => IsWordMemory`, the refinement of `WordMemory` by `mem <- Seen`.

`MemoryInv` is inductive relative to `IInv`; TLC checks it in the run `lines`. No part can be left out. That an answer is that
of the request depends on the request staying up, translated and unanswered while it is served (`Served`), and
the latched miss being its own (`MissIsRequest`), which a flush would break if it ran beside an access
(`FlushAlone`). That a refill brings back what was last stored depends on the victim having reached memory first: the bus writes
the line that the cache shows (`WriteBackInv`), that line is what the data RAM holds (`OutputsHold`), the way it leaves
is then clean (`RoomMade`), and a refill returns what memory has (`RefillInv`). A device access is counted
once because request, acceptance, transfer and end pass in this order (`DeviceInv`). The refinement then goes by
what each step does to `Seen`: only a store that hits and the install of a store's line change it, at one
address, with the answer in the same step; a way that is dropped or replaced is clean, so memory has its words
(`ContentsKept`), and memory changes only under a dirty way, where `Seen` does not look (`MemoryUnder`).

`ProjectFlowProofs`, for every set of memory sections, every bound and every set of edited groups, from
`FlowAssumption` (the sections are of their type, and the memories whose write-enable macros ignore the byte
enable flags have byte enables, `ByteEnabled`):

- `SameConfigFits`: header and memories made from one section agree on every width, memory by memory.
- `TypeCorrect`: `Spec => []TypeOK`.
- `GeometrySync`: with `FollowsWorkflow`, `Spec => []GeometryInSync`. The property is not inductive: that a
  fresh session fits depends on what was on disk when its hashes were recorded. `FlowInv` adds that while
  an operation runs header, file and loaded configuration agree (`ConfigHeld`), and that on a sound session the
  hash of the RTL layer was recorded with a header and a configuration from which the memories were
  made (`RtlRecorded`). A fresh layer then has today's header equal to that one, and `SameConfigFits` closes it.
- `BitstreamCurrent`: with `FollowsWorkflow`, `Spec => BitstreamIsCurrent`. Firmware and constraints need one fact more
  (`PartsRecorded`): while the RTL is in the synthesised fileset of a sound session, no simulation has touched
  the project since the hashes were recorded, so they tell what it holds. The workflow is needed for the
  memories alone. TLC checked `PartsInv` first, on the instance of `flow`.
- `RefreshCurrent`: with `FollowsWorkflow`, `Spec => RefreshMakesCurrent`, from `PartsInv`. `refresh` acts by stale
  layer and records the hashes of all: the theorem is that no layer it did nothing for was behind the files. Each
  layer's hash tells today's files, either because it was just recorded or because it was not stale, and `PartsInv`
  ties the hash to what the project holds.

`VivadoSessionProofs`, for any number of sessions, objects, processes, commands and permits, with or without
`Settled`, from `SessionAssumption` (at least one permit; `None` is nothing else) and `SessionFinite` (finitely
many objects):

- `TypeCorrect`: `Spec => []TypeOK`.
- `PermitsKept`: `Spec => []PermitsConserved`. Free permits and holders add up: each step changes neither,
  or moves one object between the two (`PoolStep`, by the cardinality of the holders).
- `SessionsKeepToPool`: `Spec => KeepsToPool`, the refinement of `PermitPool`: each step is an acquisition, a
  release or a stutter of the pool.
- `LivePermitted`: `Spec => []LiveHasPermit`. Not inductive: that a start does not drop the handle of a live
  process depends on the check having been made at an earlier step, with no start of the same object since.
  `SessionInv` adds that a call about to start has no live process (`StartsWithout`), that handles are of
  born processes, so a new pid is nobody's (`HandlesBorn`), that a running handle has its permit
  (`RunsWithPermit`), and that each live process is some object's (`LiveHasHandle`).

`SessionOrderProofs`, from the same assumptions:

- `CommandsInTurn`: `Spec => []OneAtATime`. A command is answered when its marker is read, so two commands are kept
  apart by where markers can be. `OrderInv` says it: a marker belongs to one command and comes after it
  (`MarkersPast`), a command not yet written waits in no pipe (`Unwritten`) and one that was written waits once
  (`WaitsOnce`), two objects never write to one pipe (`HandlesApart`), and a process not yet born has nothing to
  read (`UnbornEmpty`).

`SessionOutputProofs`, from the same assumptions and with `Settled`, as in the run `session` (without it the
property is false: run `late_reader`):

- `AnswersAreOwn`: `Spec => []OwnOutput`. Collected lines, queue, the reader's line and the pipe are read as one sequence
  (`Stream`): each step shifts a line along it, or adds one at its end together with the count of `printed`. So the
  order of output is an invariant of the sequence and not of four places. In it the marker of a command comes last
  (`Cut`), between commands nothing is on the way (`QuietBetween`), a reader stays with the process it was made for,
  because a start waits for the old one (`ReadersKeep`), and what was answered stays past (`PastForGood`). TLC checked
  `OutputInv` before it was proved, on the instance of `session` and on one with one object, three processes, three
  commands and two lines.

`BatchRunProofs`, for any number of tasks, operations, permits, workers and sessions and any plan, those of plan
files included (`NamedSessions`), from `BatchAssumption`:

- `NoneDenied`, `ExitCodeHonest`, `LaterSpared`: `Spec => []NeverDenied`, `Spec => []ExitHonest`,
  `Spec => []SparesLater`. `BatchGivesBack`: `Spec => []AllGivenBack`, the half of `NothingLeft` about permits
  and processes. The invariant `BatchInv` says that rounds pass in order, each task collected before the next
  round starts (`RoundInv`); that the counters and the verdict of a worker agree with where it stands
  (`CountInv`: a result that says ok is of a worker that completed every operation); that a permit is held only
  for a process, a process only by a worker with a session (`WorkInv`: also where Vivado died between two
  operations and keeps its permit until it is stopped or started again), that free and held permits add up, and
  that no more workers are active than there are permits (`PermitInv`); and that no round
  starts after one with an unexpected result (`CalmInv`). It does not need the list of sessions: eviction may
  take any session from any worker and these four still hold.
- `NoneInUseEvicted`, `BatchLeavesNothing`, `OneVivadoEach`, `TypeCorrect`: `Spec => []EvictsNoneInUse`,
  `[]NothingLeft`, `[]OneVivadoPerSession`, `[]TypeOK`, for plans that name no sessions (`~NamedSessions`, as in the run
  `batch`; a plan that does may have a session evicted from under a worker, section 6). `SessionInv` adds the
  list of sessions to `BatchInv`: it names only sessions that are there (`ListInv`); one that the batch has made is
  of the round that runs, and younger than every one it has found (`Young`); a worker's session
  is on disk until its round ends, and in one with `create` no worker has another's (`Place`); the recorded
  pid is that of the Vivado a worker has started (`Knows`). A round has no more tasks than there may be sessions
  (`RoundFits`), so what a worker evicts, from a list however out of date, is old (`EvictsOld`). TLC
  checked `SessionInv` first, on the instance of `batch` and on one with four tasks, one operation and two old sessions.

`BridgeSideProofs`, for bursts of any length over two beats and any non-empty set of the two slaves, from
`BeatsAssumption`, `SlavesAssumption`, `MaxOpenAssumption` and `LateAnswersAssumption`:

- `BridgeKeepsContract`: `Spec => KeepsContract`, the refinement of `DataBus`, also with late answers. It needs only
  that a refill reported done and good was reported valid in the same cycle (`GoodRefillSeen`), which
  is what keeps a request that is still up from being granted again.
- `IdleLeavesNothing`, `LinesMoveWhole`, `BridgeTypeCorrect`: without `LateAnswers`, `Spec => []NothingLeft`,
  `Spec => []WholeLines`, `Spec => []TypeOK`. `BridgeInv` says for each state what the slave holds: while a
  burst is read, the beats still to come and those received, each in its place (`Reading`, `Filled`); while one is
  written, which of address and first beat has been taken (`Offering`), the prefix sent (`Sending`), the whole
  burst waiting for its answer (`Sent`). The two slaves differ in `Offering` alone. Without it neither property is
  inductive: the bridge compares no beat number, it counts, and the counts agree only by what came before.

Every safety property of the passing runs, every action property and every refinement is a theorem. Only
model-checked is what is stated under fairness, which the prover does not do: `CoreAnswered`,
`WalkAnswered`, `FlushEnds`, `NoStarvation`, `CommandEnds` and `BatchEnds`.
`IsWordMemory`, `CleanIsCopy` and `DeviceOnce` are stated for a bus without errors, and so is
liveness: with errors an access has no answer but a trap, a failed write-back leaves memory
undetermined, and a refill error makes the bridge start the same refill again (the cache shows its
request one cycle longer and only `dcache_refill_valid` holds the bridge back), whose answer may
meet the next miss. The tags stay consistent all the same, and the cache forgets no store: that is what
`faults` and the proofs show (`CacheInv`, `DirtyKept`). What they do not claim, because it is not so:

- A write-back that a trap gives up goes on in the bridge, and when it ends in the next one's wait its answer is
  taken for that one's: a line is then called clean on another line's answer. `DirtyKept` says "until a
  write-back is reported good", not "until memory has it".
- A refill answer that arrives in the cycle of an abort still goes into the data RAM, over a line that is clean
  and keeps its tag. Such a line is no copy of memory (`CleanIsCopy` is without bus errors).
- The comment at `dcache_ctrl.sv:855` has stale responses discarded by a "refill_addr_match check"; no such
  signal exists in `dcache_ctrl.sv`.

Slips. An operator whose comment begins with "Slip" is a plausible coding slip of the definition
after it. Nothing uses it; put in that definition's place, it makes the run named in
`PROJECT.json` fail, which shows that the property can see the code go wrong.

## 6. Not modelled

Data paths (`ALU`, `FPU`, decode, execute): no interleaving, wide operands, tests per
instruction. Generated and vendored code (`AMBA`, `FPU`, UART core, vendor memory controller): outside,
or a contract. The address router: one outstanding read and write, next to the APB bridge in the
plan. Byte lanes and access sizes in the caches. Wire-level AXI attributes.

Of the hardware: everything in section 1 that has no module in section 2. Its hazards, for whoever goes
on there, besides those of `PROJECT.json`: the `tree_plru` update for way 2 (`tree_plru.sv:20`, performance
only); a burst address that is never accepted (`cpu_bus_bridge.sv:702`) and the watchdog's threshold, 0 in
twelve bits (`:167`); a fetch for an old address after a redirect (`:588`); the three scans of fence.i and
sfence.vma (`core_top.sv:810`); access faults latched past their instruction (`cpu_trap_manager.sv:124`); a
fault, an end and an interrupt in one cycle (`cpu_controller.sv:121`); a claim that meets a new request
(`axi4lite_plic.sv:426`); the halves of `mtime` (`axi4lite_clint.sv:215`); FIFO limits (`sync_fifo.sv:45`).

Of the tools: the text of scripts and reports, terminals and filters, DDR3, `-status`, `-cleanup`, raw Tcl, and the
TUI's display. Things met while modelling, which no run covers:

- Hashes are recorded after a failed `create` or `refresh` (`operations.py:998`, `:1165`): the session then
  looks fresh. `GeometryInSync` and `BitstreamIsCurrent` are stated for `sound` sessions for that reason.
- After `sim`, or a full refresh of a task with a testbench, the RTL is out of `sources_1`: `bitstream` fails until
  the next `create`. `program` uses one bit file for all sessions.
- A stale testbench hides a stale firmware from the preflight check of `sim` (`sync.py:133` comes first), and
  `bitstream` with a stale firmware is "ok".
- The TUI's operations run in threads that cannot be cancelled: a second button runs a second operation on
  the same object (`vivado_tui.py:743`), against what `VivadoSession` assumes.
- Two workers that evict at once may leave one with a spurious `SessionLimitError` or an exception from a
  listing (`ListRaises`, `Evict`): the task fails and the report says so. A plan with `NamedSessions` may have two workers
  share a session, or one evict another's.
- `stop-accepting` submits all tasks of a round before it looks at a result: it takes effect between rounds only. A
  cancelled task counts as failed and as skipped in the report of a single round.
- The idle watcher and `destroy_session` work on fresh objects and stop no process.
- A full refresh removes the project directory with its `.session.yaml`, which is there again only when the
  record is saved: killed in between, the session is lost.
- The write-enable macros of tags and TLB ignore the byte-enable flags (assumption `ByteEnabled`); nothing checks
  that `tag_width` suits `num_sets`.

## 7. Plan

In this order, the most important behaviour first:

1. Done: `DCache`, `DataSide`, `WordMemory`, `DataSideInv`, `DataSideProofs`, `WordMemoryProofs`, `MCDataSide`.
2. Done: `BusBridge`, `DataBus`, `BridgeSide`, `BridgeSideProofs`, `MCBridge`.
3. Done: `PermitPool`, `VivadoSession`, `VivadoSessionProofs`, `SessionOrderProofs`, `SessionOutputProofs`, `BatchRun`,
   `BatchRunProofs`, `CacheGeometry`, `ProjectFlow`, `ProjectFlowProofs`.
4. `Lsu` (`cpu_mem.sv` with LR/SC, AMO and double words), `Controller`, `TrapManager`, and `MemPath`,
   their composition with an abstract memory. Abstract specification: an in-order machine whose
   instructions retire or trap once. Properties: a reservation does not survive what breaks it; an
   atomic is one; a trapped store has no effect. Known to look at: a request that returns after a bus
   error while its trap is being taken, against the comment at `cpu_mem.sv:279-282`. One passing run,
   one violation if it is one.
5. `ICache` with the redirect and device-fetch behaviour, composed with `BusBridge`'s instruction
   contract: the word delivered is that of the pc (hazard at `icache_ctrl.sv:392`). One or two runs.
6. `Mmu` with TLB and walker, and the sequencing of fence.i and sfence.vma: no stale translation. One run.
7. Small ones: `Plic` claim and complete, `SyncFifo`, `ApbBridge`, `TreePlru`, the divider as pure functions
   against division. One run together where they compose.

Theorem worth proving next: the reservation invariant of `Lsu`, when it is modelled.
