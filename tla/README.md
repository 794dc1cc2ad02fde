# ChopStiX in TLA+

A verification project for ChopStiX (`chop`), kept beside its code. The paths below
are those of the repository (`src/...`); line numbers are in `PROJECT.json` ("map").

Contents: 1 the system, 2 the models, 3 what is checked, 4 bounds, 5 fairness, 6 what is
proved, 7 what is only model-checked, 8 what the models show about the code, 9 what is
not modelled, 10 plan.

## 1. The system

ChopStiX finds the hot parts of a program and extracts them as small reproducers. It is
one command, `chop`, a preloaded library, and some tools.

| Component | State | Operations | Interacts with | Model |
|---|---|---|---|---|
| tracer state machine (`core/tracer/`, `client/trace.cpp`) | current state (prolog, region of interest, epilog), `running`, `trace_id`, position in `-indices` | `execute` of each state, `should_trace`, `start_trace`, `stop_trace`, the swap of breakpoints | drives the child by ptrace, calls two routines of the library in it, writes `regs.n`, `maps.n`, `info.n` | Tracer |
| traced process (`core/process.cpp`) | pid, last wait status, saved words of breakpoints, syscall toggle | `exec`, `ready`, `wait`, `waitfor`, `cont`, `syscall`, `dyn_call`, `timeout`, `set_break`, `remove_break` | the kernel | Tracer, Breakpoints, ChopSample, MemoryMap |
| breakpoints | words of text, `breaks_`, the file `_breakpoints` | set, remove, fix | tracer, the library's `save_page` | Breakpoints |
| support library, pages (`trace/system.cpp`) | `tracing`, `trace_id`, `pagecount`, previous fault, rights of each page | `chopstix_start_trace`, `chopstix_stop_trace`, the SIGSEGV handler | runs in the traced process, as its signal handler | PageTrace |
| support library, logs (`trace/buffer.cpp`, `membuffer.cpp`; `tools/detrace.c`, `detrace-mem.c`) | two buffers | write, merge, write back | files read by `chop-detrace`, `chop-detrace-mem` | AccessLog |
| start of a trace and memory map (`Tracer::track_mmap`, `trace/memory.cpp`, `tools/trace2mpt.c`) | `restrict_map`, the file `_restrict_map`, `map_[]`, `prot_[]`, `res_[]`, reserved pages | follow the loader's mappings, `update`, `protect_all`, `unprotect_all`, conversion to a test | the kernel, `/proc/self/maps`, the fault handler | MemoryMap, Mpt |
| `chop sample` (`client/sample.cpp`, `core/event.cpp`) | perf ring buffer, pid, flags shared by three threads | start, poll and drain, exit thread, timeout thread | kernel ring buffer, sqlite | PerfRing, ChopSample |
| control flow graph (`chop disasm`, `core/function.cpp`, ...) | blocks, edges | cut, link, save | disassembler, database | FlowGraph, ChopDb |
| `chop count`, `annotate` (`client/`, `database/sql/`) | tables of counts and scores | group, count, score, normalize | database | ChopDb |
| `chop search` (`core/search.cpp`, `path.cpp`) | priority queue, visit counts, covered blocks | best-first search | database | ChopDb |
| `chop-perf-invok` (`tools/perf-invok/`) | breakpoints, level, sample buffer | plant, step over, sample, flush; `handler` for alarms | ptrace, perf counters | PerfInvok |
| `chop-trace-mem` (`tools/valgrind/chopstix/cs_main.c`) | queue of accesses, `trace_enabled`, traces, position in `-indices` | instrument, flush, the helpers | valgrind | CsTrace, CsTraceProof |
| read-only reports, locations, hidden output functions, event names, `bp-checker`, loader, clustering, marks, architectures, options | little or none | | | no, see 9 |

What is hard in it: two processes (tracer and child) whose states must move in lockstep
although each keeps its own; code of the program, of the library's fault handler, and of
the program's own signal handlers interleaved in the child; system calls that stop the
child twice and split a trace; text that is patched while it is also being copied;
pages that must be saved before they are written; a memory map that is read again and
again while the program changes it; a child that is ended by SIGKILL with
data in its buffers; a child that may end at any moment; alarms between any two statements
of a tool; commands that share a database and may be killed half-way.

What makes each component correct:

- tracer: calls into the library alternate; register dump n and pages n belong to the same
  trace; every invocation to be traced is, and ends at its end; limits hold; the child never
  survives; the tracer ends when the child does.
- breakpoints: the program stops at each mark, runs its own text otherwise, and the saved
  text is the program's.
- pages: the file of a page has the contents the trace began with; every page accessed has
  one; accesses are let through; `-max-pages` holds.
- memory map: the fault handler can always run; a page of the program is protected or saved;
  the converted test has every page used, as code or as data.
- logs: nothing that was written is lost, whoever ends the program; the readers
  understand the writers.
- sampling: samples stored whole and in order, losses counted, no program left behind, an end.
- graph, counts, search: the stored graph covers the flow of the function, the counts are those
  of the samples, an unlimited search stores each loop once.
- `chop-perf-invok`: every invocation is measured once and alone; each sample gives a row; no
  trap is left in a running program.
- `chop-trace-mem`: what is printed are the accesses the listed executions attempt, in program order.

The full list of hazards, with the line at which each bites, is in `PROJECT.json`.

## 2. The models

### Tracer (with MCTracer, TracerProof), TraceLog

`Tracer` is `chop trace` after start-up: the cycle of states that `run_trace` wires, in its
three modes (`-begin -end`: "ranged"; `-interval -active`: "timed"; `-begin -active`:
"rangedTimed") and its three choices of executions (all, `-prob`, `-indices`). The command
line and what the program may do are one variable, `form`, that no step changes: an
initial state is a choice of the set `Forms`, and the theorems hold for each.

The tracer is sequential; between two waits it is one step. `loc` says in which wait it is:
`prologWait` is the `waitfor(SIGILL)` of a prolog, `skipWait` the one for the end of an
execution that is not traced, `strayWait` the one after an illegal instruction that was no
mark, `startEnter`, `startSplit`, `stopSplit`, `stopEpilog` the four `dyn_call`s,
`serviced` the moment at which a system call that splits has been let through and the trace is not
yet split, `sleep`/`attachWait` the detached interval of the timed forms, `loop` the main
loop. `child` says what the child does: resumed with PTRACE_CONT or PTRACE_SYSCALL, detached,
running a routine of the library, stopped, or dead. `stop` is what stopped it.

Child actions: an instruction at any marked or unmarked address, a system call (with its entry and
exit stop), a fault on a protected page (the library's handler then runs, makes system
calls and may be interrupted by a handler of the program), an exit with 0 or not, and
signals from outside at any moment. The program is arbitrary: it runs no particular code.

Whether a system call splits the trace is decided as in the code (`Splits`), by the registers at the stop: its link
register lies in the mapping in which `chopstix_start_trace` was looked up (`InSupport`), it lies at or above the begin of
the vdso (`InVdso`), or, on System z, its number is that of sigreturn (`SigReturn`). Where the calls
really come from is the layout of the process, `form.layout`: the link registers of the calls of the program, of the
library's handler and of handlers that return. `due` is a history variable: one trace for each execution entered
and one more for each system call of the program in it, which is what `docs/tracing.md` promises. `TracesAsPromised`
compares it with the traces made, in ranged mode without a limit, and for the layouts in which the registers tell
(`LayoutKnown`; `HandlerKnown` is the half of it about the handler). In others a split can be missed or
fall inside the handler (section 8); `PageTrace` follows the second.

`TraceLog` is the abstract specification: a directory of numbered traces that are begun and
ended in turn. `Tracer` implements it under `begun <- captured, ended <- libId`: dumps are
made by the tracer, ends by the library, and the two count separately.

### Breakpoints (with MCBreakpoints, BreakpointsProof)

The loops of `Tracer::set_breakpoint` and `fix_breakpoint` at the granularity of one
address, over `Process::set_break`, `set_break_size` and `remove_break`. Text is a row of
cells (units of instruction alignment), of which it matters only whether they are zero:
a breakpoint fills cells with zeros, and a saved word is the set of its zero cells. Word size,
breakpoint size, byte order and page size are constants: x86-64 and POWER have a breakpoint
as wide as a word, RISC-V and System z a shorter one. The copies `save_page` makes and patches
are an operator, compared with the program's text.

### PageTrace (with MCPageTrace, PageTraceProof), Snapshot

The library in the traced process: `start_trace`, `stop_trace`, and the fault handler in
the pieces in which something can get between (rights given back; page saved). Pages are
guarded (protected at the start), loose (never protected and saved at the end) or the
library's own. An access of the program is begun, faults as often as the rights
ask for, and is performed. `Interrupted` is a signal handler
of the program that runs while the fault handler does, as its empty mask permits.
`options` is the command line (`-memory-access-trace`, `-max-pages`, a temporal mode), whether the program
handles signals and whether the tracer knows the system calls of the fault handler; like `form` it is a constant of the execution.

Where the trace is stopped and started is the tracer's business, and not only between two accesses. A system call of the
program is serviced under the protection, then the trace is stopped and started (`call`: `serviced`, `split`). In the
temporal modes SIGSTOP finds the program anywhere, before an access, between its fault and the handler, or between the
handler's two halves (`Place`). A mark can be met by a signal handler that interrupts the fault handler.
In an unknown layout a system call of the fault handler itself is taken for the program's (`Mistaken`). A handler that goes
on after a stop saves its page under the number of the next trace, as it does not look at `tracing` (`early`: such files;
`stale`: those whose page the program has written since). One that goes on after a stop and a start finds its page
protected again and dies of the failed write (`SegvAbort`). The two calls that the tracer injects run on the
stack the handler is using, so the handler may also crash (`Overlaid`).

`Snapshot` is what a trace promises: a page is kept before it is accessed. `PageTrace`
implements it for the guarded pages.

### AccessLog (with AccessLogProof)

`trace.bin` and `memory_trace.bin`: `TraceBuffer` and `MemBuffer` with the four ways data
reach or do not reach a file (buffer full, flush at the limit, destructors, SIGKILL),
the replacement of a read by its write (code is logged as "I W" by both faults, and is
never replaced), and both readers, `chop-detrace` and `chop-detrace-mem`, as operators on the files.

### MemoryMap (with MCMemoryMap), Mpt

What `PageTrace` takes as given: which pages are guarded, loose and the library's own. The start of a
program: `execvp` stops (`Exec`), every system call of the loader stops twice
(`EnterCall`, `LeaveCall`: `track_mmap` remembers what is mapped and forgets what is
unmapped), single steps lead to the main module (`StepToMain`), the list is written to
`_restrict_map` (`WriteMap`) and read by the constructor of the library (`ReadMap`, `Notify`).
Each `StartTrace` reads `/proc/self/maps` again: `update` is the loop over its lines, with
`restrict_map()`, the parsing into slots of `map_[]` that keep their old contents, and the
cutting of libc's text at the pages of the functions the handler uses. A line without a path leaves the path its slot
had, or takes what is left in the buffer of lines, which comes out as no path (`Parsed`: which of the two happens is a
choice for each such line). `RegionsMax` is `REGIONS_MAX`: the test once per line (`aborted`), the slots that cuts and
splits fill without one (`corrupt`), and the test of `ReadMap`. `Access` is the fault
handler, which runs only if its own pages are accessible; `StopTrace` saves the
reserved pages and those that were not selected; `Convert` is `chop-trace2mpt` (`Mpt`) on the
pages of that trace and its map.

### PerfRing, ChopSample (with ChopSampleProof)

`PerfRing` has the two users of the ring buffer of a perf event. The kernel (external)
stores records, counts those that do not fit and reports the count as a record before the next
that does. The reader is `Event::sample`: `todo` are the reads and skips
still to be made of a record, which its header determines; a read is two steps, the copy (in
two pieces where the ring wraps) and the update of `data_tail`, between which the kernel may
store. Lengths are in words; a word is known by its record and place, so that a wrong word shows.

`ChopSample` adds the start (fork, `PTRACE_SETOPTIONS`, the two waits, single steps to
the main module, opening, mapping and enabling the event, each of which can fail), the three
threads of `run_sample` and the program. The main thread
polls, drains, stores what one drain gave in one transaction, and ends by `abandon` (`-pid`)
or by SIGKILL and the wait of `~Process`. The thread for the end of the program
runs the same `Process::wait` on the same object: `Wait(w)` has its four steps (waitpid
takes the child, waitpid stores the status, the test of `exited`, the test of
`signaled`), with `pid` and `status` shared and unprotected, as they are.

### FlowGraph, ChopDb (with MCChopDb and ChopDbProof)

`FlowGraph` are pure functions: `build_blocks` and `link_blocks` over a sequence of
instructions that have an address, a kind (the flags of `Arch::parse_inst`) and a target. A block is named by
the place of its first instruction;
its last part, `Flow`, is what the processor does with the same instructions. `ChopDb` has the
commands `sample`, `disasm`, `count`, `annotate` and `search` over a database of sets of
rows. A command is a list of statements (`todo`), each executed by `Statement`, which puts those it leads to
in front of the list (a module its functions, a function its first block: `AfterSaved`; a path that
`find_by_hash` does not find its nodes: `AfterWritten`); `Kill` ends a command between any two. `search` is the priority queue, expanded one path at a time (`SearchNext`).
A user (`Users`) is a set of object files, a script of commands and options.

`insert_maps` stores every line of `/proc/<pid>/maps`, the anonymous ones under the path of the line before, and without
the offset in the file. A module may be in several mappings, and be sampled in any. The query of `count` joins
a sample with each row of its module that covers it, both ends included, and subtracts the begin of the row: where
two rows touch, sqlite may take the offset of either (`form.last`). `Legible` names the modules for which that gives the
address in the file: in each process their instructions are in one mapping, which begins where the module does (or the module is not moved), and no row
of theirs ends at an instruction of a module there.

### PerfInvok (with MCPerfInvok, PerfInvokProof)

`chop-perf-invok`, with a place for every statement of its accounting of samples, because
`handler` (an alarm, SIGTERM or SIGINT for the tool) may run between any two and prints the
buffer itself. A counter's value is abstracted to what it covers. The program calls and
returns properly nested; it takes signals, forks, or is killed at any moment, during
single steps too.

### CsTrace (with MCCsTrace and CsTraceProof)

`cs_instrument` and its helpers. Valgrind translates a block (`Instrument` chooses its statements, the
tool queues their accesses, merges a load and a store of the same address and flushes the queue into
the output block) and then runs it (`Call`, `Mark`, `Read`, `Write`, `Exit`); the program is any sequence of blocks.
Helpers get the address of the data, and hand it to `trace_enabled` as those of instructions do: `Data` may contain a mark
(`strayed`: such code was translated). Whether a store-conditional or a compare-and-swap stores and whether the guard of
a dirty helper holds is an outcome (`on`), which the calls do not look at; the guards of LoadG and StoreG they do.
`due` has the accesses the program has attempted and the tool has not printed.

### How they fit together

`Tracer` treats a breakpoint as planted or not; `Breakpoints` shows when that abstraction is
right (`Apart`, and the byte-order condition of its theorems). `Tracer` shows that starts and
stops alternate (`CallsAlternate`), which is the assumption of `PageTrace`, `AccessLog` and
`MemoryMap`, where a start has "not tracing" and a stop has "tracing" in its guard. `Tracer` also shows
that in ranged mode, with a layout that tells, a split never happens inside the fault handler (`SplitsOutsideHandler`):
the option `known` of `PageTrace`, whose other options have the stops that do. `MemoryMap` shows that a page is either
protected or saved (`CoveredBelow`) and that the handler's own are neither (`HandlerSafe`): the
sets `Guarded`, `Loose` and `Own` of `PageTrace`. `ChopSample` ends with stored samples, with
which `ChopDb` begins; the graph `ChopDb` stores is the one its search walks.

## 3. What is checked

Each run is one question. Those that pass:

| Run | Question |
|---|---|
| tracer | eight set-ups: all executions with two begin and two end addresses; `-prob` with `-max-traces`, signals at any moment and a stray illegal instruction; `-interval -active` against a program that may die while detached; `-begin -active -indices`; `-no-trace`; three more layouts of the process. Dumps and traces agree (implements TraceLog), calls alternate, breakpoints in force, no invocation missed, every end closes its trace, no split in the fault handler, one trace more per system call, list and limit kept, no orphan, the tracer ends when the program does |
| breakpoints_double | word-wide big-endian breakpoints, begin and end marks that share words |
| page_trace | eight set-ups: `-memory-access-trace`, plain, `-max-pages`, signal handlers of the program, `-interval -active` plain, with each of the two options, and a handler whose system calls split: initial contents, completeness, logged writes, the limit, old files written again before their pages are used, refinement of Snapshot, every access let through |
| access_limit | logs complete after an exit or at the limit, pages and accesses attributed to the right trace by their readers |
| memory_map | every order of the loader's calls, upwards or downwards, seven layouts of libc, four command lines, both outcomes for the path of each anonymous line: handler can run, every page protected or saved, every page used converted as what it is |
| chop_sample | the start with its failures, three threads, a program that ends or is stopped at any moment, a ring that wraps and overflows: samples whole and in order, losses counted, no record found incomplete, no program left behind, sampling ends |
| perf_invok | alarms, signals, forks and kills at any statement: each invocation measured once, rows for all samples, no trap left |
| cs_trace | every program of seven statements: the log is exact until code that accesses data at a mark is translated, list and limit kept |
| pipeline | every function of a family is cut, linked, saved and searched; modules with common addresses and in several mappings sampled, disassembled and counted in every order; commands killed between two statements; limited and repeated searches |

Three runs have an expected violation, each of a sentence of the repository (section 8):
`breakpoints_little`, `access_indexed` and `pipeline_mappings`. For each property of a passing run, `PROJECT.json` names a mutant: a
plausible bug of the code under which the property fails.

## 4. Bounds

Programs are unbounded, so the models give them a budget of events (`Budget`). It is
spent by the program and its environment, never by the tracer or the library, which always
finish what they have begun.

- Tracer: 16 events are enough for two complete traced executions with a split and a fault in one of
  them and a third begun, or for three traces at a limit. Two begin and
  two end addresses tell the loops over the lists from single ones. Link registers are numbers, one or two for each
  origin of a call; the layouts have them within, below and above the ranges they are compared with.
- Breakpoints: there is no budget, the state space is finite. Eight cells with pages of four
  hold words that overlap between the lists, a page with and a page without marks, and a
  cell of the program that is zero.
- PageTrace: two guarded data pages, one guarded code page, one loose page, two instructions:
  two instructions are what alternation of faults needs, and three guarded pages what `-max-pages` of two
  needs to be exceeded. Five events (accesses, system calls, interruptions, stops amid a fault) fill two traces, or end
  the handler of an access in the trace after the one it began in. Starts, and stops at an instruction, are not counted.
- AccessLog: buffers of two, so that each boundary falls between every two kinds of words; two
  traces before the limit, six faults and starts in all.
- MemoryMap: eleven pages, of which libc's text has four, so that a reserved page can be the
  first, the last or between others; two pages of data the program may map and unmap; six system calls of the
  loader, of which four map the library; three traces, with a change of the map between each two. With
  `RegionsMax` 8 the table of regions is overrun in some layouts and not in others.
- ChopSample: a ring of 16 words, samples of 9, other records of 4, four records: the second
  sample wraps, a third overflows, and a loss is reported before a later record. Both forms of the
  command (`-pid` or a program) and both with and without `-timeout` are initial states.
- ChopDb: 675 functions of four instructions (every combination of a plain instruction,
  conditional and unconditional branches, calls and returns with targets inside, outside and
  between instructions) and one with two loops over the same blocks; two samples; four modules of which two have common
  addresses, one is linked at a fixed address and one has its code in its second mapping; two processes, with anonymous
  lines between and mappings that touch; scripts of two to five commands.
- PerfInvok: eleven events, invocations two deep, a buffer of two samples so that it fills and is
  flushed, one begin and two end addresses.
- CsTrace: seven statements in blocks of up to three with a queue of two, so that each flush occurs with
  a queue that is empty, half full and full; one address that both begins and ends; one begin address that is also data.

No run uses symmetry: pages and addresses differ by the sets they belong to.

## 5. Fairness

Three liveness properties are checked, `Terminates` in tracer, `AccessMade` in
page_trace and `SamplingEnds` in chop_sample.

`Tracer!FairSpec` has weak fairness of the tracer's steps and of the child's. The kernel
schedules both processes and delivers ptrace stops; that the child makes progress is
the assumption that the program ends, which its budget stands for (the traced program's own
business). Signals from outside are under no fairness.

`PageTrace!FairSpec` has weak fairness of the program that is making an access (the CPU retries
the instruction), of the fault handler, and of the tracer between a system call it has stopped the program for
and the new trace (`Split`): it does not leave a program stopped. It has none of other starts and stops, or of system calls.

`ChopSample!FairSpec` has weak fairness of each thread, which the scheduler gives it, and of the
timeout. It has none of the program, which may run for ever: then only a timeout ends
the sampling. That a drain ends rests on the bound of records: the reader keeps up with the kernel.
`SamplingEnds` excepts one state by name, `Hung` (section 8, the start).

## 6. What is proved

For all values of the constants, under the named assumptions in the modules. The
assumptions are those of the command line (modes, lists of numbers, flags) and that an
unmarked address exists. Where a module has several command lines, a theorem is about each
(`form` in `Forms`, `options`).

**TracerProof.** The inductive invariant is `IInv` (at the end of `Tracer`): `TypeOK`;
`Places`, which states and ways of running the child go with each place of the tracer;
`Planting`, the breakpoints of each place; `Lockstep`, how far the library's
`tracing` and `libId` are behind the tracer's `traceId` and `captured` at each place;
`BelowLimit`; `NoOrphan`. None of the safety properties is inductive alone: that
calls alternate needs to know at which place the tracer is and how that place was
reached, which is `Lockstep`, and that needs `Places` for the transitions through
dead and stopped children. There is one lemma for each part (`TypeOKStep`, `PlacesStep`, ...), with one step for
each action.

- `Invariance`, `TypeCorrect`, `CallsAlternateAlways`, `DumpsAgreeAlways`,
  `BreakpointsInForceAlways`, `LimitKeptAlways`, `NoOrphanAlways`;
- `Refinement`: the tracer implements `TraceLog`. Only six actions are no stutters: the
  captures and the library's stops. `Lockstep` makes `captured = 0 .. libId - 1` at each capture;
- `EndsCloseTraces` and `AllInvocationsTraced`: the two action properties, in ranged mode. An
  instruction at a mark is executed only where `BreakpointsInForce` has no breakpoint
  there, and those places are the ones in which the library's state is known.

Four more properties need a part of their own beside `IInv`:

- `SplitsOutsideHandlerAlways`: `Splitting` follows the stop at a system call of the program
  from the stop to the split; no place in between resumes the program's own code. It holds for every layout in
  which the registers tell the handler's calls (`HandlerKnown`), and programs without signals from outside;
- `TracesAsPromisedAlways`: `Promised` says by how much `due` is ahead of `traceId` at each place, and that a pending
  system call counts if it splits, under any signals. It holds for every layout that tells all calls (`LayoutKnown`);
- `CleanExitAlways`: `Leaving` says that only the prolog waits for a program that may exit (no run checks `CleanExit`: it is
  proved only);
- `IndexedExactAlways`: for lists without duplicates, which the code sorts. `ListUsed` says that the
  indices before `index` are those below `execution`. With a duplicate it does not hold
  (section 8), so the condition is the theorem's own assumption.

**BreakpointsProof.** Marks of one list must be a word apart (`Apart`): section 8 says
what happens otherwise. The invariant (`IInv` at the end of `Breakpoints`) says that every zero cell is the
program's or lies in a planted breakpoint, and that every saved word is the program's.

- `TypeCorrect` (no condition on the lists), `TextInvariant`, `TextRestoredAlways`;
- `MarksInForceAlways`: on big-endian machines or with breakpoints of one cell;
- `PagesOriginalAlways`: for words that do not cross a page end;
- `FixResumesAlways`: on big-endian machines with word-wide breakpoints (its only run is the violated one, on a little-endian machine).

The conditions of the last three are what section 8 says of the code, so the theorems
and the counterexample together say when these properties hold.

**PageTraceProof.** The invariant (`IInv` at the end of `PageTrace`) has the types and six
parts: `Phases`, what goes with each phase; `Rights`, a page is written with all its rights and accessed with
some; `Unwritten`, nothing comes between a fault and the save; `Keeping`, a page that has
rights is saved or is the one being saved; `Logging`; `Counting`. That the file of a page
has the initial contents is a fact about the moment of the save; what makes it
inductive is that lacking rights imply that the page is not written yet.
A stop and a start amid the handler do not break it: the stop takes the page under way out of the
trace (`Phases` and `Rights` have `tracing` as a condition), and in the next one the page has no rights, so that its save
ends the program before anything can be written.

- `TypeCorrect`, `LimitPerTraceAlways`, `WritesLoggedAlways`: no condition, wherever the trace is stopped and started,
  in the handler too;
- `UsedInitialAlways`: with no page limit and no signal handlers, a file that the handler wrote between two traces is written
  again before its page is used, if its contents are old;
- `GuardedInitialAlways`: for programs that handle no signals and do not die of a failed write, in temporal modes too;
- `CompleteAlways`: with no page limit and no page of the library's own accessed; with signal handlers
  but for the page under way at the stop (`cut`);
- `Refinement`: the library implements `Snapshot`, a strict one with no limit and no signal handlers, although it is stopped and started
  inside its handler.

**ChopSampleProof.** First the threads. The invariant (`IInv` at the end of `ChopSample`) has the types, `Reading`
(what is being copied lies before `data_head`), `AttachedWaitsNot`, `ReapedWhenSaid` (pid -1, a
deadly status, or ECHILD each mean that the program has been waited for) and `DeadAtTheEnd`.
The zero that `cont()` leaves in `status_` counts as an exit, so `ReapedWhenSaid` must also
say that nobody tests a zero unless its waitpid failed.

- `Invariance`, `TypeCorrect` (with it, `data_tail` never passes `data_head`), for rings and
  records of every length, from the start of the program on;
- `NoChildLeftAlways`: in every order of the two waiting threads.

Then the ring. The invariant `RingInv`, at the end of `ChopSample` behind `IInv`, relates the words of
the ring to the reader. `Whole`: each word between `data_tail` and `data_head` has the rest of
its record after it, and then the first word of the next. `InStep`: the reader is between two records, at a
header, or at the k-th part of a record, and then `todo` is what is left of the layout and the word
at the tail is the one that part begins with (`Starts`). `Delivered`: the samples up to that record are
in `rows` and `samples`, each as stored. `WholeKept` is the step of the kernel: places modulo
the size (`Distance`, `Further`) show that a store covers no unread word. `CopyContents` is
that the two copies of `read_buffer` together are what lies in the ring, wrapped or not;
`Layouts` that reads and skips of each type add up to its length.

- `NeverStarvedAlways`, `SamplesIntactAlways`, `LostAccountedAlways`: from the assumption of `PerfRing` only;
  neither the size of the ring nor that of the records need be a power of two.

`LostAccounted` is about sums over sets of records. Its invariant, `Losses`, has the losses counted by the
kernel next to the records (`StoreLosses`), and `numLost` as the sum over the records up to `Past`, the
last one read to its end; `NumberRead` follows the number of a lost record from the copy to the end of
the record. That the records not yet read are those after `Past` (`UnreadIs`) follows from `Whole`.

**Folds.** What the folds of the community modules compute. For a sum over a finite set
(`ChopSampleProof`), for every set: `Total` is a sum in the order in which CHOOSE takes the elements, the lemmas about it that
every order gives the same and that sums of disjoint sets add up. The induction over finite sets
that these need is put as the existence of a smallest counterexample (`Smallest`, from the
well-founded order of the subsets of a finite set), as no induction theorem of
the library can be instantiated here; `Least` does the same for numbers.
For a fold over a sequence (`AccessLogProof`): `FoldsExist` and `FoldsAgree` say that there is one fold over each part of the
indices, `FoldSteps` that it takes the last index last. The step is
a function there, as a lemma cannot take an operator; a module that folds operators of its own
relates each to such a function (`PutFold` and the like).

**AccessLogProof.** `IInv`, at the end of `AccessLog`, has the types and three parts. `WrittenBack`: file
and buffer together are all that was written, and the buffer is empty at the limit and after an exit. `Attributed`: what
`chop-detrace` would print so far is what is to be seen, and the trace it counts is `trace_id`
(`ShowsNext` is its step for one word). `Recorded`: the lines of the records so far are those of the faults.
A merge takes back a record that was counted; it is that of the read a store is first taken for, whose line is left
out, because records of code are never reads (the second conjunct) and the third says that the
second fault has a first. `NoteStep` says which of the two happened.

- `NothingLostAlways`: without `-indices`, which is what the violated run `access_indexed` needs (section 8);
- `PagesAttributedAlways`, `NoAccessLostAlways`: for programs that exit, any buffer, limit and program, `-indices` or not.

**PerfInvokProof.** The invariant (`IInv` at the end of `PerfInvok`) has `Counters` (types), `Leaving` (the
tool ends at the maximum or with the program, and plants no breakpoint to measure a whole
execution) and `Room`: at the top level each iteration adds one sample, the count flushed last is
a multiple of `MAX_SAMPLES`, and the count now is above it by no more than `MAX_SAMPLES`. That the
flush happens when `sampleCount % MAX_SAMPLES` is 0 makes this inductive, by `NextMultiple`. `Printing` says
how many rows there are at each place. For runs that measure the top level, one invocation after the
other, with no signal amid a step over a breakpoint (`Accurate`), there are two more parts. `Position`:
where the program is (outside of the function, crossing its begin, inside at depth `level + 1`, at
its last end) and which breakpoints are planted, at each place of the tool. `Measuring`: the rows and the
buffer are the readings of the outermost invocations in order, the current one is in its slot, and only
the one in which the program exited may be unfinished.

- `Invariance`;
- `NoTrapLeftAlways`: for every command line, size of the buffer and program, alarms included;
- `MeasuredOnceAlways`: every invocation is measured once, alone, to its end and in order;
- `RowsCompleteAlways`: a successful run has a row for each sample, whole but for the last, unless the alarm
  came amid its printing (section 8).

**CsTraceProof.** `CsInv` has the types, `IndicesInv` and, as long as no code that accesses data at a mark is translated
(`strayed`), `LogInv`. At any point of a block some events are
pending: the program has attempted the accesses and the calls for them come later in the block. `Flows` says
how each statement and call changes what is pending, `Follows` when it may come. `Leads`: the rest of the block
leads from what is pending now to the tool's queue, which keeps a flush, a merge and the end of a block
in one invariant. `Owed`: the calls for what is pending will take `enabled` and `cindice` to the
state of the program (`region`, `executions`) and print exactly the lines that are due. `Joined` and
`Pointing` are about the two that are out of step: a read that may still become a modification, and
a load-linked, which is reported before it runs. TLC checked the same invariant with the pending events
computed from the block. `IndicesInv` relates `begun` and `num_traces` to `cindice`.

- `LogExactAlways`: what is printed are the accesses attempted, for every size of the queue, list, limit and program, until one that `strayed`;
- `IndicesKeptAlways`: `-max-traces` is kept by every program, the list by those that do not stray. The code has
  no assumption about data addresses any more than the program: section 8 says what happens at a mark.

**ChopDbProof.** First the functions of `FlowGraph`, for every sequence of instructions with rising addresses
(`CodeAssumption`, which is what `objdump` prints). `OneBlock`: each instruction is in one block. `FlowEdge`: what the
processor does after an instruction is in its block or at the head of a block that an edge leads to. `PaddingUnreached`:
the block `link_blocks` drops is one that the processor does not reach, as a set that is closed under `Flow` and leaves
it out shows. Then the database. `DisasmInv`, at the end of `ChopDb`, has `Typed`, `Sound` (nothing is stored that no
module has) and the two that carry the argument. `Saving`: what a module lacks in the tables, some statement of `todo` will
store; each statement either stores it or is replaced by statements that will (`StatementStores`), so that a statement
need not be known by its place in the list. `OneByOne`: the statements of one module come before those of the next, so
that `Kill` can cut short only the module of the first statement, which is the one it records. The last step, `CoversComplete`, relates the rows back to
the graph: a block's first and last address in `db.inst` are those of its instructions.

For the search, `PathsInv` adds five parts. `Linked`: the functions and edges in the tables are of modules there, so
that a function of a module that was not cut short has exactly its graph (`WholeOf`, `NextOf`, `BackEdges`). `Rated`: counts
and scores are no less than zero, which is why a search with cutoff 0 drops no path (`NotPruned`; it needs
that a fold over a finite set adds, `SumsExist` and `SumsAgree`, since scores and sizes are sums). `Seeking`: a path of the queue
is a walk without repetition from where a back edge leads (`Walking`), and every loop is found or has its first part in the
queue (`Within`); `StillWithin` is the step of that, in which the path that is taken is replaced by one that goes one block
further along the loop, and a walk is never longer than there are blocks (`WalkOf`). `Writing`: what was found is stored or
in the statements that are left, only the first of which may be the nodes of a row, and that row is the last and
empty. `PathsStored`: the table itself. A killed search leaves an empty row, which is why the uniqueness in `PathsExact` is
that of rows with nodes; a part of a module, which a killed disasm leaves, is excepted in each part by `history.partial`.

For the count, `CountsInv` adds five more. `Located`: the rows of the map table are the lines of the maps of the sampled processes, anonymous ones
under the path before them, none of them twice until a process is sampled again. `Drawn`: a sample is of an instruction that can be reached in a module of
its process, whose lines are in the table. From these and two assumptions on the constants the join is shown to find
the samples of a legible module's instruction: `OneLine` and `RowOf`, exactly one line of a process, and so one row, has the
address of a sample; `Covered`, no row of the module's path but that one covers it, at its end either; `TakenOne` and `OffsetOf`, the row the query takes
has the offset that takes the address back to the file's, so that the row of an instruction has the number of the samples
there (`GroupedExact`). Samples of other modules, legible or not, that the query puts at the same address have no row of this module. The rows of a block, the blocks of a function and the functions of a module then
part the samples, and a sum over a finite set of the sizes of disjoint sets is the size of their union (`SumsUnion`):
`BlocksCounted`, `FuncsCounted`, `ModulesCounted`. A sample of a function is in one block by `OneBlock`. `Progress` is about a
count that is at work: the plan is in the order of `Turn`, the rows of instructions are those of the modules that are done,
and each of the other tables is exact once its statement is no longer in the plan (`CountStatement`). A
count that is killed leaves tables that say nothing, which is why `Finished` speaks of the time after a whole one, until
a sample or a disasm begins. `Recounted`: an annotate writes scores only beside counts, and leaves those (`Rescored`).
The assumptions: `AddressAssumption`, the functions of a module share no address, as `objdump` lists each address of a
linked file once; and `LayoutAssumption`, the lines of a process's maps are disjoint and in order, as the kernel prints them, and
an instruction of a module lies in a mapping with its path, moved by a bias that is 0 (a program linked at fixed addresses) or
above its addresses (the kernel maps shared objects high). Both hold in the Pipeline run. How many
mappings a module has is not assumed: `CountsExact` is about the `Legible` ones (section 2), and `pipeline_mappings` shows why. Other processes
may have anything at the same addresses, and other modules instructions at the same addresses in their files.

- `DisasmInvAlways`, `GraphCoversAlways`: for every program, set of modules and script of commands, with kills between
  any two statements;
- `PathsInvAlways`, `PathsExactAlways`: for every program, options and script, with kills;
- `CountsInvAlways`, `CountsExactAlways`: for every program, layout of its processes and script, with kills; the counts
  are those of the modules that are whole in the database and legible.

## 7. What is only model-checked

- Liveness (`Terminates`, `AccessMade`, `SamplingEnds`): the prover has neither ENABLED nor fairness.
- `HandlerSafe`, `CoveredBelow`, `Converted` of `MemoryMap`: the `update` of the map is a
  computation over a list, done in one step of the model by folds and recursive functions; what it computes for every
  list needs an induction over that data, which the library's theorems do not give here.

## 8. What the models show about the code

Three runs that TLC finds violated, each with the sentence of the repository that it
contradicts (`PROJECT.json`, "findings"):

- breakpoints_little: on little-endian machines with word-wide breakpoints a fix clears the
  bytes it should keep (`process.cpp:442`), so the program traps at the same address again.
- access_indexed: with `-indices` the tracer kills the program when the list is done, before
  the limit at which the library writes `trace.bin` back (`system.cpp:415`).
- pipeline_mappings: the maps are stored without their file offsets, so that the samples of a module whose code is in its second
  mapping are counted for another instruction or for none (`group_samples.sql:11`).

What the models have as the code has it, and where it parts from what a reader of the
documentation expects. The models allow each of these, and the properties are stated so as
to hold beside them, unless a line says that it is read from the code only; they have no run of their own.

Traces (`Tracer`):
- The system call that splits a trace is let through first (`regionofinterest.cpp:98`), so
  its effects on memory are in the trace it ends (`docs/tracing.md:116-118`), and a buffer in
  a protected page makes it fail with EFAULT.
- With handlers that end on the stack below the vdso, on a machine other than System z, or with a library whose first mapping
  has no code and lies below it, calls that are not the program's split the trace (`regionofinterest.cpp:66-95`): `HandlerKnown` and `LayoutKnown`
  are the conditions.
- Every link register at or above the begin of the vdso counts as the vdso's, which has no upper end there: system calls of a
  module above it, the loader on powerpc for one, do not split the trace (`regionofinterest.cpp:69`), although
  `docs/tracing.md:116-118` says that each does. `TracesAsPromised` is about layouts without such a module (`LayoutKnown`).
- SIGTERM for the program counts as its end (`process.cpp:506`), in `Tracer` and `PerfInvok` also where the program would handle it.
- The system call that ends the program leaves the last trace without an end
  (`regionofinterest.cpp:115`): `TraceLog` has this as a directory whose last trace is open.
- An index given twice blocks all later ones (`tracer.cpp:466`); `IndexedExact` is about lists
  without duplicates. The usage's example, "list=3,5 ... third and fifth time", counts from 1,
  the code and the sentence before it from 0.
- In an execution that is not traced, an exit with status 0 is noticed by nobody until the
  next poke fails, and `chop trace` reports an error (`prolog.cpp:72`). An illegal instruction of the program's
  own is never delivered to it (`prolog.cpp:76`).

Breakpoints:
- Two marks of one list closer than a word leave breakpoint bytes in the text: the word
  remembered for the second holds the first (`process.cpp:420`).
- A mark whose word crosses a page end is not patched in the copy of the second page
  (`system.cpp:275`).

Pages (`PageTrace`):
- The two calls injected while the fault handler runs use the stack the handler is on (`Overlaid`), and stop and start
  the trace in the middle of its work; a handler that goes on logs "not tracing" and does the rest.
- With `-interval -active`, a stop and a start between the two halves of the fault handler protect the page it is about to
  write to its file; the write fails and the assertion behind it ends the program (`system.cpp:258`, `SegvAbort`; the properties except
  the program that died of it by `phase # "killed"`).
- A handler that goes on after the stop writes a file of the next trace's number (`system.cpp:221`). With `-max-pages` that
  file may stay, with contents older than the begin of the trace; `UsedInitial` is about traces with no limit.
- A signal handler of the program can write a page between the fault handler's
  unprotect and its save, as the handler's mask is empty (`system.cpp:144`).
- Unprotected pages are saved at the end of a trace, with the contents they have then
  (`system.cpp:391`); pages of the library's module are never saved (`memory.cpp:429`).
- `-max-pages` is counted anew in each split of an execution (`system.cpp:347`).
- Only accesses that fault are in `memory_trace.bin`, not every access, and the first fault
  of a page of an executable region is logged as a write of code (`system.cpp:210`); stores to
  such pages are logged twice.

Logs (`AccessLog`):
- `MemBuffer` is not written back at the limit, so its last records are lost when the
  tracer kills the program (`system.cpp:416`); `NoAccessLost` is about programs that exit.
- `chop-detrace` does not know the mark of a new invocation and prints it as a page
  (`detrace.c:50`); `PagesAttributed` leaves these lines out.
- Nobody calls `MemBuffer::start_trace` and `stop_trace`, so `chop-detrace-mem` prints no trace marks, nor
  `save_code_read`.

Start and memory map (`MemoryMap`, `Mpt`):
- A text of libc that goes on behind its last reserved page leaves a region of one page there: the rest is neither
  protected nor saved (`memory.cpp:366`; `RestOfText`), although `docs/tracing.md:15` says that the entire address space is.
- A line without a path that keeps that of its slot may be data of the program behind libcxtrace's, which then counts as
  the library's: neither protected nor saved (`memory.cpp:131`; `misnamed`, bounded by `CoveredBelow`).
- The number of regions is tested once per line, and cuts and splits enter more than one: the table can be overrun
  (`memory.cpp:322`). The model ends there (`corrupt`).
- A slot of `map_[]` that `update` skips keeps the region of an earlier one; if the program has unmapped
  it since, `mprotect` fails and the program ends (`memory.cpp`, `protect_all`).
- After a region is cut in its middle, only the upper part is compared with the mappings after it: a mapping to
  be left alone that was listed after one above it in the same region stays protected (`Overlooked`). With the falling addresses
  of mmap this happens only if something that is not cut out follows the upper one; otherwise the region is cut from its end.
- A mapping to be cut out that reaches beyond its region leaves one whose end precedes its begin; `mprotect` fails and the program ends.
- A line without a path may also take libcxtrace's path for the library's own data, which is then not entered (and
  needs no cut), or libc's for an executable region, which is then cut like libc's text.
- `track_mmap` erases what it has found without testing that it found it; a partial unmapping
  is undefined behaviour (`tracer.cpp:232`, `mismatched`).
- What the loader has mapped is neither protected nor dumped.
- Read from the code only: a region without read permission is saved at the end, which ends the
  program (`system.cpp:265`); the condition of `--max-address` can never hold
  (`trace2mpt.c:305`); the search of `findSegment` wraps below the first segment; PTRACE_SETOPTIONS comes
  before the child has stopped (`process.cpp:100`), so EXITKILL is practically never set; the personality
  is tested after it was set (`process.cpp:180`), so addresses stay random for `chop sample`.

Sampling (`ChopSample`):
- The wait of the start does not wait (WNOHANG) for the program to stop; if it takes the
  stop at `exec`, `ready` waits for a stop that does not come (`Hung`). EXITKILL is set exactly in
  that case. A start that fails leaves the program running, as `exit` runs no destructor of a local.
  Signals that come during the steps to the main module are dropped.
- Main thread and exit thread both wait for the program after a timeout. The one that comes
  second gets ECHILD; if the first has not stored its status yet, it takes the program for
  exited, and `checkx(pid != -1)` ends chop with a failure (`process.cpp:256`) although all went well.
- The kill after the loop reads `pid_` a second time (`process.cpp:299`); if the exit thread has set it
  to -1 in between, it is sent to every process of the user. The model lets this be a step
  without effect on the program, which is dead by then.
- Any signal for the program stops it, the exit thread returns, and the sampling ends with the
  program killed (`sample.cpp:199`).
- What the ring holds when `running` becomes false is never read (`sample.cpp:225`), and is not in
  the warning about lost records either; nor are samples between enabling and mapping.
- A drain goes on as long as there are records (`event.cpp:378`): with records arriving faster than
  they are read it would not end and a timeout would not be noticed.
- The detached threads may still use variables of `run_sample` when it has returned; the model
  ends with the main thread. `data_head` is read without a barrier, the model reads it in order.

Graph, counts and search (`FlowGraph`, `ChopDb`):
- The last block of a function is never linked to its target (`function.cpp:102`): a loop whose back
  branch ends the function is not found. `GraphCovers` excepts that edge by name.
- Paths with the same nodes in another order count as one (`path.cpp:88`). The visit limit that
  `-target-count` sets can lose paths (`search.cpp:107`); the properties about all loops are for searches without.
- A `disasm` that is killed leaves a part of a module, which is taken for the whole from then on; a
  killed `search` leaves a path without nodes.
- `inst_annot` gets rows for the instructions of other modules with the same address
  (`docs/database_layout.md:140`), which a later command loads twice. A pid that is sampled twice has its
  counts doubled; a count after an annotation sets scores to 0; the scores of stored
  paths stay what they were.
- Read from the code only: a function without instructions or blocks reads the front or back of an empty
  vector; `Branch br` of x86 has uninitialised flags; `Query::next` loops for ever on a constraint;
  `num_blocks` uses `unique` on an unsorted sequence. `chop sample` opens its database without the
  exclusive locking that the other commands ask for; the model has one command at a time.

- The path an anonymous line inherits makes it a row of the module before it (`sample.cpp:97`); as the ends of rows are
  included, a sample at the first address of a mapping belongs to the row below it too when both have that path.
- A module in several mappings that touch has samples in two rows; sqlite promises nothing about which offset a grouped row shows.
- `norm_blocks` then divides every score by their sum; the model has scores in units and leaves that out. The statements of `count_insts_pre`
  are one step.

`chop-trace-mem` (`CsTrace`):
- The helpers of loads, stores and modifications give the address of the data to `trace_enabled` (`cs_main.c:237`, `244`, `251`):
  a load from a begin address counts as an invocation and begins a trace, one from an end address ends it (`strayed`).
- A store-conditional or compare-and-swap that fails, and a dirty helper whose guard is false, are printed as
  accesses (`cs_main.c:538`, `505`, `486`): `LogExact` is about the accesses attempted.

`chop-perf-invok` (`PerfInvok`):
- SIGTERM and SIGALRM for the program count as its end (`main.c:105`, `408`); marks closer than a word
  are not modelled (`Breakpoints` has them, for the tracer).
- `handler` prints the buffer that the main loop is filling, so a row may be printed incomplete or
  twice (`main.c:109`); `RowsComplete` excepts these (`reprinted`, `swallowed`).
- After a sample at a level above 0 counting starts again at level 0 (`main.c:252`; `-level` is "recursion level to profile", `README.md:24` of the tool).

## 9. What is not modelled

- Read-only reports, locations and maps: they parse files and print. (`compute_module_offset` takes the first executable
  mapping whose file name begins with the name of the module, so "libc" also finds `libcxtrace.so`.)
- The hidden output functions of the library: one test of `tracing` each, that changes nothing.
- Event names and encodings: calls into libpfm.
- `bp-checker`, the loader, clustering and marks scripts: they do one thing and end.
- Architectures: they enter as constants (`Breakpoints`) and kinds of instruction (`FlowGraph`); the dump of
  registers, the decoding of instructions and the injected calls' conventions are data.
- Options and support: parsing, formatting and wrappers.
- Of `chop sample`: the scaling of sampled values, `-group`. Of traces: the order of addresses in
  a page, the contents of dumps, compression. Of post-processing: what is not `chop-detrace`,
  `chop-detrace-mem` or `chop-trace2mpt`.
- The kernel, the loader of programs, valgrind and the database are external: they are modelled from how the code
  uses them. sqlite and fmt are vendored.

## 10. Plan

Done: the modules and theorems above. What would come next, in order of importance:

1. For the ring an abstract queue that delivers each record once, in order, and the refinement, from `RingInv`.
2. The composition of `Tracer` and `PageTrace` in one run, instead of the argument at the end of section 2.
3. Locations: which module an address belongs to when mappings change while sampling.
4. `HandlerSafe` for layouts of libc of every size, by cutting `update` into steps that are proved one by one.
