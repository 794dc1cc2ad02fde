----------------------------- MODULE PerfInvok -----------------------------
(***************************************************************************)
(* chop-perf-invok (tools/perf-invok): a tracer that plants illegal        *)
(* instructions at the start and end addresses of a function, reads the    *)
(* performance counters from one to the other and writes a row per         *)
(* invocation to a file.                                                   *)
(*                                                                         *)
(* The tracer is sequential and blocks in waitpid; what makes it hard is   *)
(* that SIGALRM (-timeout), SIGTERM and SIGINT run `handler' between any   *)
(* two of its statements: `loc' has a place for every statement of the     *)
(* sample accounting.  A counter value is abstracted to what it covers:    *)
(* the invocation that had just been entered when it was reset, and        *)
(* whether it was read at the end of that invocation.                      *)
(***************************************************************************)
EXTENDS Integers, Sequences

CONSTANTS
  Starts, Ends,   \* the addresses given with -begin and -end
  Forms,          \* command lines: [full, inMain : BOOLEAN, level, max : Nat]
  MAX_SAMPLES,    \* slots of samples[] (1048576 in config.h)
  Enough,         \* samples that make an interrupted run a success (1000)
  MaxDepth,       \* bound: nesting of the invocations
  Signals,        \* what the environment does: subset of SignalKinds
  Budget          \* bound: steps of the program and signals

SignalKinds == {"sig", "term", "kill", "fork", "alarm"}

ASSUME AddressAssumption == /\ Starts # {} /\ Ends # {} /\ Starts \cap Ends = {}
                            /\ (Starts \cup Ends) \cap {"other", "stray", "exit"} = {}
ASSUME FormAssumption == Forms \subseteq [full : BOOLEAN, inMain : BOOLEAN, level : Nat, max : Nat]
ASSUME BoundAssumption == /\ MAX_SAMPLES \in Nat \ {0} /\ Enough \in Nat
                          /\ MaxDepth \in Nat /\ Budget \in Nat
                          /\ Signals \subseteq SignalKinds

VARIABLES
  form,        \* the command line
  loc,         \* where the tracer is
  child,       \* what the child does: "run", "step", "stopped" or how it ended
  stop,        \* the signal it is stopped with
  pc,          \* its next instruction: a marked address, "stray" (an illegal
               \* one), "exit", or "other" at the beginning
  frames,      \* the invocations it is in, innermost last
  calls,       \* invocations it has begun
  outermost,   \* history: those of them that are not recursive calls
  planted,     \* addresses that hold a breakpoint
  hit,         \* the breakpoint taken away to step over it
  level, sampleInProgress, sampleCount, flushedSampleCount,
  samples,     \* samples[]
  rows,        \* rows written to the output file
  doomed,      \* the child has been sent a signal by the tracer
  swallowed,   \* history: a signal was consumed by a single step
  reprinted,   \* history: `handler' interrupted the printing of rows
  budget

program  == <<pc, frames, calls, outermost>>
sampling == <<level, sampleInProgress, sampleCount, flushedSampleCount, samples>>
history  == <<swallowed, reprinted>>
vars == <<form, loc, child, stop, planted, hit, rows, doomed, budget, program, sampling,
          history>>

Marks   == Starts \cup Ends
Waits   == {"outWait", "fwdWait", "inWait", "stepOut", "stepIn", "fullWait"}
Exited  == {"exit0", "exit1"}
Dead    == Exited \cup {"killed"}
Ended   == {"done", "failed", "crashed"}
Here    == IF frames = <<>> THEN 0 ELSE frames[Len(frames)]
NoSample == [invocation |-> 0, depth |-> 0, whole |-> FALSE]
Sample   == [invocation : Nat, depth : Nat, whole : BOOLEAN]

Init ==
  /\ form \in Forms
  /\ loc = "setup" /\ child = "stopped" /\ stop = "none"
  /\ pc = "other" /\ frames = <<>> /\ calls = 0 /\ outermost = <<>>
  /\ planted = {} /\ hit \in Starts
  /\ level = 0 /\ sampleInProgress = FALSE
  /\ sampleCount = 0 /\ flushedSampleCount = 0
  /\ samples = [i \in 0 .. MAX_SAMPLES - 1 |-> NoSample] /\ rows = <<>>
  /\ doomed = FALSE /\ swallowed = FALSE /\ reprinted = FALSE
  /\ budget = Budget

Resume(how) == child' = how /\ stop' = "none"
Go(place) == loc' = place
\* perror, kill(pid, SIGKILL), exit(EXIT_FAILURE).
Fail ==
  /\ Go("failed") /\ Resume(IF child \in Dead THEN child ELSE "killed")
  /\ UNCHANGED <<planted, hit, rows, doomed, sampling>>
-----------------------------------------------------------------------------
(* The slot of the current sample and the rows of the buffer.              *)

Slot == sampleCount - flushedSampleCount
InBuffer == Slot \in 0 .. MAX_SAMPLES - 1

\* beginSample: the counters are reset.  A slot outside the buffer is at an
\* address far beyond it (the subtraction is unsigned).
BeginSample ==
  IF InBuffer
    THEN samples' = [samples EXCEPT ![Slot] =
                       [invocation |-> Here, depth |-> Len(frames), whole |-> FALSE]]
    ELSE UNCHANGED samples

\* endSample: what has been counted is an invocation if the program is still
\* in it and about to leave it.
EndedSample(s) ==
  [s EXCEPT !.whole = child = "stopped" /\ pc \in Ends /\ s.invocation = Here]

\* printSamples(sampleCount - flushedSampleCount).
Buffered(slots, n) == [i \in 1 .. n |-> slots[i - 1]]
PrintSamples(slots, n) == rows' = rows \o Buffered(slots, n)
-----------------------------------------------------------------------------
(* Start: fork, stop at the first system call, compute_base_address,       *)
(* configureEvents.                                                        *)

\* compute_base_address: for another module than the main one, single steps
\* lead to the main module; a step that fails or does not move ends the tool.
StepToMain ==
  /\ loc = "setup" /\ ~form.inMain
  /\ Go("based")
  /\ UNCHANGED <<form, program, child, stop, planted, hit, rows, doomed, budget, sampling, history>>

StepFails ==
  /\ loc = "setup" /\ ~form.inMain
  /\ Fail
  /\ UNCHANGED <<form, program, budget, history>>

Ready == loc = (IF form.inMain THEN "setup" ELSE "based")

\* configureEvents: a counter that cannot be opened ends the tool only.
ConfigureFails ==
  /\ Ready
  /\ Go("failed") /\ Resume("run")
  /\ UNCHANGED <<form, program, planted, hit, rows, doomed, budget, sampling, history>>

\* perInvocationPerformance up to its loop.
StartInvocations ==
  /\ Ready /\ ~form.full
  /\ planted' = Starts
  /\ Resume("run") /\ Go("outWait")
  /\ UNCHANGED <<form, program, hit, rows, doomed, budget, sampling, history>>

\* globalPerformance: the sample is begun before the child is resumed.
StartFull ==
  /\ Ready /\ form.full
  /\ BeginSample /\ sampleInProgress' = TRUE
  /\ Resume("run") /\ Go("fullWait")
  /\ UNCHANGED <<form, program, planted, hit, rows, doomed, budget, level, sampleCount,
                 flushedSampleCount, history>>
-----------------------------------------------------------------------------
(* Between two samples.                                                    *)

Waited(place) == loc = place /\ child \notin {"run", "step"}

\* Tested after the first wait of an iteration only.
StopLate == doomed' = (doomed \/ sampleCount > form.max)  \* mutant: off by one
StopChild == doomed' = (doomed \/ sampleCount = form.max)
MaxReached == sampleCount >= form.max
Maximum ==
  /\ Waited("outWait") /\ MaxReached
  /\ StopChild
  /\ Go("final")
  /\ UNCHANGED <<form, program, child, stop, planted, hit, rows, budget, sampling, history>>

Outside == Waited("fwdWait") \/ (Waited("outWait") /\ ~MaxReached)

\* Signals are passed on; a forked child is detached first, which fails when it
\* has not stopped yet.
Forward(place) ==
  /\ child = "stopped"
  /\ Resume(IF stop \in {"term", "ill"} THEN "killed" ELSE "run") /\ Go(place)
  /\ UNCHANGED <<planted, hit, rows, doomed, sampling>>

OutForward ==
  /\ Outside /\ stop # "ill"
  /\ Forward("fwdWait")
  /\ UNCHANGED <<form, program, budget, history>>

DetachFails ==
  /\ Outside \/ Waited("inWait") \/ Waited("fullWait")
  /\ child = "stopped" /\ stop = "fork"
  /\ Fail
  /\ UNCHANGED <<form, program, budget, history>>

OutExited ==
  /\ Outside /\ child \in Exited
  /\ Go("final")
  /\ UNCHANGED <<form, program, child, stop, planted, hit, rows, doomed, budget, sampling, history>>

OutSignaled ==
  /\ Outside /\ child = "killed"
  /\ IF sampleCount < Enough
       THEN Fail
       ELSE /\ Go("final")
            /\ UNCHANGED <<child, stop, planted, hit, rows, doomed, sampling>>
  /\ UNCHANGED <<form, program, budget, history>>

\* Any illegal instruction is taken for a start address.
OutHit ==
  /\ Outside /\ child = "stopped" /\ stop = "ill"
  /\ planted' = planted \ Starts
  /\ Resume("step") /\ Go("stepOut")
  /\ UNCHANGED <<form, program, hit, rows, doomed, budget, sampling, history>>

\* The status of the step is not looked at: a signal that came instead of it
\* is lost, and the instruction has not been executed.
Lost == swallowed' = (swallowed \/ stop # "trap")

\* sampleInProgress is set, the counters are reset in the next statement.
EnterLevel(l) ==
  /\ level' = l
  /\ IF l = form.level
       THEN sampleInProgress' = TRUE /\ Go("begin") /\ UNCHANGED <<child, stop>>
       ELSE UNCHANGED sampleInProgress /\ Go("inWait") /\ Resume("run")

StartsKept == planted' = planted \cup Ends  \* mutant: a recursive call is not seen
AllPlanted == planted' = planted \cup Starts \cup Ends

OutStepped ==
  /\ Waited("stepOut") /\ child = "stopped"
  /\ Lost
  /\ AllPlanted
  /\ EnterLevel(0)
  /\ UNCHANGED <<form, program, hit, rows, doomed, budget, sampleCount, flushedSampleCount,
                 samples, reprinted>>

\* The breakpoints of a process that is gone cannot be set.
StepLost ==
  /\ Waited("stepOut") \/ Waited("stepIn")
  /\ child \in Dead
  /\ Fail
  /\ UNCHANGED <<form, program, budget, history>>
-----------------------------------------------------------------------------
(* Inside an invocation.                                                   *)

Begin ==
  /\ loc = "begin"
  /\ BeginSample
  /\ IF InBuffer THEN Go("inWait") /\ Resume("run") ELSE Go("crashed") /\ Resume("run")
  /\ UNCHANGED <<form, program, planted, hit, rows, doomed, budget, level, sampleInProgress,
                 sampleCount, flushedSampleCount, history>>

InIll == Waited("inWait") /\ child = "stopped" /\ stop = "ill"

\* An end address ends the sample at the level that was asked for, and the
\* iteration at level 0.
LastEnd == level = 0 \/ (level = form.level /\ sampleInProgress)

InEnd ==
  /\ InIll /\ pc \in Ends /\ LastEnd
  /\ Go("sampled")
  /\ UNCHANGED <<form, program, child, stop, planted, hit, rows, doomed, budget, sampling, history>>

\* A recursive return or call: the one breakpoint is stepped over.
StepOver ==
  /\ planted' = planted \ {pc} /\ hit' = pc
  /\ Resume("step") /\ Go("stepIn")

InReturn ==
  /\ InIll /\ pc \in Ends /\ ~LastEnd
  /\ level' = level - 1
  /\ StepOver
  /\ UNCHANGED <<form, program, rows, doomed, budget, sampleInProgress, sampleCount,
                 flushedSampleCount, samples, history>>

InCall ==
  /\ InIll /\ pc \in Starts
  /\ StepOver
  /\ UNCHANGED <<form, program, rows, doomed, budget, sampling, history>>

InStray ==
  /\ InIll /\ pc \notin Marks
  /\ Fail
  /\ UNCHANGED <<form, program, budget, history>>

InStepped ==
  /\ Waited("stepIn") /\ child = "stopped"
  /\ Lost
  /\ planted' = planted \cup {hit}
  /\ IF hit \in Starts
       THEN EnterLevel(level + 1)
       ELSE Go("inWait") /\ Resume("run") /\ UNCHANGED <<level, sampleInProgress>>
  /\ UNCHANGED <<form, program, hit, rows, doomed, budget, sampleCount, flushedSampleCount,
                 samples, reprinted>>

InForward ==
  /\ Waited("inWait") /\ stop # "ill"
  /\ Forward("inWait")
  /\ UNCHANGED <<form, program, budget, history>>

\* The loop is left, with a sample that is counted all the same.
InExited ==
  /\ Waited("inWait") /\ child \in Exited
  /\ Go("sampled")
  /\ UNCHANGED <<form, program, child, stop, planted, hit, rows, doomed, budget, sampling, history>>

InSignaled ==
  /\ Waited("inWait") /\ child = "killed"
  /\ Fail
  /\ UNCHANGED <<form, program, budget, history>>
-----------------------------------------------------------------------------
(* After a sample.                                                         *)

Sampled ==
  /\ loc = "sampled"
  /\ IF sampleInProgress THEN Go("ending") ELSE Go("checked")
  /\ sampleInProgress' = FALSE
  /\ UNCHANGED <<form, program, child, stop, planted, hit, rows, doomed, budget, level,
                 sampleCount, flushedSampleCount, samples, history>>

EndSample ==
  /\ loc = "ending"
  /\ samples' = [samples EXCEPT ![Slot] = EndedSample(@)]
  /\ sampleCount' = sampleCount + 1
  /\ Go("checked")
  /\ UNCHANGED <<form, program, child, stop, planted, hit, rows, doomed, budget, level,
                 sampleInProgress, flushedSampleCount, history>>

\* The buffer is printed when it is full.  (With a level above 0 an iteration
\* may add no sample: the test then holds again for the same count.)
FlushNeeded == sampleCount % MAX_SAMPLES = 0 /\ sampleCount > 0

Checked ==
  /\ loc = "checked"
  /\ IF child \in Exited THEN Go("final") /\ UNCHANGED rows
     ELSE IF FlushNeeded THEN Go("flushing") /\ PrintSamples(samples, Slot)
     ELSE Go("next") /\ UNCHANGED rows
  /\ UNCHANGED <<form, program, child, stop, planted, hit, doomed, budget, sampling, history>>

FlushedMore == flushedSampleCount' = flushedSampleCount + MAX_SAMPLES

Flushed ==
  /\ loc = "flushing"
  /\ FlushedMore
  /\ Go("next")
  /\ UNCHANGED <<form, program, child, stop, planted, hit, rows, doomed, budget, level,
                 sampleInProgress, sampleCount, samples, history>>

StartsOnly == planted' = (planted \ Ends) \cup Starts

NextInvocation ==
  /\ loc = "next"
  /\ StartsOnly
  /\ Resume("run") /\ Go("outWait")
  /\ UNCHANGED <<form, program, hit, rows, doomed, budget, sampling, history>>
-----------------------------------------------------------------------------
(* The measurement of a whole execution, and the end.                      *)

FullForward ==
  /\ Waited("fullWait")
  /\ Forward("fullWait")
  /\ UNCHANGED <<form, program, budget, history>>

FullEnded ==
  /\ Waited("fullWait") /\ child \in Dead
  /\ sampleInProgress' = FALSE
  /\ Go("fullEnding")
  /\ UNCHANGED <<form, program, child, stop, planted, hit, rows, doomed, budget, level,
                 sampleCount, flushedSampleCount, samples, history>>

FullSample ==
  /\ loc = "fullEnding"
  /\ sampleCount' = sampleCount + 1
  /\ Go("final")
  /\ UNCHANGED <<form, program, child, stop, planted, hit, rows, doomed, budget, level,
                 sampleInProgress, flushedSampleCount, samples, history>>

PrintRest == PrintSamples(samples, Slot)
PrintRows ==
  /\ loc = "final"
  /\ IF Slot < 0 THEN Go("crashed") /\ UNCHANGED rows ELSE PrintRest /\ Go("printed")
  /\ UNCHANGED <<form, program, child, stop, planted, hit, doomed, budget, sampling, history>>

Close ==
  /\ loc = "printed"
  /\ Go("done")
  /\ UNCHANGED <<form, program, child, stop, planted, hit, rows, doomed, budget, sampling, history>>
-----------------------------------------------------------------------------
(* handler(): SIGALRM, SIGTERM or SIGINT, between any two statements.      *)

\* A child that has been waited for is gone: kill() fails.
Reaped == child \in Dead /\ loc \notin Waits
CountedAlways == IF sampleInProgress THEN sampleCount + 1 ELSE sampleCount \* mutant
Counted == IF sampleInProgress /\ sampleCount = 0 /\ form.full THEN 1 ELSE sampleCount

Handler ==
  /\ "alarm" \in Signals /\ loc \notin Ended
  /\ IF Reaped \/ (~sampleInProgress /\ sampleCount = 0) \/ (Counted < Enough /\ ~form.full)
       THEN Go("failed") /\ UNCHANGED <<rows, sampleCount, samples, reprinted>>
       ELSE /\ sampleCount' = Counted
            /\ samples' = IF sampleInProgress /\ InBuffer
                            THEN [samples EXCEPT ![Slot] = EndedSample(@)]
                            ELSE samples
            /\ IF Counted < flushedSampleCount
                 THEN Go("crashed") /\ UNCHANGED rows
                 ELSE Go("done") /\ PrintSamples(samples', Counted - flushedSampleCount)
            /\ reprinted' = (loc \in {"flushing", "printed"})
  /\ doomed' = (doomed \/ ~Reaped)
  /\ UNCHANGED <<form, program, child, stop, planted, hit, budget, level, sampleInProgress,
                 flushedSampleCount, swallowed>>
-----------------------------------------------------------------------------
(* The program and its environment.                                        *)

Alive == child \in {"run", "step"} /\ loc \notin Ended

\* It calls and returns as functions do; a recursive call is at most MaxDepth
\* deep, and a program out of budget exits.
NextPc(stack) ==
  {"exit"} \cup IF budget = 0 THEN {}
                ELSE {"stray"} \cup (IF Len(stack) < MaxDepth THEN Starts ELSE {})
                               \cup (IF stack = <<>> THEN {} ELSE Ends)

Instruction ==
  /\ Alive /\ pc \in Marks \cup {"other"} /\ pc \notin planted
  /\ budget' = IF budget = 0 THEN 0 ELSE budget - 1
  /\ calls' = IF pc \in Starts THEN calls + 1 ELSE calls
  /\ outermost' = IF pc \in Starts /\ frames = <<>> THEN Append(outermost, calls + 1) ELSE outermost
  /\ frames' = IF pc \in Starts THEN Append(frames, calls + 1)
               ELSE IF pc \in Ends THEN SubSeq(frames, 1, Len(frames) - 1) ELSE frames
  /\ pc' \in NextPc(frames')
  /\ IF child = "step" THEN child' = "stopped" /\ stop' = "trap" ELSE UNCHANGED <<child, stop>>
  /\ UNCHANGED <<form, loc, planted, hit, rows, doomed, sampling, history>>

Illegal ==
  /\ Alive /\ pc \in planted \cup {"stray"}
  /\ child' = "stopped" /\ stop' = "ill"
  /\ UNCHANGED <<form, loc, program, planted, hit, rows, doomed, budget, sampling, history>>

Exit(code) ==
  /\ Alive /\ pc = "exit"
  /\ Resume(code)
  /\ UNCHANGED <<form, loc, program, planted, hit, rows, doomed, budget, sampling, history>>

\* A signal for the program, or its fork (not seen by a single step).
Signal(k) ==
  /\ Alive /\ budget > 0 /\ budget' = budget - 1
  /\ k = "fork" => child = "run"
  /\ IF k = "kill" THEN Resume("killed") ELSE child' = "stopped" /\ stop' = k
  /\ UNCHANGED <<form, loc, program, planted, hit, rows, doomed, sampling, history>>

Terminated == loc \in Ended /\ UNCHANGED vars

ToolNext ==
  \/ StepToMain \/ StepFails \/ ConfigureFails \/ StartInvocations \/ StartFull
  \/ Maximum \/ OutForward \/ DetachFails \/ OutExited \/ OutSignaled \/ OutHit
  \/ OutStepped \/ StepLost \/ Begin \/ InEnd \/ InReturn \/ InCall \/ InStray
  \/ InStepped \/ InForward \/ InExited \/ InSignaled
  \/ Sampled \/ EndSample \/ Checked \/ Flushed \/ NextInvocation
  \/ FullForward \/ FullEnded \/ FullSample \/ PrintRows \/ Close

ProgramNext == Instruction \/ Illegal \/ \E code \in Exited : Exit(code)

Next ==
  \/ ToolNext \/ ProgramNext \/ Handler
  \/ \E k \in Signals \ {"alarm"} : Signal(k)
  \/ Terminated

Spec == Init /\ [][Next]_vars
-----------------------------------------------------------------------------
(* Properties.                                                             *)

TypeOK ==
  /\ form \in Forms
  /\ loc \in Waits \cup Ended \cup {"setup", "based", "begin", "sampled", "ending", "checked",
                                    "flushing", "next", "fullEnding", "final", "printed"}
  /\ child \in {"run", "step", "stopped"} \cup Dead
  /\ stop \in {"none", "ill", "trap", "sig", "term", "fork"}
  /\ pc \in Marks \cup {"other", "stray", "exit"}
  /\ frames \in Seq(Nat) /\ outermost \in Seq(Nat) /\ calls \in Nat
  /\ planted \subseteq Marks /\ hit \in Marks
  /\ level \in Int /\ sampleInProgress \in BOOLEAN
  /\ sampleCount \in Nat /\ flushedSampleCount \in Nat
  /\ samples \in [0 .. MAX_SAMPLES - 1 -> Sample] /\ rows \in Seq(Sample)
  /\ doomed \in BOOLEAN /\ swallowed \in BOOLEAN /\ reprinted \in BOOLEAN
  /\ budget \in 0 .. Budget

\* Every invocation of the function is measured, once, alone and in order: when
\* the program runs outside of it, what has been printed and what is buffered
\* are the invocations so far, each read at its end.  Recursive calls belong to
\* the invocation that made them.  (Holds as long as no signal arrives while the
\* tool steps over a breakpoint: Lost.)
MeasuredOnce ==
  /\ form.level = 0 /\ ~form.full /\ ~swallowed
  /\ child = "run" /\ loc \in {"outWait", "fwdWait"} /\ frames = <<>>
  => rows \o Buffered(samples, Slot) =
       [i \in 1 .. Len(outermost) |-> [invocation |-> outermost[i], depth |-> 1, whole |-> TRUE]]

\* Wherever a timeout interrupts the tool, a successful run has a row for every
\* sample it counted and no other, unless it was printing at that moment (the
\* rows are then printed again); a row is an unfinished invocation only when the
\* program exited in the middle of the last one.
RowsComplete ==
  loc = "done" /\ form.level = 0 =>
    /\ Len(rows) >= sampleCount
    /\ ~reprinted => Len(rows) = sampleCount
    /\ ~form.full /\ ~reprinted /\ ~swallowed =>
         \A i \in 1 .. Len(rows) : rows[i].whole \/ (i = Len(rows) /\ child \in Exited)

\* Whichever way the tool ends, no program is left running with breakpoints in
\* its text: it is dead, has been sent the signal that ends it, or has none.
\* Up to the top level no sample is written outside the buffer.
NoTrapLeft ==
  /\ loc \in {"done", "failed"} => child \in Dead \/ doomed \/ planted = {}
  /\ form.level = 0 => loc # "crashed"
-----------------------------------------------------------------------------
(* The inductive invariant behind the properties.                          *)

Counters ==
  /\ form \in Forms /\ level \in Int
  /\ sampleCount \in Nat /\ flushedSampleCount \in Nat

Types ==
  /\ frames \in Seq(Nat) /\ outermost \in Seq(Nat) /\ calls \in Nat
  /\ planted \subseteq Marks /\ hit \in Marks
  /\ samples \in [0 .. MAX_SAMPLES - 1 -> Sample]

\* The tool ends at the maximum or with the program, and plants no breakpoint
\* to measure a whole execution.
Leaving ==
  /\ loc \in {"final", "printed", "done", "failed"} => child \in Dead \/ doomed \/ planted = {}
  /\ form.full \/ loc \in {"setup", "based"} => planted = {}
  /\ loc \in {"setup", "based"} => sampleCount = 0
  /\ loc \in {"fullWait", "fullEnding"} => form.full
  /\ loc \in {"outWait", "checked", "flushing", "next"} => ~form.full /\ sampleCount <= form.max
  /\ loc \in {"fwdWait", "stepOut", "begin", "inWait", "stepIn", "sampled", "ending"} =>
       ~form.full /\ sampleCount < form.max

\* At the top level every iteration adds a sample, so that the buffer is
\* flushed when it is full and never twice for the same count.
Room ==
  form.level = 0 =>
    /\ flushedSampleCount % MAX_SAMPLES = 0
    /\ loc \notin Ended => /\ flushedSampleCount <= sampleCount /\ level >= 0
                          /\ sampleCount <= flushedSampleCount + MAX_SAMPLES
    /\ loc \in {"begin", "inWait", "stepIn", "sampled"} => sampleInProgress
    /\ loc = "checked" => flushedSampleCount < sampleCount
    /\ loc = "flushing" => sampleCount = flushedSampleCount + MAX_SAMPLES
    /\ loc \notin Ended \cup {"checked", "flushing", "final", "printed"} =>
         sampleCount < flushedSampleCount + MAX_SAMPLES
    /\ loc # "crashed"

\* What has been printed is what has been flushed, or what has been counted.
Printing ==
  form.level = 0 =>
    /\ rows \in Seq(Sample)
    /\ loc \notin Ended \cup {"flushing", "printed"} => Len(rows) = flushedSampleCount
    /\ loc \in {"flushing", "printed"} => Len(rows) = sampleCount
    /\ loc = "done" => Len(rows) >= sampleCount /\ (~reprinted => Len(rows) = sampleCount)

\* A run of which every invocation is measured.
Accurate == form.level = 0 /\ ~form.full /\ ~swallowed

\* Where the program is, seen from the tool.  Between two samples it is outside
\* of the function, or at the end of the invocation that was measured last; the
\* one being measured is the outermost of the level + 1 it is in.
Begun(n) == Len(outermost) = n
Leaves == Len(frames) = 1 /\ pc \in Ends
Inside(n) == Len(frames) = n /\ n >= 1 /\ Begun(sampleCount + 1) /\ frames[1] = outermost[sampleCount + 1]

Outdoors ==
  /\ planted = Starts /\ child # "step" /\ Begun(sampleCount)
  /\ Leaves \/ (frames = <<>> /\ pc \notin Ends)
  /\ child = "stopped" /\ stop = "ill" => pc \in Starts \cup {"stray"}
Crossing ==
  /\ planted = {} /\ child # "run"
  /\ child = "step" => Begun(sampleCount) /\ frames = <<>> /\ pc \in Starts \cup {"stray"}
  /\ child = "stopped" /\ stop = "trap" => Inside(1) /\ pc # "other"
Indoors ==
  planted = Marks /\ child # "step" /\ Inside(level + 1) /\ pc # "other"
Stepping ==
  /\ planted = Marks \ {hit} /\ child # "run" /\ pc # "other"
  /\ child = "step" => pc = hit /\ Inside(level + (IF hit \in Ends THEN 2 ELSE 1))
  /\ child = "stopped" /\ stop = "trap" => Inside(level + (IF hit \in Ends THEN 1 ELSE 2))
Sampling ==
  /\ planted = Marks /\ child \in {"stopped"} \cup Exited /\ Inside(Len(frames))
  /\ child = "stopped" => Leaves
Halted ==
  /\ planted = Marks /\ child \in {"stopped"} \cup Exited /\ Begun(sampleCount)
  /\ child = "stopped" => Leaves

Position ==
  /\ loc \in {"setup", "based"} => child = "stopped" /\ pc = "other" /\ frames = <<>> /\ Begun(0)
  /\ loc \in {"outWait", "fwdWait"} => Outdoors
  /\ loc = "stepOut" => Crossing
  /\ loc = "begin" => Indoors /\ child = "stopped" /\ level = 0
  /\ loc = "inWait" => Indoors
  /\ loc = "stepIn" => Stepping
  /\ loc \in {"sampled", "ending"} => Sampling
  /\ loc \in {"checked", "flushing", "next"} => Halted
  /\ loc \in {"flushing", "next"} => child = "stopped"

\* The samples are those of the invocations, in order; the one that the program
\* left by exiting is the last one and not whole.
Reading(i, whole) == [invocation |-> outermost[i], depth |-> 1, whole |-> whole]
Cut(i) == i = sampleCount /\ child \in Exited /\ loc \in {"checked", "final"}

Recorded ==
  loc \notin Ended \cup {"printed"} =>
    /\ sampleCount <= Len(outermost)
    /\ \A i \in 1 .. Len(rows) : rows[i] = Reading(i, TRUE)
    /\ \A i \in 1 .. sampleCount : i > flushedSampleCount =>
         samples[i - 1 - flushedSampleCount] = Reading(i, TRUE) \/ Cut(i)
Current ==
  loc \in {"inWait", "stepIn", "sampled", "ending"} =>
    sampleCount < Len(outermost) /\ samples[Slot] = Reading(sampleCount + 1, FALSE)
Complete ==
  loc = "printed" \/ (loc = "done" /\ ~reprinted) =>
    \A i \in 1 .. Len(rows) : rows[i].whole \/ (i = Len(rows) /\ child \in Exited)
Measuring == Recorded /\ Current /\ Complete

IInv == Counters /\ Types /\ Leaving /\ Room /\ Printing /\ (Accurate => Position /\ Measuring)
=============================================================================
