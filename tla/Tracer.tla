------------------------------- MODULE Tracer -------------------------------
(***************************************************************************)
(* `chop trace`: the tracer's state machine (core/tracer/), the traced     *)
(* child it drives through ptrace (core/process.cpp) and the two entry     *)
(* points of the support library preloaded in the child (trace/system.cpp).*)
(*                                                                         *)
(* The tracer is sequential and blocks in waitpid: `loc' is the call it is *)
(* in, `child' what the child process is doing and `stop' the signal that  *)
(* stopped it.  The program in the child is arbitrary: whenever it runs it *)
(* executes the instruction at `pc' (a marked address or any other one),   *)
(* makes a system call, touches a protected page, gets a signal or ends.   *)
(* Memory contents and the pages themselves are the subject of PageTrace,  *)
(* the bytes of the breakpoints of Breakpoints: here a breakpoint is       *)
(* planted or is not.                                                      *)
(***************************************************************************)
EXTENDS Integers, Sequences, FiniteSets

CONSTANTS
  Forms,  \* the command lines and programs considered, a set of records
  Budget  \* bound: events of the program and of the environment

VARIABLE form  \* the one of this execution; no step changes it

Mode           == form.mode      \* "ranged" (-begin -end), "timed" (-interval
                                 \* -active) or "rangedTimed" (-begin -active)
Kind           == form.kind      \* "all", "randomized" (-prob) or "indexed" (-indices)
Starts         == form.starts    \* the addresses given with -begin
Ends           == form.ends      \* and with -end
Others         == form.others    \* addresses of the program that carry no mark
Stray          == form.stray     \* those of Others that hold an illegal instruction
Indices        == form.indices   \* the sorted list given with -indices
MaxTraces      == form.maxTraces \* -max-traces, 0 when there is no limit
TracingEnabled == form.enabled   \* FALSE under -no-trace
Signals        == form.signals   \* signals the environment sends
\* The registers the tracer reads at a system call, by who makes the call, and
\* what it compares them with.
Callers        == form.layout.callers  \* link registers of calls of the program,
Own            == form.layout.own      \* of calls of the library's fault handler
Returns        == form.layout.returns  \* and at the end of a signal handler
Support        == form.layout.support  \* the first mapping of libcxtrace.so, in which
                                       \* chopstix_start_trace is looked up
Vdso           == form.layout.vdso     \* begin of the mapping [vdso]
Sysz           == form.layout.sysz     \* CHOPSTIX_SYSZ_SUPPORT

SignalKinds == {"sig", "term", "kill"}
Marks == Starts \cup Ends
Address == Marks \cup Others

ASSUME FormsAssumption ==
  \A f \in Forms :
    /\ f.mode \in {"ranged", "timed", "rangedTimed"}
    /\ f.kind \in {"all", "randomized", "indexed"}
    /\ f.others # {} /\ f.others \cap (f.starts \cup f.ends) = {} /\ f.stray \subseteq f.others
    /\ f.indices \in Seq(Nat) /\ f.maxTraces \in Nat
    /\ f.enabled \in BOOLEAN /\ f.signals \subseteq SignalKinds
    /\ f.layout \in [callers : SUBSET Nat, own : SUBSET Nat, returns : SUBSET Nat,
                     support : SUBSET Nat, vdso : Nat, sysz : BOOLEAN]
ASSUME BudgetAssumption == Budget \in Nat

VARIABLES
  state,      \* current_state: "prolog", "roi" or "epilog"
  loc,        \* where the tracer is
  running,    \* Tracer::running
  traceId,    \* Tracer::trace_id
  index,      \* IndexedTracer::current_index
  execution,  \* IndexedTracer::current_execution
  planted,    \* addresses that hold a breakpoint in the child's memory
  child,      \* what the child process does
  stop,       \* why the child is stopped, "none" when it is not
  pc,         \* address of the instruction the program executes next
  handling,   \* the library's SIGSEGV handler: not running, running, or
              \* interrupted by a signal handler of the program
  tracing,    \* System::tracing
  libId,      \* System::trace_id
  call,       \* link register and number of the system call the child is stopped in
  due,        \* history: one trace per execution entered, and one more per system
              \* call of the program in it
  captured,   \* ids n for which the tracer wrote regs.n, maps.n, info.n
  traced,     \* execution numbers for which should_trace() said yes
  budget      \* events left to the program and the environment

tracerVars == <<state, running, traceId, index, execution, traced>>
libVars    == <<tracing, libId, call, due>>
vars == <<state, loc, running, traceId, index, execution, planted, child, stop,
          pc, handling, libVars, captured, traced, budget, form>>

Waits  == {"prologWait", "skipWait", "strayWait", "attachWait"}
Calls  == {"startEnter", "startSplit", "stopSplit", "stopEpilog"}
Ended  == {"done", "failed"}
\* "cont" and "sys": resumed with PTRACE_CONT and PTRACE_SYSCALL; "free":
\* detached; "lib": running a routine the tracer called with dyn_call.
Runs   == {"cont", "sys", "free"}
Exited == {"exit0", "exit1"}
Dead   == Exited \cup {"termed", "slain"}

PrologMarksFirst ==  \* mutant: one address of several
  IF Mode = "timed" THEN {} ELSE {CHOOSE a \in Starts : TRUE}
PrologMarks == IF Mode = "timed" THEN {} ELSE Starts
RoiMarksNever == {}  \* mutant: end breakpoints are set in skipped executions only
RoiMarks    == IF Mode = "ranged" THEN Ends ELSE {}

LimitAfter(id) == MaxTraces > 0 /\ id > MaxTraces  \* mutant: off by one
LimitAt(id) == MaxTraces > 0 /\ id >= MaxTraces

\* The cycle of states that run_trace wires with set_next_state.
NextStateNoEpilog == [prolog |-> "roi", roi |-> "prolog", epilog |-> "prolog"] \* mutant
NextState == [prolog |-> "roi", roi |-> "epilog", epilog |-> "prolog"]

\* Tracer::start: init() has stopped the child in its main module and
\* set_state(prolog) has run the prolog's on_state_start.
Init ==
  /\ form \in Forms
  /\ state = "prolog" /\ loc = "loop" /\ running = TRUE
  /\ traceId = 0 /\ index = 0 /\ execution = 0 /\ traced = {} /\ captured = {}
  /\ planted = PrologMarks
  /\ child = "stopped" /\ stop = "none"
  /\ pc \in Address
  /\ handling = "no" /\ tracing = FALSE /\ libId = 0
  /\ call = [lnk |-> 0, nr |-> "other"] /\ due = 0
  /\ budget = Budget

\* Leaving a state removes its breakpoints, entering one sets its own.
MarksKept(off, on) == planted' = planted \cup on      \* mutant: nothing removed
SwapMarks(off, on) == planted' = (planted \ off) \cup on

\* One event of the program or of the environment.
Spend == budget > 0 /\ budget' = budget - 1 /\ UNCHANGED form
Resume(how) == child' = how /\ stop' = "none"
Fail == loc' = "failed" /\ UNCHANGED <<tracerVars, planted, captured>>
-----------------------------------------------------------------------------
(* Entering and leaving the region of interest.                            *)

\* start_trace: refused at the limit, else the registers are captured and
\* chopstix_start_trace is called in the child (with -no-trace, nothing).
Call(where) ==
  /\ loc' = where
  /\ IF TracingEnabled THEN Resume("lib") ELSE UNCHANGED <<child, stop>>

CaptureNext(id) == captured' = captured \cup {id + 1}      \* mutant: off by one
CaptureAt(id) == captured' = IF TracingEnabled THEN captured \cup {id} ELSE captured

\* What is left of RangedProlog::execute once change_state() returns.
Entered ==
  /\ state' = NextState["prolog"] /\ loc' = "loop"
  /\ IF Mode = "ranged" THEN Resume("sys") ELSE UNCHANGED <<child, stop>>

\* change_state() to the region of interest, up to the call into the child.
EnterRoi ==
  /\ SwapMarks(PrologMarks, RoiMarks)
  /\ IF LimitAt(traceId)
       THEN running' = FALSE /\ Entered /\ UNCHANGED <<captured, due>>
       ELSE /\ Call("startEnter") /\ CaptureAt(traceId) /\ due' = due + 1
            /\ UNCHANGED <<running, state>>
  /\ UNCHANGED traceId

\* stop_trace increments trace_id first and then calls into the child.
StopTrace(where) ==
  /\ traceId' = traceId + 1
  /\ Call(where)
-----------------------------------------------------------------------------
(* should_trace() of the three tracers.                                    *)

Exhausted == Kind = "indexed" /\ index >= Len(Indices)
MatchesFromOne == Indices[index + 1] = execution + 1  \* mutant: counts from one
Matches == Indices[index + 1] = execution

ShouldTrace(yes) ==
  /\ CASE Kind = "all"        -> yes = ~LimitAt(traceId)
       [] Kind = "randomized" -> TRUE
       [] Kind = "indexed"    -> yes = (~Exhausted /\ Matches)
  /\ execution' = IF Kind = "indexed" THEN execution + 1 ELSE execution
  /\ index' = IF Kind = "indexed" /\ yes THEN index + 1 ELSE index
  /\ traced' = IF Kind = "indexed" /\ yes THEN traced \cup {execution} ELSE traced

\* The answer "no" of an exhausted IndexedTracer also clears running.
NotTraced == ShouldTrace(FALSE) /\ running' = (running /\ ~Exhausted)
-----------------------------------------------------------------------------
(* Prolog.                                                                 *)

InState(s) == loc = "loop" /\ running /\ state = s

PrologResume ==
  /\ InState("prolog") /\ Mode # "timed"
  /\ child = "stopped"
  /\ Resume("cont") /\ loc' = "prologWait"
  /\ UNCHANGED <<tracerVars, planted, pc, handling, libVars, captured, budget, form>>

\* What runs in the child once the tracer has passed signal `sig' on.
Handler(sig) ==
  CASE sig = "segv"                        -> "handler"
    [] sig = "sig" /\ handling = "handler" -> "interrupted"
    [] OTHER                               -> handling

\* Process::waitfor passes on every signal but the one it waits for.
Awaited == IF loc = "attachWait" THEN "stop" ELSE "ill"

WaitforForward ==
  /\ loc \in Waits
  /\ child = "stopped" /\ stop # Awaited
  /\ Resume(CASE stop = "term" -> "termed" [] stop = "ill" -> "slain" [] OTHER -> "cont")
  /\ handling' = Handler(stop)
  /\ UNCHANGED <<tracerVars, loc, planted, pc, libVars, captured, budget, form>>

AtStart == loc = "prologWait" /\ child = "stopped" /\ stop = "ill"

PrologEnter ==
  /\ AtStart
  /\ Mode = "ranged" => pc \in Starts
  /\ ShouldTrace(TRUE)
  /\ EnterRoi
  /\ UNCHANGED <<pc, handling, tracing, libId, call, budget, form>>

\* Ranged: the end breakpoints replace the start ones for this execution.
PrologSkip ==
  /\ AtStart
  /\ Mode = "ranged" /\ pc \in Starts
  /\ NotTraced
  /\ SwapMarks(Starts, Ends)
  /\ Resume("cont") /\ loc' = "skipWait"
  /\ UNCHANGED <<state, traceId, pc, handling, libVars, captured, budget, form>>

PrologSkipped ==
  /\ loc = "skipWait" /\ child = "stopped" /\ stop = "ill"
  /\ SwapMarks(Ends, Starts)
  /\ loc' = "loop"
  /\ UNCHANGED <<tracerVars, child, stop, pc, handling, libVars, captured, budget, form>>

\* RangedTimed: step over the breakpoint (bound: the ten single steps bring
\* the program to any address, or to its exit), then wait for the next hit.
PrologStepOver ==
  /\ AtStart
  /\ Mode = "rangedTimed"
  /\ NotTraced
  /\ Spend
  /\ pc' \in Address
  /\ Resume("cont") /\ loc' = "strayWait"
  /\ UNCHANGED <<state, traceId, planted, handling, libVars, captured>>

PrologStepExit ==
  /\ AtStart
  /\ Mode = "rangedTimed"
  /\ ShouldTrace(FALSE)
  /\ Resume("exit0") /\ loc' = "failed"
  /\ UNCHANGED <<state, running, traceId, planted, pc, handling, libVars, captured, budget, form>>

\* An illegal instruction that is no start mark: fix_breakpoint and go on.
PrologStray ==
  /\ AtStart
  /\ Mode = "ranged" /\ pc \notin Starts
  /\ Resume("cont") /\ loc' = "strayWait"
  /\ UNCHANGED <<tracerVars, planted, pc, handling, libVars, captured, budget, form>>

PrologHitAgain ==
  /\ loc = "strayWait" /\ child = "stopped" /\ stop = "ill"
  /\ loc' = "loop"
  /\ UNCHANGED <<tracerVars, planted, child, stop, pc, handling, libVars, captured, budget, form>>

\* check_finished: a child that exited with 0 ends the loop, any other end of
\* the child raises an exception.
FinishedUnseen == UNCHANGED <<loc, tracerVars, planted, captured>>  \* mutant
Finished ==
  IF child = "exit0"
    THEN /\ running' = FALSE /\ loc' = "loop"
         /\ UNCHANGED <<state, traceId, index, execution, traced, planted, captured>>
    ELSE Fail

PrologFinished ==
  /\ loc = "prologWait" /\ child \in Dead
  /\ Finished
  /\ UNCHANGED <<child, stop, pc, handling, libVars, budget, form>>

\* The other two waits do not look whether the child ended: the breakpoint
\* pokes, or the next PTRACE_CONT, fail and the tracer exits.
PrologLost ==
  /\ loc \in {"skipWait", "strayWait"} /\ child \in Dead
  /\ Fail
  /\ UNCHANGED <<child, stop, pc, handling, libVars, budget, form>>
-----------------------------------------------------------------------------
(* Process::timeout, used by the timed prolog and the timed region.        *)

TimedSleep ==
  /\ \/ InState("prolog") /\ Mode = "timed"
     \/ InState("roi") /\ Mode # "ranged"
  /\ child = "stopped"
  /\ Resume("free") /\ loc' = "sleep"
  /\ UNCHANGED <<tracerVars, planted, pc, handling, libVars, captured, budget, form>>

\* The child is still there: attach and wait for SIGSTOP.
TimedWake ==
  /\ loc = "sleep" /\ child = "free"
  /\ Spend
  /\ Resume("cont") /\ loc' = "attachWait"
  /\ UNCHANGED <<tracerVars, planted, pc, handling, libVars, captured>>

TimedProlog(yes) ==
  /\ loc = "attachWait" /\ child = "stopped" /\ stop = "stop" /\ state = "prolog"
  /\ IF yes
       THEN ShouldTrace(TRUE) /\ EnterRoi
       ELSE NotTraced /\ loc' = "loop"
            /\ UNCHANGED <<state, traceId, planted, child, stop, captured, due>>
  /\ UNCHANGED <<pc, handling, tracing, libId, call, budget, form>>

TimedRoiEnd ==
  /\ loc = "attachWait" /\ child = "stopped" /\ stop = "stop" /\ state = "roi"
  /\ state' = NextState["roi"] /\ loc' = "loop"
  /\ UNCHANGED <<running, traceId, index, execution, traced, planted, child, stop, pc,
                 handling, libVars, captured, budget, form>>

\* The child ended meanwhile. The prolog checks for it; the region changes
\* state whatever happened, and reading the pc of no process fails.
TimedFinished ==
  /\ loc \in {"sleep", "attachWait"} /\ child \in Dead
  /\ IF state = "prolog" THEN Finished ELSE Fail
  /\ UNCHANGED <<child, stop, pc, handling, libVars, budget, form>>
\* The child ended between touch() and attach(), or a signal ended it and
\* touch() did not abandon it: attach() fails.
TimedRace ==
  /\ loc = "sleep" /\ child \in Dead
  /\ Fail
  /\ UNCHANGED <<child, stop, pc, handling, libVars, budget, form>>
-----------------------------------------------------------------------------
(* Region of interest (ranged): PTRACE_SYSCALL and one handler per signal. *)

RoiStopped(why) == InState("roi") /\ Mode = "ranged" /\ child = "stopped" /\ stop = why

RoiEnd ==
  /\ RoiStopped("ill") /\ pc \in Ends
  /\ SwapMarks(Ends, {})
  /\ state' = NextState["roi"]
  /\ UNCHANGED <<loc, running, traceId, index, execution, traced, child, stop, pc,
                 handling, libVars, captured, budget, form>>

\* The trace is split at a system call unless the registers look like a call
\* of the support library, of the vdso (the end of a signal handler) or, where
\* the number tells, of a signal handler that ends.
InSupport == call.lnk \in Support
InVdso    == call.lnk >= Vdso
SigReturn == Sysz /\ call.nr = "sigreturn"
SplitsInSupport == ~InVdso /\ ~SigReturn  \* mutant: in_support is not looked at
SplitsInVdso == ~InSupport /\ ~SigReturn  \* mutant: in_vdso is not looked at
Splits == ~InSupport /\ ~InVdso /\ ~SigReturn

\* Page faults are for the library's handler; a breakpoint-like stop at
\* another address is "fixed"; every other signal is passed on.
RoiForward ==
  /\ \/ \E why \in {"segv", "sig", "term"} : RoiStopped(why)
     \/ RoiStopped("sys") /\ ~Splits
     \/ RoiStopped("ill") /\ pc \notin Ends
  /\ Resume(IF stop = "term" THEN "termed" ELSE "sys")
  /\ handling' = Handler(stop)
  /\ UNCHANGED <<tracerVars, loc, planted, pc, libVars, captured, budget, form>>

\* System call entry: the call is let through (PTRACE_SYSCALL and wait) ...
RoiSyscall ==
  /\ RoiStopped("sys") /\ Splits
  /\ stop' = "none" /\ loc' = "serviced"
  /\ UNCHANGED <<tracerVars, planted, child, pc, handling, libVars, captured, budget, form>>

\* ... and only then the trace is split: stop_trace, start_trace(false).
RoiSplit ==
  /\ loc = "serviced"
  /\ StopTrace("stopSplit")
  /\ UNCHANGED <<state, running, index, execution, traced, planted, pc, handling,
                 libVars, captured, budget, form>>

RoiExit(code) ==
  /\ RoiStopped(IF code = "exit0" THEN "sysExit0" ELSE "sysExit1")
  /\ Resume(code)
  /\ running' = FALSE
  /\ UNCHANGED <<state, loc, traceId, index, execution, traced, planted, pc, handling,
                 libVars, captured, budget, form>>

RoiLost ==
  /\ InState("roi") /\ Mode = "ranged" /\ child \in Dead
  /\ Fail
  /\ UNCHANGED <<child, stop, pc, handling, libVars, budget, form>>
-----------------------------------------------------------------------------
(* Epilog and the returns of the calls made in the child.                  *)

Epilog ==
  /\ InState("epilog")
  /\ StopTrace("stopEpilog")
  /\ UNCHANGED <<state, running, index, execution, traced, planted, pc, handling,
                 libVars, captured, budget, form>>

\* stop_trace clears running at the limit; the epilog then goes to the prolog.
StoppedEpilog ==
  /\ loc = "stopEpilog" /\ child = "stopped"
  /\ running' = (running /\ ~LimitAt(traceId))
  /\ state' = NextState["epilog"] /\ loc' = "loop"
  /\ SwapMarks({}, PrologMarks)
  /\ UNCHANGED <<traceId, index, execution, traced, child, stop, pc, handling, libVars,
                 captured, budget, form>>

StoppedSplit ==
  /\ loc = "stopSplit" /\ child = "stopped"
  /\ IF LimitAt(traceId)
       THEN running' = FALSE /\ loc' = "loop" /\ Resume("sys") /\ UNCHANGED captured
       ELSE Call("startSplit") /\ CaptureAt(traceId) /\ UNCHANGED running
  /\ UNCHANGED <<state, traceId, index, execution, traced, planted, pc, handling,
                 libVars, budget, form>>

StartedEnter ==
  /\ loc = "startEnter" /\ child = "stopped"
  /\ Entered
  /\ UNCHANGED <<running, traceId, index, execution, traced, planted, pc, handling,
                 libVars, captured, budget, form>>

StartedSplit ==
  /\ loc = "startSplit" /\ child = "stopped"
  /\ Resume("sys") /\ loc' = "loop"
  /\ UNCHANGED <<tracerVars, planted, pc, handling, libVars, captured, budget, form>>

\* dyn_call takes any signal but SIGSEGV and SIGILL for a failure: it ends the
\* child with SIGTERM and exits. A child that died is a failure too.
CallBroken ==
  /\ loc \in Calls
  /\ \/ child = "lib" /\ Signals \cap {"sig", "term"} # {}
        /\ child' = "termed" /\ Spend
     \/ child \in Dead /\ UNCHANGED <<child, budget, form>>
  /\ stop' = "none"
  /\ Fail
  /\ UNCHANGED <<pc, handling, libVars>>

\* The end of Tracer::start.
LeaveChild == UNCHANGED <<child, stop>>  \* mutant: the child is only detached
KillChild == Resume(IF child \in Dead THEN child ELSE "slain")

Finish ==
  /\ loc = "loop" /\ ~running
  /\ loc' = "done"
  /\ KillChild
  /\ UNCHANGED <<tracerVars, planted, pc, handling, libVars, captured, budget, form>>
-----------------------------------------------------------------------------
(* The child: support library, program and environment.                    *)

\* chopstix_start_trace and chopstix_stop_trace: each checks the flag, and
\* exits the process when it is wrong; the `.long 0' after them is a SIGILL.
LibStart ==
  /\ child = "lib" /\ loc \in {"startEnter", "startSplit"}
  /\ IF tracing
       THEN Resume("exit1") /\ UNCHANGED tracing
       ELSE child' = "stopped" /\ stop' = "ill" /\ tracing' = TRUE
  /\ UNCHANGED <<tracerVars, loc, planted, pc, handling, libId, call, due, captured, budget, form>>

LibStop ==
  /\ child = "lib" /\ loc \in {"stopSplit", "stopEpilog"}
  /\ IF tracing
       THEN /\ child' = "stopped" /\ stop' = "ill"
            /\ tracing' = FALSE /\ libId' = libId + 1
       ELSE Resume("exit1") /\ UNCHANGED <<tracing, libId>>
  /\ UNCHANGED <<tracerVars, loc, planted, pc, handling, call, due, captured, budget, form>>

\* The program is at an instruction it can execute.
Alive     == child \in Runs /\ loc \notin Ended
Executing == Alive /\ handling = "no" /\ pc \notin planted \cup Stray
Stops(why) == IF why = "none" THEN Resume(child) ELSE child' = "stopped" /\ stop' = why

\* A breakpoint, or an illegal instruction of the program itself.
AppIllegal ==
  /\ Alive /\ handling = "no" /\ pc \in planted \cup Stray
  /\ child' = IF child = "free" THEN "slain" ELSE "stopped"
  /\ stop' = IF child = "free" THEN "none" ELSE "ill"
  /\ UNCHANGED <<tracerVars, loc, planted, pc, handling, libVars, captured, budget, form>>

AppStep ==
  /\ Executing
  /\ Spend
  /\ pc' \in Address \ {pc}
  /\ UNCHANGED <<tracerVars, loc, planted, child, stop, handling, libVars, captured>>

\* Seen by the tracer only under PTRACE_SYSCALL. The program's own signal
\* handlers make system calls too.
AppSyscall ==
  /\ Executing \/ (Alive /\ handling = "interrupted")
  /\ child = "sys"
  /\ Spend
  /\ Stops("sys")
  /\ \E a \in Callers : call' = [lnk |-> a, nr |-> "other"]
  /\ due' = IF tracing THEN due + 1 ELSE due
  /\ UNCHANGED <<tracerVars, loc, planted, pc, handling, tracing, libId, captured>>

\* The first access to a protected page. Detached, the child handles it alone.
AppFault ==
  /\ Executing /\ tracing
  /\ Spend
  /\ IF child = "free"
       THEN handling' = "handler" /\ UNCHANGED <<child, stop>>
       ELSE Stops("segv") /\ UNCHANGED handling
  /\ UNCHANGED <<tracerVars, loc, planted, pc, libVars, captured>>

\* The handler saves the page with system calls of its own ...
HandlerSyscall ==
  /\ Alive /\ handling = "handler" /\ child = "sys"
  /\ Spend
  /\ Stops("sys")
  /\ \E a \in Own : call' = [lnk |-> a, nr |-> "other"]
  /\ UNCHANGED <<tracerVars, loc, planted, pc, handling, tracing, libId, due, captured>>

\* ... and every handler returns with sigreturn, through the vdso or not.
HandlerReturn ==
  /\ Alive /\ handling # "no"
  /\ IF child = "sys"
       THEN Stops("sys") /\ \E a \in Returns : call' = [lnk |-> a, nr |-> "sigreturn"]
       ELSE UNCHANGED <<child, stop, call>>
  /\ handling' = IF handling = "interrupted" THEN "handler" ELSE "no"
  /\ UNCHANGED <<tracerVars, loc, planted, pc, tracing, libId, due, captured, budget, form>>

AppExit(code) ==
  /\ Executing
  /\ IF child = "sys"
       THEN Stops(IF code = "exit0" THEN "sysExit0" ELSE "sysExit1")
       ELSE Resume(code)
  /\ UNCHANGED <<tracerVars, loc, planted, pc, handling, libVars, captured, budget, form>>

\* SIGSTOP requested by PTRACE_ATTACH.
AttachStop ==
  /\ loc = "attachWait" /\ child = "cont"
  /\ Stops("stop")
  /\ UNCHANGED <<tracerVars, loc, planted, pc, handling, libVars, captured, budget, form>>

\* A signal from outside: a traced child stops for it, a detached one takes it
\* (and "sig" is harmless); SIGKILL ends the child in any case.
Signal(k) ==
  /\ Alive \/ (child = "lib" /\ k = "kill")
  /\ Spend
  /\ IF k = "kill" \/ child = "free"
       THEN Resume(CASE k = "kill" -> "slain" [] k = "term" -> "termed" [] OTHER -> child)
       ELSE Stops(k)
  /\ UNCHANGED <<tracerVars, loc, planted, pc, handling, libVars, captured>>

Terminated == loc \in Ended /\ UNCHANGED vars
-----------------------------------------------------------------------------
TracerNext ==
  \/ PrologResume \/ WaitforForward \/ PrologEnter \/ PrologSkip \/ PrologSkipped
  \/ PrologStepOver \/ PrologStepExit \/ PrologStray \/ PrologHitAgain
  \/ PrologFinished \/ PrologLost
  \/ TimedSleep \/ TimedWake \/ TimedRoiEnd \/ TimedFinished \/ TimedRace
  \/ \E yes \in BOOLEAN : TimedProlog(yes)
  \/ RoiEnd \/ RoiForward \/ RoiSyscall \/ RoiSplit \/ RoiLost
  \/ \E code \in Exited : RoiExit(code)
  \/ Epilog \/ StoppedEpilog \/ StoppedSplit \/ StartedEnter \/ StartedSplit
  \/ CallBroken \/ Finish

ChildNext ==
  \/ LibStart \/ LibStop
  \/ AppIllegal \/ AppStep \/ AppSyscall \/ AppFault
  \/ HandlerSyscall \/ HandlerReturn \/ AttachStop
  \/ \E code \in Exited : AppExit(code)

Next ==
  \/ TracerNext
  \/ ChildNext
  \/ \E k \in Signals : Signal(k)
  \/ Terminated

Spec == Init /\ [][Next]_vars

\* ptrace stops are delivered and the tracer never sleeps on a stopped child;
\* a program that has used up its events ends.
FairSpec == Spec /\ WF_vars(TracerNext) /\ WF_vars(ChildNext)
-----------------------------------------------------------------------------
(* Properties.                                                             *)

TypeOK ==
  /\ state \in {"prolog", "roi", "epilog"}
  /\ loc \in {"loop", "sleep", "serviced"} \cup Waits \cup Calls \cup Ended
  /\ running \in BOOLEAN
  /\ traceId \in Nat /\ index \in Nat /\ execution \in Nat /\ libId \in Nat
  /\ planted \subseteq Marks
  /\ child \in Runs \cup Dead \cup {"stopped", "lib"}
  /\ stop \in {"none", "ill", "segv", "sig", "term", "stop",
               "sys", "sysExit0", "sysExit1"}
  /\ call \in [lnk : Nat, nr : {"other", "sigreturn"}] /\ due \in Nat
  /\ pc \in Address
  /\ handling \in {"no", "handler", "interrupted"}
  /\ tracing \in BOOLEAN
  /\ captured \subseteq Nat /\ traced \subseteq Nat
  /\ budget \in 0 .. Budget
  /\ form \in Forms

\* The library never meets a start while it traces, nor a stop while it does
\* not: its two checks (system.cpp, "Tracing already started/stopped"), each of
\* which would end the program, never fire.
CallsAlternate ==
  child = "lib" => (tracing <=> loc \in {"stopSplit", "stopEpilog"})

\* Tracer and library number the traces on their own. While the library traces
\* (and writes page.<libId>.<address> files), the newest register and map dump
\* of the tracer is the one of the same trace, and no number was left out.
DumpsAgree ==
  tracing => captured = 0 .. libId

\* Whenever the program runs, the breakpoints in its memory are those the
\* tracer waits for: the starts in the prolog, the ends in a region and in a
\* skipped execution, none when it runs detached.
BreakpointsInForce ==
  /\ child = "free" => planted = {}
  /\ child = "cont" /\ loc \in {"prologWait", "strayWait"} => planted = PrologMarks
  /\ child = "cont" /\ loc = "skipWait" => planted = Ends
  /\ child = "sys" => planted = RoiMarks

\* -max-traces bounds the traces extracted, whatever splits them.
LimitKept ==
  MaxTraces > 0 => /\ traceId <= MaxTraces
                   /\ \A id \in captured : id < MaxTraces

\* Every run of the tracer ends with the child dead: no traced program is left
\* behind with breakpoints in its text and protected pages.
NoOrphan ==
  loc \in Ended => child \in Dead

\* -indices: the executions traced so far are exactly those of the list.
IndexedExact ==
  Kind = "indexed" =>
    traced = {n \in 0 .. execution - 1 : \E i \in 1 .. Len(Indices) : Indices[i] = n}

\* Where the processes' layout lets the registers tell the calls apart: those
\* of the fault handler lie in the first mapping of the library or above the
\* begin of the vdso, those of the program do neither ...
HandlerKnown == \A a \in Own : a \in Support \/ a >= Vdso
LayoutKnown ==
  /\ HandlerKnown
  /\ Sysz \/ \A a \in Returns : a \in Support \/ a >= Vdso
  /\ \A a \in Callers : a \notin Support /\ a < Vdso

Unlimited == Mode = "ranged" /\ MaxTraces = 0 /\ TracingEnabled

\* ... a trace is never split inside the library's own fault handler, whose
\* system calls stop the child as well (unless a signal handler of the program
\* interrupts it) ...
SplitsOutsideHandler ==
  HandlerKnown /\ "sig" \notin Signals /\ loc \in {"serviced", "stopSplit", "startSplit"}
    => handling = "no"

\* ... and the traces are those of the executions entered, each split once by
\* every system call the program makes in it and by no other, in whatever order
\* calls, faults and signals come (docs/tracing.md: "tracing a function invocation
\* with a system call will generate two traces").
TracesAsPromised ==
  Unlimited /\ LayoutKnown /\ loc = "loop" /\ stop # "sys"
    => due = IF tracing THEN traceId + 1 ELSE traceId

\* A program that exits with status 0 is not reported as an error, if it does
\* so in a state in which the tracer looks for it: tracing all executions.
CleanExit ==
  Mode = "ranged" /\ Kind = "all" /\ Stray = {} /\ loc = "failed" => child # "exit0"

\* All executions are traced: the instruction at a start address is executed
\* only inside a trace (or after the tracer has decided to stop).
EveryInvocationTraced ==
  [][Mode = "ranged" /\ Kind = "all" /\ TracingEnabled /\ pc' # pc /\ pc \in Starts /\ running
       => tracing]_vars

\* The instruction at an end address is never executed inside a trace.
EndClosesTrace ==
  [][Mode = "ranged" /\ pc' # pc /\ pc \in Ends => ~tracing]_vars

\* The tracer follows a program that ends to its end (one without illegal
\* instructions of its own, which the tracer would resume for ever).
Terminates == Stray = {} => <>(loc \in Ended)

\* The trace directory (TraceLog): the traces begun are those with a register
\* dump, the traces ended those the library has closed.
TraceDirectory == INSTANCE TraceLog WITH begun <- captured, ended <- libId, limit <- MaxTraces
TraceDirectorySpec == TraceDirectory!Spec
-----------------------------------------------------------------------------
(* The inductive invariant behind the safety properties, in four parts.    *)

StartCalls == {"startEnter", "startSplit"}
StopCalls  == {"stopSplit", "stopEpilog"}

\* Which state, which way of running the child and which value of `running' go
\* with each place of the tracer.
Places ==
  /\ loc \in {"prologWait", "skipWait", "strayWait", "startEnter"} => state = "prolog"
  /\ loc \in {"serviced", "stopSplit", "startSplit"} => state = "roi" /\ Mode = "ranged"
  /\ loc \in {"sleep", "attachWait"} => /\ running
                                      /\ \/ state = "prolog" /\ Mode = "timed"
                                         \/ state = "roi" /\ Mode # "ranged"
  /\ loc = "stopEpilog" => state = "epilog"
  /\ loc \in {"skipWait"} => Mode = "ranged"
  /\ loc \in {"prologWait", "serviced"} \cup Calls => running
  /\ loc = "serviced" => child = "stopped"
  /\ loc \in Calls => child \in {"lib", "stopped"} \cup Dead
  /\ child = "lib" => loc \in Calls
  /\ child = "free" => loc = "sleep"
  /\ child = "cont" => loc \in Waits
  /\ child = "sys" => loc = "loop" /\ state = "roi" /\ Mode = "ranged"

\* The breakpoints of each state.
Planting ==
  loc \notin Ended =>
    /\ state = "prolog" /\ loc \notin {"skipWait", "startEnter"} => planted = PrologMarks
    /\ loc = "skipWait" => planted = Ends
    /\ loc = "startEnter" \/ state = "roi" => planted = RoiMarks
    /\ state = "epilog" => planted = {}

\* How far the library's state is behind the tracer's.
Lockstep ==
  /\ ~TracingEnabled => ~tracing /\ libId = 0 /\ captured = {} /\ child # "lib"
  /\ TracingEnabled =>
       /\ loc \in StartCalls => /\ libId = traceId /\ captured = 0 .. traceId
                                /\ tracing <=> child = "stopped"
       /\ loc \in StopCalls => /\ captured = 0 .. traceId - 1
                               /\ tracing <=> child # "stopped"
                               /\ libId = IF tracing THEN traceId - 1 ELSE traceId
       /\ loc \in Ended => /\ captured = 0 .. libId \/ captured = 0 .. libId - 1
                           /\ tracing => captured = 0 .. libId
       /\ loc \notin StartCalls \cup StopCalls \cup Ended =>
            /\ libId = traceId
            /\ \/ (state = "prolog" \/ ~running) /\ ~tracing /\ captured = 0 .. traceId - 1
               \/ state # "prolog" /\ tracing /\ captured = 0 .. traceId

BelowLimit ==
  MaxTraces > 0 => /\ traceId <= MaxTraces
                   /\ \A id \in captured : id < MaxTraces
                   /\ traceId = MaxTraces => ~running \/ loc \in StopCalls \cup Ended

IInv == TypeOK /\ Places /\ Planting /\ Lockstep /\ BelowLimit /\ NoOrphan

(* What three of the properties need besides.                              *)

\* The list is used up to `index', and no execution to come is before it.
Increasing(list) == \A i, j \in 1 .. Len(list) : i < j => list[i] < list[j]
ListUsed ==
  Kind = "indexed" =>
    /\ index <= Len(Indices)
    /\ traced = {Indices[i] : i \in 1 .. index}
    /\ \A i \in 1 .. Len(Indices) : i <= index <=> Indices[i] < execution

\* A system call that splits is made outside of the handler.
Splitting ==
  /\ child # "stopped" => stop = "none"
  /\ "sig" \notin Signals =>
       /\ handling # "interrupted" /\ stop # "sig"
       /\ HandlerKnown =>
            /\ stop = "sys" /\ handling # "no" => ~Splits
            /\ loc \in {"serviced", "stopSplit", "startSplit"} => handling = "no"

\* The traces due are those counted, the one begun and the one a pending system
\* call of the program will begin.
Count(flag) == IF flag THEN 1 ELSE 0
Promised ==
  Unlimited /\ LayoutKnown =>
    /\ stop = "sys" => loc = "loop" /\ state = "roi" /\ tracing
    /\ child = "sys" => tracing
    /\ loc = "loop" => due = traceId + Count(tracing) + Count(stop = "sys" /\ Splits)
    /\ loc \in {"prologWait", "skipWait", "strayWait", "stopEpilog"} => due = traceId
    /\ loc \in {"startEnter", "stopSplit", "startSplit"} => due = traceId + 1
    /\ loc = "serviced" => due = traceId + 2

\* Tracing all executions, no wait but the prolog's can see an exit with 0.
Leaving ==
  Mode = "ranged" /\ Kind = "all" /\ Stray = {} =>
    /\ loc \notin {"skipWait", "strayWait"}
    /\ child = "exit0" => loc \in {"prologWait", "done"} \/ (loc = "loop" /\ ~running)
    /\ loc = "prologWait" /\ child = "stopped" /\ stop = "ill" => pc \in Starts
=============================================================================
