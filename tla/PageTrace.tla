----------------------------- MODULE PageTrace -----------------------------
(***************************************************************************)
(* The pages of a trace: the support library in the traced process         *)
(* (trace/system.cpp, trace/memory.cpp).  chopstix_start_trace takes the   *)
(* access rights of almost all pages away, the handler of the faults that  *)
(* follow gives them back page by page and saves each page to a file, and  *)
(* chopstix_stop_trace gives back the rest.                                *)
(*                                                                         *)
(* The contents of a page matter in one respect only: whether they are     *)
(* those the trace began with.  An access of the program is a page, the    *)
(* instruction that makes it (`pc') and a kind; executing code is reading  *)
(* it.  Where the tracer stops and starts a trace is its own business      *)
(* (Tracer): at a mark or a system call of the program, but with -interval *)
(* and -active wherever SIGSTOP finds the program, which may be inside the *)
(* handler of a fault.  Everything here is about the newest trace.         *)
(***************************************************************************)
EXTENDS Naturals, FiniteSets

CONSTANTS
  Guarded,    \* pages of the regions that Memory::update selects
  Loose,      \* pages that are never protected but saved: reserved libc pages
              \* and the regions that are not selected (ld.so, [v...], rwx)
  Own,        \* pages of the library itself
  Writable,   \* pages that the program may write
  Code,       \* pages of regions with execute permission
  Pc,         \* instructions of the program
  Options,    \* the command lines and programs considered, a set of records
  Nothing,    \* no access
  Budget      \* bound: accesses and system calls of the program

VARIABLE options  \* those of this execution; no step changes them

MaxPages   == options.maxPages    \* -max-pages, 0 when there is no limit
MemTrace   == options.memTrace    \* -memory-access-trace
Interrupts == options.interrupts  \* the program has signal handlers of its own
Timed      == options.timed       \* -interval or -active: stops and starts anywhere
Known      == options.known       \* the tracer knows the system calls of the fault
                                  \* handler (HandlerKnown of Tracer)

Page == Guarded \cup Loose \cup Own

ASSUME PageAssumption == /\ Guarded \cap Loose = {}
                         /\ Own \cap (Guarded \cup Loose) = {}
                         /\ Writable \subseteq Page /\ Code \subseteq Page
ASSUME OptionsAssumption ==
  Options \subseteq [maxPages : Nat, memTrace : BOOLEAN, interrupts : BOOLEAN,
                    timed : BOOLEAN, known : BOOLEAN]
ASSUME LimitAssumption == Budget \in Nat

Access == {a \in [page : Page, pc : Pc, write : BOOLEAN] : a.write => a.page \in Writable}
ASSUME NothingAssumption == Nothing \notin Access \cup (Page \X Pc)

VARIABLES
  tracing,    \* System::tracing
  prot,       \* rights of each guarded page: "none", "read" or "full" (those
              \* of its region)
  pagecount,  \* System::pagecount
  previous,   \* previous_addr and previous_pc_addr: the last fault's page, pc
  current,    \* the access the program is making
  phase,      \* "run", "fault" (the handler is called), "save" (it has given
              \* the rights back) or "killed"
  call,       \* the program is stopped for a system call: "serviced" (the call
              \* has been made), "split" (and the trace stopped) or "none"
  saved,      \* pages with a file page.<trace_id>.<address> written since the
              \* trace began
  spoiled,    \* those of them whose file is not the initial contents
  dirty,      \* pages written since the trace began
  touched,    \* pages accessed since the trace began
  logged,     \* memory_trace.bin: <<page, pc, kind>>
  early,      \* pages whose file of this number was written before the trace began
  stale,      \* those of them the program wrote to between the two
  cut,        \* history: the page the handler was about to save at the stop
  budget

memory == <<prot, dirty, touched, stale>>
files  == <<saved, spoiled, logged, early, cut>>
vars == <<tracing, pagecount, previous, current, phase, call, budget, options, memory, files>>

Init ==
  /\ options \in Options
  /\ tracing = FALSE /\ pagecount = 0 /\ previous = Nothing
  /\ prot = [p \in Guarded |-> "full"]
  /\ current = Nothing /\ phase = "run" /\ call = "none"
  /\ saved = {} /\ spoiled = {} /\ dirty = {} /\ touched = {}
  /\ logged = {} /\ early = {} /\ stale = {} /\ cut = {}
  /\ budget = Budget

Spend == budget > 0 /\ budget' = budget - 1 /\ UNCHANGED options

\* save_page: an older file of the page is overwritten.
Save(pages) ==
  /\ saved' = saved \cup pages
  /\ spoiled' = (spoiled \ pages) \cup (pages \cap dirty)
-----------------------------------------------------------------------------
(* chopstix_start_trace and chopstix_stop_trace.                           *)

ProtectedData == [p \in Guarded |-> IF p \in Code THEN "full" ELSE "none"]  \* mutant
Protected == [p \in Guarded |-> "none"]

\* The program is at an instruction, or inside the handler of a fault.
AtInstruction == phase = "run" /\ current = Nothing
Handling == phase \in {"fault", "save"}

\* Marks are met by instructions of the program, those of a signal handler that
\* interrupts the fault handler included; SIGSTOP arrives anywhere.
Place ==
  /\ call = "none" /\ phase # "killed"
  /\ AtInstruction \/ Timed \/ (Interrupts /\ Handling)

\* The tracer calls the two routines in the middle of the stack that the handler
\* is using: if that reaches so far, the handler goes on with what is left of its
\* frames (here: it does, or it crashes).
Overlaid == phase' \in IF Handling THEN {phase, "killed"} ELSE {phase}

\* isNewInvocation is 0 when the execution goes on after a system call.
StartTrace(isNewInvocation) ==
  /\ ~tracing
  /\ IF isNewInvocation THEN Place ELSE call = "split" /\ phase # "killed"
  /\ tracing' = TRUE /\ pagecount' = 0 /\ previous' = Nothing
  /\ prot' = Protected
  /\ saved' = {} /\ spoiled' = {} /\ dirty' = {} /\ touched' = {}
  /\ logged' = {} /\ cut' = {}
  /\ call' = "none" /\ Overlaid
  /\ UNCHANGED <<current, budget, options, early, stale>>

UnsavedLoose == {}              \* mutant: the unprotected pages are forgotten
SavedAgain == Loose \cup saved  \* mutant: the protected ones are written again
SavedAtStop == Loose

\* The files written from here on have the number of the next trace (bound: a
\* stop amid a fault is an event of the budget).
StopTrace ==
  /\ tracing
  /\ \/ call = "serviced" /\ call' = "split" /\ UNCHANGED <<budget, options>>
     \/ Place /\ UNCHANGED call
        /\ IF AtInstruction THEN UNCHANGED <<budget, options>> ELSE Spend
  /\ tracing' = FALSE
  /\ prot' = [p \in Guarded |-> "full"]
  /\ Save(SavedAtStop) /\ early' = {} /\ stale' = {}
  /\ cut' = IF phase = "save" THEN {current.page} ELSE {}
  /\ Overlaid
  /\ UNCHANGED <<pagecount, previous, current, dirty, touched, logged>>
-----------------------------------------------------------------------------
(* The program.                                                            *)

Permitted(p, write) ==
  p \in Guarded => prot[p] = "full" \/ (prot[p] = "read" /\ ~write)

Begin(a) ==
  /\ AtInstruction /\ call = "none"
  /\ Spend
  /\ current' = a
  /\ UNCHANGED <<tracing, pagecount, previous, phase, call, memory, files>>

\* What an access leaves behind; accesses between the traces count only for the
\* files that are there already.
Accessed(p, write) ==
  /\ touched' = IF tracing THEN touched \cup {p} ELSE touched
  /\ dirty' = IF tracing /\ write THEN dirty \cup {p} ELSE dirty
  /\ stale' = IF ~tracing /\ write THEN stale \cup (early \cap {p}) ELSE stale

Perform ==
  /\ phase = "run" /\ current # Nothing /\ call = "none"
  /\ Permitted(current.page, current.write)
  /\ Accessed(current.page, current.write)
  /\ current' = Nothing
  /\ UNCHANGED <<tracing, pagecount, previous, phase, call, budget, options, prot, files>>

Fault ==
  /\ phase = "run" /\ current # Nothing /\ call = "none"
  /\ ~Permitted(current.page, current.write)
  /\ phase' = "fault"
  /\ UNCHANGED <<tracing, pagecount, previous, current, call, budget, options, memory, files>>

\* The tracer lets the call through before it stops the trace: the kernel
\* finds the protection of the page that the call reads or writes. Detached,
\* the program makes it alone.
Syscall(p, write) ==
  /\ tracing /\ call = "none"
  /\ AtInstruction \/ (Interrupts /\ Handling)
  /\ Spend
  /\ call' = IF Timed THEN "none" ELSE "serviced"
  /\ IF Permitted(p, write) THEN Accessed(p, write) ELSE UNCHANGED <<touched, dirty, stale>>
  /\ UNCHANGED <<tracing, pagecount, previous, current, phase, prot, files>>

\* A system call of the fault handler that the tracer takes for the program's.
Mistaken ==
  /\ ~Known /\ ~Timed /\ tracing /\ Handling /\ call = "none"
  /\ Spend
  /\ call' = "serviced"
  /\ UNCHANGED <<tracing, pagecount, previous, current, phase, memory, files>>

\* A signal handler of the program interrupts the fault handler, whose mask is
\* empty. SIGSEGV is blocked by then: a fault of its own is the program's end.
Interrupted(p, write) ==
  /\ Interrupts /\ Handling /\ call = "none"
  /\ Spend
  /\ IF Permitted(p, write)
       THEN Accessed(p, write) /\ UNCHANGED phase
       ELSE phase' = "killed" /\ UNCHANGED <<touched, dirty, stale>>
  /\ UNCHANGED <<tracing, pagecount, previous, current, call, prot, files>>
-----------------------------------------------------------------------------
(* record_segv.                                                            *)

\* A fault at the address and the instruction of the one before (bound: a page
\* has one address).
At(a) == <<a.page, a.pc>>
Repeated == previous = At(current)

Log(kind) == logged' = logged \cup {<<current.page, current.pc, kind>>}
Unprotect(rights) == prot' = [prot EXCEPT ![current.page] = rights]

\* Without -memory-access-trace a page gets all its rights at once.
UnprotectAll == Unprotect("full")

InHandler(p) == phase = p /\ call = "none"

SegvPlain ==
  /\ InHandler("fault") /\ ~MemTrace
  /\ UnprotectAll
  /\ phase' = "save"
  /\ UNCHANGED <<tracing, pagecount, previous, current, call, budget, options, dirty, touched,
                 stale, files>>

\* With it, the first fault of an access is taken for a read: the page gets no
\* write permission, and a write faults again at the same place.
ReadRightsAll == "full"    \* mutant: a read gives the page its write permission
ReadRights == "read"

SegvRead ==
  /\ InHandler("fault") /\ MemTrace /\ ~Repeated
  /\ Unprotect(ReadRights)
  /\ previous' = At(current)
  /\ Log(IF current.page \in Code THEN "write" ELSE "read")
  /\ phase' = "save"
  /\ UNCHANGED <<tracing, pagecount, current, call, budget, options, dirty, touched, stale,
                 saved, spoiled, early, cut>>

SegvWriteLogged ==  \* mutant: returns after the record is written
  /\ InHandler("fault") /\ MemTrace /\ Repeated
  /\ Log("write") /\ phase' = "run"
  /\ UNCHANGED <<tracing, pagecount, previous, current, call, budget, options, memory, saved,
                 spoiled, early, cut>>
SegvWrite ==
  /\ InHandler("fault") /\ MemTrace /\ Repeated
  /\ UnprotectAll
  /\ previous' = Nothing
  /\ Log("write")
  /\ phase' = "run"
  /\ UNCHANGED <<tracing, pagecount, current, call, budget, options, dirty, touched, stale,
                 saved, spoiled, early, cut>>

OverAfter == MaxPages > 0 /\ pagecount > MaxPages   \* mutant: off by one
Over == MaxPages > 0 /\ pagecount + 1 > MaxPages

SavePageOnce ==  \* mutant: a file that is there is not written again
  IF tracing
    THEN /\ Save({current.page} \ early) /\ UNCHANGED <<early, stale>>
    ELSE /\ early' = early \cup {current.page} /\ UNCHANGED <<saved, spoiled, stale>>
\* The handler does not look whether a trace is being taken: after a stop the
\* file gets the number of the next one.
SavePage ==
  IF tracing
    THEN /\ Save({current.page})
         /\ early' = early \ {current.page} /\ stale' = stale \ {current.page}
    ELSE /\ early' = early \cup {current.page} /\ stale' = stale \ {current.page}
         /\ UNCHANGED <<saved, spoiled>>

SegvSave ==
  /\ InHandler("save") /\ (Over \/ prot[current.page] # "none")
  /\ pagecount' = pagecount + 1
  /\ IF Over THEN UNCHANGED <<saved, spoiled, early, stale>> ELSE SavePage
  /\ phase' = "run"
  /\ UNCHANGED <<tracing, previous, current, call, budget, options, prot, dirty, touched,
                 logged, cut>>

\* The trace was stopped and another one started since the page got its rights:
\* the write of the page fails after its file was opened, an assertion ends the
\* program.
SegvAbort ==
  /\ InHandler("save") /\ ~Over /\ prot[current.page] = "none"
  /\ pagecount' = pagecount + 1
  /\ saved' = saved \cup {current.page} /\ spoiled' = spoiled \cup {current.page}
  /\ early' = early \ {current.page} /\ stale' = stale \ {current.page}
  /\ phase' = "killed"
  /\ UNCHANGED <<tracing, previous, current, call, budget, options, prot, dirty, touched,
                 logged, cut>>

Handle == SegvPlain \/ SegvRead \/ SegvWrite \/ SegvSave \/ SegvAbort

Finished == phase = "killed" /\ UNCHANGED vars

ProgramNext ==
  \/ \E a \in Access : Begin(a)
  \/ Perform \/ Fault \/ Mistaken
  \/ \E p \in Page, write \in BOOLEAN :
       (write => p \in Writable) /\ (Syscall(p, write) \/ Interrupted(p, write))

Next ==
  \/ \E new \in BOOLEAN : StartTrace(new)
  \/ StopTrace \/ ProgramNext \/ Handle \/ Finished

Spec == Init /\ [][Next]_vars

\* What the tracer does once a system call has stopped the program.
Split == call # "none" /\ (StopTrace \/ StartTrace(FALSE))

\* A program that is making an access, and the handler it has called, go on;
\* the tracer does not leave a program stopped.
FairSpec == Spec /\ WF_vars(Perform \/ Fault) /\ WF_vars(Handle) /\ WF_vars(Split)
-----------------------------------------------------------------------------
(* Properties.                                                             *)

TypeOK ==
  /\ tracing \in BOOLEAN
  /\ prot \in [Guarded -> {"none", "read", "full"}]
  /\ pagecount \in Nat /\ budget \in 0 .. Budget
  /\ previous \in (Page \X Pc) \cup {Nothing}
  /\ current \in Access \cup {Nothing}
  /\ phase \in {"run", "fault", "save", "killed"}
  /\ call \in {"none", "serviced", "split"}
  /\ saved \subseteq Page /\ spoiled \subseteq saved
  /\ dirty \subseteq touched /\ touched \subseteq Page
  /\ logged \subseteq Page \X Pc \X {"read", "write"}
  /\ stale \subseteq early /\ early \subseteq Guarded /\ cut \subseteq Guarded
  /\ options \in Options

\* What the files of protected pages written in a trace hold is "the initial
\* memory state" (docs/tracing.md), although they are written while the program
\* runs and wherever the trace is stopped and started (unless a signal handler
\* of the program comes between, or the program died of a failed write).
GuardedInitial ==
  ~Interrupts /\ phase # "killed" => spoiled \cap Guarded = {}

\* With no limit a finished trace has a file for every page that the program
\* accessed in it; only one that a signal handler accessed before its file was
\* written can be missing, if the trace was stopped just then.
Complete ==
  ~tracing /\ MaxPages = 0 => touched \ saved \subseteq IF Interrupts THEN cut ELSE {}

\* -max-pages bounds the protected pages saved in one trace.
LimitPerTrace ==
  MaxPages > 0 => Cardinality(saved \cap Guarded) <= MaxPages

\* A fault of the program is never a fault for ever: the handler lets the
\* access through in the end, however often it has to be called (unless a
\* signal handler of the program faults meanwhile, which is its end).
AccessMade ==
  current # Nothing ~> current = Nothing \/ phase = "killed"

\* A handler that goes on after the stop writes its page to a file of the next
\* trace's number. If the program has changed the page since and uses it in that
\* trace, the file is written again before it is used (unless there is a limit,
\* a signal handler comes between, or the program died of a failed write).
UsedInitial ==
  tracing /\ MaxPages = 0 /\ ~Interrupts /\ phase # "killed" => stale \cap touched = {}

\* -memory-access-trace: no write to a protected data page comes before one to
\* that page is logged.
WritesLogged ==
  MemTrace => \A p \in dirty \cap Guarded : \E pc \in Pc : <<p, pc, "write">> \in logged

\* The snapshot (Snapshot) of the protected pages.
Initial == INSTANCE Snapshot WITH
  Page <- Guarded, strict <- ~Interrupts /\ MaxPages = 0, open <- tracing, kept <- saved \cap Guarded, accessed <- touched \cap Guarded
SnapshotSpec == Initial!Spec
-----------------------------------------------------------------------------
(* The inductive invariant, in parts.                                      *)

\* What goes with each phase, and with a pending system call.
Phases ==
  /\ phase # "run" => current # Nothing /\ current.page \in Guarded
  /\ phase = "fault" /\ tracing => prot[current.page] # "full"
  /\ call = "serviced" => tracing /\ phase # "killed"
  /\ call = "split" => ~tracing

\* A page is written with all its rights, and accessed with some.
Rights ==
  /\ tracing => \A p \in Guarded : /\ prot[p] # "full" => p \notin dirty
                                   /\ prot[p] = "none" => p \notin touched
  /\ previous # Nothing => previous[1] \in Guarded /\ prot[previous[1]] # "none"
  /\ ~tracing => \A p \in Guarded : prot[p] # "none"

\* Nothing but a signal handler comes between a fault and the save.
Unwritten ==
  ~Interrupts => /\ phase = "save" /\ tracing => current.page \notin dirty
                 /\ GuardedInitial

\* With no limit, a page that has rights is saved, or is the one being saved; a
\* file written by a trace is not an old one.
Kept ==
  /\ tracing => \A p \in Guarded : prot[p] # "none" =>
       p \in saved \/ (phase \in {"save", "killed"} /\ current.page = p)
  /\ ~Interrupts /\ tracing /\ phase = "save" /\ current.page \in touched => current.page \in saved
  /\ Own = {} => Complete
Keeping ==
  /\ MaxPages = 0 => Kept
  /\ tracing => stale \cap saved = {}

\* A page gets its write permission together with a logged write.
Logging ==
  /\ MemTrace /\ tracing =>
       \A p \in Guarded : prot[p] = "full" => \E pc \in Pc : <<p, pc, "write">> \in logged
  /\ WritesLogged

Counting ==
  /\ IsFiniteSet(saved \cap Guarded)
  /\ Cardinality(saved \cap Guarded) <= pagecount
  /\ LimitPerTrace

IInv == TypeOK /\ Phases /\ Rights /\ Unwritten /\ Keeping /\ Logging /\ Counting
=============================================================================
