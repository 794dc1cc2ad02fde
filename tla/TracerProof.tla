---------------------------- MODULE TracerProof ----------------------------
(***************************************************************************)
(* Proofs about Tracer, for every set of addresses, every tracer, every    *)
(* limit and any number of events.  One lemma per part of the inductive    *)
(* invariant IInv, with one step per action; the theorems follow.          *)
(***************************************************************************)
EXTENDS Tracer, TLAPS

USE DEF Mode, Kind, Starts, Ends, Others, Stray, Indices, MaxTraces, TracingEnabled, Signals

\* What the assumption on the command lines says of the one at hand.
LEMMA FormTyped ==
  ASSUME TypeOK
  PROVE  /\ MaxTraces \in Nat /\ Indices \in Seq(Nat) /\ Others # {}
         /\ TracingEnabled \in BOOLEAN /\ Signals \subseteq SignalKinds
         /\ Callers \subseteq Nat /\ Own \subseteq Nat /\ Returns \subseteq Nat
BY FormsAssumption DEF TypeOK, Callers, Own, Returns

\* A system call is judged by its registers and by the layout, which is fixed.
LEMMA LayoutFixed ==
  ASSUME form' = form
  PROVE  /\ UNCHANGED <<HandlerKnown, LayoutKnown, Unlimited, Signals>>
         /\ UNCHANGED call => UNCHANGED Splits
BY DEF HandlerKnown, LayoutKnown, Unlimited, Splits, InSupport, InVdso, SigReturn,
    Callers, Own, Returns, Support, Vdso, Sysz

\* No step changes the command line or the program.
LEMMA FormFixed ==
  ASSUME [Next]_vars
  PROVE  /\ form' = form
         /\ UNCHANGED <<PrologMarks, RoiMarks, Marks, Address>>
BY DEF PrologMarks, RoiMarks, Marks, Address, Next, TracerNext, ChildNext, PrologResume,
    WaitforForward,
    PrologEnter, PrologSkip, PrologSkipped, PrologStepOver, PrologStepExit,
    PrologStray, PrologHitAgain, PrologFinished, PrologLost, TimedSleep,
    TimedWake, TimedRoiEnd, TimedFinished, TimedRace, TimedProlog, RoiEnd,
    RoiForward, RoiSyscall, RoiSplit, RoiLost, RoiExit, Epilog, StoppedEpilog,
    StoppedSplit, StartedEnter, StartedSplit, CallBroken, Finish, LibStart,
    LibStop, AppIllegal, AppStep, AppSyscall, AppFault, HandlerSyscall,
    HandlerReturn, AttachStop, AppExit, Signal, Terminated, Spend, vars

\* The ids of the traces begun before and with trace n.
LEMMA Interval ==
  ASSUME NEW n \in Nat
  PROVE  /\ (0 .. n - 1) \cup {n} = 0 .. n
         /\ \A id \in 0 .. n - 1 : id < n
         /\ n \notin 0 .. n - 1
BY SMT

\* should_trace() keeps the counters of the tracer natural numbers.
LEMMA ShouldTraceTyped ==
  ASSUME TypeOK, NEW yes \in BOOLEAN, ShouldTrace(yes)
  PROVE  execution' \in Nat /\ index' \in Nat /\ traced' \subseteq Nat
<1>1. /\ execution' = IF Kind = "indexed" THEN execution + 1 ELSE execution
      /\ index' = IF Kind = "indexed" /\ yes THEN index + 1 ELSE index
      /\ traced' = IF Kind = "indexed" /\ yes THEN traced \cup {execution} ELSE traced
  BY DEF ShouldTrace
<1>2. execution \in Nat /\ index \in Nat /\ traced \subseteq Nat
  BY DEF TypeOK
<1> QED
  BY <1>1, <1>2

\* The two ways into the region of interest: at the limit the tracer stops,
\* else it captures the registers of the next trace and calls the library.
LEMMA EnterRoiCases ==
  ASSUME TypeOK, EnterRoi
  PROVE  /\ planted' = (planted \ PrologMarks) \cup RoiMarks
         /\ traceId' = traceId
         /\ \/ /\ LimitAt(traceId)
               /\ running' = FALSE /\ state' = "roi" /\ loc' = "loop"
               /\ UNCHANGED <<captured, due>>
               /\ \/ Mode = "ranged" /\ child' = "sys" /\ stop' = "none"
                  \/ Mode # "ranged" /\ UNCHANGED <<child, stop>>
            \/ /\ ~LimitAt(traceId)
               /\ UNCHANGED <<running, state>> /\ loc' = "startEnter" /\ due' = due + 1
               /\ \/ TracingEnabled /\ captured' = captured \cup {traceId}
                     /\ child' = "lib" /\ stop' = "none"
                  \/ ~TracingEnabled /\ UNCHANGED <<captured, child, stop>>
BY DEF EnterRoi, SwapMarks, Entered, NextState, Call, CaptureAt, Resume

LEMMA EnterRoiTyped ==
  ASSUME TypeOK, EnterRoi, UNCHANGED form
  PROVE  /\ running' \in BOOLEAN /\ state' \in {"prolog", "roi", "epilog"}
         /\ loc' \in {"loop", "startEnter"}
         /\ traceId' \in Nat /\ due' \in Nat /\ captured' \subseteq Nat
         /\ planted' \subseteq Marks
         /\ child' \in {child, "sys", "lib"} /\ stop' \in {stop, "none"}
<1>1. /\ due' = due \/ due' = due + 1
      /\ captured' \subseteq captured \cup {traceId} /\ traceId' = traceId
      /\ planted' = (planted \ PrologMarks) \cup RoiMarks
      /\ running' \in {running, FALSE} /\ state' \in {state, "roi"}
      /\ loc' \in {"loop", "startEnter"}
      /\ child' \in {child, "sys", "lib"} /\ stop' \in {stop, "none"}
  BY EnterRoiCases
<1>2. /\ running \in BOOLEAN /\ state \in {"prolog", "roi", "epilog"}
      /\ traceId \in Nat /\ due \in Nat /\ captured \subseteq Nat /\ planted \subseteq Marks
  BY DEF TypeOK
<1>3. RoiMarks \subseteq Marks
  BY DEF RoiMarks, Marks
<1>4. due' \in Nat
  BY <1>1, <1>2
<1>5. captured' \subseteq Nat
  BY <1>1, <1>2
<1>6. planted' \subseteq Marks
  BY <1>1, <1>2, <1>3, FormFixed
<1> QED
  BY <1>1, <1>2, <1>4, <1>5, <1>6

\* Where the tracer is about to begin a trace, the one before is complete.
LEMMA ReadyToBegin ==
  ASSUME TypeOK, Lockstep, TracingEnabled,
         \/ loc \in {"prologWait", "attachWait"} /\ state = "prolog"
         \/ loc = "stopSplit" /\ child = "stopped"
  PROVE  libId = traceId /\ captured = 0 .. libId - 1 /\ ~tracing
BY DEF TypeOK, Lockstep, StartCalls, StopCalls, Ended

\* Entering the region of interest respects the limit.
LEMMA EnterBelowLimit ==
  ASSUME TypeOK, BelowLimit, running, loc \in {"prologWait", "attachWait"}, EnterRoi,
         form' = form
  PROVE  BelowLimit'
<1>1. CASE LimitAt(traceId)
  BY <1>1, EnterRoiCases DEF BelowLimit
<1>2. CASE ~LimitAt(traceId)
  <2>1. traceId' = traceId /\ captured' \subseteq captured \cup {traceId}
    BY <1>2, EnterRoiCases
  <2> QED
    BY <1>2, <2>1, BudgetAssumption, FormTyped DEF BelowLimit, LimitAt, TypeOK
<1> QED
  BY <1>1, <1>2

\* An event leaves the budget in its type.
LEMMA Spent ==
  ASSUME TypeOK, Spend
  PROVE  budget' \in 0 .. Budget
BY BudgetAssumption DEF Spend, TypeOK

\* Every step keeps the variables in their types.
LEMMA TypeOKStep ==
  ASSUME TypeOK, [Next]_vars
  PROVE  TypeOK'
<1> USE DEF Waits, Calls, Ended, Runs, Exited, Dead, StartCalls, StopCalls, Resume
<1>0. /\ form' = form
      /\ PrologMarks' = PrologMarks /\ RoiMarks' = RoiMarks
      /\ Marks' = Marks /\ Address' = Address
  BY FormFixed
<1> USE <1>0
<1>1. CASE PrologResume
  BY <1>1 DEF PrologResume, TypeOK, tracerVars, libVars
<1>2. CASE WaitforForward
  BY <1>2 DEF WaitforForward, TypeOK, Handler, tracerVars, libVars
<1>3. CASE PrologEnter
  <2>1. execution' \in Nat /\ index' \in Nat /\ traced' \subseteq Nat
    BY <1>3, ShouldTraceTyped DEF PrologEnter
  <2>2. EnterRoi /\ UNCHANGED <<pc, handling, tracing, libId, call, budget>>
    BY <1>3 DEF PrologEnter
  <2> QED
    BY <2>1, <2>2, EnterRoiTyped DEF TypeOK
<1>4. CASE PrologSkip
  BY <1>4 DEF PrologSkip, TypeOK, NotTraced, SwapMarks, libVars, Marks,
    ShouldTrace
<1>5. CASE PrologSkipped
  BY <1>5 DEF PrologSkipped, TypeOK, SwapMarks, tracerVars, libVars, Marks
<1>6. CASE PrologStepOver
  <2>1. execution' \in Nat /\ index' \in Nat /\ traced' \subseteq Nat
    BY <1>6, ShouldTraceTyped DEF PrologStepOver, NotTraced
  <2>2. budget' \in 0 .. Budget
    BY <1>6, Spent DEF PrologStepOver
  <2>3. running' \in BOOLEAN
    BY <1>6 DEF PrologStepOver, NotTraced, TypeOK
  <2> QED
    BY <1>6, <2>1, <2>2, <2>3 DEF PrologStepOver, TypeOK, libVars
<1>7. CASE PrologStepExit
  BY <1>7 DEF PrologStepExit, TypeOK, ShouldTrace, libVars
<1>8. CASE PrologStray
  BY <1>8 DEF PrologStray, TypeOK, tracerVars, libVars
<1>9. CASE PrologHitAgain
  BY <1>9 DEF PrologHitAgain, TypeOK, tracerVars, libVars
<1>10. CASE PrologFinished
  <2>1. /\ loc' \in {"loop", "failed"} /\ running' \in BOOLEAN
        /\ UNCHANGED <<state, traceId, index, execution, traced, planted, captured>>
    BY <1>10 DEF PrologFinished, Finished, Fail, tracerVars, TypeOK
  <2> QED
    BY <1>10, <2>1 DEF PrologFinished, TypeOK, libVars
<1>11. CASE PrologLost
  BY <1>11 DEF PrologLost, TypeOK, Fail, libVars, tracerVars
<1>12. CASE TimedSleep
  BY <1>12 DEF TimedSleep, TypeOK, tracerVars, libVars
<1>13. CASE TimedWake
  BY <1>13, Spent DEF TimedWake, TypeOK, tracerVars, libVars
<1>14. CASE TimedRoiEnd
  BY <1>14 DEF TimedRoiEnd, TypeOK, NextState, libVars
<1>15. CASE TimedFinished
  <2>1. /\ loc' \in {"loop", "failed"} /\ running' \in BOOLEAN
        /\ UNCHANGED <<state, traceId, index, execution, traced, planted, captured>>
    BY <1>15 DEF TimedFinished, Finished, Fail, tracerVars, TypeOK
  <2> QED
    BY <1>15, <2>1 DEF TimedFinished, TypeOK, libVars
<1>16. CASE TimedRace
  BY <1>16 DEF TimedRace, TypeOK, Fail, libVars, tracerVars
<1>17. ASSUME NEW yes \in BOOLEAN, TimedProlog(yes) PROVE TypeOK'
  <2>1. execution' \in Nat /\ index' \in Nat /\ traced' \subseteq Nat
    BY <1>17, ShouldTraceTyped DEF TimedProlog, NotTraced
  <2>2. CASE yes
    <3>1. EnterRoi /\ UNCHANGED <<pc, handling, tracing, libId, call, budget>>
      BY <1>17, <2>2 DEF TimedProlog
    <3> QED
      BY <2>1, <3>1, EnterRoiTyped DEF TypeOK
  <2>3. CASE ~yes
    BY <1>17, <2>1, <2>3 DEF TimedProlog, NotTraced, TypeOK, libVars
  <2> QED
    BY <2>2, <2>3
<1>18. CASE RoiEnd
  BY <1>18 DEF RoiEnd, TypeOK, SwapMarks, NextState, libVars
<1>19. CASE RoiForward
  BY <1>19 DEF RoiForward, TypeOK, Handler, tracerVars, libVars
<1>20. CASE RoiSyscall
  BY <1>20 DEF RoiSyscall, TypeOK, tracerVars, libVars
<1>21. CASE RoiSplit
  BY <1>21 DEF RoiSplit, TypeOK, StopTrace, libVars, Call
<1>22. CASE RoiLost
  BY <1>22 DEF RoiLost, TypeOK, Fail, libVars, tracerVars
<1>23. ASSUME NEW code \in Exited, RoiExit(code) PROVE TypeOK'
  BY <1>23 DEF RoiExit, TypeOK, libVars
<1>24. CASE Epilog
  BY <1>24 DEF Epilog, TypeOK, StopTrace, libVars, Call
<1>25. CASE StoppedEpilog
  BY <1>25 DEF StoppedEpilog, TypeOK, NextState, SwapMarks, PrologMarks,
    libVars, Marks
<1>26. CASE StoppedSplit
  BY <1>26 DEF StoppedSplit, TypeOK, Call, CaptureAt, libVars
<1>27. CASE StartedEnter
  BY <1>27 DEF StartedEnter, TypeOK, Entered, libVars, NextState
<1>28. CASE StartedSplit
  BY <1>28 DEF StartedSplit, TypeOK, tracerVars, libVars
<1>29. CASE CallBroken
  <2>1. budget' \in 0 .. Budget
    BY <1>29, Spent DEF CallBroken, TypeOK
  <2> QED
    BY <1>29, <2>1 DEF CallBroken, TypeOK, Fail, libVars, tracerVars
<1>30. CASE Finish
  BY <1>30 DEF Finish, TypeOK, KillChild, tracerVars, libVars
<1>31. CASE LibStart
  BY <1>31 DEF LibStart, TypeOK, libVars, tracerVars
<1>32. CASE LibStop
  <2>1. libId' \in Nat
    BY <1>32 DEF LibStop, libVars, TypeOK
  <2>2. tracing' \in BOOLEAN
    BY <1>32 DEF LibStop, libVars, TypeOK
  <2>3. child' \in {"stopped", "exit1"} /\ stop' \in {"ill", "none"}
    BY <1>32 DEF LibStop
  <2> QED
    BY <1>32, <2>1, <2>2, <2>3 DEF LibStop, tracerVars, TypeOK
<1>33. CASE AppIllegal
  BY <1>33 DEF AppIllegal, TypeOK, tracerVars, libVars
<1>34. CASE AppStep
  BY <1>34, Spent DEF AppStep, TypeOK, tracerVars, libVars
<1>35. CASE AppSyscall
  BY <1>35, Spent, FormTyped DEF AppSyscall, TypeOK, Stops, tracerVars,
    libVars
<1>36. CASE AppFault
  BY <1>36, Spent, FormTyped DEF AppFault, TypeOK, Stops, tracerVars,
    libVars
<1>37. CASE HandlerSyscall
  BY <1>37, Spent, FormTyped DEF HandlerSyscall, TypeOK, Stops,
    tracerVars, libVars
<1>38. CASE HandlerReturn
  BY <1>38, FormTyped DEF HandlerReturn, TypeOK, Stops, tracerVars, libVars
<1>39. CASE AttachStop
  BY <1>39 DEF AttachStop, TypeOK, Stops, tracerVars, libVars
<1>40. ASSUME NEW code \in Exited, AppExit(code) PROVE TypeOK'
  BY <1>40 DEF AppExit, TypeOK, Stops, tracerVars, libVars
<1>41. ASSUME NEW k \in Signals, Signal(k) PROVE TypeOK'
  <2>1. child' \in Runs \cup Dead \cup {"stopped", "lib"}
    BY <1>41 DEF Signal, Stops, TypeOK
  <2>2. stop' \in {"none", "sig", "term"}
    BY <1>41, FormTyped DEF Signal, Stops, SignalKinds
  <2>3. budget' \in 0 .. Budget
    BY <1>41, Spent DEF Signal
  <2> QED
    BY <1>41, <2>1, <2>2, <2>3 DEF Signal, tracerVars, libVars, TypeOK
<1>42. CASE Terminated
  BY <1>42 DEF Terminated, TypeOK, vars, libVars
<1>43. CASE UNCHANGED vars
  BY <1>43 DEF vars, libVars, TypeOK
<1> QED
  BY <1>1, <1>2, <1>3, <1>4, <1>5, <1>6, <1>7, <1>8, <1>9, <1>10, <1>11,
    <1>12, <1>13, <1>14, <1>15, <1>16, <1>17, <1>18, <1>19, <1>20, <1>21,
    <1>22, <1>23, <1>24, <1>25, <1>26, <1>27, <1>28, <1>29, <1>30, <1>31,
    <1>32, <1>33, <1>34, <1>35, <1>36, <1>37, <1>38, <1>39, <1>40, <1>41,
    <1>42, <1>43 DEF Next, TracerNext, ChildNext

\* Every step keeps the places of the tracer and of the child matched.
LEMMA PlacesStep ==
  ASSUME TypeOK, Places, [Next]_vars
  PROVE  Places'
<1> USE DEF Waits, Calls, Ended, Runs, Exited, Dead, StartCalls, StopCalls, Resume
<1>0. /\ form' = form
      /\ PrologMarks' = PrologMarks /\ RoiMarks' = RoiMarks
      /\ Marks' = Marks /\ Address' = Address
  BY FormFixed
<1> USE <1>0
<1>1. CASE PrologResume
  BY <1>1 DEF PrologResume, Places, InState, tracerVars
<1>2. CASE WaitforForward
  BY <1>2 DEF WaitforForward, Places, tracerVars
<1>3. CASE PrologEnter
  BY <1>3 DEF PrologEnter, Places, AtStart, EnterRoi, Entered, Call, NextState
<1>4. CASE PrologSkip
  BY <1>4 DEF PrologSkip, Places, AtStart
<1>5. CASE PrologSkipped
  BY <1>5 DEF PrologSkipped, Places
<1>6. CASE PrologStepOver
  BY <1>6 DEF PrologStepOver, Spend, Places, AtStart
<1>7. CASE PrologStepExit
  BY <1>7 DEF PrologStepExit, Places
<1>8. CASE PrologStray
  BY <1>8 DEF PrologStray, Places, AtStart, tracerVars
<1>9. CASE PrologHitAgain
  BY <1>9 DEF PrologHitAgain, Places
<1>10. CASE PrologFinished
  BY <1>10 DEF PrologFinished, Places, Finished, Fail
<1>11. CASE PrologLost
  BY <1>11 DEF PrologLost, Places, Fail
<1>12. CASE TimedSleep
  BY <1>12 DEF TimedSleep, Places, InState, tracerVars
<1>13. CASE TimedWake
  BY <1>13 DEF TimedWake, Spend, Places, tracerVars
<1>14. CASE TimedRoiEnd
  BY <1>14 DEF TimedRoiEnd, Places
<1>15. CASE TimedFinished
  BY <1>15 DEF TimedFinished, Places, Finished, Fail
<1>16. CASE TimedRace
  BY <1>16 DEF TimedRace, Places, Fail
<1>17. ASSUME NEW yes \in BOOLEAN, TimedProlog(yes) PROVE Places'
  BY <1>17 DEF TimedProlog, Places, EnterRoi, Entered, Call
<1>18. CASE RoiEnd
  BY <1>18 DEF RoiEnd, Places, RoiStopped, InState
<1>19. CASE RoiForward
  BY <1>19 DEF RoiForward, Places, RoiStopped, tracerVars, InState
<1>20. CASE RoiSyscall
  BY <1>20 DEF RoiSyscall, Places, RoiStopped, tracerVars, InState
<1>21. CASE RoiSplit
  BY <1>21 DEF RoiSplit, Places, StopTrace, Call
<1>22. CASE RoiLost
  BY <1>22 DEF RoiLost, Places, Fail
<1>23. ASSUME NEW code \in Exited, RoiExit(code) PROVE Places'
  BY <1>23 DEF RoiExit, Places, RoiStopped, InState
<1>24. CASE Epilog
  BY <1>24 DEF Epilog, Places, TypeOK, InState, StopTrace, Call
<1>25. CASE StoppedEpilog
  BY <1>25 DEF StoppedEpilog, Places
<1>26. CASE StoppedSplit
  BY <1>26 DEF StoppedSplit, Places, Call
<1>27. CASE StartedEnter
  BY <1>27 DEF StartedEnter, Places, Entered, NextState
<1>28. CASE StartedSplit
  BY <1>28 DEF StartedSplit, Places, tracerVars
<1>29. CASE CallBroken
  BY <1>29 DEF CallBroken, Spend, Places, Fail
<1>30. CASE Finish
  BY <1>30 DEF Finish, Places, KillChild
<1>31. CASE LibStart
  BY <1>31 DEF LibStart, Places, tracerVars
<1>32. CASE LibStop
  BY <1>32 DEF LibStop, Places, tracerVars
<1>33. CASE AppIllegal
  BY <1>33 DEF AppIllegal, Places, tracerVars
<1>34. CASE AppStep
  BY <1>34 DEF AppStep, Places, tracerVars
<1>35. CASE AppSyscall
  BY <1>35 DEF AppSyscall, Places, Stops
<1>36. CASE AppFault
  BY <1>36 DEF AppFault, Places, Stops, tracerVars
<1>37. CASE HandlerSyscall
  BY <1>37 DEF HandlerSyscall, Places, Stops
<1>38. CASE HandlerReturn
  BY <1>38 DEF HandlerReturn, Places, Stops, tracerVars
<1>39. CASE AttachStop
  BY <1>39 DEF AttachStop, Places, Stops, tracerVars
<1>40. ASSUME NEW code \in Exited, AppExit(code) PROVE Places'
  BY <1>40 DEF AppExit, Places, Executing, Stops, tracerVars, Alive
<1>41. ASSUME NEW k \in Signals, Signal(k) PROVE Places'
  BY <1>41 DEF Signal, Places, Alive, Stops, tracerVars
<1>42. CASE Terminated
  BY <1>42 DEF Terminated, Places, vars
<1>43. CASE UNCHANGED vars
  BY <1>43 DEF vars, Places
<1> QED
  BY <1>1, <1>2, <1>3, <1>4, <1>5, <1>6, <1>7, <1>8, <1>9, <1>10, <1>11,
    <1>12, <1>13, <1>14, <1>15, <1>16, <1>17, <1>18, <1>19, <1>20, <1>21,
    <1>22, <1>23, <1>24, <1>25, <1>26, <1>27, <1>28, <1>29, <1>30, <1>31,
    <1>32, <1>33, <1>34, <1>35, <1>36, <1>37, <1>38, <1>39, <1>40, <1>41,
    <1>42, <1>43 DEF Next, TracerNext, ChildNext

\* Every step leaves the breakpoints of its state planted.
LEMMA PlantingStep ==
  ASSUME TypeOK, Places, Planting, [Next]_vars
  PROVE  Planting'
<1> USE DEF Waits, Calls, Ended, Runs, Exited, Dead, StartCalls, StopCalls, Resume
<1>0. /\ form' = form
      /\ PrologMarks' = PrologMarks /\ RoiMarks' = RoiMarks
      /\ Marks' = Marks /\ Address' = Address
  BY FormFixed
<1> USE <1>0
<1>1. CASE PrologResume
  BY <1>1 DEF PrologResume, Planting, InState, tracerVars
<1>2. CASE WaitforForward
  BY <1>2 DEF WaitforForward, Planting, tracerVars
<1>3. CASE PrologEnter
  BY <1>3 DEF PrologEnter, Planting, Places, AtStart, EnterRoi, SwapMarks,
    Entered, Call, NextState
<1>4. CASE PrologSkip
  BY <1>4 DEF PrologSkip, Planting, Places, AtStart, SwapMarks, PrologMarks
<1>5. CASE PrologSkipped
  BY <1>5 DEF PrologSkipped, Planting, Places, SwapMarks, tracerVars,
    PrologMarks
<1>6. CASE PrologStepOver
  BY <1>6 DEF PrologStepOver, Spend, Planting, AtStart
<1>7. CASE PrologStepExit
  BY <1>7 DEF PrologStepExit, Planting
<1>8. CASE PrologStray
  BY <1>8 DEF PrologStray, Planting, AtStart, tracerVars
<1>9. CASE PrologHitAgain
  BY <1>9 DEF PrologHitAgain, Planting, tracerVars
<1>10. CASE PrologFinished
  BY <1>10 DEF PrologFinished, Planting, Finished, Fail
<1>11. CASE PrologLost
  BY <1>11 DEF PrologLost, Planting, Fail
<1>12. CASE TimedSleep
  BY <1>12 DEF TimedSleep, Planting, InState, tracerVars
<1>13. CASE TimedWake
  BY <1>13 DEF TimedWake, Spend, Planting, tracerVars
<1>14. CASE TimedRoiEnd
  BY <1>14 DEF TimedRoiEnd, Planting, Places, NextState, RoiMarks
<1>15. CASE TimedFinished
  BY <1>15 DEF TimedFinished, Planting, Finished, Fail
<1>16. CASE TimedRace
  BY <1>16 DEF TimedRace, Planting, Fail
<1>17. ASSUME NEW yes \in BOOLEAN, TimedProlog(yes) PROVE Planting'
  BY <1>17 DEF TimedProlog, Planting, Places, EnterRoi, PrologMarks, RoiMarks,
    SwapMarks, Entered, Call
<1>18. CASE RoiEnd
  BY <1>18 DEF RoiEnd, Planting, RoiStopped, SwapMarks, NextState, RoiMarks,
    InState
<1>19. CASE RoiForward
  BY <1>19 DEF RoiForward, Planting, tracerVars
<1>20. CASE RoiSyscall
  BY <1>20 DEF RoiSyscall, Planting, RoiStopped, tracerVars, InState
<1>21. CASE RoiSplit
  BY <1>21 DEF RoiSplit, Planting, Places, RoiMarks
<1>22. CASE RoiLost
  BY <1>22 DEF RoiLost, Planting, Fail
<1>23. ASSUME NEW code \in Exited, RoiExit(code) PROVE Planting'
  BY <1>23 DEF RoiExit, Planting
<1>24. CASE Epilog
  BY <1>24 DEF Epilog, Planting, InState, StopTrace, Call
<1>25. CASE StoppedEpilog
  BY <1>25 DEF StoppedEpilog, Planting, Places, NextState, SwapMarks
<1>26. CASE StoppedSplit
  BY <1>26 DEF StoppedSplit, Planting, Call
<1>27. CASE StartedEnter
  BY <1>27 DEF StartedEnter, Planting, Entered, NextState
<1>28. CASE StartedSplit
  BY <1>28 DEF StartedSplit, Planting, tracerVars
<1>29. CASE CallBroken
  BY <1>29 DEF CallBroken, Spend, Planting, Fail
<1>30. CASE Finish
  BY <1>30 DEF Finish, Planting
<1>31. CASE LibStart
  BY <1>31 DEF LibStart, Planting, tracerVars
<1>32. CASE LibStop
  BY <1>32 DEF LibStop, Planting, tracerVars
<1>33. CASE AppIllegal
  BY <1>33 DEF AppIllegal, Planting, tracerVars
<1>34. CASE AppStep
  BY <1>34 DEF AppStep, Planting, tracerVars
<1>35. CASE AppSyscall
  BY <1>35 DEF AppSyscall, Planting, tracerVars
<1>36. CASE AppFault
  BY <1>36 DEF AppFault, Planting, tracerVars
<1>37. CASE HandlerSyscall
  BY <1>37 DEF HandlerSyscall, Planting, tracerVars
<1>38. CASE HandlerReturn
  BY <1>38 DEF HandlerReturn, Planting, tracerVars
<1>39. CASE AttachStop
  BY <1>39 DEF AttachStop, Planting, tracerVars
<1>40. ASSUME NEW code \in Exited, AppExit(code) PROVE Planting'
  BY <1>40 DEF AppExit, Planting, tracerVars
<1>41. ASSUME NEW k \in Signals, Signal(k) PROVE Planting'
  BY <1>41 DEF Signal, Planting, tracerVars
<1>42. CASE Terminated
  BY <1>42 DEF Terminated, Planting, vars
<1>43. CASE UNCHANGED vars
  BY <1>43 DEF vars, Planting
<1> QED
  BY <1>1, <1>2, <1>3, <1>4, <1>5, <1>6, <1>7, <1>8, <1>9, <1>10, <1>11,
    <1>12, <1>13, <1>14, <1>15, <1>16, <1>17, <1>18, <1>19, <1>20, <1>21,
    <1>22, <1>23, <1>24, <1>25, <1>26, <1>27, <1>28, <1>29, <1>30, <1>31,
    <1>32, <1>33, <1>34, <1>35, <1>36, <1>37, <1>38, <1>39, <1>40, <1>41,
    <1>42, <1>43 DEF Next, TracerNext, ChildNext

\* Every step keeps the library one call behind the tracer at most.
LEMMA LockstepStep ==
  ASSUME TypeOK, Places, Lockstep, [Next]_vars
  PROVE  Lockstep'
<1> USE DEF Waits, Calls, Ended, Runs, Exited, Dead, StartCalls, StopCalls, Resume
<1>0. /\ form' = form
      /\ PrologMarks' = PrologMarks /\ RoiMarks' = RoiMarks
      /\ Marks' = Marks /\ Address' = Address
  BY FormFixed
<1> USE <1>0
<1>1. CASE PrologResume
  BY <1>1 DEF PrologResume, Lockstep, InState, tracerVars, libVars
<1>2. CASE WaitforForward
  BY <1>2 DEF WaitforForward, Lockstep, tracerVars, libVars
<1>3. CASE PrologEnter
  <2>1. loc = "prologWait" /\ child = "stopped" /\ state = "prolog"
    BY <1>3 DEF PrologEnter, AtStart, Places
  <2>2. EnterRoi /\ UNCHANGED <<tracing, libId>>
    BY <1>3 DEF PrologEnter
  <2> QED
    BY <2>1, <2>2, EnterRoiCases, Interval DEF Lockstep, TypeOK, libVars
<1>4. CASE PrologSkip
  BY <1>4 DEF PrologSkip, Lockstep, Places, AtStart, libVars
<1>5. CASE PrologSkipped
  BY <1>5 DEF PrologSkipped, Lockstep, tracerVars, libVars
<1>6. CASE PrologStepOver
  BY <1>6 DEF PrologStepOver, Spend, Lockstep, Places, AtStart, libVars
<1>7. CASE PrologStepExit
  BY <1>7 DEF PrologStepExit, Lockstep, libVars
<1>8. CASE PrologStray
  BY <1>8 DEF PrologStray, Lockstep, AtStart, tracerVars, libVars
<1>9. CASE PrologHitAgain
  BY <1>9 DEF PrologHitAgain, Lockstep, tracerVars, libVars
<1>10. CASE PrologFinished
  BY <1>10 DEF PrologFinished, Lockstep, Finished, libVars, Fail
<1>11. CASE PrologLost
  BY <1>11 DEF PrologLost, Lockstep, Fail, libVars
<1>12. CASE TimedSleep
  BY <1>12 DEF TimedSleep, Lockstep, InState, tracerVars, libVars
<1>13. CASE TimedWake
  BY <1>13 DEF TimedWake, Spend, Lockstep, tracerVars, libVars
<1>14. CASE TimedRoiEnd
  BY <1>14 DEF TimedRoiEnd, Lockstep, NextState, libVars
<1>15. CASE TimedFinished
  BY <1>15 DEF TimedFinished, Lockstep, Finished, Fail, libVars
<1>16. CASE TimedRace
  BY <1>16 DEF TimedRace, Lockstep, Fail, libVars
<1>17. ASSUME NEW yes \in BOOLEAN, TimedProlog(yes) PROVE Lockstep'
  <2>1. loc = "attachWait" /\ child = "stopped" /\ state = "prolog" /\ running
    BY <1>17 DEF TimedProlog, Places
  <2>2. CASE yes
    BY <1>17, <2>1, <2>2, EnterRoiCases, Interval DEF TimedProlog, Lockstep, TypeOK, libVars
  <2>3. CASE ~yes
    BY <1>17, <2>1, <2>3 DEF TimedProlog, NotTraced, Lockstep, TypeOK, libVars
  <2> QED
    BY <2>2, <2>3
<1>18. CASE RoiEnd
  BY <1>18 DEF RoiEnd, Lockstep, RoiStopped, NextState, libVars, InState
<1>19. CASE RoiForward
  BY <1>19 DEF RoiForward, Lockstep, RoiStopped, tracerVars, libVars, InState
<1>20. CASE RoiSyscall
  BY <1>20 DEF RoiSyscall, Lockstep, RoiStopped, tracerVars, libVars, InState
<1>21. CASE RoiSplit
  BY <1>21 DEF RoiSplit, Lockstep, TypeOK, Places, StopTrace, libVars, Call
<1>22. CASE RoiLost
  BY <1>22 DEF RoiLost, Lockstep, Fail, libVars
<1>23. ASSUME NEW code \in Exited, RoiExit(code) PROVE Lockstep'
  BY <1>23 DEF RoiExit, Lockstep, RoiStopped, libVars, InState
<1>24. CASE Epilog
  BY <1>24 DEF Epilog, Lockstep, TypeOK, InState, StopTrace, libVars, Call
<1>25. CASE StoppedEpilog
  BY <1>25 DEF StoppedEpilog, Lockstep, NextState, libVars
<1>26. CASE StoppedSplit
  <2>1. loc = "stopSplit" /\ child = "stopped" /\ state = "roi" /\ running
    BY <1>26 DEF StoppedSplit, Places
  <2>2. UNCHANGED <<state, traceId, libVars>>
    BY <1>26 DEF StoppedSplit
  <2>3. CASE LimitAt(traceId) /\ TracingEnabled
    <3>1. libId = traceId /\ captured = 0 .. libId - 1 /\ ~tracing
      BY <2>1, <2>3, ReadyToBegin
    <3>2. loc' = "loop" /\ running' = FALSE /\ UNCHANGED captured
      BY <1>26, <2>3 DEF StoppedSplit
    <3> QED
      BY <2>2, <2>3, <3>1, <3>2 DEF Lockstep, libVars
  <2>4. CASE ~LimitAt(traceId) /\ TracingEnabled
    <3>1. libId = traceId /\ captured = 0 .. libId - 1 /\ ~tracing /\ traceId \in Nat
      BY <2>1, <2>4, ReadyToBegin DEF TypeOK
    <3>2. loc' = "startSplit" /\ child' = "lib" /\ captured' = captured \cup {traceId}
      BY <1>26, <2>4 DEF StoppedSplit, Call, CaptureAt
    <3> QED
      BY <2>2, <2>4, <3>1, <3>2, Interval DEF Lockstep, libVars
  <2>5. CASE ~TracingEnabled
    <3>1. UNCHANGED captured /\ child' # "lib"
      BY <1>26, <2>1, <2>5 DEF StoppedSplit, Call, CaptureAt
    <3> QED
      BY <2>2, <2>5, <3>1 DEF Lockstep, libVars
  <2> QED
    BY <2>3, <2>4, <2>5
<1>27. CASE StartedEnter
  BY <1>27 DEF StartedEnter, Lockstep, Entered, libVars, NextState
<1>28. CASE StartedSplit
  BY <1>28 DEF StartedSplit, Lockstep, Places, tracerVars, libVars
<1>29. CASE CallBroken
  BY <1>29 DEF CallBroken, Spend, Lockstep, Fail, libVars
<1>30. CASE Finish
  BY <1>30 DEF Finish, Lockstep, KillChild, libVars
<1>31. CASE LibStart
  BY <1>31 DEF LibStart, Lockstep, tracerVars
<1>32. CASE LibStop
  BY <1>32 DEF LibStop, Lockstep, TypeOK, tracerVars
<1>33. CASE AppIllegal
  BY <1>33 DEF AppIllegal, Lockstep, Places, Alive, tracerVars, libVars
<1>34. CASE AppStep
  BY <1>34 DEF AppStep, Lockstep, tracerVars, libVars
<1>35. CASE AppSyscall
  BY <1>35 DEF AppSyscall, Lockstep, Places, Stops, tracerVars, libVars
<1>36. CASE AppFault
  BY <1>36 DEF AppFault, Lockstep, Places, Executing, tracerVars, libVars,
    Alive
<1>37. CASE HandlerSyscall
  BY <1>37 DEF HandlerSyscall, Lockstep, Places, Stops, tracerVars, libVars
<1>38. CASE HandlerReturn
  BY <1>38 DEF HandlerReturn, Lockstep, Places, Stops, tracerVars, libVars
<1>39. CASE AttachStop
  BY <1>39 DEF AttachStop, Lockstep, Stops, tracerVars, libVars
<1>40. ASSUME NEW code \in Exited, AppExit(code) PROVE Lockstep'
  BY <1>40 DEF AppExit, Lockstep, Places, Executing, Stops, tracerVars,
    libVars, Alive
<1>41. ASSUME NEW k \in Signals, Signal(k) PROVE Lockstep'
  BY <1>41 DEF Signal, Lockstep, Places, Alive, Stops, tracerVars, libVars
<1>42. CASE Terminated
  BY <1>42 DEF Terminated, Lockstep, vars, libVars
<1>43. CASE UNCHANGED vars
  BY <1>43 DEF vars, libVars, Lockstep
<1> QED
  BY <1>1, <1>2, <1>3, <1>4, <1>5, <1>6, <1>7, <1>8, <1>9, <1>10, <1>11,
    <1>12, <1>13, <1>14, <1>15, <1>16, <1>17, <1>18, <1>19, <1>20, <1>21,
    <1>22, <1>23, <1>24, <1>25, <1>26, <1>27, <1>28, <1>29, <1>30, <1>31,
    <1>32, <1>33, <1>34, <1>35, <1>36, <1>37, <1>38, <1>39, <1>40, <1>41,
    <1>42, <1>43 DEF Next, TracerNext, ChildNext

\* No step begins a trace at the limit.
LEMMA BelowLimitStep ==
  ASSUME TypeOK, Places, Lockstep, BelowLimit, [Next]_vars
  PROVE  BelowLimit'
<1> USE DEF Waits, Calls, Ended, Runs, Exited, Dead, StartCalls, StopCalls, Resume
<1>0. /\ form' = form
      /\ PrologMarks' = PrologMarks /\ RoiMarks' = RoiMarks
      /\ Marks' = Marks /\ Address' = Address
  BY FormFixed
<1> USE <1>0
<1>1. CASE PrologResume
  BY <1>1 DEF PrologResume, BelowLimit, InState, tracerVars
<1>2. CASE WaitforForward
  BY <1>2 DEF WaitforForward, BelowLimit, tracerVars
<1>3. CASE PrologEnter
  <2>1. loc = "prologWait" /\ running /\ EnterRoi
    BY <1>3 DEF PrologEnter, AtStart, Places
  <2> QED
    BY <2>1, EnterBelowLimit
<1>4. CASE PrologSkip
  BY <1>4 DEF PrologSkip, BelowLimit, Places, AtStart
<1>5. CASE PrologSkipped
  BY <1>5 DEF PrologSkipped, BelowLimit, tracerVars
<1>6. CASE PrologStepOver
  BY <1>6 DEF PrologStepOver, Spend, BelowLimit, Places, AtStart
<1>7. CASE PrologStepExit
  BY <1>7 DEF PrologStepExit, BelowLimit
<1>8. CASE PrologStray
  BY <1>8 DEF PrologStray, BelowLimit, AtStart, tracerVars
<1>9. CASE PrologHitAgain
  BY <1>9 DEF PrologHitAgain, BelowLimit, tracerVars
<1>10. CASE PrologFinished
  BY <1>10 DEF PrologFinished, BelowLimit, Finished, Fail, tracerVars
<1>11. CASE PrologLost
  BY <1>11 DEF PrologLost, BelowLimit, Fail, tracerVars
<1>12. CASE TimedSleep
  BY <1>12 DEF TimedSleep, BelowLimit, InState, tracerVars
<1>13. CASE TimedWake
  BY <1>13 DEF TimedWake, Spend, BelowLimit, tracerVars
<1>14. CASE TimedRoiEnd
  BY <1>14 DEF TimedRoiEnd, BelowLimit
<1>15. CASE TimedFinished
  BY <1>15 DEF TimedFinished, BelowLimit, Finished, Fail, tracerVars
<1>16. CASE TimedRace
  BY <1>16 DEF TimedRace, BelowLimit, Fail, tracerVars
<1>17. ASSUME NEW yes \in BOOLEAN, TimedProlog(yes) PROVE BelowLimit'
  <2>1. loc = "attachWait" /\ running
    BY <1>17 DEF TimedProlog, Places
  <2>2. CASE yes
    BY <1>17, <2>1, <2>2, EnterBelowLimit DEF TimedProlog
  <2>3. CASE ~yes
    BY <1>17, <2>1, <2>3 DEF TimedProlog, NotTraced, BelowLimit
  <2> QED
    BY <2>2, <2>3
<1>18. CASE RoiEnd
  BY <1>18 DEF RoiEnd, BelowLimit
<1>19. CASE RoiForward
  BY <1>19 DEF RoiForward, BelowLimit, tracerVars
<1>20. CASE RoiSyscall
  BY <1>20 DEF RoiSyscall, BelowLimit, RoiStopped, tracerVars, InState
<1>21. CASE RoiSplit
  BY <1>21, BudgetAssumption, FormTyped DEF RoiSplit, BelowLimit, TypeOK, Places, StopTrace,
    Call
<1>22. CASE RoiLost
  BY <1>22 DEF RoiLost, BelowLimit, Fail, tracerVars
<1>23. ASSUME NEW code \in Exited, RoiExit(code) PROVE BelowLimit'
  BY <1>23 DEF RoiExit, BelowLimit
<1>24. CASE Epilog
  BY <1>24, BudgetAssumption, FormTyped DEF Epilog, BelowLimit, TypeOK, InState, StopTrace,
    Call
<1>25. CASE StoppedEpilog
  BY <1>25 DEF StoppedEpilog, BelowLimit, LimitAt
<1>26. CASE StoppedSplit
  <2>1. loc = "stopSplit" /\ UNCHANGED traceId
    BY <1>26 DEF StoppedSplit
  <2>2. CASE LimitAt(traceId)
    BY <1>26, <2>1, <2>2 DEF StoppedSplit, BelowLimit
  <2>3. CASE ~LimitAt(traceId)
    <3>1. captured' \subseteq captured \cup {traceId}
      BY <1>26, <2>3 DEF StoppedSplit, CaptureAt
    <3> QED
      BY <2>1, <2>3, <3>1, BudgetAssumption, FormTyped DEF BelowLimit, LimitAt, TypeOK
  <2> QED
    BY <2>2, <2>3
<1>27. CASE StartedEnter
  BY <1>27 DEF StartedEnter, BelowLimit
<1>28. CASE StartedSplit
  BY <1>28 DEF StartedSplit, BelowLimit, tracerVars
<1>29. CASE CallBroken
  BY <1>29 DEF CallBroken, Spend, BelowLimit, Fail, tracerVars
<1>30. CASE Finish
  BY <1>30 DEF Finish, BelowLimit, tracerVars
<1>31. CASE LibStart
  BY <1>31 DEF LibStart, BelowLimit, tracerVars
<1>32. CASE LibStop
  BY <1>32 DEF LibStop, BelowLimit, tracerVars
<1>33. CASE AppIllegal
  BY <1>33 DEF AppIllegal, BelowLimit, tracerVars
<1>34. CASE AppStep
  BY <1>34 DEF AppStep, BelowLimit, tracerVars
<1>35. CASE AppSyscall
  BY <1>35 DEF AppSyscall, BelowLimit, tracerVars
<1>36. CASE AppFault
  BY <1>36 DEF AppFault, BelowLimit, tracerVars
<1>37. CASE HandlerSyscall
  BY <1>37 DEF HandlerSyscall, BelowLimit, tracerVars
<1>38. CASE HandlerReturn
  BY <1>38 DEF HandlerReturn, BelowLimit, tracerVars
<1>39. CASE AttachStop
  BY <1>39 DEF AttachStop, BelowLimit, tracerVars
<1>40. ASSUME NEW code \in Exited, AppExit(code) PROVE BelowLimit'
  BY <1>40 DEF AppExit, BelowLimit, tracerVars
<1>41. ASSUME NEW k \in Signals, Signal(k) PROVE BelowLimit'
  BY <1>41 DEF Signal, BelowLimit, tracerVars
<1>42. CASE Terminated
  BY <1>42 DEF Terminated, BelowLimit, vars
<1>43. CASE UNCHANGED vars
  BY <1>43 DEF vars, BelowLimit
<1> QED
  BY <1>1, <1>2, <1>3, <1>4, <1>5, <1>6, <1>7, <1>8, <1>9, <1>10, <1>11,
    <1>12, <1>13, <1>14, <1>15, <1>16, <1>17, <1>18, <1>19, <1>20, <1>21,
    <1>22, <1>23, <1>24, <1>25, <1>26, <1>27, <1>28, <1>29, <1>30, <1>31,
    <1>32, <1>33, <1>34, <1>35, <1>36, <1>37, <1>38, <1>39, <1>40, <1>41,
    <1>42, <1>43 DEF Next, TracerNext, ChildNext

\* The tracer ends only with the child dead.
LEMMA NoOrphanStep ==
  ASSUME TypeOK, Places, NoOrphan, [Next]_vars
  PROVE  NoOrphan'
<1> USE DEF Waits, Calls, Ended, Runs, Exited, Dead, StartCalls, StopCalls, Resume
<1>0. /\ form' = form
      /\ PrologMarks' = PrologMarks /\ RoiMarks' = RoiMarks
      /\ Marks' = Marks /\ Address' = Address
  BY FormFixed
<1> USE <1>0
<1>1. CASE PrologResume
  BY <1>1 DEF PrologResume, NoOrphan
<1>2. CASE WaitforForward
  BY <1>2 DEF WaitforForward, NoOrphan
<1>3. CASE PrologEnter
  BY <1>3 DEF PrologEnter, NoOrphan, EnterRoi, Entered, Call
<1>4. CASE PrologSkip
  BY <1>4 DEF PrologSkip, NoOrphan
<1>5. CASE PrologSkipped
  BY <1>5 DEF PrologSkipped, NoOrphan
<1>6. CASE PrologStepOver
  BY <1>6 DEF PrologStepOver, Spend, NoOrphan
<1>7. CASE PrologStepExit
  BY <1>7 DEF PrologStepExit, NoOrphan
<1>8. CASE PrologStray
  BY <1>8 DEF PrologStray, NoOrphan
<1>9. CASE PrologHitAgain
  BY <1>9 DEF PrologHitAgain, NoOrphan
<1>10. CASE PrologFinished
  BY <1>10 DEF PrologFinished, NoOrphan
<1>11. CASE PrologLost
  BY <1>11 DEF PrologLost, NoOrphan
<1>12. CASE TimedSleep
  BY <1>12 DEF TimedSleep, NoOrphan
<1>13. CASE TimedWake
  BY <1>13 DEF TimedWake, Spend, NoOrphan
<1>14. CASE TimedRoiEnd
  BY <1>14 DEF TimedRoiEnd, NoOrphan
<1>15. CASE TimedFinished
  BY <1>15 DEF TimedFinished, NoOrphan
<1>16. CASE TimedRace
  BY <1>16 DEF TimedRace, NoOrphan
<1>17. ASSUME NEW yes \in BOOLEAN, TimedProlog(yes) PROVE NoOrphan'
  BY <1>17 DEF TimedProlog, NoOrphan, EnterRoi, Entered, Call
<1>18. CASE RoiEnd
  BY <1>18 DEF RoiEnd, NoOrphan
<1>19. CASE RoiForward
  BY <1>19 DEF RoiForward, NoOrphan, RoiStopped
<1>20. CASE RoiSyscall
  BY <1>20 DEF RoiSyscall, NoOrphan
<1>21. CASE RoiSplit
  BY <1>21 DEF RoiSplit, NoOrphan, StopTrace, Call
<1>22. CASE RoiLost
  BY <1>22 DEF RoiLost, NoOrphan
<1>23. ASSUME NEW code \in Exited, RoiExit(code) PROVE NoOrphan'
  BY <1>23 DEF RoiExit, NoOrphan
<1>24. CASE Epilog
  BY <1>24 DEF Epilog, NoOrphan, StopTrace, Call
<1>25. CASE StoppedEpilog
  BY <1>25 DEF StoppedEpilog, NoOrphan
<1>26. CASE StoppedSplit
  BY <1>26 DEF StoppedSplit, NoOrphan, Call
<1>27. CASE StartedEnter
  BY <1>27 DEF StartedEnter, NoOrphan, Entered
<1>28. CASE StartedSplit
  BY <1>28 DEF StartedSplit, NoOrphan
<1>29. CASE CallBroken
  BY <1>29 DEF CallBroken, Spend, NoOrphan
<1>30. CASE Finish
  BY <1>30 DEF Finish, NoOrphan, KillChild
<1>31. CASE LibStart
  BY <1>31 DEF LibStart, NoOrphan
<1>32. CASE LibStop
  BY <1>32 DEF LibStop, NoOrphan
<1>33. CASE AppIllegal
  BY <1>33 DEF AppIllegal, NoOrphan, Alive
<1>34. CASE AppStep
  BY <1>34 DEF AppStep, NoOrphan
<1>35. CASE AppSyscall
  BY <1>35 DEF AppSyscall, NoOrphan
<1>36. CASE AppFault
  BY <1>36 DEF AppFault, NoOrphan, Executing, Alive
<1>37. CASE HandlerSyscall
  BY <1>37 DEF HandlerSyscall, NoOrphan
<1>38. CASE HandlerReturn
  BY <1>38 DEF HandlerReturn, NoOrphan, Alive
<1>39. CASE AttachStop
  BY <1>39 DEF AttachStop, NoOrphan
<1>40. ASSUME NEW code \in Exited, AppExit(code) PROVE NoOrphan'
  BY <1>40 DEF AppExit, NoOrphan
<1>41. ASSUME NEW k \in Signals, Signal(k) PROVE NoOrphan'
  BY <1>41 DEF Signal, NoOrphan, Alive
<1>42. CASE Terminated
  BY <1>42 DEF Terminated, NoOrphan, vars
<1>43. CASE UNCHANGED vars
  BY <1>43 DEF vars, NoOrphan
<1> QED
  BY <1>1, <1>2, <1>3, <1>4, <1>5, <1>6, <1>7, <1>8, <1>9, <1>10, <1>11,
    <1>12, <1>13, <1>14, <1>15, <1>16, <1>17, <1>18, <1>19, <1>20, <1>21,
    <1>22, <1>23, <1>24, <1>25, <1>26, <1>27, <1>28, <1>29, <1>30, <1>31,
    <1>32, <1>33, <1>34, <1>35, <1>36, <1>37, <1>38, <1>39, <1>40, <1>41,
    <1>42, <1>43 DEF Next, TracerNext, ChildNext

-----------------------------------------------------------------------------
\* The state in which Tracer::start finds the child satisfies the invariant.
LEMMA InitIInv == Init => IInv
<1> SUFFICES ASSUME Init PROVE IInv
  OBVIOUS
<1> USE DEF Init, Waits, Calls, Ended, Runs, Exited, Dead, StartCalls, StopCalls
<1>1. TypeOK
  <2>1. budget \in 0 .. Budget /\ planted \subseteq Marks
    BY BudgetAssumption, FormTyped DEF PrologMarks, Marks
  <2> QED
    BY <2>1 DEF TypeOK
<1>2. Places /\ Planting
  BY DEF Places, Planting
<1>3. Lockstep
  BY DEF Lockstep
<1>4. BelowLimit /\ NoOrphan
  BY <1>1, FormTyped DEF BelowLimit, NoOrphan
<1> QED
  BY <1>1, <1>2, <1>3, <1>4 DEF IInv

\* The invariant is inductive.
LEMMA NextIInv == IInv /\ [Next]_vars => IInv'
BY TypeOKStep, PlacesStep, PlantingStep, LockstepStep, BelowLimitStep, NoOrphanStep DEF IInv

\* The inductive invariant: where the tracer is, what the child may do, which
\* breakpoints are planted and how far the library has got always match.
THEOREM Invariance == Spec => []IInv
BY InitIInv, NextIInv, PTL DEF Spec

\* Type correctness of the tracer, the child and the library.
THEOREM TypeCorrect == Spec => []TypeOK
<1>1. IInv => TypeOK
  BY DEF IInv
<1> QED
  BY <1>1, Invariance, PTL

\* The library's checks "Tracing already started" and "already stopped" never
\* fire: starts and stops reach it in alternation.
THEOREM CallsAlternateAlways == Spec => []CallsAlternate
<1>1. ASSUME IInv, child = "lib" PROVE tracing <=> loc \in StopCalls
  <2>1. loc \in StartCalls \cup StopCalls
    BY <1>1 DEF IInv, Places, Calls, StartCalls, StopCalls
  <2>2. CASE loc \in StartCalls
    <3>1. ~tracing
      BY <1>1, <2>2 DEF IInv, TypeOK, Lockstep
    <3> QED
      BY <2>2, <3>1 DEF StartCalls, StopCalls
  <2>3. CASE loc \in StopCalls
    <3>1. tracing
      BY <1>1, <2>3 DEF IInv, TypeOK, Lockstep, StartCalls, StopCalls
    <3> QED
      BY <2>3, <3>1
  <2> QED
    BY <2>1, <2>2, <2>3
<1>2. IInv => CallsAlternate
  BY <1>1 DEF CallsAlternate, StopCalls
<1> QED
  BY <1>2, Invariance, PTL

\* The register dump and the pages of a trace carry the same number.
THEOREM DumpsAgreeAlways == Spec => []DumpsAgree
<1>1. IInv => DumpsAgree
  BY DEF IInv, TypeOK, Lockstep, DumpsAgree
<1> QED
  BY <1>1, Invariance, PTL

\* The program never runs with breakpoints of another state in its text.
THEOREM BreakpointsInForceAlways == Spec => []BreakpointsInForce
<1>1. IInv => BreakpointsInForce
  BY DEF IInv, TypeOK, Places, Planting, BreakpointsInForce, PrologMarks, RoiMarks, Waits,
         Calls, Ended
<1> QED
  BY <1>1, Invariance, PTL

\* -max-traces is a bound whatever splits the traces.
THEOREM LimitKeptAlways == Spec => []LimitKept
<1>1. IInv => LimitKept
  BY DEF IInv, BelowLimit, LimitKept
<1> QED
  BY <1>1, Invariance, PTL

\* However the tracer ends, it leaves no traced program behind.
THEOREM NoOrphanAlways == Spec => []NoOrphan
<1>1. IInv => NoOrphan
  BY DEF IInv
<1> QED
  BY <1>1, Invariance, PTL
-----------------------------------------------------------------------------
(* The trace directory: Tracer implements TraceLog.                        *)

\* Entering the region of interest begins the next trace, or no trace.
LEMMA EnterRoiBegins ==
  ASSUME TypeOK, Lockstep, state = "prolog", loc \in {"prologWait", "attachWait"},
         EnterRoi, UNCHANGED libId, UNCHANGED form
  PROVE  TraceDirectory!Next \/ UNCHANGED <<captured, libId>>
<1>1. UNCHANGED libId
  OBVIOUS
<1>2. CASE UNCHANGED captured
  BY <1>1, <1>2
<1>3. CASE TracingEnabled /\ ~LimitAt(traceId) /\ captured' = captured \cup {traceId}
  <2>1. libId = traceId /\ captured = 0 .. libId - 1 /\ traceId \in Nat
    BY <1>3, ReadyToBegin DEF TypeOK
  <2>2. TraceDirectory!Begin
    BY <1>1, <1>3, <2>1, BudgetAssumption, FormTyped DEF LimitAt, TraceDirectory!Begin
  <2> QED
    BY <2>2 DEF TraceDirectory!Next
<1> QED
  BY <1>2, <1>3, EnterRoiCases

\* After a split the next trace begins, unless the limit is reached.
LEMMA SplitBegins ==
  ASSUME TypeOK, Lockstep, StoppedSplit
  PROVE  TraceDirectory!Next \/ UNCHANGED <<captured, libId>>
<1>1. UNCHANGED <<libId, form>>
  BY DEF StoppedSplit, libVars
<1>2. CASE UNCHANGED captured
  BY <1>1, <1>2
<1>3. CASE TracingEnabled /\ ~LimitAt(traceId) /\ captured' = captured \cup {traceId}
  <2>1. libId = traceId /\ captured = 0 .. libId - 1 /\ traceId \in Nat
    BY <1>3, ReadyToBegin DEF StoppedSplit, TypeOK
  <2>2. TraceDirectory!Begin
    BY <1>1, <1>3, <2>1, BudgetAssumption, FormTyped DEF LimitAt, TraceDirectory!Begin
  <2> QED
    BY <2>2 DEF TraceDirectory!Next
<1> QED
  BY <1>2, <1>3 DEF StoppedSplit, CaptureAt

\* The library's stop completes the trace begun last.
LEMMA StopEnds ==
  ASSUME TypeOK, Lockstep, LibStop
  PROVE  TraceDirectory!Next \/ UNCHANGED <<captured, libId>>
<1>1. UNCHANGED <<captured, form>>
  BY DEF LibStop
<1>2. CASE UNCHANGED libId
  BY <1>1, <1>2
<1>3. CASE tracing /\ libId' = libId + 1
  BY <1>1, <1>3
     DEF LibStop, Lockstep, TypeOK, StartCalls, StopCalls, TraceDirectory!Next, TraceDirectory!End
<1> QED
  BY <1>2, <1>3 DEF LibStop, libVars

\* Every step of the tracer, the child and the library is a step of the trace
\* directory or changes nothing in it.
LEMMA StepRefines ==
  ASSUME IInv, [Next]_vars
  PROVE  TraceDirectory!Next \/ UNCHANGED <<captured, libId>>
<1>1. CASE PrologEnter
  BY <1>1, EnterRoiBegins DEF PrologEnter, AtStart, IInv, Places
<1>2. ASSUME NEW yes \in BOOLEAN, TimedProlog(yes)
      PROVE  TraceDirectory!Next \/ UNCHANGED <<captured, libId>>
  BY <1>2, EnterRoiBegins DEF TimedProlog, IInv, libVars
<1>3. CASE StoppedSplit
  BY <1>3, SplitBegins DEF IInv
<1>4. CASE LibStop
  BY <1>4, StopEnds DEF IInv
<1>5. ASSUME ~PrologEnter, ~StoppedSplit, ~LibStop, \A yes \in BOOLEAN : ~TimedProlog(yes)
      PROVE  UNCHANGED <<captured, libId>>
  BY <1>5 DEF Next, TracerNext, ChildNext, PrologResume, WaitforForward,
    PrologSkip, PrologSkipped, PrologStepOver, PrologStepExit, PrologStray,
    PrologHitAgain, PrologFinished, PrologLost, TimedSleep, TimedWake,
    TimedRoiEnd, TimedFinished, TimedRace, RoiEnd, RoiForward, RoiSyscall,
    RoiSplit, RoiLost, RoiExit, Epilog, StoppedEpilog, StartedEnter,
    StartedSplit, CallBroken, Finish, LibStart, AppIllegal, AppStep,
    AppSyscall, AppFault, HandlerSyscall, HandlerReturn, AttachStop, AppExit,
    Signal, Terminated, Fail, Finished, libVars, vars
<1> QED
  BY <1>1, <1>2, <1>3, <1>4, <1>5

\* The trace directory holds numbered traces, begun and ended in turn and never
\* more than -max-traces: the tracer and the library, who number the traces
\* each on their own, implement TraceLog together.
THEOREM Refinement == Spec => TraceDirectorySpec
<1>1. Init => TraceDirectory!Init
  BY InitIInv, FormTyped DEF IInv, Init, TraceDirectory!Init
<1>2. IInv /\ [Next]_vars => [TraceDirectory!Next]_(TraceDirectory!logVars)
  BY StepRefines, FormFixed DEF TraceDirectory!logVars
<1> QED
  BY <1>1, <1>2, Invariance, PTL DEF Spec, TraceDirectorySpec, TraceDirectory!Spec
-----------------------------------------------------------------------------
(* The marks.                                                              *)

\* Only two steps move the program: an instruction it executes, or the single
\* steps over a start mark that was not traced.
LEMMA Moves ==
  ASSUME [Next]_vars, pc' # pc
  PROVE  AppStep \/ PrologStepOver
BY DEF Next, TracerNext, ChildNext, PrologResume, WaitforForward,
    PrologEnter, PrologSkip, PrologSkipped, PrologStepExit, PrologStray,
    PrologHitAgain, PrologFinished, PrologLost, TimedSleep, TimedWake,
    TimedRoiEnd, TimedFinished, TimedRace, TimedProlog, RoiEnd, RoiForward,
    RoiSyscall, RoiSplit, RoiLost, RoiExit, Epilog, StoppedEpilog,
    StoppedSplit, StartedEnter, StartedSplit, CallBroken, Finish, LibStart,
    LibStop, AppIllegal, AppSyscall, AppFault, HandlerSyscall, HandlerReturn,
    AttachStop, AppExit, Signal, Terminated, vars

\* Between a start and an end mark the program cannot run past the end inside
\* a trace: the end breakpoints are in its text whenever it runs there.
THEOREM EndsCloseTraces == Spec => EndClosesTrace
<1>1. ASSUME Mode = "ranged", IInv, [Next]_vars, pc' # pc, pc \in Ends
      PROVE  ~tracing
  <2>1. AppStep
    BY <1>1, Moves DEF PrologStepOver
  <2>2. child \in Runs /\ pc \notin planted
    BY <2>1 DEF AppStep, Executing, Alive
  <2>3. CASE child = "sys"
    BY <1>1, <2>2, <2>3 DEF IInv, Places, Planting, Ended, RoiMarks
  <2>4. CASE child = "cont"
    BY <1>1, <2>4 DEF IInv, Places, Lockstep, Waits, Ended, StartCalls, StopCalls
  <2>5. CASE child = "free"
    BY <1>1, <2>5 DEF IInv, Places
  <2> QED
    BY <2>2, <2>3, <2>4, <2>5 DEF Runs
<1>2. IInv /\ [Next]_vars
        => [Mode = "ranged" /\ pc' # pc /\ pc \in Ends => ~tracing]_vars
  BY <1>1
<1> QED
  BY <1>2, Invariance, PTL DEF Spec, EndClosesTrace

\* Tracing all executions, the tracer never waits for the end of one it skips:
\* at the limit it has stopped before it reaches the next start mark.
NoSkip == Kind = "all" => loc # "skipWait"

\* No step skips an execution when all of them are traced.
LEMMA NoSkipStep ==
  ASSUME IInv, NoSkip, [Next]_vars
  PROVE  NoSkip'
<1> USE FormFixed
<1> SUFFICES ASSUME Kind = "all" PROVE NoSkip'
  BY DEF NoSkip
<1>1. CASE PrologSkip
  <2>1. LimitAt(traceId)
    BY <1>1 DEF PrologSkip, NotTraced, ShouldTrace
  <2>2. loc = "prologWait" /\ running
    BY <1>1 DEF PrologSkip, AtStart, IInv, Places
  <2> QED
    BY <2>1, <2>2, BudgetAssumption, FormTyped DEF IInv, TypeOK, BelowLimit, LimitAt, StopCalls, Ended
<1>2. CASE ~PrologSkip
  BY <1>2 DEF Next, TracerNext, ChildNext, PrologResume, WaitforForward,
    PrologEnter, PrologSkipped, PrologStepOver, PrologStepExit, PrologStray,
    PrologHitAgain, PrologFinished, PrologLost, TimedSleep, TimedWake,
    TimedRoiEnd, TimedFinished, TimedRace, TimedProlog, RoiEnd, RoiForward,
    RoiSyscall, RoiSplit, RoiLost, RoiExit, Epilog, StoppedEpilog,
    StoppedSplit, StartedEnter, StartedSplit, CallBroken, Finish, LibStart,
    LibStop, AppIllegal, AppStep, AppSyscall, AppFault, HandlerSyscall,
    HandlerReturn, AttachStop, AppExit, Signal, Terminated, Fail, Finished,
    EnterRoi, Entered, Call, StopTrace, NoSkip, vars
<1> QED
  BY <1>1, <1>2

\* With the tracer of all executions the instruction at a start mark is executed
\* only inside a trace, or after the tracer has decided to stop.
THEOREM AllInvocationsTraced == Spec => EveryInvocationTraced
<1>1. ASSUME Mode = "ranged", Kind = "all", TracingEnabled, IInv, NoSkip, [Next]_vars, pc' # pc, pc \in Starts, running
      PROVE  tracing
  <2>1. AppStep
    BY <1>1, Moves DEF PrologStepOver
  <2>2. child \in Runs /\ pc \notin planted /\ loc \notin Ended
    BY <2>1 DEF AppStep, Executing, Alive
  <2>3. CASE child = "sys"
    BY <1>1, <2>2, <2>3 DEF IInv, Places, Lockstep, Ended, StartCalls, StopCalls
  <2>4. CASE child = "cont"
    BY <1>1, <2>2, <2>4 DEF IInv, Places, Planting, NoSkip, PrologMarks, Waits, Ended
  <2>5. CASE child = "free"
    BY <1>1, <2>5 DEF IInv, Places
  <2> QED
    BY <2>2, <2>3, <2>4, <2>5 DEF Runs
<1>2. IInv /\ NoSkip /\ [Next]_vars
        => [Mode = "ranged" /\ Kind = "all" /\ TracingEnabled /\ pc' # pc /\ pc \in Starts /\ running
              => tracing]_vars
  BY <1>1
<1>3. Init => NoSkip
  BY DEF Init, NoSkip
<1>4. IInv /\ NoSkip /\ [Next]_vars => NoSkip'
  BY NoSkipStep
<1> QED
  BY <1>2, <1>3, <1>4, Invariance, PTL DEF Spec, EveryInvocationTraced
-----------------------------------------------------------------------------
(* Three more properties, each from IInv and a part of its own: splits and  *)
(* the fault handler, clean exits, and the list of -indices.               *)

\* The stop at a system call of the program is made outside of the handler, and
\* the handler does not start until the trace has been split.
LEMMA SplittingStep ==
  ASSUME TypeOK, Places, Splitting, [Next]_vars
  PROVE  Splitting'
<1> USE DEF Waits, Calls, Ended, Runs, Exited, Dead, Resume
<1>0. /\ form' = form
      /\ UNCHANGED <<HandlerKnown, Signals>> /\ (UNCHANGED call => UNCHANGED Splits)
  BY FormFixed, LayoutFixed
<1>1. CASE PrologResume
  BY <1>0, <1>1 DEF PrologResume, InState, Splitting, tracerVars, libVars
<1>2. CASE WaitforForward
  BY <1>0, <1>2 DEF WaitforForward, Handler, Splitting, tracerVars, libVars
<1>3. CASE PrologEnter
  <2>1. EnterRoi /\ UNCHANGED <<handling, call>>
    BY <1>3 DEF PrologEnter
  <2>2. loc' \in {"loop", "startEnter"} /\ (child' # "stopped" => stop' = "none")
        /\ (stop' = stop \/ stop' = "none")
    BY <2>1, EnterRoiCases DEF Splitting
  <2> QED
    BY <1>0, <2>1, <2>2 DEF Splitting
<1>4. CASE PrologSkip
  BY <1>0, <1>4 DEF PrologSkip, AtStart, NotTraced, ShouldTrace, SwapMarks, Splitting,
    tracerVars, libVars
<1>5. CASE PrologSkipped
  BY <1>0, <1>5 DEF PrologSkipped, SwapMarks, Splitting, tracerVars, libVars
<1>6. CASE PrologStepOver
  BY <1>0, <1>6 DEF PrologStepOver, AtStart, Spend, NotTraced, ShouldTrace, Splitting,
    tracerVars, libVars
<1>7. CASE PrologStepExit
  BY <1>0, <1>7 DEF PrologStepExit, AtStart, Splitting, tracerVars, libVars
<1>8. CASE PrologStray
  BY <1>0, <1>8 DEF PrologStray, AtStart, Splitting, tracerVars, libVars
<1>9. CASE PrologHitAgain
  BY <1>0, <1>9 DEF PrologHitAgain, Splitting, tracerVars, libVars
<1>10. CASE PrologFinished
  BY <1>0, <1>10 DEF PrologFinished, Finished, Fail, Splitting, tracerVars, libVars
<1>11. CASE PrologLost
  BY <1>0, <1>11 DEF PrologLost, Fail, Splitting, tracerVars, libVars
<1>12. CASE TimedSleep
  BY <1>0, <1>12 DEF TimedSleep, InState, Splitting, tracerVars, libVars
<1>13. CASE TimedWake
  BY <1>0, <1>13 DEF TimedWake, Spend, Splitting, tracerVars, libVars
<1>14. CASE TimedRoiEnd
  BY <1>0, <1>14 DEF TimedRoiEnd, Splitting, tracerVars, libVars
<1>15. CASE TimedFinished
  BY <1>0, <1>15 DEF TimedFinished, Finished, Fail, Splitting, tracerVars, libVars
<1>16. CASE TimedRace
  BY <1>0, <1>16 DEF TimedRace, Fail, Splitting, tracerVars, libVars
<1>17. ASSUME NEW yes \in BOOLEAN, TimedProlog(yes) PROVE Splitting'
  <2>1. CASE yes
    <3>1. EnterRoi /\ UNCHANGED <<handling, call>>
      BY <1>17, <2>1 DEF TimedProlog
    <3>2. loc' \in {"loop", "startEnter"} /\ (child' # "stopped" => stop' = "none")
          /\ (stop' = stop \/ stop' = "none")
      BY <3>1, EnterRoiCases DEF Splitting
    <3> QED
      BY <1>0, <3>1, <3>2 DEF Splitting
  <2>2. CASE ~yes
    BY <1>0, <1>17, <2>2 DEF TimedProlog, Splitting
  <2> QED
    BY <2>1, <2>2
<1>18. CASE RoiEnd
  BY <1>0, <1>18 DEF RoiEnd, RoiStopped, InState, SwapMarks, Splitting, tracerVars, libVars
<1>19. CASE RoiForward
  BY <1>0, <1>19 DEF RoiForward, RoiStopped, InState, Handler, Splitting, tracerVars,
    libVars
<1>20. CASE RoiSyscall
  BY <1>0, <1>20 DEF RoiSyscall, RoiStopped, InState, Splitting, tracerVars,
    libVars
<1>21. CASE RoiSplit
  BY <1>0, <1>21 DEF RoiSplit, StopTrace, Call, Splitting, tracerVars, libVars
<1>22. CASE RoiLost
  BY <1>0, <1>22 DEF RoiLost, InState, Fail, Splitting, tracerVars, libVars
<1>23. ASSUME NEW code \in Exited, RoiExit(code) PROVE Splitting'
  BY <1>0, <1>23 DEF RoiExit, RoiStopped, InState, Splitting, tracerVars, libVars
<1>24. CASE Epilog
  BY <1>0, <1>24 DEF Epilog, InState, StopTrace, Call, Splitting, tracerVars, libVars
<1>25. CASE StoppedEpilog
  BY <1>0, <1>25 DEF StoppedEpilog, SwapMarks, Splitting, tracerVars, libVars
<1>26. CASE StoppedSplit
  BY <1>0, <1>26 DEF StoppedSplit, Call, CaptureAt, Splitting, tracerVars, libVars
<1>27. CASE StartedEnter
  BY <1>0, <1>27 DEF StartedEnter, Entered, Splitting, tracerVars, libVars
<1>28. CASE StartedSplit
  BY <1>0, <1>28 DEF StartedSplit, Splitting, tracerVars, libVars
<1>29. CASE CallBroken
  BY <1>0, <1>29 DEF CallBroken, Spend, Fail, Splitting, tracerVars, libVars
<1>30. CASE Finish
  BY <1>0, <1>30 DEF Finish, KillChild, Splitting, tracerVars, libVars
<1>31. CASE LibStart
  BY <1>0, <1>31 DEF LibStart, Splitting, tracerVars, libVars
<1>32. CASE LibStop
  BY <1>0, <1>32 DEF LibStop, Splitting, tracerVars, libVars
<1>33. CASE AppIllegal
  BY <1>0, <1>33 DEF AppIllegal, Alive, Splitting, tracerVars, libVars
<1>34. CASE AppStep
  BY <1>0, <1>34 DEF AppStep, Executing, Alive, Spend, Splitting, tracerVars, libVars
<1>35. CASE AppSyscall
  BY <1>0, <1>35 DEF AppSyscall, Executing, Alive, Spend, Stops, Splitting, tracerVars,
    libVars
<1>36. CASE AppFault
  BY <1>0, <1>36 DEF AppFault, Executing, Alive, Spend, Stops, Splitting, tracerVars,
    libVars, Places
<1>37. CASE HandlerSyscall
  <2>1. PICK a \in Own : call'.lnk = a
    BY <1>37 DEF HandlerSyscall
  <2>2. HandlerKnown => ~Splits'
    BY <1>0, <2>1 DEF HandlerKnown, Splits, InSupport, InVdso, Own, Support, Vdso
  <2> QED
    BY <1>0, <1>37, <2>2 DEF HandlerSyscall, Alive, Spend, Stops, Splitting, tracerVars,
      Places
<1>38. CASE HandlerReturn
  BY <1>0, <1>38 DEF HandlerReturn, Alive, Stops, Splitting, tracerVars, libVars
<1>39. CASE AttachStop
  BY <1>0, <1>39 DEF AttachStop, Stops, Splitting, tracerVars, libVars
<1>40. ASSUME NEW code \in Exited, AppExit(code) PROVE Splitting'
  BY <1>0, <1>40 DEF AppExit, Executing, Alive, Stops, Splitting, tracerVars, libVars
<1>41. ASSUME NEW k \in Signals, Signal(k) PROVE Splitting'
  BY <1>0, <1>41, FormTyped DEF Signal, Alive, Spend, Stops, Splitting, tracerVars,
    libVars, Places, SignalKinds
<1>42. CASE Terminated
  BY <1>0, <1>42 DEF Terminated, vars, libVars, Splitting
<1>43. CASE UNCHANGED vars
  BY <1>0, <1>43 DEF vars, libVars, Splitting
<1> QED
  BY <1>1, <1>2, <1>3, <1>4, <1>5, <1>6, <1>7, <1>8, <1>9, <1>10, <1>11, <1>12, <1>13,
    <1>14, <1>15, <1>16, <1>17, <1>18, <1>19, <1>20, <1>21, <1>22, <1>23, <1>24, <1>25,
    <1>26, <1>27, <1>28, <1>29, <1>30, <1>31, <1>32, <1>33, <1>34, <1>35, <1>36, <1>37,
    <1>38, <1>39, <1>40, <1>41, <1>42, <1>43 DEF Next, TracerNext, ChildNext

\* A trace is split only between instructions of the program, never inside the
\* library's fault handler, wherever the layout shows the handler's calls and for
\* programs without signal handlers that signals from outside run.
THEOREM SplitsOutsideHandlerAlways == Spec => []SplitsOutsideHandler
<1>1. Init => Splitting
  BY DEF Init, Splitting
<1>2. IInv /\ Splitting /\ [Next]_vars => Splitting'
  BY SplittingStep DEF IInv
<1>3. Splitting => SplitsOutsideHandler
  BY DEF Splitting, SplitsOutsideHandler
<1> QED
  BY <1>1, <1>2, <1>3, Invariance, PTL DEF Spec

\* The traces due and those counted go apart only between the stop at a system
\* call of the program and the start of the trace that follows it.
LEMMA PromisedStep ==
  ASSUME TypeOK, Places, Lockstep, Promised, [Next]_vars,
         child # "stopped" => stop = "none"
  PROVE  Promised'
<1> SUFFICES ASSUME Unlimited, LayoutKnown PROVE Promised'
  <2>1. UNCHANGED <<Unlimited, LayoutKnown>>
    BY FormFixed, LayoutFixed
  <2> QED
    BY <2>1 DEF Promised
<1> USE DEF Waits, Calls, Ended, Runs, Exited, Dead, StartCalls, StopCalls, Resume, Count
<1>a. /\ form' = form /\ (UNCHANGED call => UNCHANGED Splits)
      /\ Mode = "ranged" /\ TracingEnabled /\ traceId \in Nat /\ due \in Nat
      /\ ~LimitAt(traceId)
      /\ child # "stopped" => stop = "none"
  <2>1. form' = form /\ (UNCHANGED call => UNCHANGED Splits)
    BY FormFixed, LayoutFixed
  <2>2. MaxTraces = 0 /\ Mode = "ranged" /\ TracingEnabled
    BY DEF Unlimited
  <2> QED
    BY <2>1, <2>2 DEF LimitAt, TypeOK
<1>b. /\ stop = "sys" => loc = "loop" /\ state = "roi" /\ tracing
      /\ child = "sys" => tracing
      /\ loc = "loop" => due = traceId + Count(tracing) + Count(stop = "sys" /\ Splits)
      /\ loc \in {"prologWait", "skipWait", "strayWait", "stopEpilog"} => due = traceId
      /\ loc \in {"startEnter", "stopSplit", "startSplit"} => due = traceId + 1
      /\ loc = "serviced" => due = traceId + 2
  BY DEF Promised
<1>c. /\ loc \in StartCalls => (tracing <=> child = "stopped")
      /\ loc \in StopCalls => (tracing <=> child # "stopped")
      /\ loc \notin StartCalls \cup StopCalls \cup Ended =>
            \/ (state = "prolog" \/ ~running) /\ ~tracing
            \/ state # "prolog" /\ tracing
  BY <1>a DEF Lockstep
<1>1. CASE PrologResume
  BY <1>a, <1>b, <1>c, <1>1 DEF PrologResume, InState, Promised, Places,
    tracerVars, libVars
<1>2. CASE WaitforForward
  BY <1>a, <1>b, <1>c, <1>2 DEF WaitforForward, Handler, Promised, Places,
    tracerVars, libVars
<1>3. CASE PrologEnter
  <2>1. EnterRoi /\ loc = "prologWait" /\ UNCHANGED <<tracing, call>>
    BY <1>3 DEF PrologEnter, AtStart
  <2>2. /\ loc' = "startEnter" /\ due' = due + 1 /\ traceId' = traceId
        /\ child' = "lib" /\ stop' = "none"
    BY <1>a, <2>1, EnterRoiCases
  <2> QED
    BY <1>a, <1>b, <2>1, <2>2 DEF Promised
<1>4. CASE PrologSkip
  BY <1>a, <1>b, <1>c, <1>4 DEF PrologSkip, AtStart, NotTraced, ShouldTrace, SwapMarks, Promised,
    tracerVars, libVars
<1>5. CASE PrologSkipped
  BY <1>a, <1>b, <1>c, <1>5 DEF PrologSkipped, SwapMarks, Promised, Places,
    tracerVars, libVars
<1>6. CASE PrologStepOver
  BY <1>a, <1>b, <1>c, <1>6 DEF PrologStepOver, AtStart, Spend, NotTraced, ShouldTrace, Promised,
    tracerVars, libVars
<1>7. CASE PrologStepExit
  BY <1>a, <1>b, <1>c, <1>7 DEF PrologStepExit, AtStart, Promised, Places,
    tracerVars, libVars
<1>8. CASE PrologStray
  BY <1>a, <1>b, <1>c, <1>8 DEF PrologStray, AtStart, Promised, Places,
    tracerVars, libVars
<1>9. CASE PrologHitAgain
  BY <1>a, <1>b, <1>c, <1>9 DEF PrologHitAgain, Promised, Places,
    tracerVars, libVars
<1>10. CASE PrologFinished
  <2>1. /\ loc = "prologWait" /\ child \in Dead /\ state = "prolog" /\ stop = "none"
        /\ ~tracing /\ due = traceId
    BY <1>a, <1>b, <1>c, <1>10 DEF PrologFinished, Places
  <2>2. /\ loc' \in {"loop", "failed"}
        /\ UNCHANGED <<traceId, child, stop, tracing, due>>
    BY <1>10 DEF PrologFinished, Finished, Fail, tracerVars, libVars
  <2> QED
    BY <1>a, <2>1, <2>2 DEF Promised
<1>11. CASE PrologLost
  BY <1>a, <1>b, <1>c, <1>11 DEF PrologLost, Fail, Promised, Places,
    tracerVars, libVars
<1>12. CASE TimedSleep
  BY <1>a, <1>b, <1>c, <1>12 DEF TimedSleep, InState, Promised, Places,
    tracerVars, libVars
<1>13. CASE TimedWake
  BY <1>a, <1>b, <1>c, <1>13 DEF TimedWake, Spend, Promised, Places,
    tracerVars, libVars
<1>14. CASE TimedRoiEnd
  BY <1>a, <1>b, <1>c, <1>14 DEF TimedRoiEnd, Promised, Places,
    tracerVars, libVars
<1>15. CASE TimedFinished
  BY <1>a, <1>b, <1>c, <1>15 DEF TimedFinished, Finished, Fail, Promised, Places,
    tracerVars, libVars
<1>16. CASE TimedRace
  BY <1>a, <1>b, <1>c, <1>16 DEF TimedRace, Fail, Promised, Places,
    tracerVars, libVars
<1>17. ASSUME NEW yes \in BOOLEAN, TimedProlog(yes) PROVE Promised'
  <2>1. Mode # "ranged"
    BY <1>17 DEF TimedProlog, Places
  <2> QED
    BY <1>a, <2>1
<1>18. CASE RoiEnd
  BY <1>a, <1>b, <1>c, <1>18 DEF RoiEnd, RoiStopped, InState, SwapMarks, Promised, Places,
    tracerVars, libVars
<1>19. CASE RoiForward
  BY <1>a, <1>b, <1>c, <1>19 DEF RoiForward, RoiStopped, InState, Handler, Promised, Places,
    tracerVars, libVars
<1>20. CASE RoiSyscall
  BY <1>a, <1>b, <1>c, <1>20 DEF RoiSyscall, RoiStopped, InState, Promised, Places,
    tracerVars, libVars
<1>21. CASE RoiSplit
  BY <1>a, <1>b, <1>c, <1>21 DEF RoiSplit, StopTrace, Call, Promised, Places,
    tracerVars, libVars
<1>22. CASE RoiLost
  BY <1>a, <1>b, <1>c, <1>22 DEF RoiLost, InState, Fail, Promised, Places,
    tracerVars, libVars
<1>23. ASSUME NEW code \in Exited, RoiExit(code) PROVE Promised'
  BY <1>a, <1>b, <1>c, <1>23 DEF RoiExit, RoiStopped, InState, Promised, Places,
    tracerVars, libVars
<1>24. CASE Epilog
  BY <1>a, <1>b, <1>c, <1>24 DEF Epilog, InState, StopTrace, Call, Promised, Places,
    tracerVars, libVars
<1>25. CASE StoppedEpilog
  BY <1>a, <1>b, <1>c, <1>25 DEF StoppedEpilog, SwapMarks, Promised, Places,
    tracerVars, libVars
<1>26. CASE StoppedSplit
  BY <1>a, <1>b, <1>c, <1>26 DEF StoppedSplit, Call, CaptureAt, Promised, Places,
    tracerVars, libVars
<1>27. CASE StartedEnter
  BY <1>a, <1>b, <1>c, <1>27 DEF StartedEnter, Entered, Promised, Places,
    tracerVars, libVars
<1>28. CASE StartedSplit
  BY <1>a, <1>b, <1>c, <1>28 DEF StartedSplit, Promised, Places,
    tracerVars, libVars
<1>29. CASE CallBroken
  BY <1>a, <1>b, <1>c, <1>29 DEF CallBroken, Spend, Fail, Promised, Places,
    tracerVars, libVars
<1>30. CASE Finish
  BY <1>a, <1>b, <1>c, <1>30 DEF Finish, KillChild, Promised, Places,
    tracerVars, libVars
<1>31. CASE LibStart
  BY <1>a, <1>b, <1>c, <1>31 DEF LibStart, Promised, Places,
    tracerVars, libVars
<1>32. CASE LibStop
  BY <1>a, <1>b, <1>c, <1>32 DEF LibStop, Promised, Places,
    tracerVars, libVars
<1>33. CASE AppIllegal
  BY <1>a, <1>b, <1>c, <1>33 DEF AppIllegal, Alive, Promised, Places,
    tracerVars, libVars
<1>34. CASE AppStep
  BY <1>a, <1>b, <1>c, <1>34 DEF AppStep, Executing, Alive, Spend, Promised, Places,
    tracerVars, libVars
<1>35. CASE AppSyscall
  <2>1. PICK a \in Callers : call' = [lnk |-> a, nr |-> "other"]
    BY <1>35 DEF AppSyscall
  <2>2. /\ child = "sys" /\ loc = "loop" /\ state = "roi" /\ tracing /\ stop = "none"
        /\ stop' = "sys" /\ child' = "stopped" /\ due' = due + 1
        /\ UNCHANGED <<loc, state, tracing, traceId>>
    BY <1>a, <1>b, <1>35 DEF AppSyscall, Stops, Places, tracerVars
  <2>3. Splits'
    <3>1. a \in Nat /\ a \notin Support /\ a < Vdso /\ Vdso \in Nat
      BY FormsAssumption DEF LayoutKnown, TypeOK, Callers, Vdso
    <3> QED
      BY <1>a, <2>1, <3>1 DEF Splits, InSupport, InVdso, SigReturn, Support, Vdso, Sysz
  <2> QED
    BY <1>a, <1>b, <2>2, <2>3 DEF Promised
<1>36. CASE AppFault
  BY <1>a, <1>b, <1>c, <1>36 DEF AppFault, Executing, Alive, Spend, Stops, Promised, Places,
    tracerVars, libVars
<1>37. CASE HandlerSyscall
  <2>1. PICK a \in Own : call'.lnk = a
    BY <1>37 DEF HandlerSyscall
  <2>2. ~Splits'
    BY <1>a, <2>1 DEF LayoutKnown, HandlerKnown, Splits, InSupport, InVdso, Own, Support, Vdso
  <2> QED
    BY <1>a, <1>b, <1>c, <1>37, <2>2 DEF HandlerSyscall, Alive, Spend, Stops, Promised,
      Places, tracerVars
<1>38. CASE HandlerReturn
  <2>1. CASE child = "sys"
    <3>1. PICK a \in Returns : call'.lnk = a /\ call'.nr = "sigreturn"
      BY <1>38, <2>1 DEF HandlerReturn
    <3>2. ~Splits'
      BY <1>a, <3>1 DEF LayoutKnown, Splits, InSupport, InVdso, SigReturn, Returns, Support,
        Vdso, Sysz
    <3> QED
      BY <1>a, <1>b, <1>c, <1>38, <2>1, <3>2 DEF HandlerReturn, Alive, Stops, Promised,
        Places, tracerVars
  <2>2. CASE child # "sys"
    BY <1>a, <1>b, <1>c, <1>38, <2>2 DEF HandlerReturn, Alive, Promised, Places, tracerVars
  <2> QED
    BY <2>1, <2>2
<1>39. CASE AttachStop
  BY <1>a, <1>b, <1>c, <1>39 DEF AttachStop, Stops, Promised, Places,
    tracerVars, libVars
<1>40. ASSUME NEW code \in Exited, AppExit(code) PROVE Promised'
  BY <1>a, <1>b, <1>c, <1>40 DEF AppExit, Executing, Alive, Stops, Promised, Places,
    tracerVars, libVars
<1>41. ASSUME NEW k \in Signals, Signal(k) PROVE Promised'
  BY <1>a, <1>b, <1>c, <1>41, FormTyped DEF Signal, Alive, Spend, Stops, Promised, Places,
    tracerVars, libVars, SignalKinds
<1>42. CASE Terminated
  BY <1>a, <1>b, <1>c, <1>42 DEF Terminated, vars, libVars, Promised, Places
<1>43. CASE UNCHANGED vars
  BY <1>a, <1>b, <1>c, <1>43 DEF vars, libVars, Promised, Places
<1> QED
  BY <1>1, <1>2, <1>3, <1>4, <1>5, <1>6, <1>7, <1>8, <1>9, <1>10, <1>11, <1>12, <1>13,
    <1>14, <1>15, <1>16, <1>17, <1>18, <1>19, <1>20, <1>21, <1>22, <1>23, <1>24, <1>25,
    <1>26, <1>27, <1>28, <1>29, <1>30, <1>31, <1>32, <1>33, <1>34, <1>35, <1>36, <1>37,
    <1>38, <1>39, <1>40, <1>41, <1>42, <1>43 DEF Next, TracerNext, ChildNext


\* No limit, and a layout that shows whose the system calls are: there is one
\* trace per execution, and one more per system call of the program in it.
THEOREM TracesAsPromisedAlways == Spec => []TracesAsPromised
<1>1. Init => Promised
  BY FormsAssumption DEF Init, Promised, Count
<1>2. IInv /\ Splitting /\ Promised /\ [Next]_vars => Promised'
  BY PromisedStep DEF IInv, Splitting
<1>3. Init => Splitting
  BY DEF Init, Splitting
<1>4. IInv /\ Splitting /\ [Next]_vars => Splitting'
  BY SplittingStep DEF IInv
<1>5. IInv /\ Promised => TracesAsPromised
  BY DEF IInv, TypeOK, Promised, TracesAsPromised, Count
<1> QED
  BY <1>1, <1>2, <1>3, <1>4, <1>5, Invariance, PTL DEF Spec
-----------------------------------------------------------------------------
(* Clean exits.                                                            *)

\* As long as no execution is skipped and every illegal instruction is a mark,
\* the tracer looks for the end of the program wherever it may exit.
LEMMA LeavingStep ==
  ASSUME TypeOK, Places, Planting, BelowLimit, Leaving, [Next]_vars
  PROVE  Leaving'
<1> USE DEF Waits, Calls, Ended, Runs, Exited, Dead, Resume
<1>0. form' = form /\ PrologMarks' = PrologMarks /\ RoiMarks' = RoiMarks
  BY FormFixed
<1>1. CASE PrologResume
  BY <1>0, <1>1 DEF PrologResume, InState, Leaving, tracerVars, libVars
<1>2. CASE WaitforForward
  BY <1>0, <1>2 DEF WaitforForward, Handler, Leaving, tracerVars, libVars
<1>3. CASE PrologEnter
  <2>1. EnterRoi /\ loc = "prologWait" /\ child = "stopped" /\ UNCHANGED pc
    BY <1>3 DEF PrologEnter, AtStart
  <2>2. loc' \in {"loop", "startEnter"} /\ child' # "exit0"
    BY <2>1, EnterRoiCases
  <2> QED
    BY <1>0, <2>1, <2>2 DEF Leaving
<1>4. CASE PrologSkip
  <2>1. running /\ ~LimitAt(traceId)
    BY <1>4, BudgetAssumption, FormTyped DEF PrologSkip, AtStart, Places, BelowLimit, LimitAt,
       StopCalls, TypeOK
  <2>2. Kind # "all"
    BY <1>4, <2>1 DEF PrologSkip, NotTraced, ShouldTrace
  <2> QED
    BY <1>0, <2>2 DEF Leaving
<1>5. CASE PrologSkipped
  BY <1>0, <1>5 DEF PrologSkipped, SwapMarks, Leaving, tracerVars, libVars
<1>6. CASE PrologStepOver
  BY <1>0, <1>6 DEF PrologStepOver, AtStart, Spend, NotTraced, ShouldTrace, Leaving,
    tracerVars, libVars
<1>7. CASE PrologStepExit
  BY <1>0, <1>7 DEF PrologStepExit, AtStart, Leaving, tracerVars, libVars
<1>8. CASE PrologStray
  BY <1>0, <1>8 DEF PrologStray, AtStart, Leaving, tracerVars, libVars
<1>9. CASE PrologHitAgain
  BY <1>0, <1>9 DEF PrologHitAgain, Leaving, tracerVars, libVars
<1>10. CASE PrologFinished
  BY <1>0, <1>10 DEF PrologFinished, Finished, Fail, Leaving, tracerVars, libVars
<1>11. CASE PrologLost
  BY <1>0, <1>11 DEF PrologLost, Fail, Leaving, tracerVars, libVars
<1>12. CASE TimedSleep
  BY <1>0, <1>12 DEF TimedSleep, InState, Leaving, tracerVars, libVars
<1>13. CASE TimedWake
  BY <1>0, <1>13 DEF TimedWake, Spend, Leaving, tracerVars, libVars
<1>14. CASE TimedRoiEnd
  BY <1>0, <1>14 DEF TimedRoiEnd, Leaving, tracerVars, libVars
<1>15. CASE TimedFinished
  BY <1>0, <1>15 DEF TimedFinished, Finished, Fail, Leaving, tracerVars, libVars
<1>16. CASE TimedRace
  BY <1>0, <1>16 DEF TimedRace, Fail, Leaving, tracerVars, libVars
<1>17. ASSUME NEW yes \in BOOLEAN, TimedProlog(yes) PROVE Leaving'
  <2>1. Mode # "ranged"
    BY <1>17 DEF TimedProlog, Places
  <2> QED
    BY <1>0, <2>1 DEF Leaving
<1>18. CASE RoiEnd
  BY <1>0, <1>18 DEF RoiEnd, RoiStopped, InState, SwapMarks, Leaving, tracerVars, libVars
<1>19. CASE RoiForward
  BY <1>0, <1>19 DEF RoiForward, RoiStopped, InState, Handler, Leaving, tracerVars, libVars
<1>20. CASE RoiSyscall
  BY <1>0, <1>20 DEF RoiSyscall, RoiStopped, InState, Leaving, tracerVars, libVars
<1>21. CASE RoiSplit
  BY <1>0, <1>21 DEF RoiSplit, StopTrace, Call, Leaving, tracerVars, libVars
<1>22. CASE RoiLost
  BY <1>0, <1>22 DEF RoiLost, InState, Fail, Leaving, tracerVars, libVars
<1>23. ASSUME NEW code \in Exited, RoiExit(code) PROVE Leaving'
  BY <1>0, <1>23 DEF RoiExit, RoiStopped, InState, Leaving, tracerVars, libVars
<1>24. CASE Epilog
  BY <1>0, <1>24 DEF Epilog, InState, StopTrace, Call, Leaving, tracerVars, libVars
<1>25. CASE StoppedEpilog
  BY <1>0, <1>25 DEF StoppedEpilog, SwapMarks, Leaving, tracerVars, libVars
<1>26. CASE StoppedSplit
  BY <1>0, <1>26 DEF StoppedSplit, Call, CaptureAt, Leaving, tracerVars, libVars
<1>27. CASE StartedEnter
  BY <1>0, <1>27 DEF StartedEnter, Entered, Leaving, tracerVars, libVars
<1>28. CASE StartedSplit
  BY <1>0, <1>28 DEF StartedSplit, Leaving, tracerVars, libVars
<1>29. CASE CallBroken
  BY <1>0, <1>29 DEF CallBroken, Spend, Fail, Leaving, tracerVars, libVars
<1>30. CASE Finish
  BY <1>0, <1>30 DEF Finish, KillChild, Leaving, tracerVars, libVars
<1>31. CASE LibStart
  BY <1>0, <1>31 DEF LibStart, Leaving, tracerVars, libVars
<1>32. CASE LibStop
  BY <1>0, <1>32 DEF LibStop, Leaving, tracerVars, libVars
<1>33. CASE AppIllegal
  BY <1>0, <1>33 DEF AppIllegal, Alive, Leaving, tracerVars, libVars, Planting,
    PrologMarks, Ended, Places
<1>34. CASE AppStep
  BY <1>0, <1>34 DEF AppStep, Executing, Alive, Spend, Leaving, tracerVars, libVars
<1>35. CASE AppSyscall
  BY <1>0, <1>35 DEF AppSyscall, Executing, Alive, Spend, Stops, Leaving, tracerVars,
    libVars
<1>36. CASE AppFault
  BY <1>0, <1>36 DEF AppFault, Executing, Alive, Spend, Stops, Leaving, tracerVars, libVars
<1>37. CASE HandlerSyscall
  BY <1>0, <1>37 DEF HandlerSyscall, Alive, Spend, Stops, Leaving, tracerVars, libVars
<1>38. CASE HandlerReturn
  BY <1>0, <1>38 DEF HandlerReturn, Alive, Stops, Leaving, tracerVars, libVars
<1>39. CASE AttachStop
  BY <1>0, <1>39 DEF AttachStop, Stops, Leaving, tracerVars, libVars
<1>40. ASSUME NEW code \in Exited, AppExit(code) PROVE Leaving'
  BY <1>0, <1>40 DEF AppExit, Executing, Alive, Stops, Leaving, tracerVars, libVars, Places
<1>41. ASSUME NEW k \in Signals, Signal(k) PROVE Leaving'
  BY <1>0, <1>41, FormTyped DEF Signal, Alive, Spend, Stops, Leaving, tracerVars, libVars,
    SignalKinds
<1>42. CASE Terminated
  BY <1>0, <1>42 DEF Terminated, vars, Leaving
<1>43. CASE UNCHANGED vars
  BY <1>43 DEF vars, Leaving
<1> QED
  BY <1>1, <1>2, <1>3, <1>4, <1>5, <1>6, <1>7, <1>8, <1>9, <1>10, <1>11, <1>12, <1>13,
    <1>14, <1>15, <1>16, <1>17, <1>18, <1>19, <1>20, <1>21, <1>22, <1>23, <1>24, <1>25,
    <1>26, <1>27, <1>28, <1>29, <1>30, <1>31, <1>32, <1>33, <1>34, <1>35, <1>36, <1>37,
    <1>38, <1>39, <1>40, <1>41, <1>42, <1>43 DEF Next, TracerNext, ChildNext

\* A program that exits with 0 is no error, in the mode that traces everything.
THEOREM CleanExitAlways == Spec => []CleanExit
<1>1. Init => Leaving
  BY DEF Init, Leaving
<1>2. IInv /\ Leaving /\ [Next]_vars => Leaving'
  BY LeavingStep DEF IInv
<1>3. Leaving => CleanExit
  BY DEF Leaving, CleanExit
<1> QED
  BY <1>1, <1>2, <1>3, Invariance, PTL DEF Spec
-----------------------------------------------------------------------------
(* The list of executions.                                                 *)

\* Among increasing numbers, those below a bound are the first ones.
LEMMA FirstOnes ==
  ASSUME NEW list \in Seq(Nat), Increasing(list), NEW n \in 0 .. Len(list), NEW bound \in Nat,
         \A i \in 1 .. Len(list) : i <= n <=> list[i] < bound
  PROVE  /\ n < Len(list) /\ list[n + 1] = bound =>
              \A i \in 1 .. Len(list) : i <= n + 1 <=> list[i] < bound + 1
         /\ n < Len(list) /\ list[n + 1] # bound =>
              \A i \in 1 .. Len(list) : i <= n <=> list[i] < bound + 1
         /\ n = Len(list) =>
              \A i \in 1 .. Len(list) : i <= n <=> list[i] < bound + 1
<1>1. \A i \in 1 .. Len(list) : list[i] \in Nat
  OBVIOUS
<1>2. Len(list) \in Nat
  OBVIOUS
<1>3. \A i, j \in 1 .. Len(list) : i < j => list[i] < list[j]
  BY DEF Increasing
<1> QED
  BY <1>1, <1>2, <1>3, SMTT(30)

\* should_trace() answers yes when the execution is the next of the list.
LEMMA ShouldTraceList ==
  ASSUME TypeOK, ListUsed, Increasing(Indices), NEW yes \in BOOLEAN, ShouldTrace(yes), form' = form
  PROVE  ListUsed'
<1> SUFFICES ASSUME Kind = "indexed" PROVE ListUsed'
  BY DEF ListUsed
<1>1. /\ execution' = execution + 1
      /\ index' = IF yes THEN index + 1 ELSE index
      /\ traced' = IF yes THEN traced \cup {execution} ELSE traced
      /\ yes => index < Len(Indices) /\ Indices[index + 1] = execution
      /\ ~yes => index >= Len(Indices) \/ Indices[index + 1] # execution
  <2>1. index \in Nat /\ Len(Indices) \in Nat
    BY FormTyped DEF TypeOK
  <2>2. /\ execution' = execution + 1
        /\ index' = IF yes THEN index + 1 ELSE index
        /\ traced' = IF yes THEN traced \cup {execution} ELSE traced
    BY DEF ShouldTrace
  <2>3. (yes => ~Exhausted /\ Matches) /\ (~yes => Exhausted \/ ~Matches)
    BY DEF ShouldTrace
  <2> QED
    BY <2>1, <2>2, <2>3 DEF Exhausted, Matches
<1>2. /\ Indices \in Seq(Nat) /\ Len(Indices) \in Nat
      /\ index \in Nat /\ index \in 0 .. Len(Indices) /\ execution \in Nat
      /\ traced = {Indices[i] : i \in 1 .. index}
      /\ \A i \in 1 .. Len(Indices) : i <= index <=> Indices[i] < execution
  BY FormTyped DEF TypeOK, ListUsed
<1>3. Indices' = Indices /\ Kind' = Kind
  OBVIOUS
<1>4. index' <= Len(Indices)
  <2>1. CASE yes
    <3>1. index' = index + 1 /\ index < Len(Indices)
      BY <1>1, <2>1
    <3> QED
      BY <1>2, <3>1
  <2>2. CASE ~yes
    BY <1>1, <1>2, <2>2
  <2> QED
    BY <2>1, <2>2
<1>5. \A i \in 1 .. Len(Indices) : i <= index' <=> Indices[i] < execution'
  <2>1. CASE yes
    <3>1. index' = index + 1 /\ execution' = execution + 1
          /\ index < Len(Indices) /\ Indices[index + 1] = execution
      BY <1>1, <2>1
    <3> QED
      BY <1>2, <3>1, FirstOnes
  <2>2. CASE ~yes
    <3>1. index' = index /\ execution' = execution + 1
          /\ (index < Len(Indices) => Indices[index + 1] # execution)
      BY <1>1, <1>2, <2>2
    <3>2. CASE index < Len(Indices)
      BY <1>2, <3>1, <3>2, FirstOnes
    <3>3. CASE index = Len(Indices)
      BY <1>2, <3>1, <3>3, FirstOnes
    <3> QED
      BY <1>2, <3>2, <3>3
  <2> QED
    BY <2>1, <2>2
<1>6. traced' = {Indices[i] : i \in 1 .. index'}
  <2>1. CASE yes
    <3>1. index' = index + 1 /\ Indices[index + 1] = execution
          /\ traced' = traced \cup {execution}
      BY <1>1, <2>1
    <3>2. 1 .. index + 1 = (1 .. index) \cup {index + 1}
      BY <1>2
    <3> QED
      BY <1>2, <3>1, <3>2
  <2>2. CASE ~yes
    BY <1>1, <1>2, <2>2
  <2> QED
    BY <2>1, <2>2
<1> QED
  BY <1>3, <1>4, <1>5, <1>6 DEF ListUsed

\* Every other step leaves the counters alone.
LEMMA ListUsedStep ==
  ASSUME TypeOK, ListUsed, Increasing(Indices), [Next]_vars
  PROVE  ListUsed'
<1>0. form' = form /\ PrologMarks' = PrologMarks /\ RoiMarks' = RoiMarks
  BY FormFixed
<1>1. CASE PrologResume
  BY <1>0, <1>1 DEF PrologResume, ListUsed, tracerVars
<1>2. CASE WaitforForward
  BY <1>0, <1>2 DEF WaitforForward, ListUsed, tracerVars
<1>3. CASE PrologEnter
  BY <1>0, <1>3, ShouldTraceList DEF PrologEnter, NotTraced
<1>4. CASE PrologSkip
  BY <1>0, <1>4, ShouldTraceList DEF PrologSkip, NotTraced
<1>5. CASE PrologSkipped
  BY <1>0, <1>5 DEF PrologSkipped, ListUsed, tracerVars
<1>6. CASE PrologStepOver
  BY <1>0, <1>6, ShouldTraceList DEF PrologStepOver, NotTraced
<1>7. CASE PrologStepExit
  BY <1>0, <1>7, ShouldTraceList DEF PrologStepExit, NotTraced
<1>8. CASE PrologStray
  BY <1>0, <1>8 DEF PrologStray, ListUsed, tracerVars
<1>9. CASE PrologHitAgain
  BY <1>0, <1>9 DEF PrologHitAgain, ListUsed, tracerVars
<1>10. CASE PrologFinished
  BY <1>0, <1>10 DEF PrologFinished, Finished, Fail, ListUsed, tracerVars
<1>11. CASE PrologLost
  BY <1>0, <1>11 DEF PrologLost, Fail, ListUsed, tracerVars
<1>12. CASE TimedSleep
  BY <1>0, <1>12 DEF TimedSleep, ListUsed, tracerVars
<1>13. CASE TimedWake
  BY <1>0, <1>13 DEF TimedWake, ListUsed, tracerVars
<1>14. CASE TimedRoiEnd
  BY <1>0, <1>14 DEF TimedRoiEnd, ListUsed, tracerVars
<1>15. CASE TimedFinished
  BY <1>0, <1>15 DEF TimedFinished, Finished, Fail, ListUsed, tracerVars
<1>16. CASE TimedRace
  BY <1>0, <1>16 DEF TimedRace, Fail, ListUsed, tracerVars
<1>17. ASSUME NEW yes \in BOOLEAN, TimedProlog(yes) PROVE ListUsed'
  <2>1. CASE yes
    BY <1>0, <1>17, <2>1, ShouldTraceList DEF TimedProlog
  <2>2. CASE ~yes
    BY <1>0, <1>17, <2>2, ShouldTraceList DEF TimedProlog, NotTraced
  <2> QED
    BY <2>1, <2>2
<1>18. CASE RoiEnd
  BY <1>0, <1>18 DEF RoiEnd, ListUsed, tracerVars
<1>19. CASE RoiForward
  BY <1>0, <1>19 DEF RoiForward, ListUsed, tracerVars
<1>20. CASE RoiSyscall
  BY <1>0, <1>20 DEF RoiSyscall, ListUsed, tracerVars
<1>21. CASE RoiSplit
  BY <1>0, <1>21 DEF RoiSplit, ListUsed, tracerVars
<1>22. CASE RoiLost
  BY <1>0, <1>22 DEF RoiLost, Fail, ListUsed, tracerVars
<1>23. ASSUME NEW code \in Exited, RoiExit(code) PROVE ListUsed'
  BY <1>0, <1>23 DEF RoiExit, ListUsed, tracerVars
<1>24. CASE Epilog
  BY <1>0, <1>24 DEF Epilog, ListUsed, tracerVars
<1>25. CASE StoppedEpilog
  BY <1>0, <1>25 DEF StoppedEpilog, ListUsed, tracerVars
<1>26. CASE StoppedSplit
  BY <1>0, <1>26 DEF StoppedSplit, ListUsed, tracerVars
<1>27. CASE StartedEnter
  BY <1>0, <1>27 DEF StartedEnter, ListUsed, tracerVars
<1>28. CASE StartedSplit
  BY <1>0, <1>28 DEF StartedSplit, ListUsed, tracerVars
<1>29. CASE CallBroken
  BY <1>0, <1>29 DEF CallBroken, Fail, ListUsed, tracerVars
<1>30. CASE Finish
  BY <1>0, <1>30 DEF Finish, ListUsed, tracerVars
<1>31. CASE LibStart
  BY <1>0, <1>31 DEF LibStart, ListUsed, tracerVars
<1>32. CASE LibStop
  BY <1>0, <1>32 DEF LibStop, ListUsed, tracerVars
<1>33. CASE AppIllegal
  BY <1>0, <1>33 DEF AppIllegal, ListUsed, tracerVars
<1>34. CASE AppStep
  BY <1>0, <1>34 DEF AppStep, ListUsed, tracerVars
<1>35. CASE AppSyscall
  BY <1>0, <1>35 DEF AppSyscall, ListUsed, tracerVars
<1>36. CASE AppFault
  BY <1>0, <1>36 DEF AppFault, ListUsed, tracerVars
<1>37. CASE HandlerSyscall
  BY <1>0, <1>37 DEF HandlerSyscall, ListUsed, tracerVars
<1>38. CASE HandlerReturn
  BY <1>0, <1>38 DEF HandlerReturn, ListUsed, tracerVars
<1>39. CASE AttachStop
  BY <1>0, <1>39 DEF AttachStop, ListUsed, tracerVars
<1>40. ASSUME NEW code \in Exited, AppExit(code) PROVE ListUsed'
  BY <1>0, <1>40 DEF AppExit, ListUsed, tracerVars
<1>41. ASSUME NEW k \in Signals, Signal(k) PROVE ListUsed'
  BY <1>0, <1>41 DEF Signal, ListUsed, tracerVars
<1>42. CASE Terminated
  BY <1>0, <1>42 DEF Terminated, vars, ListUsed
<1>43. CASE UNCHANGED vars
  BY <1>43 DEF vars, ListUsed
<1> QED
  BY <1>1, <1>2, <1>3, <1>4, <1>5, <1>6, <1>7, <1>8, <1>9, <1>10, <1>11, <1>12, <1>13,
    <1>14, <1>15, <1>16, <1>17, <1>18, <1>19, <1>20, <1>21, <1>22, <1>23, <1>24, <1>25,
    <1>26, <1>27, <1>28, <1>29, <1>30, <1>31, <1>32, <1>33, <1>34, <1>35, <1>36, <1>37,
    <1>38, <1>39, <1>40, <1>41, <1>42, <1>43 DEF Next, TracerNext, ChildNext

\* -indices without duplicates: the executions traced are exactly those of the
\* list, among the executions so far.
THEOREM IndexedExactAlways ==
  ASSUME \A f \in Forms : Increasing(f.indices)
  PROVE  Spec => []IndexedExact
<1>1. Init => ListUsed
  <2> SUFFICES ASSUME Init PROVE ListUsed
    OBVIOUS
  <2>1. Indices \in Seq(Nat)
    BY FormsAssumption DEF Init
  <2> QED
    BY <2>1 DEF Init, ListUsed
<1>2. IInv /\ ListUsed /\ [Next]_vars => ListUsed'
  BY ListUsedStep DEF IInv, TypeOK
<1>3. IInv /\ ListUsed => IndexedExact
  <2> SUFFICES ASSUME IInv, ListUsed, Kind = "indexed" PROVE IndexedExact
    BY DEF IndexedExact
  <2>1. /\ Indices \in Seq(Nat) /\ index \in 0 .. Len(Indices) /\ execution \in Nat
        /\ traced = {Indices[i] : i \in 1 .. index}
        /\ \A i \in 1 .. Len(Indices) : i <= index <=> Indices[i] < execution
    BY FormTyped DEF IInv, TypeOK, ListUsed
  <2>2. \A i \in 1 .. Len(Indices) : Indices[i] \in Nat
    BY <2>1
  <2> QED
    BY <2>1, <2>2 DEF IndexedExact
<1> QED
  BY <1>1, <1>2, <1>3, Invariance, PTL DEF Spec
=============================================================================
