--------------------------- MODULE PerfInvokProof ---------------------------
(***************************************************************************)
(* Proofs about chop-perf-invok, for every command line, size of the       *)
(* buffer and program: it leaves no program running with breakpoints and,  *)
(* at the top level, writes no sample outside of its buffer, measures      *)
(* every invocation once and in order, and prints a row per sample.        *)
(***************************************************************************)
EXTENDS PerfInvok, TLAPS

\* The multiples of m next to each other.
LEMMA Remainder ==
  ASSUME NEW m \in Nat \ {0}, NEW n \in Nat
  PROVE  /\ n = m * (n \div m) + (n % m)
         /\ n % m \in 0 .. m - 1 /\ n \div m \in Nat
BY SMT

LEMMA Uniquely ==
  ASSUME NEW m \in Nat \ {0}, NEW n \in Nat, NEW q \in Nat, NEW r \in 0 .. m - 1, n = m * q + r
  PROVE  n % m = r
BY SMT

LEMMA NextMultiple ==
  ASSUME NEW m \in Nat \ {0}, NEW f \in Nat, NEW s \in Nat, f % m = 0, f < s, s <= f + m
  PROVE  s % m = 0 <=> s = f + m
<1>1. PICK q \in Nat : f = m * q
  <2>1. f = m * (f \div m) + 0 /\ f \div m \in Nat
    BY Remainder
  <2> QED
    BY <2>1
<1>2. CASE s = f + m
  <2>1. s = m * (q + 1) + 0
    BY <1>1, <1>2
  <2>2. s % m = 0
    BY <2>1, Uniquely
  <2> QED
    BY <1>2, <2>2
<1>3. CASE s < f + m
  <2>1. s - f \in 0 .. m - 1 /\ s = m * q + (s - f) /\ s - f # 0
    BY <1>1, <1>3
  <2>2. s % m = s - f
    BY <2>1, Uniquely, SMTT(30)
  <2> QED
    BY <1>3, <2>1, <2>2
<1> QED
  BY <1>2, <1>3

\* No step changes the command line.
LEMMA FormFixed ==
  ASSUME [Next]_vars
  PROVE  form' = form
BY DEF Next, ToolNext, ProgramNext, vars, Fail, StepToMain, StepFails, ConfigureFails,
  StartInvocations, StartFull, Maximum, OutForward, DetachFails, OutExited, OutSignaled,
  OutHit, OutStepped, StepLost, Begin, InEnd, InReturn, InCall, InStray, InStepped,
  InForward, InExited, InSignaled, Sampled, EndSample, Checked, Flushed, NextInvocation,
  FullForward, FullEnded, FullSample, PrintRows, Close, Instruction, Illegal, Exit,
  Handler, Signal, Terminated

\* Counters stay numbers.
LEMMA CountersStep ==
  ASSUME Counters, [Next]_vars
  PROVE  Counters'
<1> USE DEF Waits, Exited, Dead, Ended, Go, Resume, sampling
<1>0. form' = form /\ form \in Forms /\ form.max \in Nat /\ form.level \in Nat
  BY FormFixed, FormAssumption DEF Counters
<1>1. CASE StepToMain
  BY <1>0, <1>1 DEF StepToMain, Go, Counters
<1>2. CASE StepFails
  BY <1>0, <1>2 DEF StepFails, Fail, Counters
<1>3. CASE ConfigureFails
  BY <1>0, <1>3 DEF ConfigureFails, Ready, Counters
<1>4. CASE StartInvocations
  BY <1>0, <1>4 DEF StartInvocations, Ready, Counters
<1>5. CASE StartFull
  BY <1>0, <1>5 DEF StartFull, Ready, Counters
<1>6. CASE Maximum
  BY <1>0, <1>6 DEF Maximum, Waited, MaxReached, StopChild, Counters
<1>7. CASE OutForward
  BY <1>0, <1>7 DEF OutForward, Outside, Waited, MaxReached, Forward, Counters
<1>8. CASE DetachFails
  BY <1>0, <1>8 DEF DetachFails, Fail, Counters
<1>9. CASE OutExited
  BY <1>0, <1>9 DEF OutExited, Outside, Waited, MaxReached, Counters
<1>10. CASE OutSignaled
  BY <1>0, <1>10 DEF OutSignaled, Outside, Waited, MaxReached, Fail, Counters
<1>11. CASE OutHit
  BY <1>0, <1>11 DEF OutHit, Outside, Waited, MaxReached, Counters
<1>12. CASE OutStepped
  BY <1>0, <1>12 DEF OutStepped, Waited, AllPlanted, EnterLevel, Counters
<1>13. CASE StepLost
  BY <1>0, <1>13 DEF StepLost, Fail, Counters
<1>14. CASE Begin
  BY <1>0, <1>14 DEF Begin, InBuffer, Slot, Counters
<1>15. CASE InEnd
  BY <1>0, <1>15 DEF InEnd, InIll, Waited, LastEnd, Counters
<1>16. CASE InReturn
  BY <1>0, <1>16 DEF InReturn, InIll, Waited, LastEnd, StepOver, Counters
<1>17. CASE InCall
  BY <1>0, <1>17 DEF InCall, InIll, Waited, StepOver, Counters
<1>18. CASE InStray
  BY <1>0, <1>18 DEF InStray, Fail, Counters
<1>19. CASE InStepped
  BY <1>0, <1>19 DEF InStepped, Waited, EnterLevel, Counters
<1>20. CASE InForward
  BY <1>0, <1>20 DEF InForward, Waited, Forward, Counters
<1>21. CASE InExited
  BY <1>0, <1>21 DEF InExited, Waited, Counters
<1>22. CASE InSignaled
  BY <1>0, <1>22 DEF InSignaled, Fail, Counters
<1>23. CASE Sampled
  BY <1>0, <1>23 DEF Sampled, Counters
<1>24. CASE EndSample
  BY <1>0, <1>24 DEF EndSample, Counters
<1>25. CASE Checked
  BY <1>0, <1>25 DEF Checked, FlushNeeded, Counters
<1>26. CASE Flushed
  BY <1>0, <1>26, BoundAssumption DEF Flushed, FlushedMore, Counters
<1>27. CASE NextInvocation
  BY <1>0, <1>27 DEF NextInvocation, StartsOnly, Counters
<1>28. CASE FullForward
  BY <1>0, <1>28 DEF FullForward, Waited, Forward, Counters
<1>29. CASE FullEnded
  BY <1>0, <1>29 DEF FullEnded, Waited, Counters
<1>30. CASE FullSample
  BY <1>0, <1>30 DEF FullSample, Counters
<1>31. CASE PrintRows
  BY <1>0, <1>31 DEF PrintRows, Slot, Counters
<1>32. CASE Close
  BY <1>0, <1>32 DEF Close, Counters
<1>33. CASE Instruction
  BY <1>0, <1>33 DEF Instruction, Alive, Counters
<1>34. CASE Illegal
  BY <1>0, <1>34 DEF Illegal, Alive, Counters
<1>35. ASSUME NEW code \in Exited, Exit(code) PROVE Counters'
  BY <1>0, <1>35 DEF Exit, Alive, Counters
<1>36. CASE Handler
  BY <1>0, <1>36 DEF Handler, Reaped, Counted, Counters
<1>37. ASSUME NEW k \in Signals \ {"alarm"}, Signal(k) PROVE Counters'
  BY <1>0, <1>37 DEF Signal, Alive, Counters
<1>38. CASE Terminated
  BY <1>0, <1>38 DEF Terminated, vars, Counters
<1>39. CASE UNCHANGED vars
  BY <1>39 DEF vars, Counters
<1> QED
  BY <1>1, <1>2, <1>3, <1>4, <1>5, <1>6, <1>7, <1>8, <1>9, <1>10, <1>11, <1>12, <1>13,
    <1>14, <1>15, <1>16, <1>17, <1>18, <1>19, <1>20, <1>21, <1>22, <1>23, <1>24, <1>25,
    <1>26, <1>27, <1>28, <1>29, <1>30, <1>31, <1>32, <1>33, <1>34, <1>35, <1>36, <1>37,
    <1>38, <1>39 DEF Next, ToolNext, ProgramNext


\* The slots stay samples when the current one is begun or ended.
LEMMA SlotsTyped ==
  ASSUME Types
  PROVE  /\ BeginSample => samples' \in [0 .. MAX_SAMPLES - 1 -> Sample]
         /\ [samples EXCEPT ![Slot] = EndedSample(@)] \in [0 .. MAX_SAMPLES - 1 -> Sample]
<1>1. ASSUME NEW s \in Sample PROVE EndedSample(s) \in Sample
  BY DEF EndedSample, Sample
<1>2. Here \in Nat /\ Len(frames) \in Nat
  BY DEF Types, Here
<1>3. [invocation |-> Here, depth |-> Len(frames), whole |-> FALSE] \in Sample
  BY <1>2 DEF Sample
<1>4. BeginSample => samples' \in [0 .. MAX_SAMPLES - 1 -> Sample]
  BY <1>3 DEF BeginSample, Types
<1>5. [samples EXCEPT ![Slot] = EndedSample(@)] \in [0 .. MAX_SAMPLES - 1 -> Sample]
  BY <1>1 DEF Types
<1> QED
  BY <1>4, <1>5

\* The stack of invocations and their history stay sequences of numbers.
LEMMA TypesStep ==
  ASSUME Counters, Types, [Next]_vars
  PROVE  Types'
<1> USE DEF Waits, Exited, Dead, Ended, Go, Resume, sampling, program
<1>1. CASE StepToMain
  BY <1>1 DEF StepToMain, Go, Types
<1>2. CASE StepFails
  BY <1>2 DEF StepFails, Fail, Types
<1>3. CASE ConfigureFails
  BY <1>3 DEF ConfigureFails, Ready, Types
<1>4. CASE StartInvocations
  BY <1>4 DEF StartInvocations, Ready, Marks, Types
<1>5. CASE StartFull
  BY <1>5, SlotsTyped DEF StartFull, Types
<1>6. CASE Maximum
  BY <1>6 DEF Maximum, Waited, MaxReached, StopChild, Types
<1>7. CASE OutForward
  BY <1>7 DEF OutForward, Outside, Waited, MaxReached, Forward, Types
<1>8. CASE DetachFails
  BY <1>8 DEF DetachFails, Fail, Types
<1>9. CASE OutExited
  BY <1>9 DEF OutExited, Outside, Waited, MaxReached, Types
<1>10. CASE OutSignaled
  BY <1>10 DEF OutSignaled, Outside, Waited, MaxReached, Fail, Types
<1>11. CASE OutHit
  BY <1>11 DEF OutHit, Outside, Waited, MaxReached, Marks, Types
<1>12. CASE OutStepped
  BY <1>12 DEF OutStepped, Waited, AllPlanted, EnterLevel, Marks, Types
<1>13. CASE StepLost
  BY <1>13 DEF StepLost, Fail, Types
<1>14. CASE Begin
  BY <1>14, SlotsTyped DEF Begin, Types
<1>15. CASE InEnd
  BY <1>15 DEF InEnd, InIll, Waited, LastEnd, Types
<1>16. CASE InReturn
  BY <1>16 DEF InReturn, InIll, Waited, LastEnd, StepOver, Marks, Types
<1>17. CASE InCall
  BY <1>17 DEF InCall, InIll, Waited, StepOver, Marks, Types
<1>18. CASE InStray
  BY <1>18 DEF InStray, Fail, Types
<1>19. CASE InStepped
  BY <1>19 DEF InStepped, Waited, EnterLevel, Marks, Types
<1>20. CASE InForward
  BY <1>20 DEF InForward, Waited, Forward, Types
<1>21. CASE InExited
  BY <1>21 DEF InExited, Waited, Types
<1>22. CASE InSignaled
  BY <1>22 DEF InSignaled, Fail, Types
<1>23. CASE Sampled
  BY <1>23 DEF Sampled, Types
<1>24. CASE EndSample
  BY <1>24, SlotsTyped DEF EndSample, Types
<1>25. CASE Checked
  BY <1>25 DEF Checked, FlushNeeded, Types
<1>26. CASE Flushed
  BY <1>26 DEF Flushed, FlushedMore, Types
<1>27. CASE NextInvocation
  BY <1>27 DEF NextInvocation, StartsOnly, Marks, Types
<1>28. CASE FullForward
  BY <1>28 DEF FullForward, Waited, Forward, Types
<1>29. CASE FullEnded
  BY <1>29 DEF FullEnded, Waited, Types
<1>30. CASE FullSample
  BY <1>30 DEF FullSample, Types
<1>31. CASE PrintRows
  BY <1>31 DEF PrintRows, Slot, Types
<1>32. CASE Close
  BY <1>32 DEF Close, Types
<1>33. CASE Instruction
  <2>1. calls' \in Nat /\ outermost' \in Seq(Nat)
    BY <1>33 DEF Instruction, Types
  <2>2. frames' \in Seq(Nat)
    <3>1. CASE pc \in Starts
      BY <1>33, <3>1 DEF Instruction, Types
    <3>2. CASE pc \notin Starts
      <4>1. Len(frames) - 1 <= Len(frames) /\ Len(frames) \in Nat
        BY DEF Types
      <4>2. SubSeq(frames, 1, Len(frames) - 1) \in Seq(Nat)
        BY <4>1 DEF Types
      <4> QED
        BY <1>33, <3>2, <4>2 DEF Instruction, Types
    <3> QED
      BY <3>1, <3>2
  <2> QED
    BY <1>33, <2>1, <2>2 DEF Instruction, Types
<1>34. CASE Illegal
  BY <1>34 DEF Illegal, Alive, Types
<1>35. ASSUME NEW code \in Exited, Exit(code) PROVE Types'
  BY <1>35 DEF Exit, Alive, Types
<1>36. CASE Handler
  BY <1>36, SlotsTyped DEF Handler, Types
<1>37. ASSUME NEW k \in Signals \ {"alarm"}, Signal(k) PROVE Types'
  BY <1>37 DEF Signal, Alive, Types
<1>38. CASE Terminated
  BY <1>38 DEF Terminated, vars, Types
<1>39. CASE UNCHANGED vars
  BY <1>39 DEF vars, Types
<1> QED
  BY <1>1, <1>2, <1>3, <1>4, <1>5, <1>6, <1>7, <1>8, <1>9, <1>10, <1>11, <1>12, <1>13,
    <1>14, <1>15, <1>16, <1>17, <1>18, <1>19, <1>20, <1>21, <1>22, <1>23, <1>24, <1>25,
    <1>26, <1>27, <1>28, <1>29, <1>30, <1>31, <1>32, <1>33, <1>34, <1>35, <1>36, <1>37,
    <1>38, <1>39 DEF Next, ToolNext, ProgramNext

\* Whichever way the tool ends, the program has ended, has been sent the signal
\* that ends it, or has no breakpoint.
LEMMA LeavingStep ==
  ASSUME Counters, Leaving, [Next]_vars
  PROVE  Leaving'
<1> USE DEF Waits, Exited, Dead, Ended, Go, Resume, sampling
<1>0. form' = form /\ form \in Forms /\ form.max \in Nat /\ form.level \in Nat
  BY FormFixed, FormAssumption DEF Counters
<1>1. CASE StepToMain
  BY <1>0, <1>1 DEF StepToMain, Go, Leaving
<1>2. CASE StepFails
  BY <1>0, <1>2 DEF StepFails, Fail, Leaving
<1>3. CASE ConfigureFails
  BY <1>0, <1>3 DEF ConfigureFails, Ready, Leaving
<1>4. CASE StartInvocations
  BY <1>0, <1>4 DEF StartInvocations, Ready, Leaving
<1>5. CASE StartFull
  BY <1>0, <1>5 DEF StartFull, Ready, Leaving
<1>6. CASE Maximum
  <2>1. sampleCount = form.max
    BY <1>0, <1>6 DEF Maximum, Waited, MaxReached, Counters, Leaving
  <2>2. doomed'
    BY <1>6, <2>1 DEF Maximum, StopChild
  <2>3. ~form.full /\ loc' = "final"
    BY <1>6 DEF Maximum, Waited, Leaving
  <2> QED
    BY <1>0, <2>2, <2>3 DEF Leaving
<1>7. CASE OutForward
  BY <1>0, <1>7 DEF OutForward, Outside, Waited, MaxReached, Forward, Counters, Leaving
<1>8. CASE DetachFails
  BY <1>0, <1>8 DEF DetachFails, Fail, Leaving
<1>9. CASE OutExited
  BY <1>0, <1>9 DEF OutExited, Outside, Waited, MaxReached, Leaving
<1>10. CASE OutSignaled
  BY <1>0, <1>10 DEF OutSignaled, Outside, Waited, MaxReached, Fail, Leaving
<1>11. CASE OutHit
  BY <1>0, <1>11 DEF OutHit, Outside, Waited, MaxReached, Counters, Leaving
<1>12. CASE OutStepped
  BY <1>0, <1>12 DEF OutStepped, Waited, AllPlanted, EnterLevel, Leaving
<1>13. CASE StepLost
  BY <1>0, <1>13 DEF StepLost, Fail, Leaving
<1>14. CASE Begin
  BY <1>0, <1>14 DEF Begin, InBuffer, Slot, Leaving
<1>15. CASE InEnd
  BY <1>0, <1>15 DEF InEnd, InIll, Waited, LastEnd, Leaving
<1>16. CASE InReturn
  BY <1>0, <1>16 DEF InReturn, InIll, Waited, LastEnd, StepOver, Leaving
<1>17. CASE InCall
  BY <1>0, <1>17 DEF InCall, InIll, Waited, StepOver, Leaving
<1>18. CASE InStray
  BY <1>0, <1>18 DEF InStray, Fail, Leaving
<1>19. CASE InStepped
  BY <1>0, <1>19 DEF InStepped, Waited, EnterLevel, Leaving
<1>20. CASE InForward
  BY <1>0, <1>20 DEF InForward, Waited, Forward, Leaving
<1>21. CASE InExited
  BY <1>0, <1>21 DEF InExited, Waited, Leaving
<1>22. CASE InSignaled
  BY <1>0, <1>22 DEF InSignaled, Fail, Leaving
<1>23. CASE Sampled
  BY <1>0, <1>23 DEF Sampled, Counters, Leaving
<1>24. CASE EndSample
  BY <1>0, <1>24 DEF EndSample, Counters, Leaving
<1>25. CASE Checked
  BY <1>0, <1>25 DEF Checked, FlushNeeded, Leaving
<1>26. CASE Flushed
  BY <1>0, <1>26 DEF Flushed, FlushedMore, Leaving
<1>27. CASE NextInvocation
  BY <1>0, <1>27 DEF NextInvocation, StartsOnly, Leaving
<1>28. CASE FullForward
  BY <1>0, <1>28 DEF FullForward, Waited, Forward, Leaving
<1>29. CASE FullEnded
  BY <1>0, <1>29 DEF FullEnded, Waited, Leaving
<1>30. CASE FullSample
  BY <1>0, <1>30 DEF FullSample, Counters, Leaving
<1>31. CASE PrintRows
  BY <1>0, <1>31 DEF PrintRows, Slot, Leaving
<1>32. CASE Close
  BY <1>0, <1>32 DEF Close, Leaving
<1>33. CASE Instruction
  BY <1>0, <1>33 DEF Instruction, Alive, Leaving
<1>34. CASE Illegal
  BY <1>0, <1>34 DEF Illegal, Alive, Leaving
<1>35. ASSUME NEW code \in Exited, Exit(code) PROVE Leaving'
  BY <1>0, <1>35 DEF Exit, Alive, Leaving
<1>36. CASE Handler
  BY <1>0, <1>36 DEF Handler, Reaped, Counted, Leaving
<1>37. ASSUME NEW k \in Signals \ {"alarm"}, Signal(k) PROVE Leaving'
  BY <1>0, <1>37 DEF Signal, Alive, Leaving
<1>38. CASE Terminated
  BY <1>0, <1>38 DEF Terminated, vars, Leaving
<1>39. CASE UNCHANGED vars
  BY <1>39 DEF vars, Leaving
<1> QED
  BY <1>1, <1>2, <1>3, <1>4, <1>5, <1>6, <1>7, <1>8, <1>9, <1>10, <1>11, <1>12, <1>13,
    <1>14, <1>15, <1>16, <1>17, <1>18, <1>19, <1>20, <1>21, <1>22, <1>23, <1>24, <1>25,
    <1>26, <1>27, <1>28, <1>29, <1>30, <1>31, <1>32, <1>33, <1>34, <1>35, <1>36, <1>37,
    <1>38, <1>39 DEF Next, ToolNext, ProgramNext


\* A sample always has a slot of the buffer, and the count never falls behind
\* what was flushed.
LEMMA RoomStep ==
  ASSUME Counters, Leaving, Room, [Next]_vars
  PROVE  Room'
<1> USE DEF Waits, Exited, Dead, Ended, Go, Resume, sampling
<1>0. form' = form /\ form \in Forms /\ form.max \in Nat /\ form.level \in Nat
  BY FormFixed, FormAssumption DEF Counters
<1>1. CASE StepToMain
  BY <1>0, <1>1 DEF StepToMain, Go, Room
<1>2. CASE StepFails
  BY <1>0, <1>2 DEF StepFails, Fail, Room
<1>3. CASE ConfigureFails
  BY <1>0, <1>3 DEF ConfigureFails, Ready, Room
<1>4. CASE StartInvocations
  BY <1>0, <1>4 DEF StartInvocations, Ready, Room
<1>5. CASE StartFull
  BY <1>0, <1>5 DEF StartFull, Ready, Room
<1>6. CASE Maximum
  BY <1>0, <1>6 DEF Maximum, Waited, MaxReached, StopChild, Room
<1>7. CASE OutForward
  BY <1>0, <1>7 DEF OutForward, Outside, Waited, MaxReached, Forward, Room
<1>8. CASE DetachFails
  BY <1>0, <1>8 DEF DetachFails, Fail, Room
<1>9. CASE OutExited
  BY <1>0, <1>9 DEF OutExited, Outside, Waited, MaxReached, Room
<1>10. CASE OutSignaled
  BY <1>0, <1>10 DEF OutSignaled, Outside, Waited, MaxReached, Fail, Room
<1>11. CASE OutHit
  BY <1>0, <1>11 DEF OutHit, Outside, Waited, MaxReached, Room
<1>12. CASE OutStepped
  BY <1>0, <1>12 DEF OutStepped, Waited, AllPlanted, EnterLevel, Room
<1>13. CASE StepLost
  BY <1>0, <1>13 DEF StepLost, Fail, Room
<1>14. CASE Begin
  BY <1>0, <1>14, BoundAssumption DEF Begin, InBuffer, Slot, Counters, Room
<1>15. CASE InEnd
  BY <1>0, <1>15 DEF InEnd, InIll, Waited, LastEnd, Room
<1>16. CASE InReturn
  BY <1>0, <1>16, BoundAssumption DEF InReturn, InIll, Waited, LastEnd, StepOver, Counters,
    Room
<1>17. CASE InCall
  BY <1>0, <1>17 DEF InCall, InIll, Waited, StepOver, Room
<1>18. CASE InStray
  BY <1>0, <1>18 DEF InStray, Fail, Room
<1>19. CASE InStepped
  <2>1. loc = "stepIn" /\ UNCHANGED <<sampleCount, flushedSampleCount>>
    BY <1>19 DEF InStepped, Waited
  <2>2. form.level = 0 => level \in Nat /\ level + 1 # form.level
    BY <2>1 DEF Counters, Room
  <2>3. form.level = 0 => /\ level' \in {level, level + 1} /\ loc' = "inWait"
                         /\ sampleInProgress' = sampleInProgress
    BY <1>19, <2>2 DEF InStepped, EnterLevel
  <2> QED
    BY <1>0, <2>1, <2>2, <2>3 DEF Room
<1>20. CASE InForward
  BY <1>0, <1>20 DEF InForward, Waited, Forward, Room
<1>21. CASE InExited
  BY <1>0, <1>21 DEF InExited, Waited, Room
<1>22. CASE InSignaled
  BY <1>0, <1>22 DEF InSignaled, Fail, Room
<1>23. CASE Sampled
  BY <1>0, <1>23 DEF Sampled, Room
<1>24. CASE EndSample
  BY <1>0, <1>24, BoundAssumption DEF EndSample, Counters, Room
<1>25. CASE Checked
  <2>1. form.level = 0 =>
          /\ flushedSampleCount < sampleCount /\ sampleCount <= flushedSampleCount + MAX_SAMPLES
          /\ flushedSampleCount % MAX_SAMPLES = 0
    BY <1>25 DEF Checked, Room
  <2>2. form.level = 0 => (sampleCount % MAX_SAMPLES = 0 <=> sampleCount = flushedSampleCount + MAX_SAMPLES)
    BY <2>1, BoundAssumption, NextMultiple DEF Counters
  <2>3. form.level = 0 => (FlushNeeded <=> sampleCount = flushedSampleCount + MAX_SAMPLES)
    BY <2>1, <2>2 DEF FlushNeeded, Counters
  <2>4. form.level = 0 /\ loc' \in {"flushing", "next"} =>
          IF loc' = "flushing" THEN sampleCount = flushedSampleCount + MAX_SAMPLES
                               ELSE sampleCount < flushedSampleCount + MAX_SAMPLES
    BY <1>25, <2>1, <2>3, BoundAssumption DEF Checked, Counters
  <2> QED
    BY <1>0, <1>25, <2>1, <2>4 DEF Checked, Counters, Room
<1>26. CASE Flushed
  <2>1. form.level = 0 =>
          sampleCount = flushedSampleCount + MAX_SAMPLES /\ flushedSampleCount % MAX_SAMPLES = 0
    BY <1>26 DEF Flushed, Room
  <2>2. form.level = 0 => flushedSampleCount < sampleCount /\ sampleCount <= flushedSampleCount + MAX_SAMPLES
    BY <2>1, BoundAssumption DEF Counters
  <2>3. form.level = 0 => sampleCount % MAX_SAMPLES = 0
    BY <2>1, <2>2, BoundAssumption, NextMultiple DEF Counters
  <2> QED
    BY <1>0, <1>26, <2>1, <2>3, BoundAssumption DEF Flushed, FlushedMore, Counters, Room
<1>27. CASE NextInvocation
  BY <1>0, <1>27 DEF NextInvocation, StartsOnly, Room
<1>28. CASE FullForward
  BY <1>0, <1>28 DEF FullForward, Waited, Forward, Room
<1>29. CASE FullEnded
  BY <1>0, <1>29 DEF FullEnded, Waited, Room
<1>30. CASE FullSample
  BY <1>0, <1>30, BoundAssumption DEF FullSample, Counters, Room
<1>31. CASE PrintRows
  BY <1>0, <1>31, BoundAssumption DEF PrintRows, Slot, Counters, Room
<1>32. CASE Close
  BY <1>0, <1>32 DEF Close, Room
<1>33. CASE Instruction
  BY <1>0, <1>33 DEF Instruction, Alive, Room
<1>34. CASE Illegal
  BY <1>0, <1>34 DEF Illegal, Alive, Room
<1>35. ASSUME NEW code \in Exited, Exit(code) PROVE Room'
  BY <1>0, <1>35 DEF Exit, Alive, Room
<1>36. CASE Handler
  BY <1>0, <1>36, BoundAssumption DEF Handler, Reaped, Counted, Counters, Room
<1>37. ASSUME NEW k \in Signals \ {"alarm"}, Signal(k) PROVE Room'
  BY <1>0, <1>37 DEF Signal, Alive, Room
<1>38. CASE Terminated
  BY <1>0, <1>38 DEF Terminated, vars, Room
<1>39. CASE UNCHANGED vars
  BY <1>39 DEF vars, Room
<1> QED
  BY <1>1, <1>2, <1>3, <1>4, <1>5, <1>6, <1>7, <1>8, <1>9, <1>10, <1>11, <1>12, <1>13,
    <1>14, <1>15, <1>16, <1>17, <1>18, <1>19, <1>20, <1>21, <1>22, <1>23, <1>24, <1>25,
    <1>26, <1>27, <1>28, <1>29, <1>30, <1>31, <1>32, <1>33, <1>34, <1>35, <1>36, <1>37,
    <1>38, <1>39 DEF Next, ToolNext, ProgramNext


\* Printing n slots of the buffer adds them after the rows there are.
Adds(all, written, slots, n) ==
  /\ all \in Seq(Sample)
  /\ Len(all) = Len(written) + n
  /\ \A i \in 1 .. Len(all) :
       all[i] = IF i <= Len(written) THEN written[i] ELSE slots[i - 1 - Len(written)]

LEMMA Appended ==
  ASSUME NEW written \in Seq(Sample), NEW slots \in [0 .. MAX_SAMPLES - 1 -> Sample],
         NEW n \in 0 .. MAX_SAMPLES
  PROVE  Adds(written \o Buffered(slots, n), written, slots, n)
<1> DEFINE more == Buffered(slots, n)
<1>0. n \in Nat /\ MAX_SAMPLES \in Nat
  BY BoundAssumption
<1>1. more \in Seq(Sample) /\ Len(more) = n /\ \A i \in 1 .. n : more[i] = slots[i - 1]
  <2>1. \A i \in 1 .. n : slots[i - 1] \in Sample
    BY <1>0
  <2> QED
    BY <1>0, <2>1 DEF Buffered
<1> HIDE DEF more
<1>2. /\ written \o more \in Seq(Sample)
      /\ Len(written \o more) = Len(written) + n
      /\ \A i \in 1 .. Len(written \o more) : (written \o more)[i] =
           IF i <= Len(written) THEN written[i] ELSE more[i - Len(written)]
  BY <1>0, <1>1
<1>3. \A i \in 1 .. Len(written \o more) : i > Len(written) =>
        more[i - Len(written)] = slots[i - 1 - Len(written)]
  <2> TAKE i \in 1 .. Len(written \o more)
  <2> HAVE i > Len(written)
  <2>1. Len(written) \in Nat /\ i \in Nat /\ i <= Len(written) + n
    BY <1>0, <1>2
  <2>2. i - Len(written) \in 1 .. n /\ (i - Len(written)) - 1 = i - 1 - Len(written)
    BY <1>0, <2>1
  <2> QED
    BY <1>1, <2>2
<1>4. Adds(written \o more, written, slots, n)
  <2> DEFINE all == written \o more
  <2>1. Len(written) \in Nat /\ Len(all) = Len(written) + n
    BY <1>2
  <2>2. ASSUME NEW i \in 1 .. Len(all)
        PROVE  all[i] = IF i <= Len(written) THEN written[i] ELSE slots[i - 1 - Len(written)]
    <3>1. all[i] = IF i <= Len(written) THEN written[i] ELSE more[i - Len(written)]
      BY <1>2
    <3>2. i > Len(written) => more[i - Len(written)] = slots[i - 1 - Len(written)]
      BY <1>3
    <3> HIDE DEF all
    <3> QED
      BY <1>0, <2>1, <3>1, <3>2
  <2>3. all \in Seq(Sample)
    BY <1>2
  <2> HIDE DEF all
  <2>4. Adds(all, written, slots, n)
    BY <2>1, <2>2, <2>3 DEF Adds
  <2> QED
    BY <2>4 DEF all
<1> QED
  BY <1>4, Zenon DEF more

\* The rows of the file are those of the buffers flushed, until the rest is
\* printed at the end.
LEMMA PrintingStep ==
  ASSUME Counters, Types, Leaving, Room, Printing, [Next]_vars
  PROVE  Printing'
<1> USE DEF Waits, Exited, Dead, Ended, Go, Resume, sampling, history
<1>0. form' = form /\ form \in Forms /\ form.max \in Nat /\ form.level \in Nat
  BY FormFixed, FormAssumption DEF Counters
<1>1. CASE StepToMain
  BY <1>0, <1>1 DEF StepToMain, Go, Printing
<1>2. CASE StepFails
  BY <1>0, <1>2 DEF StepFails, Fail, Printing
<1>3. CASE ConfigureFails
  BY <1>0, <1>3 DEF ConfigureFails, Ready, Printing
<1>4. CASE StartInvocations
  BY <1>0, <1>4 DEF StartInvocations, Ready, Printing
<1>5. CASE StartFull
  BY <1>0, <1>5 DEF StartFull, Ready, Printing
<1>6. CASE Maximum
  BY <1>0, <1>6 DEF Maximum, Waited, MaxReached, StopChild, Printing
<1>7. CASE OutForward
  BY <1>0, <1>7 DEF OutForward, Outside, Waited, MaxReached, Forward, Printing
<1>8. CASE DetachFails
  BY <1>0, <1>8 DEF DetachFails, Fail, Printing
<1>9. CASE OutExited
  BY <1>0, <1>9 DEF OutExited, Outside, Waited, MaxReached, Printing
<1>10. CASE OutSignaled
  BY <1>0, <1>10 DEF OutSignaled, Outside, Waited, MaxReached, Fail, Printing
<1>11. CASE OutHit
  BY <1>0, <1>11 DEF OutHit, Outside, Waited, MaxReached, Printing
<1>12. CASE OutStepped
  BY <1>0, <1>12 DEF OutStepped, Waited, AllPlanted, EnterLevel, Printing
<1>13. CASE StepLost
  BY <1>0, <1>13 DEF StepLost, Fail, Printing
<1>14. CASE Begin
  BY <1>0, <1>14 DEF Begin, InBuffer, Slot, Printing
<1>15. CASE InEnd
  BY <1>0, <1>15 DEF InEnd, InIll, Waited, LastEnd, Printing
<1>16. CASE InReturn
  BY <1>0, <1>16 DEF InReturn, InIll, Waited, LastEnd, StepOver, Printing
<1>17. CASE InCall
  BY <1>0, <1>17 DEF InCall, InIll, Waited, StepOver, Printing
<1>18. CASE InStray
  BY <1>0, <1>18 DEF InStray, Fail, Printing
<1>19. CASE InStepped
  BY <1>0, <1>19 DEF InStepped, Waited, EnterLevel, Printing
<1>20. CASE InForward
  BY <1>0, <1>20 DEF InForward, Waited, Forward, Printing
<1>21. CASE InExited
  BY <1>0, <1>21 DEF InExited, Waited, Printing
<1>22. CASE InSignaled
  BY <1>0, <1>22 DEF InSignaled, Fail, Printing
<1>23. CASE Sampled
  BY <1>0, <1>23 DEF Sampled, Printing
<1>24. CASE EndSample
  BY <1>0, <1>24 DEF EndSample, Printing
<1>25. CASE Checked
  <2>1. CASE loc' # "flushing"
    BY <1>0, <1>25, <2>1 DEF Checked, FlushNeeded, Printing
  <2>2. CASE loc' = "flushing" /\ form.level = 0
    <3>1. Slot \in 0 .. MAX_SAMPLES /\ Len(rows) = flushedSampleCount
      BY <1>25, <2>2, BoundAssumption DEF Checked, Counters, Room, Slot, Printing
    <3>2. rows' = rows \o Buffered(samples, Slot)
      BY <1>25, <2>2 DEF Checked, FlushNeeded, PrintSamples
    <3>a. Adds(rows', rows, samples, Slot)
      BY <2>2, <3>1, <3>2, Appended DEF Types, Printing
    <3>3. rows' \in Seq(Sample) /\ Len(rows') = Len(rows) + Slot
      BY <3>a DEF Adds
    <3>4. Len(rows') = sampleCount'
      BY <1>25, <3>1, <3>3 DEF Checked, Slot, Counters
    <3> QED
      BY <1>0, <2>2, <3>3, <3>4 DEF Printing
  <2> QED
    BY <1>0, <2>1, <2>2 DEF Printing
<1>26. CASE Flushed
  BY <1>0, <1>26 DEF Flushed, FlushedMore, Counters, Room, Printing
<1>27. CASE NextInvocation
  BY <1>0, <1>27 DEF NextInvocation, StartsOnly, Printing
<1>28. CASE FullForward
  BY <1>0, <1>28 DEF FullForward, Waited, Forward, Printing
<1>29. CASE FullEnded
  BY <1>0, <1>29 DEF FullEnded, Waited, Printing
<1>30. CASE FullSample
  BY <1>0, <1>30 DEF FullSample, Printing
<1>31. CASE PrintRows
  <2>1. CASE form.level = 0
    <3>1. Slot \in 0 .. MAX_SAMPLES /\ Len(rows) = flushedSampleCount
      BY <1>31, <2>1, BoundAssumption DEF PrintRows, Counters, Room, Slot, Printing
    <3>2. rows' = rows \o Buffered(samples, Slot) /\ loc' = "printed" /\ sampleCount' = sampleCount
      BY <1>31, <3>1 DEF PrintRows, PrintRest, PrintSamples
    <3>a. Adds(rows', rows, samples, Slot)
      BY <2>1, <3>1, <3>2, Appended DEF Types, Printing
    <3>3. rows' \in Seq(Sample) /\ Len(rows') = Len(rows) + Slot
      BY <3>a DEF Adds
    <3>4. Len(rows') = sampleCount'
      BY <3>1, <3>2, <3>3 DEF Slot, Counters
    <3> QED
      BY <1>0, <3>2, <3>3, <3>4 DEF Printing
  <2> QED
    BY <1>0, <2>1 DEF Printing
<1>32. CASE Close
  BY <1>0, <1>32 DEF Close, Printing
<1>33. CASE Instruction
  BY <1>0, <1>33 DEF Instruction, Alive, Printing
<1>34. CASE Illegal
  BY <1>0, <1>34 DEF Illegal, Alive, Printing
<1>35. ASSUME NEW code \in Exited, Exit(code) PROVE Printing'
  BY <1>0, <1>35 DEF Exit, Alive, Printing
<1>36. CASE Handler
  <2>1. CASE form.level = 0 /\ loc' = "done"
    <3> DEFINE n == Counted - flushedSampleCount
    <3>0. Counted \in Nat
      BY DEF Counted, Counters
    <3>1. /\ sampleCount' = Counted /\ Counted >= flushedSampleCount
          /\ rows' = rows \o Buffered(samples', n)
          /\ reprinted' = (loc \in {"flushing", "printed"})
          /\ loc \notin Ended
      BY <1>36, <2>1, <3>0 DEF Handler, PrintSamples, Counters
    <3>2. n \in 0 .. MAX_SAMPLES /\ Counted \in Nat
      BY <2>1, <3>1, BoundAssumption DEF Counted, Counters, Room
    <3>3. samples' \in [0 .. MAX_SAMPLES - 1 -> Sample]
      BY <1>36, SlotsTyped DEF Handler, Types
    <3> HIDE DEF n
    <3>a. Adds(rows', rows, samples', n)
      BY <2>1, <3>1, <3>2, <3>3, Appended DEF Printing
    <3>4. rows' \in Seq(Sample) /\ Len(rows') = Len(rows) + n
      BY <3>a DEF Adds
    <3> USE DEF n
    <3>5. Len(rows) \in Nat /\ (loc \notin {"flushing", "printed"} => Len(rows) = flushedSampleCount)
      BY <2>1, <3>1 DEF Printing
    <3>6. loc \in {"flushing", "printed"} => Len(rows) = sampleCount
      BY <2>1 DEF Printing
    <3>7. flushedSampleCount <= sampleCount /\ flushedSampleCount \in Nat /\ sampleCount \in Nat
      BY <2>1, <3>1 DEF Counters, Room
    <3>8. Len(rows') >= Counted
      BY <3>0, <3>4, <3>5, <3>6, <3>7
    <3>9. loc \notin {"flushing", "printed"} => Len(rows') = Counted
      BY <3>0, <3>4, <3>5, <3>7
    <3>10. Len(rows') >= sampleCount' /\ (~reprinted' => Len(rows') = sampleCount')
      BY <3>1, <3>8, <3>9, Zenon
    <3> QED
      BY <1>0, <2>1, <3>4, <3>10 DEF Printing
  <2>2. CASE form.level = 0 /\ loc' = "failed"
    BY <1>0, <1>36, <2>2 DEF Handler, Printing
  <2>3. CASE form.level = 0 /\ loc' \notin {"failed", "done"}
    BY <1>0, <1>36, <2>3, BoundAssumption DEF Handler, Counted, Counters, Room
  <2> QED
    BY <1>0, <2>1, <2>2, <2>3 DEF Printing
<1>37. ASSUME NEW k \in Signals \ {"alarm"}, Signal(k) PROVE Printing'
  BY <1>0, <1>37 DEF Signal, Alive, Printing
<1>38. CASE Terminated
  BY <1>0, <1>38 DEF Terminated, vars, Printing
<1>39. CASE UNCHANGED vars
  BY <1>0, <1>39 DEF vars, Printing
<1> QED
  BY <1>1, <1>2, <1>3, <1>4, <1>5, <1>6, <1>7, <1>8, <1>9, <1>10, <1>11, <1>12, <1>13,
    <1>14, <1>15, <1>16, <1>17, <1>18, <1>19, <1>20, <1>21, <1>22, <1>23, <1>24, <1>25,
    <1>26, <1>27, <1>28, <1>29, <1>30, <1>31, <1>32, <1>33, <1>34, <1>35, <1>36, <1>37,
    <1>38, <1>39 DEF Next, ToolNext, ProgramNext

\* A single step that brought a signal ends the accurate part of a run.
LEMMA AccurateBefore ==
  ASSUME [Next]_vars, Accurate'
  PROVE  /\ Accurate
         /\ OutStepped \/ InStepped => stop = "trap"
<1>1. form' = form
  BY FormFixed
<1>2. swallowed => swallowed'
  BY DEF Next, ToolNext, ProgramNext, vars, history, Fail, StepToMain, StepFails, ConfigureFails,
    StartInvocations, StartFull, Maximum, OutForward, DetachFails, OutExited, OutSignaled,
    OutHit, OutStepped, Lost, StepLost, Begin, InEnd, InReturn, InCall, InStray, InStepped,
    InForward, InExited, InSignaled, Sampled, EndSample, Checked, Flushed, NextInvocation,
    FullForward, FullEnded, FullSample, PrintRows, Close, Instruction, Illegal, Exit,
    Handler, Signal, Terminated
<1>3. OutStepped \/ InStepped => swallowed' = (swallowed \/ stop # "trap")
  BY DEF OutStepped, InStepped, Lost
<1>4. ~swallowed'
  BY Zenon DEF Accurate
<1>5. ~swallowed
  BY <1>2, <1>4, Zenon
<1>6. OutStepped \/ InStepped => stop = "trap"
  BY <1>3, <1>4, Zenon
<1>7. Accurate
  BY <1>1, <1>5, Zenon DEF Accurate
<1> QED
  BY <1>6, <1>7

\* Where the program is, seen from the tool, after every step of either.
LEMMA PositionStep ==
  ASSUME Counters, Types, Leaving, Room, Accurate, Accurate', Position, [Next]_vars
  PROVE  Position'
<1> USE DEF Waits, Exited, Dead, Ended, Go, Resume, sampling, program, Begun, Leaves, Inside
<1>0. /\ form' = form /\ form.level = 0 /\ ~form.full
      /\ frames \in Seq(Nat) /\ outermost \in Seq(Nat) /\ sampleCount \in Nat /\ level \in Int
      /\ loc \notin Ended => level >= 0
  BY FormFixed DEF Accurate, Counters, Types, Room
<1>1. CASE StepToMain
  BY <1>0, <1>1 DEF StepToMain, Position
<1>2. CASE StepFails
  BY <1>0, <1>2 DEF StepFails, Fail, Position
<1>3. CASE ConfigureFails
  BY <1>0, <1>3 DEF ConfigureFails, Position
<1>4. CASE StartInvocations
  <2>1. child = "stopped" /\ pc = "other" /\ frames = <<>> /\ Begun(0) /\ sampleCount = 0
    BY <1>4 DEF StartInvocations, Ready, Leaving, Position
  <2>2. /\ loc' = "outWait" /\ child' = "run" /\ planted' = Starts
        /\ UNCHANGED <<program, sampleCount>>
    BY <1>4 DEF StartInvocations
  <2>3. pc \notin Ends
    BY <2>1, AddressAssumption
  <2> QED
    BY <2>1, <2>2, <2>3 DEF Outdoors, Position
<1>5. CASE StartFull
  BY <1>0, <1>5 DEF StartFull
<1>6. CASE Maximum
  BY <1>0, <1>6 DEF Maximum, Position
<1>7. CASE OutForward
  BY <1>0, <1>7 DEF OutForward, Outside, Waited, Forward, Outdoors, Position
<1>8. CASE DetachFails
  BY <1>0, <1>8 DEF DetachFails, Fail, Position
<1>9. CASE OutExited
  BY <1>0, <1>9 DEF OutExited, Position
<1>10. CASE OutSignaled
  BY <1>0, <1>10 DEF OutSignaled, Fail, Position
<1>11. CASE OutHit
  <2>1. Outdoors /\ child = "stopped" /\ stop = "ill" /\ planted' = planted \ Starts
    BY <1>11 DEF OutHit, Outside, Waited, Position
  <2>2. loc' = "stepOut" /\ child' = "step" /\ UNCHANGED <<program, sampleCount>>
    BY <1>11 DEF OutHit
  <2>3. frames = <<>> /\ planted' = {}
    BY <2>1, AddressAssumption DEF Outdoors
  <2> QED
    BY <2>1, <2>2, <2>3 DEF Outdoors, Crossing, Position
<1>12. CASE OutStepped
  <2>1. Crossing /\ child = "stopped" /\ stop = "trap" /\ planted' = planted \cup Starts \cup Ends
    BY <1>12, AccurateBefore DEF OutStepped, Waited, AllPlanted, Position
  <2>2. /\ loc' = "begin" /\ child' = "stopped" /\ UNCHANGED <<program, sampleCount>> /\ level' = 0
    BY <1>0, <1>12, <2>1 DEF OutStepped, EnterLevel
  <2>3. planted' = Marks
    BY <2>1 DEF Crossing, Marks
  <2> QED
    BY <2>1, <2>2, <2>3 DEF Crossing, Indoors, Position
<1>13. CASE StepLost
  BY <1>0, <1>13 DEF StepLost, Fail, Position
<1>14. CASE Begin
  <2>1. Indoors /\ child = "stopped" /\ level = 0
    BY <1>14 DEF Begin, Position
  <2>2. InBuffer
    BY <1>0, <1>14, BoundAssumption DEF Begin, InBuffer, Slot, Counters, Room
  <2>3. loc' = "inWait" /\ child' = "run" /\ UNCHANGED <<planted, program, sampleCount, level>>
    BY <1>14, <2>2 DEF Begin
  <2> QED
    BY <2>1, <2>3 DEF Indoors, Position
<1>15. CASE InEnd
  BY <1>0, <1>15 DEF InEnd, InIll, Waited, LastEnd, Indoors, Sampling, Position
<1>16. CASE InReturn
  <2>1. Indoors /\ pc \in Ends /\ level \in Nat /\ level # 0
    BY <1>0, <1>16 DEF InReturn, InIll, Waited, LastEnd, Position
  <2>2. /\ planted' = planted \ {pc} /\ hit' = pc /\ child' = "step" /\ loc' = "stepIn"
        /\ UNCHANGED <<program, sampleCount>> /\ level' = level - 1
    BY <1>16 DEF InReturn, StepOver
  <2>3. level' + 2 = level + 1
    BY <2>1, <2>2
  <2> QED
    BY <2>1, <2>2, <2>3 DEF Indoors, Stepping, Marks, Position
<1>17. CASE InCall
  <2>1. Indoors /\ pc \in Starts /\ level >= 0
    BY <1>0, <1>17 DEF InCall, InIll, Waited, Position
  <2>2. /\ planted' = planted \ {pc} /\ hit' = pc /\ child' = "step" /\ loc' = "stepIn"
        /\ UNCHANGED <<program, sampleCount, level>>
    BY <1>17 DEF InCall, StepOver
  <2>3. hit' \notin Ends
    BY <2>1, <2>2, AddressAssumption
  <2> QED
    BY <2>1, <2>2, <2>3 DEF Indoors, Stepping, Marks, Position
<1>18. CASE InStray
  BY <1>0, <1>18 DEF InStray, Fail, Position
<1>19. CASE InStepped
  <2>1. /\ Stepping /\ child = "stopped" /\ stop = "trap" /\ planted' = planted \cup {hit}
        /\ loc = "stepIn" /\ level \in Nat
    BY <1>0, <1>19, AccurateBefore DEF InStepped, Waited, Position
  <2>2. planted' = Marks
    BY <2>1 DEF Stepping, Types
  <2>3. level + 1 # form.level
    BY <1>0, <2>1
  <2>4. /\ loc' = "inWait" /\ child' = "run" /\ UNCHANGED <<program, sampleCount>>
        /\ level' = IF hit \in Starts THEN level + 1 ELSE level
    BY <1>19, <2>3 DEF InStepped, EnterLevel
  <2>5. Len(frames) = level' + 1 /\ Begun(sampleCount + 1) /\ frames[1] = outermost[sampleCount + 1]
        /\ pc # "other"
    BY <2>1, <2>4, AddressAssumption DEF Stepping, Types, Marks
  <2> QED
    BY <2>1, <2>2, <2>4, <2>5 DEF Indoors, Position
<1>20. CASE InForward
  BY <1>0, <1>20 DEF InForward, Waited, Forward, Indoors, Position
<1>21. CASE InExited
  BY <1>0, <1>21 DEF InExited, Waited, Indoors, Sampling, Position
<1>22. CASE InSignaled
  BY <1>0, <1>22 DEF InSignaled, Fail, Position
<1>23. CASE Sampled
  <2>1. sampleInProgress /\ Sampling
    BY <1>0, <1>23 DEF Sampled, Room, Position
  <2>2. /\ loc' = "ending" /\ UNCHANGED <<child, stop, planted, hit, program, sampleCount, level>>
    BY <1>23, <2>1 DEF Sampled
  <2> QED
    BY <2>1, <2>2 DEF Sampling, Position
<1>24. CASE EndSample
  BY <1>0, <1>24 DEF EndSample, Sampling, Halted, Position
<1>25. CASE Checked
  BY <1>0, <1>25 DEF Checked, Halted, Position
<1>26. CASE Flushed
  BY <1>0, <1>26 DEF Flushed, Halted, Position
<1>27. CASE NextInvocation
  <2>1. planted = Marks /\ child = "stopped" /\ Begun(sampleCount) /\ Leaves
    BY <1>27 DEF NextInvocation, Halted, Position
  <2>2. planted' = Starts
    BY <1>27, <2>1, AddressAssumption DEF NextInvocation, StartsOnly, Marks
  <2>3. loc' = "outWait" /\ child' = "run" /\ UNCHANGED <<program, sampleCount>>
    BY <1>27 DEF NextInvocation
  <2> QED
    BY <2>1, <2>2, <2>3 DEF Outdoors, Position
<1>28. CASE FullForward
  BY <1>0, <1>28 DEF FullForward, Waited, Leaving
<1>29. CASE FullEnded
  BY <1>0, <1>29 DEF FullEnded, Waited, Leaving
<1>30. CASE FullSample
  BY <1>0, <1>30 DEF FullSample, Leaving
<1>31. CASE PrintRows
  BY <1>0, <1>31 DEF PrintRows, Position
<1>32. CASE Close
  BY <1>0, <1>32 DEF Close, Position
<1>33. CASE Instruction
  <2>1. /\ Alive /\ pc \in Marks \cup {"other"} /\ pc \notin planted /\ calls \in Nat
        /\ outermost' = IF pc \in Starts /\ frames = <<>> THEN Append(outermost, calls + 1)
                         ELSE outermost
        /\ frames' = IF pc \in Starts THEN Append(frames, calls + 1)
                     ELSE IF pc \in Ends THEN SubSeq(frames, 1, Len(frames) - 1) ELSE frames
        /\ child = "step" => child' = "stopped" /\ stop' = "trap"
        /\ child = "run" => child' = "run"
        /\ UNCHANGED <<loc, planted, hit, sampleCount, level>>
    BY <1>33 DEF Instruction, Types
  <2>2. pc' \in {"exit", "stray"} \cup Starts \cup (IF frames' = <<>> THEN {} ELSE Ends)
    BY <1>33 DEF Instruction, NextPc
  <2>3. pc' # "other" /\ (frames' = <<>> => pc' \notin Ends)
    BY <2>2, AddressAssumption
  <2>4. CASE loc \in {"outWait", "fwdWait"}
    <3>1. Outdoors /\ child = "run" /\ pc \notin Starts
      BY <2>1, <2>4 DEF Alive, Position, Outdoors
    <3>2. frames' = <<>> /\ outermost' = outermost
      <4>1. CASE pc \in Ends
        <5>0. Len(frames) = 1 /\ outermost' = outermost
          BY <2>1, <3>1, <4>1 DEF Outdoors
        <5>1. frames' = SubSeq(frames, 1, 0)
          BY <2>1, <3>1, <4>1, <5>0
        <5>2. SubSeq(frames, 1, 0) = <<>>
          BY <1>0
        <5> QED
          BY <2>1, <3>1, <5>1, <5>2
      <4>2. CASE pc \notin Ends
        BY <2>1, <3>1, <4>2 DEF Outdoors
      <4> QED
        BY <4>1, <4>2
    <3> QED
      BY <2>1, <2>3, <2>4, <3>1, <3>2 DEF Outdoors, Position
  <2>5. CASE loc = "stepOut"
    <3>1. Crossing /\ child = "step" /\ pc \in Starts
      BY <2>1, <2>5, AddressAssumption DEF Alive, Position, Crossing, Marks
    <3>2. frames = <<>> /\ Begun(sampleCount)
      BY <3>1 DEF Crossing
    <3>3. frames' = <<calls + 1>> /\ outermost' = Append(outermost, calls + 1)
      BY <2>1, <3>1, <3>2
    <3>4. Len(outermost') = sampleCount + 1 /\ outermost'[sampleCount + 1] = calls + 1
      BY <1>0, <2>1, <3>2, <3>3
    <3>5. Inside(1)'
      BY <2>1, <3>3, <3>4
    <3> QED
      BY <2>1, <2>3, <2>5, <3>1, <3>5 DEF Crossing, Position
  <2>6. CASE loc = "stepIn"
    <3>1. /\ Stepping /\ child = "step" /\ pc = hit /\ level \in Nat
          /\ Inside(level + (IF hit \in Ends THEN 2 ELSE 1))
      BY <1>0, <2>1, <2>6 DEF Alive, Position, Stepping
    <3>2. CASE hit \in Ends
      <4>1. frames' = SubSeq(frames, 1, level + 1) /\ outermost' = outermost
        BY <1>0, <2>1, <3>1, <3>2, AddressAssumption
      <4>2. Len(frames') = level + 1 /\ frames'[1] = frames[1]
        BY <1>0, <3>1, <3>2, <4>1
      <4>3. Inside(level + 1)'
        BY <2>1, <3>1, <4>1, <4>2
      <4> QED
        BY <2>1, <2>3, <2>6, <3>1, <3>2, <4>3 DEF Stepping, Position
    <3>3. CASE hit \notin Ends
      <4>1. hit \in Starts /\ frames # <<>>
        BY <1>0, <3>1, <3>3 DEF Types, Marks
      <4>2. frames' = Append(frames, calls + 1) /\ outermost' = outermost
        BY <2>1, <3>1, <4>1
      <4>3. Len(frames') = level + 2 /\ frames'[1] = frames[1]
        BY <1>0, <2>1, <3>1, <3>3, <4>2
      <4>4. Inside(level + 2)'
        BY <2>1, <3>1, <4>2, <4>3
      <4> QED
        BY <2>1, <2>3, <2>6, <3>1, <3>3, <4>4 DEF Stepping, Position
    <3> QED
      BY <3>2, <3>3
  <2>7. CASE loc \in {"begin", "inWait"}
    BY <2>1, <2>7 DEF Position, Indoors
  <2>8. CASE loc \in {"setup", "based", "sampled", "ending", "checked", "flushing", "next"}
    BY <2>1, <2>8 DEF Alive, Position, Sampling, Halted
  <2>9. CASE loc \notin {"outWait", "fwdWait", "stepOut", "stepIn", "begin", "inWait", "setup", "based",
                        "sampled", "ending", "checked", "flushing", "next"}
    BY <2>1, <2>9 DEF Position
  <2> QED
    BY <2>4, <2>5, <2>6, <2>7, <2>8, <2>9
<1>34. CASE Illegal
  <2>1. /\ Alive /\ child' = "stopped" /\ stop' = "ill" /\ pc \in planted \cup {"stray"}
        /\ UNCHANGED <<loc, program, planted, hit, sampleCount, level>>
    BY <1>34 DEF Illegal
  <2>2. "stray" \notin Ends
    BY AddressAssumption
  <2> QED
    BY <2>1, <2>2 DEF Alive, Outdoors, Crossing, Indoors, Stepping, Sampling, Halted, Position
<1>35. ASSUME NEW code \in Exited, Exit(code) PROVE Position'
  <2>1. /\ Alive /\ child' \in Exited /\ UNCHANGED <<loc, program, planted, hit, sampleCount, level>>
    BY <1>35 DEF Exit
  <2> QED
    BY <2>1 DEF Alive, Outdoors, Crossing, Indoors, Stepping, Sampling, Halted, Position
<1>36. CASE Handler
  BY <1>0, <1>36 DEF Handler, Position
<1>37. ASSUME NEW k \in Signals \ {"alarm"}, Signal(k) PROVE Position'
  <2>1. /\ Alive /\ child' \in {"stopped", "killed"} /\ stop' # "trap" /\ stop' # "ill"
        /\ UNCHANGED <<loc, program, planted, hit, sampleCount, level>>
    BY <1>37, BoundAssumption DEF Signal, SignalKinds
  <2> QED
    BY <2>1 DEF Alive, Outdoors, Crossing, Indoors, Stepping, Sampling, Halted, Position
<1>38. CASE Terminated
  BY <1>0, <1>38 DEF Terminated, vars, Position
<1>39. CASE UNCHANGED vars
  BY <1>39 DEF vars, Outdoors, Crossing, Indoors, Stepping, Sampling, Halted, Position
<1> QED
  BY <1>1, <1>2, <1>3, <1>4, <1>5, <1>6, <1>7, <1>8, <1>9, <1>10, <1>11, <1>12, <1>13,
    <1>14, <1>15, <1>16, <1>17, <1>18, <1>19, <1>20, <1>21, <1>22, <1>23, <1>24, <1>25,
    <1>26, <1>27, <1>28, <1>29, <1>30, <1>31, <1>32, <1>33, <1>34, <1>35, <1>36, <1>37,
    <1>38, <1>39 DEF Next, ToolNext, ProgramNext

\* A step that leaves the samples and the rows alone.
LEMMA Quiet ==
  ASSUME Counters, Types, Room, Printing, Accurate, Position, Measuring,
         UNCHANGED <<rows, samples, sampleCount, flushedSampleCount>>,
         loc \notin Ended,
         Len(outermost') \in Nat, Len(outermost') >= Len(outermost),
         \A i \in 1 .. Len(outermost) : outermost'[i] = outermost[i],
         child \in Exited => loc \notin {"checked", "final", "printed"},
         loc' # "done", loc' = "printed" => loc = "printed",
         loc = "printed" => loc' = "printed",
         loc' \in {"inWait", "stepIn", "sampled", "ending"} =>
           loc \in {"inWait", "stepIn", "sampled", "ending"}
  PROVE  Measuring'
<1>0. /\ form.level = 0 /\ sampleCount \in Nat /\ flushedSampleCount \in Nat
      /\ flushedSampleCount <= sampleCount /\ Len(outermost) \in Nat
  BY DEF Accurate, Counters, Types, Room
<1>1. \A i \in 1 .. Len(outermost) : /\ Reading(i, TRUE)' = Reading(i, TRUE)
                                     /\ Reading(i, FALSE)' = Reading(i, FALSE)
  BY DEF Reading
<1>2. Recorded'
  <2> SUFFICES ASSUME loc' \notin Ended \cup {"printed"} PROVE Recorded'
    BY DEF Recorded
  <2>1. /\ sampleCount <= Len(outermost)
        /\ \A i \in 1 .. Len(rows) : rows[i] = Reading(i, TRUE)
        /\ \A i \in 1 .. sampleCount : i > flushedSampleCount =>
             samples[i - 1 - flushedSampleCount] = Reading(i, TRUE) \/ Cut(i)
    BY DEF Measuring, Recorded
  <2>2. Len(rows) \in Nat /\ Len(rows) <= sampleCount
    BY <1>0 DEF Printing, Ended
  <2>3. \A i \in 1 .. sampleCount : ~Cut(i) /\ i \in 1 .. Len(outermost)
    BY <1>0, <2>1 DEF Cut
  <2>4. \A i \in 1 .. Len(rows') : rows'[i] = Reading(i, TRUE)'
    <3> TAKE i \in 1 .. Len(rows')
    <3>1. i \in 1 .. Len(rows) /\ i \in 1 .. Len(outermost) /\ rows'[i] = rows[i]
      BY <1>0, <2>1, <2>2
    <3> QED
      BY <1>1, <2>1, <3>1
  <2>5. \A i \in 1 .. sampleCount' : i > flushedSampleCount' =>
          samples'[i - 1 - flushedSampleCount'] = Reading(i, TRUE)' \/ Cut(i)'
    BY <1>0, <1>1, <2>1, <2>3
  <2>6. sampleCount' <= Len(outermost')
    BY <1>0, <2>1
  <2> QED
    BY <2>4, <2>5, <2>6, Zenon DEF Recorded
<1>3. Current'
  <2> SUFFICES ASSUME loc' \in {"inWait", "stepIn", "sampled", "ending"} PROVE Current'
    BY DEF Current
  <2>1. sampleCount < Len(outermost) /\ samples[Slot] = Reading(sampleCount + 1, FALSE)
    BY DEF Measuring, Current
  <2>2. Slot' = Slot
    BY DEF Slot
  <2>3. sampleCount + 1 \in 1 .. Len(outermost) /\ sampleCount < Len(outermost')
    BY <1>0, <2>1
  <2> QED
    BY <1>1, <2>1, <2>2, <2>3 DEF Current
<1>4. Complete'
  BY DEF Measuring, Complete
<1> QED
  BY <1>2, <1>3, <1>4 DEF Measuring

\* A sample that is marked as whole.
LEMMA MadeWhole ==
  ASSUME NEW o \in Nat, NEW w \in BOOLEAN, NEW s \in Sample, s.invocation = o, s.depth = 1
  PROVE  [s EXCEPT !.whole = w] = [invocation |-> o, depth |-> 1, whole |-> w]
BY DEF Sample

\* Every invocation of the function is measured once, alone and in order.
LEMMA MeasuringStep ==
  ASSUME Counters, Types, Leaving, Room, Printing, Accurate, Accurate', Position, Measuring,
         [Next]_vars
  PROVE  Measuring'
<1> USE DEF Waits, Exited, Dead, Ended, Go, Resume, sampling, program, history
<1>0. /\ form' = form /\ form.level = 0 /\ ~form.full
      /\ frames \in Seq(Nat) /\ outermost \in Seq(Nat) /\ Len(outermost) \in Nat
      /\ sampleCount \in Nat /\ flushedSampleCount \in Nat /\ Slot \in Int
      /\ loc \notin Ended => /\ flushedSampleCount <= sampleCount
                            /\ rows \in Seq(Sample) /\ Len(rows) \in Nat
  BY FormFixed DEF Accurate, Counters, Types, Room, Printing, Slot
<1>n. /\ sampleCount \in Nat /\ flushedSampleCount \in Nat /\ MAX_SAMPLES \in Nat
      /\ Slot = sampleCount - flushedSampleCount
  BY <1>0, BoundAssumption DEF Slot
<1>s. loc \notin Ended => \A i \in 1 .. sampleCount : i > flushedSampleCount =>
        /\ i - 1 - flushedSampleCount \in 0 .. MAX_SAMPLES - 1
        /\ i - 1 - flushedSampleCount # Slot
  BY <1>0, <1>n DEF Room
<1> DEFINE Silent ==
      /\ UNCHANGED <<rows, samples, sampleCount, flushedSampleCount>>
      /\ loc \notin Ended \cup {"checked", "final", "printed"} \/ (Alive /\ loc' = loc)
      /\ loc' \notin {"printed", "done"} \/ (Alive /\ loc' = loc)
      /\ loc' \in {"inWait", "stepIn", "sampled", "ending"} =>
           loc \in {"inWait", "stepIn", "sampled", "ending"}
<1>a. ASSUME Silent, UNCHANGED outermost PROVE Measuring'
  <2>1. /\ Len(outermost') \in Nat /\ Len(outermost') >= Len(outermost)
        /\ \A i \in 1 .. Len(outermost) : outermost'[i] = outermost[i]
    BY <1>0, <1>a
  <2> QED
    BY <1>a, <2>1, Quiet DEF Alive
<1>b. ASSUME loc' = "failed" PROVE Measuring'
  BY <1>b DEF Measuring, Recorded, Current, Complete
<1>1. CASE StepToMain
  BY <1>0, <1>a, <1>1 DEF StepToMain
<1>2. CASE StepFails
  BY <1>b, <1>2 DEF StepFails, Fail
<1>3. CASE ConfigureFails
  BY <1>b, <1>3 DEF ConfigureFails
<1>4. CASE StartInvocations
  BY <1>0, <1>a, <1>4 DEF StartInvocations, Ready
<1>5. CASE StartFull
  BY <1>0, <1>5 DEF StartFull
<1>6. CASE Maximum
  BY <1>0, <1>a, <1>6 DEF Maximum, Waited
<1>7. CASE OutForward
  BY <1>0, <1>a, <1>7 DEF OutForward, Outside, Waited, Forward
<1>8. CASE DetachFails
  BY <1>b, <1>8 DEF DetachFails, Fail
<1>9. CASE OutExited
  BY <1>0, <1>a, <1>9 DEF OutExited, Outside, Waited
<1>10. CASE OutSignaled
  <2>1. CASE loc' = "failed"
    BY <1>b, <2>1
  <2>2. CASE loc' # "failed"
    BY <1>a, <1>10, <2>2 DEF OutSignaled, Outside, Waited, Fail
  <2> QED
    BY <2>1, <2>2
<1>11. CASE OutHit
  BY <1>0, <1>a, <1>11 DEF OutHit, Outside, Waited
<1>12. CASE OutStepped
  BY <1>0, <1>a, <1>12 DEF OutStepped, Waited, EnterLevel
<1>13. CASE StepLost
  BY <1>b, <1>13 DEF StepLost, Fail
<1>14. CASE Begin
  <2>1. /\ Indoors /\ level = 0 /\ Inside(1)
        /\ Slot \in 0 .. MAX_SAMPLES - 1
    BY <1>0, <1>14, BoundAssumption DEF Begin, Slot, Position, Indoors, Room
  <2>2. Len(frames) = 1 /\ Here = outermost[sampleCount + 1] /\ sampleCount < Len(outermost)
    <3>1. Len(frames) = 1 /\ Len(outermost) = sampleCount + 1 /\ frames[1] = outermost[sampleCount + 1]
      BY <2>1 DEF Inside, Begun
    <3>2. frames # <<>>
      BY <3>1
    <3> QED
      BY <1>n, <3>1, <3>2 DEF Here
  <2>3. /\ samples' = [samples EXCEPT ![Slot] = Reading(sampleCount + 1, FALSE)]
        /\ loc' = "inWait" /\ UNCHANGED <<rows, sampleCount, flushedSampleCount, outermost>>
    BY <1>14, <2>1, <2>2 DEF Begin, BeginSample, InBuffer, Reading
  <2>4. Slot' = Slot /\ \A i \in Nat, w \in BOOLEAN : Reading(i, w)' = Reading(i, w)
    BY <2>3 DEF Slot, Reading
  <2>5. Current'
    <3>1. samples'[Slot] = Reading(sampleCount + 1, FALSE)
      BY <2>1, <2>3 DEF Types
    <3>2. Reading(sampleCount + 1, FALSE)' = Reading(sampleCount + 1, FALSE)
      BY <2>3 DEF Reading
    <3> QED
      BY <2>2, <2>3, <2>4, <3>1, <3>2 DEF Current
  <2>6. \A i \in 1 .. sampleCount : i > flushedSampleCount =>
          samples'[i - 1 - flushedSampleCount] = samples[i - 1 - flushedSampleCount]
    BY <1>s, <1>14, <2>3 DEF Types, Begin
  <2>7. Recorded'
    BY <1>14, <2>3, <2>6 DEF Begin, Measuring, Recorded, Reading, Cut
  <2>8. Complete'
    BY <2>3 DEF Complete
  <2> QED
    BY <2>5, <2>7, <2>8 DEF Measuring
<1>15. CASE InEnd
  BY <1>0, <1>a, <1>15 DEF InEnd, InIll, Waited
<1>16. CASE InReturn
  BY <1>0, <1>a, <1>16 DEF InReturn, InIll, Waited, StepOver
<1>17. CASE InCall
  BY <1>0, <1>a, <1>17 DEF InCall, InIll, Waited, StepOver
<1>18. CASE InStray
  BY <1>b, <1>18 DEF InStray, Fail
<1>19. CASE InStepped
  BY <1>0, <1>a, <1>19 DEF InStepped, Waited, EnterLevel
<1>20. CASE InForward
  BY <1>0, <1>a, <1>20 DEF InForward, Waited, Forward
<1>21. CASE InExited
  BY <1>0, <1>a, <1>21 DEF InExited, Waited
<1>22. CASE InSignaled
  BY <1>b, <1>22 DEF InSignaled, Fail
<1>23. CASE Sampled
  BY <1>0, <1>a, <1>23 DEF Sampled
<1>24. CASE EndSample
  <2>0. loc = "ending"
    BY <1>24 DEF EndSample
  <2>a. Slot \in 0 .. MAX_SAMPLES - 1
    BY <1>0, <1>n, <2>0 DEF Room
  <2>1. /\ Sampling /\ Slot \in 0 .. MAX_SAMPLES - 1 /\ samples[Slot] = Reading(sampleCount + 1, FALSE)
        /\ sampleCount < Len(outermost)
    BY <2>0, <2>a DEF Position, Measuring, Current
  <2>2. /\ samples' = [samples EXCEPT ![Slot] = EndedSample(samples[Slot])]
        /\ loc' = "checked" /\ sampleCount' = sampleCount + 1 /\ child' = child
        /\ UNCHANGED <<rows, flushedSampleCount, outermost>>
    BY <1>24, <2>1 DEF EndSample
  <2>3. child = "stopped" => EndedSample(samples[Slot]) = Reading(sampleCount + 1, TRUE)
    <3> SUFFICES ASSUME child = "stopped"
                 PROVE  EndedSample(samples[Slot]) = Reading(sampleCount + 1, TRUE)
      OBVIOUS
    <3>1. pc \in Ends /\ Here = outermost[sampleCount + 1]
      <4>1. pc \in Ends /\ Len(frames) = 1 /\ frames[1] = outermost[sampleCount + 1]
        BY <2>1 DEF Sampling, Leaves, Inside
      <4>2. frames # <<>>
        BY <4>1
      <4> QED
        BY <4>1, <4>2 DEF Here
    <3>2. samples[Slot].invocation = Here
      BY <2>1, <3>1 DEF Reading
    <3>3. EndedSample(samples[Slot]) = [samples[Slot] EXCEPT !.whole = TRUE]
      BY <3>1, <3>2 DEF EndedSample
    <3>a. outermost[sampleCount + 1] \in Nat
      <4>1. sampleCount + 1 \in 1 .. Len(outermost)
        BY <1>0, <1>n, <2>1
      <4> QED
        BY <1>0, <4>1
    <3>b. samples[Slot] \in Sample
      BY <2>a DEF Types
    <3>4. /\ outermost[sampleCount + 1] \in Nat /\ samples[Slot] \in Sample
          /\ samples[Slot].invocation = outermost[sampleCount + 1] /\ samples[Slot].depth = 1
      BY <2>1, <3>a, <3>b DEF Reading
    <3>5. [samples[Slot] EXCEPT !.whole = TRUE] = Reading(sampleCount + 1, TRUE)
      BY <3>4, MadeWhole DEF Reading
    <3> QED
      BY <3>3, <3>5
  <2>4. \A i \in Nat : i = sampleCount + 1 => samples'[Slot] = Reading(i, TRUE) \/ Cut(i)'
    <3>1. samples'[Slot] = EndedSample(samples[Slot])
      BY <2>1, <2>2 DEF Types
    <3>2. child \in {"stopped"} \cup Exited
      BY <2>1 DEF Sampling
    <3>3. child \in Exited => \A i \in Nat : i = sampleCount + 1 => Cut(i)'
      BY <1>n, <2>2 DEF Cut
    <3> QED
      BY <2>3, <3>1, <3>2, <3>3
  <2>5. \A i \in 1 .. sampleCount : i > flushedSampleCount =>
          samples'[i - 1 - flushedSampleCount] = Reading(i, TRUE)
    <3> TAKE i \in 1 .. sampleCount
    <3> HAVE i > flushedSampleCount
    <3>1. samples[i - 1 - flushedSampleCount] = Reading(i, TRUE)
      BY <2>0 DEF Measuring, Recorded, Cut
    <3>2. i - 1 - flushedSampleCount \in 0 .. MAX_SAMPLES - 1 /\ i - 1 - flushedSampleCount # Slot
      BY <1>s, <2>0
    <3> QED
      BY <2>2, <3>1, <3>2 DEF Types
  <2>6. \A i \in 1 .. sampleCount' : i > flushedSampleCount =>
          samples'[i - 1 - flushedSampleCount] = Reading(i, TRUE) \/ Cut(i)'
    <3> TAKE i \in 1 .. sampleCount'
    <3> HAVE i > flushedSampleCount
    <3>1. CASE i \in 1 .. sampleCount
      BY <2>5, <3>1
    <3>2. CASE i = sampleCount + 1
      <4>1. i - 1 - flushedSampleCount = Slot /\ i \in Nat
        BY <1>n, <3>2
      <4>2. samples'[Slot] = Reading(i, TRUE) \/ Cut(i)'
        BY <2>4, <3>2, <4>1
      <4> QED
        BY <4>1, <4>2
    <3>3. i \in 1 .. sampleCount \/ i = sampleCount + 1
      BY <1>n, <2>2
    <3> QED
      BY <3>1, <3>2, <3>3
  <2>7. \A i \in 1 .. Len(rows) : rows[i] = Reading(i, TRUE)
    BY <1>24 DEF EndSample, Measuring, Recorded
  <2>8. sampleCount' <= Len(outermost')
    BY <1>0, <2>1, <2>2
  <2>9. Recorded'
    BY <2>2, <2>6, <2>7, <2>8 DEF Recorded, Reading
  <2> QED
    BY <2>2, <2>9 DEF Measuring, Current, Complete
<1>25. CASE Checked
  <2>0. /\ loc = "checked" /\ UNCHANGED <<child, samples, sampleCount, flushedSampleCount, outermost>>
        /\ Recorded /\ loc' \in {"final", "flushing", "next"}
    BY <1>25 DEF Checked, Measuring
  <2>1. CASE loc' # "flushing"
    <3>1. rows' = rows /\ \A i \in 1 .. sampleCount : Cut(i) => Cut(i)'
      BY <1>25, <2>0, <2>1 DEF Checked, Cut
    <3> QED
      BY <2>0, <2>1, <3>1 DEF Recorded, Reading, Measuring, Current, Complete
  <2>2. CASE loc' = "flushing"
    <3>1. /\ rows' = rows \o Buffered(samples, Slot) /\ child \notin Exited
          /\ Slot \in 0 .. MAX_SAMPLES /\ Len(rows) = flushedSampleCount
      BY <1>0, <1>25, <2>2, BoundAssumption DEF Checked, PrintSamples, Room, Slot, Printing
    <3>2. Adds(rows', rows, samples, Slot) /\ Len(rows) + Slot = sampleCount
      <4>1. rows \in Seq(Sample) /\ Len(rows) + Slot = sampleCount
        BY <1>0, <1>n, <2>0, <3>1
      <4> QED
        BY <4>1, <2>0, <3>1, Appended DEF Types
    <3>3. \A i \in 1 .. sampleCount : i > flushedSampleCount =>
            samples[i - 1 - flushedSampleCount] = Reading(i, TRUE)
      BY <2>0, <3>1 DEF Recorded, Cut
    <3>4. \A i \in 1 .. Len(rows') : rows'[i] = Reading(i, TRUE)
      <4> TAKE i \in 1 .. Len(rows')
      <4>0. i \in 1 .. sampleCount
        BY <3>2 DEF Adds
      <4>1. CASE i \in 1 .. Len(rows)
        <5>1. rows'[i] = rows[i]
          BY <1>n, <3>1, <3>2, <4>1 DEF Adds
        <5>2. rows[i] = Reading(i, TRUE)
          BY <2>0, <4>1 DEF Recorded
        <5> QED
          BY <5>1, <5>2
      <4>2. CASE i > flushedSampleCount
        <5>1. rows'[i] = samples[i - 1 - flushedSampleCount]
          BY <1>n, <3>1, <3>2, <4>2 DEF Adds
        <5> QED
          BY <3>3, <4>0, <4>2, <5>1
      <4>3. i \in 1 .. Len(rows) \/ i > flushedSampleCount
        BY <1>n, <3>1, <4>0
      <4> QED
        BY <4>1, <4>2, <4>3
    <3> QED
      BY <2>0, <2>2, <3>3, <3>4 DEF Recorded, Reading, Measuring, Current, Complete
  <2> QED
    BY <2>1, <2>2
<1>26. CASE Flushed
  <2>1. /\ loc = "flushing" /\ loc' = "next" /\ UNCHANGED <<rows, samples, sampleCount, outermost>>
        /\ flushedSampleCount' = sampleCount /\ Recorded
    BY <1>0, <1>26 DEF Flushed, FlushedMore, Room, Measuring
  <2> QED
    BY <1>0, <2>1 DEF Recorded, Reading, Measuring, Current, Complete
<1>27. CASE NextInvocation
  BY <1>0, <1>a, <1>27 DEF NextInvocation
<1>28. CASE FullForward
  BY <1>0, <1>28 DEF FullForward, Waited, Leaving
<1>29. CASE FullEnded
  BY <1>0, <1>29 DEF FullEnded, Waited, Leaving
<1>30. CASE FullSample
  BY <1>0, <1>30 DEF FullSample, Leaving
<1>31. CASE PrintRows
  <2>1. /\ rows' = rows \o Buffered(samples, Slot) /\ Slot \in 0 .. MAX_SAMPLES
        /\ Len(rows) = flushedSampleCount /\ loc = "final" /\ loc' = "printed"
        /\ UNCHANGED <<child, sampleCount>> /\ Recorded
    BY <1>0, <1>31, BoundAssumption DEF PrintRows, PrintRest, PrintSamples, Room, Slot, Printing,
      Measuring
  <2>2. Adds(rows', rows, samples, Slot) /\ Len(rows) + Slot = sampleCount
    <3>1. rows \in Seq(Sample) /\ Len(rows) + Slot = sampleCount
      BY <1>0, <1>n, <2>1
    <3> QED
      BY <3>1, <2>1, Appended DEF Types
  <2>3. \A i \in 1 .. Len(rows') : rows'[i].whole \/ (i = Len(rows') /\ child' \in Exited)
    <3> TAKE i \in 1 .. Len(rows')
    <3>1. Reading(i, TRUE).whole
      BY DEF Reading
    <3>0. i \in 1 .. sampleCount
      BY <2>2 DEF Adds
    <3>2. CASE i \in 1 .. Len(rows)
      <4>1. rows'[i] = rows[i]
        BY <1>n, <2>1, <2>2, <3>2 DEF Adds
      <4>2. rows[i] = Reading(i, TRUE)
        BY <2>1, <3>2 DEF Recorded
      <4> QED
        BY <3>1, <4>1, <4>2
    <3>3. CASE i > flushedSampleCount
      <4>0. rows'[i] = samples[i - 1 - flushedSampleCount]
        BY <1>n, <2>1, <2>2, <3>3 DEF Adds
      <4>1. rows'[i] = Reading(i, TRUE) \/ Cut(i)
        BY <2>1, <3>0, <3>3, <4>0 DEF Recorded
      <4> QED
        BY <2>1, <2>2, <3>1, <4>1 DEF Cut, Adds
    <3> QED
      BY <1>n, <2>1, <3>0, <3>2, <3>3
  <2> QED
    BY <2>1, <2>3 DEF Measuring, Recorded, Current, Complete
<1>32. CASE Close
  BY <1>32 DEF Close, Measuring, Recorded, Current, Complete
<1>33. CASE Instruction
  <2>1. Silent /\ Alive
    BY <1>33 DEF Instruction, Alive
  <2>2. outermost' = outermost \/ outermost' = Append(outermost, calls + 1)
    BY <1>33 DEF Instruction
  <2>3. /\ Len(outermost') \in Nat /\ Len(outermost') >= Len(outermost)
        /\ \A i \in 1 .. Len(outermost) : outermost'[i] = outermost[i]
    BY <1>0, <2>2 DEF Types
  <2> QED
    BY <2>1, <2>3, Quiet DEF Alive
<1>34. CASE Illegal
  BY <1>0, <1>a, <1>34 DEF Illegal, Alive
<1>35. ASSUME NEW code \in Exited, Exit(code) PROVE Measuring'
  BY <1>0, <1>a, <1>35 DEF Exit, Alive
<1>36. CASE Handler
  <2>1. CASE loc' = "done" /\ ~reprinted'
    <3>1. /\ ~Reaped /\ loc \notin Ended \cup {"flushing", "printed"} /\ child' = child
          /\ rows' = rows \o Buffered(samples', Slot)
          /\ Slot \in 0 .. MAX_SAMPLES /\ Len(rows) = flushedSampleCount
      <4>1. Counted = sampleCount /\ loc \notin Ended
        BY <1>0, <1>36 DEF Handler, Counted
      <4>2. reprinted' = (loc \in {"flushing", "printed"})
        BY <1>36, <2>1 DEF Handler
      <4>3. loc \notin {"flushing", "printed"}
        BY <2>1, <4>2, Zenon
      <4> QED
        BY <1>0, <1>36, <2>1, <4>1, <4>3, BoundAssumption
           DEF Handler, PrintSamples, Room, Slot, Printing
    <3>2. /\ samples' \in [0 .. MAX_SAMPLES - 1 -> Sample]
          /\ \A k \in 0 .. MAX_SAMPLES - 1 : k # Slot => samples'[k] = samples[k]
      BY <1>36, SlotsTyped DEF Handler, Types
    <3>3. Adds(rows', rows, samples', Slot) /\ Len(rows) + Slot = sampleCount
      <4>1. rows \in Seq(Sample) /\ Len(rows) + Slot = sampleCount
        BY <1>0, <1>n, <3>1
      <4> QED
        BY <4>1, <3>1, <3>2, Appended
    <3>4. Recorded /\ \A i \in 1 .. sampleCount : ~Cut(i)
      BY <3>1 DEF Measuring, Cut, Reaped
    <3>5. \A i \in 1 .. Len(rows') : rows'[i].whole
      <4> TAKE i \in 1 .. Len(rows')
      <4>1. Reading(i, TRUE).whole
        BY DEF Reading
      <4>0. i \in 1 .. sampleCount
        BY <3>3 DEF Adds
      <4>2. CASE i \in 1 .. Len(rows)
        <5>1. rows'[i] = rows[i]
          BY <1>n, <3>1, <3>3, <4>2 DEF Adds
        <5>2. rows[i] = Reading(i, TRUE)
          BY <3>1, <3>4, <4>2 DEF Recorded
        <5> QED
          BY <4>1, <5>1, <5>2
      <4>3. CASE i > flushedSampleCount
        <5>1. i - 1 - Len(rows) \in 0 .. MAX_SAMPLES - 1 /\ i - 1 - Len(rows) # Slot
          BY <1>s, <3>1, <4>0, <4>3
        <5>2. rows'[i] = samples[i - 1 - flushedSampleCount]
          BY <1>n, <3>1, <3>2, <3>3, <4>0, <4>3, <5>1 DEF Adds
        <5>3. rows'[i] = Reading(i, TRUE)
          BY <3>1, <3>4, <4>0, <4>3, <5>2 DEF Recorded
        <5> QED
          BY <4>1, <5>3
      <4> QED
        BY <1>n, <3>1, <4>0, <4>2, <4>3
    <3> QED
      BY <2>1, <3>5 DEF Measuring, Recorded, Current, Complete
  <2>2. CASE loc' = "done" /\ reprinted'
    BY <2>2 DEF Measuring, Recorded, Current, Complete
  <2>3. CASE loc' \in {"failed", "crashed"}
    BY <2>3 DEF Measuring, Recorded, Current, Complete
  <2> QED
    BY <1>36, <2>1, <2>2, <2>3 DEF Handler
<1>37. ASSUME NEW k \in Signals \ {"alarm"}, Signal(k) PROVE Measuring'
  BY <1>0, <1>a, <1>37 DEF Signal, Alive
<1>38. CASE Terminated
  BY <1>38 DEF Terminated, vars, Measuring, Recorded, Current, Complete, Reading, Cut, Slot
<1>39. CASE UNCHANGED vars
  BY <1>39 DEF vars, Measuring, Recorded, Current, Complete, Reading, Cut, Slot
<1> QED
  BY <1>1, <1>2, <1>3, <1>4, <1>5, <1>6, <1>7, <1>8, <1>9, <1>10, <1>11, <1>12, <1>13,
    <1>14, <1>15, <1>16, <1>17, <1>18, <1>19, <1>20, <1>21, <1>22, <1>23, <1>24, <1>25,
    <1>26, <1>27, <1>28, <1>29, <1>30, <1>31, <1>32, <1>33, <1>34, <1>35, <1>36, <1>37,
    <1>38, <1>39 DEF Next, ToolNext, ProgramNext

\* What the counters of samples, the places of the tool, the buffer, the rows
\* and the program have to do with each other, in every reachable state.
THEOREM Invariance == Spec => []IInv
<1>1. Init => IInv
  <2> SUFFICES ASSUME Init PROVE IInv
    OBVIOUS
  <2>1. 0 % MAX_SAMPLES = 0
    BY BoundAssumption, Uniquely
  <2>2. Counters /\ Leaving /\ Room
    BY <2>1, BoundAssumption DEF Init, Counters, Leaving, Room, Ended
  <2>3. NoSample \in Sample /\ rows = <<>> /\ Len(rows) = 0
    BY DEF Init, NoSample, Sample
  <2>4. Types /\ Printing
    BY <2>3 DEF Init, Types, Printing, Marks
  <2>5. Position
    BY DEF Init, Position, Begun
  <2>6. Measuring
    BY <2>3 DEF Init, Measuring, Recorded, Current, Complete, Ended
  <2> QED
    BY <2>2, <2>4, <2>5, <2>6 DEF IInv
<1>2. IInv /\ [Next]_vars => IInv'
  <2> SUFFICES ASSUME IInv, [Next]_vars PROVE IInv'
    OBVIOUS
  <2>1. Counters' /\ Types' /\ Leaving' /\ Room' /\ Printing'
    BY CountersStep, TypesStep, LeavingStep, RoomStep, PrintingStep DEF IInv
  <2>2. ASSUME Accurate' PROVE Position' /\ Measuring'
    <3>1. Accurate
      BY <2>2, AccurateBefore
    <3> QED
      BY <2>2, <3>1, PositionStep, MeasuringStep DEF IInv
  <2> QED
    BY <2>1, <2>2 DEF IInv
<1> QED
  BY <1>1, <1>2, PTL DEF Spec

\* Whichever way the tool ends, no program is left running with breakpoints;
\* up to the top level no sample is written outside of the buffer.
THEOREM NoTrapLeftAlways == Spec => []NoTrapLeft
<1>1. IInv => NoTrapLeft
  BY DEF IInv, Leaving, Room, NoTrapLeft
<1> QED
  BY <1>1, Invariance, PTL

\* As long as no signal arrives while the tool steps over a breakpoint, every
\* invocation of the function is measured: once, alone, to its end and in order.
THEOREM MeasuredOnceAlways == Spec => []MeasuredOnce
<1>1. ASSUME IInv PROVE MeasuredOnce
  <2> DEFINE all == rows \o Buffered(samples, Slot)
  <2> SUFFICES ASSUME form.level = 0, ~form.full, ~swallowed, child = "run",
                      loc \in {"outWait", "fwdWait"}, frames = <<>>
               PROVE  all = [i \in 1 .. Len(outermost) |-> Reading(i, TRUE)]
    BY DEF MeasuredOnce, Reading
  <2>1. /\ Counters /\ Types /\ Room /\ Printing /\ Recorded
        /\ Outdoors /\ outermost \in Seq(Nat)
    BY <1>1 DEF IInv, Accurate, Position, Measuring, Types
  <2>2. /\ sampleCount \in Nat /\ flushedSampleCount \in Nat /\ MAX_SAMPLES \in Nat
        /\ Slot = sampleCount - flushedSampleCount /\ Slot \in 0 .. MAX_SAMPLES
        /\ rows \in Seq(Sample) /\ Len(rows) = flushedSampleCount
        /\ Len(outermost) = sampleCount
    BY <2>1, BoundAssumption DEF Counters, Slot, Room, Ended, Printing, Outdoors, Begun
  <2>3. Adds(all, rows, samples, Slot)
    BY <2>1, <2>2, Appended DEF Types
  <2> HIDE DEF all
  <2>4. all \in Seq(Sample) /\ Len(all) = Len(outermost)
    BY <2>2, <2>3 DEF Adds
  <2>5. \A i \in 1 .. Len(outermost) : all[i] = Reading(i, TRUE)
    <3> TAKE i \in 1 .. Len(outermost)
    <3>1. i \in 1 .. Len(all) /\ i \in 1 .. sampleCount
      BY <2>2, <2>4
    <3>2. CASE i \in 1 .. Len(rows)
      <4>1. all[i] = rows[i]
        BY <2>2, <2>3, <3>1, <3>2 DEF Adds
      <4>2. rows[i] = Reading(i, TRUE)
        BY <2>1, <3>2 DEF Recorded, Ended
      <4> QED
        BY <4>1, <4>2
    <3>3. CASE i > flushedSampleCount
      <4>1. all[i] = samples[i - 1 - flushedSampleCount]
        BY <2>2, <2>3, <3>1, <3>3 DEF Adds
      <4>2. samples[i - 1 - flushedSampleCount] = Reading(i, TRUE)
        BY <2>1, <3>1, <3>3 DEF Recorded, Cut, Ended
      <4> QED
        BY <4>1, <4>2
    <3>4. i \in 1 .. Len(rows) \/ i > flushedSampleCount
      BY <2>2, <3>1
    <3> QED
      BY <3>2, <3>3, <3>4
  <2>6. all = [i \in 1 .. Len(all) |-> all[i]]
    BY <2>4
  <2> QED
    BY <2>4, <2>5, <2>6
<1> QED
  BY <1>1, Invariance, PTL

\* A successful run has a row for every sample it counted and no other, unless
\* a timeout interrupted its printing; only the last one can be unfinished.
THEOREM RowsCompleteAlways == Spec => []RowsComplete
<1>1. IInv => RowsComplete
  BY DEF IInv, Accurate, Printing, Measuring, Complete, RowsComplete
<1> QED
  BY <1>1, Invariance, PTL
=============================================================================
