--------------------------- MODULE PageTraceProof ---------------------------
(***************************************************************************)
(* Proofs about PageTrace, for every set of pages, instructions and rights *)
(* and every program.                                                      *)
(***************************************************************************)
EXTENDS PageTrace, FiniteSetTheorems, TLAPS

USE DEF MaxPages, MemTrace, Interrupts, Timed, Known, Spend, AtInstruction, Handling, Place,
  Overlaid, InHandler

\* What the assumption on the command lines says of the one at hand.
LEMMA OptionsTyped ==
  ASSUME TypeOK
  PROVE  MaxPages \in Nat /\ MemTrace \in BOOLEAN /\ Interrupts \in BOOLEAN
BY OptionsAssumption DEF TypeOK

\* No step changes the command line or the program.
LEMMA OptionsFixed ==
  ASSUME [Next]_vars
  PROVE  options' = options
BY DEF Next, ProgramNext, Handle, StartTrace, StopTrace, Begin, Perform, Fault, Syscall,
  Mistaken, Interrupted, SegvPlain, SegvRead, SegvWrite, SegvSave, SegvAbort, Finished, vars

\* What is known of the access under way.
LEMMA CurrentTyped ==
  ASSUME TypeOK, current # Nothing
  PROVE  /\ current \in Access
         /\ current.page \in Page /\ current.pc \in Pc /\ current.write \in BOOLEAN
         /\ At(current) \in Page \X Pc /\ At(current)[1] = current.page
BY DEF TypeOK, Access, At

\* A page whose rights an access lacks is a guarded one.
LEMMA NotPermitted ==
  ASSUME NEW p, NEW write \in BOOLEAN, ~Permitted(p, write)
  PROVE  p \in Guarded /\ prot[p] # "full"
BY DEF Permitted

\* The rights of the guarded pages are a function to which every step applies.
LEMMA Unprotected ==
  ASSUME TypeOK, current # Nothing, current.page \in Guarded,
         NEW rights \in {"read", "full"}, Unprotect(rights)
  PROVE  /\ prot' \in [Guarded -> {"none", "read", "full"}]
         /\ prot'[current.page] = rights
         /\ \A p \in Guarded : p # current.page => prot'[p] = prot[p]
BY DEF TypeOK, Unprotect

\* Every step keeps the variables in their types.
LEMMA TypeStep ==
  ASSUME TypeOK, Phases, [Next]_vars
  PROVE  TypeOK'
<1> USE OptionsFixed
<1>1. ASSUME NEW new \in BOOLEAN, StartTrace(new) PROVE TypeOK'
  BY <1>1 DEF StartTrace, Protected, TypeOK
<1>2. CASE StopTrace
  <2>1. budget' \in 0 .. Budget /\ options' \in Options /\ call' \in {"none", "serviced", "split"}
    BY <1>2, LimitAssumption DEF StopTrace, TypeOK
  <2>2. cut' \subseteq Guarded /\ phase' \in {"run", "fault", "save", "killed"}
    BY <1>2 DEF StopTrace, Phases, TypeOK
  <2> QED
    BY <1>2, <2>1, <2>2 DEF StopTrace, Save, SavedAtStop, Page, TypeOK
<1>3. ASSUME NEW a \in Access, Begin(a) PROVE TypeOK'
  BY <1>3, LimitAssumption DEF Begin, TypeOK, memory, files
<1>4. CASE Perform
  BY <1>4, CurrentTyped DEF Perform, Accessed, TypeOK, files
<1>5. CASE Fault
  BY <1>5 DEF Fault, TypeOK, memory, files
<1>6. ASSUME NEW p \in Page, NEW write \in BOOLEAN, write => p \in Writable,
  Syscall(p, write) PROVE TypeOK'
  <2>1. dirty' \subseteq touched' /\ touched' \subseteq Page
    BY <1>6 DEF Syscall, Accessed, TypeOK
  <2>2. budget' \in 0 .. Budget
    BY <1>6, LimitAssumption DEF Syscall, Accessed, TypeOK
  <2> QED
    BY <1>6, <2>1, <2>2 DEF Syscall, Accessed, TypeOK, files
<1>7. ASSUME NEW p \in Page, NEW write \in BOOLEAN, write => p \in Writable,
  Interrupted(p, write) PROVE TypeOK'
  BY <1>7, LimitAssumption DEF Interrupted, Accessed, TypeOK, files
<1>8. CASE SegvPlain
  BY <1>8, Unprotected DEF SegvPlain, Phases, UnprotectAll, TypeOK, files
<1>9. CASE SegvRead
  BY <1>9, CurrentTyped, Unprotected DEF SegvRead, Phases, ReadRights, Log,
    TypeOK
<1>10. CASE SegvWrite
  BY <1>10, CurrentTyped, Unprotected DEF SegvWrite, Phases, UnprotectAll, Log,
    TypeOK
<1>11. CASE SegvSave
  BY <1>11, CurrentTyped DEF SegvSave, SavePage, Phases, Save, TypeOK, memory
<1>12. CASE Finished \/ UNCHANGED vars
  BY <1>12 DEF Finished, vars, TypeOK, memory, files
<1>13. CASE Mistaken
  BY <1>13, LimitAssumption DEF Mistaken, TypeOK, memory, files
<1>14. CASE SegvAbort
  BY <1>14, CurrentTyped DEF SegvAbort, TypeOK, Phases
<1> QED
  BY <1>1, <1>2, <1>3, <1>4, <1>5, <1>6, <1>7, <1>8, <1>9, <1>10, <1>11, <1>12,
    <1>13, <1>14
    DEF Next, ProgramNext, Handle

\* The phases follow each other as the invariant has it.
LEMMA PhasesStep ==
  ASSUME TypeOK, Phases, [Next]_vars
  PROVE  Phases'
<1> USE OptionsFixed
<1>1. ASSUME NEW new \in BOOLEAN, StartTrace(new) PROVE Phases'
  BY <1>1 DEF StartTrace, Protected, Phases
<1>2. CASE StopTrace
  BY <1>2 DEF StopTrace, Phases
<1>3. ASSUME NEW a \in Access, Begin(a) PROVE Phases'
  BY <1>3 DEF Begin, Phases
<1>4. CASE Perform
  BY <1>4 DEF Perform, Accessed, Phases
<1>5. CASE Fault
  BY <1>5, CurrentTyped, NotPermitted DEF Fault, Phases, memory
<1>6. ASSUME NEW p \in Page, NEW write \in BOOLEAN, write => p \in Writable,
  Syscall(p, write) PROVE Phases'
  BY <1>6 DEF Syscall, Accessed, Phases
<1>7. ASSUME NEW p \in Page, NEW write \in BOOLEAN, write => p \in Writable,
  Interrupted(p, write) PROVE Phases'
  BY <1>7 DEF Interrupted, Accessed, Phases
<1>8. CASE SegvPlain
  BY <1>8 DEF SegvPlain, Phases
<1>9. CASE SegvRead
  BY <1>9 DEF SegvRead, Phases
<1>10. CASE SegvWrite
  BY <1>10 DEF SegvWrite, Phases
<1>11. CASE SegvSave
  BY <1>11 DEF SegvSave, SavePage, Phases
<1>12. CASE Finished \/ UNCHANGED vars
  BY <1>12 DEF Finished, vars, Phases, memory
<1>13. CASE Mistaken
  BY <1>13, LimitAssumption DEF Mistaken, Phases, memory, files
<1>14. CASE SegvAbort
  BY <1>14, CurrentTyped DEF SegvAbort, Phases, Phases
<1> QED
  BY <1>1, <1>2, <1>3, <1>4, <1>5, <1>6, <1>7, <1>8, <1>9, <1>10, <1>11, <1>12,
    <1>13, <1>14
    DEF Next, ProgramNext, Handle

\* No page is accessed or written without its rights.
LEMMA RightsStep ==
  ASSUME TypeOK, Phases, Rights, [Next]_vars
  PROVE  Rights'
<1> USE OptionsFixed
<1>1. ASSUME NEW new \in BOOLEAN, StartTrace(new) PROVE Rights'
  BY <1>1 DEF StartTrace, Rights
<1>2. CASE StopTrace
  BY <1>2 DEF StopTrace, Rights
<1>3. ASSUME NEW a \in Access, Begin(a) PROVE Rights'
  BY <1>3 DEF Begin, Rights, memory
<1>4. CASE Perform
  BY <1>4 DEF Perform, Accessed, Permitted, Rights
<1>5. CASE Fault
  BY <1>5 DEF Fault, Rights, memory
<1>6. ASSUME NEW p \in Page, NEW write \in BOOLEAN, write => p \in Writable,
  Syscall(p, write) PROVE Rights'
  BY <1>6 DEF Syscall, Accessed, Permitted, Rights
<1>7. ASSUME NEW p \in Page, NEW write \in BOOLEAN, write => p \in Writable,
  Interrupted(p, write) PROVE Rights'
  BY <1>7 DEF Interrupted, Accessed, Permitted, Rights
<1>8. CASE SegvPlain
  BY <1>8, Unprotected DEF SegvPlain, UnprotectAll, Phases, Rights
<1>9. CASE SegvRead
  BY <1>9, CurrentTyped, Unprotected DEF SegvRead, ReadRights, Phases, Rights
<1>10. CASE SegvWrite
  BY <1>10, Unprotected DEF SegvWrite, UnprotectAll, Phases, Rights
<1>11. CASE SegvSave
  BY <1>11 DEF SegvSave, SavePage, Rights, memory
<1>12. CASE Finished \/ UNCHANGED vars
  BY <1>12 DEF Finished, vars, Rights, memory
<1>13. CASE Mistaken
  BY <1>13, LimitAssumption DEF Mistaken, Rights, memory, files
<1>14. CASE SegvAbort
  BY <1>14, CurrentTyped DEF SegvAbort, Rights, Phases
<1> QED
  BY <1>1, <1>2, <1>3, <1>4, <1>5, <1>6, <1>7, <1>8, <1>9, <1>10, <1>11, <1>12,
    <1>13, <1>14
    DEF Next, ProgramNext, Handle

\* Without signal handlers a page is saved as the trace found it.
LEMMA UnwrittenStep ==
  ASSUME TypeOK, Phases, Rights, Unwritten, [Next]_vars
  PROVE  Unwritten'
<1> USE OptionsFixed
<1>1. ASSUME NEW new \in BOOLEAN, StartTrace(new) PROVE Unwritten'
  BY <1>1 DEF StartTrace, Unwritten, GuardedInitial
<1>2. CASE StopTrace
  BY <1>2, PageAssumption DEF StopTrace, Save, SavedAtStop, Unwritten,
    GuardedInitial
<1>3. ASSUME NEW a \in Access, Begin(a) PROVE Unwritten'
  BY <1>3 DEF Begin, Unwritten, GuardedInitial, files
<1>4. CASE Perform
  BY <1>4 DEF Perform, Accessed, Unwritten, GuardedInitial, files
<1>5. CASE Fault
  BY <1>5 DEF Fault, Unwritten, GuardedInitial, files
<1>6. ASSUME NEW p \in Page, NEW write \in BOOLEAN, write => p \in Writable,
  Syscall(p, write) PROVE Unwritten'
  BY <1>6 DEF Syscall, Accessed, Unwritten, GuardedInitial, files
<1>7. ASSUME NEW p \in Page, NEW write \in BOOLEAN, write => p \in Writable,
  Interrupted(p, write) PROVE Unwritten'
  BY <1>7 DEF Interrupted, Accessed, Unwritten
<1>8. CASE SegvPlain
  BY <1>8 DEF SegvPlain, Rights, Unwritten, GuardedInitial, Phases, files
<1>9. CASE SegvRead
  BY <1>9 DEF SegvRead, Rights, Unwritten, GuardedInitial, Phases
<1>10. CASE SegvWrite
  BY <1>10 DEF SegvWrite, Unwritten, GuardedInitial
<1>11. CASE SegvSave
  BY <1>11 DEF SegvSave, SavePage, Save, Unwritten, GuardedInitial
<1>12. CASE Finished \/ UNCHANGED vars
  BY <1>12 DEF Finished, vars, Unwritten, GuardedInitial, memory, files
<1>13. CASE Mistaken
  BY <1>13, LimitAssumption DEF Mistaken, Unwritten, GuardedInitial, memory, files
<1>14. CASE SegvAbort
  BY <1>14 DEF SegvAbort, Unwritten, GuardedInitial
<1> QED
  BY <1>1, <1>2, <1>3, <1>4, <1>5, <1>6, <1>7, <1>8, <1>9, <1>10, <1>11, <1>12,
    <1>13, <1>14
    DEF Next, ProgramNext, Handle

\* Without a limit, every page with rights is saved or about to be.
LEMMA KeepingStep ==
  ASSUME TypeOK, Phases, Rights, Keeping, [Next]_vars
  PROVE  Keeping'
<1> USE OptionsFixed
<1> USE DEF Kept
<1>1. ASSUME NEW new \in BOOLEAN, StartTrace(new) PROVE Keeping'
  BY <1>1 DEF StartTrace, Protected, Keeping, Complete
<1>2. CASE StopTrace
  <2>1. tracing /\ ~tracing' /\ touched' = touched /\ saved' = saved \cup Loose
    BY <1>2 DEF StopTrace, Save, SavedAtStop
  <2>2. ASSUME MaxPages = 0, Own = {} PROVE Complete'
    <3>1. ASSUME NEW p \in touched', p \notin saved'
          PROVE  Interrupts /\ p \in cut'
      <4>1. p \in Guarded /\ prot[p] # "none" /\ p \notin saved
        BY <2>1, <2>2, <3>1 DEF TypeOK, Page, Rights
      <4>2. phase \in {"save", "killed"} /\ current.page = p
        BY <2>1, <2>2, <4>1 DEF Keeping
      <4>3. phase = "save"
        BY <1>2, <4>2 DEF StopTrace, Phases
      <4>4. Interrupts
        BY <2>1, <2>2, <3>1, <4>1, <4>2, <4>3, OptionsTyped DEF Keeping
      <4> QED
        BY <1>2, <4>2, <4>3, <4>4 DEF StopTrace
    <3> QED
      BY <3>1 DEF Complete
  <2> QED
    BY <2>1, <2>2 DEF Keeping
<1>3. ASSUME NEW a \in Access, Begin(a) PROVE Keeping'
  BY <1>3 DEF Begin, Keeping, Complete, memory, files
<1>4. CASE Perform
  BY <1>4 DEF Perform, Accessed, Keeping, Complete, Phases, files
<1>5. CASE Fault
  BY <1>5 DEF Fault, Keeping, Complete, memory, files
<1>6. ASSUME NEW p \in Page, NEW write \in BOOLEAN, write => p \in Writable,
  Syscall(p, write) PROVE Keeping'
  BY <1>6 DEF Syscall, Accessed, Keeping, Complete, files
<1>7. ASSUME NEW p \in Page, NEW write \in BOOLEAN, write => p \in Writable,
  Interrupted(p, write) PROVE Keeping'
  BY <1>7 DEF Interrupted, Accessed, Keeping, Complete, Phases, files
<1>8. CASE SegvPlain
  BY <1>8, Unprotected DEF SegvPlain, UnprotectAll, Rights, Keeping, Complete,
    Phases, files
<1>9. CASE SegvRead
  BY <1>9, Unprotected DEF SegvRead, ReadRights, Rights, Keeping, Complete,
    Phases
<1>10. CASE SegvWrite
  <2>1. current # Nothing /\ current.page \in Guarded
    BY <1>10 DEF SegvWrite, Phases
  <2>2. previous # Nothing /\ previous[1] = current.page
    BY <1>10, <2>1, CurrentTyped, NothingAssumption DEF SegvWrite, Repeated
  <2>3. MaxPages = 0 /\ tracing => current.page \in saved
    BY <1>10, <2>1, <2>2 DEF SegvWrite, Keeping, Rights
  <2>4. \A p \in Guarded : p # current.page => prot'[p] = prot[p]
    BY <1>10, <2>1, Unprotected DEF SegvWrite, UnprotectAll
  <2> QED
    BY <1>10, <2>1, <2>3, <2>4 DEF SegvWrite, Keeping, Complete
<1>11. CASE SegvSave
  BY <1>11 DEF SegvSave, SavePage, Save, Over, Keeping, Complete, memory
<1>12. CASE Finished \/ UNCHANGED vars
  BY <1>12 DEF Finished, vars, Keeping, Complete, memory, files
<1>13. CASE Mistaken
  BY <1>13, LimitAssumption DEF Mistaken, Keeping, Complete, memory, files
<1>14. CASE SegvAbort
  BY <1>14 DEF SegvAbort, Keeping, Complete
<1> QED
  BY <1>1, <1>2, <1>3, <1>4, <1>5, <1>6, <1>7, <1>8, <1>9, <1>10, <1>11, <1>12,
    <1>13, <1>14
    DEF Next, ProgramNext, Handle

\* A page has a logged write before it can be written.
LEMMA LoggingStep ==
  ASSUME TypeOK, Phases, Logging, [Next]_vars
  PROVE  Logging'
<1> USE OptionsFixed
<1>1. ASSUME NEW new \in BOOLEAN, StartTrace(new) PROVE Logging'
  BY <1>1 DEF StartTrace, Protected, Logging, WritesLogged
<1>2. CASE StopTrace
  BY <1>2 DEF StopTrace, Logging, WritesLogged
<1>3. ASSUME NEW a \in Access, Begin(a) PROVE Logging'
  BY <1>3 DEF Begin, Logging, WritesLogged, memory, files
<1>4. CASE Perform
  BY <1>4 DEF Perform, Accessed, Permitted, Phases, Logging, WritesLogged, files
<1>5. CASE Fault
  BY <1>5 DEF Fault, Logging, WritesLogged, memory, files
<1>6. ASSUME NEW p \in Page, NEW write \in BOOLEAN, write => p \in Writable,
  Syscall(p, write) PROVE Logging'
  <2>1. UNCHANGED <<tracing, prot, logged>> /\ tracing
    BY <1>6 DEF Syscall, Accessed, files
  <2>2. \A q \in dirty' : q \in dirty \/ (q \in Guarded => prot[q] = "full")
    BY <1>6 DEF Syscall, Accessed, Permitted
  <2> QED
    BY <2>1, <2>2 DEF Logging, WritesLogged
<1>7. ASSUME NEW p \in Page, NEW write \in BOOLEAN, write => p \in Writable,
  Interrupted(p, write) PROVE Logging'
  BY <1>7 DEF Interrupted, Accessed, Permitted, Phases, Logging, WritesLogged, files
<1>8. CASE SegvPlain
  BY <1>8 DEF SegvPlain, Logging, WritesLogged
<1>9. CASE SegvRead
  BY <1>9, Unprotected DEF SegvRead, ReadRights, Phases, Log, Logging,
    WritesLogged
<1>10. CASE SegvWrite
  BY <1>10, CurrentTyped, Unprotected DEF SegvWrite, UnprotectAll, Phases, Log,
    Logging, WritesLogged
<1>11. CASE SegvSave
  <2>1. UNCHANGED <<tracing, prot, dirty, logged>>
    BY <1>11 DEF SegvSave, SavePage, memory
  <2> QED
    BY <2>1 DEF Logging, WritesLogged
<1>12. CASE Finished \/ UNCHANGED vars
  <2>1. UNCHANGED <<tracing, prot, dirty, logged>>
    BY <1>12 DEF Finished, vars, memory, files
  <2> QED
    BY <2>1 DEF Logging, WritesLogged
<1>13. CASE Mistaken
  BY <1>13, LimitAssumption DEF Mistaken, Logging, WritesLogged, memory, files
<1>14. CASE SegvAbort
  BY <1>14, CurrentTyped DEF SegvAbort, Logging, WritesLogged, Phases
<1> QED
  BY <1>1, <1>2, <1>3, <1>4, <1>5, <1>6, <1>7, <1>8, <1>9, <1>10, <1>11, <1>12,
    <1>13, <1>14
    DEF Next, ProgramNext, Handle

\* One page more is saved, and counted, while the limit is not reached.
LEMMA SavedOnce ==
  ASSUME TypeOK, Counting, ~Over, NEW p \in Guarded, options' = options,
         saved' = saved \cup {p}, pagecount' = pagecount + 1
  PROVE  Counting'
<1>1. saved' \cap Guarded = (saved \cap Guarded) \cup {p}
  OBVIOUS
<1>2. IsFiniteSet(saved \cap Guarded) /\ Cardinality(saved \cap Guarded) \in Nat
  BY FS_CardinalityType DEF Counting
<1>3. /\ IsFiniteSet(saved' \cap Guarded)
      /\ Cardinality(saved' \cap Guarded)
           \in {Cardinality(saved \cap Guarded), Cardinality(saved \cap Guarded) + 1}
  BY <1>1, <1>2, FS_AddElement
<1>4. pagecount \in Nat /\ (MaxPages > 0 => pagecount + 1 <= MaxPages)
  BY OptionsTyped DEF Over, TypeOK
<1> QED
  BY <1>2, <1>3, <1>4, OptionsTyped DEF Counting, LimitPerTrace

\* The pages of a trace are counted before they are saved.
LEMMA CountingStep ==
  ASSUME TypeOK, Phases, Counting, [Next]_vars
  PROVE  Counting'
<1> USE OptionsFixed
<1>1. ASSUME NEW new \in BOOLEAN, StartTrace(new) PROVE Counting'
  <2>1. saved' \cap Guarded = {} /\ pagecount' = 0
    BY <1>1 DEF StartTrace
  <2> QED
    BY <2>1, FS_EmptySet, OptionsTyped DEF Counting, LimitPerTrace
<1>2. CASE StopTrace
  BY <1>2, PageAssumption DEF StopTrace, Save, SavedAtStop, Counting,
    LimitPerTrace
<1>3. ASSUME NEW a \in Access, Begin(a) PROVE Counting'
  BY <1>3 DEF Begin, Counting, LimitPerTrace, files
<1>4. CASE Perform
  BY <1>4 DEF Perform, Accessed, Counting, LimitPerTrace, files
<1>5. CASE Fault
  BY <1>5 DEF Fault, Counting, LimitPerTrace, files
<1>6. ASSUME NEW p \in Page, NEW write \in BOOLEAN, write => p \in Writable,
  Syscall(p, write) PROVE Counting'
  BY <1>6 DEF Syscall, Accessed, Counting, LimitPerTrace, files
<1>7. ASSUME NEW p \in Page, NEW write \in BOOLEAN, write => p \in Writable,
  Interrupted(p, write) PROVE Counting'
  BY <1>7 DEF Interrupted, Accessed, Counting, LimitPerTrace, files
<1>8. CASE SegvPlain
  BY <1>8 DEF SegvPlain, Counting, LimitPerTrace, files
<1>9. CASE SegvRead
  BY <1>9 DEF SegvRead, Counting, LimitPerTrace
<1>10. CASE SegvWrite
  BY <1>10 DEF SegvWrite, Counting, LimitPerTrace
<1>11. CASE SegvSave
  <2>1. CASE Over
    <3>1. UNCHANGED saved /\ pagecount' = pagecount + 1 /\ pagecount \in Nat
      BY <1>11, <2>1 DEF SegvSave, SavePage, TypeOK
    <3> QED
      BY <3>1, FS_CardinalityType DEF Counting, LimitPerTrace
  <2>2. CASE ~Over /\ tracing
    BY <1>11, <2>2, SavedOnce DEF SegvSave, SavePage, Save, Phases
  <2>3. CASE ~Over /\ ~tracing
    <3>1. UNCHANGED saved /\ pagecount' = pagecount + 1 /\ pagecount \in Nat
      BY <1>11, <2>3 DEF SegvSave, SavePage, TypeOK
    <3> QED
      BY <3>1, FS_CardinalityType DEF Counting, LimitPerTrace
  <2> QED
    BY <2>1, <2>2, <2>3
<1>12. CASE Finished \/ UNCHANGED vars
  BY <1>12 DEF Finished, vars, Counting, LimitPerTrace, files
<1>13. CASE Mistaken
  BY <1>13, LimitAssumption DEF Mistaken, Counting, LimitPerTrace, memory, files
<1>14. CASE SegvAbort
  BY <1>14, SavedOnce DEF SegvAbort, Phases
<1> QED
  BY <1>1, <1>2, <1>3, <1>4, <1>5, <1>6, <1>7, <1>8, <1>9, <1>10, <1>11, <1>12,
    <1>13, <1>14
    DEF Next, ProgramNext, Handle
-----------------------------------------------------------------------------
\* The library starts with no trace.
LEMMA InitIInv == Init => IInv
<1> SUFFICES ASSUME Init PROVE IInv
  OBVIOUS
<1>1. TypeOK
  <2>1. budget \in 0 .. Budget /\ pagecount \in Nat
    BY LimitAssumption DEF Init
  <2>2. prot \in [Guarded -> {"none", "read", "full"}]
    BY DEF Init
  <2> QED
    BY <2>1, <2>2 DEF Init, TypeOK
<1>2. Phases /\ Rights /\ Unwritten /\ Keeping /\ Logging
  BY DEF Init, Phases, Rights, Unwritten, GuardedInitial, Keeping, Kept, Complete,
    Logging, WritesLogged
<1>3. Counting
  <2>1. saved \cap Guarded = {} /\ pagecount = 0
    BY DEF Init
  <2> QED
    BY <1>1, <2>1, FS_EmptySet, OptionsTyped DEF Counting, LimitPerTrace
<1> QED
  BY <1>1, <1>2, <1>3 DEF IInv

\* The inductive invariant: rights, files and log of the pages of a trace keep
\* step whatever the program accesses.
THEOREM Invariance == Spec => []IInv
<1>1. IInv /\ [Next]_vars => IInv'
  BY TypeStep, PhasesStep, RightsStep, UnwrittenStep, KeepingStep, LoggingStep,
    CountingStep DEF IInv
<1> QED
  BY <1>1, InitIInv, PTL DEF Spec

\* Type correctness of the library.
THEOREM TypeCorrect == Spec => []TypeOK
<1>1. IInv => TypeOK
  BY DEF IInv
<1> QED
  BY <1>1, Invariance, PTL

\* The file of a protected page has the contents the trace began with, for
\* programs that handle no signals, wherever the trace is stopped and started
\* again, between a fault and the write of its page too.
THEOREM GuardedInitialAlways == Spec => []GuardedInitial
<1>1. IInv => GuardedInitial
  BY DEF IInv, Unwritten, GuardedInitial
<1> QED
  BY <1>1, Invariance, PTL

\* With no page limit, a finished trace has every page that was accessed, those
\* of the library itself apart, signal handlers or not.
THEOREM CompleteAlways == Own = {} => (Spec => []Complete)
<1> SUFFICES ASSUME Own = {} PROVE Spec => []Complete
  OBVIOUS
<1>1. IInv => Complete
  BY DEF IInv, Keeping, Kept, Complete
<1> QED
  BY <1>1, Invariance, PTL

\* A file that the handler writes between two traces and whose page the program
\* changes before the second one begins is written again before it is used.
THEOREM UsedInitialAlways == Spec => []UsedInitial
<1>1. ASSUME IInv, tracing, MaxPages = 0, ~Interrupts, phase # "killed"
      PROVE  stale \cap touched = {}
  <2>1. SUFFICES ASSUME NEW p \in stale, p \in touched PROVE FALSE
    OBVIOUS
  <2>2. p \in Guarded /\ p \notin saved
    BY <1>1, <2>1 DEF IInv, TypeOK, Keeping
  <2>3. prot[p] # "none"
    BY <1>1, <2>1, <2>2 DEF IInv, Rights
  <2>4. phase = "save" /\ current.page = p
    BY <1>1, <2>2, <2>3 DEF IInv, Keeping, Kept
  <2> QED
    BY <1>1, <2>1, <2>2, <2>4 DEF IInv, Keeping, Kept
<1>2. IInv => UsedInitial
  BY <1>1 DEF UsedInitial
<1> QED
  BY <1>2, Invariance, PTL

\* -max-pages bounds the protected pages of each trace, of one that is started
\* while the handler is at a page of the trace before, too.
THEOREM LimitPerTraceAlways == Spec => []LimitPerTrace
<1>1. IInv => LimitPerTrace
  BY DEF IInv, Counting
<1> QED
  BY <1>1, Invariance, PTL

\* -memory-access-trace logs a write to each protected page before the page is
\* written, whoever writes it.
THEOREM WritesLoggedAlways == Spec => []WritesLogged
<1>1. IInv => WritesLogged
  BY DEF IInv, Logging
<1> QED
  BY <1>1, Invariance, PTL

-----------------------------------------------------------------------------
\* What a step does to the protected pages is a step of the snapshot.
LEMMA StepRefines ==
  ASSUME IInv, [Next]_vars
  PROVE  [Initial!Next]_(Initial!snapVars)
<1> USE OptionsFixed
<1> USE DEF Initial!Next, Initial!snapVars
<1>1. ASSUME NEW new \in BOOLEAN, StartTrace(new) PROVE Initial!Begin
  BY <1>1 DEF StartTrace, Initial!Begin
<1>2. CASE StopTrace
  <2>1. saved' \cap Guarded = saved \cap Guarded /\ touched' = touched
    BY <1>2, PageAssumption DEF StopTrace, Save, SavedAtStop
  <2>2. Initial!End
    BY <1>2, <2>1 DEF StopTrace, Initial!End
  <2> QED
    BY <2>2
<1>3. ASSUME NEW p \in Page, tracing, tracing',
             ~Interrupts => phase = "run", saved' = saved,
             touched' = touched \cup {p},
             ~Interrupts /\ p \in Guarded => prot[p] # "none"
      PROVE  [Initial!Next]_(Initial!snapVars)
  <2>1. CASE p \in Guarded
    <3>1. ~Interrupts /\ MaxPages = 0 => p \in saved
      BY <1>3, <2>1 DEF IInv, Keeping, Kept
    <3>2. Initial!Access(p)
      BY <1>3, <2>1, <3>1 DEF Initial!Access
    <3> QED
      BY <2>1, <3>2
  <2>2. CASE p \notin Guarded
    BY <1>3, <2>2
  <2> QED
    BY <2>1, <2>2
<1>4. CASE Perform
  <2>1. current.page \in Guarded => prot[current.page] # "none"
    BY <1>4 DEF Perform, Permitted
  <2>2. current.page \in Page
    BY <1>4, CurrentTyped DEF Perform, IInv
  <2>3. CASE tracing
    BY <1>3, <1>4, <2>1, <2>2, <2>3 DEF Perform, Accessed, files
  <2>4. CASE ~tracing
    BY <1>4, <2>4 DEF Perform, Accessed, files
  <2> QED
    BY <2>3, <2>4
<1>5. ASSUME NEW p \in Page, NEW write \in BOOLEAN, Syscall(p, write)
      PROVE  [Initial!Next]_(Initial!snapVars)
  <2>1. CASE Permitted(p, write)
    <3>1. p \in Guarded => prot[p] # "none"
      BY <2>1 DEF Permitted
    <3> QED
      BY <1>3, <1>5, <2>1, <3>1 DEF Syscall, Accessed, files
  <2>2. CASE ~Permitted(p, write)
    BY <1>5, <2>2 DEF Syscall, files
  <2> QED
    BY <2>1, <2>2
<1>6. CASE SegvSave
  <2> DEFINE p == current.page
  <2>1. p \in Guarded /\ UNCHANGED <<tracing, touched>>
    BY <1>6 DEF SegvSave, IInv, Phases, memory
  <2>2. CASE UNCHANGED saved
    BY <2>1, <2>2
  <2>3. CASE tracing /\ saved' = saved \cup {p} /\ p \in touched /\ ~Interrupts /\ MaxPages = 0
    <3>1. p \in saved
      BY <1>6, <2>3 DEF SegvSave, IInv, Keeping, Kept
    <3> QED
      BY <2>1, <2>3, <3>1
  <2>4. CASE tracing /\ saved' = saved \cup {p} /\ (p \notin touched \/ Interrupts \/ MaxPages # 0)
    <3>1. Initial!Keep(p)
      BY <2>1, <2>4 DEF Initial!Keep
    <3> QED
      BY <2>1, <3>1
  <2> QED
    BY <1>6, <2>2, <2>3, <2>4 DEF SegvSave, SavePage, Save
<1>7. CASE (\E a \in Access : Begin(a)) \/ Fault \/ SegvPlain \/ SegvRead \/ SegvWrite
           \/ Mistaken \/ Finished \/ UNCHANGED vars
  BY <1>7 DEF Begin, Fault, Mistaken, SegvPlain, SegvRead, SegvWrite, Finished, vars,
    memory, files
<1>8. ASSUME NEW p \in Page, NEW write \in BOOLEAN, Interrupted(p, write)
      PROVE  [Initial!Next]_(Initial!snapVars)
  <2>1. CASE Permitted(p, write) /\ tracing
    BY <1>3, <1>8, <2>1 DEF Interrupted, Accessed, files
  <2>2. CASE ~Permitted(p, write) \/ ~tracing
    BY <1>8, <2>2 DEF Interrupted, Accessed, files
  <2> QED
    BY <2>1, <2>2
<1>9. CASE SegvAbort
  <2> DEFINE p == current.page
  <2>1. p \in Guarded /\ prot[p] = "none" /\ UNCHANGED <<tracing, touched>>
    BY <1>9 DEF SegvAbort, IInv, Phases
  <2>2. tracing /\ p \notin touched
    BY <2>1 DEF IInv, Rights
  <2>3. Initial!Keep(p)
    BY <1>9, <2>1, <2>2 DEF SegvAbort, Initial!Keep
  <2> QED
    BY <2>1, <2>3
<1> QED
  BY <1>1, <1>2, <1>4, <1>5, <1>6, <1>7, <1>8, <1>9 DEF Next, ProgramNext, Handle

\* The library implements the snapshot of the protected pages, a strict one for
\* programs that handle no signals and with no page limit, although the tracer
\* stops and starts traces inside the handler.
THEOREM Refinement == Spec => SnapshotSpec
<1>1. Init => Initial!Init
  BY InitIInv, OptionsTyped DEF IInv, Init, Initial!Init
<1>2. IInv /\ [Next]_vars => [Initial!Next]_(Initial!snapVars)
  BY StepRefines
<1> QED
  BY <1>1, <1>2, Invariance, PTL DEF Spec, SnapshotSpec, Initial!Spec
=============================================================================
