---------------------------- MODULE Breakpoints ----------------------------
(***************************************************************************)
(* The breakpoints of `chop trace -begin ... -end ...' in the text of the  *)
(* traced program: Process::set_break, set_break_size and remove_break     *)
(* (core/process.cpp), the loops of Tracer::set_breakpoint and             *)
(* fix_breakpoint (core/tracer/tracer.cpp) that drive them, and the copies *)
(* of text pages the support library writes (System::save_page).           *)
(*                                                                         *)
(* The text is a row of cells; a cell is the unit of alignment of the      *)
(* instructions.  ptrace reads and writes words of WordSize cells, at any  *)
(* cell; a breakpoint fills BreakSize cells with zeros, which is an illegal*)
(* instruction.  What matters of a cell is whether it is zero, so the text *)
(* is the set of its zero cells, and a saved word the set of those in it.  *)
(* The tracer is the one of Tracer: `op' says which loop it is in.         *)
(***************************************************************************)
EXTENDS Integers, Sequences, FiniteSetsExt

CONSTANTS
  StartList, EndList,  \* the addresses given with -begin and with -end
  WordSize,            \* cells of a long, the unit of PTRACE_POKEDATA
  BreakSize,           \* get_breakpoint_size(), in cells
  LittleEndian,        \* byte order of the machine
  Blank,               \* cells that are zero in the program itself
  LastCell, PageSize   \* the text has cells 0 .. LastCell, PageSize a page

Text == 0 .. LastCell
Elements(list) == {list[n] : n \in 1 .. Len(list)}

ASSUME ListsAssumption == StartList \in Seq(Int) /\ EndList \in Seq(Int)
ASSUME SizesAssumption == WordSize \in Nat /\ BreakSize \in 1 .. WordSize
ASSUME BlankAssumption == Blank \subseteq Int
ASSUME FlagAssumption  == LittleEndian \in BOOLEAN
ASSUME TextAssumption  == LastCell \in Nat /\ PageSize \in Nat \ {0}

VARIABLES
  zeroed,  \* the cells of the child's text that are zero
  breaks,  \* Process::breaks_: the word first found at each address, as the
           \* set of its zero cells; entries are never erased
  op,      \* "set" or "remove" (the loop of set_breakpoint), "run" (the
           \* program), "clean" (between the end and the start marks)
  which,   \* the marks the loop or the run is about: "starts" or "ends"
  i,       \* the loop's position
  skip,    \* the execution that runs is not traced
  pc       \* address of the program's next instruction

vars == <<zeroed, breaks, op, which, i, skip, pc>>

Lists == [starts |-> StartList, ends |-> EndList]
List == Lists[which]

Word(a) == a .. a + WordSize - 1

\* PTRACE_POKEDATA: the word at `a' is zero in the cells `z' and nowhere else.
Poked(a, z) == (zeroed \ Word(a)) \cup z

Init ==
  /\ zeroed = Blank
  /\ breaks = [a \in {} |-> {}]
  /\ op = "set" /\ which = "starts" /\ i = 1
  /\ skip = FALSE
  /\ pc \in Text
-----------------------------------------------------------------------------
(* Process.                                                                *)

\* breaks_ keeps the word that was there when the address was first used.
Remember(a) ==
  breaks' = IF a \in DOMAIN breaks THEN breaks
            ELSE [b \in DOMAIN breaks \cup {a} |->
                    IF b = a THEN zeroed \cap Word(a) ELSE breaks[b]]

SetBreak(a) ==
  /\ Remember(a)
  /\ zeroed' = Poked(a, (zeroed \cap Word(a)) \cup (a .. a + BreakSize - 1))

RemovedNot(a) == zeroed                                     \* mutant: no poke
Removed(a) == IF a \in DOMAIN breaks THEN Poked(a, breaks[a]) ELSE zeroed

\* The cells that set_break_size clears: its mask keeps the BreakSize - size
\* low-order units of the long, which are the first cells of the word on a
\* little-endian machine and the last ones on a big-endian machine.
MaskedSwapped(a, size) ==  \* mutant: the other byte order
  IF LittleEndian THEN a .. a + WordSize - BreakSize + size - 1
  ELSE a + BreakSize - size .. a + WordSize - 1
Masked(a, size) ==
  LET kept == BreakSize - size
  IN  IF LittleEndian THEN a + kept .. a + WordSize - 1
      ELSE a .. a + WordSize - kept - 1
-----------------------------------------------------------------------------
(* Tracer::set_breakpoint: one address at a time.                          *)

SetOne ==
  /\ op = "set" /\ i <= Len(List)
  /\ SetBreak(List[i])
  /\ i' = i + 1
  /\ UNCHANGED <<op, which, skip, pc>>

RemoveOne ==
  /\ op = "remove" /\ i <= Len(List)
  /\ zeroed' = Removed(List[i])
  /\ i' = i + 1
  /\ UNCHANGED <<breaks, op, which, skip, pc>>

Loop(what, marks) == op' = what /\ which' = marks /\ i' = 1

\* The child continues with the breakpoints of its state.
Resume ==
  /\ op = "set" /\ i > Len(List)
  /\ op' = "run"
  /\ UNCHANGED <<zeroed, breaks, which, i, skip, pc>>

\* The start marks are removed, the end marks follow.
Enter ==
  /\ op = "remove" /\ which = "starts" /\ i > Len(List)
  /\ Loop("set", "ends")
  /\ UNCHANGED <<zeroed, breaks, skip, pc>>

\* The end marks are removed. A traced execution goes through the epilog,
\* which calls chopstix_stop_trace.
Leave ==
  /\ op = "remove" /\ which = "ends" /\ i > Len(List)
  /\ IF skip THEN Loop("set", "starts") ELSE Loop("clean", "ends")
  /\ UNCHANGED <<zeroed, breaks, skip, pc>>

Epilog ==
  /\ op = "clean"
  /\ Loop("set", "starts")
  /\ UNCHANGED <<zeroed, breaks, skip, pc>>
-----------------------------------------------------------------------------
(* The program and the SIGILL handling of prolog and region of interest.   *)

AppStep ==
  /\ op = "run" /\ pc \notin zeroed
  /\ pc' \in Text
  /\ UNCHANGED <<zeroed, breaks, op, which, i, skip>>

Trapped == op = "run" /\ pc \in zeroed

\* check_breakpoint: the program is at a mark. At a start mark should_trace()
\* decides whether the execution is traced.
Hit ==
  /\ Trapped /\ pc \in Elements(List)
  /\ skip' \in IF which = "starts" THEN BOOLEAN ELSE {skip}
  /\ Loop("remove", which)
  /\ UNCHANGED <<zeroed, breaks, pc>>

\* A skipped execution takes any illegal instruction for its end.
SkippedEnd ==
  /\ Trapped /\ skip /\ which = "ends"
  /\ Loop("remove", which)
  /\ UNCHANGED <<zeroed, breaks, skip, pc>>

\* fix_breakpoint: the first address whose breakpoint reaches up to the pc
\* (and one more) is removed and set again with another mask.
Covers(a) == a <= pc /\ pc <= a + BreakSize
Fixed(a) == Removed(a) \cup Masked(a, pc - a)

\* An illegal instruction that is no mark and is taken for none.
Strayed == Trapped /\ pc \notin Elements(List) /\ ~(skip /\ which = "ends")
FirstNear(n) == Covers(List[n]) /\ \A m \in 1 .. n - 1 : ~Covers(List[m])

Fix ==
  /\ Strayed
  /\ \/ (\A n \in 1 .. Len(List) : ~Covers(List[n])) /\ UNCHANGED zeroed
     \/ \E n \in 1 .. Len(List) : FirstNear(n) /\ zeroed' = Fixed(List[n])
  /\ UNCHANGED <<breaks, op, which, i, skip, pc>>

Next ==
  \/ SetOne \/ RemoveOne \/ Resume \/ Enter \/ Leave \/ Epilog
  \/ AppStep \/ Hit \/ SkippedEnd \/ Fix

Spec == Init /\ [][Next]_vars
-----------------------------------------------------------------------------
(* System::save_page: a page is copied, then the words of breaks_ whose    *)
(* address lies in it are written over the copy, in ascending order and    *)
(* cut at the end of the page.                                             *)

Page(n) == n * PageSize .. (n + 1) * PageSize - 1
OfPageTail(n) == {a \in DOMAIN breaks \cap Page(n) : a # n * PageSize}  \* mutant: off by one
OfPage(n) == DOMAIN breaks \cap Page(n)
Saved(n) ==
  {c \in Page(n) :
     LET over == {a \in OfPage(n) : c \in Word(a)}
     IN  c \in IF over = {} THEN zeroed ELSE breaks[Max(over)]}

\* When pages are saved: while a traced region runs, and by stop_trace.
Saving == \/ op = "run" /\ which = "ends" /\ ~skip
          \/ op = "clean"
-----------------------------------------------------------------------------
(* Properties.                                                             *)

TypeOK ==
  /\ zeroed \subseteq Int
  /\ DOMAIN breaks \subseteq Elements(StartList) \cup Elements(EndList)
  /\ \A a \in DOMAIN breaks : breaks[a] \subseteq Word(a)
  /\ op \in {"set", "remove", "run", "clean"}
  /\ which \in {"starts", "ends"}
  /\ i \in Nat \ {0}
  /\ skip \in BOOLEAN
  /\ pc \in Text

\* With no breakpoint planted (the library is called then, and between the
\* removal of one list and the setting of the other) the text is the program's.
TextRestored ==
  op = "clean" \/ (op = "set" /\ i = 1) => zeroed = Blank

\* The program never runs past a mark: each one is still an illegal
\* instruction whenever it runs, fixes of neighbouring cells included.
MarksInForce ==
  op = "run" => Elements(List) \subseteq zeroed

\* "Restore contents and continue executing" (prolog.cpp, regionofinterest.cpp):
\* wherever in a breakpoint the program has got to, the fix puts back the
\* instruction there and the program goes on.
FixResumes ==
  Strayed /\ pc \notin Blank =>
    \E n \in 1 .. Len(List) : FirstNear(n) /\ pc \notin Fixed(List[n])

\* The copy of a text page that goes into the trace has the program's own
\* instructions, whatever breakpoints the page holds when it is copied.
PagesOriginal ==
  Saving => \A n \in 0 .. LastCell \div PageSize : Saved(n) = Blank \cap Page(n)
-----------------------------------------------------------------------------
(* What the lists must be like, and the inductive invariant.               *)

\* Two marks of one list share no word, or are the same mark.
Apart ==
  \A list \in {StartList, EndList} : \A m, n \in 1 .. Len(list) :
    \/ list[m] = list[n]
    \/ list[m] + WordSize <= list[n] \/ list[n] + WordSize <= list[m]

\* The word of a mark does not cross the end of a page.
InOnePage ==
  \A a \in Elements(StartList) \cup Elements(EndList) : \A n \in Nat :
    Word(a) \cap Page(n) # {} => a \in Page(n)

\* The positions of the list whose breakpoints are planted.
Armed ==
  {n \in 1 .. Len(List) : /\ op # "clean"
                          /\ op = "set" => n < i
                          /\ op = "remove" => n >= i}

\* What is zero is zero in the program or belongs to a planted breakpoint, and
\* every word remembered is the program's.
IInv ==
  /\ TypeOK
  /\ \A a \in DOMAIN breaks : breaks[a] = Blank \cap Word(a)
  /\ \A n \in Armed : List[n] \in DOMAIN breaks
  /\ Blank \subseteq zeroed
  /\ \A c \in zeroed : c \in Blank \/ \E n \in Armed : c \in Word(List[n])

\* On a big-endian machine, or with breakpoints of one cell, the first cell of
\* every planted breakpoint is zero.
Planted ==
  (~LittleEndian \/ BreakSize = 1) /\ op # "remove" => \A n \in Armed : List[n] \in zeroed
=============================================================================
