-------------------------- MODULE BreakpointsProof --------------------------
(***************************************************************************)
(* Proofs about Breakpoints, for every list of marks, every size of words, *)
(* breakpoints and pages, and every program.  The marks of a list must lie *)
(* apart: marks on neighbouring instructions overwrite each other.         *)
(***************************************************************************)
EXTENDS Breakpoints, WellFoundedInduction, TLAPS

\* The elements of the list in use are addresses.
LEMMA ListTyped ==
  ASSUME TypeOK
  PROVE  /\ List \in Seq(Int)
         /\ List = IF which = "starts" THEN StartList ELSE EndList
         /\ Elements(List) \subseteq Elements(StartList) \cup Elements(EndList)
         /\ \A n \in 1 .. Len(List) : List[n] \in Int
BY ListsAssumption DEF TypeOK, List, Lists, Elements

\* In a list of marks that lie apart, two words have no common cell unless
\* they are the same word.
LEMMA WordsApart ==
  ASSUME Apart, TypeOK, NEW m \in 1 .. Len(List), NEW n \in 1 .. Len(List),
         List[m] # List[n]
  PROVE  Word(List[m]) \cap Word(List[n]) = {}
<1>1. List[m] \in Int /\ List[n] \in Int
  BY ListTyped
<1>2. List[m] + WordSize <= List[n] \/ List[n] + WordSize <= List[m]
  BY ListTyped DEF Apart
<1> QED
  BY <1>1, <1>2, SizesAssumption DEF Word

\* A breakpoint lies in its word and starts with its address, on a big-endian
\* machine also after fix_breakpoint has cleared part of it.
LEMMA Extent ==
  ASSUME NEW a \in Int
  PROVE  /\ a \in Word(a) /\ Word(a) \subseteq Int
         /\ a .. a + BreakSize - 1 \subseteq Word(a)
         /\ a \in a .. a + BreakSize - 1
         /\ \A size \in 1 .. BreakSize :
              /\ Masked(a, size) \subseteq Word(a)
              /\ ~LittleEndian \/ BreakSize = 1 => a \in Masked(a, size)
BY SizesAssumption DEF Word, Masked

\* An address on which fix_breakpoint works is not the pc, but near it.
LEMMA FixNear ==
  ASSUME TypeOK, Fix, NEW n \in 1 .. Len(List), FirstNear(n)
  PROVE  pc - List[n] \in 1 .. BreakSize
<1>1. List[n] \in Int /\ pc \in Int
  BY ListTyped, TextAssumption DEF TypeOK, Text
<1>2. pc # List[n]
  BY DEF Fix, Strayed, Elements
<1> QED
  BY <1>1, <1>2, SizesAssumption DEF FirstNear, Covers

\* Every step keeps the variables in their types.
LEMMA TypeStep ==
  ASSUME TypeOK, [Next]_vars
  PROVE  TypeOK'
<1>1. CASE SetOne
  <2>1. List[i] \in Elements(List) /\ List[i] \in Int
    BY <1>1, ListTyped DEF SetOne, TypeOK, Elements
  <2>2. zeroed' \subseteq Int
    BY <1>1, <2>1, Extent DEF SetOne, SetBreak, Poked, TypeOK
  <2>3. /\ DOMAIN breaks' \subseteq Elements(StartList) \cup Elements(EndList)
        /\ \A a \in DOMAIN breaks' : breaks'[a] \subseteq Word(a)
    BY <1>1, <2>1, ListTyped DEF SetOne, SetBreak, Remember, TypeOK
  <2> QED
    BY <1>1, <2>2, <2>3 DEF SetOne, TypeOK
<1>2. CASE RemoveOne
  <2>1. List[i] \in Int
    BY <1>2, ListTyped DEF RemoveOne, TypeOK
  <2>2. zeroed' \subseteq Int
    BY <1>2, <2>1, Extent DEF RemoveOne, Removed, Poked, TypeOK
  <2> QED
    BY <1>2, <2>2 DEF RemoveOne, TypeOK
<1>3. CASE Resume
  BY <1>3 DEF Resume, TypeOK
<1>4. CASE Enter
  BY <1>4 DEF Enter, Loop, TypeOK
<1>5. CASE Leave
  BY <1>5 DEF Leave, Loop, TypeOK
<1>6. CASE Epilog
  BY <1>6 DEF Epilog, Loop, TypeOK
<1>7. CASE AppStep
  BY <1>7 DEF AppStep, TypeOK
<1>8. CASE Hit
  BY <1>8 DEF Hit, Loop, TypeOK
<1>9. CASE SkippedEnd
  BY <1>9 DEF SkippedEnd, Loop, TypeOK
<1>10. CASE Fix
  <2>1. ASSUME NEW n \in 1 .. Len(List), FirstNear(n), zeroed' = Fixed(List[n])
        PROVE  zeroed' \subseteq Int
    <3>1. List[n] \in Int
      BY ListTyped
    <3>2. Word(List[n]) \subseteq Int /\ Masked(List[n], pc - List[n]) \subseteq Word(List[n])
      BY <1>10, <2>1, <3>1, FixNear, Extent
    <3> QED
      BY <2>1, <3>2 DEF Fixed, Removed, Poked, TypeOK
  <2>2. zeroed' \subseteq Int
    BY <1>10, <2>1 DEF Fix, TypeOK
  <2> QED
    BY <1>10, <2>2 DEF Fix, TypeOK
<1>11. CASE UNCHANGED vars
  BY <1>11 DEF vars, TypeOK
<1> QED
  BY <1>1, <1>2, <1>3, <1>4, <1>5, <1>6, <1>7, <1>8, <1>9, <1>10, <1>11 DEF Next

\* The program starts with its own text.
LEMMA InitTyped == Init => TypeOK
<1> SUFFICES ASSUME Init PROVE TypeOK
  OBVIOUS
<1>1. DOMAIN breaks = {}
  BY DEF Init
<1>2. zeroed \subseteq Int /\ pc \in Text /\ skip \in BOOLEAN
  BY BlankAssumption DEF Init
<1> QED
  BY <1>1, <1>2 DEF Init, TypeOK

\* The variables of the text have their types in every state.
THEOREM TypeCorrect == Spec => []TypeOK
BY InitTyped, TypeStep, PTL DEF Spec
-----------------------------------------------------------------------------
(* The text of the program.                                                *)

\* Which breakpoints are planted only changes in the loops of set_breakpoint.
LEMMA ArmedKept ==
  ASSUME TypeOK, Resume \/ Enter \/ Leave \/ Epilog \/ AppStep \/ Hit \/ SkippedEnd \/ Fix
  PROVE  \/ List' = List /\ Armed' = Armed
         \/ Armed = {} /\ Armed' = {}
<1>1. i \in Nat \ {0} /\ \A l \in {StartList, EndList} : Len(l) \in Nat
  BY ListsAssumption DEF TypeOK
<1>2. CASE Resume
  BY <1>1, <1>2, ListTyped DEF Resume, Armed, List
<1>3. CASE Enter \/ Leave \/ Epilog
  <2>1. Armed = {}
    BY <1>1, <1>3, ListTyped DEF Enter, Leave, Epilog, Armed
  <2>2. Armed' = {}
    BY <1>1, <1>3 DEF Enter, Leave, Epilog, Loop, Armed
  <2> QED
    BY <2>1, <2>2
<1>4. CASE AppStep \/ Fix
  BY <1>4 DEF AppStep, Fix, Armed, List
<1>5. CASE Hit \/ SkippedEnd
  <2>1. op = "run" /\ op' = "remove" /\ i' = 1 /\ which' = which
    BY <1>5 DEF Hit, SkippedEnd, Trapped, Loop
  <2> QED
    BY <2>1 DEF Armed, List
<1> QED
  BY <1>2, <1>3, <1>4, <1>5

\* Setting a breakpoint remembers the program's word and plants one more.
LEMMA SetOneText ==
  ASSUME Apart, IInv, SetOne
  PROVE  IInv'
<1> DEFINE a == List[i]
<1>1. TypeOK /\ TypeOK' /\ a \in Int /\ i \in 1 .. Len(List) /\ List' = List
  BY TypeStep, ListTyped DEF IInv, SetOne, Next, TypeOK, List
<1>2. Armed' = Armed \cup {i} /\ Armed = 1 .. i - 1
  BY <1>1, ListTyped DEF SetOne, Armed
<1>3. zeroed' = zeroed \cup (a .. a + BreakSize - 1)
  BY DEF SetOne, SetBreak, Poked
<1>4. \A b \in DOMAIN breaks' : breaks'[b] = Blank \cap Word(b)
  <2>1. CASE a \in DOMAIN breaks
    BY <2>1 DEF IInv, SetOne, SetBreak, Remember
  <2>2. CASE a \notin DOMAIN breaks
    <3>1. \A n \in Armed : Word(List[n]) \cap Word(a) = {}
      BY <1>1, <1>2, <2>2, WordsApart DEF IInv
    <3>2. zeroed \cap Word(a) = Blank \cap Word(a)
      BY <3>1 DEF IInv
    <3> QED
      BY <2>2, <3>2 DEF IInv, SetOne, SetBreak, Remember
  <2> QED
    BY <2>1, <2>2
<1>5. \A n \in Armed' : List'[n] \in DOMAIN breaks'
  BY <1>1, <1>2 DEF IInv, SetOne, SetBreak, Remember
<1>6. \A c \in zeroed' : c \in Blank \/ \E n \in Armed' : c \in Word(List'[n])
  BY <1>1, <1>2, <1>3, Extent DEF IInv
<1> QED
  BY <1>1, <1>3, <1>4, <1>5, <1>6 DEF IInv

\* Removing one restores the program's word.
LEMMA RemoveOneText ==
  ASSUME IInv, RemoveOne
  PROVE  IInv'
<1> DEFINE a == List[i]
<1>1. TypeOK /\ TypeOK' /\ i \in 1 .. Len(List) /\ UNCHANGED <<List, breaks>>
  BY TypeStep DEF IInv, RemoveOne, Next, TypeOK, List
<1>2. i \in Armed /\ Armed' = Armed \ {i}
  BY <1>1, ListTyped DEF RemoveOne, Armed
<1>3. zeroed' = (zeroed \ Word(a)) \cup (Blank \cap Word(a))
  BY <1>2 DEF IInv, RemoveOne, Removed, Poked
<1>4. \A c \in zeroed' : c \in Blank \/ \E n \in Armed' : c \in Word(List'[n])
  BY <1>1, <1>2, <1>3 DEF IInv
<1> QED
  BY <1>1, <1>2, <1>3, <1>4 DEF IInv

\* fix_breakpoint changes one planted word only.
LEMMA FixText ==
  ASSUME IInv, Fix
  PROVE  IInv'
<1>1. TypeOK /\ TypeOK' /\ UNCHANGED <<List, breaks, op, i>> /\ Armed' = Armed
  BY TypeStep DEF IInv, Fix, Next, List, Armed
<1>2. CASE UNCHANGED zeroed
  BY <1>1, <1>2 DEF IInv
<1>3. ASSUME NEW n \in 1 .. Len(List), FirstNear(n), zeroed' = Fixed(List[n])
      PROVE  IInv'
  <2> DEFINE a == List[n]
  <2>1. n \in Armed
    BY DEF Fix, Strayed, Trapped, Armed
  <2>2. Masked(a, pc - a) \subseteq Word(a)
    BY <1>1, <1>3, ListTyped, FixNear, Extent
  <2>3. zeroed' = (zeroed \ Word(a)) \cup (Blank \cap Word(a)) \cup Masked(a, pc - a)
    BY <1>3, <2>1 DEF IInv, Fixed, Removed, Poked
  <2> QED
    BY <1>1, <2>1, <2>2, <2>3 DEF IInv
<1> QED
  BY <1>2, <1>3 DEF Fix

\* The invariant of the text is inductive when marks lie apart.
LEMMA TextInductive ==
  ASSUME Apart, IInv, [Next]_vars
  PROVE  IInv'
<1>1. TypeOK /\ TypeOK'
  BY TypeStep DEF IInv
<1>2. CASE Resume \/ Enter \/ Leave \/ Epilog \/ AppStep \/ Hit \/ SkippedEnd
  <2>1. UNCHANGED <<zeroed, breaks>>
    BY <1>2 DEF Resume, Enter, Leave, Epilog, AppStep, Hit, SkippedEnd
  <2> QED
    BY <1>1, <1>2, <2>1, ArmedKept DEF IInv
<1>3. CASE UNCHANGED vars
  BY <1>1, <1>3 DEF IInv, vars, Armed, List
<1> QED
  BY <1>2, <1>3, SetOneText, RemoveOneText, FixText DEF Next

\* The invariant of the text holds in every state.
THEOREM TextInvariant == Apart => (Spec => []IInv)
<1> SUFFICES ASSUME Apart PROVE Spec => []IInv
  OBVIOUS
<1>1. ASSUME Init PROVE IInv
  <2>1. DOMAIN breaks = {} /\ zeroed = Blank /\ Armed = {}
    BY <1>1, ListsAssumption DEF Init, Armed, List, Lists
  <2>2. TypeOK
    BY <1>1, InitTyped
  <2> QED
    BY <2>1, <2>2 DEF IInv
<1>2. IInv /\ [Next]_vars => IInv'
  BY TextInductive
<1> QED
  BY <1>1, <1>2, PTL DEF Spec

\* With marks that lie apart the program's text is intact whenever no
\* breakpoint is planted, for the library and for the next list.
THEOREM TextRestoredAlways == Apart => (Spec => []TextRestored)
<1> SUFFICES ASSUME Apart PROVE Spec => []TextRestored
  OBVIOUS
<1>1. ASSUME IInv PROVE TextRestored
  <2>1. op = "clean" \/ (op = "set" /\ i = 1) => Armed = {}
    BY <1>1, ListTyped DEF IInv, Armed
  <2> QED
    BY <1>1, <2>1 DEF IInv, TextRestored
<1> QED
  BY <1>1, TextInvariant, PTL
-----------------------------------------------------------------------------
(* The marks and the copies of pages.                                      *)

\* Every step leaves the first cell of a planted breakpoint zero.
LEMMA PlantedStep ==
  ASSUME Apart, IInv, Planted, [Next]_vars
  PROVE  Planted'
<1> SUFFICES ASSUME ~LittleEndian \/ BreakSize = 1, op' # "remove", NEW m \in Armed'
             PROVE  List'[m] \in zeroed'
  BY DEF Planted
<1>1. TypeOK /\ (op # "remove" => \A n \in Armed : List[n] \in zeroed)
  BY DEF IInv, Planted
<1>2. CASE SetOne
  <2>1. List' = List /\ List[i] \in Int /\ (m \in Armed \/ m = i)
    BY <1>1, <1>2, ListTyped DEF SetOne, Armed, List, TypeOK
  <2> QED
    BY <1>1, <1>2, <2>1, Extent DEF SetOne, SetBreak, Poked
<1>3. CASE RemoveOne
  BY <1>3 DEF RemoveOne
<1>4. CASE Fix
  <2>1. List' = List /\ m \in Armed /\ m \in 1 .. Len(List) /\ op = "run"
    BY <1>4 DEF Fix, Strayed, Trapped, Armed, List
  <2>2. CASE UNCHANGED zeroed
    BY <1>1, <2>1, <2>2
  <2>3. ASSUME NEW n \in 1 .. Len(List), FirstNear(n), zeroed' = Fixed(List[n])
        PROVE  List[m] \in zeroed'
    <3>1. List[n] \in Masked(List[n], pc - List[n])
      BY <1>1, <1>4, <2>3, ListTyped, FixNear, Extent
    <3>2. CASE List[m] = List[n]
      BY <2>3, <3>1, <3>2 DEF Fixed
    <3>3. CASE List[m] # List[n]
      BY <1>1, <2>1, <2>3, <3>3, WordsApart, ListTyped, Extent DEF Fixed, Removed, Poked
    <3> QED
      BY <3>2, <3>3
  <2> QED
    BY <1>4, <2>1, <2>2, <2>3 DEF Fix
<1>5. CASE Resume \/ AppStep
  <2>1. UNCHANGED zeroed /\ op \in {"set", "run"}
    BY <1>5 DEF Resume, AppStep
  <2> QED
    BY <1>1, <1>5, <2>1, ArmedKept
<1>6. CASE Enter \/ Leave \/ Epilog
  BY <1>1, <1>6, ListsAssumption DEF Enter, Leave, Epilog, Loop, Armed
<1>7. CASE Hit \/ SkippedEnd
  BY <1>7 DEF Hit, SkippedEnd, Loop
<1>8. CASE UNCHANGED vars
  BY <1>1, <1>8 DEF vars, Armed, List
<1> QED
  BY <1>2, <1>3, <1>4, <1>5, <1>6, <1>7, <1>8 DEF Next

\* With marks that lie apart, on big-endian machines and on those with short
\* breakpoints, the program never runs past a mark.
THEOREM MarksInForceAlways ==
  Apart /\ (~LittleEndian \/ BreakSize = 1) => (Spec => []MarksInForce)
<1> SUFFICES ASSUME Apart, ~LittleEndian \/ BreakSize = 1 PROVE Spec => []MarksInForce
  OBVIOUS
<1>1. ASSUME Init PROVE Planted
  BY <1>1, ListsAssumption DEF Init, Planted, Armed, List, Lists
<1>2. IInv /\ Planted /\ [Next]_vars => Planted'
  BY PlantedStep
<1>3. ASSUME Planted PROVE MarksInForce
  BY <1>3 DEF Planted, MarksInForce, Armed, Elements
<1> QED
  BY <1>1, <1>2, <1>3, TextInvariant, PTL DEF Spec

\* The least-number principle, for a set.
LEMMA Least ==
  ASSUME NEW T \in SUBSET Nat, T # {}
  PROVE  \E d \in T : \A e \in T : d <= e
<1> DEFINE Less == {ss \in Nat \X Nat : ss[1] < ss[2]}
<1>1. IsWellFoundedOn(Less, Nat)
  BY NatLessThanWellFounded DEF OpToRel
<1>2. PICK d \in T : \A e \in T : ~(<<e, d>> \in Less)
  BY <1>1, WFMin
<1>3. ASSUME NEW e \in T PROVE d <= e
  <2>1. e < d => <<e, d>> \in Less
    OBVIOUS
  <2> QED
    BY <1>2, <2>1
<1> QED
  BY <1>3

\* Of the words laid over a cell of a copied page there is a last one.
LEMMA LastWord ==
  ASSUME NEW S \in SUBSET Int, S # {}, NEW c \in Int, \A a \in S : a <= c
  PROVE  Max(S) \in S
<1> DEFINE T == {c - a : a \in S}
<1>1. T \in SUBSET Nat /\ T # {}
  <2>1. \A a \in S : c - a \in Nat
    OBVIOUS
  <2> QED
    BY <2>1
<1>2. PICK d \in T : \A e \in T : d <= e
  BY <1>1, Least
<1>3. PICK a \in S : d = c - a
  OBVIOUS
<1>4. ASSUME NEW b \in S PROVE a >= b
  <2>1. c - a <= c - b /\ a \in Int /\ b \in Int
    BY <1>2, <1>3
  <2> QED
    BY <2>1
<1> QED
  BY <1>4 DEF Max

\* With marks that lie apart and words that do not cross pages, the copies of
\* text pages are the program's own, whatever is planted when they are made.
THEOREM PagesOriginalAlways == Apart /\ InOnePage => (Spec => []PagesOriginal)
<1> SUFFICES ASSUME Apart, InOnePage PROVE Spec => []PagesOriginal
  OBVIOUS
<1>1. ASSUME IInv, NEW n \in Nat, NEW c \in Page(n)
      PROVE  c \in Saved(n) <=> c \in Blank
  <2> DEFINE over == {a \in OfPage(n) : c \in Word(a)}
  <2>1. DOMAIN breaks \subseteq Int /\ c \in Int
    BY <1>1, ListsAssumption, TextAssumption DEF IInv, TypeOK, Elements, Page
  <2>2. CASE over = {}
    <3>1. \A a \in DOMAIN breaks : c \notin Word(a)
      BY <1>1, <2>2 DEF IInv, TypeOK, InOnePage, OfPage
    <3>2. c \in zeroed <=> c \in Blank
      BY <1>1, <3>1 DEF IInv
    <3> QED
      BY <2>2, <3>2 DEF Saved
  <2>3. CASE over # {}
    <3>1. \A a \in over : a <= c /\ a \in Int
      BY <2>1, SizesAssumption DEF OfPage, Word
    <3>2. Max(over) \in over
      BY <2>1, <2>3, <3>1, LastWord
    <3>3. c \in breaks[Max(over)] <=> c \in Blank
      BY <1>1, <3>2 DEF IInv, OfPage
    <3> QED
      BY <2>3, <3>3 DEF Saved
  <2> QED
    BY <2>2, <2>3
<1>2. IInv => PagesOriginal
  <2> SUFFICES ASSUME IInv, NEW n \in 0 .. LastCell \div PageSize
               PROVE  Saved(n) = Blank \cap Page(n)
    BY DEF PagesOriginal
  <2>1. Saved(n) \subseteq Page(n)
    BY DEF Saved
  <2> QED
    BY <1>1, <2>1
<1> QED
  BY <1>2, TextInvariant, PTL

\* On a big-endian machine with breakpoints of a whole word, and with marks that
\* lie apart, fix_breakpoint lets the program go on from inside a breakpoint.
THEOREM FixResumesAlways ==
  Apart /\ ~LittleEndian /\ BreakSize = WordSize => (Spec => []FixResumes)
<1> SUFFICES ASSUME Apart, ~LittleEndian, BreakSize = WordSize
             PROVE  Spec => []FixResumes
  OBVIOUS
<1>1. ASSUME IInv, Strayed, pc \notin Blank
      PROVE  \E n \in 1 .. Len(List) : FirstNear(n) /\ pc \notin Fixed(List[n])
  <2> DEFINE Near == {n \in 1 .. Len(List) : Covers(List[n])}
  <2>1. TypeOK /\ pc \in Int /\ (\A n \in 1 .. Len(List) : List[n] \in Int /\ pc # List[n])
    BY <1>1, ListTyped, TextAssumption DEF IInv, TypeOK, Text, Strayed, Elements
  <2>2. PICK m \in Armed : pc \in Word(List[m])
    BY <1>1 DEF IInv, Strayed, Trapped
  <2>3. m \in Near
    BY <2>1, <2>2, SizesAssumption DEF Armed, Word, Covers
  <2>4. PICK n \in Near : \A k \in Near : n <= k
    <3>1. Near \in SUBSET Nat /\ Near # {}
      BY <2>3
    <3> QED
      BY <3>1, Least
  <2>5. FirstNear(n)
    BY <2>4 DEF FirstNear
  <2>6. List[n] = List[m]
    <3>1. List[n] \in Int /\ List[m] \in Int /\ pc # List[m] /\ pc # List[n]
      BY <2>1, <2>3, <2>4
    <3>2. \/ List[n] = List[m]
          \/ List[n] + WordSize <= List[m] \/ List[m] + WordSize <= List[n]
      BY <2>1, <2>3, <2>4, ListTyped DEF Apart
    <3> QED
      BY <2>1, <2>2, <2>4, <3>1, <3>2, SizesAssumption DEF Word, Covers
  <2>7. pc \notin Masked(List[n], pc - List[n])
    BY <2>1, <2>2, <2>4, <2>6, SizesAssumption DEF Word, Masked
  <2>8. pc \notin Removed(List[n])
    BY <1>1, <2>2, <2>6 DEF IInv, Removed, Poked
  <2> QED
    BY <2>5, <2>7, <2>8 DEF Fixed
<1>2. IInv => FixResumes
  BY <1>1 DEF FixResumes
<1> QED
  BY <1>2, TextInvariant, PTL
=============================================================================
