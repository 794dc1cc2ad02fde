--------------------------- MODULE ChopSampleProof ---------------------------
(***************************************************************************)
(* Proofs about ChopSample, for every size of the ring and of the records  *)
(* and every order of the threads: first the threads, whoever waits for    *)
(* the program; then the ring buffer: the reader never finds a record      *)
(* incomplete, every sample it delivers is whole and in order, and every   *)
(* loss is accounted for.                                                  *)
(***************************************************************************)
EXTENDS ChopSample, SequenceTheorems, FiniteSetsExt, FiniteSetTheorems, NaturalsInduction,
        WellFoundedInduction, TLAPS
-----------------------------------------------------------------------------
(* Sums over finite sets.  The folds of the community modules choose the   *)
(* elements of a set one by one: the result does not depend on the order,  *)
(* so that an element can be added or taken out.                           *)

\* A finite set has no infinite descent: some set of a collection has none of the others within it.
LEMMA Smallest ==
  ASSUME NEW S, IsFiniteSet(S), NEW C, C \subseteq SUBSET S, C # {}
  PROVE  \E m \in C : \A t \in C : t \subseteq m => t = m
<1>1. IsWellFoundedOn(StrictSubsetOrdering(S), SUBSET S)
  BY FS_StrictSubsetOrderingWellFounded, FS_FiniteSubsetsOfFinite
<1>2. PICK m \in C : \A t \in C : ~ (<<t, m>> \in StrictSubsetOrdering(S))
  BY <1>1, WFMin
<1>3. \A t \in C : t \subseteq m => t = m
  BY <1>2 DEF StrictSubsetOrdering
<1> QED
  BY <1>3

\* A set of numbers has a least one.
LEMMA Least ==
  ASSUME NEW C, C \subseteq Nat, C # {}
  PROVE  \E m \in C : \A n \in C : m <= n
<1>1. PICK m \in C : \A n \in C : ~ (<<n, m>> \in OpToRel(<, Nat))
  BY NatLessThanWellFounded, WFMin
<1>2. ASSUME NEW n \in C PROVE m <= n
  <2>1. ~ (<<n, m>> \in OpToRel(<, Nat))
    BY <1>1
  <2>2. m \in Nat /\ n \in Nat
    OBVIOUS
  <2>3. ~ (n < m)
    BY <2>1, <2>2 DEF OpToRel
  <2> QED
    BY <2>2, <2>3
<1> QED
  BY <1>2

\* The order in which a fold takes the elements.
Pick(s) == CHOOSE x \in s : TRUE
Rest(s) == s \ {Pick(s)}

LEMMA Picked ==
  ASSUME NEW s, s # {}
  PROVE  Pick(s) \in s /\ Rest(s) \subseteq s /\ Rest(s) # s
BY DEF Pick, Rest

\* f is the sum of the values v over each subset of S, taken out one by one.
Sums(f, v, S) == f = [s \in SUBSET S |-> IF s = {} THEN 0 ELSE v[Pick(s)] + f[Rest(s)]]

LEMMA SumsAt ==
  ASSUME NEW f, NEW v, NEW S, Sums(f, v, S)
  PROVE  \A s \in SUBSET S : f[s] = IF s = {} THEN 0 ELSE v[Pick(s)] + f[Rest(s)]
BY DEF Sums

\* What a sum over a part of S is does not depend on S.
LEMMA SumsAgree ==
  ASSUME NEW v, NEW S, IsFiniteSet(S), NEW T \in SUBSET S, NEW f, NEW g, Sums(f, v, S), Sums(g, v, T)
  PROVE  \A s \in SUBSET T : f[s] = g[s]
<1> DEFINE C == {s \in SUBSET T : f[s] # g[s]}
<1> SUFFICES ASSUME C # {} PROVE FALSE
  OBVIOUS
<1>1. IsFiniteSet(T)
  BY FS_Subset
<1>2. C \subseteq SUBSET T
  OBVIOUS
<1>3. \E m \in C : \A t \in C : t \subseteq m => t = m
  <2> HIDE DEF C
  <2> QED
    BY <1>1, <1>2, Smallest
<1>4. PICK m \in C : \A t \in C : t \subseteq m => t = m
  BY <1>3
<1>5. /\ f[m] = IF m = {} THEN 0 ELSE v[Pick(m)] + f[Rest(m)]
      /\ g[m] = IF m = {} THEN 0 ELSE v[Pick(m)] + g[Rest(m)]
  BY SumsAt
<1>6. m # {}
  BY <1>4, <1>5
<1>7. Rest(m) \in SUBSET T /\ Rest(m) \notin C
  BY <1>4, <1>6, Picked
<1>8. f[Rest(m)] = g[Rest(m)]
  BY <1>7
<1> QED
  BY <1>5, <1>6, <1>8

\* There are such sums for every finite S: a smallest set without them would
\* have them.
LEMMA SumsExist ==
  ASSUME NEW v, NEW S, IsFiniteSet(S)
  PROVE  \E f : Sums(f, v, S)
<1> DEFINE C == {T \in SUBSET S : ~ \E f : Sums(f, v, T)}
<1> SUFFICES ASSUME C # {} PROVE FALSE
  OBVIOUS
<1>0. C \subseteq SUBSET S
  OBVIOUS
<1>a. \E m \in C : \A t \in C : t \subseteq m => t = m
  <2> HIDE DEF C
  <2> QED
    BY <1>0, Smallest
<1>1. PICK m \in C : \A t \in C : t \subseteq m => t = m
  BY <1>a
<1> DEFINE G(t) == CHOOSE f : Sums(f, v, t)
           h == [s \in SUBSET m |-> IF s = {} THEN 0 ELSE v[Pick(s)] + G(Rest(s))[Rest(s)]]
<1>2. ASSUME NEW t \in SUBSET m, t # m PROVE Sums(G(t), v, t)
  <2>1. \E f : Sums(f, v, t)
    BY <1>1, <1>2
  <2> QED
    BY <2>1
<1> HIDE DEF G
<1>3. ASSUME NEW s \in SUBSET m, s # {} PROVE h[Rest(s)] = G(Rest(s))[Rest(s)]
  <2> DEFINE t == Rest(s)
  <2>1. t \in SUBSET m /\ t # m
    BY <1>3, Picked
  <2>2. Sums(G(t), v, t)
    BY <1>2, <2>1
  <2> HIDE DEF t
  <2>3. G(t)[t] = IF t = {} THEN 0 ELSE v[Pick(t)] + G(t)[Rest(t)]
    BY <2>2, SumsAt
  <2>4. h[t] = IF t = {} THEN 0 ELSE v[Pick(t)] + G(Rest(t))[Rest(t)]
    BY <2>1
  <2>5. CASE t # {}
    <3>1. Rest(t) \in SUBSET t /\ Rest(t) \in SUBSET m /\ Rest(t) # m
      BY <2>1, <2>5, Picked
    <3>2. Sums(G(Rest(t)), v, Rest(t)) /\ IsFiniteSet(t)
      BY <1>2, <2>1, <3>1, FS_Subset
    <3>3. G(t)[Rest(t)] = G(Rest(t))[Rest(t)]
      BY <2>2, <3>1, <3>2, SumsAgree
    <3> QED
      BY <2>3, <2>4, <2>5, <3>3 DEF t
  <2> QED
    BY <2>3, <2>4, <2>5 DEF t
<1>4. Sums(h, v, m)
  BY <1>3 DEF Sums
<1> QED
  BY <1>4

\* The sum of v over S.
Total(v, S) == (CHOOSE f : Sums(f, v, S))[S]

LEMMA TotalOf ==
  ASSUME NEW v, NEW S, IsFiniteSet(S), NEW T \in SUBSET S, NEW f, Sums(f, v, S)
  PROVE  Total(v, T) = f[T]
<1>1. IsFiniteSet(T)
  BY FS_Subset
<1>2. Sums(CHOOSE g : Sums(g, v, T), v, T)
  BY <1>1, SumsExist
<1>3. (CHOOSE g : Sums(g, v, T))[T] = f[T]
  <2> DEFINE g == CHOOSE h : Sums(h, v, T)
  <2>1. Sums(g, v, T)
    BY <1>2
  <2> HIDE DEF g
  <2>2. f[T] = g[T]
    BY <2>1, SumsAgree
  <2> QED
    BY <2>2 DEF g
<1> QED
  BY <1>3 DEF Total

LEMMA TotalNone ==
  ASSUME NEW v
  PROVE  Total(v, {}) = 0
<1>1. PICK f : Sums(f, v, {})
  BY SumsExist, FS_EmptySet
<1>2. Total(v, {}) = f[{}]
  BY <1>1, TotalOf, FS_EmptySet
<1> QED
  BY <1>1, <1>2, SumsAt

LEMMA TotalPicked ==
  ASSUME NEW v, NEW S, IsFiniteSet(S), S # {}
  PROVE  Total(v, S) = v[Pick(S)] + Total(v, Rest(S))
<1>1. PICK f : Sums(f, v, S)
  BY SumsExist
<1>2. Rest(S) \in SUBSET S
  BY Picked
<1>3. Total(v, S) = f[S] /\ Total(v, Rest(S)) = f[Rest(S)]
  BY <1>1, <1>2, TotalOf
<1> QED
  BY <1>1, <1>3, SumsAt

\* The sum does not depend on the order: any element can be the first.
LEMMA TotalWithout ==
  ASSUME NEW v, NEW S, IsFiniteSet(S), \A x \in S : v[x] \in Nat
  PROVE  Total(v, S) \in Nat /\ \A x \in S : Total(v, S) = v[x] + Total(v, S \ {x})
<1> DEFINE Good(s) == Total(v, s) \in Nat /\ \A x \in s : Total(v, s) = v[x] + Total(v, s \ {x})
           C == {s \in SUBSET S : ~Good(s)}
<1> SUFFICES ASSUME C # {} PROVE FALSE
  OBVIOUS
<1>0. C \subseteq SUBSET S
  OBVIOUS
<1>a. \E m \in C : \A t \in C : t \subseteq m => t = m
  <2> HIDE DEF C
  <2> QED
    BY <1>0, Smallest
<1>1. PICK m \in C : \A t \in C : t \subseteq m => t = m
  BY <1>a
<1>2. \A t \in SUBSET m : t # m => Good(t)
  BY <1>1
<1>3. IsFiniteSet(m) /\ m \in SUBSET S
  BY FS_Subset
<1>4. CASE m = {}
  BY <1>4, TotalNone
<1>5. CASE m # {}
  <2> DEFINE y == Pick(m)
  <2>1. y \in m /\ Total(v, m) = v[y] + Total(v, m \ {y}) /\ v[y] \in Nat
    BY <1>3, <1>5, Picked, TotalPicked DEF Rest
  <2> HIDE DEF y
  <2>2. Good(m \ {y})
    BY <1>2, <2>1
  <2>3. ASSUME NEW x \in m PROVE Total(v, m) = v[x] + Total(v, m \ {x})
    <3>1. CASE x = y
      BY <2>1, <3>1
    <3>2. CASE x # y
      <4>1. Good(m \ {x}) /\ v[x] \in Nat
        BY <1>2, <1>3
      <4>2. y \in m \ {x} /\ x \in m \ {y} /\ (m \ {x}) \ {y} = (m \ {y}) \ {x}
        BY <2>1, <3>2
      <4>3. /\ Total(v, m \ {x}) = v[y] + Total(v, (m \ {x}) \ {y})
            /\ Total(v, m \ {y}) = v[x] + Total(v, (m \ {y}) \ {x})
        BY <2>2, <4>1, <4>2
      <4>4. Total(v, (m \ {y}) \ {x}) \in Nat
        <5>1. (m \ {y}) \ {x} \in SUBSET m /\ (m \ {y}) \ {x} # m
          BY <2>1
        <5>2. Good((m \ {y}) \ {x})
          BY <1>2, <5>1
        <5> QED
          BY <5>2
      <4> QED
        BY <2>1, <4>1, <4>2, <4>3, <4>4
    <3> QED
      BY <3>1, <3>2
  <2>4. Total(v, m) \in Nat
    BY <2>1, <2>2
  <2> QED
    BY <2>3, <2>4
<1> QED
  BY <1>4, <1>5

\* An element is added.
LEMMA TotalWith ==
  ASSUME NEW v, NEW S, IsFiniteSet(S), NEW x, x \notin S, \A y \in S \cup {x} : v[y] \in Nat
  PROVE  Total(v, S \cup {x}) = v[x] + Total(v, S) /\ Total(v, S) \in Nat
<1>1. IsFiniteSet(S \cup {x})
  BY FS_AddElement
<1>2. (S \cup {x}) \ {x} = S /\ x \in S \cup {x}
  OBVIOUS
<1>3. Total(v, S) \in Nat
  BY TotalWithout
<1> DEFINE U == S \cup {x}
<1>4. IsFiniteSet(U) /\ \A y \in U : v[y] \in Nat
  BY <1>1
<1> HIDE DEF U
<1>5. \A y \in U : Total(v, U) = v[y] + Total(v, U \ {y})
  BY <1>4, TotalWithout
<1> QED
  BY <1>2, <1>3, <1>5 DEF U

\* The sum of values that are the same on S.
LEMMA TotalSame ==
  ASSUME NEW v, NEW w, NEW S, IsFiniteSet(S), \A x \in S : v[x] = w[x] /\ v[x] \in Nat
  PROVE  Total(v, S) = Total(w, S)
<1> DEFINE C == {s \in SUBSET S : Total(v, s) # Total(w, s)}
<1> SUFFICES ASSUME C # {} PROVE FALSE
  OBVIOUS
<1>0. C \subseteq SUBSET S
  OBVIOUS
<1>a. \E m \in C : \A t \in C : t \subseteq m => t = m
  <2> HIDE DEF C
  <2> QED
    BY <1>0, Smallest
<1>1. PICK m \in C : \A t \in C : t \subseteq m => t = m
  BY <1>a
<1>2. m # {} /\ m \in SUBSET S
  BY <1>1, TotalNone
<1>3. PICK x \in m : TRUE
  BY <1>2
<1>4. m \ {x} \notin C /\ m \ {x} \in SUBSET S
  BY <1>1, <1>2
<1>5. Total(v, m \ {x}) = Total(w, m \ {x})
  BY <1>4
<1>6. IsFiniteSet(m) /\ \A y \in m : v[y] \in Nat /\ w[y] \in Nat
  BY <1>2, FS_Subset
<1>7. Total(v, m) = v[x] + Total(v, m \ {x}) /\ Total(w, m) = w[x] + Total(w, m \ {x})
  BY <1>6, TotalWithout
<1>8. v[x] = w[x]
  BY <1>2
<1> QED
  BY <1>1, <1>5, <1>7, <1>8

\* The sum over two sets that share nothing.
LEMMA TotalUnion ==
  ASSUME NEW v, NEW S, IsFiniteSet(S), NEW T, IsFiniteSet(T), S \cap T = {},
         \A x \in S \cup T : v[x] \in Nat
  PROVE  Total(v, S \cup T) = Total(v, S) + Total(v, T)
<1> DEFINE C == {s \in SUBSET S : Total(v, s \cup T) # Total(v, s) + Total(v, T)}
<1> SUFFICES ASSUME C # {} PROVE FALSE
  OBVIOUS
<1>0. C \subseteq SUBSET S
  OBVIOUS
<1>a. \E m \in C : \A t \in C : t \subseteq m => t = m
  <2> HIDE DEF C
  <2> QED
    BY <1>0, Smallest
<1>1. PICK m \in C : \A t \in C : t \subseteq m => t = m
  BY <1>a
<1>2. Total(v, T) \in Nat
  BY TotalWithout
<1>3. m # {} /\ m \in SUBSET S
  <2>1. {} \cup T = T
    OBVIOUS
  <2>2. Total(v, {}) + Total(v, T) = Total(v, T)
    BY <1>2, TotalNone
  <2> QED
    BY <1>1, <2>1, <2>2
<1>4. PICK x \in m : TRUE
  BY <1>3
<1> DEFINE n == m \ {x}
<1>5. n \notin C /\ n \in SUBSET S
  BY <1>1, <1>3
<1>6. Total(v, n \cup T) = Total(v, n) + Total(v, T)
  BY <1>5
<1>7. IsFiniteSet(n) /\ IsFiniteSet(n \cup T)
  BY <1>5, FS_Subset, FS_Union
<1>8. /\ x \notin n /\ x \notin n \cup T /\ m = n \cup {x} /\ m \cup T = (n \cup T) \cup {x}
      /\ \A y \in n \cup {x} : v[y] \in Nat
      /\ \A y \in (n \cup T) \cup {x} : v[y] \in Nat
  BY <1>3
<1> HIDE DEF n, C
<1>9. Total(v, m) = v[x] + Total(v, n) /\ Total(v, n) \in Nat
  BY <1>7, <1>8, TotalWith
<1>10. Total(v, m \cup T) = v[x] + Total(v, n \cup T)
  BY <1>7, <1>8, TotalWith
<1>11. v[x] \in Nat
  BY <1>8
<1>12. Total(v, m \cup T) = Total(v, m) + Total(v, T)
  BY <1>2, <1>6, <1>9, <1>10, <1>11
<1> QED
  BY <1>1, <1>12 DEF C
-----------------------------------------------------------------------------
(* The threads and the ring.                                               *)

Parts == [op : {"header", "read", "skip"}, len : Nat]

\* A record to store is a sequence of words.
LEMMA WordsTyped ==
  ASSUME NEW r \in Nat, NEW type \in {"sample", "lost", "other"}
  PROVE  Words(r, type) \in Seq(Nat \X Nat) /\ Len(Words(r, type)) \in Nat
<1>1. Length[type] \in Nat
  BY RingAssumption DEF Length, SampleLen, LostLen, HeaderCount
<1> QED
  BY <1>1 DEF Words

\* The layout of a record is a sequence of reads and skips.
LEMMA LayoutTyped ==
  ASSUME NEW type
  PROVE  Layout(type) \in Seq(Parts)
<1>1. Read(HeaderCount) \in Parts /\ Read(1) \in Parts /\ Read(2) \in Parts
      /\ Read(Counters) \in Parts /\ Skip(1) \in Parts /\ Skip(LostLen - 3) \in Parts
      /\ Skip(OtherLen - 1) \in Parts
  BY RingAssumption DEF Read, Skip, Parts, HeaderCount, LostLen
<1> QED
  BY <1>1 DEF Layout, LostLayout, OtherLayout

\* What the kernel stores fits, and is of a known type.
LEMMA StoreStep ==
  ASSUME TypeOK, Reading, NEW type \in {"sample", "other"}, Store(type),
         UNCHANGED threadVars, UNCHANGED processVars
  PROVE  TypeOK' /\ Reading'
<1> DEFINE n == Len(records)
           new == [type |-> type, value |-> IF type = "sample" THEN taken' ELSE 0]
           loss == [type |-> "lost", value |-> missed]
           added == IF missed = 0 THEN <<new>> ELSE <<loss, new>>
           words == IF missed = 0 THEN Words(n + 1, type)
                                  ELSE Words(n + 1, "lost") \o Words(n + 2, type)
           Record == [type : DOMAIN Length, value : Nat]
<1>1. taken' \in 0 .. MaxTaken /\ UNCHANGED readerVars
  BY RingAssumption DEF Store, TypeOK
<1>2. \/ missed' = missed + 1 /\ UNCHANGED <<head, records>>
      \/ /\ missed' = 0 /\ head' = head + Len(words) /\ Avail + Len(words) <= Size
         /\ records' = records \o added
  <2>1. CASE Avail + Len(words) > Size
    BY <2>1 DEF Store
  <2>2. CASE ~(Avail + Len(words) > Size)
    <3>1. missed' = 0 /\ head' = head + Len(words) /\ records' = records \o added
      BY <2>2 DEF Store
    <3>2. Len(words) \in Nat
      <4>1. n \in Nat /\ n + 1 \in Nat /\ n + 2 \in Nat
        BY DEF TypeOK
      <4> HIDE DEF n, new, loss, added, words, Record
      <4>2. /\ Words(n + 1, type) \in Seq(Nat \X Nat)
            /\ Words(n + 2, type) \in Seq(Nat \X Nat)
            /\ Words(n + 1, "lost") \in Seq(Nat \X Nat)
        BY <4>1, WordsTyped
      <4>3. words \in Seq(Nat \X Nat)
        BY <4>2 DEF words
      <4> QED
        BY <4>3
    <3> HIDE DEF words
    <3> QED
      BY <2>2, <3>1, <3>2, RingAssumption DEF TypeOK, Avail
  <2> QED
    BY <2>1, <2>2
<1>3. added \in Seq(Record)
  <2>1. DOMAIN Length = {"sample", "lost", "other"}
    BY DEF Length
  <2>2. new \in Record /\ loss \in Record
    BY <1>1, <2>1 DEF TypeOK
  <2> HIDE DEF new, loss, Record
  <2> QED
    BY <2>2
<1>4. Len(words) \in Nat \/ UNCHANGED head
  <2>1. CASE missed = 0
    BY <2>1, WordsTyped DEF TypeOK
  <2>2. CASE missed # 0
    <3>1. n \in Nat /\ n + 1 \in Nat /\ n + 2 \in Nat
      BY DEF TypeOK
    <3> HIDE DEF n
    <3>2. Words(n + 1, "lost") \in Seq(Nat \X Nat) /\ Words(n + 2, type) \in Seq(Nat \X Nat)
      BY <3>1, WordsTyped
    <3> QED
      BY <2>2, <3>2
  <2> QED
    BY <2>1, <2>2
<1>5. ThreadTypes'
  BY DEF TypeOK, ThreadTypes, threadVars, processVars, fixed
<1>6. head' \in Nat /\ head' >= head /\ head' - tail <= Size /\ missed' \in Nat
  <2> HIDE DEF words
  <2> QED
    BY <1>2, <1>4, RingAssumption DEF TypeOK, Avail
<1>7. records' \in Seq(Record)
  <2>1. records \in Seq(Record)
    BY DEF TypeOK
  <2>2. records' = records \/ records' = records \o added
    BY <1>2
  <2> HIDE DEF added, Record
  <2>3. CASE records' = records
    BY <2>1, <2>3
  <2>4. CASE records' = records \o added
    BY <2>1, <2>4, <1>3
  <2> QED
    BY <2>2, <2>3, <2>4
<1>8. TypeOK'
  BY <1>1, <1>5, <1>6, <1>7 DEF TypeOK, readerVars, Avail
<1>9. Reading'
  <2>1. todo \in Seq(Parts)
    BY DEF TypeOK, Parts
  <2>2. todo # <<>> => Head(todo) \in Parts
    BY <2>1
  <2>3. copied => Head(todo).len \in Nat
    BY <2>2 DEF Reading, ToRead, Parts
  <2> QED
    BY <1>1, <1>6, <2>3 DEF Reading, ToRead, TypeOK, readerVars, Avail
<1> QED
  BY <1>8, <1>9

\* The reader stays behind the head, and reads and skips.
LEMMA ReadTypes ==
  ASSUME TypeOK, Reading, ReadStep, UNCHANGED threadVars, UNCHANGED processVars
  PROVE  TypeOK' /\ Reading'
<1>1. ThreadTypes'
  BY DEF TypeOK, ThreadTypes, threadVars, processVars, fixed
<1>2. CASE BeginRecord
  <2>1. <<Header>> \in Seq(Parts)
    BY DEF Header, Parts
  <2> QED
    BY <1>1, <1>2, <2>1 DEF BeginRecord, ToRead, TypeOK, Reading, Parts, kernelVars, Avail
<1>3. CASE Copy
  BY <1>1, <1>3 DEF Copy, ToRead, TypeOK, Reading, kernelVars, Avail
<1>4. CASE Advance
  <2> todo # <<>> /\ todo \in Seq(Parts)
    BY <1>4 DEF Advance, Reading, ToRead, TypeOK, Parts
  <2>1. Head(todo) \in Parts /\ Tail(todo) \in Seq(Parts)
    OBVIOUS
  <2>2. After(got) \in Seq(Parts)
    BY <2>1, LayoutTyped DEF After
  <2>3. tail' \in 0 .. head /\ head - tail' <= Size
    BY <1>4, <2>1, RingAssumption DEF Advance, Advanced, Reading, TypeOK, Parts, Avail
  <2> QED
    BY <1>1, <1>4, <2>2, <2>3 DEF Advance, TypeOK, Reading, Parts, kernelVars, Avail
<1>5. CASE SkipPart
  <2> todo # <<>> /\ todo \in Seq(Parts) /\ ~copied
    BY <1>5 DEF SkipPart, Reading, ToRead, TypeOK, Parts
  <2>1. Head(todo) \in Parts /\ Tail(todo) \in Seq(Parts)
    OBVIOUS
  <2>2. tail' \in tail .. head
    <3> DEFINE past == tail + Head(todo).len
    <3>1. past \in Int /\ past >= tail
      BY <2>1 DEF Parts, TypeOK
    <3>2. Min({past, head}) = IF past <= head THEN past ELSE head
      BY <3>1 DEF Min, TypeOK
    <3> QED
      BY <1>5, <3>1, <3>2 DEF SkipPart, TypeOK
  <2> QED
    BY <1>1, <1>5, <2>1, <2>2, RingAssumption DEF SkipPart, TypeOK, Reading, Parts,
      kernelVars, Avail
<1>6. CASE EndRecord
  BY <1>1, <1>6 DEF EndRecord, ToRead, TypeOK, Reading, kernelVars, Avail
<1> QED
  BY <1>2, <1>3, <1>4, <1>5, <1>6 DEF ReadStep
-----------------------------------------------------------------------------
(* Steps of the threads and of the program.                                *)

\* A step that leaves the ring alone keeps what is said of it.
LEMMA RingUnchanged ==
  ASSUME TypeOK, Reading, UNCHANGED <<kernelVars, readerVars>>, ThreadTypes'
  PROVE  TypeOK' /\ Reading'
BY DEF TypeOK, Reading, ToRead, Avail, kernelVars, readerVars

\* What the threads know of each other and of the program.
Threads ==
  /\ AttachedWaitsNot /\ StartsAlone
  /\ ~attached => ReapedWhenSaid /\ DeadAtTheEnd

\* What each step of Process::wait keeps, whichever thread makes it.
LEMMA WaitStep ==
  ASSUME TypeOK, Threads, NEW w \in Thread, Wait(w)
  PROVE  ThreadTypes' /\ Threads'
<1> USE DEF TypeOK, ThreadTypes, Thread, Dead, Stops, Status, InStart, InWait, In, Go,
            AttachedWaitsNot, fixed
<1>a. ~attached
  BY DEF Wait, Waitpid, StoreStatus, TestExited, TestSignaled, Threads
<1>b. StartsAlone /\ ReapedWhenSaid /\ DeadAtTheEnd
  BY <1>a DEF Threads
<1>1. CASE Waitpid(w)
  <2>2. ThreadTypes'
    BY <1>1 DEF Waitpid
  <2>3. ReapedWhenSaid'
    BY <1>1, <1>b DEF Waitpid, ReapedWhenSaid, DeadAtTheEnd
  <2>4. DeadAtTheEnd'
    BY <1>1, <1>b DEF Waitpid, ReapedWhenSaid, DeadAtTheEnd, StartsAlone
  <2>5. StartsAlone' /\ ~attached'
    BY <1>1, <1>a, <1>b DEF Waitpid, StartsAlone
  <2> QED
    BY <2>2, <2>3, <2>4, <2>5 DEF Threads
<1>2. CASE StoreStatus(w)
  <2>2. ThreadTypes'
    BY <1>2, <1>b DEF StoreStatus, ReapedWhenSaid
  <2>3. ReapedWhenSaid'
    BY <1>2, <1>b DEF StoreStatus, ReapedWhenSaid
  <2>4. DeadAtTheEnd'
    BY <1>2, <1>b DEF StoreStatus, ReapedWhenSaid, DeadAtTheEnd
  <2>5. StartsAlone' /\ ~attached'
    BY <1>2, <1>a, <1>b DEF StoreStatus, StartsAlone
  <2> QED
    BY <2>2, <2>3, <2>4, <2>5 DEF Threads
<1>3. CASE TestExited(w)
  <2>2. ThreadTypes'
    BY <1>3 DEF TestExited
  <2>c. Exited => child = "reaped"
    BY <1>3, <1>b DEF TestExited, Exited, ReapedWhenSaid
  <2>3. ReapedWhenSaid'
    BY <1>3, <1>b, <2>c DEF TestExited, ReapedWhenSaid
  <2>4. DeadAtTheEnd'
    BY <1>3, <1>b DEF TestExited, DeadAtTheEnd
  <2>5. StartsAlone' /\ ~attached'
    BY <1>3, <1>a, <1>b DEF TestExited, StartsAlone
  <2> QED
    BY <2>2, <2>3, <2>4, <2>5 DEF Threads
<1>4. CASE TestSignaled(w)
  <2> USE DEF Returned, AfterWait
  <2>2. ThreadTypes'
    BY <1>4 DEF TestSignaled
  <2>3. ReapedWhenSaid'
    BY <1>4, <1>b DEF TestSignaled, ReapedWhenSaid
  <2>4. DeadAtTheEnd'
    BY <1>4, <1>b DEF TestSignaled, ReapedWhenSaid, DeadAtTheEnd
  <2>5. StartsAlone' /\ ~attached'
    BY <1>4, <1>a, <1>b DEF TestSignaled, StartsAlone
  <2> QED
    BY <2>2, <2>3, <2>4, <2>5 DEF Threads
<1> QED
  BY <1>1, <1>2, <1>3, <1>4 DEF Wait

\* The steps of the start: no thread but main is there.
LEMMA StartStep ==
  ASSUME TypeOK, Threads, Start
  PROVE  ThreadTypes' /\ Threads'
<1> USE DEF TypeOK, ThreadTypes, Thread, Dead, Stops, Status, InStart, InWait, In, Go,
            AttachedWaitsNot, fixed, threadVars, processVars, StartsAlone
<1>a. at["watcher"] = "none" /\ running /\ timer \in {"none", "wanted"}
  BY DEF Start, SetUp, Fork, SetOptions, EarlyWait, Ready, NoModule, Step, StepFails, Reached,
         Insert, SetupEvents, Cont, Threads
<1>b. ~attached => ReapedWhenSaid /\ DeadAtTheEnd
  BY DEF Threads
<1>1. ASSUME Abort, at["main"] \in InStart PROVE ThreadTypes' /\ Threads'
  BY <1>1, <1>a, <1>b DEF Abort, Threads, ReapedWhenSaid, DeadAtTheEnd
<1>2. ASSUME NEW place \in InStart \ {"setup", "fork"}, Proceed(place), at["main"] \in InStart \ {"setup", "fork"},
             attached => place \in {"session", "events"}
      PROVE  ThreadTypes' /\ Threads'
  BY <1>2, <1>a, <1>b DEF Proceed, Threads, ReapedWhenSaid, DeadAtTheEnd
<1>3. CASE SetUp
  <2>1. CASE Proceed("fork")
    BY <1>3, <2>1, <1>a, <1>b DEF SetUp, Proceed, Threads, ReapedWhenSaid, DeadAtTheEnd
  <2> QED
    BY <1>1, <1>3, <2>1 DEF SetUp
<1>4. CASE Fork
  <2>1. CASE ~Abort
    <3>1. CASE attached
      BY <1>4, <2>1, <1>a, <3>1 DEF Fork, Threads
    <3>2. CASE ~attached
      <4>1. /\ at["main"] = "fork" /\ pid' = "child" /\ child' = "born"
            /\ at' = [at EXCEPT !["main"] = "options"]
            /\ UNCHANGED <<attached, exitkill, running, timer, rows, status, found>>
        BY <1>4, <2>1, <3>2 DEF Fork
      <4>2. status = "zero" /\ \A w \in Thread : found[w] = "none"
        BY <4>1 DEF Threads
      <4>3. ThreadTypes' /\ AttachedWaitsNot' /\ StartsAlone'
        BY <1>a, <3>2, <4>1
      <4>4. ReapedWhenSaid'
        BY <1>a, <4>1, <4>2 DEF ReapedWhenSaid
      <4>5. DeadAtTheEnd'
        BY <1>a, <4>1 DEF DeadAtTheEnd
      <4> QED
        BY <4>3, <4>4, <4>5 DEF Threads
    <3> QED
      BY <3>1, <3>2
  <2> QED
    BY <1>1, <1>4, <2>1 DEF Fork
<1>5. CASE SetOptions
  BY <1>5, <1>a, <1>b DEF SetOptions, Threads, ReapedWhenSaid, DeadAtTheEnd
<1>6. CASE EarlyWait
  BY <1>6, <1>a, <1>b DEF EarlyWait, Threads, ReapedWhenSaid, DeadAtTheEnd
<1>7. CASE Ready
  BY <1>1, <1>2, <1>7 DEF Ready, Threads
<1>8. CASE NoModule
  BY <1>8, <1>a, <1>b DEF NoModule, Threads, ReapedWhenSaid, DeadAtTheEnd
<1>9. CASE Step
  BY <1>9, <1>a, <1>b DEF Step, Threads, ReapedWhenSaid, DeadAtTheEnd
<1>10. CASE StepFails
  BY <1>1, <1>10 DEF StepFails
<1>11. CASE Reached
  BY <1>2, <1>11 DEF Reached, Threads
<1>12. CASE Insert
  <2>1. CASE attached /\ timer' = "asleep"
    BY <1>1, <1>2, <1>12, <2>1, <1>a, <1>b DEF Insert, Threads
  <2> QED
    BY <1>1, <1>2, <1>12, <2>1 DEF Insert
<1>13. CASE SetupEvents
  BY <1>1, <1>2, <1>13 DEF SetupEvents, Threads
<1>14. CASE Cont
  <2>1. CASE child = "held"
    BY <1>14, <2>1, <1>a, <1>b DEF Cont, Threads, ReapedWhenSaid, DeadAtTheEnd
  <2> QED
    BY <1>1, <1>14, <2>1 DEF Cont
<1> QED
  BY <1>3, <1>4, <1>5, <1>6, <1>7, <1>8, <1>9, <1>10, <1>11, <1>12, <1>13, <1>14 DEF Start

\* Every other step of the threads and of the program.
LEMMA ThreadStep ==
  ASSUME TypeOK, Threads,
         \/ Loop \/ Poll \/ Drain \/ Commit \/ Stop \/ Kill \/ Destroy
         \/ WatcherStarts \/ WatcherEnds \/ Timeout
         \/ Sampled \/ ChildExecs \/ ChildEnds \/ ChildStops \/ UNCHANGED vars
  PROVE  ThreadTypes' /\ Threads'
<1> USE DEF TypeOK, ThreadTypes, Thread, Dead, Stops, Status, InStart, InWait, In, Go,
            AttachedWaitsNot, StartsAlone, Threads, ReapedWhenSaid, DeadAtTheEnd,
            fixed, processVars, threadVars
<1>1. CASE Loop
  BY <1>1 DEF Loop
<1>2. CASE Poll
  BY <1>2 DEF Poll
<1>3. CASE Commit
  BY <1>3 DEF Commit
<1>4. CASE Stop
  BY <1>4 DEF Stop
<1>5. CASE Kill
  BY <1>5 DEF Kill
<1>6. CASE Destroy
  BY <1>6 DEF Destroy
<1>7. CASE WatcherStarts
  BY <1>7 DEF WatcherStarts
<1>8. CASE WatcherEnds
  <2>1. /\ at["watcher"] = "clear" /\ running' = FALSE
        /\ at' = [at EXCEPT !["watcher"] = "done"]
        /\ UNCHANGED <<attached, exitkill, timer, rows, pid, status, found, child>>
    BY <1>8 DEF WatcherEnds
  <2>2. at["main"] \notin InStart /\ (running => at["main"] \notin InWait \cup {"destroy"})
    BY <2>1
  <2>a. at'["main"] = at["main"] /\ at'["watcher"] = "done" /\ DOMAIN at' = Thread
    BY <2>1
  <2>3. ThreadTypes'
    BY <2>1, <2>a
  <2>b. StartsAlone'
    BY <2>1, <2>2, <2>a
  <2>4. ~attached
    BY <2>1
  <2>5. ReapedWhenSaid'
    BY <2>1, <2>4
  <2>6. DeadAtTheEnd'
    BY <2>1, <2>2, <2>4, <2>a
  <2> QED
    BY <2>1, <2>3, <2>4, <2>5, <2>6, <2>b
<1>9. CASE Timeout
  <2>1. UNCHANGED <<attached, exitkill, at, pid, status, found, child>>
    BY <1>9 DEF Timeout
  <2>2. running' \in BOOLEAN /\ timer' \in {"none", "wanted", "asleep", "done"}
    BY <1>9 DEF Timeout
  <2> QED
    BY <1>9, <2>1, <2>2 DEF Timeout
<1>10. CASE ChildEnds
  BY <1>10 DEF ChildEnds, Over
<1>11. CASE ChildStops
  BY <1>11 DEF ChildStops, Over
<1>12. CASE ChildExecs
  BY <1>12 DEF ChildExecs, Over
<1>13. CASE UNCHANGED <<processVars, threadVars>>
  BY <1>13
<1> HIDE DEF TypeOK, AttachedWaitsNot, ReapedWhenSaid, DeadAtTheEnd, ThreadTypes, Threads, StartsAlone
<1> QED
  BY <1>1, <1>2, <1>3, <1>4, <1>5, <1>6, <1>7, <1>8, <1>9, <1>10, <1>11, <1>12, <1>13
    DEF Drain, Sampled, vars

\* Commit empties the result of a call of sample() and leaves the ring alone.
LEMMA CommitStep ==
  ASSUME TypeOK, Reading, Commit, ThreadTypes'
  PROVE  TypeOK' /\ Reading'
<1>1. UNCHANGED <<head, tail, missed, taken, records, todo, copied>>
  BY DEF Commit, kernelVars
<1> QED
  BY <1>1 DEF TypeOK, Reading, ToRead, Avail
-----------------------------------------------------------------------------
(* Theorems.                                                               *)

LEMMA InitInvariant == Init => IInv
<1> SUFFICES ASSUME Init PROVE IInv
  OBVIOUS
<1>1. ThreadTypes
  BY DEF Init, ThreadTypes, Thread, Status, Dead, Stops, InStart, InWait
<1>2. TypeOK /\ Reading
  <2>1. records \in Seq([type : DOMAIN Length, value : Nat])
        /\ todo \in Seq([op : {"header", "read", "skip"}, len : Nat])
    BY DEF Init, RingInit
  <2>2. head = 0 /\ tail = 0 /\ missed = 0 /\ taken = 0 /\ copied = FALSE
    BY DEF Init, RingInit
  <2>3. head \in Nat /\ tail \in 0 .. head /\ Avail <= Size /\ missed \in Nat
        /\ taken \in 0 .. MaxTaken
    BY <2>2, RingAssumption DEF Avail
  <2> QED
    BY <1>1, <2>1, <2>2, <2>3, Zenon DEF TypeOK, Reading
<1>3. AttachedWaitsNot /\ StartsAlone /\ ReapedWhenSaid /\ DeadAtTheEnd
  BY DEF Init, AttachedWaitsNot, StartsAlone, ReapedWhenSaid, DeadAtTheEnd, Thread, Dead, In,
         InStart, InWait
<1> QED
  BY <1>2, <1>3 DEF IInv

LEMMA NextInvariant == IInv /\ [Next]_vars => IInv'
<1> SUFFICES ASSUME IInv, [Next]_vars PROVE IInv'
  OBVIOUS
<1>1. TypeOK /\ Reading /\ Threads
  BY DEF IInv, Threads
<1>2. ThreadTypes' /\ Threads'
  <2>1. ASSUME NEW w \in Thread, Wait(w) PROVE ThreadTypes' /\ Threads'
    BY <1>1, <2>1, WaitStep
  <2> QED
    BY <1>1, <2>1, ThreadStep, StartStep DEF Next, MainStep, WatcherStep, Finished, Thread
<1>3. TypeOK' /\ Reading'
  <2>1. CASE Drain
    BY <1>1, <2>1, ReadTypes DEF Drain
  <2>2. CASE Sampled
    BY <1>1, <2>2, StoreStep DEF Sampled
  <2>3. CASE Commit
    BY <1>1, <1>2, <2>3, CommitStep
  <2>4. CASE Loop \/ Poll \/ Stop \/ Kill \/ Destroy
    BY <1>1, <1>2, <2>4, RingUnchanged DEF Loop, Poll, Stop, Kill, Destroy
  <2>5. ASSUME NEW w \in Thread, Wait(w) PROVE TypeOK' /\ Reading'
    BY <1>1, <1>2, <2>5, RingUnchanged
      DEF Wait, Waitpid, StoreStatus, TestExited, TestSignaled
  <2>6. CASE WatcherStarts \/ WatcherEnds \/ Timeout
    BY <1>1, <1>2, <2>6, RingUnchanged DEF WatcherStarts, WatcherEnds, Timeout
  <2>7. CASE ChildExecs \/ ChildEnds \/ ChildStops \/ Finished \/ UNCHANGED vars
    BY <1>1, <1>2, <2>7, RingUnchanged DEF ChildExecs, ChildEnds, ChildStops, Finished, vars
  <2>8. CASE Start
    <3>1. UNCHANGED <<kernelVars, readerVars>>
      BY <2>8 DEF Start, SetUp, Fork, SetOptions, EarlyWait, Ready, NoModule, Step, StepFails,
                  Reached, Insert, SetupEvents, Cont, Abort, Proceed
    <3> QED
      BY <1>1, <1>2, <3>1, RingUnchanged
  <2> QED
    BY <2>1, <2>2, <2>3, <2>4, <2>5, <2>6, <2>7, <2>8 DEF Next, MainStep, WatcherStep, Thread
<1> QED
  BY <1>2, <1>3 DEF IInv, Threads

\* The inductive invariant holds throughout.
THEOREM Invariance == Spec => []IInv
BY InitInvariant, NextInvariant, PTL DEF Spec

\* Every reachable state is well typed; in particular data_tail never passes
\* data_head, however skips and reads of a record are made.
THEOREM TypeCorrect == Spec => []TypeOK
<1>1. IInv => TypeOK
  BY DEF IInv
<1> QED
  BY <1>1, Invariance, PTL

\* When chop sample has ended, with success or with an error, the program it
\* started is dead and has been waited for, whatever the order in which its two
\* waiting threads and the kernel take their steps, unless the start failed.
THEOREM NoChildLeftAlways == Spec => []NoChildLeft
<1>1. IInv => NoChildLeft
  BY DEF IInv, DeadAtTheEnd, NoChildLeft, Over
<1> QED
  BY <1>1, Invariance, PTL
-----------------------------------------------------------------------------
(* The ring buffer.                                                        *)

Kind == {"sample", "lost", "other"}

LEMMA Lengths ==
  /\ DOMAIN Length = Kind
  /\ \A type \in Kind : Length[type] \in Nat \ {0}
  /\ Length["sample"] = SampleLen /\ SampleLen = 7 + Counters
  /\ Length["lost"] = 3 /\ Length["other"] = OtherLen
BY RingAssumption DEF Length, SampleLen, LostLen, HeaderCount, Kind
-----------------------------------------------------------------------------
(* Places in the ring.                                                     *)

LEMMA Division ==
  ASSUME NEW m \in Nat \ {0}, NEW n \in Int
  PROVE  /\ n \div m \in Int /\ n % m \in 0 .. m - 1
         /\ n = m * (n \div m) + (n % m)
BY SMT

LEMMA Uniquely ==
  ASSUME NEW m \in Nat \ {0}, NEW q \in Int, NEW r \in 0 .. m - 1
  PROVE  (m * q + r) % m = r
BY SMT

\* A place a bit further on, before and after the ring wraps.
LEMMA Further ==
  ASSUME NEW m \in Nat \ {0}, NEW p \in Nat, NEW j \in 0 .. m - 1
  PROVE  (p + j) % m = IF (p % m) + j < m THEN (p % m) + j ELSE (p % m) + j - m
<1> DEFINE q == p \div m
           r == p % m
<1>1. q \in Int /\ r \in 0 .. m - 1 /\ p = m * q + r
  BY Division
<1>2. m * (q + 1) = m * q + m
  BY <1>1
<1>3. CASE r + j < m
  <2>1. r + j \in 0 .. m - 1 /\ p + j = m * q + (r + j)
    BY <1>1, <1>3
  <2>2. (m * q + (r + j)) % m = r + j
    BY <1>1, <2>1, Uniquely
  <2> QED
    BY <1>3, <2>1, <2>2
<1>4. CASE ~(r + j < m)
  <2>1. r + j - m \in 0 .. m - 1 /\ p + j = m * (q + 1) + (r + j - m) /\ q + 1 \in Int
    BY <1>1, <1>2, <1>4
  <2>2. (m * (q + 1) + (r + j - m)) % m = r + j - m
    <3> HIDE DEF q, r
    <3> QED
      BY <2>1, Uniquely
  <2> QED
    BY <1>4, <2>1, <2>2
<1> QED
  BY <1>3, <1>4

\* How far a cell is from the head, for the places before and after it.
LEMMA Distance ==
  ASSUME NEW m \in Nat \ {0}, NEW h \in Nat, NEW p \in Nat
  PROVE  /\ h <= p /\ p - h < m => ((p % m) - h) % m = p - h
         /\ p < h /\ h - p <= m => ((p % m) - h) % m = m - (h - p)
<1> DEFINE q == p \div m
           r == p % m
<1>1. q \in Int /\ r \in 0 .. m - 1 /\ p = m * q + r
  BY Division
<1>2. r - h = m * (0 - q) + (p - h)
  <2>1. m * (0 - q) = 0 - m * q
    BY <1>1
  <2> QED
    BY <1>1, <2>1
<1>3. ASSUME h <= p, p - h < m PROVE (r - h) % m = p - h
  <2>1. p - h \in 0 .. m - 1 /\ 0 - q \in Int
    BY <1>1, <1>3
  <2>2. (m * (0 - q) + (p - h)) % m = p - h
    BY <2>1, Uniquely
  <2> QED
    BY <1>2, <2>2
<1>4. ASSUME p < h, h - p <= m PROVE (r - h) % m = m - (h - p)
  <2>1. m - (h - p) \in 0 .. m - 1 /\ (0 - q) - 1 \in Int
    BY <1>1, <1>4
  <2>2. r - h = m * ((0 - q) - 1) + (m - (h - p))
    <3>1. m * ((0 - q) - 1) = m * (0 - q) - m
      BY <1>1
    <3> QED
      BY <1>2, <3>1
  <2>3. (m * ((0 - q) - 1) + (m - (h - p))) % m = m - (h - p)
    BY <2>1, Uniquely
  <2> QED
    BY <2>2, <2>3
<1> QED
  BY <1>3, <1>4
-----------------------------------------------------------------------------
(* The kernel stores whole records behind the head.                        *)

\* The words ws, the first of record n + 1, are whole records up to the last of R.
WholeWords(ws, n, R) ==
  /\ ws \in Seq(Nat \X Nat) /\ ws # <<>> /\ ws[1] = <<n + 1, 1>>
  /\ \A j \in 1 .. Len(ws) :
       LET r == ws[j][1]
           i == ws[j][2]
           len == Length[R[r].type]
       IN /\ r \in DOMAIN R /\ i \in 1 .. len /\ j + (len - i) <= Len(ws)
          /\ \A k \in 1 .. len - i : ws[j + k] = <<r, i + k>>
          /\ j + (len - i) < Len(ws) => ws[j + (len - i) + 1] = <<r + 1, 1>>
          /\ j + (len - i) = Len(ws) => r = Len(R)

LEMMA WordsThere ==
  ASSUME NEW ws, NEW n, NEW R, WholeWords(ws, n, R)
  PROVE  ws \in Seq(Nat \X Nat) /\ ws # <<>> /\ Len(ws) \in Nat \ {0} /\ ws[1] = <<n + 1, 1>>
<1>1. ws \in Seq(Nat \X Nat) /\ ws # <<>> /\ ws[1] = <<n + 1, 1>>
  BY Zenon DEF WholeWords
<1> QED
  BY <1>1

Record == [type : DOMAIN Length, value : Nat]

LEMMA RecordLength ==
  ASSUME NEW R \in Seq(Record), NEW r \in DOMAIN R
  PROVE  Length[R[r].type] \in Nat \ {0} /\ R[r].type \in Kind
<1>1. R[r] \in Record
  OBVIOUS
<1>2. R[r].type \in DOMAIN Length
  BY <1>1 DEF Record
<1> QED
  BY <1>2, Lengths

LEMMA OneRecord ==
  ASSUME NEW R \in Seq(Record), NEW new \in Record
  PROVE  /\ WholeWords(Words(Len(R) + 1, new.type), Len(R), Append(R, new))
         /\ Len(Words(Len(R) + 1, new.type)) = Length[new.type]
<1> DEFINE n == Len(R)
           S == Append(R, new)
           ws == Words(n + 1, new.type)
           len == Length[new.type]
<1>1. len \in Nat \ {0} /\ n \in Nat
  BY Lengths DEF Record
<1>2. ws = [i \in 1 .. len |-> <<n + 1, i>>]
  BY DEF Words
<1>3. S \in Seq(Record) /\ Len(S) = n + 1 /\ S[n + 1] = new /\ DOMAIN S = 1 .. n + 1
  OBVIOUS
<1> HIDE DEF n, S, ws, len
<1>4. /\ ws \in Seq(Nat \X Nat) /\ Len(ws) = len
      /\ \A j \in 1 .. len : ws[j] = <<n + 1, j>> /\ ws[j][1] = n + 1 /\ ws[j][2] = j
  BY <1>1, <1>2
<1>5. Length[S[n + 1].type] = len
  BY <1>3 DEF len
<1>6. WholeWords(ws, n, S)
  <2>1. ASSUME NEW j \in 1 .. len
        PROVE  /\ n + 1 \in DOMAIN S /\ j + (len - j) = len /\ n + 1 = Len(S)
               /\ \A k \in 1 .. len - j : ws[j + k] = <<n + 1, j + k>>
    <3>1. \A k \in 1 .. len - j : j + k \in 1 .. len
      BY <1>1
    <3>2. n + 1 \in DOMAIN S /\ j + (len - j) = len
      BY <1>1, <1>3
    <3> QED
      BY <1>3, <1>4, <3>1, <3>2
  <2>2. ASSUME NEW j \in 1 .. Len(ws)
        PROVE  LET r == ws[j][1]
                   i == ws[j][2]
                   size == Length[S[r].type]
               IN /\ r \in DOMAIN S /\ i \in 1 .. size /\ j + (size - i) <= Len(ws)
                  /\ \A k \in 1 .. size - i : ws[j + k] = <<r, i + k>>
                  /\ j + (size - i) < Len(ws) => ws[j + (size - i) + 1] = <<r + 1, 1>>
                  /\ j + (size - i) = Len(ws) => r = Len(S)
    <3> DEFINE r == ws[j][1]
               i == ws[j][2]
               size == Length[S[r].type]
    <3>1. j \in 1 .. len /\ r = n + 1 /\ i = j /\ Len(ws) = len
      BY <1>4
    <3>2. size = len
      BY <1>5, <3>1
    <3> HIDE DEF r, i, size
    <3>3. r \in DOMAIN S /\ j + (size - i) = Len(ws) /\ r = Len(S)
      BY <2>1, <3>1, <3>2
    <3>4. \A k \in 1 .. size - i : ws[j + k] = <<r, i + k>>
      BY <2>1, <3>1, <3>2
    <3>5. i \in 1 .. size /\ Len(ws) \in Nat
      BY <1>1, <3>1, <3>2
    <3> QED
      BY <3>3, <3>4, <3>5 DEF r, i, size
  <2>3. ws # <<>> /\ ws[1] = <<n + 1, 1>>
    BY <1>1, <1>4
  <2> QED
    BY <1>4, <2>2, <2>3, Zenon DEF WholeWords
<1> QED
  BY <1>4, <1>6 DEF n, S, ws, len

LEMMA TwoRecords ==
  ASSUME NEW R \in Seq(Record), NEW S \in Seq(Record), NEW T \in Seq(Record),
         NEW ws, NEW xs, Len(S) > Len(R),
         WholeWords(ws, Len(R), S), WholeWords(xs, Len(S), T),
         Len(T) >= Len(S), \A r \in 1 .. Len(S) : T[r] = S[r]
  PROVE  WholeWords(ws \o xs, Len(R), T) /\ Len(ws \o xs) = Len(ws) + Len(xs)
<1> DEFINE ys == ws \o xs
           lw == Len(ws)
           ly == Len(ys)
<1>1. /\ ws \in Seq(Nat \X Nat) /\ xs \in Seq(Nat \X Nat) /\ ws # <<>> /\ xs # <<>>
      /\ ws[1] = <<Len(R) + 1, 1>> /\ xs[1] = <<Len(S) + 1, 1>>
  BY DEF WholeWords
<1>2. /\ ys \in Seq(Nat \X Nat) /\ ly = lw + Len(xs) /\ ys # <<>> /\ lw \in Nat /\ Len(xs) \in Nat
      /\ Len(xs) > 0 /\ lw > 0
      /\ \A j \in 1 .. lw : ys[j] = ws[j]
      /\ \A j \in lw + 1 .. ly : ys[j] = xs[j - lw]
  <2>1. /\ ys \in Seq(Nat \X Nat) /\ Len(ys) = Len(ws) + Len(xs)
        /\ \A j \in 1 .. Len(ws) + Len(xs) :
             ys[j] = IF j <= Len(ws) THEN ws[j] ELSE xs[j - Len(ws)]
    BY <1>1, ConcatProperties
  <2>2. Len(ws) \in Nat /\ Len(xs) \in Nat /\ Len(ws) > 0 /\ Len(xs) > 0
    BY <1>1, SMTT(30)
  <2> HIDE DEF ys
  <2>3. ys # <<>>
    BY <2>1, <2>2
  <2>4. lw \in 1 .. ly /\ ly \in Nat
    BY <2>1, <2>2, SMTT(30)
  <2>5. ASSUME NEW j \in 1 .. lw PROVE ys[j] = ws[j]
    <3>1. j \in 1 .. Len(ws) + Len(xs) /\ j <= Len(ws)
      BY <2>2
    <3> QED
      BY <2>1, <3>1
  <2>6. ASSUME NEW j \in lw + 1 .. ly PROVE ys[j] = xs[j - lw]
    <3>1. j \in 1 .. Len(ws) + Len(xs) /\ ~(j <= Len(ws))
      BY <2>1, <2>2
    <3> QED
      BY <2>1, <3>1
  <2> QED
    BY <2>1, <2>2, <2>3, <2>4, <2>5, <2>6
<1>3. DOMAIN S = 1 .. Len(S) /\ DOMAIN T = 1 .. Len(T) /\ Len(S) \in Nat /\ Len(T) \in Nat
  OBVIOUS
<1> HIDE DEF ys, lw, ly
<1>4. ASSUME NEW j \in 1 .. ly
      PROVE  LET r == ys[j][1]
                 i == ys[j][2]
                 len == Length[T[r].type]
             IN /\ r \in DOMAIN T /\ i \in 1 .. len /\ j + (len - i) <= ly
                /\ \A k \in 1 .. len - i : ys[j + k] = <<r, i + k>>
                /\ j + (len - i) < ly => ys[j + (len - i) + 1] = <<r + 1, 1>>
                /\ j + (len - i) = ly => r = Len(T)
  <2> DEFINE r == ys[j][1]
             i == ys[j][2]
             len == Length[T[r].type]
  <2>1. CASE j <= lw
    <3>1. ys[j] = ws[j] /\ j \in 1 .. lw
      BY <1>2, <2>1
    <3>2. r \in DOMAIN S /\ len = Length[S[r].type]
      BY <1>3, <3>1 DEF WholeWords, lw
    <3>3. len \in Nat
      BY <3>2, RecordLength
    <3>4. /\ i \in 1 .. len /\ j + (len - i) <= lw
          /\ \A k \in 1 .. len - i : ws[j + k] = <<r, i + k>>
          /\ j + (len - i) < lw => ws[j + (len - i) + 1] = <<r + 1, 1>>
          /\ j + (len - i) = lw => r = Len(S)
      BY <3>1, <3>2 DEF WholeWords, lw
    <3>5. r \in DOMAIN T
      BY <1>3, <3>2
    <3> HIDE DEF r, i, len
    <3>6. \A k \in 1 .. len - i : ys[j + k] = <<r, i + k>>
      <4> SUFFICES ASSUME NEW k \in 1 .. len - i PROVE ys[j + k] = <<r, i + k>>
        OBVIOUS
      <4>1. j + k \in 1 .. lw
        BY <1>2, <3>1, <3>3, <3>4
      <4> QED
        BY <1>2, <3>4, <4>1
    <3>7. j + (len - i) < ly => ys[j + (len - i) + 1] = <<r + 1, 1>>
      <4>1. CASE j + (len - i) < lw
        <5>1. j + (len - i) + 1 \in 1 .. lw
          BY <1>2, <3>1, <3>3, <3>4, <4>1
        <5> QED
          BY <1>2, <3>4, <4>1, <5>1
      <4>2. CASE j + (len - i) = lw
        <5>1. ys[lw + 1] = xs[1]
          BY <1>2
        <5> QED
          BY <1>1, <3>4, <4>2, <5>1
      <4> QED
        BY <1>2, <3>1, <3>3, <3>4, <4>1, <4>2, SMTT(30)
    <3>8. j + (len - i) # ly
      BY <1>2, <3>1, <3>3, <3>4
    <3>9. j + (len - i) <= ly
      BY <1>2, <3>1, <3>3, <3>4
    <3> QED
      BY <3>4, <3>5, <3>6, <3>7, <3>8, <3>9 DEF r, i, len
  <2>2. CASE j > lw
    <3> DEFINE h == j - lw
    <3>1. ys[j] = xs[h] /\ h \in 1 .. Len(xs) /\ j = lw + h
      BY <1>2, <2>2
    <3>2. r \in DOMAIN T
      BY <1>3, <3>1 DEF WholeWords
    <3>3. len \in Nat
      BY <3>2, RecordLength
    <3>4. /\ i \in 1 .. len /\ h + (len - i) <= Len(xs)
          /\ \A k \in 1 .. len - i : xs[h + k] = <<r, i + k>>
          /\ h + (len - i) < Len(xs) => xs[h + (len - i) + 1] = <<r + 1, 1>>
          /\ h + (len - i) = Len(xs) => r = Len(T)
      BY <3>1, <3>2 DEF WholeWords
    <3> HIDE DEF r, i, len, h
    <3>5. \A m \in 1 .. Len(xs) : ys[lw + m] = xs[m]
      BY <1>2
    <3>6. \A k \in 1 .. len - i : ys[j + k] = <<r, i + k>>
      <4> SUFFICES ASSUME NEW k \in 1 .. len - i PROVE ys[j + k] = <<r, i + k>>
        OBVIOUS
      <4>1. h + k \in 1 .. Len(xs) /\ j + k = lw + (h + k)
        BY <1>2, <3>1, <3>3, <3>4
      <4> QED
        BY <3>4, <3>5, <4>1
    <3>7. j + (len - i) < ly => ys[j + (len - i) + 1] = <<r + 1, 1>>
      <4> SUFFICES ASSUME j + (len - i) < ly PROVE ys[j + (len - i) + 1] = <<r + 1, 1>>
        OBVIOUS
      <4>1. /\ h + (len - i) + 1 \in 1 .. Len(xs) /\ h + (len - i) < Len(xs)
            /\ j + (len - i) + 1 = lw + (h + (len - i) + 1)
        BY <1>2, <3>1, <3>3, <3>4, SMTT(30)
      <4> QED
        BY <3>4, <3>5, <4>1
    <3>8. j + (len - i) = ly => r = Len(T)
      <4>1. ASSUME j + (len - i) = ly PROVE h + (len - i) = Len(xs)
        <5>1. /\ j = lw + h /\ ly = lw + Len(xs) /\ lw \in Nat /\ Len(xs) \in Nat
              /\ h \in Nat /\ len - i \in Int
          BY <1>2, <3>1, <3>3, <3>4
        <5> HIDE DEF lw, ly
        <5> QED
          BY <4>1, <5>1
      <4> QED
        BY <3>4, <4>1
    <3>9. j + (len - i) <= ly
      BY <1>2, <3>1, <3>3, <3>4
    <3> QED
      BY <3>2, <3>4, <3>6, <3>7, <3>8, <3>9 DEF r, i, len
  <2>3. j <= lw \/ j > lw
    BY <1>2
  <2> QED
    BY <2>1, <2>2, <2>3
<1>5. ys[1] = <<Len(R) + 1, 1>>
  <2>1. 1 \in 1 .. lw
    BY <1>2
  <2> QED
    BY <1>1, <1>2, <2>1
<1> QED
  BY <1>2, <1>4, <1>5 DEF WholeWords, ys, lw, ly

\* The ring and what follows a record after the step.
AtNew(p) == ring'[p % Size]
FollowingNew(p, r) == IF p < head' THEN AtNew(p) = <<r + 1, 1>> ELSE r = Len(records')

\* The words go behind the head and leave those that are there alone.
LEMMA Placed ==
  ASSUME TypeOK, Whole, NEW ws \in Seq(Nat \X Nat), ws # <<>>,
         Avail + Len(ws) <= Size, head' = head + Len(ws), tail' = tail,
         ring' = [c \in DOMAIN ring |-> IF ((c - head) % Size) + 1 <= Len(ws)
                                          THEN ws[((c - head) % Size) + 1] ELSE ring[c]]
  PROVE  /\ ring' \in [0 .. Size - 1 -> Nat \X Nat]
         /\ \A p \in tail .. head - 1 : AtNew(p) = At(p)
         /\ \A j \in 1 .. Len(ws) : AtNew(head + (j - 1)) = ws[j]
<1> DEFINE L == Len(ws)
<1>1. /\ Size \in Nat \ {0} /\ head \in Nat /\ tail \in 0 .. head /\ L \in Nat \ {0}
      /\ head - tail + L <= Size /\ DOMAIN ring = 0 .. Size - 1
  BY RingAssumption DEF TypeOK, Avail, Whole
<1>2. ASSUME NEW c \in 0 .. Size - 1 PROVE ((c - head) % Size) + 1 \in 1 .. Size
  <2>1. c - head \in Int
    BY <1>1
  <2>2. (c - head) % Size \in 0 .. Size - 1
    BY <1>1, <2>1, Division
  <2> QED
    BY <1>1, <2>2
<1>3. ring' \in [0 .. Size - 1 -> Nat \X Nat]
  <2>1. ASSUME NEW c \in 0 .. Size - 1 PROVE ring'[c] \in Nat \X Nat
    <3> DEFINE at1 == ((c - head) % Size) + 1
    <3>1. ring'[c] = IF at1 <= L THEN ws[at1] ELSE ring[c]
      BY <1>1
    <3>2. at1 \in 1 .. Size
      BY <1>2
    <3>3. ring[c] \in Nat \X Nat
      BY DEF Whole
    <3> HIDE DEF at1
    <3>4. at1 <= L => ws[at1] \in Nat \X Nat
      BY <1>1, <3>2
    <3> QED
      BY <3>1, <3>3, <3>4
  <2> QED
    BY <1>1, <2>1
<1>4. ASSUME NEW p \in tail .. head - 1 PROVE AtNew(p) = At(p)
  <2> DEFINE c == p % Size
  <2>0. p \in Nat /\ p \in Int /\ p < head /\ head - p <= Size
    BY <1>1
  <2>1. c \in 0 .. Size - 1
    BY <1>1, <2>0, Division
  <2>2. (c - head) % Size = Size - (head - p)
    BY <1>1, <2>0, Distance
  <2>3. ~(((c - head) % Size) + 1 <= L)
    BY <1>1, <2>2
  <2> QED
    BY <1>1, <2>1, <2>3 DEF At, AtNew
<1>5. ASSUME NEW j \in 1 .. L PROVE AtNew(head + (j - 1)) = ws[j]
  <2> DEFINE p == head + (j - 1)
             c == p % Size
  <2>1. p \in Nat /\ head <= p /\ p - head = j - 1 /\ p - head < Size
    BY <1>1
  <2>2. c \in 0 .. Size - 1
    <3> HIDE DEF p
    <3>1. p \in Int
      BY <2>1
    <3> QED
      BY <1>1, <3>1, Division
  <2>3. (c - head) % Size = j - 1
    <3> HIDE DEF p
    <3> QED
      BY <1>1, <2>1, Distance
  <2>4. ((c - head) % Size) + 1 = j /\ j <= L
    BY <2>3
  <2>5. ring'[c] = ws[j]
    <3> HIDE DEF c
    <3> QED
      BY <1>1, <2>2, <2>4
  <2> QED
    BY <2>5 DEF AtNew
<1> QED
  BY <1>3, <1>4, <1>5

\* What is known of the records that have been there before.
Grown == /\ records' \in Seq(Record) /\ Len(records') >= Len(records)
         /\ \A r \in DOMAIN records : records'[r] = records[r]

LEMMA FollowingKept ==
  ASSUME TypeOK, Whole, NEW ws \in Seq(Nat \X Nat), WholeWords(ws, Len(records), records'),
         head' = head + Len(ws),
         \A p \in tail .. head - 1 : AtNew(p) = At(p),
         \A j \in 1 .. Len(ws) : AtNew(head + (j - 1)) = ws[j],
         NEW p \in tail .. head, NEW r, Following(p, r)
  PROVE  FollowingNew(p, r)
<1>1. head \in Nat /\ tail \in Nat /\ Len(ws) \in Nat \ {0} /\ ws[1] = <<Len(records) + 1, 1>>
  BY WordsThere DEF TypeOK
<1>2. CASE p < head
  <2>1. p \in tail .. head - 1 /\ p < head'
    BY <1>1, <1>2
  <2>2. AtNew(p) = At(p)
    BY <2>1
  <2> QED
    BY <1>2, <2>1, <2>2 DEF Following, FollowingNew
<1>3. CASE p = head
  <2>1. AtNew(head + (1 - 1)) = ws[1] /\ head + (1 - 1) = head
    <3>1. 1 \in 1 .. Len(ws) /\ head + (1 - 1) = head
      BY <1>1
    <3>2. AtNew(head + (1 - 1)) = ws[1]
      BY <3>1, Zenon
    <3> QED
      BY <3>1, <3>2
  <2>2. r = Len(records)
    BY <1>3 DEF Following
  <2> QED
    BY <1>1, <1>3, <2>1, <2>2 DEF FollowingNew
<1> QED
  BY <1>1, <1>2, <1>3

LEMMA WholeKept ==
  ASSUME TypeOK, Whole, NEW ws \in Seq(Nat \X Nat), WholeWords(ws, Len(records), records'),
         Avail + Len(ws) <= Size, head' = head + Len(ws), tail' = tail, Grown,
         ring' = [c \in DOMAIN ring |-> IF ((c - head) % Size) + 1 <= Len(ws)
                                          THEN ws[((c - head) % Size) + 1] ELSE ring[c]]
  PROVE  Whole'
<1> DEFINE L == Len(ws)
<1>1. /\ head \in Nat /\ tail \in 0 .. head /\ L \in Nat \ {0} /\ ws # <<>>
      /\ records \in Seq(Record)
  BY WordsThere DEF TypeOK, Record
<1>2. /\ ring' \in [0 .. Size - 1 -> Nat \X Nat]
      /\ \A p \in tail .. head - 1 : AtNew(p) = At(p)
      /\ \A j \in 1 .. L : AtNew(head + (j - 1)) = ws[j]
  BY <1>1, Placed
<1>3. ASSUME NEW p \in tail .. head - 1
      PROVE  LET r == At(p)[1]
                 i == At(p)[2]
                 len == Length[records'[r].type]
             IN /\ AtNew(p) = At(p) /\ r \in DOMAIN records' /\ i \in 1 .. len
                /\ \A k \in 1 .. len - i : p + k < head' /\ AtNew(p + k) = <<r, i + k>>
                /\ FollowingNew(p + len - i + 1, r)
  <2> DEFINE r == At(p)[1]
             i == At(p)[2]
             len == Length[records'[r].type]
  <2>1. r \in DOMAIN records /\ records'[r] = records[r] /\ r \in DOMAIN records'
    BY <1>1 DEF Whole, Grown
  <2>2. len \in Nat
    BY <2>1, RecordLength DEF Grown
  <2>3. /\ i \in 1 .. len
        /\ \A k \in 1 .. len - i : p + k < head /\ At(p + k) = <<r, i + k>>
        /\ Following(p + len - i + 1, r)
    BY <2>1 DEF Whole, LengthOf
  <2> HIDE DEF r, i, len
  <2>4. ASSUME NEW k \in 1 .. len - i PROVE p + k < head' /\ AtNew(p + k) = <<r, i + k>>
    <3>1. p + k < head /\ At(p + k) = <<r, i + k>>
      BY <2>3
    <3>2. p + k \in tail .. head - 1
      BY <1>1, <2>2, <2>3, <3>1
    <3> QED
      BY <1>1, <1>2, <3>1, <3>2
  <2>5. p + len - i + 1 \in tail .. head
    <3>1. CASE len - i = 0
      BY <1>1, <2>2, <2>3, <3>1
    <3>2. CASE len - i # 0
      <4>1. len - i \in 1 .. len - i
        BY <2>2, <2>3, <3>2
      <4>2. p + (len - i) < head
        BY <2>3, <4>1
      <4> QED
        BY <1>1, <2>2, <2>3, <4>2
    <3> QED
      BY <3>1, <3>2
  <2>6. FollowingNew(p + len - i + 1, r)
    BY <1>2, <2>3, <2>5, FollowingKept
  <2> QED
    BY <1>2, <2>1, <2>3, <2>4, <2>6 DEF r, i, len
<1>4. ASSUME NEW p \in head .. head' - 1
      PROVE  LET r == AtNew(p)[1]
                 i == AtNew(p)[2]
                 len == Length[records'[r].type]
             IN /\ r \in DOMAIN records' /\ i \in 1 .. len
                /\ \A k \in 1 .. len - i : p + k < head' /\ AtNew(p + k) = <<r, i + k>>
                /\ FollowingNew(p + len - i + 1, r)
  <2> DEFINE j == p - head + 1
             r == AtNew(p)[1]
             i == AtNew(p)[2]
             len == Length[records'[r].type]
  <2>1. j \in 1 .. L /\ p = head + (j - 1)
    BY <1>1
  <2>2. AtNew(p) = ws[j]
    BY <1>2, <2>1
  <2>3. /\ r \in DOMAIN records' /\ i \in 1 .. len /\ j + (len - i) <= L
        /\ \A k \in 1 .. len - i : ws[j + k] = <<r, i + k>>
        /\ j + (len - i) < L => ws[j + (len - i) + 1] = <<r + 1, 1>>
        /\ j + (len - i) = L => r = Len(records')
    BY <2>1, <2>2 DEF WholeWords
  <2>4. len \in Nat
    BY <2>3, RecordLength DEF Grown
  <2> HIDE DEF j, r, i, len
  <2>5. ASSUME NEW k \in 1 .. len - i PROVE p + k < head' /\ AtNew(p + k) = <<r, i + k>>
    <3>1. j + k \in 1 .. L /\ p + k = head + ((j + k) - 1)
      BY <1>1, <2>1, <2>3, <2>4
    <3>2. AtNew(p + k) = ws[j + k]
      BY <1>2, <3>1
    <3>3. p + k < head'
      BY <1>1, <3>1
    <3> QED
      BY <2>3, <3>2, <3>3
  <2>6. FollowingNew(p + len - i + 1, r)
    <3> DEFINE q == p + len - i + 1
               m == j + (len - i) + 1
    <3>1. /\ q = head + (m - 1) /\ m \in 1 .. L + 1 /\ (q < head' <=> m <= L)
          /\ (m <= L <=> j + (len - i) < L) /\ (m = L + 1 <=> j + (len - i) = L)
      <4>1. /\ head \in Nat /\ L \in Nat /\ j \in 1 .. L /\ p = head + (j - 1)
            /\ head' = head + L
        BY <1>1, <2>1
      <4>2. len - i \in Nat /\ j + (len - i) <= L /\ len \in Nat /\ i \in Nat
        BY <1>1, <2>1, <2>3, <2>4
      <4> DEFINE d == len - i
      <4>3. p \in Int
        BY <4>1
      <4>4. q = p + d + 1 /\ m = j + d + 1
        BY <4>2, <4>3
      <4>5. d \in Nat /\ j + d <= L
        BY <4>2
      <4> HIDE DEF L, d, q, m
      <4>6. q = head + (m - 1) /\ m \in 1 .. L + 1
        BY <4>1, <4>4, <4>5
      <4>7. (q < head' <=> m <= L) /\ (m <= L <=> j + d < L) /\ (m = L + 1 <=> j + d = L)
        BY <4>1, <4>4, <4>5
      <4> QED
        BY <4>6, <4>7 DEF d
    <3>2. CASE m <= L
      <4>1. m \in 1 .. L
        BY <1>1, <3>1, <3>2
      <4> HIDE DEF q, m
      <4>2. AtNew(q) = ws[m]
        BY <1>2, <3>1, <4>1
      <4>3. ws[m] = <<r + 1, 1>>
        BY <2>3, <3>1, <3>2 DEF m
      <4> QED
        BY <3>1, <3>2, <4>2, <4>3 DEF FollowingNew, q
    <3>3. CASE ~(m <= L)
      <4>1. r = Len(records')
        BY <1>1, <2>3, <3>1, <3>3
      <4> HIDE DEF m
      <4> QED
        BY <3>1, <3>3, <4>1 DEF FollowingNew
    <3> QED
      BY <3>2, <3>3
  <2> QED
    BY <2>3, <2>5, <2>6 DEF j, r, i, len
<1>5. \A p \in tail .. head' - 1 : p \in tail .. head - 1 \/ p \in head .. head' - 1
  BY <1>1
<1>6. ASSUME NEW p \in tail .. head' - 1
      PROVE  LET r == AtNew(p)[1]
                 i == AtNew(p)[2]
                 len == Length[records'[r].type]
             IN /\ r \in DOMAIN records' /\ i \in 1 .. len
                /\ \A k \in 1 .. len - i : p + k < head' /\ AtNew(p + k) = <<r, i + k>>
                /\ FollowingNew(p + len - i + 1, r)
  <2>1. CASE p \in tail .. head - 1
    <3>1. AtNew(p) = At(p)
      BY <1>2, <2>1
    <3> QED
      BY <1>3, <2>1, <3>1
  <2>2. CASE p \in head .. head' - 1
    BY <1>4, <2>2
  <2> QED
    BY <1>5, <2>1, <2>2
<1> QED
  BY <1>2, <1>6 DEF Whole, LengthOf, At, AtNew, Following, FollowingNew

\* A step of the kernel stores whole records, or counts one that has no room.
Stored(ws) ==
  /\ WholeWords(ws, Len(records), records')
  /\ Avail + Len(ws) <= Size /\ head' = head + Len(ws) /\ Grown
  /\ ring' = [c \in DOMAIN ring |-> IF ((c - head) % Size) + 1 <= Len(ws)
                                      THEN ws[((c - head) % Size) + 1] ELSE ring[c]]

LEMMA StoreCases ==
  ASSUME TypeOK, NEW type \in {"sample", "other"}, Store(type)
  PROVE  /\ UNCHANGED readerVars
         /\ UNCHANGED <<ring, head, records>> \/ \E ws \in Seq(Nat \X Nat) : Stored(ws)
<1> DEFINE n == Len(records)
           new == [type |-> type, value |-> IF type = "sample" THEN taken' ELSE 0]
           loss == [type |-> "lost", value |-> missed]
           added == IF missed = 0 THEN <<new>> ELSE <<loss, new>>
           ws == IF missed = 0 THEN Words(n + 1, type)
                               ELSE Words(n + 1, "lost") \o Words(n + 2, type)
           at1(c) == ((c - head) % Size) + 1
<1>1. UNCHANGED readerVars
  BY DEF Store
<1>2. CASE Avail + Len(ws) > Size
  BY <1>1, <1>2 DEF Store
<1>3. CASE ~(Avail + Len(ws) > Size)
  <2>1. /\ records' = records \o added /\ head' = head + Len(ws)
        /\ ring' = [c \in DOMAIN ring |-> IF at1(c) <= Len(ws) THEN ws[at1(c)] ELSE ring[c]]
    BY <1>3 DEF Store
  <2>2. records \in Seq(Record) /\ n \in Nat
    BY DEF TypeOK, Record
  <2>3. new \in Record /\ loss \in Record /\ new.type = type /\ loss.type = "lost"
    <3>1. taken' \in Nat /\ missed \in Nat /\ DOMAIN Length = Kind
      BY Lengths DEF Store, TypeOK
    <3> QED
      BY <3>1 DEF Record, Kind
  <2>4. WholeWords(ws, n, records') /\ Grown
    <3> HIDE DEF new, loss
    <3>1. CASE missed = 0
      <4>1. ws = Words(n + 1, type) /\ records' = Append(records, new)
        BY <2>1, <2>2, <2>3, <3>1
      <4>2. WholeWords(ws, n, records')
        BY <2>2, <2>3, <4>1, OneRecord
      <4>3. Grown
        BY <2>2, <2>3, <4>1 DEF Grown
      <4> QED
        BY <4>2, <4>3
    <3>2. CASE missed # 0
      <4> DEFINE S == Append(records, loss)
                 T == Append(S, new)
                 wl == Words(n + 1, "lost")
                 wn == Words(n + 2, type)
      <4>1. ws = wl \o wn
        BY <3>2
      <4>2. records' = T
        <5>1. records' = records \o <<loss, new>>
          BY <2>1, <3>2
        <5> QED
          BY <2>2, <2>3, <5>1
      <4>3. S \in Seq(Record) /\ Len(S) = n + 1 /\ \A r \in 1 .. n : S[r] = records[r]
        BY <2>2, <2>3
      <4>4. WholeWords(wl, n, S)
        BY <2>2, <2>3, OneRecord
      <4>5. WholeWords(wn, n + 1, T)
        <5>1. Len(S) + 1 = n + 2
          BY <2>2, <4>3
        <5> HIDE DEF S
        <5>2. WholeWords(Words(Len(S) + 1, new.type), Len(S), T)
          BY <2>3, <4>3, OneRecord
        <5> QED
          BY <2>3, <4>3, <5>1, <5>2
      <4>6. T \in Seq(Record) /\ Len(T) = n + 2 /\ \A r \in 1 .. n + 1 : T[r] = S[r]
        <5> HIDE DEF S
        <5> QED
          BY <2>2, <2>3, <4>3
      <4> HIDE DEF S, T, wl, wn
      <4>7. WholeWords(wl \o wn, n, T)
        BY <2>2, <4>3, <4>4, <4>5, <4>6, TwoRecords
      <4>8. Grown
        BY <2>2, <4>2, <4>3, <4>6 DEF Grown
      <4> HIDE DEF ws
      <4> QED
        BY <4>1, <4>2, <4>7, <4>8
    <3> QED
      BY <3>1, <3>2
  <2> HIDE DEF ws
  <2>5. ws \in Seq(Nat \X Nat) /\ Len(ws) \in Nat
    BY <2>4 DEF WholeWords
  <2>6. Avail + Len(ws) <= Size
    BY <1>3, <2>5, RingAssumption DEF Avail, TypeOK
  <2>7. Stored(ws)
    BY <2>1, <2>4, <2>6 DEF Stored
  <2> QED
    BY <1>1, <2>5, <2>7
<1> QED
  BY <1>2, <1>3

\* What the kernel adds changes nothing for the records delivered before.
LEMMA DeliveredKept ==
  ASSUME records \in Seq(Record), Grown, rows' = rows, samples' = samples,
         NEW r \in 0 .. Len(records), Delivered(r)
  PROVE  Delivered(r)'
<1>1. ASSUME NEW q \in 0 .. Len(records) PROVE Before(q)' = Before(q)
  <2>1. \A m \in Nat : m <= q =>
          (m \in DOMAIN records <=> m \in DOMAIN records')
    BY DEF Grown
  <2> QED
    BY <2>1 DEF Before, SampleRecords, Grown
<1>2. Before(r)' = Before(r)
  BY <1>1
<1>3. ASSUME NEW q \in Before(r) PROVE Before(q)' = Before(q)
  <2>1. q \in 0 .. Len(records)
    BY DEF Before, SampleRecords
  <2> QED
    BY <1>1, <2>1
<1> QED
  BY <1>2, <1>3 DEF Delivered

\* Only what is in the ring, the place of the reader and the samples matter.
LEMMA RingSame ==
  ASSUME RingInv, UNCHANGED <<ring, head, records, readerVars, rows>>
  PROVE  RingInv'
<1> USE DEF readerVars
<1>1. \A p : At(p)' = At(p)
  BY DEF At
<1>2. \A r : LengthOf(r)' = LengthOf(r) /\ Before(r)' = Before(r)
  BY DEF LengthOf, Before, SampleRecords
<1>3. \A p, r : Following(p, r)' = Following(p, r)
  BY <1>1 DEF Following
<1>4. Whole'
  <2>1. ring' = ring /\ head' = head /\ records' = records /\ tail' = tail
    OBVIOUS
  <2>2. Whole
    BY DEF RingInv
  <2>3. /\ \A p : AtNew(p) = At(p)
        /\ \A p, r : FollowingNew(p, r) = Following(p, r)
    BY <2>1 DEF AtNew, At, FollowingNew, Following
  <2>4. ASSUME NEW p \in tail .. head - 1
        PROVE  LET r == AtNew(p)[1]
                   i == AtNew(p)[2]
                   len == Length[records'[r].type]
               IN /\ r \in DOMAIN records' /\ i \in 1 .. len
                  /\ \A k \in 1 .. len - i : p + k < head' /\ AtNew(p + k) = <<r, i + k>>
                  /\ FollowingNew(p + len - i + 1, r)
    BY <2>1, <2>2, <2>3 DEF Whole, LengthOf
  <2> QED
    BY <2>1, <2>2, <2>4 DEF Whole, LengthOf, At, AtNew, Following, FollowingNew
<1>5. \A r : Delivered(r) => Delivered(r)'
  BY <1>2 DEF Delivered
<1>6. \A r, k : Within(r, k) => Within(r, k)'
  BY <1>1, <1>2, <1>3 DEF Within
<1>7. InStep'
  BY <1>1, <1>3, <1>5, <1>6 DEF RingInv, InStep
<1> QED
  BY <1>4, <1>7 DEF RingInv, SampleTypes

LEMMA StoreRing ==
  ASSUME TypeOK, RingInv, NEW type \in {"sample", "other"}, Store(type), rows' = rows
  PROVE  RingInv'
<1>1. CASE UNCHANGED <<ring, head, records>>
  BY <1>1, StoreCases, RingSame
<1>2. CASE \E ws \in Seq(Nat \X Nat) : Stored(ws)
  <2>1. PICK ws \in Seq(Nat \X Nat) : Stored(ws)
    BY <1>2
  <2>2. /\ WholeWords(ws, Len(records), records') /\ Avail + Len(ws) <= Size
        /\ head' = head + Len(ws) /\ Grown /\ ws # <<>>
        /\ ring' = [c \in DOMAIN ring |-> IF ((c - head) % Size) + 1 <= Len(ws)
                                            THEN ws[((c - head) % Size) + 1] ELSE ring[c]]
    BY <2>1 DEF Stored, WholeWords
  <2>3. /\ tail' = tail /\ todo' = todo /\ copied' = copied /\ got' = got
        /\ samples' = samples
    BY StoreCases DEF readerVars
  <2>4. Whole'
    BY <2>2, <2>3, WholeKept DEF RingInv
  <2>5. /\ \A p \in tail .. head - 1 : AtNew(p) = At(p)
        /\ \A j \in 1 .. Len(ws) : AtNew(head + (j - 1)) = ws[j]
    BY <2>2, <2>3, Placed DEF RingInv
  <2>6. /\ head \in Nat /\ tail \in 0 .. head /\ records \in Seq(Record)
        /\ Len(ws) \in Nat \ {0}
    BY <2>2 DEF TypeOK, Record
  <2>7. ASSUME NEW r, Following(tail, r) PROVE Following(tail, r)'
    <3>1. FollowingNew(tail, r)
      BY <2>2, <2>5, <2>6, <2>7, FollowingKept, SMTT(30) DEF RingInv
    <3> QED
      BY <2>3, <3>1 DEF FollowingNew, Following, AtNew, At
  <2>8. ASSUME tail < head PROVE tail < head' /\ At(tail)' = At(tail)
    <3>1. tail \in tail .. head - 1 /\ tail < head'
      BY <2>2, <2>6, <2>8
    <3>2. AtNew(tail) = At(tail)
      BY <2>5, <3>1
    <3> QED
      BY <2>3, <3>1, <3>2 DEF AtNew, At
  <2>9. \A r \in DOMAIN records :
          r \in DOMAIN records' /\ records'[r] = records[r] /\ LengthOf(r)' = LengthOf(r)
    BY <2>2, <2>6 DEF Grown, LengthOf
  <2>10. ASSUME NEW r \in 0 .. Len(records), Delivered(r) PROVE Delivered(r)'
    BY <2>2, <2>3, <2>6, <2>10, DeliveredKept
  <2>11. ASSUME NEW r \in DOMAIN records, NEW k, Within(r, k) PROVE Within(r, k)'
    BY <2>3, <2>7, <2>8, <2>9, <2>11 DEF Within
  <2>12. InStep'
    <3>1. CASE /\ todo = <<>> /\ got = <<>>
               /\ \E r \in 0 .. Len(records) : Following(tail, r) /\ Delivered(r)
      <4>1. PICK r \in 0 .. Len(records) : Following(tail, r) /\ Delivered(r)
        BY <3>1
      <4>2. r \in 0 .. Len(records')
        BY <2>2, <2>6 DEF Grown
      <4> QED
        BY <2>3, <2>7, <2>10, <3>1, <4>1, <4>2 DEF InStep
    <3>2. CASE /\ todo = <<Header>>
               /\ \E r \in DOMAIN records :
                    /\ tail < head /\ At(tail) = <<r, 1>> /\ Delivered(r - 1)
                    /\ got = IF copied THEN <<<<r, 1>>>> ELSE <<>>
      <4>1. PICK r \in DOMAIN records :
                    /\ tail < head /\ At(tail) = <<r, 1>> /\ Delivered(r - 1)
                    /\ got = IF copied THEN <<<<r, 1>>>> ELSE <<>>
        BY <3>2
      <4>2. r \in DOMAIN records' /\ r - 1 \in 0 .. Len(records)
        BY <2>6, <2>9
      <4>3. Delivered(r - 1)'
        BY <2>10, <4>1, <4>2
      <4> QED
        BY <2>3, <2>8, <3>2, <4>1, <4>2, <4>3 DEF InStep
    <3>3. CASE \E r \in DOMAIN records : \E k \in 1 .. 5 : Within(r, k) /\ Delivered(r - 1)
      <4>1. PICK r \in DOMAIN records, k \in 1 .. 5 : Within(r, k) /\ Delivered(r - 1)
        BY <3>3
      <4>2. r \in DOMAIN records' /\ r - 1 \in 0 .. Len(records)
        BY <2>6, <2>9
      <4>3. Delivered(r - 1)' /\ Within(r, k)'
        BY <2>10, <2>11, <4>1, <4>2
      <4> QED
        BY <4>2, <4>3 DEF InStep
    <3> QED
      BY <3>1, <3>2, <3>3 DEF RingInv, InStep
  <2> QED
    BY <2>3, <2>4, <2>12 DEF RingInv, SampleTypes
<1> QED
  BY <1>1, <1>2, StoreCases
-----------------------------------------------------------------------------
(* The reader keeps in step with the records.                              *)

\* The parts l begin with the words s, each where the one before it ends; the last ends
\* with the record, of length len.
Fits(l, s, len) ==
  /\ l \in Seq(Parts) /\ Len(l) \in 1 .. 4 /\ len \in Nat
  /\ s \in Seq(Nat) /\ Len(s) = Len(l) + 1 /\ s[1] = 2 /\ s[Len(l) + 1] = len + 1
  /\ \A k \in 1 .. Len(l) + 1 : s[k] \in 2 .. len + 1
  /\ \A k \in 1 .. Len(l) : s[k + 1] = s[k] + l[k].len /\ l[k].op # "header" /\ l[k].len \in Nat

LEMMA Layouts ==
  ASSUME NEW type \in Kind
  PROVE  /\ Fits(Layout(type), Starts[type], Length[type])
         /\ type = "sample" => \A k \in 1 .. Len(Layout(type)) :
                                 Layout(type)[k].op = "read" /\ Layout(type)[k].len > 0
<1> DEFINE l == Layout(type)
           s == Starts[type]
<1>0. l \in Seq(Parts)
  BY LayoutTyped
<1>1. CASE type = "sample"
  <2>1. /\ l = <<Read(3), Read(1), Read(2), Read(Counters)>>
        /\ s = <<2, 5, 6, 8, 8 + Counters>>
    BY <1>1, Lengths, RingAssumption DEF Layout, Starts, HeaderCount
  <2>2. /\ Read(3).op = "read" /\ Read(1).op = "read" /\ Read(2).op = "read"
        /\ Read(Counters).op = "read" /\ Read(3).len = 3 /\ Read(1).len = 1 /\ Read(2).len = 2
        /\ Read(Counters).len = Counters
    BY DEF Read
  <2> HIDE DEF l, s
  <2>3. Fits(l, s, 7 + Counters)
    BY <1>0, <2>1, <2>2, RingAssumption DEF Fits
  <2>4. \A k \in 1 .. Len(l) : l[k].op = "read" /\ l[k].len > 0
    BY <2>1, <2>2, RingAssumption
  <2>5. Length[type] = 7 + Counters
    BY <1>1, Lengths
  <2> QED
    BY <2>3, <2>4, <2>5 DEF l, s
<1>2. CASE type = "lost"
  <2>1. l = <<Skip(1), Read(1), Skip(0)>> /\ s = <<2, 3, 4, 4>>
    BY <1>2 DEF Layout, LostLayout, LostLen, Starts
  <2>2. /\ Skip(1).op = "skip" /\ Read(1).op = "read" /\ Skip(0).op = "skip"
        /\ Skip(1).len = 1 /\ Read(1).len = 1 /\ Skip(0).len = 0
    BY DEF Read, Skip
  <2> HIDE DEF l, s
  <2>3. Fits(l, s, 3)
    BY <1>0, <2>1, <2>2 DEF Fits
  <2>4. Length[type] = 3
    BY <1>2, Lengths
  <2> QED
    BY <1>2, <2>3, <2>4 DEF l, s
<1>3. CASE type = "other"
  <2>1. l = <<Skip(OtherLen - 1)>> /\ s = <<2, OtherLen + 1>>
    BY <1>3 DEF Layout, OtherLayout, Starts
  <2>2. Skip(OtherLen - 1).op = "skip" /\ Skip(OtherLen - 1).len = OtherLen - 1
    BY DEF Skip
  <2> HIDE DEF l, s
  <2>3. Fits(l, s, OtherLen)
    BY <1>0, <2>1, <2>2, RingAssumption DEF Fits
  <2>4. Length[type] = OtherLen
    BY <1>3, Lengths
  <2> QED
    BY <1>3, <2>3, <2>4 DEF l, s
<1> QED
  BY <1>1, <1>2, <1>3 DEF Kind

\* What is left of a layout.
LEMMA Rests ==
  ASSUME NEW l \in Seq(Parts), NEW k \in 1 .. Len(l) + 1
  PROVE  LET rest == SubSeq(l, k, Len(l))
         IN /\ rest = <<>> <=> k = Len(l) + 1
            /\ rest # <<>> => /\ k \in 1 .. Len(l) /\ Head(rest) = l[k]
                              /\ Tail(rest) = SubSeq(l, k + 1, Len(l))
            /\ SubSeq(l, 1, Len(l)) = l
<1> DEFINE rest == SubSeq(l, k, Len(l))
           next == SubSeq(l, k + 1, Len(l))
<1>1. CASE k = Len(l) + 1
  BY <1>1, SubSeqFull
<1>2. CASE k # Len(l) + 1
  <2>1. k \in 1 .. Len(l)
    BY <1>2
  <2>2. Len(l) \in k .. Len(l)
    BY <2>1
  <2>3. Head(rest) = l[k] /\ Tail(rest) = next
    BY <2>1, <2>2, HeadTailOfSubSeq
  <2>4. rest # <<>>
    <3>1. Len(rest) = Len(l) - k + 1
      BY <2>1
    <3>2. Len(rest) # 0
      BY <2>1, <3>1
    <3> HIDE DEF rest
    <3> QED
      BY <3>2
  <2> QED
    BY <1>2, <2>1, <2>3, <2>4, SubSeqFull
<1> QED
  BY <1>1, <1>2

\* The reader goes on within the record whose n-th word comes next.
LEMMA Moved ==
  ASSUME TypeOK, Whole, tail < head, NEW r, NEW n, At(tail) = <<r, n>>,
         NEW m \in Nat \ {0}, n + m <= LengthOf(r) + 1
  PROVE  /\ r \in DOMAIN records /\ n \in 1 .. LengthOf(r) /\ LengthOf(r) \in Nat
         /\ tail + m <= head
         /\ IF n + m <= LengthOf(r) THEN tail + m < head /\ At(tail + m) = <<r, n + m>>
                                    ELSE Following(tail + m, r)
         /\ \A j \in 0 .. m - 1 : At(tail + j) = <<r, n + j>>
<1> DEFINE len == LengthOf(r)
<1>1. tail \in Nat /\ head \in Nat /\ tail \in tail .. head - 1 /\ records \in Seq(Record)
  BY DEF TypeOK, Record
<1>2. At(tail)[1] = r /\ At(tail)[2] = n
  OBVIOUS
<1>3. /\ r \in DOMAIN records /\ n \in 1 .. len
      /\ \A k \in 1 .. len - n : tail + k < head /\ At(tail + k) = <<r, n + k>>
      /\ Following(tail + len - n + 1, r)
  BY <1>1, <1>2 DEF Whole
<1>4. len \in Nat
  BY <1>1, <1>3, RecordLength DEF LengthOf
<1> HIDE DEF len
<1>5. \A j \in 0 .. m - 1 : At(tail + j) = <<r, n + j>>
  <2> SUFFICES ASSUME NEW j \in 0 .. m - 1 PROVE At(tail + j) = <<r, n + j>>
    OBVIOUS
  <2>1. CASE j = 0
    BY <1>1, <1>3, <2>1
  <2>2. CASE j # 0
    <3>1. j \in 1 .. len - n
      BY <1>3, <1>4, <2>2 DEF len
    <3> QED
      BY <1>3, <3>1
  <2> QED
    BY <2>1, <2>2
<1>6. CASE n + m <= len
  <2>1. m \in 1 .. len - n
    BY <1>3, <1>4, <1>6
  <2>2. tail + m < head /\ At(tail + m) = <<r, n + m>>
    BY <1>3, <2>1
  <2>3. tail + m <= head
    BY <1>1, <2>2
  <2> QED
    BY <1>3, <1>4, <1>5, <1>6, <2>2, <2>3 DEF len
<1>7. CASE ~(n + m <= len)
  <2>1. n + m = len + 1
    BY <1>3, <1>4, <1>7 DEF len
  <2>2. tail + m = tail + len - n + 1
    BY <1>1, <1>3, <1>4, <2>1
  <2>3. tail + m <= head
    <3>1. CASE n = len
      BY <1>1, <1>4, <2>2, <3>1
    <3>2. CASE n # len
      <4>1. len - n \in 1 .. len - n
        BY <1>3, <1>4, <3>2
      <4>2. tail + (len - n) < head
        BY <1>3, <4>1
      <4> QED
        BY <1>1, <1>3, <1>4, <2>2, <4>2
    <3> QED
      BY <3>1, <3>2
  <2> QED
    BY <1>3, <1>4, <1>5, <1>7, <2>2, <2>3 DEF len
<1> QED
  BY <1>6, <1>7

\* The r-th record comes next, from its n-th word on, at place p.
Comes(p, r, n) ==
  IF n <= LengthOf(r) THEN p < head /\ At(p) = <<r, n>> ELSE Following(p, r)

\* What is left of the parts l of a record: all, or a first part and the others.
Left(l, s, full, k, rest) ==
  /\ k \in 1 .. 5 /\ s[k] \in 2 .. full + 1 /\ full \in Nat
  /\ rest = <<>> => s[k] = full + 1
  /\ rest # <<>> =>
       /\ k \in 1 .. Len(l) /\ Head(rest) = l[k]
       /\ Head(rest).len \in Nat /\ Head(rest).op # "header"
       /\ k + 1 \in DOMAIN s /\ k + 1 \in 1 .. 5
       /\ Tail(rest) = SubSeq(l, k + 1, Len(l))
       /\ s[k + 1] = s[k] + Head(rest).len /\ s[k + 1] <= full + 1

LEMMA PartOf ==
  ASSUME NEW l, NEW s, NEW full, Fits(l, s, full), NEW k \in DOMAIN s
  PROVE  Left(l, s, full, k, SubSeq(l, k, Len(l)))
<1> DEFINE rest == SubSeq(l, k, Len(l))
<1>1. /\ Len(l) \in 1 .. 4 /\ l \in Seq(Parts) /\ full \in Nat
      /\ k \in 1 .. Len(l) + 1
  BY DEF Fits
<1>2. s[k] \in 2 .. full + 1 /\ k \in 1 .. 5
  <2>1. \A i \in 1 .. Len(l) + 1 : s[i] \in 2 .. full + 1
    BY DEF Fits
  <2>2. s[k] \in 2 .. full + 1
    BY <1>1, <2>1
  <2>3. k \in 1 .. 5
    <3>1. \A m \in 1 .. 4 : \A i \in 1 .. m + 1 : i \in 1 .. 5
      OBVIOUS
    <3> QED
      BY <1>1, <3>1
  <2> QED
    BY <2>2, <2>3
<1>3. /\ rest = <<>> => k = Len(l) + 1
      /\ rest # <<>> => /\ k \in 1 .. Len(l) /\ Head(rest) = l[k]
                        /\ Tail(rest) = SubSeq(l, k + 1, Len(l))
  BY <1>1, Rests
<1> HIDE DEF rest
<1>4. ASSUME rest = <<>> PROVE s[k] = full + 1
  BY <1>3, <1>4 DEF Fits
<1>5. ASSUME rest # <<>>
      PROVE  /\ Head(rest).len \in Nat /\ Head(rest).op # "header"
             /\ k + 1 \in DOMAIN s /\ k + 1 \in 1 .. 5
             /\ s[k + 1] = s[k] + Head(rest).len /\ s[k + 1] <= full + 1
  <2>1. k \in 1 .. Len(l) /\ Head(rest) = l[k]
    BY <1>3, <1>5
  <2>2. /\ s[k + 1] = s[k] + Head(rest).len
        /\ Head(rest).len \in Nat /\ Head(rest).op # "header"
    BY <2>1 DEF Fits
  <2>3. k + 1 \in 1 .. Len(l) + 1
    BY <1>1, <2>1
  <2>4. s[k + 1] \in 2 .. full + 1 /\ k + 1 \in DOMAIN s
    BY <1>1, <2>3 DEF Fits
  <2>5. k + 1 \in 1 .. 5
    <3>1. \A m \in 1 .. 4 : \A i \in 1 .. m : i + 1 \in 1 .. 5
      OBVIOUS
    <3> QED
      BY <1>1, <2>1, <3>1
  <2>6. s[k + 1] <= full + 1
    BY <1>1, <2>4
  <2> QED
    BY <2>2, <2>4, <2>5, <2>6
<1>6. Left(l, s, full, k, rest)
  BY <1>1, <1>2, <1>3, <1>4, <1>5 DEF Left
<1> QED
  BY <1>6 DEF rest

\* The part of length len is in the ring, and what comes next follows it.
LEMMA PartThere ==
  ASSUME TypeOK, Whole, NEW r, NEW n, NEW len \in Nat, LengthOf(r) \in Nat,
         n \in 2 .. LengthOf(r) + 1, n + len <= LengthOf(r) + 1, Comes(tail, r, n)
  PROVE  /\ tail + len <= head /\ Comes(tail + len, r, n + len)
         /\ \A j \in 0 .. len - 1 : At(tail + j) = <<r, n + j>>
<1>1. tail \in 0 .. head /\ head \in Nat
  BY DEF TypeOK
<1>2. CASE len = 0
  <2>1. tail + len = tail /\ n + len = n /\ 0 .. len - 1 = {}
    BY <1>1, <1>2
  <2> QED
    BY <1>1, <2>1
<1>3. CASE len # 0
  <2>1. n <= LengthOf(r) /\ len \in Nat \ {0}
    BY <1>3
  <2>2. tail < head /\ At(tail) = <<r, n>>
    BY <2>1 DEF Comes
  <2> QED
    BY <2>1, <2>2, Moved DEF Comes
<1> QED
  BY <1>2, <1>3

\* The copies of read_buffer are sequences of words.
LEMMA CopyTyped ==
  ASSUME TypeOK, Whole, NEW len \in Nat, len <= Avail
  PROVE  CopyBeginning(len) \in Seq(Nat \X Nat) /\ CopyLeftover(len) \in Seq(Nat \X Nat)
<1> DEFINE c == tail % Size
           part == Part(len)
<1>1. /\ Size \in Nat \ {0} /\ tail \in Nat /\ len <= Size /\ tail \in Int
      /\ ring \in [0 .. Size - 1 -> Nat \X Nat]
  BY RingAssumption DEF TypeOK, Avail, Whole
<1>2. c \in 0 .. Size - 1
  BY <1>1, Division
<1>3. part = IF Size - c <= len THEN Size - c ELSE len
  <2>1. Size - c \in Int /\ len \in Int
    BY <1>1, <1>2
  <2> HIDE DEF c
  <2>2. Min({Size - c, len}) = IF Size - c <= len THEN Size - c ELSE len
    BY <2>1 DEF Min
  <2> QED
    BY <2>2 DEF Part, c
<1>4. /\ CopyBeginning(len) = [i \in 1 .. part |-> ring[c + i - 1]]
      /\ CopyLeftover(len) = [i \in 1 .. len - part |-> ring[i - 1]]
  BY DEF CopyBeginning, CopyLeftover
<1> HIDE DEF c, part
<1>5. part \in 0 .. len /\ c + part <= Size
  BY <1>1, <1>2, <1>3
<1>6. /\ \A i \in 1 .. part : c + i - 1 \in 0 .. Size - 1
      /\ \A i \in 1 .. len - part : i - 1 \in 0 .. Size - 1
  BY <1>1, <1>2, <1>5
<1>7. CopyBeginning(len) \in Seq(Nat \X Nat)
  BY <1>1, <1>4, <1>5, <1>6
<1>8. len - part \in Nat
  BY <1>5
<1>9. CopyLeftover(len) \in Seq(Nat \X Nat)
  <2> DEFINE rest == len - part
  <2>1. \A i \in 1 .. rest : ring[i - 1] \in Nat \X Nat
    BY <1>1, <1>6
  <2>2. CopyLeftover(len) = [i \in 1 .. rest |-> ring[i - 1]] /\ rest \in Nat
    BY <1>4, <1>8
  <2> HIDE DEF rest
  <2> QED
    BY <2>1, <2>2
<1> QED
  BY <1>7, <1>9

\* The two copies of read_buffer together are what is in the ring, wrapped or not.
LEMMA CopyContents ==
  ASSUME TypeOK, Whole, NEW len \in Nat \ {0}, len <= Avail
  PROVE  LET both == CopyBeginning(len) \o CopyLeftover(len)
         IN /\ both \in Seq(Nat \X Nat) /\ Len(both) = len
            /\ \A j \in 1 .. len : both[j] = At(tail + (j - 1))
<1> DEFINE c == tail % Size
           part == Part(len)
           b == CopyBeginning(len)
           e == CopyLeftover(len)
<1>1. /\ Size \in Nat \ {0} /\ tail \in Nat /\ len <= Size
      /\ ring \in [0 .. Size - 1 -> Nat \X Nat]
  BY RingAssumption DEF TypeOK, Avail, Whole
<1>2. c \in 0 .. Size - 1
  <2>1. tail \in Int
    BY <1>1
  <2> QED
    BY <1>1, <2>1, Division
<1>3. part = IF Size - c <= len THEN Size - c ELSE len
  <2>1. Size - c \in Int /\ len \in Int
    BY <1>1, <1>2
  <2> HIDE DEF c
  <2>2. Min({Size - c, len}) = IF Size - c <= len THEN Size - c ELSE len
    BY <2>1 DEF Min
  <2> QED
    BY <2>2 DEF Part, c
<1>4. b = [i \in 1 .. part |-> ring[c + i - 1]] /\ e = [i \in 1 .. len - part |-> ring[i - 1]]
  BY DEF CopyBeginning, CopyLeftover
<1>5. \A j \in 0 .. Size - 1 : At(tail + j) = IF c + j < Size THEN ring[c + j] ELSE ring[c + j - Size]
  BY <1>1, Further DEF At
<1> HIDE DEF c, part, b, e
<1>6. part \in 1 .. len /\ c + part <= Size /\ (part < len => c + part = Size)
  BY <1>1, <1>2, <1>3
<1>7. /\ b \in Seq(Nat \X Nat) /\ Len(b) = part
      /\ \A i \in 1 .. part : b[i] = ring[c + i - 1]
  <2>1. \A i \in 1 .. part : c + i - 1 \in 0 .. Size - 1
    BY <1>1, <1>2, <1>6
  <2>2. \A i \in 1 .. part : ring[c + i - 1] \in Nat \X Nat
    BY <1>1, <2>1
  <2>3. part \in Nat /\ b = [i \in 1 .. part |-> ring[c + i - 1]]
    BY <1>4, <1>6
  <2> QED
    BY <2>2, <2>3, SMTT(30)
<1>8. /\ e \in Seq(Nat \X Nat) /\ Len(e) = len - part
      /\ \A i \in 1 .. len - part : e[i] = ring[i - 1]
  <2> DEFINE rest == len - part
  <2>1. \A i \in 1 .. rest : i - 1 \in 0 .. Size - 1
    BY <1>1, <1>6
  <2>2. \A i \in 1 .. rest : ring[i - 1] \in Nat \X Nat
    BY <1>1, <2>1
  <2>3. rest \in Nat /\ e = [i \in 1 .. rest |-> ring[i - 1]]
    BY <1>4, <1>6
  <2> HIDE DEF rest
  <2>4. e \in Seq(Nat \X Nat) /\ Len(e) = rest /\ \A i \in 1 .. rest : e[i] = ring[i - 1]
    BY <2>2, <2>3, SMTT(30)
  <2> QED
    BY <2>4 DEF rest
<1>9. /\ b \o e \in Seq(Nat \X Nat) /\ Len(b \o e) = Len(b) + Len(e)
      /\ \A i \in 1 .. Len(b) + Len(e) : (b \o e)[i] = IF i <= Len(b) THEN b[i] ELSE e[i - Len(b)]
  BY <1>7, <1>8, ConcatProperties
<1>10. ASSUME NEW j \in 1 .. len PROVE (b \o e)[j] = At(tail + (j - 1))
  <2>1. (b \o e)[j] = IF j <= part THEN b[j] ELSE e[j - part]
    <3>1. j \in 1 .. Len(b) + Len(e) /\ Len(b) = part
      BY <1>6, <1>7, <1>8
    <3> QED
      BY <1>9, <3>1
  <2>2. j - 1 \in 0 .. Size - 1
    BY <1>1
  <2>3. At(tail + (j - 1)) = IF c + (j - 1) < Size THEN ring[c + (j - 1)] ELSE ring[c + (j - 1) - Size]
    BY <1>5, <2>2
  <2>4. CASE j <= part
    <3>1. c + (j - 1) < Size /\ c + j - 1 = c + (j - 1) /\ j \in 1 .. part
      BY <1>1, <1>2, <1>6, <2>4
    <3> QED
      BY <1>7, <2>1, <2>3, <2>4, <3>1
  <2>5. CASE ~(j <= part)
    <3>1. /\ ~(c + (j - 1) < Size) /\ j - part \in 1 .. len - part
          /\ c + (j - 1) - Size = (j - part) - 1
      BY <1>1, <1>2, <1>6, <2>5
    <3> QED
      BY <1>8, <2>1, <2>3, <2>5, <3>1
  <2> QED
    BY <2>4, <2>5
<1>11. Len(b \o e) = len
  BY <1>6, <1>7, <1>8, <1>9
<1> QED
  BY <1>9, <1>10, <1>11 DEF b, e

\* Reading on leaves the rest of the ring as it is.
LEMMA WholeAhead ==
  ASSUME TypeOK, Whole, UNCHANGED <<ring, head, records>>, tail' \in tail .. head
  PROVE  Whole'
<1>1. ring' = ring /\ head' = head /\ records' = records
  OBVIOUS
<1>2. /\ \A p : AtNew(p) = At(p)
      /\ \A p, r : FollowingNew(p, r) = Following(p, r)
  BY <1>1 DEF AtNew, At, FollowingNew, Following
<1>3. \A p \in tail' .. head' - 1 : p \in tail .. head - 1
  BY <1>1 DEF TypeOK
<1>4. ASSUME NEW p \in tail' .. head' - 1
      PROVE  LET r == AtNew(p)[1]
                 i == AtNew(p)[2]
                 len == Length[records'[r].type]
             IN /\ r \in DOMAIN records' /\ i \in 1 .. len
                /\ \A k \in 1 .. len - i : p + k < head' /\ AtNew(p + k) = <<r, i + k>>
                /\ FollowingNew(p + len - i + 1, r)
  <2>1. p \in tail .. head - 1
    BY <1>3
  <2> QED
    BY <1>1, <1>2, <2>1 DEF Whole, LengthOf
<1>5. ring' \in [0 .. Size - 1 -> Nat \X Nat]
  BY <1>1 DEF Whole
<1> QED
  BY <1>4, <1>5 DEF Whole, LengthOf, At, AtNew, Following, FollowingNew

LEMMA DeliveredSame ==
  ASSUME UNCHANGED <<records, rows, samples>>, NEW r, Delivered(r)
  PROVE  Delivered(r)'
<1>1. \A q : Before(q)' = Before(q)
  BY DEF Before, SampleRecords
<1> QED
  BY <1>1 DEF Delivered

\* A record is begun: the word at the tail is the first of the next.
LEMMA BeginRing ==
  ASSUME TypeOK, Reading, RingInv, BeginRecord, rows' = rows
  PROVE  RingInv'
<1>1. /\ todo = <<>> /\ got = <<>> /\ Avail >= 1 /\ ~copied /\ todo' = <<Header>>
      /\ tail' = tail /\ copied' = copied /\ got' = got /\ samples' = samples
      /\ ring' = ring /\ head' = head /\ records' = records
  BY DEF BeginRecord, Reading, ToRead, kernelVars
<1>2. tail \in 0 .. head /\ head \in Nat /\ tail < head /\ records \in Seq(Record)
  BY <1>1 DEF TypeOK, Avail, Record
<1>3. PICK r \in 0 .. Len(records) : Following(tail, r) /\ Delivered(r)
  <2>1. todo # <<Header>>
    BY <1>1
  <2>2. \A q, k : ~Within(q, k)
    BY <1>1 DEF Within
  <2> QED
    BY <2>1, <2>2 DEF RingInv, InStep
<1>4. At(tail) = <<r + 1, 1>>
  BY <1>2, <1>3 DEF Following
<1>5. r + 1 \in DOMAIN records
  <2>1. tail \in tail .. head - 1 /\ At(tail)[1] = r + 1
    BY <1>2, <1>4
  <2> QED
    BY <2>1 DEF RingInv, Whole
<1>6. Delivered((r + 1) - 1)'
  <2>1. (r + 1) - 1 = r
    OBVIOUS
  <2> QED
    BY <1>1, <1>3, <2>1, DeliveredSame
<1>7. At(tail)' = <<r + 1, 1>> /\ tail' < head'
  BY <1>1, <1>2, <1>4 DEF At
<1>8. InStep'
  BY <1>1, <1>5, <1>6, <1>7 DEF InStep
<1>9. Whole'
  BY <1>1, <1>2, WholeAhead DEF RingInv
<1> QED
  BY <1>1, <1>8, <1>9 DEF RingInv, SampleTypes

\* What is known within the r-th record, of whose parts the k-th, from its n-th
\* word on and of length len, is the next, if there is one.
Ahead(r, k, n, len) ==
  /\ records[r].type \in Kind
  /\ LengthOf(r) \in Nat \ {0} /\ LengthOf(r) = Length[records[r].type]
  /\ k \in 1 .. 5 /\ n \in 2 .. LengthOf(r) + 1 /\ Comes(tail, r, n)
  /\ todo = <<>> => n = LengthOf(r) + 1
  /\ todo # <<>> =>
       /\ len \in Nat /\ Head(todo).op # "header"
       /\ records[r].type = "sample" => Head(todo).op = "read" /\ len > 0
       /\ k + 1 \in DOMAIN Starts[records[r].type] /\ k + 1 \in 1 .. 5
       /\ Tail(todo) = SubSeq(Layout(records[r].type), k + 1, Len(Layout(records[r].type)))
       /\ Starts[records[r].type][k + 1] = n + len /\ n + len <= LengthOf(r) + 1
       /\ tail + len <= head /\ Comes(tail + len, r, n + len)
       /\ \A j \in 0 .. len - 1 : At(tail + j) = <<r, n + j>>

LEMMA WithinFacts ==
  ASSUME TypeOK, Whole, NEW r \in DOMAIN records, NEW k, Within(r, k)
  PROVE  Ahead(r, k, Starts[records[r].type][k], Head(todo).len)
<1> DEFINE type == records[r].type
           l == Layout(type)
           s == Starts[type]
           n == s[k]
           len == Head(todo).len
           full == LengthOf(r)
<1>1. type \in Kind /\ full = Length[type] /\ full \in Nat \ {0}
  BY RecordLength DEF TypeOK, Record, LengthOf
<1>2. /\ Fits(l, s, full)
      /\ type = "sample" => \A i \in 1 .. Len(l) : l[i].op = "read" /\ l[i].len > 0
  BY <1>1, Layouts
<1>3. k \in DOMAIN s /\ todo = SubSeq(l, k, Len(l)) /\ Comes(tail, r, n)
  BY DEF Within, Comes
<1> HIDE DEF type, l, s, full
<1>4. /\ k \in 1 .. 5 /\ n \in 2 .. full + 1
      /\ todo = <<>> => n = full + 1
      /\ todo # <<>> =>
           /\ k \in 1 .. Len(l) /\ Head(todo) = l[k]
           /\ len \in Nat /\ Head(todo).op # "header"
           /\ k + 1 \in DOMAIN s /\ k + 1 \in 1 .. 5
           /\ Tail(todo) = SubSeq(l, k + 1, Len(l))
           /\ s[k + 1] = n + len /\ s[k + 1] <= full + 1
  <2>1. Fits(l, s, full) /\ k \in DOMAIN s /\ todo = SubSeq(l, k, Len(l))
    BY <1>2, <1>3
  <2> HIDE DEF n, len
  <2>2. Left(l, s, full, k, todo)
    BY <2>1, PartOf
  <2> QED
    BY <2>2 DEF n, len, Left
<1> HIDE DEF n, len
<1>5. ASSUME todo # <<>>
      PROVE  /\ type = "sample" => Head(todo).op = "read" /\ len > 0
             /\ tail + len <= head /\ Comes(tail + len, r, n + len)
             /\ \A j \in 0 .. len - 1 : At(tail + j) = <<r, n + j>>
  <2>1. len \in Nat /\ n + len <= full + 1 /\ k \in 1 .. Len(l) /\ Head(todo) = l[k]
    BY <1>4, <1>5
  <2>2. type = "sample" => Head(todo).op = "read" /\ len > 0
    BY <1>2, <2>1 DEF len
  <2> QED
    BY <1>1, <1>3, <1>4, <2>1, <2>2, PartThere DEF full
<1> QED
  BY <1>1, <1>3, <1>4, <1>5 DEF Ahead, type, l, s, full, n, len

\* The first disjuncts of InStep, with the reader of a header or of a later part.
AtHeader(r) ==
  /\ todo = <<Header>> /\ r \in DOMAIN records
  /\ tail < head /\ At(tail) = <<r, 1>> /\ Delivered(r - 1)
  /\ got = IF copied THEN <<<<r, 1>>>> ELSE <<>>
InRecord(r, k) == r \in DOMAIN records /\ k \in 1 .. 5 /\ Within(r, k) /\ Delivered(r - 1)

LEMMA InStepCases ==
  ASSUME InStep, todo # <<>>
  PROVE  (\E r : AtHeader(r)) \/ (\E r, k : InRecord(r, k))
BY DEF InStep, AtHeader, InRecord

\* What is read is added to what was read of the record.
LEMMA CopyRing ==
  ASSUME TypeOK, Reading, RingInv, Copy, rows' = rows
  PROVE  RingInv'
<1> DEFINE len == Head(todo).len
           both == CopyBeginning(len) \o CopyLeftover(len)
<1>1. /\ todo # <<>> /\ Head(todo).op # "skip" /\ ~copied /\ Avail >= len /\ copied' = TRUE
      /\ got' = got \o CopyBeginning(len) \o CopyLeftover(len)
      /\ tail' = tail /\ todo' = todo /\ samples' = samples
      /\ ring' = ring /\ head' = head /\ records' = records
  BY DEF Copy, ToRead, kernelVars
<1>2. Whole'
  BY <1>1, WholeAhead DEF RingInv, TypeOK
<1>3. got \in Seq(Nat \X Nat) /\ tail \in 0 .. head /\ head \in Nat
  BY DEF RingInv, SampleTypes, TypeOK
<1>4. CASE \E r : AtHeader(r)
  <2>1. PICK r : AtHeader(r)
    BY <1>4
  <2>2. todo = <<Header>> /\ len = 1 /\ got = <<>>
    BY <1>1, <2>1 DEF AtHeader, Header
  <2>3. both \in Seq(Nat \X Nat) /\ Len(both) = 1 /\ both[1] = At(tail)
    <3>1. len \in Nat \ {0} /\ len <= Avail
      BY <1>1, <1>3, <2>2 DEF Avail
    <3>2. /\ both \in Seq(Nat \X Nat) /\ Len(both) = len
          /\ \A j \in 1 .. len : both[j] = At(tail + (j - 1))
      BY <3>1, CopyContents DEF RingInv
    <3>3. tail + (1 - 1) = tail /\ 1 \in 1 .. len
      BY <1>3, <2>2
    <3> HIDE DEF both
    <3>4. both[1] = At(tail + (1 - 1))
      BY <3>2, <3>3
    <3> QED
      BY <2>2, <3>2, <3>3, <3>4
  <2>4. got' = both
    <3>1. CopyBeginning(len) \in Seq(Nat \X Nat)
      <4>1. len \in Nat \ {0} /\ len <= Avail
        BY <1>1, <2>2
      <4> QED
        BY <1>1, <4>1, CopyTyped DEF RingInv
    <3> QED
      BY <1>1, <2>2, <3>1
  <2> HIDE DEF both
  <2>5. got' = <<<<r, 1>>>> /\ got' \in Seq(Nat \X Nat)
    BY <2>1, <2>3, <2>4 DEF AtHeader
  <2>6. Delivered(r - 1)'
    BY <1>1, <2>1, DeliveredSame DEF AtHeader
  <2>7. At(tail)' = <<r, 1>> /\ tail' < head' /\ r \in DOMAIN records'
    BY <1>1, <2>1 DEF AtHeader, At
  <2>8. InStep'
    BY <1>1, <2>2, <2>5, <2>6, <2>7 DEF InStep, Header
  <2> QED
    BY <1>1, <1>2, <2>5, <2>8 DEF RingInv, SampleTypes
<1>5. CASE \E r, k : InRecord(r, k)
  <2>1. PICK r, k : InRecord(r, k)
    BY <1>5
  <2> DEFINE type == records[r].type
             n == Starts[type][k]
  <2>2. r \in DOMAIN records /\ k \in 1 .. 5 /\ Within(r, k) /\ Delivered(r - 1)
    BY <2>1 DEF InRecord
  <2>3. /\ len \in Nat /\ n \in Nat /\ n >= 2 /\ Comes(tail, r, n)
        /\ type = "sample" => len > 0
        /\ \A j \in 0 .. len - 1 : At(tail + j) = <<r, n + j>>
    BY <1>1, <2>2, WithinFacts, SMTT(30) DEF RingInv, Ahead
  <2>4. /\ CopyBeginning(len) \in Seq(Nat \X Nat) /\ CopyLeftover(len) \in Seq(Nat \X Nat)
        /\ len > 0 => /\ Len(both) = len
                      /\ \A j \in 1 .. len : both[j] = At(tail + (j - 1))
    <3>1. len <= Avail
      BY <1>1, <1>3, <2>3 DEF Avail
    <3>2. CopyBeginning(len) \in Seq(Nat \X Nat) /\ CopyLeftover(len) \in Seq(Nat \X Nat)
      BY <2>3, <3>1, CopyTyped DEF RingInv
    <3>3. ASSUME len > 0 PROVE Len(both) = len /\ \A j \in 1 .. len : both[j] = At(tail + (j - 1))
      <4>1. len \in Nat \ {0}
        BY <2>3, <3>3
      <4> QED
        BY <3>1, <4>1, CopyContents DEF RingInv
    <3> QED
      BY <3>2, <3>3
  <2>5. got' = got \o both /\ both \in Seq(Nat \X Nat)
    BY <1>1, <1>3, <2>4, ConcatAssociative, SMTT(30)
  <2>6. got # <<>> /\ got[1] = <<r, 1>> /\ (type = "sample" => got = [i \in 1 .. n - 1 |-> <<r, i>>])
    <3>1. type = "sample" => got = [i \in 1 .. n - 1 + 0 |-> <<r, i>>]
      BY <1>1, <2>2 DEF Within
    <3> QED
      BY <2>2, <2>3, <3>1 DEF Within
  <2> HIDE DEF both, len, type, n
  <2>7. /\ got' \in Seq(Nat \X Nat) /\ Len(got') = Len(got) + Len(both)
        /\ \A i \in 1 .. Len(got) + Len(both) :
             got'[i] = IF i <= Len(got) THEN got[i] ELSE both[i - Len(got)]
    BY <1>3, <2>5, ConcatProperties
  <2>8. got' # <<>> /\ got'[1] = <<r, 1>>
    <3>1. Len(got) \in Nat \ {0} /\ Len(both) \in Nat
      BY <1>3, <2>5, <2>6
    <3>2. 1 \in 1 .. Len(got) + Len(both) /\ 1 <= Len(got) /\ Len(got') # 0
      BY <2>7, <3>1
    <3>3. got'[1] = got[1]
      BY <2>7, <3>2
    <3> QED
      BY <2>6, <3>2, <3>3
  <2>9. ASSUME type = "sample" PROVE got' = [i \in 1 .. n - 1 + len |-> <<r, i>>]
    <3>1. /\ got = [i \in 1 .. n - 1 |-> <<r, i>>] /\ len > 0 /\ Len(both) = len
          /\ \A j \in 1 .. len : both[j] = At(tail + (j - 1))
      BY <2>3, <2>4, <2>6, <2>9
    <3>2. Len(got) = n - 1 /\ \A i \in 1 .. n - 1 : got[i] = <<r, i>>
      BY <2>3, <3>1
    <3>3. ASSUME NEW i \in 1 .. n - 1 + len PROVE got'[i] = <<r, i>>
      <4>1. got'[i] = IF i <= n - 1 THEN got[i] ELSE both[i - (n - 1)]
        BY <2>3, <2>7, <3>1, <3>2
      <4>2. CASE i <= n - 1
        <5>1. i \in 1 .. n - 1
          BY <2>3, <4>2
        <5> QED
          BY <3>2, <4>1, <4>2, <5>1
      <4>3. CASE ~(i <= n - 1)
        <5> DEFINE j == i - (n - 1)
        <5>1. j \in 1 .. len /\ j - 1 \in 0 .. len - 1 /\ n + (j - 1) = i
          BY <2>3, <4>3
        <5>2. both[j] = At(tail + (j - 1)) /\ At(tail + (j - 1)) = <<r, n + (j - 1)>>
          BY <2>3, <3>1, <5>1
        <5> QED
          BY <4>1, <4>3, <5>1, <5>2
      <4> QED
        BY <4>2, <4>3
    <3>4. DOMAIN got' = 1 .. n - 1 + len /\ got' = [i \in DOMAIN got' |-> got'[i]]
      <4>1. Len(got') = n - 1 + len
        BY <2>7, <3>1, <3>2
      <4> QED
        BY <2>7, <4>1
    <3> QED
      BY <3>3, <3>4
  <2>10. Within(r, k)'
    <3>1. /\ type' = type /\ n' = n /\ len' = len /\ LengthOf(r)' = LengthOf(r)
          /\ At(tail)' = At(tail) /\ Following(tail, r)' = Following(tail, r)
      BY <1>1 DEF type, n, len, LengthOf, At, Following
    <3> QED
      BY <1>1, <2>2, <2>8, <2>9, <3>1 DEF Within, type, n, len
  <2>11. Delivered(r - 1)' /\ r \in DOMAIN records'
    BY <1>1, <2>2, DeliveredSame
  <2>12. InStep'
    BY <2>2, <2>10, <2>11 DEF InStep
  <2> QED
    BY <1>1, <1>2, <2>7, <2>12 DEF RingInv, SampleTypes
<1> QED
  BY <1>1, <1>4, <1>5, InStepCases DEF RingInv

\* The reader comes to the next part of the record.
LEMMA WithinNext ==
  ASSUME NEW r, NEW k \in 1 .. 5, NEW n \in Nat, NEW len \in Nat,
         tail' = tail + len, copied' = FALSE, todo' = Tail(todo), got' = got,
         UNCHANGED <<ring, head, records>>, got # <<>>, got[1] = <<r, 1>>,
         k + 1 \in DOMAIN Starts[records[r].type], Starts[records[r].type][k + 1] = n + len,
         Tail(todo) = SubSeq(Layout(records[r].type), k + 1, Len(Layout(records[r].type))),
         Comes(tail + len, r, n + len),
         records[r].type = "sample" => got = [i \in 1 .. n - 1 + len |-> <<r, i>>]
  PROVE  Within(r, k + 1)'
<1>1. /\ records' = records /\ head' = head /\ ring' = ring
      /\ LengthOf(r)' = LengthOf(r)
      /\ At(tail)' = At(tail + len) /\ Following(tail, r)' = Following(tail + len, r)
  BY DEF LengthOf, At, Following
<1>2. n + len - 1 + 0 = n - 1 + len
  OBVIOUS
<1>3. IF n + len <= LengthOf(r) THEN tail' < head /\ At(tail)' = <<r, n + len>>
                                ELSE Following(tail, r)'
  BY <1>1 DEF Comes
<1> DEFINE type == records[r].type
           m == k + 1
           next == n + len
<1>4. type = "sample" => got' = [i \in 1 .. next - 1 + 0 |-> <<r, i>>]
  BY <1>2
<1>5. /\ m \in DOMAIN Starts[type] /\ Starts[type][m] = next
      /\ todo' = SubSeq(Layout(type), m, Len(Layout(type)))
      /\ IF next <= LengthOf(r)' THEN tail' < head' /\ At(tail)' = <<r, next>>
                                 ELSE Following(tail, r)'
  BY <1>1, <1>3
<1>6. type' = type /\ records'[r].type = type
  BY <1>1
<1> HIDE DEF type, m, next
<1>7. Within(r, m)'
  BY <1>4, <1>5, <1>6 DEF Within
<1> QED
  BY <1>7 DEF m

\* data_tail is moved behind what was read; after a header the layout of its type is due.
LEMMA AdvanceRing ==
  ASSUME TypeOK, Reading, RingInv, Advance, rows' = rows
  PROVE  RingInv'
<1> DEFINE len == Head(todo).len
<1>1. /\ todo # <<>> /\ Head(todo).op # "skip" /\ copied /\ len <= Avail /\ copied' = FALSE
      /\ tail' = tail + len /\ todo' = After(got) /\ got' = got /\ samples' = samples
      /\ ring' = ring /\ head' = head /\ records' = records
  BY DEF Advance, Advanced, Reading, ToRead, kernelVars
<1>2. got \in Seq(Nat \X Nat) /\ tail \in 0 .. head /\ head \in Nat
  BY DEF RingInv, SampleTypes, TypeOK
<1>3. CASE \E r : AtHeader(r)
  <2>1. PICK r : AtHeader(r)
    BY <1>3
  <2> DEFINE type == records[r].type
  <2>2. /\ todo = <<Header>> /\ len = 1 /\ Head(todo).op = "header" /\ got = <<<<r, 1>>>>
        /\ r \in DOMAIN records /\ tail < head /\ At(tail) = <<r, 1>>
    BY <1>1, <2>1 DEF AtHeader, Header
  <2>3. type \in Kind /\ LengthOf(r) = Length[type] /\ LengthOf(r) \in Nat \ {0}
    BY <2>2, RecordLength DEF TypeOK, Record, LengthOf
  <2>4. todo' = Layout(type)
    BY <1>1, <2>2 DEF After, TypeOf
  <2>5. Fits(Layout(type), Starts[type], LengthOf(r))
    BY <2>3, Layouts
  <2>6. /\ Starts[type][1] = 2 /\ 1 \in DOMAIN Starts[type]
        /\ Layout(type) = SubSeq(Layout(type), 1, Len(Layout(type)))
    BY <2>5, SubSeqFull DEF Fits
  <2>7. /\ tail + 1 <= head
        /\ IF 2 <= LengthOf(r) THEN tail + 1 < head /\ At(tail + 1) = <<r, 2>>
                               ELSE Following(tail + 1, r)
    <3>1. 1 \in Nat \ {0} /\ 1 + 1 <= LengthOf(r) + 1 /\ 1 + 1 = 2
      BY <2>3
    <3> QED
      BY <2>2, <3>1, Moved DEF RingInv
  <2>8. tail' = tail + 1 /\ tail' \in tail .. head
    BY <1>1, <1>2, <2>2, <2>7
  <2>9. Within(r, 1)'
    <3>1. /\ LengthOf(r)' = LengthOf(r) /\ type' = type
          /\ At(tail)' = At(tail + 1) /\ Following(tail, r)' = Following(tail + 1, r)
      BY <1>1, <2>8 DEF LengthOf, At, Following
    <3>2. got' # <<>> /\ got'[1] = <<r, 1>> /\ got' = [i \in 1 .. 2 - 1 + 0 |-> <<r, i>>]
      BY <1>1, <2>2
    <3> HIDE DEF type
    <3> QED
      BY <1>1, <2>4, <2>6, <2>7, <2>8, <3>1, <3>2 DEF Within, type
  <2>10. Delivered(r - 1)'
    BY <1>1, <2>1, DeliveredSame DEF AtHeader
  <2>11. InStep' /\ Whole'
    BY <1>1, <2>2, <2>8, <2>9, <2>10, WholeAhead DEF InStep, RingInv
  <2> QED
    BY <1>1, <2>11 DEF RingInv, SampleTypes
<1>4. CASE \E r, k : InRecord(r, k)
  <2>1. PICK r, k : InRecord(r, k)
    BY <1>4
  <2> DEFINE type == records[r].type
             n == Starts[type][k]
  <2>2. r \in DOMAIN records /\ k \in 1 .. 5 /\ Within(r, k) /\ Delivered(r - 1)
    BY <2>1 DEF InRecord
  <2>a. Ahead(r, k, n, len)
    BY <1>1, <2>2, WithinFacts DEF RingInv
  <2>b. /\ got # <<>> /\ got[1] = <<r, 1>>
        /\ type = "sample" => got = [i \in 1 .. n - 1 + len |-> <<r, i>>]
    BY <1>1, <2>2 DEF Within
  <2>c. todo' = After(got) /\ (Head(todo).op # "header" => After(got) = Tail(todo))
    BY <1>1 DEF After
  <2> HIDE DEF n, len
  <2>3. /\ len \in Nat /\ n \in Nat /\ Head(todo).op # "header"
        /\ k + 1 \in DOMAIN Starts[type] /\ k + 1 \in 1 .. 5
        /\ Tail(todo) = SubSeq(Layout(type), k + 1, Len(Layout(type)))
        /\ Starts[type][k + 1] = n + len /\ LengthOf(r) \in Nat
        /\ tail + len <= head /\ Comes(tail + len, r, n + len)
    BY <1>1, <2>a, SMTT(30) DEF Ahead
  <2>4. todo' = Tail(todo) /\ tail' \in tail .. head
    <3>1. todo' = Tail(todo)
      BY <2>3, <2>c
    <3>2. tail' = tail + len
      BY <1>1
    <3> QED
      BY <1>2, <2>3, <3>1, <3>2
  <2>6. Within(r, k + 1)'
    BY <1>1, <2>2, <2>3, <2>4, <2>b, WithinNext
  <2>7. Delivered(r - 1)'
    BY <1>1, <2>2, DeliveredSame
  <2>8. InStep' /\ Whole'
    BY <1>1, <2>2, <2>3, <2>4, <2>6, <2>7, WholeAhead DEF InStep, RingInv
  <2> QED
    BY <1>1, <2>8 DEF RingInv, SampleTypes
<1> QED
  BY <1>1, <1>3, <1>4, InStepCases DEF RingInv

\* What is skipped is there; the samples have nothing that is skipped.
LEMMA SkipRing ==
  ASSUME TypeOK, Reading, RingInv, SkipPart, rows' = rows
  PROVE  RingInv'
<1> DEFINE len == Head(todo).len
<1>1. /\ todo # <<>> /\ Head(todo).op = "skip" /\ ~copied /\ copied' = copied
      /\ tail' = Min({tail + len, head}) /\ todo' = Tail(todo) /\ got' = got
      /\ samples' = samples /\ ring' = ring /\ head' = head /\ records' = records
  BY DEF SkipPart, Reading, ToRead, kernelVars
<1>2. tail \in 0 .. head /\ head \in Nat
  BY DEF TypeOK
<1>3. PICK r, k : InRecord(r, k)
  <2>1. \A r : ~AtHeader(r)
    BY <1>1 DEF AtHeader, Header
  <2> QED
    BY <1>1, <2>1, InStepCases DEF RingInv
<1> DEFINE type == records[r].type
           n == Starts[type][k]
<1>4. r \in DOMAIN records /\ k \in 1 .. 5 /\ Within(r, k) /\ Delivered(r - 1)
  BY <1>3 DEF InRecord
<1>5. Ahead(r, k, n, len)
  BY <1>4, WithinFacts DEF RingInv
<1>6. got # <<>> /\ got[1] = <<r, 1>>
  BY <1>4 DEF Within
<1>7. copied' = FALSE
  BY <1>1 DEF TypeOK
<1> HIDE DEF n, len
<1>8. /\ len \in Nat /\ n \in Nat /\ type # "sample"
      /\ k + 1 \in DOMAIN Starts[type] /\ k + 1 \in 1 .. 5
      /\ Tail(todo) = SubSeq(Layout(type), k + 1, Len(Layout(type)))
      /\ Starts[type][k + 1] = n + len /\ LengthOf(r) \in Nat
      /\ tail + len <= head /\ Comes(tail + len, r, n + len)
  BY <1>1, <1>5, SMTT(30) DEF Ahead
<1>9. tail' = tail + len /\ tail' \in tail .. head
  <2> DEFINE past == tail + len
  <2>1. past \in Int /\ past <= head /\ past >= tail
    BY <1>2, <1>8
  <2> HIDE DEF past
  <2>2. Min({past, head}) = past
    BY <1>2, <2>1 DEF Min
  <2> QED
    BY <1>1, <1>2, <2>1, <2>2 DEF past
<1>10. Within(r, k + 1)'
  BY <1>1, <1>4, <1>6, <1>7, <1>8, <1>9, WithinNext
<1>11. Delivered(r - 1)'
  BY <1>1, <1>4, DeliveredSame
<1>12. InStep' /\ Whole'
  BY <1>1, <1>4, <1>8, <1>9, <1>10, <1>11, WholeAhead DEF InStep, RingInv
<1> QED
  BY <1>1, <1>12 DEF RingInv, SampleTypes
-----------------------------------------------------------------------------
(* Samples are delivered in order.                                         *)

\* The samples up to a record that is one are those before it, and it.
LEMMA BeforeNext ==
  ASSUME records \in Seq(Record), NEW r \in DOMAIN records
  PROVE  /\ IsFiniteSet(Before(r)) /\ IsFiniteSet(Before(r - 1))
         /\ Cardinality(Before(r)) \in Nat /\ Cardinality(Before(r - 1)) \in Nat
         /\ records[r].type # "sample" => Before(r) = Before(r - 1)
         /\ records[r].type = "sample" =>
              /\ Before(r) = Before(r - 1) \cup {r} /\ r \notin Before(r - 1)
              /\ Cardinality(Before(r)) = Cardinality(Before(r - 1)) + 1
<1>1. r \in Nat /\ DOMAIN records = 1 .. Len(records) /\ Len(records) \in Nat
  OBVIOUS
<1>2. IsFiniteSet(1 .. Len(records))
  BY <1>1, FS_Interval
<1>3. Before(r) \subseteq 1 .. Len(records) /\ Before(r - 1) \subseteq 1 .. Len(records)
  BY <1>1 DEF Before, SampleRecords
<1>4. IsFiniteSet(Before(r)) /\ IsFiniteSet(Before(r - 1))
  BY <1>2, <1>3, FS_Subset
<1>5. Cardinality(Before(r)) \in Nat /\ Cardinality(Before(r - 1)) \in Nat
  BY <1>4, FS_CardinalityType
<1>6. \A q \in 1 .. Len(records) : q <= r <=> q <= r - 1 \/ q = r
  BY <1>1
<1>7. records[r].type # "sample" => Before(r) = Before(r - 1)
  BY <1>1, <1>6 DEF Before, SampleRecords
<1>8. ASSUME records[r].type = "sample"
      PROVE  Before(r) = Before(r - 1) \cup {r} /\ r \notin Before(r - 1)
  BY <1>1, <1>6, <1>8 DEF Before, SampleRecords
<1>9. ASSUME records[r].type = "sample"
      PROVE  Cardinality(Before(r)) = Cardinality(Before(r - 1)) + 1
  BY <1>4, <1>8, <1>9, FS_AddElement
<1> QED
  BY <1>4, <1>5, <1>7, <1>8, <1>9

\* The end of a record delivers it if it is a sample.
LEMMA DeliveredNext ==
  ASSUME SampleTypes, records \in Seq(Record), records' = records, rows' = rows,
         NEW r \in DOMAIN records, Delivered(r - 1),
         IF records[r].type = "sample" THEN samples' = Append(samples, Tail(Words(r, "sample")))
                                       ELSE samples' = samples
  PROVE  Delivered(r)'
<1>1. \A q : Before(q)' = Before(q)
  BY DEF Before, SampleRecords
<1>2. CASE records[r].type # "sample"
  <2>1. samples' = samples /\ Before(r) = Before(r - 1)
    BY <1>2, BeforeNext
  <2> QED
    BY <1>1, <2>1 DEF Delivered
<1>3. CASE records[r].type = "sample"
  <2> DEFINE x == Tail(Words(r, "sample"))
             all == rows \o samples
             m == Len(all)
  <2>1. x \in Seq(Nat \X Nat)
    <3>1. r \in Nat
      OBVIOUS
    <3>2. Words(r, "sample") \in Seq(Nat \X Nat) /\ Len(Words(r, "sample")) = Length["sample"]
      BY <3>1, WordsTyped, Lengths, SMTT(30) DEF Words, Kind
    <3>3. Words(r, "sample") # <<>>
      BY <3>2, Lengths DEF Kind
    <3> HIDE DEF Words
    <3> QED
      BY <3>2, <3>3
  <2>2. rows \in Seq(Seq(Nat \X Nat)) /\ samples \in Seq(Seq(Nat \X Nat)) /\ samples' = Append(samples, x)
    BY <1>3 DEF SampleTypes
  <2>3. /\ m = Cardinality(Before(r - 1))
        /\ \A n \in DOMAIN all :
             \E q \in Before(r - 1) : all[n] = Tail(Words(q, "sample")) /\ Cardinality(Before(q)) = n
    BY DEF Delivered
  <2>4. /\ Before(r) = Before(r - 1) \cup {r} /\ Cardinality(Before(r)) = m + 1 /\ m \in Nat
    BY <1>3, <2>3, BeforeNext
  <2>5. all \in Seq(Seq(Nat \X Nat)) /\ rows \o samples' = Append(all, x)
    <3> HIDE DEF x
    <3> DEFINE T == Seq(Nat \X Nat)
    <3>1. rows \in Seq(T) /\ samples \in Seq(T) /\ x \in T
      BY <2>1, <2>2
    <3> HIDE DEF T
    <3>2. <<x>> \in Seq(T) /\ Append(samples, x) = samples \o <<x>>
      BY <3>1
    <3>3. all \in Seq(T)
      BY <3>1
    <3>4. rows \o (samples \o <<x>>) = all \o <<x>>
      BY <3>1, <3>2, ConcatAssociative
    <3> HIDE DEF all
    <3>5. all \o <<x>> = Append(all, x)
      BY <3>1, <3>3
    <3> QED
      BY <2>2, <3>2, <3>3, <3>4, <3>5 DEF T, all
  <2> HIDE DEF x, all
  <2> DEFINE new == Append(all, x)
  <2>6. /\ Len(new) = m + 1 /\ DOMAIN new = 1 .. m + 1 /\ new[m + 1] = x
        /\ \A n \in 1 .. m : n \in DOMAIN all /\ new[n] = all[n]
    BY <2>1, <2>5
  <2> HIDE DEF new, m
  <2>7. ASSUME NEW n \in DOMAIN new
        PROVE  \E q \in Before(r) : new[n] = Tail(Words(q, "sample")) /\ Cardinality(Before(q)) = n
    <3>1. CASE n = m + 1
      BY <2>4, <2>6, <3>1 DEF x
    <3>2. CASE n # m + 1
      <4>1. n \in 1 .. m
        BY <2>4, <2>6, <3>2
      <4>2. PICK q \in Before(r - 1) : all[n] = Tail(Words(q, "sample")) /\ Cardinality(Before(q)) = n
        BY <2>3, <2>6, <4>1
      <4> QED
        BY <2>4, <2>6, <4>1, <4>2
    <3> QED
      BY <3>1, <3>2
  <2>8. /\ Len(new) = Cardinality(Before(r)')
        /\ \A n \in DOMAIN new : \E q \in Before(r)' :
             new[n] = Tail(Words(q, "sample")) /\ Cardinality(Before(q)') = n
    BY <1>1, <2>4, <2>6, <2>7
  <2>9. rows' \o samples' = new
    BY <2>5 DEF new
  <2> HIDE DEF Words
  <2> QED
    BY <2>8, <2>9 DEF Delivered, Words
<1> QED
  BY <1>2, <1>3

\* When the last part has been read, the reader is at the end of the record.
LEMMA EndRing ==
  ASSUME TypeOK, Reading, RingInv, EndRecord, rows' = rows
  PROVE  RingInv'
<1>1. /\ todo = <<>> /\ got # <<>> /\ got' = <<>> /\ ~copied
      /\ samples' = IF TypeOf(got[1]) = "sample" THEN Append(samples, Tail(got)) ELSE samples
      /\ tail' = tail /\ todo' = todo /\ copied' = copied
      /\ ring' = ring /\ head' = head /\ records' = records
  BY DEF EndRecord, Reading, ToRead, kernelVars
<1>2. tail \in 0 .. head /\ head \in Nat /\ records \in Seq(Record)
  BY DEF TypeOK, Record
<1>3. PICK r \in DOMAIN records : \E k \in 1 .. 5 : Within(r, k) /\ Delivered(r - 1)
  BY <1>1 DEF RingInv, InStep
<1>4. PICK k \in 1 .. 5 : Within(r, k) /\ Delivered(r - 1)
  BY <1>3
<1> DEFINE type == records[r].type
           n == Starts[type][k]
           len == Head(todo).len
<1>5. Ahead(r, k, n, len)
  BY <1>4, WithinFacts DEF RingInv
<1>6. got[1] = <<r, 1>> /\ (type = "sample" => got = [i \in 1 .. n - 1 + 0 |-> <<r, i>>])
  BY <1>1, <1>4 DEF Within
<1> HIDE DEF n, len
<1>7. n = LengthOf(r) + 1 /\ LengthOf(r) \in Nat \ {0} /\ LengthOf(r) = Length[type] /\ Following(tail, r)
  BY <1>1, <1>5 DEF Ahead, Comes
<1>8. type = "sample" => got = Words(r, "sample")
  BY <1>6, <1>7 DEF Words
<1>9. TypeOf(got[1]) = type
  BY <1>6 DEF TypeOf
<1>10. IF type = "sample" THEN samples' = Append(samples, Tail(Words(r, "sample")))
                          ELSE samples' = samples
  BY <1>1, <1>8, <1>9
<1>11. SampleTypes'
  <2>1. got \in Seq(Nat \X Nat) /\ samples \in Seq(Seq(Nat \X Nat)) /\ rows \in Seq(Seq(Nat \X Nat))
    BY DEF RingInv, SampleTypes
  <2>2. Tail(got) \in Seq(Nat \X Nat)
    BY <1>1, <2>1
  <2>3. samples' \in Seq(Seq(Nat \X Nat))
    BY <1>1, <2>1, <2>2
  <2> QED
    BY <1>1, <2>1, <2>3 DEF SampleTypes
<1>12. Delivered(r)'
  BY <1>1, <1>2, <1>4, <1>10, DeliveredNext DEF RingInv
<1>13. Following(tail, r)' /\ r \in 0 .. Len(records')
  BY <1>1, <1>2, <1>7 DEF Following, At
<1>14. Whole'
  BY <1>1, <1>2, WholeAhead DEF RingInv
<1>15. InStep'
  BY <1>1, <1>12, <1>13 DEF InStep
<1> QED
  BY <1>11, <1>14, <1>15 DEF RingInv

\* The result of a call of sample() goes to the database as it is.
LEMMA CommitRing ==
  ASSUME RingInv, Commit
  PROVE  RingInv'
<1>1. /\ todo = <<>> /\ got = <<>> /\ rows' = rows \o samples /\ samples' = <<>>
      /\ tail' = tail /\ todo' = todo /\ copied' = copied /\ got' = got
      /\ ring' = ring /\ head' = head /\ records' = records
  BY DEF Commit, Drained, kernelVars
<1>2. rows \in Seq(Seq(Nat \X Nat)) /\ samples \in Seq(Seq(Nat \X Nat)) /\ got \in Seq(Nat \X Nat)
  BY DEF RingInv, SampleTypes
<1>3. rows' \in Seq(Seq(Nat \X Nat)) /\ rows' \o samples' = rows \o samples
  <2>1. rows \o samples \in Seq(Seq(Nat \X Nat))
    BY <1>2
  <2> DEFINE all == rows \o samples
  <2> HIDE DEF all
  <2>2. all \in Seq(Seq(Nat \X Nat)) => all \o <<>> = all
    OBVIOUS
  <2> QED
    BY <1>1, <2>1, <2>2 DEF all
<1>4. PICK r \in 0 .. Len(records) : Following(tail, r) /\ Delivered(r)
  BY <1>1 DEF RingInv, InStep, Within
<1>5. Delivered(r)'
  <2>1. \A q : Before(q)' = Before(q)
    BY <1>1 DEF Before, SampleRecords
  <2> QED
    BY <1>3, <1>4, <2>1 DEF Delivered
<1>6. /\ \A p : AtNew(p) = At(p)
      /\ \A p, q : FollowingNew(p, q) = Following(p, q)
  BY <1>1 DEF AtNew, At, FollowingNew, Following
<1>7. Following(tail, r)'
  BY <1>1, <1>4 DEF Following, At
<1>8. Whole'
  <2>1. ASSUME NEW p \in tail .. head - 1
        PROVE  LET q == AtNew(p)[1]
                   i == AtNew(p)[2]
                   len == Length[records'[q].type]
               IN /\ q \in DOMAIN records' /\ i \in 1 .. len
                  /\ \A k \in 1 .. len - i : p + k < head' /\ AtNew(p + k) = <<q, i + k>>
                  /\ FollowingNew(p + len - i + 1, q)
    BY <1>1, <1>6 DEF RingInv, Whole, LengthOf
  <2>2. ring' \in [0 .. Size - 1 -> Nat \X Nat]
    BY <1>1 DEF RingInv, Whole
  <2> QED
    BY <1>1, <2>1, <2>2 DEF Whole, LengthOf, At, AtNew, Following, FollowingNew
<1>9. InStep'
  BY <1>1, <1>4, <1>5, <1>7 DEF InStep
<1> QED
  BY <1>1, <1>2, <1>3, <1>8, <1>9 DEF RingInv, SampleTypes
-----------------------------------------------------------------------------
(* Theorems.                                                               *)

LEMMA InitRing == Init => RingInv
<1> SUFFICES ASSUME Init PROVE RingInv
  OBVIOUS
<1>1. /\ ring = [c \in 0 .. Size - 1 |-> <<0, 0>>] /\ head = 0 /\ tail = 0 /\ records = <<>>
      /\ todo = <<>> /\ got = <<>> /\ samples = <<>> /\ rows = <<>>
  BY DEF Init, RingInit
<1>2. SampleTypes
  BY <1>1 DEF SampleTypes
<1>3. Whole
  <2>1. tail .. head - 1 = {} /\ ring \in [0 .. Size - 1 -> Nat \X Nat]
    BY <1>1
  <2> QED
    BY <2>1 DEF Whole
<1>4. Following(tail, 0) /\ 0 \in 0 .. Len(records)
  BY <1>1 DEF Following
<1>5. Delivered(0)
  <2>1. Before(0) = {}
    BY <1>1 DEF Before, SampleRecords
  <2>2. Cardinality(Before(0)) = 0
    BY <2>1, FS_EmptySet
  <2>3. rows \o samples = <<>>
    BY <1>1
  <2> QED
    BY <2>2, <2>3 DEF Delivered
<1>6. InStep
  BY <1>1, <1>4, <1>5 DEF InStep
<1> QED
  BY <1>2, <1>3, <1>6 DEF RingInv

LEMMA ReadRing ==
  ASSUME TypeOK, Reading, RingInv, ReadStep, rows' = rows
  PROVE  RingInv'
BY BeginRing, CopyRing, AdvanceRing, SkipRing, EndRing DEF ReadStep

LEMMA NextRing == IInv /\ RingInv /\ [Next]_vars => RingInv'
<1> SUFFICES ASSUME IInv, RingInv, [Next]_vars PROVE RingInv'
  OBVIOUS
<1>1. TypeOK /\ Reading
  BY DEF IInv
<1>2. CASE Drain
  BY <1>1, <1>2, ReadRing DEF Drain, threadVars
<1>3. CASE Sampled
  <2>1. PICK type \in {"sample", "other"} : Store(type)
    BY <1>3 DEF Sampled
  <2> QED
    BY <1>1, <1>3, <2>1, StoreRing DEF Sampled, threadVars
<1>4. CASE Commit
  BY <1>4, CommitRing
<1>5. ASSUME UNCHANGED <<kernelVars, readerVars, rows>> PROVE RingInv'
  BY <1>5, RingSame DEF kernelVars
<1>6. CASE Loop \/ Poll \/ Stop \/ Kill \/ Destroy
  BY <1>5, <1>6 DEF Loop, Poll, Stop, Kill, Destroy
<1>7. ASSUME NEW w \in Thread, Wait(w) PROVE RingInv'
  BY <1>5, <1>7 DEF Wait, Waitpid, StoreStatus, TestExited, TestSignaled
<1>8. CASE WatcherStarts \/ WatcherEnds \/ Timeout
  BY <1>5, <1>8 DEF WatcherStarts, WatcherEnds, Timeout
<1>9. CASE ChildExecs \/ ChildEnds \/ ChildStops \/ Finished \/ UNCHANGED vars
  BY <1>5, <1>9 DEF ChildExecs, ChildEnds, ChildStops, Finished, vars, threadVars
<1>10. CASE Start
  BY <1>5, <1>10 DEF Start, SetUp, Fork, SetOptions, EarlyWait, Ready, NoModule, Step, StepFails,
       Reached, Insert, SetupEvents, Cont, Abort, Proceed, threadVars
<1> QED
  BY <1>2, <1>3, <1>4, <1>6, <1>7, <1>8, <1>9, <1>10 DEF Next, MainStep, WatcherStep, Thread

\* What the ring holds and the place of the reader, in every reachable state.
THEOREM RingInvariance == Spec => [](TypeOK /\ RingInv)
<1>1. Init => IInv /\ RingInv
  BY InitInvariant, InitRing
<1>2. (IInv /\ RingInv) /\ [Next]_vars => (IInv /\ RingInv)'
  BY NextInvariant, NextRing
<1>3. IInv /\ RingInv => TypeOK /\ RingInv
  BY DEF IInv
<1> QED
  BY <1>1, <1>2, <1>3, PTL DEF Spec

\* read_buffer's check for data never fails: a record the kernel has begun to
\* store is there as a whole when the reader comes to it, and its parts have
\* the length of it, for every size of the ring and of the records.
THEOREM NeverStarvedAlways == Spec => []NeverStarved
<1>1. TypeOK /\ RingInv => NeverStarved
  <2> SUFFICES ASSUME TypeOK, RingInv, ToRead, ~copied PROVE ~(Avail < Head(todo).len)
    BY DEF NeverStarved, Starving
  <2>1. todo # <<>> /\ tail \in 0 .. head /\ head \in Nat
    BY DEF ToRead, TypeOK
  <2>2. CASE \E r : AtHeader(r)
    <3>1. Head(todo).len = 1 /\ tail < head
      BY <2>2 DEF AtHeader, Header
    <3> QED
      BY <2>1, <3>1 DEF Avail
  <2>3. CASE \E r, k : InRecord(r, k)
    <3>1. PICK r, k : InRecord(r, k)
      BY <2>3
    <3> DEFINE len == Head(todo).len
               n == Starts[records[r].type][k]
    <3>2. Ahead(r, k, n, len)
      BY <3>1, WithinFacts DEF RingInv, InRecord
    <3> HIDE DEF n, len
    <3>3. len \in Nat /\ tail + len <= head
      BY <2>1, <3>2 DEF Ahead
    <3>4. ~(Avail < len)
      BY <2>1, <3>3 DEF Avail
    <3> QED
      BY <3>4 DEF len
  <2> QED
    BY <2>1, <2>2, <2>3, InStepCases DEF RingInv
<1> QED
  BY <1>1, RingInvariance, PTL

\* A later sample has more samples up to it.
LEMMA Counted ==
  ASSUME records \in Seq(Record), NEW p \in SampleRecords, NEW q \in SampleRecords,
         Cardinality(Before(p)) = Cardinality(Before(q))
  PROVE  p = q
<1>1. p \in DOMAIN records /\ q \in DOMAIN records /\ p \in Nat /\ q \in Nat
  BY DEF SampleRecords
<1>2. ASSUME NEW a \in SampleRecords, NEW b \in SampleRecords, a \in Nat, b \in Nat, a < b,
             IsFiniteSet(Before(b))
      PROVE  Cardinality(Before(a)) # Cardinality(Before(b))
  <2>1. Before(a) \subseteq Before(b)
    <3>1. \A m \in SampleRecords : m \in 1 .. Len(records)
      BY DEF SampleRecords
    <3>2. \A m \in 1 .. Len(records) : m <= a => m <= b
      BY <1>2
    <3> QED
      BY <3>1, <3>2 DEF Before
  <2>2. b \in Before(b) /\ b \notin Before(a)
    BY <1>2 DEF Before
  <2>3. Before(a) # Before(b)
    BY <2>2
  <2> QED
    BY <1>2, <2>1, <2>3, FS_Subset
<1>3. IsFiniteSet(Before(p)) /\ IsFiniteSet(Before(q))
  BY <1>1, BeforeNext
<1> QED
  BY <1>1, <1>2, <1>3

\* Every sample that reaches the database, or is about to, is the one of its
\* place in the order the kernel stored them in, with all its words: the copies
\* of read_buffer tear none, however they wrap, and none is read twice or left out,
\* for every size of the ring and every number of counters.
THEOREM SamplesIntactAlways == Spec => []SamplesIntact
<1>1. TypeOK /\ RingInv => SamplesIntact
  <2> SUFFICES ASSUME TypeOK, RingInv PROVE SamplesIntact
    OBVIOUS
  <2>1. records \in Seq(Record) /\ DOMAIN records = 1 .. Len(records) /\ Len(records) \in Nat
    BY DEF TypeOK, Record
  <2>2. PICK r : Delivered(r)
    BY DEF RingInv, InStep
  <2> DEFINE all == rows \o samples
             nth(n) == CHOOSE q \in SampleRecords :
                         Cardinality({m \in SampleRecords : m <= q}) = n
  <2>3. /\ Len(all) = Cardinality(Before(r))
        /\ \A n \in DOMAIN all :
             \E q \in Before(r) : all[n] = Tail(Words(q, "sample")) /\ Cardinality(Before(q)) = n
    BY <2>2 DEF Delivered
  <2>4. Len(all) <= Cardinality(SampleRecords)
    <3>1. IsFiniteSet(1 .. Len(records)) /\ SampleRecords \subseteq 1 .. Len(records)
      BY <2>1, FS_Interval DEF SampleRecords
    <3>2. IsFiniteSet(SampleRecords) /\ Before(r) \subseteq SampleRecords
      BY <3>1, FS_Subset DEF Before
    <3> QED
      BY <2>3, <3>2, FS_Subset
  <2>5. ASSUME NEW n \in DOMAIN all PROVE all[n] = Tail(Words(nth(n), "sample"))
    <3>1. PICK q \in Before(r) : all[n] = Tail(Words(q, "sample")) /\ Cardinality(Before(q)) = n
      BY <2>3
    <3>2. q \in SampleRecords
      BY DEF Before
    <3>3. \A p : Before(p) = {m \in SampleRecords : m <= p}
      BY DEF Before
    <3>4. nth(n) = q
      <4>1. /\ nth(n) = CHOOSE p \in SampleRecords : Cardinality(Before(p)) = n
        BY <3>3
      <4> HIDE DEF nth
      <4>2. nth(n) \in SampleRecords /\ Cardinality(Before(nth(n))) = n
        BY <3>1, <3>2, <4>1
      <4> QED
        BY <2>1, <3>1, <3>2, <4>2, Counted
    <3> QED
      BY <3>1, <3>4
  <2> QED
    BY <2>4, <2>5 DEF SamplesIntact
<1> QED
  BY <1>1, RingInvariance, PTL
-----------------------------------------------------------------------------
(* Numbers of lost records.                                                *)

LostOf(recs, R) == {r \in R : recs[r].type = "lost"}
Values(recs) == [r \in DOMAIN recs |-> recs[r].value]
KeptOf(recs) == {r \in DOMAIN recs : recs[r].type # "lost"}

\* All that is said to be lost in the records R.
LossesOf(recs, R) == Total(Values(recs), LostOf(recs, R))

\* LostIn, a fold that takes the records one by one, is that sum.
LEMMA LostSum ==
  ASSUME NEW recs \in Seq(Record), NEW R \in SUBSET DOMAIN recs
  PROVE  MapThenSumSet(LAMBDA r : recs[r].value, {r \in R : recs[r].type = "lost"})
           = LossesOf(recs, R)
<1> DEFINE S == {r \in R : recs[r].type = "lost"}
           v == Values(recs)
           Body(f) == f = [s \in SUBSET S |-> IF s = {} THEN 0 ELSE recs[Pick(s)].value + f[Rest(s)]]
<1>1. IsFiniteSet(S) /\ S \subseteq DOMAIN recs
  <2>1. DOMAIN recs = 1 .. Len(recs) /\ Len(recs) \in Nat
    OBVIOUS
  <2>2. IsFiniteSet(1 .. Len(recs))
    BY <2>1, FS_Interval
  <2> QED
    BY <2>1, <2>2, FS_Subset
<1>2. \A f : Body(f) <=> Sums(f, v, S)
  <2> TAKE f
  <2>1. \A s \in SUBSET S : s # {} => v[Pick(s)] = recs[Pick(s)].value
    BY <1>1, Picked DEF Values
  <2> QED
    BY <2>1 DEF Sums
<1>3. \E f : Body(f)
  BY <1>1, <1>2, SumsExist
<1>4. \E f : Body(f) /\ MapThenSumSet(LAMBDA r : recs[r].value, {r \in R : recs[r].type = "lost"}) = f[S]
  BY <1>3, Zenon DEF MapThenSumSet, MapThenFoldSet, Pick, Rest
<1>5. PICK f : Sums(f, v, S)
               /\ MapThenSumSet(LAMBDA r : recs[r].value, {r \in R : recs[r].type = "lost"}) = f[S]
  BY <1>2, <1>4
<1> QED
  BY <1>1, <1>5, TotalOf DEF LossesOf, LostOf

\* A record is added at the end.
LEMMA Appends ==
  ASSUME NEW recs \in Seq(Record), NEW new \in Record
  PROVE  LET more == Append(recs, new)
         IN /\ more \in Seq(Record) /\ DOMAIN recs \subseteq DOMAIN more
            /\ \A R \in SUBSET DOMAIN recs : LossesOf(more, R) = LossesOf(recs, R)
            /\ LossesOf(recs, DOMAIN recs) \in Nat /\ Cardinality(KeptOf(recs)) \in Nat
            /\ new.type = "lost" =>
                 /\ LossesOf(more, DOMAIN more) = LossesOf(recs, DOMAIN recs) + new.value
                 /\ KeptOf(more) = KeptOf(recs)
            /\ new.type # "lost" =>
                 /\ LossesOf(more, DOMAIN more) = LossesOf(recs, DOMAIN recs)
                 /\ Cardinality(KeptOf(more)) = Cardinality(KeptOf(recs)) + 1
<1> DEFINE more == Append(recs, new)
           n == Len(recs)
           x == n + 1
<1>1. /\ more \in Seq(Record) /\ n \in Nat /\ DOMAIN recs = 1 .. n /\ DOMAIN more = 1 .. x
      /\ more[x] = new /\ \A r \in 1 .. n : more[r] = recs[r] /\ recs[r] \in Record
  OBVIOUS
<1> HIDE DEF more, n
<1>2. /\ 1 .. x = (1 .. n) \cup {x} /\ x \notin 1 .. n /\ DOMAIN recs \subseteq DOMAIN more
      /\ x \in 1 .. x /\ new.value \in Nat
  BY <1>1 DEF Record
<1>3. IsFiniteSet(1 .. n)
  BY <1>1, FS_Interval
<1>4. ASSUME NEW R \in SUBSET DOMAIN recs
      PROVE  /\ LostOf(more, R) = LostOf(recs, R) /\ IsFiniteSet(LostOf(recs, R))
             /\ \A y \in LostOf(recs, R) :
                  Values(more)[y] = Values(recs)[y] /\ Values(recs)[y] \in Nat
  <2>1. \A y \in R : y \in 1 .. n /\ y \in DOMAIN more /\ more[y] = recs[y] /\ recs[y].value \in Nat
    BY <1>1, <1>2 DEF Record
  <2>2. LostOf(more, R) = LostOf(recs, R)
    BY <2>1 DEF LostOf
  <2>3. IsFiniteSet(LostOf(recs, R))
    BY <1>1, <1>3, FS_Subset DEF LostOf
  <2>4. ASSUME NEW y \in LostOf(recs, R)
        PROVE  Values(more)[y] = Values(recs)[y] /\ Values(recs)[y] \in Nat
    BY <2>1 DEF Values, LostOf
  <2> QED
    BY <2>2, <2>3, <2>4
<1>5. ASSUME NEW R \in SUBSET DOMAIN recs
      PROVE  LossesOf(more, R) = LossesOf(recs, R) /\ LossesOf(recs, R) \in Nat
  <2> DEFINE S == LostOf(recs, R)
             v == Values(recs)
             w == Values(more)
  <2>1. IsFiniteSet(S) /\ (\A y \in S : v[y] = w[y] /\ v[y] \in Nat) /\ LostOf(more, R) = S
    BY <1>4
  <2> HIDE DEF S, v, w
  <2>2. Total(v, S) = Total(w, S)
    BY <2>1, TotalSame
  <2>3. Total(v, S) \in Nat
    BY <2>1, TotalWithout
  <2> QED
    BY <2>1, <2>2, <2>3 DEF LossesOf, S, v, w
<1> DEFINE K == KeptOf(recs)
<1>6. IsFiniteSet(K) /\ Cardinality(K) \in Nat /\ x \notin K
  <2>1. K \subseteq 1 .. n
    BY <1>1 DEF KeptOf
  <2>2. IsFiniteSet(K)
    BY <1>3, <2>1, FS_Subset
  <2> QED
    BY <1>2, <2>1, <2>2, FS_CardinalityType
<1>7. ASSUME new.type = "lost"
      PROVE  /\ LossesOf(more, DOMAIN more) = LossesOf(recs, DOMAIN recs) + new.value
             /\ KeptOf(more) = K
  <2> DEFINE S == LostOf(recs, DOMAIN recs)
             v == Values(recs)
             w == Values(more)
  <2>1. LostOf(more, DOMAIN more) = S \cup {x} /\ x \notin S /\ w[x] = new.value
    BY <1>1, <1>2, <1>7 DEF LostOf, Values
  <2>2. IsFiniteSet(S) /\ \A y \in S : w[y] = v[y] /\ v[y] \in Nat
    BY <1>4
  <2>3. \A y \in S \cup {x} : w[y] \in Nat
    BY <1>2, <2>1, <2>2
  <2> HIDE DEF S, v, w
  <2>4. Total(w, S \cup {x}) = w[x] + Total(w, S) /\ Total(w, S) \in Nat
    BY <2>1, <2>2, <2>3, TotalWith
  <2>5. Total(w, S) = Total(v, S)
    BY <2>2, TotalSame
  <2>a. LossesOf(more, DOMAIN more) = Total(w, S \cup {x}) /\ LossesOf(recs, DOMAIN recs) = Total(v, S)
    BY <2>1, Zenon DEF LossesOf, S, v, w
  <2>6. LossesOf(more, DOMAIN more) = LossesOf(recs, DOMAIN recs) + new.value
    BY <1>2, <2>1, <2>4, <2>5, <2>a
  <2>7. KeptOf(more) = K
    BY <1>1, <1>2, <1>7 DEF KeptOf
  <2> QED
    BY <2>6, <2>7
<1>8. ASSUME new.type # "lost"
      PROVE  /\ LossesOf(more, DOMAIN more) = LossesOf(recs, DOMAIN recs)
             /\ Cardinality(KeptOf(more)) = Cardinality(K) + 1
  <2>1. LostOf(more, DOMAIN more) = LostOf(more, DOMAIN recs)
    BY <1>1, <1>2, <1>8 DEF LostOf
  <2>2. LossesOf(more, DOMAIN more) = LossesOf(recs, DOMAIN recs)
    BY <1>5, <2>1 DEF LossesOf
  <2>3. KeptOf(more) = K \cup {x}
    BY <1>1, <1>2, <1>8 DEF KeptOf
  <2> QED
    BY <1>6, <2>2, <2>3, FS_AddElement
<1> QED
  BY <1>1, <1>2, <1>5, <1>6, <1>7, <1>8 DEF more
-----------------------------------------------------------------------------
(* How far the records have been read.                                     *)

LEMMA PastPlace ==
  ASSUME TypeOK, RingInv
  PROVE  /\ Past \in 0 .. Len(records)
         /\ todo = <<>> /\ got = <<>> => Following(tail, Past)
         /\ todo # <<>> \/ got # <<>> => Past + 1 \in DOMAIN records
         /\ got # <<>> => got[1] = <<Past + 1, 1>>
         /\ todo = <<Header>> => tail < head /\ At(tail) = <<Past + 1, 1>>
<1>1. /\ records \in Seq(Record) /\ DOMAIN records = 1 .. Len(records) /\ Len(records) \in Nat
      /\ tail \in 0 .. head /\ head \in Nat
  BY DEF TypeOK, Record
<1>2. ASSUME NEW r \in 0 .. Len(records), got = <<>>, todo = <<>>, Following(tail, r) PROVE Past = r
  <2>1. CASE tail < head
    BY <1>1, <1>2, <2>1 DEF Past, Following
  <2>2. CASE ~(tail < head)
    BY <1>2, <2>2 DEF Past, Following
  <2> QED
    BY <2>1, <2>2
<1>3. ASSUME NEW r \in DOMAIN records, tail < head, At(tail) = <<r, 1>>,
             got = <<<<r, 1>>>> \/ got = <<>>
      PROVE  Past = r - 1 /\ (got # <<>> => got[1] = <<r, 1>>)
  BY <1>3 DEF Past
<1>4. ASSUME NEW r \in DOMAIN records, got # <<>>, got[1] = <<r, 1>>
      PROVE  Past = r - 1
  BY <1>4 DEF Past
<1>5. CASE todo = <<>> /\ got = <<>> /\ \E r \in 0 .. Len(records) : Following(tail, r) /\ Delivered(r)
  <2>1. PICK r \in 0 .. Len(records) : Following(tail, r)
    BY <1>5
  <2>2. Past = r
    BY <1>2, <1>5, <2>1
  <2>3. todo # <<Header>>
    BY <1>5
  <2> QED
    BY <1>5, <2>1, <2>2, <2>3
<1>6. CASE \E r : AtHeader(r)
  <2>1. PICK r : AtHeader(r)
    BY <1>6
  <2>2. /\ r \in DOMAIN records /\ tail < head /\ At(tail) = <<r, 1>> /\ todo = <<Header>>
        /\ got = <<<<r, 1>>>> \/ got = <<>>
    BY <2>1 DEF AtHeader
  <2>3. Past = r - 1 /\ (got # <<>> => got[1] = <<r, 1>>)
    BY <1>3, <2>2
  <2>4. r \in 1 .. Len(records) /\ Past + 1 = r /\ Past \in 0 .. Len(records)
    BY <1>1, <2>2, <2>3
  <2>5. todo # <<>>
    BY <2>2
  <2> QED
    BY <1>1, <2>2, <2>3, <2>4, <2>5
<1>7. CASE \E r, k : InRecord(r, k)
  <2>1. PICK r, k : InRecord(r, k)
    BY <1>7
  <2>2. r \in DOMAIN records /\ Within(r, k) /\ got # <<>> /\ got[1] = <<r, 1>>
    BY <2>1 DEF InRecord, Within
  <2>3. Past = r - 1
    BY <1>4, <2>2
  <2>4. r \in 1 .. Len(records) /\ Past + 1 = r /\ Past \in 0 .. Len(records)
    BY <1>1, <2>2, <2>3
  <2>5. todo # <<Header>>
    <3>1. Ahead(r, k, Starts[records[r].type][k], Head(todo).len)
      BY <2>2, WithinFacts DEF RingInv
    <3>2. Head(<<Header>>).op = "header" /\ <<Header>> # <<>>
      BY DEF Header
    <3> QED
      BY <3>1, <3>2 DEF Ahead
  <2> QED
    BY <2>2, <2>3, <2>4, <2>5
<1> QED
  BY <1>5, <1>6, <1>7 DEF RingInv, InStep, AtHeader, InRecord

\* What the kernel stores leaves it as it is.
LEMMA PastKept ==
  ASSUME TypeOK, RingInv, UNCHANGED readerVars, NEW ws \in Seq(Nat \X Nat), Stored(ws)
  PROVE  Past' = Past
<1>1. tail \in 0 .. head /\ head \in Nat /\ tail' = tail /\ got' = got /\ todo' = todo
  BY DEF TypeOK, readerVars
<1>2. /\ \A p \in tail .. head - 1 : AtNew(p) = At(p)
      /\ \A j \in 1 .. Len(ws) : AtNew(head + (j - 1)) = ws[j]
  <2>1. ws # <<>>
    BY WordsThere DEF Stored
  <2> QED
    BY <1>1, <2>1, Placed DEF Stored, RingInv
<1>3. head' = head + Len(ws) /\ Len(ws) \in Nat \ {0}
  BY WordsThere DEF Stored
<1>4. CASE got # <<>>
  BY <1>1, <1>4 DEF Past
<1>5. CASE got = <<>> /\ tail < head
  <2>1. AtNew(tail) = At(tail) /\ tail < head'
    BY <1>1, <1>2, <1>3, <1>5
  <2> QED
    BY <1>1, <1>5, <2>1 DEF Past, At, AtNew
<1>6. CASE got = <<>> /\ ~(tail < head)
  <2>1. Past = Len(records) /\ tail < head' /\ tail \in tail .. head
    BY <1>1, <1>3, <1>6 DEF Past
  <2>2. Following(tail, Len(records))
    BY <1>6 DEF Following
  <2>3. FollowingNew(tail, Len(records))
    BY <1>2, <1>3, <2>1, <2>2, FollowingKept DEF Stored, RingInv
  <2>4. AtNew(tail) = <<Len(records) + 1, 1>>
    BY <2>1, <2>3 DEF FollowingNew
  <2>5. Len(records) \in Nat
    BY DEF TypeOK
  <2> QED
    BY <1>1, <1>6, <2>1, <2>4, <2>5 DEF Past, At, AtNew
<1> QED
  BY <1>4, <1>5, <1>6
-----------------------------------------------------------------------------
(* Every step accounts for the losses.                                     *)

LEMMA LostInIs ==
  ASSUME TypeOK, NEW R \in SUBSET DOMAIN records
  PROVE  LostIn(R) = LossesOf(records, R) /\ Kept = KeptOf(records)
<1>1. records \in Seq(Record)
  BY DEF TypeOK, Record
<1>2. MapThenSumSet(LAMBDA r : records[r].value, {r \in R : records[r].type = "lost"})
        = LossesOf(records, R)
  BY <1>1, LostSum
<1>3. LostIn(R) = LossesOf(records, R)
  BY <1>2, Zenon DEF LostIn
<1> QED
  BY <1>3 DEF Kept, KeptOf

\* The losses, told by the records.
Tally ==
  /\ taken = missed + LossesOf(records, DOMAIN records) + Cardinality(KeptOf(records))
  /\ numLost = LossesOf(records, 1 .. Past)

LEMMA LossesTally ==
  ASSUME TypeOK, RingInv
  PROVE  Losses <=> Tally /\ NumberRead
<1>1. 1 .. Past \subseteq DOMAIN records
  <2>1. Past \in 0 .. Len(records) /\ Len(records) \in Nat
    BY PastPlace DEF TypeOK
  <2> QED
    BY <2>1 DEF TypeOK
<1>2. LostIn(DOMAIN records) = LossesOf(records, DOMAIN records) /\ Kept = KeptOf(records)
  BY LostInIs
<1>3. LostIn(1 .. Past) = LossesOf(records, 1 .. Past)
  BY <1>1, LostInIs
<1> QED
  BY <1>2, <1>3, Zenon DEF Losses, Tally

\* What the kernel's step adds to the records.
LEMMA StoreAdds ==
  ASSUME TypeOK, NEW type \in {"sample", "other"}, Store(type)
  PROVE  /\ taken' = taken + 1 /\ UNCHANGED readerVars
         /\ \/ missed' = missed + 1 /\ UNCHANGED <<ring, head, records>>
            \/ /\ missed' = 0
               /\ \E new \in Record :
                    /\ new.type # "lost"
                    /\ \/ missed = 0 /\ records' = Append(records, new)
                       \/ \E loss \in Record :
                            /\ loss.type = "lost" /\ loss.value = missed
                            /\ records' = Append(Append(records, loss), new)
<1> DEFINE n == Len(records)
           new == [type |-> type, value |-> IF type = "sample" THEN taken' ELSE 0]
           loss == [type |-> "lost", value |-> missed]
           added == IF missed = 0 THEN <<new>> ELSE <<loss, new>>
           ws == IF missed = 0 THEN Words(n + 1, type)
                               ELSE Words(n + 1, "lost") \o Words(n + 2, type)
<1>1. taken' = taken + 1 /\ UNCHANGED readerVars
  BY DEF Store
<1>2. CASE Avail + Len(ws) > Size
  BY <1>1, <1>2 DEF Store
<1>3. CASE ~(Avail + Len(ws) > Size)
  <2>1. missed' = 0 /\ records' = records \o added
    BY <1>3 DEF Store
  <2>2. records \in Seq(Record)
    BY DEF TypeOK, Record
  <2>3. /\ new \in Record /\ loss \in Record /\ new.type # "lost"
        /\ loss.type = "lost" /\ loss.value = missed
    <3>1. taken' \in Nat /\ missed \in Nat /\ DOMAIN Length = Kind
      BY Lengths DEF Store, TypeOK
    <3> QED
      BY <3>1 DEF Record, Kind
  <2> HIDE DEF new, loss
  <2>4. CASE missed = 0
    <3>1. records' = Append(records, new)
      BY <2>1, <2>2, <2>3, <2>4
    <3> QED
      BY <1>1, <2>1, <2>3, <2>4, <3>1
  <2>5. CASE missed # 0
    <3>1. records' = records \o <<loss, new>>
      BY <2>1, <2>5
    <3>2. records' = Append(Append(records, loss), new)
      BY <2>2, <2>3, <3>1
    <3> QED
      BY <1>1, <2>1, <2>3, <3>2
  <2> QED
    BY <2>4, <2>5
<1> QED
  BY <1>2, <1>3

LEMMA StoreLosses ==
  ASSUME TypeOK, RingInv, Tally, NumberRead, NEW type \in {"sample", "other"}, Store(type)
  PROVE  Tally' /\ NumberRead'
<1>1. /\ taken' = taken + 1 /\ taken \in Nat /\ missed \in Nat /\ records \in Seq(Record)
      /\ numLost' = numLost /\ got' = got /\ todo' = todo /\ copied' = copied /\ tail' = tail
  BY StoreAdds DEF TypeOK, Record, readerVars
<1>2. 1 .. Past \subseteq DOMAIN records
  <2>1. Past \in 0 .. Len(records) /\ Len(records) \in Nat
    BY PastPlace DEF TypeOK
  <2> QED
    BY <2>1 DEF TypeOK
<1>3. CASE missed' = missed + 1 /\ UNCHANGED <<ring, head, records>>
  <2>1. Past' = Past
    BY <1>1, <1>3 DEF Past, At
  <2>2. NumberRead'
    BY <1>1, <1>3 DEF NumberRead, TypeOf
  <2>3. LossesOf(records, DOMAIN records) \in Int /\ Cardinality(KeptOf(records)) \in Nat
    <3>1. PICK new \in Record : TRUE
      <4>1. [type |-> "lost", value |-> 0] \in Record
        BY Lengths DEF Record, Kind
      <4> QED
        BY <4>1
    <3> QED
      BY <1>1, Appends
  <2>4. Tally'
    <3>1. /\ LossesOf(records', DOMAIN records') = LossesOf(records, DOMAIN records)
          /\ KeptOf(records') = KeptOf(records)
          /\ LossesOf(records', 1 .. Past') = LossesOf(records, 1 .. Past)
      BY <1>3, <2>1, Zenon
    <3>2. /\ taken' = missed' + LossesOf(records', DOMAIN records') + Cardinality(KeptOf(records'))
          /\ numLost' = LossesOf(records', 1 .. Past')
      BY <1>1, <1>3, <2>3, <3>1 DEF Tally
    <3> QED
      BY <3>2 DEF Tally
  <2> QED
    BY <2>2, <2>4
<1>4. CASE /\ missed' = 0
           /\ \E new \in Record :
                /\ new.type # "lost"
                /\ \/ missed = 0 /\ records' = Append(records, new)
                   \/ \E loss \in Record :
                        /\ loss.type = "lost" /\ loss.value = missed
                        /\ records' = Append(Append(records, loss), new)
  <2>1. PICK new \in Record :
          /\ new.type # "lost"
          /\ \/ missed = 0 /\ records' = Append(records, new)
             \/ \E loss \in Record :
                  /\ loss.type = "lost" /\ loss.value = missed
                  /\ records' = Append(Append(records, loss), new)
    BY <1>4
  <2> DEFINE Adds == /\ LossesOf(records, DOMAIN records) \in Nat
                     /\ Cardinality(KeptOf(records)) \in Nat
                     /\ LossesOf(records', 1 .. Past) = LossesOf(records, 1 .. Past)
                     /\ LossesOf(records', DOMAIN records') = LossesOf(records, DOMAIN records) + missed
                     /\ Cardinality(KeptOf(records')) = Cardinality(KeptOf(records)) + 1
                     /\ \A r \in DOMAIN records : records'[r] = records[r]
                     /\ Len(records') > Len(records)
  <2>2. ASSUME missed = 0, records' = Append(records, new) PROVE Adds
    <3>1. /\ LossesOf(records, DOMAIN records) \in Nat
          /\ Cardinality(KeptOf(records)) \in Nat
          /\ LossesOf(records', 1 .. Past) = LossesOf(records, 1 .. Past)
          /\ LossesOf(records', DOMAIN records') = LossesOf(records, DOMAIN records)
          /\ Cardinality(KeptOf(records')) = Cardinality(KeptOf(records)) + 1
      BY <1>1, <1>2, <2>1, <2>2, Appends
    <3>2. /\ \A r \in DOMAIN records : records'[r] = records[r]
          /\ Len(records') > Len(records)
      BY <1>1, <2>2
    <3>3. LossesOf(records', DOMAIN records') = LossesOf(records, DOMAIN records) + missed
      BY <2>2, <3>1
    <3> QED
      BY <3>1, <3>2, <3>3
  <2>3. ASSUME NEW loss \in Record, loss.type = "lost", loss.value = missed,
               records' = Append(Append(records, loss), new)
        PROVE  Adds
    <3>1. /\ loss.type = "lost" /\ loss.value = missed
          /\ records' = Append(Append(records, loss), new)
      BY <2>3
    <3> DEFINE S == Append(records, loss)
    <3>2. /\ S \in Seq(Record) /\ DOMAIN records \subseteq DOMAIN S
          /\ LossesOf(records, DOMAIN records) \in Nat
          /\ Cardinality(KeptOf(records)) \in Nat
          /\ LossesOf(S, 1 .. Past) = LossesOf(records, 1 .. Past)
          /\ LossesOf(S, DOMAIN S) = LossesOf(records, DOMAIN records) + missed
          /\ KeptOf(S) = KeptOf(records)
      <4>1. /\ S \in Seq(Record) /\ DOMAIN records \subseteq DOMAIN S
            /\ \A R \in SUBSET DOMAIN records : LossesOf(S, R) = LossesOf(records, R)
            /\ LossesOf(records, DOMAIN records) \in Nat
            /\ Cardinality(KeptOf(records)) \in Nat
            /\ LossesOf(S, DOMAIN S) = LossesOf(records, DOMAIN records) + loss.value
            /\ KeptOf(S) = KeptOf(records)
        BY <1>1, <3>1, Appends
      <4> HIDE DEF S
      <4> QED
        BY <1>2, <3>1, <4>1, Zenon
    <3>3. \A r \in DOMAIN records : S[r] = records[r] /\ Len(S) = Len(records) + 1
      BY <1>1, <3>1
    <3> HIDE DEF S
    <3>4. 1 .. Past \subseteq DOMAIN S /\ records' = Append(S, new)
      BY <1>2, <3>1, <3>2 DEF S
    <3>5. /\ LossesOf(records', 1 .. Past) = LossesOf(S, 1 .. Past)
          /\ LossesOf(records', DOMAIN records') = LossesOf(S, DOMAIN S)
          /\ Cardinality(KeptOf(records')) = Cardinality(KeptOf(S)) + 1
      BY <2>1, <3>2, <3>4, Appends
    <3>6. \A r \in DOMAIN S : records'[r] = S[r]
      BY <3>2, <3>4
    <3>7. Len(records') > Len(records)
      <4>1. Len(S) = Len(records) + 1 /\ Len(records) \in Nat
        BY <1>1, <3>1 DEF S
      <4> QED
        BY <3>2, <3>4, <4>1
    <3>8. \A r \in DOMAIN records : records'[r] = records[r]
      BY <3>2, <3>3, <3>6, Zenon
    <3> QED
      BY <3>2, <3>5, <3>7, <3>8
  <2>4. Adds
    <3> HIDE DEF Adds
    <3> QED
      BY <2>1, <2>2, <2>3
  <2>5. \E ws \in Seq(Nat \X Nat) : Stored(ws)
    <3>1. ~ UNCHANGED <<ring, head, records>>
      BY <1>1, <2>4
    <3> QED
      BY <3>1, StoreCases
  <2>6. Past' = Past
    <3>1. UNCHANGED readerVars
      BY StoreAdds
    <3> QED
      BY <2>5, <3>1, PastKept
  <2>7. Tally'
    <3> HIDE DEF Adds
    <3>1. Adds /\ taken = missed + LossesOf(records, DOMAIN records) + Cardinality(KeptOf(records))
      BY <2>4 DEF Tally
    <3>2. taken' = missed' + LossesOf(records', DOMAIN records') + Cardinality(KeptOf(records'))
      BY <1>1, <1>4, <3>1 DEF Adds
    <3>3. LossesOf(records', 1 .. Past') = LossesOf(records, 1 .. Past)
      BY <2>6, <3>1 DEF Adds
    <3>4. numLost' = LossesOf(records', 1 .. Past')
      BY <1>1, <3>3 DEF Tally
    <3> QED
      BY <3>2, <3>4 DEF Tally
  <2>8. NumberRead'
    <3>1. CASE got # <<>>
      <4>1. got[1] = <<Past + 1, 1>> /\ Past + 1 \in DOMAIN records
        BY <3>1, PastPlace
      <4>2. records'[got[1][1]] = records[got[1][1]]
        BY <2>4, <4>1
      <4> QED
        BY <1>1, <4>2 DEF NumberRead, TypeOf
    <3>2. CASE got = <<>>
      BY <1>1, <3>2 DEF NumberRead
    <3> QED
      BY <3>1, <3>2
  <2> QED
    BY <2>7, <2>8
<1> QED
  BY <1>3, <1>4, StoreAdds

LEMMA TallySame ==
  ASSUME Tally, UNCHANGED <<taken, missed, records, numLost>>, Past' = Past
  PROVE  Tally'
BY Zenon DEF Tally

\* A copy adds words, one of them the word at the tail.
LEMMA CopyGot ==
  ASSUME TypeOK, RingInv, Copy
  PROVE  \E both \in Seq(Nat \X Nat) : /\ got' = got \o both
                                       /\ Head(todo).len = 1 => both = <<At(tail)>>
<1> DEFINE len == Head(todo).len
           both == CopyBeginning(len) \o CopyLeftover(len)
<1>1. todo # <<>> /\ Avail >= len /\ got' = got \o CopyBeginning(len) \o CopyLeftover(len)
  BY DEF Copy, ToRead
<1>2. got \in Seq(Nat \X Nat) /\ tail \in 0 .. head /\ head \in Nat
  BY DEF RingInv, SampleTypes, TypeOK
<1>3. len \in Nat
  <2>1. CASE \E r : AtHeader(r)
    <3>1. len = 1
      BY <2>1 DEF AtHeader, Header
    <3> QED
      BY <3>1
  <2>2. CASE \E r, k : InRecord(r, k)
    <3>1. PICK r, k : InRecord(r, k)
      BY <2>2
    <3>2. Ahead(r, k, Starts[records[r].type][k], len)
      BY <3>1, WithinFacts DEF RingInv, InRecord
    <3> HIDE DEF len
    <3> QED
      BY <1>1, <3>2 DEF Ahead
  <2> QED
    BY <1>1, <2>1, <2>2, InStepCases DEF RingInv
<1>4. len <= Avail
  BY <1>1, <1>2, <1>3 DEF Avail
<1>5. CopyBeginning(len) \in Seq(Nat \X Nat) /\ CopyLeftover(len) \in Seq(Nat \X Nat)
  BY <1>3, <1>4, CopyTyped DEF RingInv
<1>6. got' = got \o both /\ both \in Seq(Nat \X Nat)
  <2> DEFINE b == CopyBeginning(len)
             c == CopyLeftover(len)
  <2>1. got' = (got \o b) \o c /\ b \in Seq(Nat \X Nat) /\ c \in Seq(Nat \X Nat) /\ both = b \o c
    BY <1>1, <1>5
  <2> HIDE DEF b, c, both
  <2>2. (got \o b) \o c = got \o (b \o c)
    <3> DEFINE W == Nat \X Nat
    <3>1. got \in Seq(W) /\ b \in Seq(W) /\ c \in Seq(W)
      BY <1>2, <2>1
    <3> HIDE DEF W
    <3> QED
      BY <3>1, ConcatAssociative
  <2>3. b \o c \in Seq(Nat \X Nat)
    BY <2>1, ConcatProperties
  <2> QED
    BY <2>1, <2>2, <2>3
<1>7. ASSUME len = 1 PROVE both = <<At(tail)>>
  <2>1. len \in Nat \ {0}
    BY <1>7
  <2>2. Len(both) = 1 /\ \A j \in 1 .. 1 : both[j] = At(tail + (j - 1))
    BY <1>4, <1>7, <2>1, CopyContents DEF RingInv
  <2>3. tail + (1 - 1) = tail
    BY <1>2
  <2> HIDE DEF both, len
  <2>4. both[1] = At(tail)
    BY <2>2, <2>3
  <2> QED
    BY <1>6, <2>2, <2>4
<1> QED
  BY <1>6, <1>7

\* The parts of a lost record.
LEMMA LostPart ==
  ASSUME NEW r, NEW k, Within(r, k), records[r].type = "lost"
  PROVE  /\ k \in 1 .. 4 /\ Starts["lost"][2] = 3
         /\ k = 1 => todo = <<Skip(1), Read(1), Skip(0)>>
         /\ k = 2 => todo = <<Read(1), Skip(0)>>
         /\ k = 3 => todo = <<Skip(0)>>
         /\ k = 4 => todo = <<>>
<1>1. Layout("lost") = <<Skip(1), Read(1), Skip(0)>>
  BY DEF Layout, LostLayout, LostLen
<1>2. Starts["lost"] = <<2, 3, 4, 4>>
  BY DEF Starts, LostLen
<1>3. k \in 1 .. 4 /\ todo = SubSeq(<<Skip(1), Read(1), Skip(0)>>, k, 3)
  <2>1. k \in DOMAIN Starts["lost"] /\ todo = SubSeq(Layout("lost"), k, Len(Layout("lost")))
    BY DEF Within
  <2>2. Len(<<Skip(1), Read(1), Skip(0)>>) = 3 /\ DOMAIN <<2, 3, 4, 4>> = 1 .. 4
    OBVIOUS
  <2> QED
    BY <1>1, <1>2, <2>1, <2>2
<1>4. ASSUME NEW a, NEW b, NEW c, NEW s, s = <<a, b, c>>
      PROVE  /\ SubSeq(s, 1, 3) = <<a, b, c>> /\ SubSeq(s, 2, 3) = <<b, c>>
             /\ SubSeq(s, 3, 3) = <<c>> /\ SubSeq(s, 4, 3) = <<>>
  <2> DEFINE T == {a, b, c}
  <2>1. s \in Seq(T) /\ Len(s) = 3 /\ s[1] = a /\ s[2] = b /\ s[3] = c
    BY <1>4
  <2>2. SubSeq(s, 1, 3) = s
    BY <2>1
  <2>a. ASSUME NEW m \in 1 .. 3
        PROVE  LET t == SubSeq(s, m, 3)
               IN t \in Seq(T) /\ Len(t) = 3 - m + 1 /\ \A i \in 1 .. 3 - m + 1 : t[i] = s[m + i - 1]
    <3>1. \A i \in m .. 3 : s[i] \in T
      BY <2>1
    <3> HIDE DEF T
    <3> QED
      BY <3>1, SubSeqProperties
  <2>3. SubSeq(s, 2, 3) = <<b, c>>
    <3> DEFINE t == SubSeq(s, 2, 3)
    <3>1. t \in Seq(T) /\ Len(t) = 2 /\ t[1] = b /\ t[2] = c /\ b \in T /\ c \in T
      BY <2>1, <2>a
    <3> DEFINE u == <<b, c>>
    <3> HIDE DEF t, T
    <3>2. u \in Seq(T) /\ Len(u) = Len(t) /\ \A i \in 1 .. Len(t) : t[i] = u[i]
      BY <3>1
    <3> HIDE DEF u
    <3>3. t = u
      BY <3>1, <3>2, SeqEqual
    <3> QED
      BY <3>3 DEF t, u
  <2>4. SubSeq(s, 3, 3) = <<c>>
    <3> DEFINE t == SubSeq(s, 3, 3)
    <3>1. t \in Seq(T) /\ Len(t) = 1 /\ t[1] = c /\ c \in T
      BY <2>1, <2>a
    <3> DEFINE u == <<c>>
    <3> HIDE DEF t, T
    <3>2. u \in Seq(T) /\ Len(u) = Len(t) /\ \A i \in 1 .. Len(t) : t[i] = u[i]
      BY <3>1
    <3> HIDE DEF u
    <3>3. t = u
      BY <3>1, <3>2, SeqEqual
    <3> QED
      BY <3>3 DEF t, u
  <2>5. SubSeq(s, 4, 3) = <<>>
    BY <2>1
  <2> QED
    BY <1>4, <2>2, <2>3, <2>4, <2>5
<1>5. CASE k = 1
  BY <1>2, <1>3, <1>4, <1>5
<1>6. CASE k = 2
  BY <1>2, <1>3, <1>4, <1>6
<1>7. CASE k = 3
  BY <1>2, <1>3, <1>4, <1>7
<1>8. CASE k = 4
  BY <1>2, <1>3, <1>4, <1>8
<1> QED
  BY <1>3, <1>5, <1>6, <1>7, <1>8

LEMMA BeginLosses ==
  ASSUME Tally, BeginRecord
  PROVE  Tally' /\ NumberRead'
<1>1. /\ got = <<>> /\ got' = got /\ UNCHANGED <<taken, missed, records, numLost, ring, head, tail>>
  BY DEF BeginRecord, kernelVars
<1>2. Past' = Past
  BY <1>1 DEF Past, At
<1>3. NumberRead'
  BY <1>1 DEF NumberRead
<1> QED
  BY <1>1, <1>2, <1>3, TallySame

LEMMA CopyLosses ==
  ASSUME TypeOK, Reading, RingInv, Tally, NumberRead, Copy
  PROVE  Tally' /\ NumberRead'
<1>1. /\ todo # <<>> /\ Head(todo).op # "skip" /\ ~copied /\ copied' = TRUE /\ todo' = todo
      /\ UNCHANGED <<taken, missed, records, numLost, ring, head, tail>>
  BY DEF Copy, ToRead, kernelVars
<1>2. PICK both \in Seq(Nat \X Nat) : /\ got' = got \o both
                                      /\ Head(todo).len = 1 => both = <<At(tail)>>
  BY CopyGot
<1>3. CASE \E r : AtHeader(r)
  <2>1. PICK r : AtHeader(r)
    BY <1>3
  <2>2. todo = <<Header>> /\ Head(todo).len = 1 /\ got = <<>> /\ At(tail) = <<r, 1>> /\ tail < head
    BY <1>1, <2>1 DEF AtHeader, Header
  <2>3. got' = <<<<r, 1>>>>
    BY <1>2, <2>2
  <2>4. Past' = Past
    BY <1>1, <2>2, <2>3 DEF Past
  <2>5. NumberRead'
    BY <1>1, <2>2 DEF NumberRead
  <2> QED
    BY <1>1, <2>4, <2>5, TallySame
<1>4. CASE \E r, k : InRecord(r, k)
  <2>1. PICK r, k : InRecord(r, k)
    BY <1>4
  <2>2. /\ r \in DOMAIN records /\ Within(r, k) /\ got # <<>> /\ got[1] = <<r, 1>>
        /\ got \in Seq(Nat \X Nat)
    BY <2>1 DEF InRecord, Within, RingInv, SampleTypes
  <2>3. got' # <<>> /\ got'[1] = <<r, 1>>
    <3>1. Len(got) \in Nat \ {0} /\ Len(both) \in Nat
      BY <2>2
    <3>2. Len(got') = Len(got) + Len(both) /\ got'[1] = got[1]
      BY <1>2, <2>2, <3>1, ConcatProperties, SMTT(30)
    <3>3. Len(got') # 0
      BY <3>1, <3>2
    <3> QED
      BY <2>2, <3>2, <3>3
  <2>4. Past' = Past
    BY <2>2, <2>3 DEF Past
  <2>5. todo # <<Header>>
    <3>1. Ahead(r, k, Starts[records[r].type][k], Head(todo).len)
      BY <2>2, WithinFacts DEF RingInv
    <3>2. Head(<<Header>>).op = "header" /\ <<Header>> # <<>>
      BY DEF Header
    <3> QED
      BY <3>1, <3>2 DEF Ahead
  <2>6. ASSUME records[r].type = "lost" PROVE got' = <<<<r, 1>>, <<r, 3>>>>
    <3>1. k = 2 /\ todo = <<Read(1), Skip(0)>> /\ Starts["lost"][2] = 3
      <4>1. Head(todo).op # "skip"
        BY <1>1
      <4> QED
        BY <1>1, <2>2, <2>6, <4>1, LostPart DEF Skip
    <3>2. Head(todo).len = 1 /\ Head(todo) # Skip(0) /\ todo # <<>>
      BY <3>1 DEF Read, Skip
    <3>3. At(tail) = <<r, 3>>
      <4>1. LengthOf(r) = 3
        BY <2>6, Lengths DEF LengthOf
      <4> QED
        BY <2>2, <2>6, <3>1, <4>1 DEF Within
    <3>4. got = <<<<r, 1>>>>
      BY <1>1, <2>2, <2>5, <2>6, <3>2 DEF NumberRead, TypeOf
    <3> DEFINE a == <<r, 1>>
               b == <<r, 3>>
    <3>n. r \in Nat
      BY <2>2 DEF TypeOK
    <3>5. got' = got \o <<b>> /\ got = <<a>> /\ a \in Nat \X Nat /\ b \in Nat \X Nat
      BY <1>2, <3>2, <3>3, <3>4, <3>n
    <3> HIDE DEF a, b
    <3>6. got' \in Seq(Nat \X Nat) /\ Len(got') = 2 /\ got'[1] = a /\ got'[2] = b
      BY <3>5
    <3>7. got' = <<a, b>>
      BY <3>6
    <3> QED
      BY <3>7 DEF a, b
  <2>7. NumberRead'
    BY <1>1, <2>3, <2>6 DEF NumberRead, TypeOf
  <2> QED
    BY <1>1, <2>4, <2>7, TallySame
<1> QED
  BY <1>1, <1>3, <1>4, InStepCases DEF RingInv

LEMMA AdvanceLosses ==
  ASSUME TypeOK, Reading, RingInv, Tally, NumberRead, Advance
  PROVE  Tally' /\ NumberRead'
<1>1. /\ todo # <<>> /\ Head(todo).op # "skip" /\ copied /\ copied' = FALSE /\ todo' = After(got)
      /\ UNCHANGED <<taken, missed, records, numLost, ring, head, got>>
  BY DEF Advance, Reading, ToRead, kernelVars
<1>2. ASSUME NEW r, got # <<>>, got[1] = <<r, 1>>,
             records[r].type = "lost" /\ todo' # <<Header>> =>
                 got = IF todo' = <<>> \/ Head(todo') = Skip(0) THEN <<<<r, 1>>, <<r, 3>>>>
                       ELSE <<<<r, 1>>>>
      PROVE  Tally' /\ NumberRead'
  <2>1. Past' = Past
    BY <1>1, <1>2 DEF Past
  <2>2. NumberRead'
    BY <1>1, <1>2 DEF NumberRead, TypeOf
  <2> QED
    BY <1>1, <2>1, <2>2, TallySame
<1>3. CASE \E r : AtHeader(r)
  <2>1. PICK r : AtHeader(r)
    BY <1>3
  <2>2. todo = <<Header>> /\ Head(todo).op = "header" /\ got = <<<<r, 1>>>>
    BY <1>1, <2>1 DEF AtHeader, Header
  <2>3. ASSUME records[r].type = "lost" PROVE todo' # <<>> /\ Head(todo') # Skip(0)
    <3>1. todo' = <<Skip(1), Read(1), Skip(0)>>
      BY <1>1, <2>2, <2>3 DEF After, TypeOf, Layout, LostLayout, LostLen
    <3> QED
      BY <3>1 DEF Skip
  <2> QED
    BY <1>2, <2>2, <2>3
<1>4. CASE \E r, k : InRecord(r, k)
  <2>1. PICK r, k : InRecord(r, k)
    BY <1>4
  <2>2. /\ r \in DOMAIN records /\ Within(r, k) /\ got # <<>> /\ got[1] = <<r, 1>>
    BY <2>1 DEF InRecord, Within
  <2>3. todo # <<Header>> /\ todo' = Tail(todo)
    <3>1. Ahead(r, k, Starts[records[r].type][k], Head(todo).len)
      BY <2>2, WithinFacts DEF RingInv
    <3>2. Head(<<Header>>).op = "header" /\ <<Header>> # <<>>
      BY DEF Header
    <3>3. Head(todo).op # "header"
      BY <1>1, <3>1 DEF Ahead
    <3> QED
      BY <1>1, <3>2, <3>3 DEF After
  <2>4. ASSUME records[r].type = "lost"
        PROVE  todo' = <<Skip(0)>> /\ got = <<<<r, 1>>, <<r, 3>>>>
    <3>1. todo = <<Read(1), Skip(0)>>
      BY <1>1, <2>2, <2>4, LostPart DEF Skip
    <3>2. got = <<<<r, 1>>, <<r, 3>>>>
      BY <1>1, <2>2, <2>3, <2>4 DEF NumberRead, TypeOf
    <3> QED
      BY <2>3, <3>1, <3>2
  <2> QED
    BY <1>2, <2>2, <2>4
<1> QED
  BY <1>1, <1>3, <1>4, InStepCases DEF RingInv

LEMMA SkipLosses ==
  ASSUME TypeOK, Reading, RingInv, Tally, NumberRead, SkipPart
  PROVE  Tally' /\ NumberRead'
<1>1. /\ todo # <<>> /\ Head(todo).op = "skip" /\ ~copied /\ copied' = copied /\ todo' = Tail(todo)
      /\ UNCHANGED <<taken, missed, records, numLost, ring, head, got>>
  BY DEF SkipPart, Reading, ToRead, kernelVars
<1>2. PICK r, k : InRecord(r, k)
  <2>1. \A r : ~AtHeader(r)
    BY <1>1 DEF AtHeader, Header
  <2> QED
    BY <1>1, <2>1, InStepCases DEF RingInv
<1>3. /\ r \in DOMAIN records /\ Within(r, k) /\ got # <<>> /\ got[1] = <<r, 1>>
  BY <1>2 DEF InRecord, Within
<1>4. todo # <<Header>>
  BY <1>1 DEF Header
<1>5. Past' = Past
  BY <1>1, <1>3 DEF Past
<1>6. ASSUME records[r].type = "lost"
      PROVE  got = IF todo' = <<>> \/ Head(todo') = Skip(0) THEN <<<<r, 1>>, <<r, 3>>>>
                   ELSE <<<<r, 1>>>>
  <2>1. k = 1 \/ k = 3
    BY <1>1, <1>3, <1>6, LostPart DEF Read
  <2>2. CASE k = 1
    <3>1. todo = <<Skip(1), Read(1), Skip(0)>>
      BY <1>3, <1>6, <2>2, LostPart
    <3>2. Head(todo) # Skip(0) /\ todo' # <<>> /\ Head(todo') # Skip(0)
      BY <1>1, <3>1 DEF Skip, Read
    <3>3. got = <<<<r, 1>>>>
      BY <1>1, <1>3, <1>4, <1>6, <3>2 DEF NumberRead, TypeOf
    <3> QED
      BY <3>2, <3>3
  <2>3. CASE k = 3
    <3>1. todo = <<Skip(0)>>
      BY <1>3, <1>6, <2>3, LostPart
    <3>2. Head(todo) = Skip(0) /\ todo' = <<>>
      BY <1>1, <3>1
    <3>3. got = <<<<r, 1>>, <<r, 3>>>>
      BY <1>1, <1>3, <1>4, <1>6, <3>2 DEF NumberRead, TypeOf
    <3> QED
      BY <3>2, <3>3
  <2> QED
    BY <2>1, <2>2, <2>3
<1>7. NumberRead'
  BY <1>1, <1>3, <1>6 DEF NumberRead, TypeOf
<1> QED
  BY <1>1, <1>5, <1>7, TallySame

\* One record more.
LEMMA LossesNext ==
  ASSUME NEW recs \in Seq(Record), NEW R \in SUBSET DOMAIN recs, NEW x \in DOMAIN recs, x \notin R
  PROVE  /\ LossesOf(recs, R) \in Nat
         /\ LossesOf(recs, R \cup {x}) =
              LossesOf(recs, R) + IF recs[x].type = "lost" THEN recs[x].value ELSE 0
<1> DEFINE S == LostOf(recs, R)
           v == Values(recs)
<1>1. IsFiniteSet(S) /\ \A y \in S \cup {x} : v[y] \in Nat
  <2>1. IsFiniteSet(1 .. Len(recs)) /\ DOMAIN recs = 1 .. Len(recs)
    BY FS_Interval
  <2>2. IsFiniteSet(S)
    BY <2>1, FS_Subset DEF LostOf
  <2>3. ASSUME NEW y \in DOMAIN recs PROVE v[y] \in Nat
    <3>1. recs[y] \in Record
      OBVIOUS
    <3> QED
      BY <3>1 DEF Values, Record
  <2> QED
    BY <2>2, <2>3 DEF LostOf
<1>2. x \notin S /\ v[x] = recs[x].value
  BY DEF LostOf, Values
<1>3. LostOf(recs, R \cup {x}) = IF recs[x].type = "lost" THEN S \cup {x} ELSE S
  BY DEF LostOf
<1> HIDE DEF S, v
<1>4. Total(v, S) \in Nat /\ Total(v, S \cup {x}) = v[x] + Total(v, S) /\ v[x] \in Nat
  BY <1>1, <1>2, TotalWith
<1>5. /\ LossesOf(recs, R) = Total(v, S)
      /\ LossesOf(recs, R \cup {x}) = IF recs[x].type = "lost" THEN Total(v, S \cup {x}) ELSE Total(v, S)
  BY <1>3, Zenon DEF LossesOf, S, v
<1> QED
  BY <1>2, <1>4, <1>5

LEMMA EndLosses ==
  ASSUME TypeOK, Reading, RingInv, Tally, NumberRead, EndRecord
  PROVE  Tally' /\ NumberRead'
<1> DEFINE r == Past + 1
<1>1. /\ todo = <<>> /\ got # <<>> /\ got' = <<>> /\ ~copied
      /\ numLost' = IF TypeOf(got[1]) = "lost" THEN numLost + Number(got[2]) ELSE numLost
      /\ UNCHANGED <<taken, missed, records, ring, head, tail>>
  BY DEF EndRecord, Reading, ToRead, kernelVars
<1>2. /\ r \in DOMAIN records /\ got[1] = <<r, 1>> /\ Past \in 0 .. Len(records)
      /\ records \in Seq(Record) /\ Len(records) \in Nat
  BY <1>1, PastPlace DEF TypeOK, Record
<1>3. Following(tail, r)
  <2>1. PICK q \in DOMAIN records : \E k \in 1 .. 5 : Within(q, k)
    BY <1>1 DEF RingInv, InStep
  <2>2. PICK k \in 1 .. 5 : Within(q, k)
    BY <2>1
  <2>3. q = r
    <3>1. got[1] = <<q, 1>>
      BY <2>2 DEF Within
    <3> HIDE DEF r
    <3> QED
      BY <1>2, <3>1
  <2>4. Ahead(q, k, Starts[records[q].type][k], Head(todo).len)
    BY <2>2, WithinFacts DEF RingInv
  <2>5. Following(tail, q)
    BY <1>1, <2>4 DEF Ahead, Comes
  <2> QED
    BY <2>3, <2>5
<1>4. Past' = r
  <2>1. Past' = IF tail < head THEN At(tail)[1] - 1 ELSE Len(records)
    BY <1>1 DEF Past, At
  <2> HIDE DEF r
  <2> QED
    BY <1>2, <1>3, <2>1 DEF Following
<1>5. numLost' = numLost + IF records[r].type = "lost" THEN records[r].value ELSE 0
  <2>1. TypeOf(got[1]) = records[r].type
    BY <1>2 DEF TypeOf
  <2>2. CASE records[r].type = "lost"
    <3>1. got[2] = <<r, 3>>
      <4>1. todo # <<Header>>
        BY <1>1
      <4> HIDE DEF r
      <4>2. got = <<<<r, 1>>, <<r, 3>>>>
        BY <1>1, <1>2, <2>1, <2>2, <4>1 DEF NumberRead
      <4> QED
        BY <4>2
    <3> HIDE DEF r
    <3>2. Number(got[2]) = records[r].value
      BY <2>2, <3>1 DEF Number, TypeOf
    <3> QED
      BY <1>1, <2>1, <2>2, <3>2
  <2>3. CASE records[r].type # "lost"
    <3>1. numLost \in Nat
      <4>1. 1 .. Past \subseteq DOMAIN records /\ r \notin 1 .. Past
        BY <1>2
      <4>2. LossesOf(records, 1 .. Past) \in Nat
        BY <1>2, <4>1, LossesNext
      <4> QED
        BY <4>2 DEF Tally
    <3> QED
      BY <1>1, <2>1, <2>3, <3>1
  <2> QED
    BY <2>2, <2>3
<1>6. LossesOf(records, 1 .. r) =
        LossesOf(records, 1 .. Past) + IF records[r].type = "lost" THEN records[r].value ELSE 0
  <2>1. 1 .. Past \subseteq DOMAIN records /\ r \notin 1 .. Past /\ 1 .. r = (1 .. Past) \cup {r}
    BY <1>2
  <2> HIDE DEF r
  <2>2. LossesOf(records, (1 .. Past) \cup {r}) =
          LossesOf(records, 1 .. Past) + IF records[r].type = "lost" THEN records[r].value ELSE 0
    BY <1>2, <2>1, LossesNext
  <2> QED
    BY <2>1, <2>2, Zenon
<1> HIDE DEF r
<1>7. numLost' = LossesOf(records', 1 .. Past')
  <2>1. LossesOf(records', 1 .. Past') = LossesOf(records, 1 .. r)
    BY <1>1, <1>4, Zenon
  <2> QED
    BY <1>5, <1>6, <2>1 DEF Tally
<1>8. taken' = missed' + LossesOf(records', DOMAIN records') + Cardinality(KeptOf(records'))
  BY <1>1, Zenon DEF Tally
<1>9. NumberRead'
  BY <1>1 DEF NumberRead
<1> QED
  BY <1>7, <1>8, <1>9 DEF Tally

LEMMA NextLosses == IInv /\ RingInv /\ Tally /\ NumberRead /\ [Next]_vars => Tally' /\ NumberRead'
<1> SUFFICES ASSUME IInv, RingInv, Tally, NumberRead, [Next]_vars PROVE Tally' /\ NumberRead'
  OBVIOUS
<1>1. TypeOK /\ Reading
  BY DEF IInv
<1>2. CASE Drain
  BY <1>1, <1>2, BeginLosses, CopyLosses, AdvanceLosses, SkipLosses, EndLosses DEF Drain, ReadStep
<1>3. CASE Sampled
  <2>1. PICK type \in {"sample", "other"} : Store(type)
    BY <1>3 DEF Sampled
  <2> QED
    BY <1>1, <2>1, StoreLosses
<1>4. ASSUME UNCHANGED <<kernelVars, tail, todo, copied, got, numLost>> PROVE Tally' /\ NumberRead'
  <2>1. Past' = Past
    BY <1>4 DEF Past, At, kernelVars
  <2>2. NumberRead'
    BY <1>4 DEF NumberRead, TypeOf, kernelVars
  <2>3. UNCHANGED <<taken, missed, records, numLost>>
    BY <1>4 DEF kernelVars
  <2> QED
    BY <2>1, <2>2, <2>3, TallySame
<1>5. CASE Commit \/ Loop \/ Poll \/ Stop \/ Kill \/ Destroy
  BY <1>4, <1>5 DEF Commit, Loop, Poll, Stop, Kill, Destroy, readerVars
<1>6. ASSUME NEW w \in Thread, Wait(w) PROVE Tally' /\ NumberRead'
  BY <1>4, <1>6 DEF Wait, Waitpid, StoreStatus, TestExited, TestSignaled, readerVars
<1>7. CASE WatcherStarts \/ WatcherEnds \/ Timeout
  BY <1>4, <1>7 DEF WatcherStarts, WatcherEnds, Timeout, readerVars
<1>8. CASE ChildExecs \/ ChildEnds \/ ChildStops \/ Finished \/ UNCHANGED vars
  BY <1>4, <1>8 DEF ChildExecs, ChildEnds, ChildStops, Finished, vars, readerVars
<1>9. CASE Start
  BY <1>4, <1>9 DEF Start, SetUp, Fork, SetOptions, EarlyWait, Ready, NoModule, Step, StepFails,
       Reached, Insert, SetupEvents, Cont, Abort, Proceed, readerVars
<1> QED
  BY <1>2, <1>3, <1>5, <1>6, <1>7, <1>8, <1>9 DEF Next, MainStep, WatcherStep, Thread
-----------------------------------------------------------------------------
(* What is not read yet.                                                   *)

LEMMA UnreadIs ==
  ASSUME TypeOK, RingInv, todo = <<>>, got = <<>>
  PROVE  Unread = Past + 1 .. Len(records)
<1>1. /\ tail \in Nat /\ head \in Nat /\ tail <= head /\ Len(records) \in Nat
      /\ DOMAIN records = 1 .. Len(records)
      /\ Past \in 0 .. Len(records) /\ Following(tail, Past)
  BY PastPlace DEF TypeOK
<1>2. Unread = {At(p)[1] : p \in tail .. head - 1}
  BY DEF Unread, At
<1>3. ASSUME NEW p \in tail .. head - 1
      PROVE  /\ At(p)[1] \in DOMAIN records /\ At(p)[1] \in Nat
             /\ p + 1 < head => At(p + 1)[1] \in {At(p)[1], At(p)[1] + 1}
             /\ \E q \in tail .. head : Following(q, At(p)[1])
  <2> DEFINE r == At(p)[1]
             i == At(p)[2]
  <2>1. /\ r \in DOMAIN records /\ i \in 1 .. LengthOf(r)
        /\ \A k \in 1 .. LengthOf(r) - i : p + k < head /\ At(p + k) = <<r, i + k>>
        /\ Following(p + LengthOf(r) - i + 1, r)
    BY DEF RingInv, Whole
  <2>2. LengthOf(r) \in Nat /\ p \in Nat
    <3>1. records \in Seq(Record)
      BY DEF TypeOK, Record
    <3> HIDE DEF r
    <3> QED
      BY <1>1, <2>1, <3>1, RecordLength DEF LengthOf
  <2> HIDE DEF r, i
  <2>3. CASE i < LengthOf(r)
    <3> DEFINE k == LengthOf(r) - i
    <3>1. k \in 1 .. LengthOf(r) - i /\ 1 \in 1 .. LengthOf(r) - i
      BY <2>1, <2>2, <2>3
    <3>2. At(p + 1) = <<r, i + 1>> /\ p + k < head
      BY <2>1, <3>1
    <3>3. p + LengthOf(r) - i + 1 \in tail .. head
      <4> DEFINE len == LengthOf(r)
      <4>1. len \in Nat /\ i \in 1 .. len /\ p + (len - i) < head /\ p \in tail .. head - 1
        BY <2>1, <2>2, <3>2
      <4> HIDE DEF len
      <4>2. p + len - i + 1 \in tail .. head
        BY <1>1, <4>1
      <4> QED
        BY <4>2 DEF len
    <3> QED
      BY <1>1, <2>1, <3>2, <3>3 DEF r
  <2>4. CASE ~(i < LengthOf(r))
    <3>1. p + LengthOf(r) - i + 1 = p + 1 /\ p + 1 \in tail .. head
      BY <1>1, <2>1, <2>2, <2>4
    <3>2. Following(p + 1, r)
      BY <2>1, <3>1
    <3>3. p + 1 < head => At(p + 1)[1] = r + 1
      BY <3>2 DEF Following
    <3> QED
      BY <1>1, <2>1, <3>1, <3>2, <3>3 DEF r
  <2> QED
    BY <2>3, <2>4
<1>4. ASSUME NEW p \in tail .. head - 1 PROVE At(p)[1] > Past
  <2> DEFINE C == {q \in tail .. head - 1 : ~ (At(q)[1] > Past)}
  <2> SUFFICES ASSUME C # {} PROVE FALSE
    OBVIOUS
  <2>0. C \subseteq Nat
    BY <1>1
  <2>1. \E m \in C : \A n \in C : m <= n
    <3> HIDE DEF C
    <3> QED
      BY <2>0, Least
  <2>2. PICK m \in C : \A n \in C : m <= n
    BY <2>1
  <2>3. m \in tail .. head - 1 /\ ~ (At(m)[1] > Past)
    OBVIOUS
  <2>4. CASE m = tail
    <3>0. tail < head
      BY <1>1, <2>3, <2>4
    <3>1. At(tail)[1] = Past + 1
      <4>1. At(tail) = <<Past + 1, 1>>
        BY <1>1, <3>0 DEF Following
      <4> QED
        BY <4>1
    <3> QED
      BY <1>1, <2>3, <2>4, <3>1
  <2>5. CASE m # tail
    <3> DEFINE p1 == m - 1
    <3>1. p1 \in tail .. head - 1 /\ p1 + 1 = m /\ p1 < m /\ p1 \in Nat /\ m < head /\ m \in Nat
      BY <1>1, <2>3, <2>5
    <3>2. p1 \notin C
      BY <2>2, <3>1
    <3>3. At(p1)[1] > Past
      BY <3>1, <3>2
    <3> HIDE DEF p1
    <3>4. At(m)[1] \in {At(p1)[1], At(p1)[1] + 1} /\ At(p1)[1] \in Nat
      BY <1>3, <3>1
    <3> QED
      BY <1>1, <2>3, <3>3, <3>4
  <2> QED
    BY <2>4, <2>5
<1>5. ASSUME NEW r \in Past + 1 .. Len(records) PROVE \E p \in tail .. head - 1 : At(p)[1] = r
  <2> DEFINE C == {q \in Past + 1 .. Len(records) : ~ \E p \in tail .. head - 1 : At(p)[1] = q}
  <2> SUFFICES ASSUME C # {} PROVE FALSE
    OBVIOUS
  <2>0. C \subseteq Nat
    BY <1>1
  <2>1. \E m \in C : \A n \in C : m <= n
    <3> HIDE DEF C
    <3> QED
      BY <2>0, Least
  <2>2. PICK m \in C : \A n \in C : m <= n
    BY <2>1
  <2>3. m \in Past + 1 .. Len(records) /\ ~ \E p \in tail .. head - 1 : At(p)[1] = m
    OBVIOUS
  <2>4. ASSUME NEW q \in tail .. head, Following(q, m - 1) PROVE FALSE
    <3>1. CASE q < head
      <4>1. At(q) = <<(m - 1) + 1, 1>>
        BY <2>4, <3>1 DEF Following
      <4>2. At(q)[1] = m /\ q \in tail .. head - 1
        BY <1>1, <2>3, <3>1, <4>1
      <4> QED
        BY <2>3, <4>2
    <3>2. CASE ~(q < head)
      <4>1. m - 1 = Len(records)
        BY <2>4, <3>2 DEF Following
      <4> QED
        BY <1>1, <2>3, <4>1
    <3> QED
      BY <3>1, <3>2
  <2>5. CASE m = Past + 1
    <3>1. m - 1 = Past /\ tail \in tail .. head
      BY <1>1, <2>5
    <3> QED
      BY <1>1, <2>4, <3>1
  <2>6. CASE m # Past + 1
    <3> DEFINE m1 == m - 1
    <3>1. m1 \in Past + 1 .. Len(records) /\ m1 < m /\ m1 \in Nat
      BY <1>1, <2>3, <2>6
    <3>2. m1 \notin C
      BY <1>1, <2>2, <2>3, <3>1
    <3>3. PICK p \in tail .. head - 1 : At(p)[1] = m1
      BY <3>1, <3>2
    <3>4. PICK q \in tail .. head : Following(q, m1)
      BY <1>3, <3>3
    <3> QED
      BY <2>4, <3>4
  <2> QED
    BY <2>5, <2>6
<1>6. ASSUME NEW p \in tail .. head - 1 PROVE At(p)[1] \in Past + 1 .. Len(records)
  BY <1>1, <1>3, <1>4
<1> QED
  BY <1>2, <1>5, <1>6

\* The kernel stores or counts every loss, and num_lost_ has those of the records
\* read to their end: the invariant behind LostAccounted.
THEOREM LossInvariance == Spec => [](TypeOK /\ RingInv /\ Losses)
<1>1. Init => Tally /\ NumberRead
  <2> SUFFICES ASSUME Init PROVE Tally /\ NumberRead
    OBVIOUS
  <2>1. /\ head = 0 /\ tail = 0 /\ records = <<>> /\ got = <<>> /\ numLost = 0 /\ missed = 0 /\ taken = 0
    BY DEF Init, RingInit
  <2>2. Past = 0
    BY <2>1 DEF Past
  <2>3. LostOf(records, DOMAIN records) = {} /\ LostOf(records, 1 .. Past) = {} /\ KeptOf(records) = {}
    BY <2>1, <2>2 DEF LostOf, KeptOf
  <2>4. LossesOf(records, DOMAIN records) = 0 /\ LossesOf(records, 1 .. Past) = 0
    BY <2>3, TotalNone DEF LossesOf
  <2>5. Cardinality(KeptOf(records)) = 0
    BY <2>3, FS_EmptySet
  <2> QED
    BY <2>1, <2>4, <2>5 DEF Tally, NumberRead
<1>2. Init => IInv /\ RingInv /\ (Tally /\ NumberRead)
  BY <1>1, InitInvariant, InitRing
<1>3. (IInv /\ RingInv /\ (Tally /\ NumberRead)) /\ [Next]_vars
        => (IInv /\ RingInv /\ (Tally /\ NumberRead))'
  BY NextInvariant, NextRing, NextLosses
<1>4. IInv /\ RingInv /\ (Tally /\ NumberRead) => TypeOK /\ RingInv /\ Losses
  BY LossesTally DEF IInv
<1> QED
  BY <1>2, <1>3, <1>4, PTL DEF Spec

\* Between two records num_lost_, the losses in the ring and those not yet
\* stored are, with the records stored, all there were to store: for every size
\* of the ring and of the records, in whatever order the kernel and the reader
\* take their steps.
THEOREM LostAccountedAlways == Spec => []LostAccounted
<1>1. TypeOK /\ RingInv /\ Losses => LostAccounted
  <2> SUFFICES ASSUME TypeOK, RingInv, Tally, todo = <<>>, got = <<>>
               PROVE  taken = numLost + LostIn(Unread) + missed + Cardinality(Kept)
    BY LossesTally DEF LostAccounted, Kept
  <2> DEFINE A == 1 .. Past
             B == Past + 1 .. Len(records)
             v == Values(records)
             S == LostOf(records, A)
             T == LostOf(records, B)
  <2>1. /\ records \in Seq(Record) /\ Len(records) \in Nat /\ Past \in 0 .. Len(records)
        /\ DOMAIN records = 1 .. Len(records)
    BY PastPlace DEF TypeOK, Record
  <2>2. A \subseteq DOMAIN records /\ B \subseteq DOMAIN records /\ DOMAIN records = A \cup B
        /\ A \cap B = {}
    BY <2>1
  <2>3. /\ LostIn(Unread) = LossesOf(records, B) /\ Kept = KeptOf(records)
    <3>1. LostIn(B) = LossesOf(records, B) /\ Kept = KeptOf(records)
      BY <2>2, LostInIs
    <3>2. Unread = B
      BY UnreadIs
    <3> QED
      BY <3>1, <3>2, Zenon
  <2> HIDE DEF A, B
  <2>4. IsFiniteSet(S) /\ IsFiniteSet(T) /\ \A y \in S \cup T : v[y] \in Nat
    <3>1. IsFiniteSet(DOMAIN records)
      BY <2>1, FS_Interval
    <3>2. \A y \in DOMAIN records : records[y].value \in Nat
      <4> TAKE y \in DOMAIN records
      <4>1. records[y] \in Record
        BY <2>1
      <4> QED
        BY <4>1 DEF Record
    <3>3. S \subseteq DOMAIN records /\ T \subseteq DOMAIN records
      BY <2>2 DEF LostOf
    <3> QED
      BY <3>1, <3>2, <3>3, FS_Subset DEF Values
  <2>5. S \cap T = {} /\ LostOf(records, DOMAIN records) = S \cup T
    BY <2>2 DEF LostOf
  <2> HIDE DEF S, T, v
  <2>6. Total(v, S \cup T) = Total(v, S) + Total(v, T)
    BY <2>4, <2>5, TotalUnion
  <2>7. Total(v, S) \in Nat /\ Total(v, T) \in Nat
    BY <2>4, TotalWithout
  <2>8. /\ LossesOf(records, DOMAIN records) = Total(v, S \cup T)
        /\ LossesOf(records, A) = Total(v, S) /\ LossesOf(records, B) = Total(v, T)
    BY <2>5, Zenon DEF LossesOf, S, T, v
  <2>9. /\ numLost = Total(v, S) /\ LostIn(Unread) = Total(v, T)
        /\ taken = missed + (Total(v, S) + Total(v, T)) + Cardinality(Kept)
    BY <2>3, <2>6, <2>8, Zenon DEF Tally, A
  <2>10. missed \in Nat /\ Cardinality(Kept) \in Nat
    <3>1. Kept \subseteq DOMAIN records /\ IsFiniteSet(DOMAIN records)
      BY <2>1, FS_Interval DEF Kept
    <3> QED
      BY <3>1, FS_Subset, FS_CardinalityType DEF TypeOK
  <2> QED
    BY <2>7, <2>9, <2>10
<1> QED
  BY <1>1, LossInvariance, PTL
=============================================================================
