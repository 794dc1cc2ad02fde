--------------------------- MODULE AccessLogProof ---------------------------
(***************************************************************************)
(* Proofs about the logs of a traced run, for every size of the buffers,   *)
(* limit and program: nothing written is lost, chop-detrace attributes     *)
(* every page to its trace, and chop-detrace-mem lists every access.       *)
(***************************************************************************)
EXTENDS AccessLog, FiniteSetsExt, FiniteSetTheorems, NaturalsInduction, WellFoundedInduction, TLAPS
-----------------------------------------------------------------------------
(* Folds over sequences.  FoldLeft takes the indices of a sequence out of  *)
(* their set one by one, the largest first.  The function g says how the   *)
(* i-th element takes value a to g[<<a, i>>].                              *)

\* A finite set has no infinite descent: some set of a collection has none of the others within it.
LEMMA Smallest ==
  ASSUME NEW S, IsFiniteSet(S), NEW C, C \subseteq SUBSET S, C # {}
  PROVE  \E m \in C : \A t \in C : t \subseteq m => t = m
<1>1. IsWellFoundedOn(StrictSubsetOrdering(S), SUBSET S)
  BY FS_StrictSubsetOrderingWellFounded, FS_FiniteSubsetsOfFinite
<1>2. PICK m \in C : \A t \in C : ~ (<<t, m>> \in StrictSubsetOrdering(S))
  BY <1>1, WFMin
<1>3. \A t \in C : t \subseteq m => t = m
  BY <1>2 DEF StrictSubsetOrdering
<1> QED
  BY <1>3

\* A set of numbers has a least one.
LEMMA Least ==
  ASSUME NEW C, C \subseteq Nat, C # {}
  PROVE  \E m \in C : \A n \in C : m <= n
<1>1. PICK m \in C : \A n \in C : ~ (<<n, m>> \in OpToRel(<, Nat))
  BY NatLessThanWellFounded, WFMin
<1>2. ASSUME NEW n \in C PROVE m <= n
  <2>1. ~ (<<n, m>> \in OpToRel(<, Nat))
    BY <1>1
  <2>2. m \in Nat /\ n \in Nat
    OBVIOUS
  <2>3. ~ (n < m)
    BY <2>1, <2>2 DEF OpToRel
  <2> QED
    BY <2>2, <2>3
<1> QED
  BY <1>2

LEMMA MaxOf ==
  ASSUME NEW n \in Nat, NEW s \in SUBSET (1 .. n), s # {}
  PROVE  Max(s) \in s /\ \A y \in s : y <= Max(s)
<1> DEFINE C == {n - y : y \in s}
<1>0. \A y \in s : y \in Nat /\ n - y \in Nat
  <2>1. \A y \in 1 .. n : y \in Nat /\ n - y \in Nat
    OBVIOUS
  <2> QED
    BY <2>1
<1>1. C \subseteq Nat /\ C # {}
  BY <1>0
<1>2. \E m \in C : \A k \in C : m <= k
  <2> HIDE DEF C
  <2> QED
    BY <1>1, Least
<1>3. PICK x \in s : \A k \in C : n - x <= k
  BY <1>2
<1>4. \A y \in s : x >= y
  <2> SUFFICES ASSUME NEW y \in s PROVE x >= y
    OBVIOUS
  <2>1. n - x <= n - y /\ x \in Nat /\ y \in Nat
    BY <1>0, <1>3
  <2> QED
    BY <2>1
<1>5. Max(s) \in s /\ \A y \in s : Max(s) >= y
  BY <1>4, Zenon DEF Max
<1>6. Max(s) \in Nat /\ \A y \in s : y \in Nat
  BY <1>0, <1>5
<1> QED
  BY <1>5, <1>6

\* f is the fold from base over each subset of S.
Folds(f, g, base, S) ==
  f = [s \in SUBSET S |-> IF s = {} THEN base ELSE g[<<f[s \ {Max(s)}], Max(s)>>]]

FoldsIn(f, g, base, S) ==
  \A s \in SUBSET S : f[s] = IF s = {} THEN base ELSE g[<<f[s \ {Max(s)}], Max(s)>>]

LEMMA FoldsAt ==
  ASSUME NEW f, NEW g, NEW base, NEW S, Folds(f, g, base, S)
  PROVE  FoldsIn(f, g, base, S)
BY DEF Folds, FoldsIn

SameOn(e, f, T) == \A s \in SUBSET T : e[s] = f[s]

HasSmallest(C) == \E m \in C : \A t \in C : t \subseteq m => t = m

LEMMA SmallestPart ==
  ASSUME NEW S, IsFiniteSet(S), NEW C, C \subseteq SUBSET S, C # {}
  PROVE  HasSmallest(C)
BY Smallest DEF HasSmallest

LEMMA PartsFinite ==
  ASSUME NEW n \in Nat, NEW S \in SUBSET (1 .. n)
  PROVE  IsFiniteSet(S)
<1>1. 1 \in Int /\ n \in Int
  OBVIOUS
<1>2. IsFiniteSet(1 .. n)
  BY <1>1, FS_Interval
<1> QED
  BY <1>2, FS_Subset

LEMMA FoldsAgree ==
  ASSUME NEW n \in Nat, NEW S \in SUBSET (1 .. n), NEW T \in SUBSET S, NEW g, NEW base,
         NEW e, NEW f, Folds(e, g, base, S), Folds(f, g, base, T)
  PROVE  SameOn(e, f, T)
<1> DEFINE C == {s \in SUBSET T : e[s] # f[s]}
<1> SUFFICES ASSUME C # {} PROVE FALSE
  BY DEF SameOn
<1>1. IsFiniteSet(T)
  BY PartsFinite
<1>2. HasSmallest(C)
  <2>1. C \subseteq SUBSET T /\ C # {}
    OBVIOUS
  <2> HIDE DEF C
  <2> QED
    BY <1>1, <2>1, SmallestPart
<1>3. PICK m \in C : \A t \in C : t \subseteq m => t = m
  BY <1>2 DEF HasSmallest
<1> DEFINE r == m \ {Max(m)}
<1>4. /\ e[m] = IF m = {} THEN base ELSE g[<<e[r], Max(m)>>]
      /\ f[m] = IF m = {} THEN base ELSE g[<<f[r], Max(m)>>]
  <2>1. m \in SUBSET S /\ m \in SUBSET T
    BY <1>3
  <2>2. FoldsIn(e, g, base, S) /\ FoldsIn(f, g, base, T)
    BY FoldsAt
  <2> QED
    BY <2>1, <2>2 DEF FoldsIn
<1>5. m # {}
  BY <1>3, <1>4
<1>6. Max(m) \in m
  BY <1>5, MaxOf
<1>7. r \in SUBSET T /\ r \notin C
  BY <1>3, <1>6
<1>8. e[r] = f[r]
  BY <1>7
<1> QED
  BY <1>3, <1>4, <1>5, <1>8

LEMMA FoldsExist ==
  ASSUME NEW n \in Nat, NEW S \in SUBSET (1 .. n), NEW g, NEW base
  PROVE  \E f : Folds(f, g, base, S)
<1> DEFINE C == {T \in SUBSET S : ~ \E f : Folds(f, g, base, T)}
<1> SUFFICES ASSUME C # {} PROVE FALSE
  OBVIOUS
<1>1. HasSmallest(C)
  <2>1. C \subseteq SUBSET S /\ IsFiniteSet(S) /\ C # {}
    BY PartsFinite
  <2> HIDE DEF C
  <2> QED
    BY <2>1, SmallestPart
<1>2. PICK m \in C : \A t \in C : t \subseteq m => t = m
  BY <1>1 DEF HasSmallest
<1>3. m \in SUBSET (1 .. n) /\ \A s \in SUBSET m : s # {} => Max(s) \in s
  BY MaxOf
<1> DEFINE F(t) == CHOOSE f : Folds(f, g, base, t)
           R(s) == s \ {Max(s)}
           h == [s \in SUBSET m |-> IF s = {} THEN base ELSE g[<<F(R(s))[R(s)], Max(s)>>]]
<1>4. ASSUME NEW t \in SUBSET m, t # m PROVE Folds(F(t), g, base, t)
  <2>1. \E f : Folds(f, g, base, t)
    BY <1>2, <1>4
  <2> QED
    BY <2>1
<1>5. \A s \in SUBSET m : s # {} => R(s) \in SUBSET s /\ R(s) # s /\ R(s) \in SUBSET m /\ R(s) # m
  BY <1>3
<1> HIDE DEF F, R
<1>6. ASSUME NEW s \in SUBSET m, s # {} PROVE h[R(s)] = F(R(s))[R(s)]
  <2> DEFINE t == R(s)
  <2>1. t \in SUBSET m /\ t # m
    BY <1>5, <1>6
  <2>2. Folds(F(t), g, base, t)
    BY <1>4, <2>1
  <2> HIDE DEF t
  <2>3. F(t)[t] = IF t = {} THEN base ELSE g[<<F(t)[R(t)], Max(t)>>]
    BY <2>2, FoldsAt DEF R, FoldsIn
  <2>4. h[t] = IF t = {} THEN base ELSE g[<<F(R(t))[R(t)], Max(t)>>]
    BY <2>1
  <2>5. CASE t # {}
    <3>1. R(t) \in SUBSET t /\ R(t) \in SUBSET m /\ R(t) # m
      BY <1>5, <2>1, <2>5
    <3>2. Folds(F(R(t)), g, base, R(t)) /\ t \in SUBSET (1 .. n)
      BY <1>3, <1>4, <2>1, <3>1
    <3>3. F(t)[R(t)] = F(R(t))[R(t)]
      <4> DEFINE u == R(t)
                 e == F(t)
                 k == F(u)
      <4>1. u \in SUBSET t /\ t \in SUBSET (1 .. n) /\ Folds(e, g, base, t) /\ Folds(k, g, base, u)
        BY <2>2, <3>1, <3>2
      <4> HIDE DEF e, k, u
      <4>2. SameOn(e, k, u)
        BY <4>1, FoldsAgree
      <4>3. \A q \in SUBSET R(t) : F(t)[q] = F(R(t))[q]
        BY <4>2 DEF e, k, u, SameOn
      <4> QED
        BY <4>3
    <3> QED
      BY <2>3, <2>4, <2>5, <3>3 DEF t
  <2> QED
    BY <2>3, <2>4, <2>5 DEF t
<1>7. Folds(h, g, base, m)
  BY <1>6 DEF Folds, R
<1> QED
  BY <1>2, <1>7

\* The fold over the first n elements, and its steps.
Fold(g, base, n) == (CHOOSE f : Folds(f, g, base, 1 .. n))[1 .. n]

LEMMA FoldOf ==
  ASSUME NEW n \in Nat, NEW k \in 0 .. n, NEW g, NEW base, NEW f, Folds(f, g, base, 1 .. n)
  PROVE  Fold(g, base, k) = f[1 .. k]
<1> DEFINE e == CHOOSE h : Folds(h, g, base, 1 .. k)
<1>1. k \in Nat /\ 1 .. k \in SUBSET (1 .. n) /\ 1 .. k \in SUBSET (1 .. k) /\ 1 .. n \in SUBSET (1 .. n)
  OBVIOUS
<1>2. Folds(e, g, base, 1 .. k)
  BY <1>1, FoldsExist
<1> HIDE DEF e
<1>3. SameOn(f, e, 1 .. k)
  <2> DEFINE S == 1 .. n
             T == 1 .. k
  <2>1. S \in SUBSET (1 .. n) /\ T \in SUBSET S /\ Folds(f, g, base, S) /\ Folds(e, g, base, T)
    BY <1>1, <1>2
  <2> HIDE DEF S, T
  <2>2. SameOn(f, e, T)
    BY <2>1, FoldsAgree
  <2> QED
    BY <2>2 DEF T
<1> QED
  BY <1>1, <1>3 DEF Fold, e, SameOn

Steps(g, base) ==
  /\ Fold(g, base, 0) = base
  /\ \A n \in Nat : Fold(g, base, n + 1) = g[<<Fold(g, base, n), n + 1>>]

LEMMA FoldSteps ==
  ASSUME NEW g, NEW base
  PROVE  Steps(g, base)
<1>1. ASSUME NEW n \in Nat
      PROVE  Fold(g, base, 0) = base /\ Fold(g, base, n + 1) = g[<<Fold(g, base, n), n + 1>>]
  <2> DEFINE m == n + 1
             D == 1 .. m
  <2>1. m \in Nat /\ D \in SUBSET (1 .. m) /\ D # {} /\ 0 \in 0 .. m /\ n \in 0 .. m /\ m \in 0 .. m
    OBVIOUS
  <2>2. PICK f : Folds(f, g, base, D)
    BY <2>1, FoldsExist
  <2>3. /\ Fold(g, base, 0) = f[1 .. 0] /\ Fold(g, base, n) = f[1 .. n]
        /\ Fold(g, base, m) = f[D]
    BY <2>1, <2>2, FoldOf
  <2>4. 1 .. 0 = {} /\ {} \in SUBSET D
    OBVIOUS
  <2>5. f[{}] = base /\ f[D] = g[<<f[D \ {Max(D)}], Max(D)>>]
    <3> HIDE DEF D
    <3>1. FoldsIn(f, g, base, D)
      BY <2>2, FoldsAt
    <3>2. D \in SUBSET D /\ {} \in SUBSET D /\ D # {}
      BY <2>1
    <3> QED
      BY <3>1, <3>2 DEF FoldsIn
  <2>6. Max(D) = m
    <3> HIDE DEF D
    <3>1. Max(D) \in D /\ \A y \in D : y <= Max(D)
      BY <2>1, MaxOf
    <3>2. m \in D /\ \A y \in D : y \in Nat /\ y <= m
      BY <2>1 DEF D
    <3>3. m <= Max(D) /\ Max(D) <= m /\ Max(D) \in Nat
      BY <3>1, <3>2
    <3> QED
      BY <2>1, <3>3
  <2>7. D \ {m} = 1 .. n
    OBVIOUS
  <2> QED
    BY <2>3, <2>4, <2>5, <2>6, <2>7
<1> QED
  BY <1>1 DEF Steps

\* What each step keeps holds of every subset.
LEMMA Hereditary ==
  ASSUME NEW n \in Nat, NEW A, NEW f, f[{}] \in A,
         \A s \in SUBSET (1 .. n) : s # {} /\ f[s \ {Max(s)}] \in A => f[s] \in A
  PROVE  \A s \in SUBSET (1 .. n) : f[s] \in A
<1> DEFINE D == 1 .. n
           C == {s \in SUBSET D : f[s] \notin A}
<1> SUFFICES ASSUME C # {} PROVE FALSE
  OBVIOUS
<1>1. HasSmallest(C)
  <2>1. C \subseteq SUBSET D /\ IsFiniteSet(D) /\ C # {}
    BY PartsFinite
  <2> HIDE DEF C, D
  <2> QED
    BY <2>1, SmallestPart
<1>2. PICK m \in C : \A t \in C : t \subseteq m => t = m
  BY <1>1 DEF HasSmallest
<1>3. m # {} /\ m \in SUBSET (1 .. n)
  BY <1>2
<1>4. Max(m) \in m
  BY <1>3, MaxOf
<1> DEFINE r == m \ {Max(m)}
<1>5. r \in SUBSET (1 .. n) /\ r \subseteq m /\ r # m
  <2>1. m \subseteq 1 .. n
    BY <1>3
  <2>2. r \subseteq m /\ r # m
    BY <1>4
  <2>3. r \subseteq 1 .. n
    BY <2>1, <2>2
  <2> QED
    BY <2>2, <2>3
<1> HIDE DEF r
<1>6. f[r] \in A
  <2>1. r \notin C
    BY <1>2, <1>5
  <2> QED
    BY <1>5, <2>1
<1> QED
  BY <1>2, <1>3, <1>6 DEF r

\* Values of one kind stay of that kind.
LEMMA FoldTyped ==
  ASSUME NEW A, NEW g, NEW base \in A, NEW n \in Nat, \A a \in A : \A i \in 1 .. n : g[<<a, i>>] \in A
  PROVE  \A k \in 0 .. n : Fold(g, base, k) \in A
<1> DEFINE C == {k \in 0 .. n : Fold(g, base, k) \notin A}
<1> SUFFICES ASSUME C # {} PROVE FALSE
  OBVIOUS
<1>1. \E m \in C : \A k \in C : m <= k
  <2>1. C \subseteq Nat
    OBVIOUS
  <2> HIDE DEF C
  <2> QED
    BY <2>1, Least
<1>2. PICK m \in C : \A k \in C : m <= k
  BY <1>1
<1>3. m # 0
  BY <1>2, FoldSteps DEF Steps
<1>4. m - 1 \in 0 .. n /\ m - 1 \in Nat /\ m \in 1 .. n /\ ~(m <= m - 1) /\ (m - 1) + 1 = m
  BY <1>2, <1>3
<1>5. Fold(g, base, m - 1) \in A
  BY <1>2, <1>4
<1>6. Fold(g, base, m) = g[<<Fold(g, base, m - 1), m>>]
  <2>1. \A k \in Nat : Fold(g, base, k + 1) = g[<<Fold(g, base, k), k + 1>>]
    BY FoldSteps DEF Steps
  <2>2. Fold(g, base, (m - 1) + 1) = g[<<Fold(g, base, m - 1), (m - 1) + 1>>]
    BY <1>4, <2>1
  <2> QED
    BY <1>4, <2>2
<1> QED
  BY <1>2, <1>4, <1>5, <1>6

\* The fold only depends on the elements it has passed.
LEMMA FoldSame ==
  ASSUME NEW A, NEW g, NEW h, NEW base \in A, NEW n \in Nat,
         \A a \in A : \A i \in 1 .. n : g[<<a, i>>] \in A /\ h[<<a, i>>] = g[<<a, i>>]
  PROVE  Fold(g, base, n) = Fold(h, base, n)
<1> DEFINE C == {k \in 0 .. n : Fold(g, base, k) # Fold(h, base, k)}
<1> SUFFICES ASSUME C # {} PROVE FALSE
  OBVIOUS
<1>1. \E m \in C : \A k \in C : m <= k
  <2>1. C \subseteq Nat
    OBVIOUS
  <2> HIDE DEF C
  <2> QED
    BY <2>1, Least
<1>2. PICK m \in C : \A k \in C : m <= k
  BY <1>1
<1>3. m # 0
  BY <1>2, FoldSteps DEF Steps
<1>4. m - 1 \in 0 .. n /\ m - 1 \in Nat /\ m \in 1 .. n /\ ~(m <= m - 1) /\ (m - 1) + 1 = m
  BY <1>2, <1>3
<1>5. Fold(g, base, m - 1) = Fold(h, base, m - 1)
  BY <1>2, <1>4
<1>6. Fold(g, base, m - 1) \in A
  BY <1>4, FoldTyped
<1>7. /\ Fold(g, base, m) = g[<<Fold(g, base, m - 1), m>>]
      /\ Fold(h, base, m) = h[<<Fold(h, base, m - 1), m>>]
  <2>1. /\ \A k \in Nat : Fold(g, base, k + 1) = g[<<Fold(g, base, k), k + 1>>]
        /\ \A k \in Nat : Fold(h, base, k + 1) = h[<<Fold(h, base, k), k + 1>>]
    <3>1. Steps(g, base) /\ Steps(h, base)
      BY FoldSteps
    <3> QED
      BY <3>1 DEF Steps
  <2>2. /\ Fold(g, base, (m - 1) + 1) = g[<<Fold(g, base, m - 1), (m - 1) + 1>>]
        /\ Fold(h, base, (m - 1) + 1) = h[<<Fold(h, base, m - 1), (m - 1) + 1>>]
    BY <1>4, <2>1
  <2> QED
    BY <1>4, <2>2
<1> QED
  BY <1>2, <1>4, <1>5, <1>6, <1>7
-----------------------------------------------------------------------------
(* The four folds, step by step.  A lemma cannot take an operator as its   *)
(* parameter, so there is a pair of lemmas for each of them.               *)

Buffers == [buf : Seq(Word), file : Seq(Word)]
Reads   == [id : Nat, lines : Seq(TraceLine)]
Line    == [space : {"I", "D"}, kind : {"R", "W"}, pc : Pc, page : Page]
Listings    == Seq(TraceLine)
MemListings == Seq(Line)

LEMMA SeqEqual ==
  ASSUME NEW s, NEW t, NEW S, s \in Seq(S), t \in Seq(S), Len(s) = Len(t), \A i \in 1 .. Len(s) : s[i] = t[i]
  PROVE  s = t
OBVIOUS

LEMMA Appended ==
  ASSUME NEW S, NEW s \in Seq(S), NEW e \in S
  PROVE  /\ Append(s, e) \in Seq(S) /\ Len(Append(s, e)) = Len(s) + 1 /\ Append(s, e)[Len(s) + 1] = e
         /\ \A i \in 1 .. Len(s) : Append(s, e)[i] = s[i]
OBVIOUS

LEMMA Joined ==
  ASSUME NEW S, NEW s \in Seq(S), NEW t \in Seq(S)
  PROVE  /\ s \o t \in Seq(S) /\ Len(s \o t) = Len(s) + Len(t)
         /\ \A i \in 1 .. Len(s) : (s \o t)[i] = s[i]
         /\ \A i \in 1 .. Len(t) : (s \o t)[Len(s) + i] = t[i]
OBVIOUS

LEMMA PutTyped ==
  ASSUME NEW b \in Buffers, NEW w \in Word
  PROVE  Put(b, w) \in Buffers
<1>1. b.buf \in Seq(Word) /\ b.file \in Seq(Word)
  BY DEF Buffers
<1>2. CASE Len(b.buf) = BufSize
  <2>1. <<w>> \in Seq(Word) /\ b.file \o b.buf \in Seq(Word)
    BY <1>1
  <2> QED
    BY <1>2, <2>1 DEF Put, Buffers
<1>3. CASE Len(b.buf) # BufSize
  <2>1. Append(b.buf, w) \in Seq(Word)
    BY <1>1
  <2>2. Put(b, w) = [b EXCEPT !.buf = Append(@, w)]
    BY <1>3 DEF Put
  <2> QED
    BY <2>1, <2>2 DEF Buffers
<1> QED
  BY <1>2, <1>3

LEMMA PrintedTyped ==
  ASSUME NEW d \in Reads, NEW w \in Word
  PROVE  Printed(d, w) \in Reads
<1>1. d.id \in Nat /\ d.lines \in Seq(TraceLine)
  BY DEF Reads
<1>2. CASE w = End
  BY <1>1, <1>2 DEF Printed, Reads
<1>3. CASE w # End
  <2>1. [trace |-> d.id, page |-> w] \in TraceLine
    BY <1>1 DEF TraceLine
  <2>2. Append(d.lines, [trace |-> d.id, page |-> w]) \in Seq(TraceLine)
    BY <1>1, <2>1
  <2>3. Printed(d, w) = [d EXCEPT !.lines = Append(@, [trace |-> d.id, page |-> w])]
    BY <1>3 DEF Printed
  <2> QED
    BY <2>2, <2>3 DEF Reads
<1> QED
  BY <1>2, <1>3

LEMMA WithPageTyped ==
  ASSUME NEW seq \in Listings, NEW l \in TraceLine
  PROVE  WithPage(seq, l) \in Listings
BY DEF WithPage, Listings

LEMMA WithAccessTyped ==
  ASSUME NEW seq \in MemListings, NEW l \in Line
  PROVE  WithAccess(seq, l) \in MemListings
BY DEF WithAccess, MemListings

LEMMA PutFold ==
  ASSUME NEW base \in Buffers, NEW s \in Seq(Word)
  PROVE  FoldLeft(Put, base, s)
           = Fold([x \in Buffers \X (1 .. Len(s)) |-> Put(x[1], s[x[2]])], base, Len(s))
<1> DEFINE n == Len(s)
           D == 1 .. n
           g == [x \in Buffers \X D |-> Put(x[1], s[x[2]])]
           Body(f) == f = [t \in SUBSET D |-> IF t = {} THEN base ELSE Put(f[t \ {Max(t)}], s[Max(t)])]
<1>1. n \in Nat /\ D = DOMAIN s /\ D \in SUBSET (1 .. n) /\ \A i \in D : s[i] \in Word
  OBVIOUS
<1>2. \A t \in SUBSET D : t # {} => Max(t) \in D
  <2> SUFFICES ASSUME NEW t \in SUBSET D, t # {} PROVE Max(t) \in D
    OBVIOUS
  <2>1. Max(t) \in t
    BY <1>1, MaxOf
  <2> QED
    BY <2>1
<1>3. \A a \in Buffers : \A i \in D : g[<<a, i>>] = Put(a, s[i]) /\ g[<<a, i>>] \in Buffers
  <2> SUFFICES ASSUME NEW a \in Buffers, NEW i \in D PROVE g[<<a, i>>] = Put(a, s[i]) /\ g[<<a, i>>] \in Buffers
    OBVIOUS
  <2>1. g[<<a, i>>] = Put(a, s[i])
    OBVIOUS
  <2>2. Put(a, s[i]) \in Buffers
    BY <1>1, PutTyped
  <2> QED
    BY <2>1, <2>2
<1> HIDE DEF g
<1>4. ASSUME NEW f, Folds(f, g, base, D) PROVE Body(f)
  <2>1. f[{}] = base /\ \A t \in SUBSET D : t # {} => f[t] = g[<<f[t \ {Max(t)}], Max(t)>>]
    <3>1. FoldsIn(f, g, base, D) /\ {} \in SUBSET D
      BY <1>4, FoldsAt
    <3> QED
      BY <3>1 DEF FoldsIn
  <2>2. \A t \in SUBSET (1 .. n) : f[t] \in Buffers
    <3>1. \A t \in SUBSET (1 .. n) : t # {} /\ f[t \ {Max(t)}] \in Buffers => f[t] \in Buffers
      BY <1>2, <1>3, <2>1
    <3> QED
      BY <1>1, <2>1, <3>1, Hereditary
  <2>3. \A t \in SUBSET D : t # {} => f[t] = Put(f[t \ {Max(t)}], s[Max(t)])
    BY <1>2, <1>3, <2>1, <2>2
  <2>4. \A t \in SUBSET D : t # {} => g[<<f[t \ {Max(t)}], Max(t)>>] = Put(f[t \ {Max(t)}], s[Max(t)])
    BY <2>1, <2>3
  <2> QED
    BY <1>4, <2>4 DEF Folds
<1>5. PICK f : Folds(f, g, base, D)
  BY <1>1, FoldsExist
<1>6. \E e : Body(e) /\ FoldLeft(Put, base, s) = e[D]
  <2>1. \E e : Body(e)
    BY <1>4, <1>5
  <2> QED
    BY <1>1, <2>1, Zenon DEF FoldLeft, MapThenFoldSet
<1>7. PICK e : Body(e) /\ FoldLeft(Put, base, s) = e[D]
  BY <1>6
<1>8. Folds(e, g, base, D)
  <2>1. e[{}] = base /\ \A t \in SUBSET D : t # {} => e[t] = Put(e[t \ {Max(t)}], s[Max(t)])
    BY <1>7
  <2>2. \A t \in SUBSET (1 .. n) : e[t] \in Buffers
    <3>1. \A t \in SUBSET (1 .. n) : t # {} /\ e[t \ {Max(t)}] \in Buffers => e[t] \in Buffers
      <4> SUFFICES ASSUME NEW t \in SUBSET (1 .. n), t # {}, e[t \ {Max(t)}] \in Buffers PROVE e[t] \in Buffers
        OBVIOUS
      <4>1. e[t] = Put(e[t \ {Max(t)}], s[Max(t)]) /\ Max(t) \in D
        BY <1>2, <2>1
      <4>2. s[Max(t)] \in Word
        BY <1>1, <4>1
      <4> QED
        BY <4>1, <4>2, PutTyped
    <3> QED
      BY <1>1, <2>1, <3>1, Hereditary
  <2>3. \A t \in SUBSET D : t # {} => Put(e[t \ {Max(t)}], s[Max(t)]) = g[<<e[t \ {Max(t)}], Max(t)>>]
    BY <1>2, <1>3, <2>2
  <2> QED
    BY <1>7, <2>3 DEF Folds
<1>9. Fold(g, base, n) = e[1 .. n]
  BY <1>1, <1>8, FoldOf
<1> QED
  BY <1>7, <1>9 DEF g

LEMMA PutSteps ==
  ASSUME NEW base \in Buffers
  PROVE  /\ FoldLeft(Put, base, <<>>) = base
         /\ \A s \in Seq(Word) : \A w \in Word :
              /\ FoldLeft(Put, base, s) \in Buffers
              /\ FoldLeft(Put, base, Append(s, w)) = Put(FoldLeft(Put, base, s), w)
<1>1. FoldLeft(Put, base, <<>>) = base
  <2> DEFINE g == [x \in Buffers \X (1 .. Len(<<>>)) |-> Put(x[1], <<>>[x[2]])]
  <2>1. <<>> \in Seq(Word) /\ Len(<<>>) = 0
    OBVIOUS
  <2>2. FoldLeft(Put, base, <<>>) = Fold(g, base, Len(<<>>))
    BY <2>1, PutFold
  <2> HIDE DEF g
  <2>3. Fold(g, base, 0) = base
    BY FoldSteps DEF Steps
  <2> QED
    BY <2>1, <2>2, <2>3
<1>2. ASSUME NEW s \in Seq(Word), NEW w \in Word
      PROVE  /\ FoldLeft(Put, base, s) \in Buffers
             /\ FoldLeft(Put, base, Append(s, w)) = Put(FoldLeft(Put, base, s), w)
  <2> DEFINE n == Len(s)
             t == Append(s, w)
             g == [x \in Buffers \X (1 .. Len(s)) |-> Put(x[1], s[x[2]])]
             h == [x \in Buffers \X (1 .. Len(t)) |-> Put(x[1], t[x[2]])]
  <2>1. /\ n \in Nat /\ t \in Seq(Word) /\ Len(t) = n + 1 /\ t[n + 1] = w
        /\ \A i \in 1 .. n : t[i] = s[i] /\ s[i] \in Word /\ i \in 1 .. n + 1
    BY Appended
  <2> HIDE DEF t
  <2>2. FoldLeft(Put, base, s) = Fold(g, base, n) /\ FoldLeft(Put, base, t) = Fold(h, base, Len(t))
    BY <2>1, PutFold
  <2>3. \A a \in Buffers : \A i \in 1 .. n : g[<<a, i>>] = Put(a, s[i]) /\ h[<<a, i>>] = Put(a, s[i])
    BY <2>1
  <2>4. \A a \in Buffers : h[<<a, n + 1>>] = Put(a, w)
    BY <2>1
  <2> HIDE DEF g, h
  <2>5. \A a \in Buffers : \A i \in 1 .. n : g[<<a, i>>] \in Buffers /\ h[<<a, i>>] = g[<<a, i>>]
    BY <2>1, <2>3, PutTyped
  <2>6. Fold(g, base, n) = Fold(h, base, n)
    BY <2>1, <2>5, FoldSame
  <2>7. Fold(g, base, n) \in Buffers
    <3>1. n \in 0 .. n /\ \A a \in Buffers : \A i \in 1 .. n : g[<<a, i>>] \in Buffers
      BY <2>1, <2>5
    <3> QED
      BY <2>1, <3>1, FoldTyped
  <2>8. Fold(h, base, n + 1) = h[<<Fold(h, base, n), n + 1>>]
    BY <2>1, FoldSteps DEF Steps
  <2> QED
    BY <2>1, <2>2, <2>4, <2>6, <2>7, <2>8 DEF t
<1> QED
  BY <1>1, <1>2

LEMMA PrintedFold ==
  ASSUME NEW base \in Reads, NEW s \in Seq(Word)
  PROVE  FoldLeft(Printed, base, s)
           = Fold([x \in Reads \X (1 .. Len(s)) |-> Printed(x[1], s[x[2]])], base, Len(s))
<1> DEFINE n == Len(s)
           D == 1 .. n
           g == [x \in Reads \X D |-> Printed(x[1], s[x[2]])]
           Body(f) == f = [t \in SUBSET D |-> IF t = {} THEN base ELSE Printed(f[t \ {Max(t)}], s[Max(t)])]
<1>1. n \in Nat /\ D = DOMAIN s /\ D \in SUBSET (1 .. n) /\ \A i \in D : s[i] \in Word
  OBVIOUS
<1>2. \A t \in SUBSET D : t # {} => Max(t) \in D
  <2> SUFFICES ASSUME NEW t \in SUBSET D, t # {} PROVE Max(t) \in D
    OBVIOUS
  <2>1. Max(t) \in t
    BY <1>1, MaxOf
  <2> QED
    BY <2>1
<1>3. \A a \in Reads : \A i \in D : g[<<a, i>>] = Printed(a, s[i]) /\ g[<<a, i>>] \in Reads
  <2> SUFFICES ASSUME NEW a \in Reads, NEW i \in D PROVE g[<<a, i>>] = Printed(a, s[i]) /\ g[<<a, i>>] \in Reads
    OBVIOUS
  <2>1. g[<<a, i>>] = Printed(a, s[i])
    OBVIOUS
  <2>2. Printed(a, s[i]) \in Reads
    BY <1>1, PrintedTyped
  <2> QED
    BY <2>1, <2>2
<1> HIDE DEF g
<1>4. ASSUME NEW f, Folds(f, g, base, D) PROVE Body(f)
  <2>1. f[{}] = base /\ \A t \in SUBSET D : t # {} => f[t] = g[<<f[t \ {Max(t)}], Max(t)>>]
    <3>1. FoldsIn(f, g, base, D) /\ {} \in SUBSET D
      BY <1>4, FoldsAt
    <3> QED
      BY <3>1 DEF FoldsIn
  <2>2. \A t \in SUBSET (1 .. n) : f[t] \in Reads
    <3>1. \A t \in SUBSET (1 .. n) : t # {} /\ f[t \ {Max(t)}] \in Reads => f[t] \in Reads
      BY <1>2, <1>3, <2>1
    <3> QED
      BY <1>1, <2>1, <3>1, Hereditary
  <2>3. \A t \in SUBSET D : t # {} => f[t] = Printed(f[t \ {Max(t)}], s[Max(t)])
    BY <1>2, <1>3, <2>1, <2>2
  <2>4. \A t \in SUBSET D : t # {} => g[<<f[t \ {Max(t)}], Max(t)>>] = Printed(f[t \ {Max(t)}], s[Max(t)])
    BY <2>1, <2>3
  <2> QED
    BY <1>4, <2>4 DEF Folds
<1>5. PICK f : Folds(f, g, base, D)
  BY <1>1, FoldsExist
<1>6. \E e : Body(e) /\ FoldLeft(Printed, base, s) = e[D]
  <2>1. \E e : Body(e)
    BY <1>4, <1>5
  <2> QED
    BY <1>1, <2>1, Zenon DEF FoldLeft, MapThenFoldSet
<1>7. PICK e : Body(e) /\ FoldLeft(Printed, base, s) = e[D]
  BY <1>6
<1>8. Folds(e, g, base, D)
  <2>1. e[{}] = base /\ \A t \in SUBSET D : t # {} => e[t] = Printed(e[t \ {Max(t)}], s[Max(t)])
    BY <1>7
  <2>2. \A t \in SUBSET (1 .. n) : e[t] \in Reads
    <3>1. \A t \in SUBSET (1 .. n) : t # {} /\ e[t \ {Max(t)}] \in Reads => e[t] \in Reads
      <4> SUFFICES ASSUME NEW t \in SUBSET (1 .. n), t # {}, e[t \ {Max(t)}] \in Reads PROVE e[t] \in Reads
        OBVIOUS
      <4>1. e[t] = Printed(e[t \ {Max(t)}], s[Max(t)]) /\ Max(t) \in D
        BY <1>2, <2>1
      <4>2. s[Max(t)] \in Word
        BY <1>1, <4>1
      <4> QED
        BY <4>1, <4>2, PrintedTyped
    <3> QED
      BY <1>1, <2>1, <3>1, Hereditary
  <2>3. \A t \in SUBSET D : t # {} => Printed(e[t \ {Max(t)}], s[Max(t)]) = g[<<e[t \ {Max(t)}], Max(t)>>]
    BY <1>2, <1>3, <2>2
  <2> QED
    BY <1>7, <2>3 DEF Folds
<1>9. Fold(g, base, n) = e[1 .. n]
  BY <1>1, <1>8, FoldOf
<1> QED
  BY <1>7, <1>9 DEF g

LEMMA PrintedSteps ==
  ASSUME NEW base \in Reads
  PROVE  /\ FoldLeft(Printed, base, <<>>) = base
         /\ \A s \in Seq(Word) : \A w \in Word :
              /\ FoldLeft(Printed, base, s) \in Reads
              /\ FoldLeft(Printed, base, Append(s, w)) = Printed(FoldLeft(Printed, base, s), w)
<1>1. FoldLeft(Printed, base, <<>>) = base
  <2> DEFINE g == [x \in Reads \X (1 .. Len(<<>>)) |-> Printed(x[1], <<>>[x[2]])]
  <2>1. <<>> \in Seq(Word) /\ Len(<<>>) = 0
    OBVIOUS
  <2>2. FoldLeft(Printed, base, <<>>) = Fold(g, base, Len(<<>>))
    BY <2>1, PrintedFold
  <2> HIDE DEF g
  <2>3. Fold(g, base, 0) = base
    BY FoldSteps DEF Steps
  <2> QED
    BY <2>1, <2>2, <2>3
<1>2. ASSUME NEW s \in Seq(Word), NEW w \in Word
      PROVE  /\ FoldLeft(Printed, base, s) \in Reads
             /\ FoldLeft(Printed, base, Append(s, w)) = Printed(FoldLeft(Printed, base, s), w)
  <2> DEFINE n == Len(s)
             t == Append(s, w)
             g == [x \in Reads \X (1 .. Len(s)) |-> Printed(x[1], s[x[2]])]
             h == [x \in Reads \X (1 .. Len(t)) |-> Printed(x[1], t[x[2]])]
  <2>1. /\ n \in Nat /\ t \in Seq(Word) /\ Len(t) = n + 1 /\ t[n + 1] = w
        /\ \A i \in 1 .. n : t[i] = s[i] /\ s[i] \in Word /\ i \in 1 .. n + 1
    BY Appended
  <2> HIDE DEF t
  <2>2. FoldLeft(Printed, base, s) = Fold(g, base, n) /\ FoldLeft(Printed, base, t) = Fold(h, base, Len(t))
    BY <2>1, PrintedFold
  <2>3. \A a \in Reads : \A i \in 1 .. n : g[<<a, i>>] = Printed(a, s[i]) /\ h[<<a, i>>] = Printed(a, s[i])
    BY <2>1
  <2>4. \A a \in Reads : h[<<a, n + 1>>] = Printed(a, w)
    BY <2>1
  <2> HIDE DEF g, h
  <2>5. \A a \in Reads : \A i \in 1 .. n : g[<<a, i>>] \in Reads /\ h[<<a, i>>] = g[<<a, i>>]
    BY <2>1, <2>3, PrintedTyped
  <2>6. Fold(g, base, n) = Fold(h, base, n)
    BY <2>1, <2>5, FoldSame
  <2>7. Fold(g, base, n) \in Reads
    <3>1. n \in 0 .. n /\ \A a \in Reads : \A i \in 1 .. n : g[<<a, i>>] \in Reads
      BY <2>1, <2>5
    <3> QED
      BY <2>1, <3>1, FoldTyped
  <2>8. Fold(h, base, n + 1) = h[<<Fold(h, base, n), n + 1>>]
    BY <2>1, FoldSteps DEF Steps
  <2> QED
    BY <2>1, <2>2, <2>4, <2>6, <2>7, <2>8 DEF t
<1> QED
  BY <1>1, <1>2

LEMMA WithPageFold ==
  ASSUME NEW base \in Listings, NEW s \in Seq(TraceLine)
  PROVE  FoldLeft(WithPage, base, s)
           = Fold([x \in Listings \X (1 .. Len(s)) |-> WithPage(x[1], s[x[2]])], base, Len(s))
<1> DEFINE n == Len(s)
           D == 1 .. n
           g == [x \in Listings \X D |-> WithPage(x[1], s[x[2]])]
           Body(f) == f = [t \in SUBSET D |-> IF t = {} THEN base ELSE WithPage(f[t \ {Max(t)}], s[Max(t)])]
<1>1. n \in Nat /\ D = DOMAIN s /\ D \in SUBSET (1 .. n) /\ \A i \in D : s[i] \in TraceLine
  OBVIOUS
<1>2. \A t \in SUBSET D : t # {} => Max(t) \in D
  <2> SUFFICES ASSUME NEW t \in SUBSET D, t # {} PROVE Max(t) \in D
    OBVIOUS
  <2>1. Max(t) \in t
    BY <1>1, MaxOf
  <2> QED
    BY <2>1
<1>3. \A a \in Listings : \A i \in D : g[<<a, i>>] = WithPage(a, s[i]) /\ g[<<a, i>>] \in Listings
  <2> SUFFICES ASSUME NEW a \in Listings, NEW i \in D PROVE g[<<a, i>>] = WithPage(a, s[i]) /\ g[<<a, i>>] \in Listings
    OBVIOUS
  <2>1. g[<<a, i>>] = WithPage(a, s[i])
    OBVIOUS
  <2>2. WithPage(a, s[i]) \in Listings
    BY <1>1, WithPageTyped
  <2> QED
    BY <2>1, <2>2
<1> HIDE DEF g
<1>4. ASSUME NEW f, Folds(f, g, base, D) PROVE Body(f)
  <2>1. f[{}] = base /\ \A t \in SUBSET D : t # {} => f[t] = g[<<f[t \ {Max(t)}], Max(t)>>]
    <3>1. FoldsIn(f, g, base, D) /\ {} \in SUBSET D
      BY <1>4, FoldsAt
    <3> QED
      BY <3>1 DEF FoldsIn
  <2>2. \A t \in SUBSET (1 .. n) : f[t] \in Listings
    <3>1. \A t \in SUBSET (1 .. n) : t # {} /\ f[t \ {Max(t)}] \in Listings => f[t] \in Listings
      BY <1>2, <1>3, <2>1
    <3> QED
      BY <1>1, <2>1, <3>1, Hereditary
  <2>3. \A t \in SUBSET D : t # {} => f[t] = WithPage(f[t \ {Max(t)}], s[Max(t)])
    BY <1>2, <1>3, <2>1, <2>2
  <2>4. \A t \in SUBSET D : t # {} => g[<<f[t \ {Max(t)}], Max(t)>>] = WithPage(f[t \ {Max(t)}], s[Max(t)])
    BY <2>1, <2>3
  <2> QED
    BY <1>4, <2>4 DEF Folds
<1>5. PICK f : Folds(f, g, base, D)
  BY <1>1, FoldsExist
<1>6. \E e : Body(e) /\ FoldLeft(WithPage, base, s) = e[D]
  <2>1. \E e : Body(e)
    BY <1>4, <1>5
  <2> QED
    BY <1>1, <2>1, Zenon DEF FoldLeft, MapThenFoldSet
<1>7. PICK e : Body(e) /\ FoldLeft(WithPage, base, s) = e[D]
  BY <1>6
<1>8. Folds(e, g, base, D)
  <2>1. e[{}] = base /\ \A t \in SUBSET D : t # {} => e[t] = WithPage(e[t \ {Max(t)}], s[Max(t)])
    BY <1>7
  <2>2. \A t \in SUBSET (1 .. n) : e[t] \in Listings
    <3>1. \A t \in SUBSET (1 .. n) : t # {} /\ e[t \ {Max(t)}] \in Listings => e[t] \in Listings
      <4> SUFFICES ASSUME NEW t \in SUBSET (1 .. n), t # {}, e[t \ {Max(t)}] \in Listings PROVE e[t] \in Listings
        OBVIOUS
      <4>1. e[t] = WithPage(e[t \ {Max(t)}], s[Max(t)]) /\ Max(t) \in D
        BY <1>2, <2>1
      <4>2. s[Max(t)] \in TraceLine
        BY <1>1, <4>1
      <4> QED
        BY <4>1, <4>2, WithPageTyped
    <3> QED
      BY <1>1, <2>1, <3>1, Hereditary
  <2>3. \A t \in SUBSET D : t # {} => WithPage(e[t \ {Max(t)}], s[Max(t)]) = g[<<e[t \ {Max(t)}], Max(t)>>]
    BY <1>2, <1>3, <2>2
  <2> QED
    BY <1>7, <2>3 DEF Folds
<1>9. Fold(g, base, n) = e[1 .. n]
  BY <1>1, <1>8, FoldOf
<1> QED
  BY <1>7, <1>9 DEF g

LEMMA WithPageSteps ==
  ASSUME NEW base \in Listings
  PROVE  /\ FoldLeft(WithPage, base, <<>>) = base
         /\ \A s \in Seq(TraceLine) : \A w \in TraceLine :
              /\ FoldLeft(WithPage, base, s) \in Listings
              /\ FoldLeft(WithPage, base, Append(s, w)) = WithPage(FoldLeft(WithPage, base, s), w)
<1>1. FoldLeft(WithPage, base, <<>>) = base
  <2> DEFINE g == [x \in Listings \X (1 .. Len(<<>>)) |-> WithPage(x[1], <<>>[x[2]])]
  <2>1. <<>> \in Seq(TraceLine) /\ Len(<<>>) = 0
    OBVIOUS
  <2>2. FoldLeft(WithPage, base, <<>>) = Fold(g, base, Len(<<>>))
    BY <2>1, WithPageFold
  <2> HIDE DEF g
  <2>3. Fold(g, base, 0) = base
    BY FoldSteps DEF Steps
  <2> QED
    BY <2>1, <2>2, <2>3
<1>2. ASSUME NEW s \in Seq(TraceLine), NEW w \in TraceLine
      PROVE  /\ FoldLeft(WithPage, base, s) \in Listings
             /\ FoldLeft(WithPage, base, Append(s, w)) = WithPage(FoldLeft(WithPage, base, s), w)
  <2> DEFINE n == Len(s)
             t == Append(s, w)
             g == [x \in Listings \X (1 .. Len(s)) |-> WithPage(x[1], s[x[2]])]
             h == [x \in Listings \X (1 .. Len(t)) |-> WithPage(x[1], t[x[2]])]
  <2>1. /\ n \in Nat /\ t \in Seq(TraceLine) /\ Len(t) = n + 1 /\ t[n + 1] = w
        /\ \A i \in 1 .. n : t[i] = s[i] /\ s[i] \in TraceLine /\ i \in 1 .. n + 1
    BY Appended
  <2> HIDE DEF t
  <2>2. FoldLeft(WithPage, base, s) = Fold(g, base, n) /\ FoldLeft(WithPage, base, t) = Fold(h, base, Len(t))
    BY <2>1, WithPageFold
  <2>3. \A a \in Listings : \A i \in 1 .. n : g[<<a, i>>] = WithPage(a, s[i]) /\ h[<<a, i>>] = WithPage(a, s[i])
    BY <2>1
  <2>4. \A a \in Listings : h[<<a, n + 1>>] = WithPage(a, w)
    BY <2>1
  <2> HIDE DEF g, h
  <2>5. \A a \in Listings : \A i \in 1 .. n : g[<<a, i>>] \in Listings /\ h[<<a, i>>] = g[<<a, i>>]
    BY <2>1, <2>3, WithPageTyped
  <2>6. Fold(g, base, n) = Fold(h, base, n)
    BY <2>1, <2>5, FoldSame
  <2>7. Fold(g, base, n) \in Listings
    <3>1. n \in 0 .. n /\ \A a \in Listings : \A i \in 1 .. n : g[<<a, i>>] \in Listings
      BY <2>1, <2>5
    <3> QED
      BY <2>1, <3>1, FoldTyped
  <2>8. Fold(h, base, n + 1) = h[<<Fold(h, base, n), n + 1>>]
    BY <2>1, FoldSteps DEF Steps
  <2> QED
    BY <2>1, <2>2, <2>4, <2>6, <2>7, <2>8 DEF t
<1> QED
  BY <1>1, <1>2

LEMMA WithAccessFold ==
  ASSUME NEW base \in MemListings, NEW s \in Seq(Line)
  PROVE  FoldLeft(WithAccess, base, s)
           = Fold([x \in MemListings \X (1 .. Len(s)) |-> WithAccess(x[1], s[x[2]])], base, Len(s))
<1> DEFINE n == Len(s)
           D == 1 .. n
           g == [x \in MemListings \X D |-> WithAccess(x[1], s[x[2]])]
           Body(f) == f = [t \in SUBSET D |-> IF t = {} THEN base ELSE WithAccess(f[t \ {Max(t)}], s[Max(t)])]
<1>1. n \in Nat /\ D = DOMAIN s /\ D \in SUBSET (1 .. n) /\ \A i \in D : s[i] \in Line
  OBVIOUS
<1>2. \A t \in SUBSET D : t # {} => Max(t) \in D
  <2> SUFFICES ASSUME NEW t \in SUBSET D, t # {} PROVE Max(t) \in D
    OBVIOUS
  <2>1. Max(t) \in t
    BY <1>1, MaxOf
  <2> QED
    BY <2>1
<1>3. \A a \in MemListings : \A i \in D : g[<<a, i>>] = WithAccess(a, s[i]) /\ g[<<a, i>>] \in MemListings
  <2> SUFFICES ASSUME NEW a \in MemListings, NEW i \in D PROVE g[<<a, i>>] = WithAccess(a, s[i]) /\ g[<<a, i>>] \in MemListings
    OBVIOUS
  <2>1. g[<<a, i>>] = WithAccess(a, s[i])
    OBVIOUS
  <2>2. WithAccess(a, s[i]) \in MemListings
    BY <1>1, WithAccessTyped
  <2> QED
    BY <2>1, <2>2
<1> HIDE DEF g
<1>4. ASSUME NEW f, Folds(f, g, base, D) PROVE Body(f)
  <2>1. f[{}] = base /\ \A t \in SUBSET D : t # {} => f[t] = g[<<f[t \ {Max(t)}], Max(t)>>]
    <3>1. FoldsIn(f, g, base, D) /\ {} \in SUBSET D
      BY <1>4, FoldsAt
    <3> QED
      BY <3>1 DEF FoldsIn
  <2>2. \A t \in SUBSET (1 .. n) : f[t] \in MemListings
    <3>1. \A t \in SUBSET (1 .. n) : t # {} /\ f[t \ {Max(t)}] \in MemListings => f[t] \in MemListings
      BY <1>2, <1>3, <2>1
    <3> QED
      BY <1>1, <2>1, <3>1, Hereditary
  <2>3. \A t \in SUBSET D : t # {} => f[t] = WithAccess(f[t \ {Max(t)}], s[Max(t)])
    BY <1>2, <1>3, <2>1, <2>2
  <2>4. \A t \in SUBSET D : t # {} => g[<<f[t \ {Max(t)}], Max(t)>>] = WithAccess(f[t \ {Max(t)}], s[Max(t)])
    BY <2>1, <2>3
  <2> QED
    BY <1>4, <2>4 DEF Folds
<1>5. PICK f : Folds(f, g, base, D)
  BY <1>1, FoldsExist
<1>6. \E e : Body(e) /\ FoldLeft(WithAccess, base, s) = e[D]
  <2>1. \E e : Body(e)
    BY <1>4, <1>5
  <2> QED
    BY <1>1, <2>1, Zenon DEF FoldLeft, MapThenFoldSet
<1>7. PICK e : Body(e) /\ FoldLeft(WithAccess, base, s) = e[D]
  BY <1>6
<1>8. Folds(e, g, base, D)
  <2>1. e[{}] = base /\ \A t \in SUBSET D : t # {} => e[t] = WithAccess(e[t \ {Max(t)}], s[Max(t)])
    BY <1>7
  <2>2. \A t \in SUBSET (1 .. n) : e[t] \in MemListings
    <3>1. \A t \in SUBSET (1 .. n) : t # {} /\ e[t \ {Max(t)}] \in MemListings => e[t] \in MemListings
      <4> SUFFICES ASSUME NEW t \in SUBSET (1 .. n), t # {}, e[t \ {Max(t)}] \in MemListings PROVE e[t] \in MemListings
        OBVIOUS
      <4>1. e[t] = WithAccess(e[t \ {Max(t)}], s[Max(t)]) /\ Max(t) \in D
        BY <1>2, <2>1
      <4>2. s[Max(t)] \in Line
        BY <1>1, <4>1
      <4> QED
        BY <4>1, <4>2, WithAccessTyped
    <3> QED
      BY <1>1, <2>1, <3>1, Hereditary
  <2>3. \A t \in SUBSET D : t # {} => WithAccess(e[t \ {Max(t)}], s[Max(t)]) = g[<<e[t \ {Max(t)}], Max(t)>>]
    BY <1>2, <1>3, <2>2
  <2> QED
    BY <1>7, <2>3 DEF Folds
<1>9. Fold(g, base, n) = e[1 .. n]
  BY <1>1, <1>8, FoldOf
<1> QED
  BY <1>7, <1>9 DEF g

LEMMA WithAccessSteps ==
  ASSUME NEW base \in MemListings
  PROVE  /\ FoldLeft(WithAccess, base, <<>>) = base
         /\ \A s \in Seq(Line) : \A w \in Line :
              /\ FoldLeft(WithAccess, base, s) \in MemListings
              /\ FoldLeft(WithAccess, base, Append(s, w)) = WithAccess(FoldLeft(WithAccess, base, s), w)
<1>1. FoldLeft(WithAccess, base, <<>>) = base
  <2> DEFINE g == [x \in MemListings \X (1 .. Len(<<>>)) |-> WithAccess(x[1], <<>>[x[2]])]
  <2>1. <<>> \in Seq(Line) /\ Len(<<>>) = 0
    OBVIOUS
  <2>2. FoldLeft(WithAccess, base, <<>>) = Fold(g, base, Len(<<>>))
    BY <2>1, WithAccessFold
  <2> HIDE DEF g
  <2>3. Fold(g, base, 0) = base
    BY FoldSteps DEF Steps
  <2> QED
    BY <2>1, <2>2, <2>3
<1>2. ASSUME NEW s \in Seq(Line), NEW w \in Line
      PROVE  /\ FoldLeft(WithAccess, base, s) \in MemListings
             /\ FoldLeft(WithAccess, base, Append(s, w)) = WithAccess(FoldLeft(WithAccess, base, s), w)
  <2> DEFINE n == Len(s)
             t == Append(s, w)
             g == [x \in MemListings \X (1 .. Len(s)) |-> WithAccess(x[1], s[x[2]])]
             h == [x \in MemListings \X (1 .. Len(t)) |-> WithAccess(x[1], t[x[2]])]
  <2>1. /\ n \in Nat /\ t \in Seq(Line) /\ Len(t) = n + 1 /\ t[n + 1] = w
        /\ \A i \in 1 .. n : t[i] = s[i] /\ s[i] \in Line /\ i \in 1 .. n + 1
    BY Appended
  <2> HIDE DEF t
  <2>2. FoldLeft(WithAccess, base, s) = Fold(g, base, n) /\ FoldLeft(WithAccess, base, t) = Fold(h, base, Len(t))
    BY <2>1, WithAccessFold
  <2>3. \A a \in MemListings : \A i \in 1 .. n : g[<<a, i>>] = WithAccess(a, s[i]) /\ h[<<a, i>>] = WithAccess(a, s[i])
    BY <2>1
  <2>4. \A a \in MemListings : h[<<a, n + 1>>] = WithAccess(a, w)
    BY <2>1
  <2> HIDE DEF g, h
  <2>5. \A a \in MemListings : \A i \in 1 .. n : g[<<a, i>>] \in MemListings /\ h[<<a, i>>] = g[<<a, i>>]
    BY <2>1, <2>3, WithAccessTyped
  <2>6. Fold(g, base, n) = Fold(h, base, n)
    BY <2>1, <2>5, FoldSame
  <2>7. Fold(g, base, n) \in MemListings
    <3>1. n \in 0 .. n /\ \A a \in MemListings : \A i \in 1 .. n : g[<<a, i>>] \in MemListings
      BY <2>1, <2>5
    <3> QED
      BY <2>1, <3>1, FoldTyped
  <2>8. Fold(h, base, n + 1) = h[<<Fold(h, base, n), n + 1>>]
    BY <2>1, FoldSteps DEF Steps
  <2> QED
    BY <2>1, <2>2, <2>4, <2>6, <2>7, <2>8 DEF t
<1> QED
  BY <1>1, <1>2
-----------------------------------------------------------------------------
(* The buffers.                                                            *)

AppendsTo(S) ==
  \A s \in Seq(S) : \A t \in Seq(S) : \A e \in S : s \o Append(t, e) = Append(s \o t, e)

LEMMA ConcatAppend ==
  ASSUME NEW S
  PROVE  AppendsTo(S)
<1> SUFFICES ASSUME NEW s \in Seq(S), NEW t \in Seq(S), NEW e \in S
             PROVE  s \o Append(t, e) = Append(s \o t, e)
  BY DEF AppendsTo
<1> DEFINE n == Len(s)
           m == Len(t)
           a == Append(t, e)
           b == s \o t
           c == s \o a
           d == Append(b, e)
<1>1. n \in Nat /\ m \in Nat
  OBVIOUS
<1>2. a \in Seq(S) /\ Len(a) = m + 1 /\ a[m + 1] = e /\ \A i \in 1 .. m : a[i] = t[i]
  BY Appended
<1>3. /\ b \in Seq(S) /\ Len(b) = n + m /\ \A i \in 1 .. n : b[i] = s[i]
      /\ \A i \in 1 .. m : b[n + i] = t[i]
  BY Joined
<1> HIDE DEF a, b
<1>4. /\ c \in Seq(S) /\ Len(c) = n + (m + 1) /\ \A i \in 1 .. n : c[i] = s[i]
      /\ \A i \in 1 .. m + 1 : c[n + i] = a[i]
  <2>1. /\ c \in Seq(S) /\ Len(c) = n + Len(a) /\ \A i \in 1 .. n : c[i] = s[i]
        /\ \A i \in 1 .. Len(a) : c[n + i] = a[i]
    <3>1. \A v \in Seq(S) : /\ s \o v \in Seq(S) /\ Len(s \o v) = Len(s) + Len(v)
                            /\ \A i \in 1 .. Len(s) : (s \o v)[i] = s[i]
                            /\ \A i \in 1 .. Len(v) : (s \o v)[Len(s) + i] = v[i]
      BY Joined
    <3>2. a \in Seq(S)
      BY <1>2
    <3> QED
      BY <3>1, <3>2, Zenon
  <2> HIDE DEF c
  <2> QED
    BY <1>2, <2>1
<1>5. d \in Seq(S) /\ Len(d) = n + m + 1 /\ d[n + m + 1] = e /\ \A i \in 1 .. n + m : d[i] = b[i]
  <2>1. /\ d \in Seq(S) /\ Len(d) = Len(b) + 1 /\ d[Len(b) + 1] = e
        /\ \A i \in 1 .. Len(b) : d[i] = b[i]
    BY <1>3, Appended
  <2>2. Len(b) = n + m
    BY <1>3
  <2> HIDE DEF d
  <2> QED
    BY <2>1, <2>2
<1> HIDE DEF c, d
<1>6. ASSUME NEW i \in 1 .. n + (m + 1) PROVE c[i] = d[i]
  <2>1. CASE i \in 1 .. n
    BY <1>1, <1>3, <1>4, <1>5, <2>1
  <2>2. CASE i \notin 1 .. n
    <3>1. PICK k \in 1 .. m + 1 : i = n + k
      <4>1. i - n \in 1 .. m + 1 /\ i = n + (i - n)
        BY <1>1, <2>2
      <4> QED
        BY <4>1
    <3>2. CASE k = m + 1
      BY <1>1, <1>2, <1>4, <1>5, <3>1, <3>2
    <3>3. CASE k \in 1 .. m
      BY <1>1, <1>2, <1>3, <1>4, <1>5, <3>1, <3>3
    <3> QED
      BY <1>1, <3>2, <3>3
  <2> QED
    BY <2>1, <2>2
<1>7. c = d
  BY <1>1, <1>4, <1>5, <1>6, SeqEqual
<1> QED
  BY <1>7 DEF a, b, c, d

LEMMA EmptyJoined ==
  ASSUME NEW S, NEW s \in Seq(S)
  PROVE  s \o <<>> = s /\ <<>> \o s = s /\ <<>> \in Seq(S)
OBVIOUS

LEMMA WordsJoin ==
  \A s \in Seq(Word) : \A t \in Seq(Word) : \A e \in Word : s \o Append(t, e) = Append(s \o t, e)
<1>1. AppendsTo(Word)
  BY ConcatAppend
<1> QED
  BY <1>1 DEF AppendsTo

LEMMA PutKeeps ==
  ASSUME NEW b \in Buffers, NEW w \in Word, Len(b.buf) <= BufSize
  PROVE  /\ Put(b, w).file \o Put(b, w).buf = Append(b.file \o b.buf, w)
         /\ Len(Put(b, w).buf) <= BufSize
<1>1. b.buf \in Seq(Word) /\ b.file \in Seq(Word) /\ BufSize \in Nat \ {0}
  BY SizeAssumption DEF Buffers
<1>2. CASE Len(b.buf) = BufSize
  <2>1. Put(b, w).file = b.file \o b.buf /\ Put(b, w).buf = <<w>>
    BY <1>2 DEF Put
  <2>2. b.file \o b.buf \in Seq(Word) /\ <<>> \in Seq(Word) /\ <<w>> = Append(<<>>, w) /\ Len(<<w>>) = 1
    BY <1>1, Joined
  <2>3. (b.file \o b.buf) \o Append(<<>>, w) = Append((b.file \o b.buf) \o <<>>, w)
    BY <2>2, WordsJoin, Zenon
  <2>4. (b.file \o b.buf) \o <<>> = b.file \o b.buf
    BY <2>2, EmptyJoined
  <2>5. (b.file \o b.buf) \o <<w>> = Append(b.file \o b.buf, w)
    BY <2>2, <2>3, <2>4, Zenon
  <2>6. Len(Put(b, w).buf) = 1
    BY <2>1, <2>2, Zenon
  <2>7. Put(b, w).file \o Put(b, w).buf = Append(b.file \o b.buf, w)
    BY <2>1, <2>5, Zenon
  <2> QED
    BY <1>1, <2>6, <2>7
<1>3. CASE Len(b.buf) # BufSize
  <2>1. Put(b, w).file = b.file /\ Put(b, w).buf = Append(b.buf, w)
    BY <1>3 DEF Put, Buffers
  <2>2. Len(Append(b.buf, w)) = Len(b.buf) + 1
    BY <1>1, Appended
  <2>3. b.file \o Append(b.buf, w) = Append(b.file \o b.buf, w)
    BY <1>1, WordsJoin
  <2>4. Len(b.buf) \in Nat
    BY <1>1
  <2> QED
    BY <1>1, <1>3, <2>1, <2>2, <2>3, <2>4
<1> QED
  BY <1>2, <1>3

\* What a write of one or two words does, all three places together.
Holds(b, words) ==
  /\ b \in Buffers /\ Len(b.buf) <= BufSize
  /\ b.file \o b.buf = (file \o buf) \o words

LEMMA PutsKeep ==
  ASSUME TypeOK, NEW words \in Seq(Word), Len(words) \in {1, 2}
  PROVE  Holds(FoldLeft(Put, [buf |-> buf, file |-> file], words), words)
<1> DEFINE base == [buf |-> buf, file |-> file]
           all == file \o buf
<1>1. base \in Buffers /\ Len(base.buf) <= BufSize /\ base.file \o base.buf = all /\ all \in Seq(Word)
  BY Joined DEF TypeOK, Buffers
<1>2. words[1] \in Word
  OBVIOUS
<1> DEFINE first == <<words[1]>>
           one == Put(base, words[1])
<1>3. first \in Seq(Word) /\ first = Append(<<>>, words[1]) /\ <<>> \in Seq(Word)
  BY <1>2
<1> HIDE DEF base, all
<1>4. all \o first = Append(all, words[1])
  <2>1. all \o Append(<<>>, words[1]) = Append(all \o <<>>, words[1])
    BY <1>1, <1>2, <1>3, WordsJoin
  <2>2. all \o <<>> = all
    BY <1>1, EmptyJoined
  <2> QED
    BY <1>3, <2>1, <2>2
<1>5. one \in Buffers /\ Len(one.buf) <= BufSize /\ one.file \o one.buf = all \o first
  BY <1>1, <1>2, <1>4, PutKeeps, PutTyped
<1>6. FoldLeft(Put, base, first) = one
  <2>1. /\ FoldLeft(Put, base, <<>>) = base
        /\ FoldLeft(Put, base, Append(<<>>, words[1])) = Put(FoldLeft(Put, base, <<>>), words[1])
    BY <1>1, <1>2, <1>3, PutSteps
  <2> QED
    BY <1>3, <2>1
<1>7. CASE Len(words) = 1
  <2>1. words = first
    BY <1>7
  <2> QED
    BY <1>5, <1>6, <2>1 DEF Holds, all, base
<1>8. CASE Len(words) = 2
  <2> DEFINE two == Put(one, words[2])
  <2>1. words[2] \in Word /\ words = Append(first, words[2])
    BY <1>8
  <2> HIDE DEF first, one
  <2>2. FoldLeft(Put, base, Append(first, words[2])) = Put(FoldLeft(Put, base, first), words[2])
    BY <1>1, <1>3, <2>1, PutSteps
  <2>3. two \in Buffers /\ Len(two.buf) <= BufSize /\ two.file \o two.buf = Append(all \o first, words[2])
    BY <1>5, <2>1, PutKeeps, PutTyped
  <2>4. all \o Append(first, words[2]) = Append(all \o first, words[2])
    BY <1>1, <1>3, <2>1, WordsJoin
  <2>5. FoldLeft(Put, base, words) = two
    BY <1>6, <2>1, <2>2
  <2>6. two.file \o two.buf = all \o words
    BY <2>1, <2>3, <2>4
  <2> HIDE DEF two
  <2>7. Holds(two, words)
    BY <2>3, <2>6 DEF Holds, all
  <2> QED
    BY <2>5, <2>7 DEF base
<1> QED
  BY <1>7, <1>8

LogTyped(b, f, e) == /\ b \in Seq(Word) /\ f \in Seq(Word) /\ e \in Seq(Word)
                     /\ Len(b) <= BufSize /\ f \o b = e

LEMMA WriteStep ==
  ASSUME TypeOK, file \o buf = emitted, NEW words \in Seq(Word), Len(words) \in {1, 2},
         NEW flush \in BOOLEAN, Write(words, flush)
  PROVE  LogTyped(buf', file', emitted') /\ (flush => buf' = <<>>)
<1>1. PICK b : b = FoldLeft(Put, [buf |-> buf, file |-> file], words)
  OBVIOUS
<1>2. Holds(b, words)
  BY <1>1, PutsKeep
<1>3. /\ buf' = IF flush THEN <<>> ELSE b.buf
      /\ file' = IF flush THEN b.file \o b.buf ELSE b.file
      /\ emitted' = emitted \o words
  BY <1>1 DEF Write
<1>4. b.buf \in Seq(Word) /\ b.file \in Seq(Word) /\ Len(b.buf) <= BufSize /\ b.file \o b.buf = emitted \o words
  BY <1>2 DEF Holds, Buffers
<1>5. emitted' \in Seq(Word) /\ b.file \o b.buf \in Seq(Word)
  BY <1>3, <1>4, Joined DEF TypeOK
<1>6. CASE flush
  <2>1. <<>> \in Seq(Word) /\ Len(<<>>) = 0 /\ BufSize \in Nat
    BY SizeAssumption
  <2>2. (b.file \o b.buf) \o <<>> = b.file \o b.buf
    BY <1>5, EmptyJoined
  <2> QED
    BY <1>3, <1>4, <1>5, <1>6, <2>1, <2>2 DEF LogTyped
<1>7. CASE ~flush
  BY <1>3, <1>4, <1>5, <1>7 DEF LogTyped
<1> QED
  BY <1>6, <1>7

\* The lines chop-detrace prints for one word more.
LEMMA ReadingStep ==
  /\ Reading(<<>>) = [id |-> 0, lines |-> <<>>] /\ Pages(<<>>) = <<>>
  /\ \A s \in Seq(Word) : \A w \in Word :
       Reading(s) \in Reads /\ Reading(Append(s, w)) = Printed(Reading(s), w)
  /\ \A s \in Listings : \A l \in TraceLine :
       Pages(s) \in Listings /\ Pages(Append(s, l)) = WithPage(Pages(s), l)
<1>1. [id |-> 0, lines |-> <<>>] \in Reads
  BY DEF Reads
<1>2. <<>> \in Listings
  BY DEF Listings
<1>3. \A s \in Seq(Word) : \A w \in Word :
        Reading(s) \in Reads /\ Reading(Append(s, w)) = Printed(Reading(s), w)
  BY <1>1, PrintedSteps DEF Reading
<1>4. \A s \in Listings : \A l \in TraceLine :
        Pages(s) \in Listings /\ Pages(Append(s, l)) = WithPage(Pages(s), l)
  BY <1>2, WithPageSteps DEF Pages, Listings
<1>5. Reading(<<>>) = [id |-> 0, lines |-> <<>>] /\ Pages(<<>>) = <<>>
  BY <1>1, <1>2, PrintedSteps, WithPageSteps DEF Reading, Pages
<1> QED
  BY <1>3, <1>4, <1>5

\* What chop-detrace makes of the words so far: the trace it is in and its lines.
Shows(words, id, lines) == Reading(words).id = id /\ Pages(Reading(words).lines) = lines

LEMMA ShowsNext ==
  ASSUME NEW s \in Seq(Word), NEW w \in Word, NEW id, NEW lines, Shows(s, id, lines)
  PROVE  Shows(Append(s, w),
               IF w = End THEN id + 1 ELSE id,
               IF w \in {End, Invocation} THEN lines ELSE Append(lines, [trace |-> id, page |-> w]))
<1> DEFINE d == Reading(s)
           l == [trace |-> d.id, page |-> w]
<1>1. d \in Reads /\ Reading(Append(s, w)) = Printed(d, w) /\ d.id = id /\ Pages(d.lines) = lines
  BY ReadingStep DEF Shows
<1>2. d.id \in Nat /\ d.lines \in Listings /\ l \in TraceLine /\ l.page = w
  BY <1>1 DEF Reads, TraceLine, Listings
<1> HIDE DEF d
<1>3. CASE w = End
  <2>1. Printed(d, w).id = d.id + 1 /\ Printed(d, w).lines = d.lines
    BY <1>1, <1>3 DEF Printed, Reads
  <2> QED
    BY <1>1, <1>3, <2>1 DEF Shows
<1>4. CASE w # End
  <2>1. Printed(d, w).id = d.id /\ Printed(d, w).lines = Append(d.lines, l)
    BY <1>1, <1>4 DEF Printed, Reads
  <2>2. Pages(Append(d.lines, l)) = WithPage(Pages(d.lines), l)
    BY <1>2, ReadingStep
  <2>3. CASE w = Invocation
    BY <1>1, <1>2, <1>4, <2>1, <2>2, <2>3 DEF WithPage, Shows
  <2>4. CASE w # Invocation
    BY <1>1, <1>2, <1>4, <2>1, <2>2, <2>4 DEF WithPage, Shows
  <2> QED
    BY <2>3, <2>4
<1> QED
  BY <1>3, <1>4
-----------------------------------------------------------------------------
(* The records of the memory accesses.                                     *)

LEMMA FrontLast ==
  ASSUME NEW S, NEW s \in Seq(S), s # <<>>
  PROVE  /\ Front(s) \in Seq(S) /\ Last(s) \in S /\ Len(Front(s)) + 1 = Len(s)
         /\ s = Append(Front(s), Last(s))
<1>1. Len(s) \in Nat \ {0}
  OBVIOUS
<1>2. Front(s) \in Seq(S) /\ Len(Front(s)) + 1 = Len(s) /\ \A i \in 1 .. Len(s) - 1 : Front(s)[i] = s[i]
  <2> DEFINE n == Len(s) - 1
  <2>1. n \in Nat /\ n + 1 = Len(s) /\ Front(s) = SubSeq(s, 1, n)
    BY <1>1 DEF Front
  <2>2. SubSeq(s, 1, n) \in Seq(S)
    BY <1>1
  <2>3. Len(SubSeq(s, 1, n)) = n
    <3>1. n \in Nat /\ 1 \in Nat /\ 1 <= n + 1
      BY <1>1
    <3> HIDE DEF n
    <3>2. CASE n = 0
      BY <3>1, <3>2
    <3>3. CASE 1 <= n
      BY <3>1, <3>3
    <3> QED
      BY <3>1, <3>2, <3>3
  <2>4. \A i \in 1 .. n : SubSeq(s, 1, n)[i] = s[i]
    BY <1>1
  <2> QED
    BY <2>1, <2>2, <2>3, <2>4
<1>3. Last(s) \in S /\ Last(s) = s[Len(s)]
  BY <1>1 DEF Last
<1> DEFINE f == Front(s)
           l == Last(s)
<1>4. /\ Append(f, l) \in Seq(S) /\ Len(Append(f, l)) = Len(f) + 1 /\ Append(f, l)[Len(f) + 1] = l
      /\ \A i \in 1 .. Len(f) : Append(f, l)[i] = f[i]
  BY <1>2, <1>3, Appended
<1>5. \A i \in 1 .. Len(s) : Append(f, l)[i] = s[i]
  BY <1>1, <1>2, <1>3, <1>4
<1>6. Append(f, l) = s
  <2> HIDE DEF f, l
  <2> QED
    BY <1>2, <1>4, <1>5, SeqEqual DEF f, l
<1> QED
  BY <1>2, <1>3, <1>6

LEMMA RecordsJoin ==
  \A s \in Seq(MemRecord) : \A t \in Seq(MemRecord) : \A r \in MemRecord :
    s \o Append(t, r) = Append(s \o t, r)
<1>1. AppendsTo(MemRecord)
  BY ConcatAppend
<1> QED
  BY <1>1 DEF AppendsTo

\* What is noted is one record more, or takes the place of the last one.
AsRead(r) == [r EXCEPT !.kind = "read"]
Noted(all, r, after) ==
  \/ after = Append(all, r)
  \/ /\ r.kind = "write" /\ mbuf # <<>> /\ Last(mbuf) = AsRead(r)
     /\ \E f \in Seq(MemRecord) : all = Append(f, AsRead(r)) /\ after = Append(f, r)

MemTyped(b, f) == b \in Seq(MemRecord) /\ f \in Seq(MemRecord) /\ Len(b) <= MemBufSize

LEMMA NoteStep ==
  ASSUME TypeOK, NEW r \in MemRecord, Note(r)
  PROVE  MemTyped(mbuf', mfile') /\ mbuf' # <<>> /\ Last(mbuf') = r
         /\ Noted(mfile \o mbuf, r, mfile' \o mbuf')
<1>1. /\ mbuf \in Seq(MemRecord) /\ mfile \in Seq(MemRecord) /\ Len(mbuf) <= MemBufSize
      /\ MemBufSize \in Nat \ {0} /\ mfile \o mbuf \in Seq(MemRecord) /\ <<>> \in Seq(MemRecord)
  BY SizeAssumption, Joined DEF TypeOK
<1>2. ASSUME NEW s \in Seq(MemRecord)
      PROVE  /\ Append(s, r) \in Seq(MemRecord) /\ Append(s, r) # <<>> /\ Last(Append(s, r)) = r
             /\ Len(Append(s, r)) = Len(s) + 1
  BY DEF Last
<1>3. CASE Merges(r)
  <2> DEFINE f == Front(mbuf)
  <2>1. mbuf # <<>> /\ r.kind = "write" /\ Last(mbuf) = AsRead(r) /\ mbuf' = Append(f, r) /\ mfile' = mfile
    BY <1>3 DEF Note, Merges, AsRead
  <2>2. f \in Seq(MemRecord) /\ AsRead(r) \in MemRecord /\ Len(f) + 1 = Len(mbuf) /\ mbuf = Append(f, AsRead(r))
    BY <1>1, <2>1, FrontLast
  <2> HIDE DEF f
  <2>3. mfile \o f \in Seq(MemRecord)
    BY <1>1, <2>2, Joined
  <2>4. mfile \o mbuf = Append(mfile \o f, AsRead(r))
    BY <1>1, <2>2, RecordsJoin
  <2>5. mfile' \o mbuf' = Append(mfile \o f, r)
    BY <1>1, <2>1, <2>2, RecordsJoin
  <2>6. Noted(mfile \o mbuf, r, mfile' \o mbuf')
    BY <2>1, <2>3, <2>4, <2>5 DEF Noted
  <2>7. MemTyped(mbuf', mfile')
    BY <1>1, <1>2, <2>1, <2>2 DEF MemTyped
  <2>8. mbuf' # <<>> /\ Last(mbuf') = r
    BY <1>2, <2>1, <2>2
  <2> QED
    BY <2>6, <2>7, <2>8
<1>4. CASE ~Merges(r) /\ Len(mbuf) = MemBufSize
  <2>1. mbuf' = <<r>> /\ mfile' = mfile \o mbuf /\ <<r>> = Append(<<>>, r)
    BY <1>4 DEF Note
  <2>2. (mfile \o mbuf) \o Append(<<>>, r) = Append((mfile \o mbuf) \o <<>>, r)
    BY <1>1, RecordsJoin
  <2>3. (mfile \o mbuf) \o <<>> = mfile \o mbuf
    BY <1>1, EmptyJoined
  <2>4. mfile' \o mbuf' = Append(mfile \o mbuf, r)
    BY <2>1, <2>2, <2>3, Zenon
  <2>5. Noted(mfile \o mbuf, r, mfile' \o mbuf')
    BY <2>4 DEF Noted
  <2>6. Append(<<>>, r) \in Seq(MemRecord) /\ Append(<<>>, r) # <<>> /\ Last(Append(<<>>, r)) = r
        /\ Len(Append(<<>>, r)) = 1
    <3>1. Len(<<>>) + 1 = 1
      OBVIOUS
    <3> QED
      BY <1>1, <1>2, <3>1
  <2>7. MemTyped(mbuf', mfile') /\ mbuf' # <<>> /\ Last(mbuf') = r
    BY <1>1, <2>1, <2>6 DEF MemTyped
  <2> QED
    BY <2>5, <2>7
<1>5. CASE ~Merges(r) /\ Len(mbuf) # MemBufSize
  <2>1. mbuf' = Append(mbuf, r) /\ mfile' = mfile
    BY <1>5 DEF Note
  <2>2. mfile' \o mbuf' = Append(mfile \o mbuf, r)
    BY <1>1, <2>1, RecordsJoin
  <2>3. Noted(mfile \o mbuf, r, mfile' \o mbuf')
    BY <2>2 DEF Noted
  <2>4. Len(mbuf) + 1 <= MemBufSize
    BY <1>1, <1>5
  <2>5. MemTyped(mbuf', mfile') /\ mbuf' # <<>> /\ Last(mbuf') = r
    BY <1>1, <1>2, <2>1, <2>4 DEF MemTyped
  <2> QED
    BY <2>3, <2>5
<1> QED
  BY <1>3, <1>4, <1>5

LEMMA MemLineTyped ==
  ASSUME NEW r \in MemRecord
  PROVE  MemLine(r) \in Line
BY DEF MemLine, MemRecord, Line

LEMMA LineOfFaultTyped ==
  ASSUME NEW f \in Fault
  PROVE  LineOfFault(f) \in Line
BY DEF LineOfFault, Fault, Line

LEMMA MemLinesNext ==
  /\ Accesses(MemLines(<<>>)) = <<>>
  /\ \A s \in Seq(MemRecord) : \A r \in MemRecord :
       /\ Accesses(MemLines(s)) \in MemListings
       /\ Accesses(MemLines(Append(s, r))) = WithAccess(Accesses(MemLines(s)), MemLine(r))
<1>0. <<>> \in MemListings
  BY DEF MemListings
<1>1. MemLines(<<>>) = <<>>
  BY DEF MemLines
<1>2. ASSUME NEW s \in Seq(MemRecord), NEW r \in MemRecord
      PROVE  MemLines(s) \in Seq(Line) /\ MemLines(Append(s, r)) = Append(MemLines(s), MemLine(r))
  <2> DEFINE t == Append(s, r)
             a == MemLines(s)
             b == MemLines(t)
             l == MemLine(r)
             c == Append(a, l)
  <2>0. Len(s) \in Nat
    OBVIOUS
  <2>1. /\ t \in Seq(MemRecord) /\ Len(t) = Len(s) + 1 /\ t[Len(s) + 1] = r
        /\ \A i \in 1 .. Len(s) : t[i] = s[i]
    BY Appended
  <2>2. \A x \in MemRecord : MemLine(x) \in Line
    BY MemLineTyped
  <2>3. \A x \in Seq(MemRecord) : MemLines(x) \in Seq(Line) /\ Len(MemLines(x)) = Len(x)
                              /\ \A i \in 1 .. Len(x) : MemLines(x)[i] = MemLine(x[i])
    <3> SUFFICES ASSUME NEW x \in Seq(MemRecord)
                 PROVE  MemLines(x) \in Seq(Line) /\ Len(MemLines(x)) = Len(x)
                        /\ \A i \in 1 .. Len(x) : MemLines(x)[i] = MemLine(x[i])
      OBVIOUS
    <3>1. DOMAIN x = 1 .. Len(x) /\ Len(x) \in Nat /\ \A i \in 1 .. Len(x) : x[i] \in MemRecord
      OBVIOUS
    <3>2. MemLines(x) = [i \in 1 .. Len(x) |-> MemLine(x[i])]
      BY <3>1 DEF MemLines
    <3>3. \A i \in 1 .. Len(x) : MemLine(x[i]) \in Line
      BY <2>2, <3>1
    <3>4. MemLines(x) \in [1 .. Len(x) -> Line]
      BY <3>2, <3>3
    <3> QED
      BY <3>1, <3>2, <3>4
  <2> HIDE DEF t
  <2>4. a \in Seq(Line) /\ Len(a) = Len(s) /\ \A i \in 1 .. Len(s) : a[i] = MemLine(s[i])
    BY <2>3
  <2>5. b \in Seq(Line) /\ Len(b) = Len(s) + 1 /\ b[Len(s) + 1] = l /\ \A i \in 1 .. Len(s) : b[i] = MemLine(s[i])
    <3>1. b \in Seq(Line) /\ Len(b) = Len(t) /\ \A i \in 1 .. Len(t) : b[i] = MemLine(t[i])
      BY <2>1, <2>3
    <3> HIDE DEF b
    <3>2. b[Len(s) + 1] = l
      BY <2>0, <2>1, <3>1
    <3>3. \A i \in 1 .. Len(s) : b[i] = MemLine(s[i])
      BY <2>0, <2>1, <3>1
    <3> QED
      BY <2>1, <3>1, <3>2, <3>3
  <2>6. l \in Line
    BY <2>2
  <2> HIDE DEF a, b, l
  <2>7. /\ c \in Seq(Line) /\ Len(c) = Len(a) + 1 /\ c[Len(a) + 1] = l
        /\ \A i \in 1 .. Len(a) : c[i] = a[i]
    BY <2>4, <2>6, Appended
  <2> HIDE DEF c
  <2>8. \A i \in 1 .. Len(b) : b[i] = c[i]
    BY <2>0, <2>4, <2>5, <2>7
  <2>9. b = c
    BY <2>4, <2>5, <2>7, <2>8, SeqEqual
  <2> QED
    BY <2>4, <2>9 DEF a, b, c, l, t
<1>3. Accesses(MemLines(<<>>)) = <<>>
  BY <1>0, <1>1, WithAccessSteps DEF Accesses
<1>4. ASSUME NEW s \in Seq(MemRecord), NEW r \in MemRecord
      PROVE  /\ Accesses(MemLines(s)) \in MemListings
             /\ Accesses(MemLines(Append(s, r))) = WithAccess(Accesses(MemLines(s)), MemLine(r))
  <2>1. MemLine(r) \in Line
    BY MemLineTyped
  <2> DEFINE a == MemLines(s)
             l == MemLine(r)
  <2>2. a \in Seq(Line) /\ MemLines(Append(s, r)) = Append(a, l) /\ l \in Line
    BY <1>2, <2>1
  <2> HIDE DEF a, l
  <2>3. /\ FoldLeft(WithAccess, <<>>, a) \in MemListings
        /\ FoldLeft(WithAccess, <<>>, Append(a, l)) = WithAccess(FoldLeft(WithAccess, <<>>, a), l)
    BY <1>0, <2>2, WithAccessSteps
  <2> QED
    BY <2>2, <2>3 DEF Accesses, a, l
<1> QED
  BY <1>3, <1>4

LEMMA LinesOfFaultsNext ==
  /\ Accesses(LinesOfFaults(<<>>)) = <<>>
  /\ \A s \in Seq(Fault) : \A r \in Fault :
       /\ Accesses(LinesOfFaults(s)) \in MemListings
       /\ Accesses(LinesOfFaults(Append(s, r))) = WithAccess(Accesses(LinesOfFaults(s)), LineOfFault(r))
<1>0. <<>> \in MemListings
  BY DEF MemListings
<1>1. LinesOfFaults(<<>>) = <<>>
  BY DEF LinesOfFaults
<1>2. ASSUME NEW s \in Seq(Fault), NEW r \in Fault
      PROVE  LinesOfFaults(s) \in Seq(Line) /\ LinesOfFaults(Append(s, r)) = Append(LinesOfFaults(s), LineOfFault(r))
  <2> DEFINE t == Append(s, r)
             a == LinesOfFaults(s)
             b == LinesOfFaults(t)
             l == LineOfFault(r)
             c == Append(a, l)
  <2>0. Len(s) \in Nat
    OBVIOUS
  <2>1. /\ t \in Seq(Fault) /\ Len(t) = Len(s) + 1 /\ t[Len(s) + 1] = r
        /\ \A i \in 1 .. Len(s) : t[i] = s[i]
    BY Appended
  <2>2. \A x \in Fault : LineOfFault(x) \in Line
    BY LineOfFaultTyped
  <2>3. \A x \in Seq(Fault) : LinesOfFaults(x) \in Seq(Line) /\ Len(LinesOfFaults(x)) = Len(x)
                              /\ \A i \in 1 .. Len(x) : LinesOfFaults(x)[i] = LineOfFault(x[i])
    <3> SUFFICES ASSUME NEW x \in Seq(Fault)
                 PROVE  LinesOfFaults(x) \in Seq(Line) /\ Len(LinesOfFaults(x)) = Len(x)
                        /\ \A i \in 1 .. Len(x) : LinesOfFaults(x)[i] = LineOfFault(x[i])
      OBVIOUS
    <3>1. DOMAIN x = 1 .. Len(x) /\ Len(x) \in Nat /\ \A i \in 1 .. Len(x) : x[i] \in Fault
      OBVIOUS
    <3>2. LinesOfFaults(x) = [i \in 1 .. Len(x) |-> LineOfFault(x[i])]
      BY <3>1 DEF LinesOfFaults
    <3>3. \A i \in 1 .. Len(x) : LineOfFault(x[i]) \in Line
      BY <2>2, <3>1
    <3>4. LinesOfFaults(x) \in [1 .. Len(x) -> Line]
      BY <3>2, <3>3
    <3> QED
      BY <3>1, <3>2, <3>4
  <2> HIDE DEF t
  <2>4. a \in Seq(Line) /\ Len(a) = Len(s) /\ \A i \in 1 .. Len(s) : a[i] = LineOfFault(s[i])
    BY <2>3
  <2>5. b \in Seq(Line) /\ Len(b) = Len(s) + 1 /\ b[Len(s) + 1] = l /\ \A i \in 1 .. Len(s) : b[i] = LineOfFault(s[i])
    <3>1. b \in Seq(Line) /\ Len(b) = Len(t) /\ \A i \in 1 .. Len(t) : b[i] = LineOfFault(t[i])
      BY <2>1, <2>3
    <3> HIDE DEF b
    <3>2. b[Len(s) + 1] = l
      BY <2>0, <2>1, <3>1
    <3>3. \A i \in 1 .. Len(s) : b[i] = LineOfFault(s[i])
      BY <2>0, <2>1, <3>1
    <3> QED
      BY <2>1, <3>1, <3>2, <3>3
  <2>6. l \in Line
    BY <2>2
  <2> HIDE DEF a, b, l
  <2>7. /\ c \in Seq(Line) /\ Len(c) = Len(a) + 1 /\ c[Len(a) + 1] = l
        /\ \A i \in 1 .. Len(a) : c[i] = a[i]
    BY <2>4, <2>6, Appended
  <2> HIDE DEF c
  <2>8. \A i \in 1 .. Len(b) : b[i] = c[i]
    BY <2>0, <2>4, <2>5, <2>7
  <2>9. b = c
    BY <2>4, <2>5, <2>7, <2>8, SeqEqual
  <2> QED
    BY <2>4, <2>9 DEF a, b, c, l, t
<1>3. Accesses(LinesOfFaults(<<>>)) = <<>>
  BY <1>0, <1>1, WithAccessSteps DEF Accesses
<1>4. ASSUME NEW s \in Seq(Fault), NEW r \in Fault
      PROVE  /\ Accesses(LinesOfFaults(s)) \in MemListings
             /\ Accesses(LinesOfFaults(Append(s, r))) = WithAccess(Accesses(LinesOfFaults(s)), LineOfFault(r))
  <2>1. LineOfFault(r) \in Line
    BY LineOfFaultTyped
  <2> DEFINE a == LinesOfFaults(s)
             l == LineOfFault(r)
  <2>2. a \in Seq(Line) /\ LinesOfFaults(Append(s, r)) = Append(a, l) /\ l \in Line
    BY <1>2, <2>1
  <2> HIDE DEF a, l
  <2>3. /\ FoldLeft(WithAccess, <<>>, a) \in MemListings
        /\ FoldLeft(WithAccess, <<>>, Append(a, l)) = WithAccess(FoldLeft(WithAccess, <<>>, a), l)
    BY <1>0, <2>2, WithAccessSteps
  <2> QED
    BY <2>2, <2>3 DEF Accesses, a, l
<1> QED
  BY <1>3, <1>4

-----------------------------------------------------------------------------
(* The inductive invariant.                                                *)

LEMMA Marks ==
  /\ Invocation \in Word /\ Begin \in Word /\ End \in Word /\ Page \subseteq Word
  /\ Begin # Invocation /\ Begin # End /\ Invocation # End
  /\ \A p \in Page : p # Invocation /\ p # Begin /\ p # End
BY PageAssumption DEF Word, Invocation, Begin, End

LEMMA OneMore ==
  ASSUME NEW s \in Seq(Word), NEW a \in Word
  PROVE  /\ s \o <<a>> = Append(s, a) /\ Append(s, a) \in Seq(Word)
         /\ \A b \in Word : s \o <<a, b>> = Append(Append(s, a), b)
<1>0. <<>> \in Seq(Word) /\ <<a>> = Append(<<>>, a) /\ <<a>> \in Seq(Word)
  OBVIOUS
<1>1. s \o <<a>> = Append(s, a)
  <2>1. s \o Append(<<>>, a) = Append(s \o <<>>, a)
    BY <1>0, WordsJoin
  <2>2. s \o <<>> = s
    BY EmptyJoined
  <2> QED
    BY <1>0, <2>1, <2>2, Zenon
<1>2. ASSUME NEW b \in Word PROVE s \o <<a, b>> = Append(Append(s, a), b)
  <2>1. s \o Append(<<a>>, b) = Append(s \o <<a>>, b)
    BY <1>0, WordsJoin
  <2>2. <<a, b>> = Append(<<a>>, b)
    OBVIOUS
  <2> QED
    BY <1>1, <2>1, <2>2, Zenon
<1>3. Append(s, a) \in Seq(Word)
  OBVIOUS
<1> QED
  BY <1>1, <1>2, <1>3

Seen == [trace : Nat, page : Page \cup {Begin}]

\* A page, or the begin of a trace, is seen in the trace that is recorded.
LEMMA SeenNext ==
  ASSUME TypeOK, Attributed, NEW p \in Page \cup {Begin}
  PROVE  /\ Shows(Append(emitted, p), traceId, Append(listing, [trace |-> traceId, page |-> p]))
         /\ Append(listing, [trace |-> traceId, page |-> p]) \in Seq(Seen)
         /\ Append(listing, [trace |-> traceId, page |-> p]) # <<>>
         /\ Last(Append(listing, [trace |-> traceId, page |-> p])).page = p
<1> DEFINE l == [trace |-> traceId, page |-> p]
<1>1. emitted \in Seq(Word) /\ Shows(emitted, traceId, listing) /\ l \in Seen /\ listing \in Seq(Seen) /\ l.page = p
  BY DEF TypeOK, Attributed, Shows, Seen
<1>2. p \in Word /\ p # Invocation /\ p # End
  BY Marks
<1>3. Shows(Append(emitted, p), IF p = End THEN traceId + 1 ELSE traceId,
            IF p \in {End, Invocation} THEN listing ELSE Append(listing, [trace |-> traceId, page |-> p]))
  BY <1>1, <1>2, ShowsNext
<1>4. Shows(Append(emitted, p), traceId, Append(listing, [trace |-> traceId, page |-> p]))
  BY <1>2, <1>3
<1> HIDE DEF l
<1>5. Append(listing, l) \in Seq(Seen) /\ Append(listing, l) # <<>> /\ Last(Append(listing, l)) = l
  BY <1>1 DEF Last
<1> QED
  BY <1>1, <1>4, <1>5 DEF l

LEMMA InvocationSkipped ==
  ASSUME TypeOK, Attributed
  PROVE  Shows(Append(emitted, Invocation), traceId, listing)
<1>1. emitted \in Seq(Word) /\ Shows(emitted, traceId, listing)
  BY DEF TypeOK, Attributed, Shows
<1>2. Shows(Append(emitted, Invocation), IF Invocation = End THEN traceId + 1 ELSE traceId,
            IF Invocation \in {End, Invocation} THEN listing
            ELSE Append(listing, [trace |-> traceId, page |-> Invocation]))
  BY <1>1, Marks, ShowsNext
<1> QED
  BY <1>2, Marks

\* The first record of an access and that of its second fault are listed as the
\* faults are, whether or not a record takes the place of the last one.
LEMMA AccessNoted ==
  ASSUME TypeOK, Recorded, NEW f \in Fault, f.again => f.pc \in Stores,
         Note(Record(f.pc, f.page, IF f.again THEN "write" ELSE FirstKind(f.page))),
         memitted' = Append(memitted, f)
  PROVE  /\ MemTyped(mbuf', mfile') /\ memitted' \in Seq(Fault) /\ memitted' # <<>>
         /\ Accesses(MemLines(mfile' \o mbuf')) = Accesses(LinesOfFaults(memitted'))
         /\ Last(mbuf').code => Last(mbuf').kind = "write"
<1> DEFINE r == Record(f.pc, f.page, IF f.again THEN "write" ELSE FirstKind(f.page))
           all == mfile \o mbuf
<1>1. /\ r \in MemRecord /\ f \in Fault /\ r.pc = f.pc /\ r.page = f.page
      /\ r.code = (f.page \in CodePages)
      /\ r.kind = IF f.again \/ f.page \in CodePages THEN "write" ELSE "read"
  BY DEF Record, FirstKind, MemRecord, Fault
<1>2. MemLine(r) = LineOfFault(f)
  BY DEF Record, FirstKind, MemLine, LineOfFault
<1> HIDE DEF r
<1>3. MemTyped(mbuf', mfile') /\ mbuf' # <<>> /\ Last(mbuf') = r /\ Noted(all, r, mfile' \o mbuf')
  BY <1>1, NoteStep DEF r
<1>4. memitted \in Seq(Fault) /\ all \in Seq(MemRecord) /\ mbuf \in Seq(MemRecord)
  BY Joined DEF TypeOK
<1>5. memitted' = Append(memitted, f)
  OBVIOUS
<1>6. memitted' \in Seq(Fault) /\ memitted' # <<>>
  <2>1. Append(memitted, f) \in Seq(Fault) /\ Len(Append(memitted, f)) = Len(memitted) + 1
    BY <1>1, <1>4, Appended
  <2>2. Len(memitted) \in Nat /\ Len(<<>>) = 0
    BY <1>4
  <2> QED
    BY <1>5, <2>1, <2>2
<1>7. Last(mbuf').code => Last(mbuf').kind = "write"
  BY <1>1, <1>3
<1>8. Accesses(MemLines(mfile' \o mbuf')) = WithAccess(Accesses(MemLines(all)), MemLine(r))
  <2>1. CASE mfile' \o mbuf' = Append(all, r)
    BY <1>1, <1>4, <2>1, MemLinesNext
  <2>2. ASSUME r.kind = "write", mbuf # <<>>, Last(mbuf) = AsRead(r),
               NEW g \in Seq(MemRecord), all = Append(g, AsRead(r)), mfile' \o mbuf' = Append(g, r)
        PROVE  Accesses(MemLines(mfile' \o mbuf')) = WithAccess(Accesses(MemLines(all)), MemLine(r))
    <3>1. AsRead(r) \in MemRecord /\ AsRead(r).kind = "read" /\ AsRead(r).code = r.code /\ AsRead(r).pc = f.pc
      BY <1>1 DEF AsRead, MemRecord
    <3>2. f.pc \in Stores
      <4>1. ~r.code
        BY <2>2, <3>1 DEF Recorded
      <4>2. f.again
        BY <1>1, <2>2, <4>1
      <4> QED
        BY <4>2
    <3>3. MemLine(AsRead(r)).pc \in Stores /\ MemLine(AsRead(r)).kind # "W"
      BY <3>1, <3>2 DEF MemLine
    <3>4. Accesses(MemLines(all)) = WithAccess(Accesses(MemLines(g)), MemLine(AsRead(r)))
      BY <2>2, <3>1, MemLinesNext
    <3>5. Accesses(MemLines(all)) = Accesses(MemLines(g))
      BY <3>3, <3>4 DEF WithAccess
    <3>6. Accesses(MemLines(Append(g, r))) = WithAccess(Accesses(MemLines(g)), MemLine(r))
      BY <1>1, <2>2, MemLinesNext
    <3> QED
      BY <2>2, <3>5, <3>6
  <2> QED
    BY <1>3, <2>1, <2>2 DEF Noted
<1>9. Accesses(LinesOfFaults(memitted')) = WithAccess(Accesses(LinesOfFaults(memitted)), LineOfFault(f))
  BY <1>1, <1>4, <1>5, LinesOfFaultsNext
<1>10. Accesses(MemLines(all)) = Accesses(LinesOfFaults(memitted))
  BY DEF Recorded
<1> QED
  BY <1>2, <1>3, <1>6, <1>7, <1>8, <1>9, <1>10

LEMMA InitIInv ==
  ASSUME Init
  PROVE  IInv
<1>1. TypeOK
  <2>1. <<>> \in Seq(Word) /\ <<>> \in Seq(MemRecord) /\ <<>> \in Seq(Fault) /\ Len(<<>>) = 0
        /\ <<>> \in Seq([trace : Nat, page : Page \cup {Begin}])
    OBVIOUS
  <2>2. 0 <= BufSize /\ 0 <= MemBufSize /\ Budget \in Nat
    BY SizeAssumption, LimitAssumption
  <2> QED
    BY <2>1, <2>2 DEF Init, TypeOK
<1>2. WrittenBack
  <2>1. <<>> \o <<>> = <<>>
    BY EmptyJoined
  <2> QED
    BY <2>1 DEF Init, WrittenBack
<1>3. Attributed
  BY ReadingStep DEF Init, Attributed
<1>4. Recorded
  <2>1. <<>> \o <<>> = <<>>
    BY EmptyJoined
  <2>2. Accesses(MemLines(<<>>)) = Accesses(LinesOfFaults(<<>>))
    BY MemLinesNext, LinesOfFaultsNext
  <2> QED
    BY <2>1, <2>2 DEF Init, Recorded
<1> QED
  BY <1>1, <1>2, <1>3, <1>4 DEF IInv

LEMMA StartTraceStep ==
  ASSUME IInv, NEW new \in BOOLEAN, StartTrace(new)
  PROVE  IInv'
<1> DEFINE words == IF new THEN <<Invocation, Begin>> ELSE <<Begin>>
           lines == Append(listing, [trace |-> traceId, page |-> Begin])
<1>0. /\ TypeOK /\ WrittenBack /\ Attributed /\ Recorded /\ ended = "no" /\ ~tracing
      /\ budget > 0 /\ budget' = budget - 1 /\ Write(words, FALSE) /\ tracing' = TRUE
      /\ listing' = lines /\ UNCHANGED <<mlog, traceId, ended>>
  BY DEF IInv, StartTrace, Spend
<1>1. words \in Seq(Word) /\ Len(words) \in {1, 2}
  BY Marks
<1>2. emitted' = emitted \o words
  BY <1>0 DEF Write
<1>3. LogTyped(buf', file', emitted')
  <2> HIDE DEF words
  <2> QED
    BY <1>0, <1>1, WriteStep DEF WrittenBack
<1>4. /\ Shows(emitted', traceId, lines) /\ lines \in Seq(Seen)
      /\ lines # <<>> /\ Last(lines).page = Begin
  <2>1. Begin \in Page \cup {Begin} /\ emitted \in Seq(Word)
    BY <1>0 DEF TypeOK
  <2>2. /\ Shows(Append(emitted, Begin), traceId, lines) /\ lines \in Seq(Seen)
        /\ lines # <<>> /\ Last(lines).page = Begin
    BY <1>0, <2>1, SeenNext
  <2>3. CASE ~new
    <3>1. emitted' = Append(emitted, Begin)
      BY <1>2, <2>1, <2>3, Marks, OneMore
    <3> QED
      BY <2>2, <3>1
  <2>4. CASE new
    <3> DEFINE s == Append(emitted, Invocation)
    <3>1. emitted' = Append(s, Begin) /\ s \in Seq(Word)
      BY <1>2, <2>1, <2>4, Marks, OneMore
    <3>2. Shows(s, traceId, listing)
      BY <1>0, InvocationSkipped
    <3> HIDE DEF s
    <3>3. Shows(Append(s, Begin), IF Begin = End THEN traceId + 1 ELSE traceId,
                IF Begin \in {End, Invocation} THEN listing
                ELSE Append(listing, [trace |-> traceId, page |-> Begin]))
      BY <3>1, <3>2, Marks, ShowsNext
    <3>4. Shows(Append(s, Begin), traceId, lines)
      BY <3>3, Marks
    <3> QED
      BY <2>2, <3>1, <3>4
  <2> QED
    BY <2>3, <2>4
<1> HIDE DEF words, lines
<1>5. TypeOK'
  BY <1>0, <1>3, <1>4 DEF TypeOK, LogTyped, mlog, Seen
<1>6. WrittenBack'
  BY <1>0, <1>3 DEF LogTyped, WrittenBack
<1>7. Attributed'
  BY <1>0, <1>4 DEF Attributed, Shows
<1>8. Recorded'
  BY <1>0, <1>4, Marks DEF Recorded, mlog
<1> QED
  BY <1>5, <1>6, <1>7, <1>8 DEF IInv

LEMMA ReadFaultStep ==
  ASSUME IInv, NEW pc \in Pc, NEW p \in Page, ReadFault(pc, p)
  PROVE  IInv'
<1> DEFINE lines == Append(listing, [trace |-> traceId, page |-> p])
           words == <<p>>
<1>0. /\ TypeOK /\ WrittenBack /\ Attributed /\ Recorded /\ ended = "no" /\ tracing
      /\ budget > 0 /\ budget' = budget - 1 /\ Write(words, FALSE)
      /\ Note(Record(pc, p, FirstKind(p)))
      /\ memitted' = Append(memitted, [pc |-> pc, page |-> p, again |-> FALSE])
      /\ listing' = lines /\ UNCHANGED <<traceId, tracing, ended>>
  BY DEF IInv, ReadFault, Spend
<1>1. words \in Seq(Word) /\ Len(words) \in {1, 2}
  BY Marks
<1>2. emitted' = Append(emitted, p)
  <2>1. emitted' = emitted \o words /\ emitted \in Seq(Word) /\ p \in Word
    BY <1>0, Marks DEF Write, TypeOK
  <2> QED
    BY <2>1, OneMore
<1>3. LogTyped(buf', file', emitted')
  <2> HIDE DEF words
  <2> QED
    BY <1>0, <1>1, WriteStep DEF WrittenBack
<1>4. /\ Shows(emitted', traceId, lines) /\ lines \in Seq(Seen)
      /\ lines # <<>> /\ Last(lines).page = p
  BY <1>0, <1>2, SeenNext
<1>5. /\ MemTyped(mbuf', mfile') /\ memitted' \in Seq(Fault) /\ memitted' # <<>>
      /\ Accesses(MemLines(mfile' \o mbuf')) = Accesses(LinesOfFaults(memitted'))
      /\ Last(mbuf').code => Last(mbuf').kind = "write"
  <2> DEFINE f == [pc |-> pc, page |-> p, again |-> FALSE]
  <2>1. /\ f \in Fault /\ (f.again => f.pc \in Stores)
        /\ Note(Record(f.pc, f.page, IF f.again THEN "write" ELSE FirstKind(f.page)))
        /\ memitted' = Append(memitted, f)
    BY <1>0 DEF Fault
  <2> HIDE DEF f
  <2> QED
    BY <1>0, <2>1, AccessNoted
<1> HIDE DEF words, lines
<1>6. TypeOK'
  BY <1>0, <1>3, <1>4, <1>5 DEF TypeOK, LogTyped, MemTyped, Seen
<1>7. WrittenBack'
  BY <1>0, <1>3 DEF LogTyped, WrittenBack
<1>8. Attributed'
  BY <1>0, <1>4 DEF Attributed, Shows
<1>9. Recorded'
  BY <1>0, <1>4, <1>5 DEF Recorded
<1> QED
  BY <1>6, <1>7, <1>8, <1>9 DEF IInv

LEMMA WriteFaultStep ==
  ASSUME IInv, WriteFault
  PROVE  IInv'
<1> DEFINE f == Last(memitted)
<1>0. /\ TypeOK /\ WrittenBack /\ Attributed /\ Recorded /\ ended = "no" /\ tracing
      /\ Last(listing).page # Begin /\ f.pc \in Stores
      /\ Note(Record(f.pc, f.page, "write"))
      /\ memitted' = Append(memitted, [f EXCEPT !.again = TRUE])
      /\ UNCHANGED <<log, traceId, tracing, ended, listing, budget>>
  BY DEF IInv, WriteFault
<1>1. f \in Fault
  <2>1. listing \in Seq(Seen) /\ listing # <<>>
    BY <1>0 DEF TypeOK, Seen, Recorded
  <2>2. Last(listing) \in Seen
    BY <2>1, FrontLast
  <2>3. memitted # <<>> /\ memitted \in Seq(Fault)
    BY <1>0, <2>1, <2>2 DEF Seen, Recorded, TypeOK
  <2> QED
    BY <2>3, FrontLast
<1> HIDE DEF f
<1> DEFINE g == [f EXCEPT !.again = TRUE]
<1>2. g \in Fault /\ g.pc = f.pc /\ g.page = f.page /\ g.again
  BY <1>1 DEF Fault
<1> HIDE DEF g
<1>3. /\ MemTyped(mbuf', mfile') /\ memitted' \in Seq(Fault) /\ memitted' # <<>>
      /\ Accesses(MemLines(mfile' \o mbuf')) = Accesses(LinesOfFaults(memitted'))
      /\ Last(mbuf').code => Last(mbuf').kind = "write"
  <2>1. /\ Note(Record(g.pc, g.page, IF g.again THEN "write" ELSE FirstKind(g.page)))
        /\ memitted' = Append(memitted, g) /\ (g.again => g.pc \in Stores)
    BY <1>0, <1>2 DEF g
  <2> QED
    BY <1>0, <1>2, <2>1, AccessNoted
<1>4. TypeOK'
  BY <1>0, <1>3 DEF TypeOK, MemTyped, log
<1>5. WrittenBack'
  BY <1>0 DEF WrittenBack, log
<1>6. Attributed'
  BY <1>0 DEF Attributed, log
<1>7. Recorded'
  BY <1>0, <1>3 DEF Recorded
<1> QED
  BY <1>4, <1>5, <1>6, <1>7 DEF IInv

LEMMA StopTraceStep ==
  ASSUME IInv, StopTrace
  PROVE  IInv'
<1> DEFINE flush == FlushAt(traceId + 1)
           words == <<End>>
<1>0. /\ TypeOK /\ WrittenBack /\ Attributed /\ Recorded /\ ended = "no" /\ tracing
      /\ Write(words, flush) /\ traceId' = traceId + 1 /\ tracing' = FALSE
      /\ UNCHANGED <<mlog, ended, listing, budget>>
  BY DEF IInv, StopTrace
<1>1. words \in Seq(Word) /\ Len(words) \in {1, 2} /\ flush \in BOOLEAN /\ (flush <=> traceId + 1 >= MaxTraces)
  BY Marks DEF FlushAt
<1>2. emitted' = Append(emitted, End) /\ emitted \in Seq(Word)
  <2>1. emitted' = emitted \o words /\ emitted \in Seq(Word) /\ End \in Word
    BY <1>0, Marks DEF Write, TypeOK
  <2> QED
    BY <2>1, OneMore
<1>3. LogTyped(buf', file', emitted') /\ (flush => buf' = <<>>)
  <2> HIDE DEF words, flush
  <2> QED
    BY <1>0, <1>1, WriteStep DEF WrittenBack
<1>4. Shows(emitted', traceId + 1, listing)
  <2>1. Shows(emitted, traceId, listing)
    BY <1>0 DEF Attributed, Shows
  <2>2. Shows(Append(emitted, End), IF End = End THEN traceId + 1 ELSE traceId,
              IF End \in {End, Invocation} THEN listing
              ELSE Append(listing, [trace |-> traceId, page |-> End]))
    BY <1>2, <2>1, Marks, ShowsNext
  <2> QED
    BY <1>2, <2>2
<1> HIDE DEF words, flush
<1>5. TypeOK'
  <2>1. traceId' \in Nat /\ tracing' \in BOOLEAN
    <3>1. traceId \in Nat /\ traceId' = traceId + 1
      BY <1>0 DEF TypeOK
    <3>2. tracing' \in BOOLEAN
      BY <1>0, Zenon
    <3> QED
      BY <3>1, <3>2
  <2>2. UNCHANGED <<mbuf, mfile, memitted, ended, listing, budget>>
    BY <1>0 DEF mlog
  <2> QED
    BY <1>0, <1>3, <2>1, <2>2 DEF TypeOK, LogTyped
<1>6. WrittenBack'
  BY <1>0, <1>1, <1>3 DEF LogTyped, WrittenBack
<1>7. Attributed'
  BY <1>0, <1>4 DEF Attributed, Shows
<1>8. Recorded'
  BY <1>0 DEF Recorded, mlog
<1> QED
  BY <1>5, <1>6, <1>7, <1>8 DEF IInv

LEMMA ExitStep ==
  ASSUME IInv, Exit
  PROVE  IInv'
<1>0. /\ TypeOK /\ WrittenBack /\ Attributed /\ Recorded
      /\ ended' = "exit" /\ file' = file \o buf /\ buf' = <<>> /\ mfile' = mfile \o mbuf /\ mbuf' = <<>>
      /\ UNCHANGED <<emitted, memitted, traceId, tracing, listing, budget>>
  BY DEF IInv, Exit
<1>1. /\ <<>> \in Seq(Word) /\ file' \in Seq(Word) /\ file' \o <<>> = file'
      /\ <<>> \in Seq(MemRecord) /\ mfile' \in Seq(MemRecord) /\ mfile' \o <<>> = mfile' /\ Len(<<>>) = 0
  <2>1. file' \in Seq(Word) /\ mfile' \in Seq(MemRecord)
    BY <1>0, Joined DEF TypeOK
  <2> QED
    BY <2>1, EmptyJoined
<1>2. TypeOK'
  BY <1>0, <1>1, SizeAssumption DEF TypeOK
<1>3. WrittenBack'
  <2>1. file' \o buf' = emitted'
    BY <1>0, <1>1 DEF WrittenBack
  <2> QED
    BY <1>0, <2>1 DEF WrittenBack
<1>4. Attributed'
  BY <1>0 DEF Attributed
<1>5. Recorded'
  <2>1. mfile' \o mbuf' = mfile \o mbuf
    BY <1>0, <1>1
  <2> QED
    BY <1>0, <2>1 DEF Recorded
<1> QED
  BY <1>2, <1>3, <1>4, <1>5 DEF IInv

LEMMA KillStep ==
  ASSUME IInv, Kill
  PROVE  IInv'
<1>0. /\ TypeOK /\ WrittenBack /\ Attributed /\ Recorded /\ ~tracing
      /\ (MaxTraces > 0 /\ traceId >= MaxTraces) \/ Indexed
      /\ ended' = "killed" /\ UNCHANGED <<log, mlog, traceId, tracing, listing, budget>>
  BY DEF IInv, Kill
<1>1. TypeOK'
  BY <1>0 DEF TypeOK, log, mlog
<1>2. WrittenBack'
  BY <1>0 DEF WrittenBack, log
<1>3. Attributed'
  BY <1>0 DEF Attributed, log
<1>4. Recorded'
  BY <1>0 DEF Recorded, mlog
<1> QED
  BY <1>1, <1>2, <1>3, <1>4 DEF IInv

LEMMA StutterStep ==
  ASSUME IInv, UNCHANGED vars
  PROVE  IInv'
<1>1. TypeOK' /\ WrittenBack'
  BY DEF IInv, TypeOK, WrittenBack, vars, log, mlog
<1>2. Attributed' /\ Recorded'
  BY DEF IInv, Attributed, Recorded, vars, log, mlog
<1> QED
  BY <1>1, <1>2 DEF IInv

LEMMA NextIInv ==
  ASSUME IInv, [Next]_vars
  PROVE  IInv'
<1>1. CASE \E new \in BOOLEAN : StartTrace(new)
  BY <1>1, StartTraceStep
<1>2. CASE \E pc \in Pc, p \in Page : ReadFault(pc, p)
  BY <1>2, ReadFaultStep
<1>3. CASE WriteFault
  BY <1>3, WriteFaultStep
<1>4. CASE StopTrace
  BY <1>4, StopTraceStep
<1>5. CASE Exit
  BY <1>5, ExitStep
<1>6. CASE Kill
  BY <1>6, KillStep
<1>7. CASE Finished \/ UNCHANGED vars
  BY <1>7, StutterStep DEF Finished
<1> QED
  BY <1>1, <1>2, <1>3, <1>4, <1>5, <1>6, <1>7 DEF Next

\* The buffers hold what is not in the files, the readers keep pace with the
\* library and a merged record loses no line, for every size, limit and program.
THEOREM Invariance == Spec => []IInv
<1>1. Init => IInv
  BY InitIInv
<1>2. IInv /\ [Next]_vars => IInv'
  BY NextIInv
<1> QED
  BY <1>1, <1>2, PTL DEF Spec
-----------------------------------------------------------------------------
\* Without -indices, trace.bin is complete however the run ends: TraceBuffer is
\* flushed by the stop_trace that makes the tracer kill the program.
THEOREM NothingLostAlways ==
  ASSUME ~Indexed
  PROVE  Spec => []NothingLost
<1>1. IInv => NothingLost
  <2> SUFFICES ASSUME IInv, ended # "no" PROVE file = emitted
    BY DEF NothingLost
  <2>1. file \o buf = emitted /\ file \in Seq(Word)
    BY DEF IInv, TypeOK, WrittenBack
  <2>2. buf = <<>>
    BY DEF IInv, TypeOK, WrittenBack
  <2>3. file \o <<>> = file
    BY <2>1, EmptyJoined
  <2> QED
    BY <2>1, <2>2, <2>3
<1> QED
  BY <1>1, Invariance, PTL

\* chop-detrace attributes every page of a run that exits to its trace.
THEOREM PagesAttributedAlways == Spec => []PagesAttributed
<1>1. IInv => PagesAttributed
  <2> SUFFICES ASSUME IInv, ended = "exit" PROVE Pages(Detrace(file)) = listing
    BY DEF PagesAttributed
  <2>1. file \o buf = emitted /\ file \in Seq(Word) /\ buf = <<>>
    BY DEF IInv, TypeOK, WrittenBack
  <2>2. file \o <<>> = file
    BY <2>1, EmptyJoined
  <2>3. file = emitted
    BY <2>1, <2>2
  <2> QED
    BY <2>3 DEF IInv, Attributed, Detrace
<1> QED
  BY <1>1, Invariance, PTL

\* When the program exits, chop-detrace-mem lists every load and every store that
\* faulted, in order, wherever MemBuffer::write merged a record or a buffer ended.
THEOREM NoAccessLostAlways == Spec => []NoAccessLost
<1>1. IInv => NoAccessLost
  <2> SUFFICES ASSUME IInv, ended = "exit"
               PROVE  Accesses(MemLines(mfile)) = Accesses(LinesOfFaults(memitted))
    BY DEF NoAccessLost
  <2>1. mfile \in Seq(MemRecord) /\ mbuf = <<>>
    BY DEF IInv, TypeOK, WrittenBack
  <2>2. mfile \o <<>> = mfile
    BY <2>1, EmptyJoined
  <2>3. Accesses(MemLines(mfile \o mbuf)) = Accesses(LinesOfFaults(memitted))
    BY DEF IInv, Recorded
  <2> QED
    BY <2>1, <2>2, <2>3
<1> QED
  BY <1>1, Invariance, PTL
=============================================================================
