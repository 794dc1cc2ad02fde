---------------------------- MODULE ChopDbProof ----------------------------
(***************************************************************************)
(* Proofs about the control flow graph and the database, for every program *)
(* and every sequence of commands.                                         *)
(***************************************************************************)
EXTENDS ChopDb, FiniteSetTheorems, NaturalsInduction, WellFoundedInduction, TLAPS
-----------------------------------------------------------------------------
(* The blocks of a function.                                               *)

LEMMA Least ==
  ASSUME NEW C, C \subseteq Nat, C # {}
  PROVE  \E m \in C : \A n \in C : m <= n
<1>1. PICK m \in C : \A n \in C : ~ (<<n, m>> \in OpToRel(<, Nat))
  BY NatLessThanWellFounded, WFMin
<1>2. ASSUME NEW n \in C PROVE m <= n
  <2>1. ~ (<<n, m>> \in OpToRel(<, Nat))
    BY <1>1
  <2>2. m \in Nat /\ n \in Nat
    OBVIOUS
  <2>3. ~ (n < m)
    BY <2>1, <2>2 DEF OpToRel
  <2> QED
    BY <2>2, <2>3
<1> QED
  BY <1>2

IsLeast(m, C) == m \in C /\ \A n \in C : m <= n
IsGreatest(m, C) == m \in C /\ \A n \in C : n <= m

LEMMA MinOf ==
  ASSUME NEW C, C \subseteq Nat, C # {}
  PROVE  IsLeast(Min(C), C)
<1>1. \E m \in C : \A n \in C : m <= n
  BY Least
<1> QED
  BY <1>1 DEF IsLeast, Min

LEMMA MaxOf ==
  ASSUME NEW n \in Nat, NEW C \in SUBSET (1 .. n), C # {}
  PROVE  IsGreatest(Max(C), C)
<1> DEFINE D == {n - y : y \in C}
<1>0. \A y \in C : y \in Nat /\ n - y \in Nat
  <2>1. \A y \in 1 .. n : y \in Nat /\ n - y \in Nat
    OBVIOUS
  <2> QED
    BY <2>1
<1>1. D \subseteq Nat /\ D # {}
  BY <1>0
<1>2. \E m \in D : \A k \in D : m <= k
  <2> HIDE DEF D
  <2> QED
    BY <1>1, Least
<1>3. PICK x \in C : \A k \in D : n - x <= k
  BY <1>2
<1>4. \A y \in C : x >= y
  <2> SUFFICES ASSUME NEW y \in C PROVE x >= y
    OBVIOUS
  <2>1. n - x <= n - y /\ x \in Nat /\ y \in Nat
    BY <1>0, <1>3
  <2> QED
    BY <2>1
<1>5. Max(C) \in C /\ \A y \in C : Max(C) >= y
  BY <1>4, Zenon DEF Max
<1>6. Max(C) \in Nat /\ \A y \in C : y \in Nat
  BY <1>0, <1>5
<1> QED
  BY <1>5, <1>6 DEF IsGreatest

Inst == [addr : Nat, kind : Kinds, target : Nat]
Places(insts) ==
  /\ insts \in Seq(Inst) /\ Len(insts) \in Nat /\ 1 \in 1 .. Len(insts) /\ DOMAIN insts = 1 .. Len(insts)
  /\ \A i \in 1 .. Len(insts) : insts[i] \in Inst
  /\ \A i \in 1 .. Len(insts) : \A j \in 1 .. Len(insts) : i < j => insts[i].addr < insts[j].addr

LEMMA PlacesOf ==
  ASSUME NEW insts, Assembled(insts)
  PROVE  Places(insts)
<1>1. insts # <<>> /\ insts \in Seq(Inst)
  BY DEF Assembled, Inst
<1>2. Len(insts) \in Nat /\ 1 \in 1 .. Len(insts) /\ DOMAIN insts = 1 .. Len(insts)
  BY <1>1
<1>3. \A i \in 1 .. Len(insts) : insts[i] \in Inst
  BY <1>1
<1>4. \A i \in 1 .. Len(insts) : \A j \in 1 .. Len(insts) : i < j => insts[i].addr < insts[j].addr
  BY <1>2 DEF Assembled
<1> QED
  BY <1>1, <1>2, <1>3, <1>4 DEF Places

\* Instructions with the same address are the same.
LEMMA AddrUnique ==
  ASSUME NEW insts, Assembled(insts), NEW i \in DOMAIN insts, NEW j \in DOMAIN insts,
         insts[i].addr = insts[j].addr
  PROVE  i = j
<1>1. Places(insts)
  BY PlacesOf
<1>2. i \in Nat /\ j \in Nat /\ insts[i].addr \in Nat /\ insts[j].addr \in Nat
  BY <1>1 DEF Places, Inst
<1>3. ~(i < j) /\ ~(j < i)
  BY <1>1, <1>2 DEF Places
<1> QED
  BY <1>2, <1>3

LEMMA HeadsOf ==
  ASSUME NEW insts, Assembled(insts)
  PROVE  Heads(insts) \subseteq 1 .. Len(insts) /\ 1 \in Heads(insts)
BY PlacesOf DEF Places, Heads

InBlock(insts, i, h) == h \in Heads(insts) /\ h <= i /\ i <= Final(insts, h)

LEMMA FinalOf ==
  ASSUME NEW insts, Assembled(insts), NEW h \in Heads(insts)
  PROVE  /\ Final(insts, h) \in h .. Len(insts)
         /\ Final(insts, h) + 1 \in Heads(insts) \/ Final(insts, h) = Len(insts)
         /\ \A i \in h .. Len(insts) : i + 1 \in Heads(insts) => Final(insts, h) <= i
<1> DEFINE C == {i \in h .. Len(insts) : i + 1 \in Heads(insts) \/ i = Len(insts)}
<1>1. Len(insts) \in Nat /\ h \in 1 .. Len(insts)
  BY PlacesOf, HeadsOf DEF Places
<1>2. C \subseteq Nat /\ Len(insts) \in C
  BY <1>1
<1> HIDE DEF C
<1>3. IsLeast(Min(C), C)
  BY <1>2, MinOf
<1>4. Final(insts, h) = Min(C)
  BY DEF Final, C
<1> QED
  BY <1>3, <1>4 DEF IsLeast, C

LEMMA SomeBlock ==
  ASSUME NEW insts, Assembled(insts), NEW i \in DOMAIN insts
  PROVE  \E h \in Heads(insts) : InBlock(insts, i, h)
<1> DEFINE C == {h \in Heads(insts) : h <= i}
           h == Max(C)
<1>1. Len(insts) \in Nat /\ i \in 1 .. Len(insts) /\ Heads(insts) \subseteq 1 .. Len(insts) /\ 1 \in Heads(insts)
  BY PlacesOf, HeadsOf DEF Places
<1>2. C \in SUBSET (1 .. Len(insts)) /\ C # {}
  BY <1>1
<1>3. IsGreatest(h, C)
  <2> HIDE DEF C
  <2> QED
    BY <1>1, <1>2, MaxOf
<1>4. h \in Heads(insts) /\ h <= i /\ \A k \in Heads(insts) : k <= i => k <= h
  BY <1>3 DEF IsGreatest
<1> HIDE DEF h, C
<1>5. Final(insts, h) \in h .. Len(insts) /\ (Final(insts, h) + 1 \in Heads(insts) \/ Final(insts, h) = Len(insts))
  BY <1>4, FinalOf
<1>6. i <= Final(insts, h)
  <2> SUFFICES ASSUME Final(insts, h) < i PROVE FALSE
    BY <1>1, <1>4, <1>5
  <2>1. Final(insts, h) + 1 \in Heads(insts) /\ Final(insts, h) + 1 <= i
    BY <1>1, <1>5
  <2>2. Final(insts, h) + 1 <= h
    BY <1>4, <2>1
  <2> QED
    BY <1>1, <1>4, <1>5, <2>2
<1> QED
  BY <1>4, <1>6 DEF InBlock

LEMMA OneBlock ==
  ASSUME NEW insts, Assembled(insts), NEW i \in DOMAIN insts, NEW h, NEW k,
         InBlock(insts, i, h), InBlock(insts, i, k)
  PROVE  h = k
<1>1. /\ Len(insts) \in Nat /\ i \in 1 .. Len(insts) /\ h \in Heads(insts) /\ k \in Heads(insts)
      /\ h \in 1 .. Len(insts) /\ k \in 1 .. Len(insts)
  BY PlacesOf, HeadsOf DEF Places, InBlock
<1>2. ASSUME NEW a \in Heads(insts), NEW b \in Heads(insts), a < b, b <= i, i <= Final(insts, a),
             a \in 1 .. Len(insts), b \in 1 .. Len(insts)
      PROVE  FALSE
  <2>1. b - 1 \in a .. Len(insts) /\ (b - 1) + 1 = b
    BY <1>1, <1>2
  <2>2. Final(insts, a) \in a .. Len(insts) /\ Final(insts, a) <= b - 1
    BY <1>2, <2>1, FinalOf
  <2> QED
    BY <1>1, <1>2, <2>2
<1>3. ~(h < k)
  BY <1>1, <1>2 DEF InBlock
<1>4. ~(k < h)
  BY <1>1, <1>2 DEF InBlock
<1> QED
  BY <1>1, <1>3, <1>4

LEMMA Block ==
  ASSUME NEW insts, Assembled(insts), NEW h \in Heads(insts)
  PROVE  LET b == build_blocks(insts)[h]
         IN  /\ Last(b) = insts[Final(insts, h)] /\ Head(b) = insts[h]
             /\ Range(b) = {insts[i] : i \in h .. Final(insts, h)}
<1> DEFINE b == build_blocks(insts)[h]
           l == Final(insts, h)
<1>1. /\ insts \in Seq(Inst) /\ Len(insts) \in Nat /\ h \in 1 .. Len(insts) /\ l \in h .. Len(insts)
  BY PlacesOf, HeadsOf, FinalOf DEF Places
<1>2. b = SubSeq(insts, h, l)
  BY DEF build_blocks
<1> HIDE DEF b, l
<1>3. Len(SubSeq(insts, h, l)) = l - h + 1
  BY <1>1
<1>4. \A i \in 1 .. l - h + 1 : SubSeq(insts, h, l)[i] = insts[h + i - 1]
  BY <1>1
<1>5. SubSeq(insts, h, l) \in Seq(Inst)
  BY <1>1
<1>6. DOMAIN b = 1 .. l - h + 1 /\ \A i \in DOMAIN b : b[i] = insts[h + i - 1]
  BY <1>2, <1>3, <1>4, <1>5
<1>7. Last(b) = insts[l]
  <2>1. Last(b) = b[l - h + 1] /\ l - h + 1 \in DOMAIN b /\ h + (l - h + 1) - 1 = l
    BY <1>1, <1>2, <1>3, <1>6 DEF Last
  <2> QED
    BY <1>6, <2>1
<1>8. Head(b) = insts[h]
  <2>1. Head(b) = b[1] /\ 1 \in DOMAIN b /\ h + 1 - 1 = h
    BY <1>1, <1>2, <1>5, <1>6
  <2> QED
    BY <1>6, <2>1
<1>9. Range(b) = {insts[i] : i \in h .. l}
  <2>1. Range(b) = {b[i] : i \in DOMAIN b}
    BY DEF Range
  <2>2. ASSUME NEW i \in DOMAIN b PROVE b[i] \in {insts[k] : k \in h .. l}
    <3>1. h + i - 1 \in h .. l
      BY <1>1, <1>6
    <3> QED
      BY <1>6, <3>1
  <2>3. ASSUME NEW k \in h .. l PROVE insts[k] \in {b[i] : i \in DOMAIN b}
    <3>1. k - h + 1 \in DOMAIN b /\ h + (k - h + 1) - 1 = k
      BY <1>1, <1>6
    <3> QED
      BY <1>6, <3>1
  <2> QED
    BY <2>1, <2>2, <2>3
<1> QED
  BY <1>7, <1>8, <1>9 DEF b, l

\* Control stays in a block, or goes from its last instruction to the first of a
\* block that an edge leads to; only the last block of the function has no edges.
LEMMA FlowEdge ==
  ASSUME NEW insts, Assembled(insts), NEW i \in DOMAIN insts, NEW h, InBlock(insts, i, h),
         NEW j \in Flow(insts, i)
  PROVE  \/ j = i + 1 /\ InBlock(insts, j, h)
         \/ /\ i = Final(insts, h) /\ j \in Heads(insts)
            /\ h = Max(Heads(insts)) \/ <<h, j>> \in Edges(insts)
<1> DEFINE n == Len(insts)
           l == Final(insts, h)
<1>1. /\ insts \in Seq(Inst) /\ n \in Nat /\ i \in 1 .. n /\ h \in Heads(insts) /\ h \in 1 .. n /\ h <= i /\ i <= l
      /\ l \in h .. n /\ Heads(insts) \subseteq 1 .. n /\ DOMAIN insts = 1 .. n /\ insts[i] \in Inst
  BY PlacesOf, HeadsOf, FinalOf DEF Places, InBlock
<1>2. j \in 1 .. n /\ (\/ j = i + 1 /\ insts[i].kind \notin {"jump", "ret"}
                       \/ insts[i].kind \in {"jump", "cond"} /\ insts[j].addr = insts[i].target)
  BY <1>1 DEF Flow
<1> HIDE DEF l, n
<1>3. IsBranch(insts[i]) => i + 1 \in Marks(insts)
  BY <1>1 DEF Marks
<1>4. CASE i # l
  <2>1. i + 1 \notin Heads(insts) /\ i + 1 \in 1 .. n /\ i + 1 <= l
    <3>1. i \in h .. n /\ i < l
      BY <1>1, <1>4
    <3>2. i + 1 \notin Heads(insts)
      BY <1>1, <3>1, FinalOf DEF l, n
    <3> QED
      BY <1>1, <3>1, <3>2
  <2>2. insts[i].kind = "plain"
    BY <1>1, <1>3, <2>1 DEF Heads, IsBranch, n
  <2>3. j = i + 1
    BY <1>2, <2>2
  <2> QED
    BY <1>1, <2>1, <2>3 DEF InBlock, l
<1>5. CASE i = l
  <2>1. CASE j = i + 1 /\ insts[i].kind \notin {"jump", "ret"}
    <3>1. j \in Heads(insts) /\ j = Final(insts, h) + 1
      BY <1>1, <1>2, <1>5, <2>1, FinalOf DEF l, n
    <3>2. FallsThrough(insts[i])
      BY <1>1, <2>1 DEF FallsThrough, IsBranch, IsCond, IsLink, Inst, Kinds
    <3>3. Last(build_blocks(insts)[h]) = insts[i]
      BY <1>1, <1>5, Block DEF l
    <3> QED
      BY <1>1, <1>5, <3>1, <3>2, <3>3 DEF Edges, l
  <2>2. CASE insts[i].kind \in {"jump", "cond"} /\ insts[j].addr = insts[i].target
    <3>1. IsBranch(insts[i]) /\ ~IsReg(insts[i])
      BY <2>2 DEF IsBranch, IsReg
    <3>2. InRange(insts, insts[i].target)
      <4>1. insts[1].addr <= insts[j].addr /\ insts[j].addr <= insts[n].addr
        <5>1. 1 \in 1 .. n /\ n \in 1 .. n /\ j \in 1 .. n /\ n \in Nat
          BY <1>1, <1>2
        <5>2. \A k \in 1 .. n : insts[k].addr \in Nat
          BY PlacesOf DEF Places, Inst, n
        <5>3. 1 < j => insts[1].addr < insts[j].addr
          BY <5>1, PlacesOf DEF Places, n
        <5>4. j < n => insts[j].addr < insts[n].addr
          BY <5>1, PlacesOf DEF Places, n
        <5> QED
          BY <5>1, <5>2, <5>3, <5>4
      <4> QED
        BY <2>2, <4>1 DEF InRange, Last, n
    <3>3. j \in Heads(insts)
      BY <1>1, <1>2, <2>2, <3>1, <3>2 DEF Heads, Marks
    <3>4. Last(build_blocks(insts)[h]) = insts[i] /\ Head(build_blocks(insts)[j]) = insts[j]
      BY <1>1, <1>5, <3>3, Block DEF l
    <3>5. Goes(insts, insts[i])
      BY <3>1, <3>2 DEF Goes
    <3> QED
      BY <1>1, <1>5, <2>2, <3>3, <3>4, <3>5 DEF Edges, l
  <2> QED
    BY <1>2, <2>1, <2>2
<1> QED
  BY <1>4, <1>5

\* What is dropped as padding is never reached.
LEMMA PaddingUnreached ==
  ASSUME NEW insts, Assembled(insts), NEW i \in Reached(insts), NEW h, InBlock(insts, i, h)
  PROVE  h \in DOMAIN link_blocks(insts)
<1> SUFFICES ASSUME h \in Padding(insts) PROVE FALSE
  BY DEF InBlock, link_blocks
<1> DEFINE n == Len(insts)
           s == {k \in DOMAIN insts : k < h}
<1>1. n \in Nat /\ DOMAIN insts = 1 .. n /\ Heads(insts) \subseteq 1 .. n /\ 1 \in Heads(insts) /\ i \in DOMAIN insts
  BY PlacesOf, HeadsOf DEF Places, Reached
<1>2. h \in 1 .. n /\ h # 1 /\ h = Max(Heads(insts)) /\ ~\E e \in Edges(insts) : e[2] = h
  BY <1>1 DEF Padding
<1>3. 1 \in s
  BY <1>1, <1>2
<1>4. ASSUME NEW k \in s, NEW j \in Flow(insts, k) PROVE j \in s
  <2>1. PICK g \in Heads(insts) : InBlock(insts, k, g)
    BY SomeBlock
  <2>2. k \in 1 .. n /\ k < h /\ g \in 1 .. n /\ g <= k
    BY <1>1, <2>1 DEF InBlock
  <2>3. j \in DOMAIN insts
    BY <1>1, <2>2 DEF Flow
  <2>4. g < h
    BY <1>2, <2>2
  <2>5. CASE j = k + 1 /\ InBlock(insts, j, g)
    <3>1. j # h
      <4> SUFFICES ASSUME j = h PROVE FALSE
        OBVIOUS
      <4>1. h \in Heads(insts) /\ Final(insts, h) \in h .. n
        BY FinalOf DEF Padding
      <4>2. InBlock(insts, h, h)
        BY <1>1, <1>2, <4>1 DEF InBlock
      <4>3. g = h
        BY <1>1, <1>2, <2>5, <4>2, OneBlock
      <4> QED
        BY <1>2, <2>2, <2>4, <4>3
    <3> QED
      BY <1>1, <1>2, <2>2, <2>3, <2>5, <3>1
  <2>6. CASE j \in Heads(insts) /\ (g = Max(Heads(insts)) \/ <<g, j>> \in Edges(insts))
    <3>1. <<g, j>> \in Edges(insts)
      BY <1>2, <2>2, <2>4, <2>6
    <3>2. j # h
      BY <1>2, <3>1
    <3>3. IsGreatest(h, Heads(insts))
      BY <1>1, <1>2, MaxOf
    <3>4. j <= h
      BY <2>6, <3>3 DEF IsGreatest
    <3> QED
      BY <1>1, <1>2, <2>3, <3>2, <3>4
  <2> QED
    BY <1>1, <2>1, <2>2, <2>5, <2>6, FlowEdge
<1>5. i \in s
  <2>1. s \in SUBSET DOMAIN insts /\ 1 \in s /\ \A k \in s : Flow(insts, k) \subseteq s
    BY <1>3, <1>4
  <2> HIDE DEF s
  <2> QED
    BY <2>1 DEF Reached
<1> QED
  BY <1>1, <1>2, <1>5 DEF InBlock
-----------------------------------------------------------------------------
(* The statements of a disasm.                                             *)

LEMMA GraphOf ==
  ASSUME Typed, NEW m \in Modules
  PROVE  /\ Len(objects[m]) \in Nat /\ Functions(m) = 1 .. Len(objects[m])
         /\ \A f \in Functions(m) :
              /\ Assembled(Code(m, f)) /\ DOMAIN Graph(m, f) \subseteq Nat /\ 1 \in DOMAIN Graph(m, f)
              /\ \A k \in DOMAIN Graph(m, f) : 1 <= k
<1>1. PICK user \in Users : objects = user.objects
  BY DEF Typed
<1>2. objects[m] \in Seq(Range(objects[m])) /\ \A f \in DOMAIN objects[m] : Assembled(objects[m][f])
  BY <1>1, CodeAssumption DEF Modules
<1>3. Len(objects[m]) \in Nat /\ Functions(m) = 1 .. Len(objects[m])
  BY <1>2 DEF Functions
<1>4. ASSUME NEW f \in Functions(m)
      PROVE  /\ Assembled(Code(m, f)) /\ DOMAIN Graph(m, f) \subseteq Nat /\ 1 \in DOMAIN Graph(m, f)
             /\ \A k \in DOMAIN Graph(m, f) : 1 <= k
  <2>1. Assembled(Code(m, f))
    BY <1>2 DEF Code, Functions
  <2>2. Heads(Code(m, f)) \subseteq 1 .. Len(Code(m, f)) /\ 1 \in Heads(Code(m, f)) /\ Len(Code(m, f)) \in Nat
    BY <2>1, HeadsOf, PlacesOf DEF Places
  <2>3. DOMAIN Graph(m, f) = Heads(Code(m, f)) \ Padding(Code(m, f))
    BY DEF Graph, link_blocks
  <2>4. 1 \notin Padding(Code(m, f))
    BY DEF Padding
  <2> QED
    BY <2>1, <2>2, <2>3, <2>4
<1> QED
  BY <1>3, <1>4

LEMMA Unmoved ==
  ASSUME objects' = objects
  PROVE  /\ Modules' = Modules /\ \A m : Functions(m)' = Functions(m)
         /\ \A m, f : Graph(m, f)' = Graph(m, f) /\ get_edges(m, f)' = get_edges(m, f)
         /\ \A m, f, k : InstsOf(m, f, k)' = InstsOf(m, f, k)
<1>1. Modules' = Modules /\ \A m : Functions(m)' = Functions(m)
  BY DEF Modules, Functions
<1>2. \A m, f : Graph(m, f)' = Graph(m, f) /\ get_edges(m, f)' = get_edges(m, f)
  BY DEF Graph, Code, get_edges
<1>3. \A m, f, k : InstsOf(m, f, k)' = InstsOf(m, f, k)
  BY DEF InstsOf, Graph, Code
<1> QED
  BY <1>1, <1>2, <1>3

IsSeq(s) == s \in Seq(Range(s))
LEMMA Sequence ==
  ASSUME NEW s, NEW S, s \in Seq(S)
  PROVE  IsSeq(s)
BY DEF IsSeq, Range

LEMMA One ==
  ASSUME NEW x
  PROVE  IsSeq(<<x>>) /\ Range(<<x>>) = {x}
BY DEF IsSeq, Range

\* What is done first, and what is left of it.
LEMMA Rest ==
  ASSUME NEW s, IsSeq(s), s # <<>>
  PROVE  /\ IsSeq(Tail(s)) /\ Range(s) = {Head(s)} \cup Range(Tail(s)) /\ 1 \in DOMAIN s /\ Head(s) = s[1]
         /\ Len(Tail(s)) \in Nat /\ DOMAIN Tail(s) = 1 .. Len(Tail(s))
         /\ \A i \in DOMAIN Tail(s) : i + 1 \in DOMAIN s /\ Tail(s)[i] = s[i + 1]
<1>1. /\ Len(s) \in Nat /\ Len(s) > 0 /\ DOMAIN s = 1 .. Len(s) /\ Head(s) = s[1]
      /\ Tail(s) \in Seq(Range(s)) /\ Len(Tail(s)) = Len(s) - 1
      /\ \A i \in 1 .. Len(s) - 1 : Tail(s)[i] = s[i + 1]
  BY DEF IsSeq
<1>2. DOMAIN Tail(s) = 1 .. Len(s) - 1
  BY <1>1
<1>3. Range(s) = {s[i] : i \in 1 .. Len(s)} /\ Range(Tail(s)) = {Tail(s)[i] : i \in 1 .. Len(s) - 1}
  BY <1>1, <1>2 DEF Range
<1>4. \A i \in 1 .. Len(s) : i = 1 \/ (i - 1 \in 1 .. Len(s) - 1 /\ Tail(s)[i - 1] = s[i])
  BY <1>1
<1>5. \A i \in 1 .. Len(s) - 1 : i + 1 \in 1 .. Len(s) /\ Tail(s)[i] = s[i + 1]
  BY <1>1
<1>6. Range(s) = {Head(s)} \cup Range(Tail(s))
  <2>1. Range(s) \subseteq {Head(s)} \cup Range(Tail(s))
    <3> SUFFICES ASSUME NEW i \in 1 .. Len(s) PROVE s[i] \in {Head(s)} \cup Range(Tail(s))
      BY <1>3
    <3>1. CASE i = 1
      BY <1>1, <3>1
    <3>2. CASE i # 1
      BY <1>3, <1>4, <3>2
    <3> QED
      BY <3>1, <3>2
  <2>2. Head(s) \in Range(s)
    BY <1>1, <1>3
  <2>3. Range(Tail(s)) \subseteq Range(s)
    BY <1>3, <1>5
  <2> QED
    BY <2>1, <2>2, <2>3
<1>7. IsSeq(Tail(s)) /\ 1 \in DOMAIN s
  <2>1. Tail(s) \in Seq(Range(s)) /\ 1 \in DOMAIN s
    BY <1>1
  <2> QED
    BY <2>1, Sequence, Zenon
<1>8. Len(Tail(s)) \in Nat /\ DOMAIN Tail(s) = 1 .. Len(Tail(s))
  BY <1>7 DEF IsSeq
<1>9. \A i \in DOMAIN Tail(s) : i + 1 \in DOMAIN s /\ Tail(s)[i] = s[i + 1]
  BY <1>1, <1>2, <1>5
<1> QED
  BY <1>1, <1>6, <1>7, <1>8, <1>9

LEMMA Then ==
  ASSUME NEW s, IsSeq(s), NEW t, IsSeq(t)
  PROVE  /\ IsSeq(s \o t) /\ Range(s \o t) = Range(s) \cup Range(t)
         /\ Len(s) \in Nat /\ Len(t) \in Nat /\ DOMAIN s = 1 .. Len(s) /\ DOMAIN t = 1 .. Len(t)
         /\ DOMAIN (s \o t) = 1 .. Len(s) + Len(t)
         /\ \A i \in 1 .. Len(s) + Len(t) : (s \o t)[i] = IF i <= Len(s) THEN s[i] ELSE t[i - Len(s)]
<1>1. s \in Seq(Range(s) \cup Range(t)) /\ t \in Seq(Range(s) \cup Range(t))
  BY DEF IsSeq
<1>2. /\ s \o t \in Seq(Range(s) \cup Range(t)) /\ Len(s) \in Nat /\ Len(t) \in Nat
      /\ Len(s \o t) = Len(s) + Len(t) /\ DOMAIN s = 1 .. Len(s) /\ DOMAIN t = 1 .. Len(t)
      /\ \A i \in 1 .. Len(s) + Len(t) : (s \o t)[i] = IF i <= Len(s) THEN s[i] ELSE t[i - Len(s)]
  BY <1>1
<1>3. DOMAIN (s \o t) = 1 .. Len(s) + Len(t)
  BY <1>2
<1>4. \A i \in 1 .. Len(s) : i \in 1 .. Len(s) + Len(t) /\ (s \o t)[i] = s[i]
  BY <1>2
<1>5. \A i \in 1 .. Len(t) : i + Len(s) \in 1 .. Len(s) + Len(t) /\ (s \o t)[i + Len(s)] = t[i]
  BY <1>2
<1>6. \A i \in 1 .. Len(s) + Len(t) :
        (i \in 1 .. Len(s) /\ (s \o t)[i] = s[i]) \/ (i - Len(s) \in 1 .. Len(t) /\ (s \o t)[i] = t[i - Len(s)])
  <2> TAKE i \in 1 .. Len(s) + Len(t)
  <2>1. CASE i <= Len(s)
    <3>1. i \in 1 .. Len(s)
      BY <1>2, <2>1
    <3>2. (s \o t)[i] = s[i]
      BY <1>2, <2>1
    <3> QED
      BY <3>1, <3>2, Zenon
  <2>2. CASE ~(i <= Len(s))
    <3>1. i - Len(s) \in 1 .. Len(t)
      BY <1>2, <2>2
    <3>2. (s \o t)[i] = t[i - Len(s)]
      BY <1>2, <2>2
    <3> QED
      BY <3>1, <3>2
  <2> QED
    BY <2>1, <2>2
<1>7. Range(s \o t) = Range(s) \cup Range(t)
  <2>1. /\ Range(s) = {s[i] : i \in 1 .. Len(s)} /\ Range(t) = {t[i] : i \in 1 .. Len(t)}
        /\ Range(s \o t) = {(s \o t)[i] : i \in 1 .. Len(s) + Len(t)}
    BY <1>2, <1>3 DEF Range
  <2>2. Range(s) \subseteq Range(s \o t)
    BY <1>4, <2>1
  <2>3. Range(t) \subseteq Range(s \o t)
    BY <1>5, <2>1
  <2>4. Range(s \o t) \subseteq Range(s) \cup Range(t)
    BY <1>6, <2>1
  <2> QED
    BY <2>2, <2>3, <2>4
<1> QED
  BY <1>2, <1>3, <1>7, Sequence

LEMMA AfterModule ==
  ASSUME NEW m
  PROVE  AfterSaved(<<"module", m>>) = [f \in Functions(m) |-> <<"func", m, f>>]
BY DEF AfterSaved
LEMMA AfterFunc ==
  ASSUME NEW m, NEW f
  PROVE  AfterSaved(<<"func", m, f>>) = << <<"block", m, f, 1>> >>
BY DEF AfterSaved
LEMMA AfterBlock ==
  ASSUME NEW m, NEW f, NEW k
  PROVE  AfterSaved(<<"block", m, f, k>>) = << <<"insts", m, f, k>> >>
BY DEF AfterSaved
LEMMA AfterInsts ==
  ASSUME NEW m, NEW f, NEW k
  PROVE  LET later == {h \in DOMAIN Graph(m, f) : h > k}
         IN  AfterSaved(<<"insts", m, f, k>>) = IF later = {} THEN << <<"edges", m, f>> >>
                                                ELSE << <<"block", m, f, Min(later)>> >>
BY DEF AfterSaved
LEMMA AfterEdges ==
  ASSUME NEW m, NEW f
  PROVE  AfterSaved(<<"edges", m, f>>) = <<>>
BY DEF AfterSaved

\* A statement writes one table.
Tables(d) == d = [t \in Columns |-> d[t]]
LEMMA SavedModule ==
  ASSUME Tables(db), NEW m, NEW d, d = Saved(<<"module", m>>)
  PROVE  /\ Tables(d) /\ d.module = db.module \cup {m}
         /\ d.map = db.map /\ d.block = db.block /\ d.inst = db.inst /\ d.edge = db.edge
<1> DEFINE x == db.module \cup {m}
<1>1. d = [db EXCEPT !["module"] = x]
  BY DEF Saved
<1>2. {"module", "map", "block", "inst", "edge"} \subseteq Columns
  BY DEF Columns
<1> HIDE DEF x
<1>3. Tables(d) /\ d["module"] = x /\ \A t \in Columns : t # "module" => d[t] = db[t]
  BY <1>1, <1>2, Zenon DEF Tables
<1>4. /\ Tables(d) /\ d.module = x
      /\ d.map = db.map /\ d.block = db.block /\ d.inst = db.inst /\ d.edge = db.edge
  BY <1>2, <1>3
<1> QED
  BY <1>4 DEF x
LEMMA SavedFunc ==
  ASSUME Tables(db), NEW m, NEW f, NEW d, d = Saved(<<"func", m, f>>)
  PROVE  /\ Tables(d) /\ d.func = db.func \cup {<<m, f>>}
         /\ d.map = db.map /\ d.module = db.module /\ d.block = db.block /\ d.inst = db.inst /\ d.edge = db.edge
<1> DEFINE x == db.func \cup {<<m, f>>}
<1>1. d = [db EXCEPT !["func"] = x]
  BY DEF Saved
<1>2. {"func", "map", "module", "block", "inst", "edge"} \subseteq Columns
  BY DEF Columns
<1> HIDE DEF x
<1>3. Tables(d) /\ d["func"] = x /\ \A t \in Columns : t # "func" => d[t] = db[t]
  BY <1>1, <1>2, Zenon DEF Tables
<1>4. /\ Tables(d) /\ d.func = x
      /\ d.map = db.map /\ d.module = db.module /\ d.block = db.block /\ d.inst = db.inst /\ d.edge = db.edge
  BY <1>2, <1>3
<1> QED
  BY <1>4 DEF x
LEMMA SavedBlock ==
  ASSUME Tables(db), NEW m, NEW f, NEW k, NEW d, d = Saved(<<"block", m, f, k>>)
  PROVE  /\ Tables(d) /\ d.block = db.block \cup {<<m, f, k>>}
         /\ d.map = db.map /\ d.module = db.module /\ d.inst = db.inst /\ d.edge = db.edge
<1> DEFINE x == db.block \cup {<<m, f, k>>}
<1>1. d = [db EXCEPT !["block"] = x]
  BY DEF Saved
<1>2. {"block", "map", "module", "inst", "edge"} \subseteq Columns
  BY DEF Columns
<1> HIDE DEF x
<1>3. Tables(d) /\ d["block"] = x /\ \A t \in Columns : t # "block" => d[t] = db[t]
  BY <1>1, <1>2, Zenon DEF Tables
<1>4. /\ Tables(d) /\ d.block = x
      /\ d.map = db.map /\ d.module = db.module /\ d.inst = db.inst /\ d.edge = db.edge
  BY <1>2, <1>3
<1> QED
  BY <1>4 DEF x
LEMMA SavedInsts ==
  ASSUME Tables(db), NEW m, NEW f, NEW k, NEW d, d = Saved(<<"insts", m, f, k>>)
  PROVE  /\ Tables(d) /\ d.inst = db.inst \cup InstsOf(m, f, k)
         /\ d.map = db.map /\ d.module = db.module /\ d.block = db.block /\ d.edge = db.edge
<1> DEFINE x == db.inst \cup InstsOf(m, f, k)
<1>1. d = [db EXCEPT !["inst"] = x]
  BY DEF Saved
<1>2. {"inst", "map", "module", "block", "edge"} \subseteq Columns
  BY DEF Columns
<1> HIDE DEF x
<1>3. Tables(d) /\ d["inst"] = x /\ \A t \in Columns : t # "inst" => d[t] = db[t]
  BY <1>1, <1>2, Zenon DEF Tables
<1>4. /\ Tables(d) /\ d.inst = x
      /\ d.map = db.map /\ d.module = db.module /\ d.block = db.block /\ d.edge = db.edge
  BY <1>2, <1>3
<1> QED
  BY <1>4 DEF x
LEMMA SavedEdges ==
  ASSUME Tables(db), NEW m, NEW f, NEW d, d = Saved(<<"edges", m, f>>)
  PROVE  /\ Tables(d) /\ d.edge = db.edge \cup get_edges(m, f)
         /\ d.map = db.map /\ d.module = db.module /\ d.block = db.block /\ d.inst = db.inst
<1> DEFINE x == db.edge \cup get_edges(m, f)
<1>1. d = [db EXCEPT !["edge"] = x]
  BY DEF Saved
<1>2. {"edge", "map", "module", "block", "inst"} \subseteq Columns
  BY DEF Columns
<1> HIDE DEF x
<1>3. Tables(d) /\ d["edge"] = x /\ \A t \in Columns : t # "edge" => d[t] = db[t]
  BY <1>1, <1>2, Zenon DEF Tables
<1>4. /\ Tables(d) /\ d.edge = x
      /\ d.map = db.map /\ d.module = db.module /\ d.block = db.block /\ d.inst = db.inst
  BY <1>2, <1>3
<1> QED
  BY <1>4 DEF x

\* A statement does its part of what is missing, or leaves it to what follows it.
LEMMA StatementStores ==
  ASSUME Typed, NEW s, Disassembling(s), db' = Saved(s),
         NEW m \in Modules, NEW f \in Functions(m), NEW k \in DOMAIN Graph(m, f)
  PROVE  /\ StoresBlock(s, m, f, k) =>
              <<m, f, k>> \in db'.block \/ \E t \in Range(AfterSaved(s)) : StoresBlock(t, m, f, k)
         /\ StoresInsts(s, m, f, k) =>
              InstsOf(m, f, k) \subseteq db'.inst \/ \E t \in Range(AfterSaved(s)) : StoresInsts(t, m, f, k)
         /\ StoresEdges(s, m, f) =>
              get_edges(m, f) \subseteq db'.edge \/ \E t \in Range(AfterSaved(s)) : StoresEdges(t, m, f)
<1> DEFINE D == DOMAIN Graph(m, f)
           B == <<m, f, k>> \in db'.block \/ \E t \in Range(AfterSaved(s)) : StoresBlock(t, m, f, k)
           I == InstsOf(m, f, k) \subseteq db'.inst \/ \E t \in Range(AfterSaved(s)) : StoresInsts(t, m, f, k)
           E == get_edges(m, f) \subseteq db'.edge \/ \E t \in Range(AfterSaved(s)) : StoresEdges(t, m, f)
<1>0. D \subseteq Nat /\ 1 \in D /\ \A j \in D : 1 <= j
  BY GraphOf
<1>1. Tables(db)
  BY DEF Typed, Tables
<1>2. ASSUME s = <<"func", m, f>> PROVE B /\ I /\ E
  <2> DEFINE t == <<"block", m, f, 1>>
  <2>1. t \in Range(AfterSaved(s))
    <3>1. AfterSaved(s) = <<t>>
      BY <1>2, AfterFunc
    <3> QED
      BY <3>1, One
  <2>2. StoresBlock(t, m, f, k) /\ StoresInsts(t, m, f, k) /\ StoresEdges(t, m, f)
    BY <1>0 DEF StoresBlock, StoresInsts, StoresEdges
  <2> QED
    BY <2>1, <2>2
<1>3. ASSUME NEW j \in D, s = <<"block", m, f, j>> PROVE (j <= k => B /\ I) /\ E
  <2> DEFINE t == <<"insts", m, f, j>>
  <2>1. t \in Range(AfterSaved(s))
    <3>1. AfterSaved(s) = <<t>>
      BY <1>3, AfterBlock
    <3> QED
      BY <3>1, One
  <2>2. j <= k => StoresInsts(t, m, f, k)
    BY DEF StoresInsts
  <2>3. StoresEdges(t, m, f)
    BY DEF StoresEdges
  <2>4. CASE j = k
    <3>1. <<m, f, k>> \in db'.block
      BY <1>1, <1>3, <2>4, SavedBlock
    <3> QED
      BY <2>1, <2>2, <2>3, <3>1
  <2>5. CASE j < k
    <3>1. StoresBlock(t, m, f, k)
      BY <2>5 DEF StoresBlock
    <3> QED
      BY <2>1, <2>2, <2>3, <3>1
  <2>6. CASE ~(j <= k)
    BY <2>1, <2>3, <2>6
  <2>7. j = k \/ j < k \/ ~(j <= k)
    BY <1>0
  <2> QED
    BY <2>4, <2>5, <2>6, <2>7
<1>4. ASSUME NEW j \in D, s = <<"insts", m, f, j>> PROVE (j < k => B) /\ (j <= k => I) /\ E
  <2> DEFINE later == {h \in D : h > j}
  <2>1. CASE later = {}
    <3> DEFINE t == <<"edges", m, f>>
    <3>1. AfterSaved(s) = <<t>>
      BY <1>4, <2>1, AfterInsts
    <3>2. t \in Range(AfterSaved(s))
      BY <3>1, One
    <3>3. StoresEdges(t, m, f)
      BY DEF StoresEdges
    <3>4. ~(j < k)
      BY <1>0, <2>1
    <3>5. j = k => InstsOf(m, f, k) \subseteq db'.inst
      BY <1>1, <1>4, SavedInsts
    <3>6. j <= k => j = k
      BY <1>0, <3>4
    <3> QED
      BY <3>2, <3>3, <3>4, <3>5, <3>6
  <2>2. CASE later # {}
    <3> DEFINE n == Min(later)
               t == <<"block", m, f, n>>
    <3>1. IsLeast(n, later)
      BY <1>0, <2>2, MinOf
    <3>2. n \in D /\ (j < k => n <= k)
      BY <1>0, <3>1 DEF IsLeast
    <3>3. AfterSaved(s) = <<t>>
      BY <1>4, <2>2, AfterInsts
    <3>4. t \in Range(AfterSaved(s))
      BY <3>3, One
    <3> HIDE DEF n
    <3>5. StoresEdges(t, m, f)
      BY <3>2 DEF StoresEdges
    <3>6. j < k => StoresBlock(t, m, f, k) /\ StoresInsts(t, m, f, k)
      BY <3>2 DEF StoresBlock, StoresInsts
    <3>7. j = k => InstsOf(m, f, k) \subseteq db'.inst
      BY <1>1, <1>4, SavedInsts
    <3>8. j <= k => j < k \/ j = k
      BY <1>0
    <3> QED
      BY <3>4, <3>5, <3>6, <3>7, <3>8
  <2> QED
    BY <2>1, <2>2
<1>5. ASSUME s = <<"edges", m, f>> PROVE E
  BY <1>1, <1>5, SavedEdges
<1>6. StoresBlock(s, m, f, k) => B
  BY <1>0, <1>2, <1>3, <1>4 DEF StoresBlock
<1>7. StoresInsts(s, m, f, k) => I
  BY <1>2, <1>3, <1>4 DEF StoresInsts
<1>8. StoresEdges(s, m, f) => E
  BY <1>2, <1>3, <1>4, <1>5 DEF StoresEdges
<1> QED
  BY <1>6, <1>7, <1>8

\* What a statement leaves to do are statements of its module.
LEMMA AfterTyped ==
  ASSUME Typed, NEW s, Disassembling(s)
  PROVE  /\ IsSeq(AfterSaved(s))
         /\ \A t \in Range(AfterSaved(s)) : Disassembling(t) /\ t[1] # "module" /\ t[2] = s[2]
<1>1. CASE \E m \in Modules : s = <<"module", m>>
  <2>1. PICK m \in Modules : s = <<"module", m>>
    BY <1>1
  <2>2. AfterSaved(s) = [f \in Functions(m) |-> <<"func", m, f>>] /\ Functions(m) = 1 .. Len(objects[m]) /\ Len(objects[m]) \in Nat
    BY <2>1, AfterModule, GraphOf
  <2>3. AfterSaved(s) \in Seq({<<"func", m, f>> : f \in Functions(m)})
    BY <2>2
  <2>4. Range(AfterSaved(s)) = {<<"func", m, f>> : f \in Functions(m)}
    BY <2>2 DEF Range
  <2>5. \A f \in Functions(m) : Disassembling(<<"func", m, f>>)
    BY DEF Disassembling
  <2> QED
    BY <2>1, <2>3, <2>4, <2>5, Sequence
<1>2. CASE \E m \in Modules : \E f \in Functions(m) : s = <<"func", m, f>> \/ s = <<"edges", m, f>>
  <2>1. PICK m \in Modules : \E f \in Functions(m) : s = <<"func", m, f>> \/ s = <<"edges", m, f>>
    BY <1>2
  <2>2. PICK f \in Functions(m) : s = <<"func", m, f>> \/ s = <<"edges", m, f>>
    BY <2>1
  <2>3. CASE s = <<"func", m, f>>
    <3>1. AfterSaved(s) = << <<"block", m, f, 1>> >>
      BY <2>3, AfterFunc
    <3>2. Disassembling(<<"block", m, f, 1>>)
      BY GraphOf DEF Disassembling
    <3> QED
      BY <2>3, <3>1, <3>2, One
  <2>4. CASE s = <<"edges", m, f>>
    <3>1. AfterSaved(s) = <<>>
      BY <2>4, AfterEdges
    <3>2. IsSeq(<<>>) /\ Range(<<>>) = {}
      BY DEF IsSeq, Range
    <3> QED
      BY <3>1, <3>2
  <2> QED
    BY <2>2, <2>3, <2>4
<1>3. CASE \E m \in Modules : \E f \in Functions(m) : \E k \in DOMAIN Graph(m, f) :
             s = <<"block", m, f, k>> \/ s = <<"insts", m, f, k>>
  <2>1. PICK m \in Modules : \E f \in Functions(m) : \E k \in DOMAIN Graph(m, f) :
             s = <<"block", m, f, k>> \/ s = <<"insts", m, f, k>>
    BY <1>3
  <2>2. PICK f \in Functions(m) : \E k \in DOMAIN Graph(m, f) :
             s = <<"block", m, f, k>> \/ s = <<"insts", m, f, k>>
    BY <2>1
  <2>3. PICK k \in DOMAIN Graph(m, f) : s = <<"block", m, f, k>> \/ s = <<"insts", m, f, k>>
    BY <2>2
  <2>4. CASE s = <<"block", m, f, k>>
    <3>1. AfterSaved(s) = << <<"insts", m, f, k>> >>
      BY <2>4, AfterBlock
    <3>2. Disassembling(<<"insts", m, f, k>>)
      BY DEF Disassembling
    <3> QED
      BY <2>4, <3>1, <3>2, One
  <2>5. CASE s = <<"insts", m, f, k>>
    <3> DEFINE later == {h \in DOMAIN Graph(m, f) : h > k}
    <3>1. CASE later = {}
      <4>1. AfterSaved(s) = << <<"edges", m, f>> >>
        BY <2>5, <3>1, AfterInsts
      <4>2. Disassembling(<<"edges", m, f>>)
        BY DEF Disassembling
      <4> QED
        BY <2>5, <4>1, <4>2, One
    <3>2. CASE later # {}
      <4> DEFINE n == Min(later)
      <4>1. AfterSaved(s) = << <<"block", m, f, n>> >>
        BY <2>5, <3>2, AfterInsts
      <4>2. n \in DOMAIN Graph(m, f)
        BY <3>2, GraphOf, MinOf DEF IsLeast
      <4> HIDE DEF n
      <4>3. Disassembling(<<"block", m, f, n>>)
        BY <4>2 DEF Disassembling
      <4> QED
        BY <2>5, <4>1, <4>3, One
    <3> QED
      BY <3>1, <3>2
  <2> QED
    BY <2>3, <2>4, <2>5
<1> QED
  BY <1>1, <1>2, <1>3 DEF Disassembling
-----------------------------------------------------------------------------
(* The steps that leave the graph alone.                                   *)

KeptGraph(d) ==
  Tables(d) /\ d.module = db.module /\ d.block = db.block /\ d.inst = db.inst /\ d.edge = db.edge
KeptRows(d) == KeptGraph(d) /\ d.map = db.map
LEMMA OtherTable ==
  ASSUME Tables(db), NEW c \in Columns \ {"map", "module", "block", "inst", "edge"}, NEW x,
         NEW d, d = [db EXCEPT ![c] = x]
  PROVE  KeptRows(d)
<1>1. Tables(d) /\ \A t \in Columns : t # c => d[t] = db[t]
  BY Zenon DEF Tables
<1>2. {"map", "module", "block", "inst", "edge"} \subseteq Columns
  BY DEF Columns
<1> QED
  BY <1>1, <1>2 DEF KeptRows, KeptGraph

LEMMA SoundKept ==
  ASSUME Sound, objects' = objects, KeptGraph(db')
  PROVE  Sound'
<1>1. /\ db.module \subseteq Modules
      /\ \A b \in db.block : \E m \in Modules : \E f \in Functions(m) : \E k \in DOMAIN Graph(m, f) : b = <<m, f, k>>
      /\ \A i \in db.inst : \E m \in Modules : \E f \in Functions(m) : \E k \in DOMAIN Graph(m, f) : i \in InstsOf(m, f, k)
  BY DEF Sound
<1>2. db'.module = db.module /\ db'.block = db.block /\ db'.inst = db.inst
  BY DEF KeptGraph
<1>3. db'.module \subseteq Modules'
  BY <1>1, <1>2, Unmoved
<1>4. ASSUME NEW b \in db'.block
      PROVE  \E m \in Modules' : \E f \in Functions(m)' : \E k \in DOMAIN (Graph(m, f)') : b = <<m, f, k>>
  BY <1>1, <1>2, Unmoved
<1>5. ASSUME NEW i \in db'.inst
      PROVE  \E m \in Modules' : \E f \in Functions(m)' : \E k \in DOMAIN (Graph(m, f)') : i \in InstsOf(m, f, k)'
  BY <1>1, <1>2, Unmoved
<1> QED
  BY <1>3, <1>4, <1>5 DEF Sound

Tags == {"func", "block", "insts", "edges"}
LEMMA StoresTag ==
  ASSUME NEW s, NEW m, NEW f, NEW k,
         StoresBlock(s, m, f, k) \/ StoresInsts(s, m, f, k) \/ StoresEdges(s, m, f)
  PROVE  s[1] \in Tags /\ s[2] = m
BY DEF StoresBlock, StoresInsts, StoresEdges, Tags

LEMMA SavingKept ==
  ASSUME Saving, objects' = objects, KeptGraph(db'), history.partial \subseteq history'.partial,
         \A s \in Range(todo) : s[1] \in Tags => s \in Range(todo') \/ s[2] \in history'.partial
  PROVE  Saving'
<1> SUFFICES ASSUME NEW m \in db'.module \ history'.partial, NEW f \in Functions(m)'
             PROVE  /\ \A k \in DOMAIN (Graph(m, f)') :
                         /\ <<m, f, k>> \in db'.block \/ \E s \in Range(todo') : StoresBlock(s, m, f, k)'
                         /\ InstsOf(m, f, k)' \subseteq db'.inst \/ \E s \in Range(todo') : StoresInsts(s, m, f, k)'
                    /\ get_edges(m, f)' \subseteq db'.edge \/ \E s \in Range(todo') : StoresEdges(s, m, f)'
  BY DEF Saving
<1>1. /\ m \in db.module \ history.partial /\ f \in Functions(m)
      /\ db'.block = db.block /\ db'.inst = db.inst /\ db'.edge = db.edge
  BY Unmoved DEF KeptGraph
<1>2. /\ \A k \in DOMAIN Graph(m, f) :
           /\ <<m, f, k>> \in db.block \/ \E s \in Range(todo) : StoresBlock(s, m, f, k)
           /\ InstsOf(m, f, k) \subseteq db.inst \/ \E s \in Range(todo) : StoresInsts(s, m, f, k)
      /\ get_edges(m, f) \subseteq db.edge \/ \E s \in Range(todo) : StoresEdges(s, m, f)
  BY <1>1 DEF Saving
<1>3. /\ DOMAIN (Graph(m, f)') = DOMAIN Graph(m, f) /\ get_edges(m, f)' = get_edges(m, f)
      /\ \A k : InstsOf(m, f, k)' = InstsOf(m, f, k)
      /\ \A s, k : StoresBlock(s, m, f, k)' <=> StoresBlock(s, m, f, k)
      /\ \A s, k : StoresInsts(s, m, f, k)' <=> StoresInsts(s, m, f, k)
      /\ \A s : StoresEdges(s, m, f)' <=> StoresEdges(s, m, f)
  BY Unmoved DEF StoresBlock, StoresInsts, StoresEdges
<1>4. \A s \in Range(todo) : s[1] \in Tags /\ s[2] = m => s \in Range(todo')
  OBVIOUS
<1>5. ASSUME NEW k \in DOMAIN (Graph(m, f)')
      PROVE  <<m, f, k>> \in db'.block \/ \E s \in Range(todo') : StoresBlock(s, m, f, k)'
  <2>1. CASE \E s \in Range(todo) : StoresBlock(s, m, f, k)
    BY <1>3, <1>4, <2>1, StoresTag
  <2> QED
    BY <1>1, <1>2, <1>3, <2>1
<1>6. ASSUME NEW k \in DOMAIN (Graph(m, f)')
      PROVE  InstsOf(m, f, k)' \subseteq db'.inst \/ \E s \in Range(todo') : StoresInsts(s, m, f, k)'
  <2>1. CASE \E s \in Range(todo) : StoresInsts(s, m, f, k)
    BY <1>3, <1>4, <2>1, StoresTag
  <2> QED
    BY <1>1, <1>2, <1>3, <2>1
<1>7. get_edges(m, f)' \subseteq db'.edge \/ \E s \in Range(todo') : StoresEdges(s, m, f)'
  <2>1. CASE \E s \in Range(todo) : StoresEdges(s, m, f)
    BY <1>3, <1>4, <2>1, StoresTag
  <2> QED
    BY <1>1, <1>2, <1>3, <2>1
<1> QED
  BY <1>5, <1>6, <1>7

LEMMA CountedRows ==
  ASSUME Tables(db), NEW s, Counting(s)
  PROVE  KeptRows(Counted(s))
<1>1. {"inst_annot", "block_annot", "func_annot", "module_annot"} \subseteq Columns \ {"map", "module", "block", "inst", "edge"}
  BY DEF Columns
<1>2. CASE s[1] = "pre"
  <2>1. Counted(s) = [db EXCEPT !["inst_annot"] = {}]
    BY <1>2 DEF Counted
  <2> QED
    BY <1>1, <2>1, OtherTable
<1>3. CASE s[1] = "count_insts"
  <2> DEFINE x == db.inst_annot \cup count_insts(s[2])
  <2>1. Counted(s) = [db EXCEPT !["inst_annot"] = x]
    BY <1>3 DEF Counted
  <2> HIDE DEF x
  <2> QED
    BY <1>1, <2>1, OtherTable
<1>4. CASE s[1] = "clear" /\ s[2] \in {"block_annot", "func_annot", "module_annot"}
  <2>1. Counted(s) = [db EXCEPT ![s[2]] = <<>>]
    BY <1>4 DEF Counted
  <2> QED
    BY <1>1, <1>4, <2>1, OtherTable
<1>5. CASE s[1] = "count_blocks"
  <2>1. Counted(s) = [db EXCEPT !["block_annot"] = count_blocks]
    BY <1>5 DEF Counted
  <2> QED
    BY <1>1, <2>1, OtherTable
<1>6. CASE s[1] = "count_funcs"
  <2>1. Counted(s) = [db EXCEPT !["func_annot"] = count_funcs]
    BY <1>6 DEF Counted
  <2> QED
    BY <1>1, <2>1, OtherTable
<1>7. CASE s[1] = "count_modules"
  <2>1. Counted(s) = [db EXCEPT !["module_annot"] = count_modules]
    BY <1>7 DEF Counted
  <2> QED
    BY <1>1, <2>1, OtherTable
<1> QED
  BY <1>2, <1>3, <1>4, <1>5, <1>6, <1>7 DEF Counting

LEMMA ScoredRows ==
  ASSUME Tables(db), NEW s, Scoring(s)
  PROVE  KeptRows(Scored(s))
<1>1. {"block_annot", "func_annot", "module_annot"} \subseteq Columns \ {"map", "module", "block", "inst", "edge"}
  BY DEF Columns
<1>2. \E c \in {"block_annot", "func_annot", "module_annot"} : \E x : Scored(s) = [db EXCEPT ![c] = x]
  <2>1. CASE s[1] = "score_blocks"
    <3>1. \E x : Scored(s) = [db EXCEPT !["block_annot"] = x]
      BY <2>1 DEF Scored
    <3> QED
      BY <3>1
  <2>2. CASE s[1] = "norm_blocks"
    <3>1. \E x : Scored(s) = [db EXCEPT !["block_annot"] = x]
      BY <2>2 DEF Scored
    <3> QED
      BY <3>1
  <2>3. CASE s[1] = "score_funcs"
    <3>1. \E x : Scored(s) = [db EXCEPT !["func_annot"] = x]
      BY <2>3 DEF Scored
    <3> QED
      BY <3>1
  <2>4. CASE s[1] = "score_modules"
    <3>1. \E x : Scored(s) = [db EXCEPT !["module_annot"] = x]
      BY <2>4 DEF Scored
    <3> QED
      BY <3>1
  <2> QED
    BY <2>1, <2>2, <2>3, <2>4 DEF Scoring
<1> QED
  BY <1>1, <1>2, OtherTable

LEMMA WrittenRows ==
  ASSUME Tables(db), NEW s, Storing(s)
  PROVE  KeptRows(Written(s)) /\ IsSeq(AfterWritten(s)) /\ \A t \in Range(AfterWritten(s)) : Storing(t)
<1>1. "path" \in Columns \ {"map", "module", "block", "inst", "edge"}
  BY DEF Columns
<1>2. Written(s) = db \/ \E x : Written(s) = [db EXCEPT !["path"] = x]
  <2>1. CASE s[1] = "path"
    <3>1. Written(s) = IF find_by_hash(s[2]) THEN db ELSE [db EXCEPT !["path"] = Append(db.path, <<>>)]
      BY <2>1 DEF Written
    <3> QED
      BY <3>1
  <2>2. CASE s[1] = "path_node"
    <3>1. Written(s) = [db EXCEPT !["path"] = [db.path EXCEPT ![Len(db.path)] = s[2]]]
      BY <2>2 DEF Written
    <3> QED
      BY <3>1
  <2>3. CASE s[1] = "end"
    BY <2>3 DEF Written
  <2> QED
    BY <2>1, <2>2, <2>3 DEF Storing
<1>3. KeptRows(Written(s))
  <2>1. KeptRows(db)
    BY DEF KeptRows, KeptGraph
  <2> QED
    BY <1>1, <1>2, <2>1, OtherTable
<1>4. AfterWritten(s) \in {<<>>, << <<"path_node", s[2]>> >>}
  BY DEF AfterWritten
<1>5. IsSeq(<<>>) /\ Range(<<>>) = {}
  BY DEF IsSeq, Range
<1>6. Storing(<<"path_node", s[2]>>)
  BY DEF Storing
<1> QED
  BY <1>3, <1>4, <1>5, <1>6, One
-----------------------------------------------------------------------------
(* Every step keeps the invariant.                                         *)

LEMMA SetToSeqOf ==
  ASSUME NEW S, IsFiniteSet(S)
  PROVE  Cardinality(S) \in Nat /\ SetToSeq(S) \in [1 .. Cardinality(S) -> S]
<1>1. Cardinality(S) \in Nat /\ ExistsBijection(1 .. Cardinality(S), S)
  BY FS_CardinalityType
<1>2. \E f \in [1 .. Cardinality(S) -> S] : IsInjective(f)
  BY <1>1 DEF ExistsBijection, Bijection, Injection
<1>3. SetToSeq(S) \in [1 .. Cardinality(S) -> S]
  BY <1>2 DEF SetToSeq
<1> QED
  BY <1>1, <1>3

LEMMA Indexed ==
  ASSUME NEW n \in Nat, NEW u, NEW S, u \in [1 .. n -> S]
  PROVE  IsSeq(u)
<1>1. u \in Seq(S)
  OBVIOUS
<1> QED
  BY <1>1, Sequence

LEMMA ModulesFinite ==
  ASSUME Typed
  PROVE  IsFiniteSet(Modules)
BY CodeAssumption DEF Typed, Modules

LEMMA Idle ==
  ASSUME Typed, command \in {"none", "sample"}
  PROVE  todo = <<>>
<1>1. todo \in Seq(Range(todo)) /\ \A s \in Range(todo) : FALSE
  BY DEF Typed, Listed, OfCommand
<1>2. Range(todo) = {todo[i] : i \in DOMAIN todo}
  BY DEF Range
<1>3. DOMAIN todo = {}
  BY <1>1, <1>2
<1> QED
  BY <1>1, <1>3

LEMMA NotTagged ==
  ASSUME Typed, command # "disasm", NEW s \in Range(todo)
  PROVE  s[1] \notin Tags
BY DEF Typed, Listed, OfCommand, Counting, Scoring, Storing, Tags

\* A step of another command than disasm, or one that kills a disasm.
LEMMA Elsewhere ==
  ASSUME DisasmInv, objects' = objects, KeptGraph(db'), command' \in Commands \ {"disasm"},
         "partial" \in DOMAIN history', history.partial \subseteq history'.partial,
         Mapped', Searching', Listed',
         \A s \in Range(todo) : s[1] \in Tags => s \in Range(todo') \/ s[2] \in history'.partial
  PROVE  DisasmInv'
<1>1. Typed'
  <2>1. \E user \in Users : objects' = user.objects
    BY DEF DisasmInv, Typed
  <2>2. db' = [t \in Columns |-> db'[t]]
    BY DEF KeptGraph, Tables
  <2> QED
    BY <2>1, <2>2 DEF Typed
<1>2. Saving'
  BY SavingKept DEF DisasmInv
<1>3. Sound'
  BY SoundKept DEF DisasmInv
<1>4. OneByOne'
  BY DEF OneByOne
<1> QED
  BY <1>1, <1>2, <1>3, <1>4 DEF DisasmInv

LEMMA MappedKept ==
  ASSUME Mapped, objects' = objects, db'.map = db.map
  PROVE  Mapped'
BY Unmoved DEF Mapped
LEMMA SearchingKept ==
  ASSUME Searching, search' = search
  PROVE  Searching'
BY DEF Searching
LEMMA NothingListed ==
  ASSUME todo' = <<>>
  PROVE  Listed'
BY DEF Listed, Range
LEMMA SameRows ==
  ASSUME Typed, db' = db
  PROVE  KeptRows(db')
BY DEF Typed, KeptRows, KeptGraph, Tables

\* One field of the history.
LEMMA Recorded ==
  ASSUME Typed, NEW x, history' = [history EXCEPT !.counted = x]
  PROVE  "partial" \in DOMAIN history' /\ history'.partial = history.partial
BY DEF Typed

\* The mappings of a process.
LEMMA LinesOf ==
  ASSUME NEW pid \in Pids, NEW lines, lines = Layout[pid].lines
  PROVE  /\ lines \in Seq(Range(lines)) /\ DOMAIN lines = 1 .. Len(lines) /\ Len(lines) \in Nat
         /\ \A k \in DOMAIN lines :
              /\ lines[k].begin \in Nat /\ lines[k].end \in Nat /\ lines[k].begin < lines[k].end
              /\ \A l \in DOMAIN lines : k < l => lines[k].end <= lines[l].begin
<1>1. /\ lines \in Seq(Range(lines))
      /\ \A k \in DOMAIN lines :
           /\ lines[k].begin \in Nat /\ lines[k].end \in Nat /\ lines[k].begin < lines[k].end
           /\ \A l \in DOMAIN lines : k < l => lines[k].end <= lines[l].begin
  BY LayoutAssumption, Zenon
<1> QED
  BY <1>1

LEMMA MapsSeq ==
  ASSUME NEW pid \in Pids
  PROVE  /\ DOMAIN insert_maps(pid) = DOMAIN Layout[pid].lines
         /\ IsSeq(insert_maps(pid))
<1> DEFINE lines == Layout[pid].lines
           maps  == insert_maps(pid)
<1>1. DOMAIN lines = 1 .. Len(lines) /\ Len(lines) \in Nat
  BY LinesOf
<1>2. maps = [k \in DOMAIN lines |-> [pid |-> pid, path |-> pathOf(lines, k), perm |-> lines[k].perm,
                                      begin |-> lines[k].begin, end |-> lines[k].end]]
  BY DEF insert_maps
<1> HIDE DEF maps
<1>3. DOMAIN maps = DOMAIN lines /\ maps \in [1 .. Len(lines) -> Range(maps)]
  BY <1>1, <1>2 DEF Range
<1> QED
  BY <1>1, <1>3, Indexed DEF maps

LEMMA StartSampleStep ==
  ASSUME DisasmInv, NEW pid \in Pids, StartSample(pid)
  PROVE  DisasmInv'
<1> DEFINE x == db.map \o insert_maps(pid)
<1>1. Typed /\ todo = <<>>
  BY Idle DEF DisasmInv, StartSample, Begin
<1>2. objects' = objects /\ todo' = todo /\ search' = search /\ command' = "sample"
  BY DEF StartSample, Begin
<1>3. KeptGraph(db') /\ db'.map = x
  <2>1. \E y : db' = [db EXCEPT !["tables"] = y, !["map"] = x]
    BY DEF StartSample
  <2>2. db = [t \in Columns |-> db[t]]
    BY <1>1 DEF Typed
  <2> HIDE DEF x
  <2>3. \A t \in Columns : t \notin {"tables", "map"} => db'[t] = db[t]
    BY <2>1, <2>2
  <2>4. Tables(db') /\ db'["map"] = x
    BY <2>1, <2>2 DEF Tables, Columns
  <2> QED
    BY <2>3, <2>4 DEF KeptGraph, Columns
<1>4. "partial" \in DOMAIN history' /\ history'.partial = history.partial
  <2>1. \E y, z : history' = [history EXCEPT !.counted = y, !.reused = z]
    BY DEF StartSample
  <2> QED
    BY <1>1, <2>1 DEF Typed
<1>6. Mapped'
  <2>1. IsSeq(db.map) /\ IsSeq(insert_maps(pid))
    BY <1>1, MapsSeq DEF Typed, Mapped, IsSeq
  <2>2. IsSeq(x)
    BY <2>1, Then
  <2> QED
    BY <1>3, <2>2 DEF Mapped, IsSeq
<1>7. Listed' /\ Searching'
  BY <1>1, <1>2, NothingListed, SearchingKept DEF Typed
<1>8. command' \in Commands \ {"disasm"} /\ Range(todo) = {}
  BY <1>1, <1>2 DEF Commands, Range
<1> QED
  BY <1>2, <1>3, <1>4, <1>6, <1>7, <1>8, Elsewhere

LEMMA SampleStep ==
  ASSUME DisasmInv, NEW m, NEW f, NEW i, Sample(m, f, i)
  PROVE  DisasmInv'
<1>1. Typed /\ todo = <<>>
  BY Idle DEF DisasmInv, Sample
<1>2. objects' = objects /\ todo' = todo /\ search' = search /\ command' = command /\ command = "sample" /\ history' = history
  BY DEF Sample
<1>3. \E x : db' = [db EXCEPT !["sample"] = x]
  BY DEF Sample
<1>4. KeptRows(db')
  <2>1. "sample" \in Columns \ {"map", "module", "block", "inst", "edge"}
    BY DEF Columns
  <2> QED
    BY <1>1, <1>3, <2>1, OtherTable DEF Typed, Tables
<1>5. Mapped' /\ Searching' /\ Listed'
  BY <1>1, <1>2, <1>4, MappedKept, SearchingKept, NothingListed DEF Typed, KeptRows
<1>6. command' \in Commands \ {"disasm"} /\ Range(todo) = {} /\ "partial" \in DOMAIN history'
  BY <1>1, <1>2 DEF Commands, Range, Typed
<1> QED
  BY <1>2, <1>4, <1>5, <1>6, Elsewhere DEF KeptRows

LEMMA EndSampleStep ==
  ASSUME DisasmInv, EndSample
  PROVE  DisasmInv'
<1>1. Typed /\ todo = <<>>
  BY Idle DEF DisasmInv, EndSample
<1>2. objects' = objects /\ todo' = todo /\ search' = search /\ command' = "none" /\ db' = db /\ history' = history
  BY DEF EndSample
<1>3. KeptRows(db')
  BY <1>1, <1>2, SameRows
<1>4. Mapped' /\ Searching' /\ Listed'
  BY <1>1, <1>2, MappedKept, SearchingKept, NothingListed DEF Typed
<1>5. command' \in Commands \ {"disasm"} /\ Range(todo) = {} /\ "partial" \in DOMAIN history'
  BY <1>1, <1>2 DEF Commands, Range, Typed
<1> QED
  BY <1>2, <1>3, <1>4, <1>5, Elsewhere DEF KeptRows

LEMMA StartCountStep ==
  ASSUME DisasmInv, StartCount
  PROVE  DisasmInv'
<1>1. Typed /\ todo = <<>> /\ db.module \subseteq Modules
  BY Idle DEF DisasmInv, Sound, StartCount, Begin
<1>2. objects' = objects /\ search' = search /\ command' = "count" /\ db' = db
  BY DEF StartCount, Begin
<1>3. "partial" \in DOMAIN history' /\ history'.partial = history.partial
  BY <1>1, Recorded DEF StartCount
<1> DEFINE a == << <<"pre">> >>
           b == [k \in 1 .. Cardinality(db.module) |-> <<"count_insts", SetToSeq(db.module)[k]>>]
           c == << <<"clear", "block_annot">>, <<"count_blocks">>, <<"clear", "func_annot">>, <<"count_funcs">>,
                   <<"clear", "module_annot">>, <<"count_modules">> >>
<1>4. todo' \in {<<>>, a, (a \o b) \o c}
  BY DEF StartCount
<1>5. IsSeq(a) /\ \A s \in Range(a) : Counting(s)
  BY One DEF Counting
<1>6. IsSeq(b) /\ \A s \in Range(b) : Counting(s)
  <2>1. Cardinality(db.module) \in Nat
    BY <1>1, ModulesFinite, FS_Subset, FS_CardinalityType
  <2>2. b \in [1 .. Cardinality(db.module) -> {x \in Range(b) : TRUE}]
    BY DEF Range
  <2>3. IsSeq(b)
    BY <2>1, <2>2, Indexed
  <2>4. \A s \in Range(b) : s[1] = "count_insts"
    BY DEF Range
  <2> QED
    BY <2>3, <2>4 DEF Counting
<1>7. IsSeq(c) /\ \A s \in Range(c) : Counting(s)
  <2> DEFINE C == {<<"clear", "block_annot">>, <<"count_blocks">>, <<"clear", "func_annot">>, <<"count_funcs">>,
                   <<"clear", "module_annot">>, <<"count_modules">>}
  <2>1. c \in Seq(C)
    OBVIOUS
  <2>2. Range(c) \subseteq C
    BY <2>1 DEF Range
  <2>3. \A s \in C : Counting(s)
    BY DEF Counting
  <2> HIDE DEF C, c
  <2> QED
    BY <2>1, <2>2, <2>3, Sequence
<1> HIDE DEF a, b, c
<1>8. IsSeq(<<>>) /\ Range(<<>>) = {}
  BY DEF IsSeq, Range
<1>9. IsSeq(todo') /\ \A s \in Range(todo') : Counting(s)
  <2>1. IsSeq(a \o b) /\ Range(a \o b) = Range(a) \cup Range(b)
    BY <1>5, <1>6, Then
  <2>2. IsSeq((a \o b) \o c) /\ Range((a \o b) \o c) = Range(a \o b) \cup Range(c)
    BY <1>7, <2>1, Then
  <2> QED
    BY <1>4, <1>5, <1>6, <1>7, <1>8, <2>1, <2>2
<1>10. Listed'
  BY <1>2, <1>9 DEF Listed, IsSeq, OfCommand, Counting
<1>11. Mapped' /\ Searching' /\ KeptRows(db')
  BY <1>1, <1>2, MappedKept, SearchingKept, SameRows DEF Typed
<1>12. command' \in Commands \ {"disasm"} /\ Range(todo) = {}
  BY <1>1, <1>2, <1>8 DEF Commands
<1> QED
  BY <1>2, <1>3, <1>10, <1>11, <1>12, Elsewhere DEF KeptRows

LEMMA StartAnnotateStep ==
  ASSUME DisasmInv, StartAnnotate
  PROVE  DisasmInv'
<1>1. Typed /\ todo = <<>>
  BY Idle DEF DisasmInv, StartAnnotate, Begin
<1>2. objects' = objects /\ search' = search /\ command' = "annotate" /\ db' = db /\ history' = history
  BY DEF StartAnnotate, Begin
<1> DEFINE C == {<<"score_blocks">>, <<"norm_blocks">>, <<"score_funcs">>, <<"score_modules">>}
<1>3. todo' \in Seq(C)
  <2>1. todo' \in {<<>>, << <<"score_blocks">> >> \o << <<"norm_blocks">> >> \o << <<"score_funcs">>, <<"score_modules">> >>,
                   << <<"score_blocks">> >> \o <<>> \o << <<"score_funcs">>, <<"score_modules">> >>}
    BY DEF StartAnnotate
  <2> DEFINE a == << <<"score_blocks">> >>
             b == << <<"norm_blocks">> >>
             c == << <<"score_funcs">>, <<"score_modules">> >>
             n == <<>>
  <2>2. a \in Seq(C) /\ b \in Seq(C) /\ c \in Seq(C) /\ n \in Seq(C)
    OBVIOUS
  <2>3. todo' \in {n, (a \o b) \o c, (a \o n) \o c}
    BY <2>1
  <2> HIDE DEF a, b, c, n, C
  <2>4. (a \o b) \in Seq(C) /\ (a \o n) \in Seq(C)
    BY <2>2
  <2>5. (a \o b) \o c \in Seq(C) /\ (a \o n) \o c \in Seq(C)
    BY <2>2, <2>4
  <2> QED
    BY <2>2, <2>3, <2>5, Zenon
<1>4. Range(todo') \subseteq C
  BY <1>3 DEF Range
<1>5. \A s \in C : Scoring(s)
  BY DEF Scoring
<1> HIDE DEF C
<1>6. Listed'
  BY <1>2, <1>3, <1>4, <1>5, Sequence DEF Listed, IsSeq, OfCommand, Scoring
<1>7. Mapped' /\ Searching' /\ KeptRows(db')
  BY <1>1, <1>2, MappedKept, SearchingKept, SameRows DEF Typed
<1>8. command' \in Commands \ {"disasm"} /\ Range(todo) = {} /\ "partial" \in DOMAIN history'
  BY <1>1, <1>2 DEF Commands, Range, Typed
<1> QED
  BY <1>2, <1>6, <1>7, <1>8, Elsewhere DEF KeptRows

LEMMA StartSearchStep ==
  ASSUME DisasmInv, NEW scope, StartSearch(scope)
  PROVE  DisasmInv'
<1>1. Typed /\ todo = <<>>
  BY Idle DEF DisasmInv, StartSearch, Begin
<1>2. objects' = objects /\ todo' = todo /\ command' = "search" /\ db' = db /\ history' = history
  BY DEF StartSearch, Begin
<1>3. Searching'
  <2>1. \E x, y : search' = NoSearch \/ search' = [NoSearch EXCEPT !.funcs = x, !.queue = y]
    BY DEF StartSearch
  <2>2. search'.paths = <<>> /\ "paths" \in DOMAIN search'
    <3>1. "paths" \in DOMAIN NoSearch /\ NoSearch.paths = <<>>
      BY DEF NoSearch
    <3>2. CASE search' = NoSearch
      BY <3>1, <3>2
    <3>3. CASE \E x, y : search' = [NoSearch EXCEPT !.funcs = x, !.queue = y]
      BY <3>1, <3>3
    <3> QED
      BY <2>1, <3>2, <3>3
  <2> QED
    BY <2>2 DEF Searching, Range
<1>4. Mapped' /\ Listed' /\ KeptRows(db')
  BY <1>1, <1>2, MappedKept, NothingListed, SameRows DEF Typed
<1>5. command' \in Commands \ {"disasm"} /\ Range(todo) = {} /\ "partial" \in DOMAIN history'
  BY <1>1, <1>2 DEF Commands, Range, Typed
<1> QED
  BY <1>2, <1>3, <1>4, <1>5, Elsewhere DEF KeptRows

LEMMA SearchNextStep ==
  ASSUME DisasmInv, SearchNext
  PROVE  DisasmInv'
<1>1. Typed /\ todo = <<>> /\ command = "search"
  BY DEF DisasmInv, SearchNext
<1>2. objects' = objects /\ todo' = todo /\ command' = command /\ db' = db /\ history' = history
  BY DEF SearchNext
<1>3. \E p, c, g, q, v :
        \/ search' = [search EXCEPT !.queue = q, !.visited = v]
        \/ search' = [[search EXCEPT !.queue = c, !.visited = v] EXCEPT !.queue = q]
        \/ search' = [[search EXCEPT !.paths = Append(@, p), !.covered = c, !.coverage = g] EXCEPT !.queue = q, !.visited = v]
  <2> DEFINE Step(path, u, visits, rest, expanded) ==
               CASE u = path.target /\ ~found_path(path.nodes) ->
                      [scoredPath(path.nodes) EXCEPT !.queue = rest.queue, !.visited = rest.visited]
                 [] u # path.target /\ (form.target = NoTarget \/ visits <= form.target) ->
                      [rest EXCEPT !.queue = @ \cup {p \in expanded : ~pruned(p)}]
                 [] OTHER -> rest
  <2>1. PICK path \in search.queue :
          LET u == Last(path.nodes)
          IN  search' = Step(path, u, times(search.visited, u) + 1,
                             [search EXCEPT !.queue = @ \ {path}, !.visited = more(@, {u})],
                             {expand_path(path, v) : v \in next(u) \ Range(path.nodes)})
    BY DEF SearchNext
  <2>2. PICK u, visits, q, v, expanded :
          search' = Step(path, u, visits, [search EXCEPT !.queue = q, !.visited = v], expanded)
    BY <2>1
  <2> DEFINE rest == [search EXCEPT !.queue = q, !.visited = v]
  <2>3. \/ search' = [scoredPath(path.nodes) EXCEPT !.queue = rest.queue, !.visited = rest.visited]
        \/ search' = [rest EXCEPT !.queue = rest.queue \cup {p \in expanded : ~pruned(p)}]
        \/ search' = rest
    BY <2>2
  <2>4. \E p, c, g : scoredPath(path.nodes) = [search EXCEPT !.paths = Append(@, p), !.covered = c, !.coverage = g]
    BY DEF scoredPath
  <2>5. CASE search' = [scoredPath(path.nodes) EXCEPT !.queue = rest.queue, !.visited = rest.visited]
    <3>1. PICK y, z : search' = [scoredPath(path.nodes) EXCEPT !.queue = y, !.visited = z]
      BY <2>5
    <3>2. PICK p, c, g : scoredPath(path.nodes) = [search EXCEPT !.paths = Append(@, p), !.covered = c, !.coverage = g]
      BY <2>4
    <3>3. search' = [[search EXCEPT !.paths = Append(@, p), !.covered = c, !.coverage = g] EXCEPT !.queue = y, !.visited = z]
      BY <3>1, <3>2, Zenon
    <3> QED
      BY <3>3, Zenon
  <2>6. CASE search' = [rest EXCEPT !.queue = rest.queue \cup {p \in expanded : ~pruned(p)}]
    BY <2>6, Zenon
  <2>7. CASE search' = rest
    BY <2>7, Zenon
  <2> QED
    BY <2>3, <2>5, <2>6, <2>7
<1>4. Searching'
  <2>1. search.paths \in Seq(Range(search.paths)) /\ "paths" \in DOMAIN search
    BY <1>1 DEF Typed, Searching
  <2>2. "paths" \in DOMAIN search' /\ \E p : search'.paths = search.paths \/ search'.paths = Append(search.paths, p)
    BY <1>3, <2>1
  <2>3. PICK p : search'.paths = search.paths \/ search'.paths = Append(search.paths, p)
    BY <2>2
  <2>4. search'.paths \in Seq(Range(search.paths) \cup {p})
    <3>1. search.paths \in Seq(Range(search.paths) \cup {p})
      BY <2>1
    <3> QED
      BY <2>3, <3>1
  <2> QED
    BY <2>2, <2>4, Sequence DEF Searching, IsSeq
<1>5. Mapped' /\ Listed' /\ KeptRows(db')
  BY <1>1, <1>2, MappedKept, NothingListed, SameRows DEF Typed
<1>6. command' \in Commands \ {"disasm"} /\ Range(todo) = {} /\ "partial" \in DOMAIN history'
  BY <1>1, <1>2 DEF Commands, Range, Typed
<1> QED
  BY <1>2, <1>4, <1>5, <1>6, Elsewhere DEF KeptRows

LEMMA SearchEndStep ==
  ASSUME DisasmInv, SearchEnd
  PROVE  DisasmInv'
<1>1. Typed /\ todo = <<>> /\ command = "search"
  BY DEF DisasmInv, SearchEnd
<1>2. objects' = objects /\ command' = command /\ db' = db /\ history' = history /\ search' = search
  BY DEF SearchEnd
<1> DEFINE a == [k \in DOMAIN search.paths |-> <<"path", search.paths[k]>>]
           C == {<<"path", search.paths[k]>> : k \in DOMAIN search.paths} \cup {<<"end">>}
<1>3. Len(search.paths) \in Nat /\ DOMAIN search.paths = 1 .. Len(search.paths)
  BY <1>1 DEF Typed, Searching
<1>4. a \in Seq(C)
  BY <1>3
<1>5. todo' \in Seq(C)
  <2>1. todo' = Append(a, <<"end">>) /\ <<"end">> \in C
    BY DEF SearchEnd
  <2> HIDE DEF a, C
  <2> QED
    BY <1>4, <2>1
<1>6. \A s \in C : Storing(s)
  BY DEF Storing
<1> HIDE DEF C
<1>7. \A s \in Range(todo') : Storing(s)
  BY <1>5, <1>6 DEF Range
<1>8. Listed'
  BY <1>1, <1>2, <1>5, <1>7, Sequence DEF Listed, IsSeq, OfCommand, Storing
<1>9. Mapped' /\ Searching' /\ KeptRows(db')
  BY <1>1, <1>2, MappedKept, SearchingKept, SameRows DEF Typed
<1>10. command' \in Commands \ {"disasm"} /\ Range(todo) = {} /\ "partial" \in DOMAIN history'
  BY <1>1, <1>2 DEF Commands, Range, Typed
<1> QED
  BY <1>2, <1>8, <1>9, <1>10, Elsewhere DEF KeptRows

LEMMA EndCommandStep ==
  ASSUME DisasmInv, EndCommand
  PROVE  DisasmInv'
<1>1. Typed /\ todo = <<>>
  BY DEF DisasmInv, EndCommand
<1>2. objects' = objects /\ todo' = todo /\ search' = search /\ command' = "none" /\ db' = db /\ history' = history
  BY DEF EndCommand
<1>3. KeptRows(db')
  BY <1>1, <1>2, SameRows
<1>4. Mapped' /\ Searching' /\ Listed'
  BY <1>1, <1>2, MappedKept, SearchingKept, NothingListed DEF Typed
<1>5. command' \in Commands \ {"disasm"} /\ Range(todo) = {} /\ "partial" \in DOMAIN history'
  BY <1>1, <1>2 DEF Commands, Range, Typed
<1> QED
  BY <1>2, <1>3, <1>4, <1>5, Elsewhere DEF KeptRows

\* What a killed disasm leaves in the middle is the module of its next statement.
LEMMA KillStep ==
  ASSUME DisasmInv, Kill
  PROVE  DisasmInv'
<1>1. Typed /\ OneByOne
  BY DEF DisasmInv
<1>2. objects' = objects /\ todo' = <<>> /\ command' = "none" /\ db' = db /\ search' = NoSearch
  BY DEF Kill
<1>3. /\ "partial" \in DOMAIN history'
      /\ history'.partial = history.partial \cup
           (IF command = "disasm" /\ Head(todo)[1] # "module" THEN {Head(todo)[2]} ELSE {})
  BY <1>1 DEF Kill, Typed
<1>4. Searching'
  BY <1>2 DEF Searching, NoSearch, Range
<1>5. Mapped' /\ Listed' /\ KeptRows(db')
  BY <1>1, <1>2, MappedKept, NothingListed, SameRows DEF Typed
<1>6. ASSUME NEW s \in Range(todo), s[1] \in Tags PROVE s[2] \in history'.partial
  <2>1. command = "disasm"
    BY <1>1, <1>6, NotTagged
  <2>2. IsSeq(todo)
    BY <1>1 DEF Typed, Listed, IsSeq
  <2>3. PICK j \in DOMAIN todo : s = todo[j]
    BY DEF Range
  <2>4. todo # <<>>
    BY <2>3
  <2>5. 1 \in DOMAIN todo /\ Head(todo) = todo[1] /\ j \in Nat /\ 1 <= j
    BY <2>2, <2>3, <2>4, Rest DEF IsSeq
  <2>6. todo[1][1] # "module" /\ todo[1][2] = s[2]
    <3>1. CASE j = 1
      BY <1>6, <2>3, <3>1 DEF Tags
    <3>2. CASE 1 < j
      BY <1>1, <1>6, <2>1, <2>3, <2>5, <3>2 DEF OneByOne, Tags
    <3> QED
      BY <2>5, <3>1, <3>2
  <2> QED
    BY <1>3, <2>1, <2>5, <2>6
<1>7. command' \in Commands \ {"disasm"}
  BY <1>2 DEF Commands
<1> QED
  BY <1>2, <1>3, <1>4, <1>5, <1>6, <1>7, Elsewhere DEF KeptRows

LEMMA StartDisasmStep ==
  ASSUME DisasmInv, NEW ms \in {{}} \cup {{m} : m \in Modules}, StartDisasm(ms)
  PROVE  DisasmInv'
<1> DEFINE S == Named(ms) \ db.module
           n == Cardinality(S)
           C == {<<"module", m>> : m \in Modules}
<1>1. Typed /\ todo = <<>> /\ Saving /\ Sound
  BY Idle DEF DisasmInv, StartDisasm, Begin
<1>2. objects' = objects /\ search' = search /\ command' = "disasm"
  BY DEF StartDisasm, Begin
<1>3. "partial" \in DOMAIN history' /\ history'.partial = history.partial
  BY <1>1, Recorded DEF StartDisasm
<1>4. KeptRows(db')
  <2>1. \E x : db' = [db EXCEPT !["tables"] = x]
    BY DEF StartDisasm
  <2>2. "tables" \in Columns \ {"map", "module", "block", "inst", "edge"}
    BY DEF Columns
  <2> QED
    BY <1>1, <2>1, <2>2, OtherTable DEF Typed, Tables
<1>5. S \subseteq Modules
  <2>1. find_modules \subseteq Modules
    BY DEF find_modules
  <2>2. Named(ms) \subseteq Modules
    BY <2>1 DEF Named
  <2> QED
    BY <2>2
<1>6. n \in Nat /\ SetToSeq(S) \in [1 .. n -> S]
  <2>1. IsFiniteSet(S)
    BY <1>1, <1>5, ModulesFinite, FS_Subset
  <2> QED
    BY <2>1, SetToSeqOf
<1>7. todo' \in Seq(C)
  <2>1. todo' = [k \in 1 .. n |-> <<"module", SetToSeq(S)[k]>>]
    BY DEF StartDisasm
  <2> HIDE DEF S, n
  <2>2. \A k \in 1 .. n : <<"module", SetToSeq(S)[k]>> \in C
    BY <1>5, <1>6
  <2> HIDE DEF C
  <2>3. todo' \in [1 .. n -> C]
    BY <2>1, <2>2
  <2> QED
    BY <1>6, <2>3
<1>8. Range(todo') \subseteq C
  BY <1>7 DEF Range
<1>9. IsSeq(todo')
  BY <1>7, Sequence
<1>10. Modules' = Modules
  BY <1>2, Unmoved
<1>11. Listed'
  BY <1>2, <1>8, <1>9, <1>10 DEF Listed, IsSeq, OfCommand, Disassembling
<1>12. Typed'
  <2>1. Mapped' /\ Searching'
    BY <1>1, <1>2, <1>4, MappedKept, SearchingKept DEF Typed, KeptRows
  <2>2. \E user \in Users : objects' = user.objects
    BY <1>1, <1>2 DEF Typed
  <2>3. db' = [t \in Columns |-> db'[t]]
    BY <1>4 DEF KeptRows, KeptGraph, Tables
  <2>4. command' \in Commands
    BY <1>2 DEF Commands
  <2> QED
    BY <1>3, <1>11, <2>1, <2>2, <2>3, <2>4 DEF Typed
<1>13. Saving'
  <2>1. Range(todo) = {}
    BY <1>1 DEF Range
  <2> QED
    BY <1>1, <1>2, <1>3, <1>4, <2>1, SavingKept DEF KeptRows
<1>14. Sound'
  BY <1>1, <1>2, <1>4, SoundKept DEF KeptRows
<1>15. OneByOne'
  <2>1. \A j \in DOMAIN todo' : todo'[j] \in C
    BY <1>8 DEF Range
  <2>2. \A s \in C : s[1] = "module"
    OBVIOUS
  <2> HIDE DEF C
  <2> QED
    BY <2>1, <2>2 DEF OneByOne
<1> QED
  BY <1>12, <1>13, <1>14, <1>15 DEF DisasmInv

\* The statements of the other commands.
LEMMA OtherStatement ==
  ASSUME DisasmInv, Statement, command # "disasm"
  PROVE  DisasmInv'
<1> DEFINE s == Head(todo)
<1>1. Typed /\ IsSeq(todo) /\ todo # <<>>
  BY DEF DisasmInv, Typed, Listed, IsSeq, Statement
<1>2. command \in {"count", "annotate", "search"}
  BY <1>1, Idle DEF Typed, Commands
<1>3. /\ objects' = objects /\ command' = command /\ db' = Execute(s) /\ todo' = AfterThat(s) \o Tail(todo)
      /\ search' \in {search, NoSearch}
  BY DEF Statement
<1>4. "partial" \in DOMAIN history' /\ history'.partial = history.partial
  <2>1. \E x, y : history' = [history EXCEPT !.counted = x, !.searched = y]
    BY DEF Statement
  <2> QED
    BY <1>1, <2>1 DEF Typed
<1>5. OfCommand(s) /\ \A t \in Range(Tail(todo)) : OfCommand(t)
  <2>1. Range(todo) = {s} \cup Range(Tail(todo))
    BY <1>1, Rest
  <2> QED
    BY <1>1, <2>1 DEF Typed, Listed
<1> HIDE DEF s
<1>6. KeptRows(db') /\ IsSeq(AfterThat(s)) /\ \A t \in Range(AfterThat(s)) : OfCommand(t)
  <2>0. Tables(db) /\ IsSeq(<<>>) /\ Range(<<>>) = {}
    BY <1>1 DEF Typed, Tables, IsSeq, Range
  <2>1. CASE command = "count"
    <3>1. Counting(s) /\ db' = Counted(s) /\ AfterThat(s) = <<>>
      BY <1>3, <1>5, <2>1 DEF OfCommand, Execute, AfterThat
    <3> QED
      BY <2>0, <3>1, CountedRows
  <2>2. CASE command = "annotate"
    <3>1. Scoring(s) /\ db' = Scored(s) /\ AfterThat(s) = <<>>
      BY <1>3, <1>5, <2>2 DEF OfCommand, Execute, AfterThat
    <3> QED
      BY <2>0, <3>1, ScoredRows
  <2>3. CASE command = "search"
    <3>1. Storing(s) /\ db' = Written(s) /\ AfterThat(s) = AfterWritten(s)
      BY <1>3, <1>5, <2>3 DEF OfCommand, Execute, AfterThat
    <3>2. \A t : Storing(t) => OfCommand(t)
      BY <2>3 DEF OfCommand
    <3> QED
      BY <2>0, <3>1, <3>2, WrittenRows
  <2> QED
    BY <1>2, <2>1, <2>2, <2>3
<1>7. Listed'
  <2>1. IsSeq(Tail(todo))
    BY <1>1, Rest
  <2>2. IsSeq(todo') /\ Range(todo') = Range(AfterThat(s)) \cup Range(Tail(todo))
    BY <1>3, <1>6, <2>1, Then
  <2>3. \A t : OfCommand(t)' <=> OfCommand(t)
    BY <1>2, <1>3 DEF OfCommand, Counting, Scoring, Storing
  <2> QED
    BY <1>5, <1>6, <2>2, <2>3 DEF Listed, IsSeq
<1>8. Mapped' /\ Searching'
  <2>1. Searching'
    <3>1. CASE search' = search
      BY <1>1, <3>1, SearchingKept DEF Typed
    <3>2. CASE search' = NoSearch
      BY <3>2 DEF Searching, NoSearch, Range
    <3> QED
      BY <1>3, <3>1, <3>2
  <2> QED
    BY <1>1, <1>3, <1>6, <2>1, MappedKept DEF Typed, KeptRows
<1>9. command' \in Commands \ {"disasm"}
  BY <1>2, <1>3 DEF Commands
<1>10. \A t \in Range(todo) : t[1] \notin Tags
  BY <1>1, NotTagged
<1> QED
  BY <1>3, <1>4, <1>6, <1>7, <1>8, <1>9, <1>10, Elsewhere DEF KeptRows

LEMMA SavedAll ==
  ASSUME Typed, NEW s, Disassembling(s), db' = Saved(s)
  PROVE  /\ Tables(db') /\ db'.map = db.map
         /\ db.block \subseteq db'.block /\ db.inst \subseteq db'.inst /\ db.edge \subseteq db'.edge
         /\ \A m \in db'.module : m \in db.module \/ (m \in Modules /\ s = <<"module", m>>)
         /\ \A b \in db'.block : b \in db.block \/
              \E m \in Modules : \E f \in Functions(m) : \E k \in DOMAIN Graph(m, f) : b = <<m, f, k>>
         /\ \A i \in db'.inst : i \in db.inst \/
              \E m \in Modules : \E f \in Functions(m) : \E k \in DOMAIN Graph(m, f) : i \in InstsOf(m, f, k)
<1>0. Tables(db)
  BY DEF Typed, Tables
<1>1. CASE \E m \in Modules : s = <<"module", m>>
  BY <1>0, <1>1, SavedModule
<1>2. CASE \E m \in Modules : \E f \in Functions(m) : s = <<"func", m, f>> \/ s = <<"edges", m, f>>
  <2>1. PICK m \in Modules : \E f \in Functions(m) : s = <<"func", m, f>> \/ s = <<"edges", m, f>>
    BY <1>2
  <2>2. PICK f \in Functions(m) : s = <<"func", m, f>> \/ s = <<"edges", m, f>>
    BY <2>1
  <2>3. CASE s = <<"func", m, f>>
    BY <1>0, <2>3, SavedFunc
  <2>4. CASE s = <<"edges", m, f>>
    BY <1>0, <2>4, SavedEdges
  <2> QED
    BY <2>2, <2>3, <2>4
<1>3. CASE \E m \in Modules : \E f \in Functions(m) : \E k \in DOMAIN Graph(m, f) :
             s = <<"block", m, f, k>> \/ s = <<"insts", m, f, k>>
  <2>1. PICK m \in Modules : \E f \in Functions(m) : \E k \in DOMAIN Graph(m, f) :
             s = <<"block", m, f, k>> \/ s = <<"insts", m, f, k>>
    BY <1>3
  <2>2. PICK f \in Functions(m) : \E k \in DOMAIN Graph(m, f) :
             s = <<"block", m, f, k>> \/ s = <<"insts", m, f, k>>
    BY <2>1
  <2>3. PICK k \in DOMAIN Graph(m, f) : s = <<"block", m, f, k>> \/ s = <<"insts", m, f, k>>
    BY <2>2
  <2>4. CASE s = <<"block", m, f, k>>
    BY <1>0, <2>4, SavedBlock
  <2>5. CASE s = <<"insts", m, f, k>>
    BY <1>0, <2>5, SavedInsts
  <2> QED
    BY <2>3, <2>4, <2>5
<1> QED
  BY <1>1, <1>2, <1>3 DEF Disassembling

LEMMA DisasmStatement ==
  ASSUME DisasmInv, Statement, command = "disasm"
  PROVE  DisasmInv'
<1> DEFINE s == Head(todo)
           A == AfterSaved(s)
           T == Tail(todo)
<1>1. Typed /\ Saving /\ Sound /\ OneByOne /\ IsSeq(todo) /\ todo # <<>>
  BY DEF DisasmInv, Typed, Listed, IsSeq, Statement
<1>2. objects' = objects /\ command' = command /\ db' = Saved(s) /\ todo' = A \o T /\ search' \in {search, NoSearch}
  BY DEF Statement, Execute, AfterThat
<1>3. "partial" \in DOMAIN history' /\ history'.partial = history.partial
  <2>1. \E x, y : history' = [history EXCEPT !.counted = x, !.searched = y]
    BY DEF Statement
  <2> QED
    BY <1>1, <2>1 DEF Typed
<1>4. /\ IsSeq(T) /\ Range(todo) = {s} \cup Range(T) /\ 1 \in DOMAIN todo /\ s = todo[1]
      /\ Len(T) \in Nat /\ DOMAIN T = 1 .. Len(T)
      /\ \A i \in DOMAIN T : i + 1 \in DOMAIN todo /\ T[i] = todo[i + 1]
  BY <1>1, Rest
<1>5. Disassembling(s) /\ \A t \in Range(T) : Disassembling(t)
  BY <1>1, <1>4 DEF Typed, Listed, OfCommand
<1> HIDE DEF s, T
<1>6. IsSeq(A) /\ \A t \in Range(A) : Disassembling(t) /\ t[1] # "module" /\ t[2] = s[2]
  BY <1>1, <1>5, AfterTyped
<1>7. /\ IsSeq(A \o T) /\ Range(A \o T) = Range(A) \cup Range(T)
      /\ Len(A) \in Nat /\ DOMAIN A = 1 .. Len(A) /\ DOMAIN (A \o T) = 1 .. Len(A) + Len(T)
      /\ \A i \in 1 .. Len(A) + Len(T) : (A \o T)[i] = IF i <= Len(A) THEN A[i] ELSE T[i - Len(A)]
  BY <1>4, <1>6, Then
<1> HIDE DEF A
<1>8. Typed'
  <2>1. Listed'
    <3>1. \A t : Disassembling(t) => Disassembling(t)'
      BY <1>2, Unmoved DEF Disassembling
    <3>2. \A t \in Range(todo') : Disassembling(t)'
      BY <1>2, <1>5, <1>6, <1>7, <3>1
    <3> QED
      BY <1>2, <1>7, <3>2 DEF Listed, IsSeq, OfCommand
  <2>2. Searching'
    <3>1. CASE search' = search
      BY <1>1, <3>1, SearchingKept DEF Typed
    <3>2. CASE search' = NoSearch
      BY <3>2 DEF Searching, NoSearch, Range
    <3> QED
      BY <1>2, <3>1, <3>2
  <2>3. Tables(db') /\ db'.map = db.map
    BY <1>1, <1>2, <1>5, SavedAll
  <2>4. Mapped'
    BY <1>1, <1>2, <2>3, MappedKept DEF Typed
  <2>5. (\E user \in Users : objects' = user.objects) /\ command' \in Commands
    BY <1>1, <1>2 DEF Typed
  <2> QED
    BY <1>3, <2>1, <2>2, <2>3, <2>4, <2>5 DEF Typed, Tables
<1>9. Saving'
  <2> SUFFICES ASSUME NEW m \in db'.module \ history'.partial, NEW f \in Functions(m)'
               PROVE  /\ \A k \in DOMAIN (Graph(m, f)') :
                           /\ <<m, f, k>> \in db'.block \/ \E t \in Range(todo') : StoresBlock(t, m, f, k)'
                           /\ InstsOf(m, f, k)' \subseteq db'.inst \/ \E t \in Range(todo') : StoresInsts(t, m, f, k)'
                      /\ get_edges(m, f)' \subseteq db'.edge \/ \E t \in Range(todo') : StoresEdges(t, m, f)'
    BY DEF Saving
  <2>1. /\ m \in Modules /\ f \in Functions(m)
        /\ (m \in db.module /\ m \notin history.partial) \/ s = <<"module", m>>
    BY <1>1, <1>2, <1>3, <1>5, SavedAll, Unmoved DEF Sound
  <2>2. /\ DOMAIN (Graph(m, f)') = DOMAIN Graph(m, f) /\ get_edges(m, f)' = get_edges(m, f)
        /\ \A k : InstsOf(m, f, k)' = InstsOf(m, f, k)
        /\ \A t, k : StoresBlock(t, m, f, k)' <=> StoresBlock(t, m, f, k)
        /\ \A t, k : StoresInsts(t, m, f, k)' <=> StoresInsts(t, m, f, k)
        /\ \A t : StoresEdges(t, m, f)' <=> StoresEdges(t, m, f)
    BY <1>2, Unmoved DEF StoresBlock, StoresInsts, StoresEdges
  <2>3. Range(todo') = Range(A) \cup Range(T) /\ Range(todo) = {s} \cup Range(T)
    BY <1>2, <1>4, <1>7
  <2>4. CASE s = <<"module", m>>
    <3> DEFINE t == <<"func", m, f>>
    <3>1. A = [g \in Functions(m) |-> <<"func", m, g>>]
      BY <2>4, AfterModule DEF A
    <3>2. t \in Range(todo')
      <4>1. t \in Range(A)
        BY <2>1, <3>1 DEF Range
      <4> QED
        BY <2>3, <4>1
    <3>3. \A k : StoresBlock(t, m, f, k) /\ StoresInsts(t, m, f, k) /\ StoresEdges(t, m, f)
      BY DEF StoresBlock, StoresInsts, StoresEdges
    <3> QED
      BY <2>2, <3>2, <3>3
  <2>5. CASE m \in db.module /\ m \notin history.partial
    <3>1. db.block \subseteq db'.block /\ db.inst \subseteq db'.inst /\ db.edge \subseteq db'.edge
      BY <1>1, <1>2, <1>5, SavedAll
    <3>2. /\ \A k \in DOMAIN Graph(m, f) :
               /\ <<m, f, k>> \in db.block \/ \E t \in Range(todo) : StoresBlock(t, m, f, k)
               /\ InstsOf(m, f, k) \subseteq db.inst \/ \E t \in Range(todo) : StoresInsts(t, m, f, k)
          /\ get_edges(m, f) \subseteq db.edge \/ \E t \in Range(todo) : StoresEdges(t, m, f)
      BY <1>1, <2>1, <2>5 DEF Saving
    <3>3. ASSUME NEW k \in DOMAIN Graph(m, f)
          PROVE  /\ <<m, f, k>> \in db'.block \/ \E t \in Range(todo') : StoresBlock(t, m, f, k)
                 /\ InstsOf(m, f, k) \subseteq db'.inst \/ \E t \in Range(todo') : StoresInsts(t, m, f, k)
                 /\ get_edges(m, f) \subseteq db'.edge \/ \E t \in Range(todo') : StoresEdges(t, m, f)
      <4>1. /\ StoresBlock(s, m, f, k) =>
                 <<m, f, k>> \in db'.block \/ \E t \in Range(A) : StoresBlock(t, m, f, k)
            /\ StoresInsts(s, m, f, k) =>
                 InstsOf(m, f, k) \subseteq db'.inst \/ \E t \in Range(A) : StoresInsts(t, m, f, k)
            /\ StoresEdges(s, m, f) =>
                 get_edges(m, f) \subseteq db'.edge \/ \E t \in Range(A) : StoresEdges(t, m, f)
        BY <1>1, <1>2, <1>5, <2>1, StatementStores DEF A
      <4>2. <<m, f, k>> \in db'.block \/ \E t \in Range(todo') : StoresBlock(t, m, f, k)
        BY <2>3, <3>1, <3>2, <4>1
      <4>3. InstsOf(m, f, k) \subseteq db'.inst \/ \E t \in Range(todo') : StoresInsts(t, m, f, k)
        BY <2>3, <3>1, <3>2, <4>1
      <4>4. get_edges(m, f) \subseteq db'.edge \/ \E t \in Range(todo') : StoresEdges(t, m, f)
        BY <2>3, <3>1, <3>2, <4>1
      <4> QED
        BY <4>2, <4>3, <4>4
    <3>4. 1 \in DOMAIN Graph(m, f)
      BY <1>1, <2>1, GraphOf
    <3> QED
      BY <2>2, <3>3, <3>4
  <2> QED
    BY <2>1, <2>4, <2>5
<1>10. Sound'
  <2>1. Modules' = Modules
    BY <1>2, Unmoved
  <2>2. db'.module \subseteq Modules'
    BY <1>1, <1>2, <1>5, <2>1, SavedAll DEF Sound
  <2>3. ASSUME NEW b \in db'.block
        PROVE  \E m \in Modules' : \E f \in Functions(m)' : \E k \in DOMAIN (Graph(m, f)') : b = <<m, f, k>>
    <3>1. \E m \in Modules : \E f \in Functions(m) : \E k \in DOMAIN Graph(m, f) : b = <<m, f, k>>
      BY <1>1, <1>2, <1>5, SavedAll DEF Sound
    <3> QED
      BY <1>2, <3>1, Unmoved
  <2>4. ASSUME NEW i \in db'.inst
        PROVE  \E m \in Modules' : \E f \in Functions(m)' : \E k \in DOMAIN (Graph(m, f)') : i \in InstsOf(m, f, k)'
    <3>1. \E m \in Modules : \E f \in Functions(m) : \E k \in DOMAIN Graph(m, f) : i \in InstsOf(m, f, k)
      BY <1>1, <1>2, <1>5, SavedAll DEF Sound
    <3> QED
      BY <1>2, <3>1, Unmoved
  <2> QED
    BY <2>2, <2>3, <2>4 DEF Sound
<1>11. OneByOne'
  <2> SUFFICES ASSUME NEW i \in DOMAIN todo', NEW j \in DOMAIN todo', i < j, todo'[j][1] # "module"
               PROVE  todo'[i][1] # "module" /\ todo'[i][2] = todo'[j][2]
    BY DEF OneByOne
  <2> DEFINE a == Len(A)
  <2>1. a \in Nat /\ Len(T) \in Nat /\ i \in 1 .. a + Len(T) /\ j \in 1 .. a + Len(T)
    BY <1>2, <1>4, <1>7
  <2>2. /\ todo'[i] = IF i <= a THEN A[i] ELSE T[i - a]
        /\ todo'[j] = IF j <= a THEN A[j] ELSE T[j - a]
    BY <1>2, <1>7, <2>1
  <2>3. \A k \in 1 .. a : A[k][1] # "module" /\ A[k][2] = s[2]
    BY <1>6, <1>7 DEF Range
  <2> HIDE DEF a
  <2>4. \A p \in DOMAIN todo : \A q \in DOMAIN todo :
          p < q /\ todo[q][1] # "module" => todo[p][1] # "module" /\ todo[p][2] = todo[q][2]
    BY <1>1 DEF OneByOne
  <2>5. CASE j <= a
    BY <2>1, <2>2, <2>3, <2>5
  <2>6. CASE ~(j <= a)
    <3>1. j - a \in DOMAIN T /\ 1 < (j - a) + 1
      BY <1>4, <2>1, <2>6
    <3>2. (j - a) + 1 \in DOMAIN todo /\ todo'[j] = todo[(j - a) + 1]
      BY <1>4, <2>2, <2>6, <3>1
    <3>3. CASE i <= a
      <4>1. s[1] # "module" /\ s[2] = todo'[j][2]
        BY <1>4, <2>4, <3>1, <3>2
      <4>2. todo'[i][1] # "module" /\ todo'[i][2] = s[2]
        BY <2>1, <2>2, <2>3, <3>3
      <4> QED
        BY <4>1, <4>2
    <3>4. CASE ~(i <= a)
      <4>1. i - a \in DOMAIN T /\ (i - a) + 1 < (j - a) + 1
        BY <1>4, <2>1, <3>4
      <4>2. (i - a) + 1 \in DOMAIN todo /\ todo'[i] = todo[(i - a) + 1]
        BY <1>4, <2>2, <3>4, <4>1
      <4> QED
        BY <2>4, <3>2, <4>1, <4>2
    <3> QED
      BY <3>3, <3>4
  <2> QED
    BY <2>5, <2>6
<1> QED
  BY <1>8, <1>9, <1>10, <1>11 DEF DisasmInv

LEMMA DisasmInit ==
  ASSUME Init
  PROVE  DisasmInv
<1>1. /\ db = [tables |-> {}, map |-> <<>>, sample |-> <<>>,
               module |-> {}, func |-> {}, block |-> {}, inst |-> {}, edge |-> {},
               inst_annot |-> {}, block_annot |-> <<>>, func_annot |-> <<>>,
               module_annot |-> <<>>, path |-> <<>>]
      /\ command = "none" /\ todo = <<>> /\ search = NoSearch
      /\ "partial" \in DOMAIN history /\ \E user \in Users : objects = user.objects
  BY DEF Init
<1>2. /\ db = [t \in Columns |-> db[t]]
      /\ db.map = <<>> /\ db.module = {} /\ db.block = {} /\ db.inst = {}
  BY <1>1 DEF Columns
<1>3. Mapped /\ Searching /\ Listed
  BY <1>1, <1>2 DEF Mapped, Searching, NoSearch, Listed, Range
<1>4. Typed
  BY <1>1, <1>2, <1>3 DEF Typed, Commands
<1>5. Saving /\ Sound /\ OneByOne
  BY <1>1, <1>2 DEF Saving, Sound, OneByOne
<1> QED
  BY <1>4, <1>5 DEF DisasmInv

LEMMA DisasmNext ==
  ASSUME DisasmInv, [Next]_vars
  PROVE  DisasmInv'
<1>1. CASE UNCHANGED vars
  <2>1. objects' = objects /\ db' = db /\ command' = command /\ todo' = todo /\ search' = search /\ history' = history
    BY <1>1 DEF vars
  <2>2. Modules' = Modules /\ (\A m : Functions(m)' = Functions(m)) /\ (\A m, f : Graph(m, f)' = Graph(m, f))
        /\ (\A m, f, k : InstsOf(m, f, k)' = InstsOf(m, f, k)) /\ (\A m, f : get_edges(m, f)' = get_edges(m, f))
    BY <2>1, Unmoved
  <2>3. Typed'
    <3>1. \A s : OfCommand(s) => OfCommand(s)'
      BY <2>1, <2>2 DEF OfCommand, Disassembling, Counting, Scoring, Storing
    <3> QED
      BY <2>1, <2>2, <3>1 DEF DisasmInv, Typed, Mapped, Searching, Listed
  <2>4. KeptGraph(db')
    BY <2>1, SameRows DEF DisasmInv, KeptRows
  <2>5. Saving'
    BY <2>1, <2>4, SavingKept DEF DisasmInv
  <2>6. Sound'
    BY <2>1, <2>4, SoundKept DEF DisasmInv
  <2>7. OneByOne'
    BY <2>1 DEF DisasmInv, OneByOne
  <2> QED
    BY <2>3, <2>5, <2>6, <2>7 DEF DisasmInv
<1>2. ASSUME NEW pid \in Pids, StartSample(pid) PROVE DisasmInv'
  BY <1>2, StartSampleStep
<1>3. CASE \E m \in Modules : \E f \in Functions(m) : \E i \in DOMAIN Code(m, f) : Sample(m, f, i)
  BY <1>3, SampleStep
<1>4. CASE EndSample
  BY <1>4, EndSampleStep
<1>5. CASE \E ms \in {{}} \cup {{m} : m \in Modules} : StartDisasm(ms)
  BY <1>5, StartDisasmStep
<1>6. CASE StartCount
  BY <1>6, StartCountStep
<1>7. CASE StartAnnotate
  BY <1>7, StartAnnotateStep
<1>8. CASE \E scope \in form.scopes : StartSearch(scope)
  BY <1>8, StartSearchStep
<1>9. CASE SearchNext
  BY <1>9, SearchNextStep
<1>10. CASE SearchEnd
  BY <1>10, SearchEndStep
<1>11. CASE Statement
  BY <1>11, DisasmStatement, OtherStatement
<1>12. CASE EndCommand
  BY <1>12, EndCommandStep
<1>13. CASE Kill
  BY <1>13, KillStep
<1>14. CASE Terminated
  BY <1>1, <1>14 DEF Terminated
<1> QED
  BY <1>1, <1>2, <1>3, <1>4, <1>5, <1>6, <1>7, <1>8, <1>9, <1>10, <1>11, <1>12, <1>13, <1>14 DEF Next

\* Whatever is killed, what a disasm has still to store is in its statements.
THEOREM DisasmInvAlways == Spec => []DisasmInv
<1>1. Init => DisasmInv
  BY DisasmInit
<1>2. DisasmInv /\ [Next]_vars => DisasmInv'
  BY DisasmNext
<1> QED
  BY <1>1, <1>2, PTL DEF Spec
-----------------------------------------------------------------------------
(* The graph of a module that is complete.                                 *)

LEMMA WholeModule ==
  ASSUME DisasmInv, NEW m \in Complete, NEW f \in Functions(m)
  PROVE  /\ m \in Modules
         /\ \A k \in DOMAIN Graph(m, f) : <<m, f, k>> \in db.block /\ InstsOf(m, f, k) \subseteq db.inst
         /\ get_edges(m, f) \subseteq db.edge
<1>1. m \in db.module \ history.partial /\ m \in Modules
  BY DEF Complete, DisasmInv, Sound
<1>2. ASSUME NEW s \in Range(todo), NEW k,
             StoresBlock(s, m, f, k) \/ StoresInsts(s, m, f, k) \/ StoresEdges(s, m, f)
      PROVE  FALSE
  <2>1. s[1] \in Tags /\ s[2] = m
    BY <1>2, StoresTag
  <2>2. command = "disasm"
    BY <2>1, NotTagged DEF DisasmInv
  <2>3. PICK i \in DOMAIN todo : s = todo[i]
    BY DEF Range
  <2> QED
    BY <2>1, <2>2, <2>3 DEF Complete
<1>3. /\ \A k \in DOMAIN Graph(m, f) :
           /\ <<m, f, k>> \in db.block \/ \E s \in Range(todo) : StoresBlock(s, m, f, k)
           /\ InstsOf(m, f, k) \subseteq db.inst \/ \E s \in Range(todo) : StoresInsts(s, m, f, k)
      /\ get_edges(m, f) \subseteq db.edge \/ \E s \in Range(todo) : StoresEdges(s, m, f)
  BY <1>1 DEF DisasmInv, Saving
<1> QED
  BY <1>1, <1>2, <1>3

\* A stored block has the instructions of its places.
LEMMA RowsOf ==
  ASSUME DisasmInv, NEW m \in Complete, NEW f \in Functions(m), NEW h \in DOMAIN Graph(m, f)
  PROVE  LET insts == Code(m, f)
         IN  {inst.addr : inst \in {inst \in db.inst : inst.block = <<m, f, h>>}} =
             {insts[i].addr : i \in h .. Final(insts, h)}
<1> DEFINE insts == Code(m, f)
           b == <<m, f, h>>
           R == {inst \in db.inst : inst.block = b}
<1>1. m \in Modules /\ InstsOf(m, f, h) \subseteq db.inst
  BY WholeModule
<1>2. Assembled(insts)
  BY <1>1, GraphOf DEF DisasmInv
<1>3. h \in Heads(insts) /\ Graph(m, f)[h] = build_blocks(insts)[h]
  BY DEF Graph, link_blocks
<1>4. Range(Graph(m, f)[h]) = {insts[i] : i \in h .. Final(insts, h)}
  BY <1>2, <1>3, Block
<1>5. R = InstsOf(m, f, h)
  <2>1. ASSUME NEW r \in R PROVE r \in InstsOf(m, f, h)
    <3>1. PICK n \in Modules : \E g \in Functions(n) : \E k \in DOMAIN Graph(n, g) : r \in InstsOf(n, g, k)
      BY DEF DisasmInv, Sound
    <3>2. PICK g \in Functions(n) : \E k \in DOMAIN Graph(n, g) : r \in InstsOf(n, g, k)
      BY <3>1
    <3>3. PICK k \in DOMAIN Graph(n, g) : r \in InstsOf(n, g, k)
      BY <3>2
    <3>4. r.block = <<n, g, k>>
      BY <3>3 DEF InstsOf
    <3>5. n = m /\ g = f /\ k = h
      BY <3>4
    <3> QED
      BY <3>3, <3>5
  <2>2. \A r \in InstsOf(m, f, h) : r.block = b
    BY DEF InstsOf
  <2> QED
    BY <1>1, <2>1, <2>2
<1>6. {inst.addr : inst \in InstsOf(m, f, h)} = {insts[i].addr : i \in h .. Final(insts, h)}
  <2>1. InstsOf(m, f, h) = {[block |-> b, addr |-> insts[i].addr] : i \in h .. Final(insts, h)}
    BY <1>4 DEF InstsOf
  <2>2. ASSUME NEW r \in InstsOf(m, f, h) PROVE r.addr \in {insts[i].addr : i \in h .. Final(insts, h)}
    BY <2>1
  <2>3. ASSUME NEW i \in h .. Final(insts, h) PROVE insts[i].addr \in {inst.addr : inst \in InstsOf(m, f, h)}
    <3>1. [block |-> b, addr |-> insts[i].addr] \in InstsOf(m, f, h)
      BY <2>1
    <3>2. \E r \in InstsOf(m, f, h) : r.addr = insts[i].addr
      BY <3>1
    <3> QED
      BY <3>2, Zenon
  <2> HIDE DEF insts, b
  <2> QED
    BY <2>2, <2>3
<1> QED
  BY <1>5, <1>6

\* The addresses of a block begin with its first place and end with its last.
LEMMA Extent ==
  ASSUME NEW insts, Assembled(insts), NEW h \in Heads(insts)
  PROVE  LET addrs == {insts[i].addr : i \in h .. Final(insts, h)}
         IN  Min(addrs) = insts[h].addr /\ Max(addrs) = insts[Final(insts, h)].addr
<1> DEFINE l == Final(insts, h)
           addrs == {insts[i].addr : i \in h .. l}
<1>1. Places(insts) /\ Len(insts) \in Nat /\ h \in 1 .. Len(insts) /\ l \in h .. Len(insts)
  BY PlacesOf, HeadsOf, FinalOf DEF Places
<1> HIDE DEF l
<1>2. \A i \in h .. l : i \in 1 .. Len(insts) /\ insts[i].addr \in Nat
  BY <1>1 DEF Places, Inst
<1>3. ASSUME NEW i \in h .. l PROVE insts[h].addr <= insts[i].addr /\ insts[i].addr <= insts[l].addr
  <2>1. h \in h .. l /\ l \in h .. l /\ h \in Nat /\ l \in Nat /\ i \in Nat
    BY <1>1
  <2>2. h < i => insts[h].addr < insts[i].addr
    BY <1>1, <1>2, <2>1 DEF Places
  <2>3. i < l => insts[i].addr < insts[l].addr
    BY <1>1, <1>2, <2>1 DEF Places
  <2>4. insts[h].addr \in Nat /\ insts[i].addr \in Nat /\ insts[l].addr \in Nat
    BY <1>2, <2>1
  <2>5. (h = i \/ h < i) /\ (i = l \/ i < l)
    BY <2>1
  <2> QED
    BY <2>2, <2>3, <2>4, <2>5
<1>4. insts[h].addr \in addrs /\ insts[l].addr \in addrs /\ addrs \subseteq Nat
  BY <1>1, <1>2
<1>5. \A x \in addrs : insts[h].addr <= x /\ x <= insts[l].addr
  BY <1>3
<1> HIDE DEF addrs
<1>6. Min(addrs) = insts[h].addr
  <2>1. IsLeast(Min(addrs), addrs)
    BY <1>4, MinOf
  <2>2. Min(addrs) \in Nat /\ insts[h].addr \in Nat
    BY <1>4, <2>1 DEF IsLeast
  <2> QED
    BY <1>4, <1>5, <2>1, <2>2 DEF IsLeast
<1>7. Max(addrs) = insts[l].addr
  <2>1. \E x \in addrs : \A y \in addrs : x >= y
    <3>1. \A y \in addrs : insts[l].addr >= y
      BY <1>4, <1>5
    <3> QED
      BY <1>4, <3>1
  <2>2. Max(addrs) \in addrs /\ \A y \in addrs : Max(addrs) >= y
    BY <2>1, Zenon DEF Max
  <2>3. Max(addrs) \in Nat /\ insts[l].addr \in Nat
    BY <1>4, <2>2
  <2> QED
    BY <1>4, <1>5, <2>2, <2>3
<1> QED
  BY <1>6, <1>7 DEF addrs, l

\* The block that has an instruction is the one that its place is in.
LEMMA Holder ==
  ASSUME DisasmInv, NEW m \in Complete, NEW f \in Functions(m), NEW i \in Reached(Code(m, f))
  PROVE  \E h \in DOMAIN Graph(m, f) :
           /\ InBlock(Code(m, f), i, h)
           /\ {b \in blocksOf(<<m, f>>) : [block |-> b, addr |-> Code(m, f)[i].addr] \in db.inst} = {<<m, f, h>>}
<1> DEFINE insts == Code(m, f)
           H == {b \in blocksOf(<<m, f>>) : [block |-> b, addr |-> insts[i].addr] \in db.inst}
<1>1. m \in Modules /\ Assembled(insts) /\ i \in DOMAIN insts
  BY WholeModule, GraphOf DEF DisasmInv, Reached
<1>2. PICK h : h \in DOMAIN Graph(m, f) /\ InBlock(insts, i, h)
  <2>1. PICK h \in Heads(insts) : InBlock(insts, i, h)
    BY <1>1, SomeBlock
  <2>2. h \in DOMAIN link_blocks(insts)
    BY <1>1, <2>1, PaddingUnreached
  <2> QED
    BY <2>1, <2>2 DEF Graph
<1>3. <<m, f, h>> \in H
  <2>1. <<m, f, h>> \in db.block /\ InstsOf(m, f, h) \subseteq db.inst
    BY <1>2, WholeModule
  <2>2. h \in Heads(insts) /\ Graph(m, f)[h] = build_blocks(insts)[h]
    BY <1>2 DEF Graph, link_blocks
  <2>3. insts[i] \in Range(Graph(m, f)[h])
    <3>1. i \in h .. Final(insts, h)
      <4>1. h \in 1 .. Len(insts) /\ Final(insts, h) \in h .. Len(insts) /\ i \in 1 .. Len(insts) /\ Len(insts) \in Nat
        BY <1>1, <2>2, HeadsOf, FinalOf, PlacesOf DEF Places
      <4> QED
        BY <1>2, <4>1 DEF InBlock
    <3> QED
      BY <1>1, <2>2, <3>1, Block
  <2>4. [block |-> <<m, f, h>>, addr |-> insts[i].addr] \in InstsOf(m, f, h)
    BY <2>3 DEF InstsOf
  <2>5. <<m, f, h>> \in blocksOf(<<m, f>>)
    BY <2>1 DEF blocksOf, FuncOf
  <2> QED
    BY <2>1, <2>4, <2>5
<1>4. ASSUME NEW b \in H PROVE b = <<m, f, h>>
  <2>1. b \in db.block /\ FuncOf(b) = <<m, f>> /\ [block |-> b, addr |-> insts[i].addr] \in db.inst
    BY DEF blocksOf
  <2>2. PICK n \in Modules : \E g \in Functions(n) : \E k \in DOMAIN Graph(n, g) : b = <<n, g, k>>
    BY <2>1 DEF DisasmInv, Sound
  <2>3. PICK k \in DOMAIN Graph(m, f) : b = <<m, f, k>>
    BY <2>1, <2>2 DEF FuncOf
  <2>4. insts[i].addr \in {inst.addr : inst \in {inst \in db.inst : inst.block = <<m, f, k>>}}
    <3>1. \E inst \in {inst \in db.inst : inst.block = <<m, f, k>>} : inst.addr = insts[i].addr
      BY <2>1, <2>3
    <3> QED
      BY <3>1, Zenon
  <2>5. insts[i].addr \in {insts[j].addr : j \in k .. Final(insts, k)}
    BY <2>4, RowsOf
  <2>6. PICK j \in k .. Final(insts, k) : insts[j].addr = insts[i].addr
    BY <2>5, Zenon
  <2>7. k \in Heads(insts)
    BY DEF Graph, link_blocks
  <2>8. k \in 1 .. Len(insts) /\ Final(insts, k) \in k .. Len(insts) /\ DOMAIN insts = 1 .. Len(insts) /\ Len(insts) \in Nat
    BY <1>1, <2>7, HeadsOf, FinalOf, PlacesOf DEF Places
  <2>9. j \in DOMAIN insts /\ k <= j /\ j <= Final(insts, k)
    BY <2>8
  <2>10. j = i
    BY <1>1, <2>6, <2>9, AddrUnique
  <2>11. InBlock(insts, i, k)
    BY <2>7, <2>9, <2>10 DEF InBlock
  <2>12. k = h
    BY <1>1, <1>2, <2>11, OneBlock
  <2> QED
    BY <2>3, <2>12
<1>5. H = {<<m, f, h>>}
  BY <1>3, <1>4
<1> QED
  BY <1>2, <1>5

LEMMA ReachedFlow ==
  ASSUME NEW insts, NEW i \in Reached(insts), NEW j \in Flow(insts, i), j \in DOMAIN insts
  PROVE  j \in Reached(insts)
BY DEF Reached

LEMMA CoversComplete ==
  ASSUME DisasmInv
  PROVE  GraphCovers
<1> SUFFICES ASSUME NEW m \in Complete, NEW f \in Functions(m), NEW i \in Reached(Code(m, f))
             PROVE  LET insts == Code(m, f)
                        holding(k) == {b \in blocksOf(<<m, f>>) : [block |-> b, addr |-> insts[k].addr] \in db.inst}
                        first(b) == Min({inst.addr : inst \in {inst \in db.inst : inst.block = b}})
                        last(b) == Max({inst.addr : inst \in {inst \in db.inst : inst.block = b}})
                        final(b) == \A c \in blocksOf(<<m, f>>) : c[3] <= b[3]
                    IN  /\ Cardinality(holding(i)) = 1
                        /\ \A j \in Flow(insts, i) : \A b \in holding(i), c \in holding(j) :
                             \/ b = c /\ j = i + 1
                             \/ /\ last(b) = insts[i].addr /\ first(c) = insts[j].addr
                                /\ final(b) \/ [from |-> b, to |-> c] \in db.edge
  BY DEF GraphCovers
<1> DEFINE insts == Code(m, f)
           holding(k) == {b \in blocksOf(<<m, f>>) : [block |-> b, addr |-> insts[k].addr] \in db.inst}
           first(b) == Min({inst.addr : inst \in {inst \in db.inst : inst.block = b}})
           last(b) == Max({inst.addr : inst \in {inst \in db.inst : inst.block = b}})
           final(b) == \A c \in blocksOf(<<m, f>>) : c[3] <= b[3]
<1>1. m \in Modules /\ Assembled(insts) /\ i \in DOMAIN insts
  BY WholeModule, GraphOf DEF DisasmInv, Reached
<1>2. PICK h : h \in DOMAIN Graph(m, f) /\ InBlock(insts, i, h) /\ holding(i) = {<<m, f, h>>}
  BY Holder
<1>3. Cardinality(holding(i)) = 1
  BY <1>2, FS_Singleton
<1>4. ASSUME NEW j \in Flow(insts, i), NEW b \in holding(i), NEW c \in holding(j)
      PROVE  \/ b = c /\ j = i + 1
             \/ /\ last(b) = insts[i].addr /\ first(c) = insts[j].addr
                /\ final(b) \/ [from |-> b, to |-> c] \in db.edge
  <2>1. j \in DOMAIN insts
    <3>1. DOMAIN insts = 1 .. Len(insts)
      BY <1>1, PlacesOf DEF Places
    <3> QED
      BY DEF Flow
  <2>2. PICK k : k \in DOMAIN Graph(m, f) /\ InBlock(insts, j, k) /\ holding(j) = {<<m, f, k>>}
    BY <2>1, Holder, ReachedFlow
  <2>3. b = <<m, f, h>> /\ c = <<m, f, k>>
    BY <1>2, <2>2
  <2>4. CASE j = i + 1 /\ InBlock(insts, j, h)
    <3>1. h = k
      BY <1>1, <2>1, <2>2, <2>4, OneBlock
    <3> QED
      BY <2>3, <2>4, <3>1
  <2>5. CASE i = Final(insts, h) /\ j \in Heads(insts) /\ (h = Max(Heads(insts)) \/ <<h, j>> \in Edges(insts))
    <3>1. h \in Heads(insts) /\ k \in Heads(insts)
      BY <1>2, <2>2 DEF Graph, link_blocks
    <3>2. k = j
      <4>1. Final(insts, j) \in j .. Len(insts) /\ j \in 1 .. Len(insts) /\ Len(insts) \in Nat
        BY <1>1, <2>5, HeadsOf, FinalOf, PlacesOf DEF Places
      <4>2. InBlock(insts, j, j)
        BY <2>5, <4>1 DEF InBlock
      <4> QED
        BY <1>1, <2>1, <2>2, <4>2, OneBlock
    <3>3. last(b) = insts[i].addr
      <4>1. {inst.addr : inst \in {inst \in db.inst : inst.block = b}} = {insts[x].addr : x \in h .. Final(insts, h)}
        <5>1. {inst.addr : inst \in {inst \in db.inst : inst.block = <<m, f, h>>}} =
              {insts[x].addr : x \in h .. Final(insts, h)}
          BY <1>2, RowsOf
        <5> QED
          BY <2>3, <5>1, Zenon
      <4>2. Max({insts[x].addr : x \in h .. Final(insts, h)}) = insts[Final(insts, h)].addr
        BY <1>1, <3>1, Extent
      <4> QED
        BY <2>5, <4>1, <4>2, Zenon
    <3>4. first(c) = insts[j].addr
      <4>1. {inst.addr : inst \in {inst \in db.inst : inst.block = c}} = {insts[x].addr : x \in k .. Final(insts, k)}
        <5>1. {inst.addr : inst \in {inst \in db.inst : inst.block = <<m, f, k>>}} =
              {insts[x].addr : x \in k .. Final(insts, k)}
          BY <2>2, RowsOf
        <5> QED
          BY <2>3, <5>1, Zenon
      <4>2. Min({insts[x].addr : x \in k .. Final(insts, k)}) = insts[k].addr
        BY <1>1, <3>1, Extent
      <4> QED
        BY <3>2, <4>1, <4>2, Zenon
    <3>5. CASE h = Max(Heads(insts))
      <4>1. Heads(insts) \in SUBSET (1 .. Len(insts)) /\ Heads(insts) # {} /\ Len(insts) \in Nat
        BY <1>1, HeadsOf, PlacesOf DEF Places
      <4>2. IsGreatest(h, Heads(insts))
        BY <3>5, <4>1, MaxOf
      <4>3. ASSUME NEW a \in blocksOf(<<m, f>>) PROVE a[3] <= b[3]
        <5>1. a \in db.block /\ FuncOf(a) = <<m, f>>
          BY DEF blocksOf
        <5>2. PICK n \in Modules : \E g \in Functions(n) : \E x \in DOMAIN Graph(n, g) : a = <<n, g, x>>
          BY <5>1 DEF DisasmInv, Sound
        <5>3. PICK x \in DOMAIN Graph(m, f) : a = <<m, f, x>>
          BY <5>1, <5>2 DEF FuncOf
        <5>4. x \in Heads(insts)
          BY DEF Graph, link_blocks
        <5> QED
          BY <2>3, <4>2, <5>3, <5>4 DEF IsGreatest
      <4> QED
        BY <3>3, <3>4, <4>3
    <3>6. CASE <<h, j>> \in Edges(insts)
      <4>1. [from |-> <<m, f, h>>, to |-> <<m, f, j>>] \in get_edges(m, f)
        <5>1. \E e \in Edges(insts) : [from |-> <<m, f, h>>, to |-> <<m, f, j>>] = [from |-> <<m, f, e[1]>>, to |-> <<m, f, e[2]>>]
          BY <3>6
        <5> QED
          BY <5>1, Zenon DEF get_edges
      <4>2. [from |-> b, to |-> c] \in db.edge
        BY <2>3, <3>2, <4>1, WholeModule
      <4> QED
        BY <3>3, <3>4, <4>2
    <3> QED
      BY <2>5, <3>5, <3>6
  <2> QED
    BY <1>1, <1>2, <2>4, <2>5, FlowEdge
<1> QED
  BY <1>3, <1>4

\* For every program: once a disasm has stored a module, whatever it was asked and
\* whichever commands were killed, the graph in the database is the one that the
\* instructions of its functions make.
THEOREM GraphCoversAlways == Spec => []GraphCovers
<1>1. DisasmInv => GraphCovers
  BY CoversComplete
<1> QED
  BY <1>1, DisasmInvAlways, PTL
-----------------------------------------------------------------------------
(* Sums over finite sets.  The folds of the community modules choose the   *)
(* elements of a set one by one.                                           *)

\* A finite set has no infinite descent: some set of a collection has none of the others within it.
LEMMA Smallest ==
  ASSUME NEW S, IsFiniteSet(S), NEW C, C \subseteq SUBSET S, C # {}
  PROVE  \E m \in C : \A t \in C : t \subseteq m => t = m
<1>1. IsWellFoundedOn(StrictSubsetOrdering(S), SUBSET S)
  BY FS_StrictSubsetOrderingWellFounded, FS_FiniteSubsetsOfFinite
<1>2. PICK m \in C : \A t \in C : ~ (<<t, m>> \in StrictSubsetOrdering(S))
  BY <1>1, WFMin
<1>3. \A t \in C : t \subseteq m => t = m
  BY <1>2 DEF StrictSubsetOrdering
<1> QED
  BY <1>3

\* The order in which a fold takes the elements.
Pick(s) == CHOOSE x \in s : TRUE
Others(s) == s \ {Pick(s)}

LEMMA Picked ==
  ASSUME NEW s, s # {}
  PROVE  Pick(s) \in s /\ Others(s) \subseteq s /\ Others(s) # s
BY DEF Pick, Others

\* f is the sum of the values v over each subset of S, taken out one by one.
Sums(f, v, S) == f = [s \in SUBSET S |-> IF s = {} THEN 0 ELSE v[Pick(s)] + f[Others(s)]]

LEMMA SumsAt ==
  ASSUME NEW f, NEW v, NEW S, Sums(f, v, S)
  PROVE  \A s \in SUBSET S : f[s] = IF s = {} THEN 0 ELSE v[Pick(s)] + f[Others(s)]
BY DEF Sums

\* What a sum over a part of S is does not depend on S.
LEMMA SumsAgree ==
  ASSUME NEW v, NEW S, IsFiniteSet(S), NEW T \in SUBSET S, NEW f, NEW g, Sums(f, v, S), Sums(g, v, T)
  PROVE  \A s \in SUBSET T : f[s] = g[s]
<1> DEFINE C == {s \in SUBSET T : f[s] # g[s]}
<1> SUFFICES ASSUME C # {} PROVE FALSE
  OBVIOUS
<1>1. IsFiniteSet(T)
  BY FS_Subset
<1>2. C \subseteq SUBSET T
  OBVIOUS
<1>3. \E m \in C : \A t \in C : t \subseteq m => t = m
  <2> HIDE DEF C
  <2> QED
    BY <1>1, <1>2, Smallest
<1>4. PICK m \in C : \A t \in C : t \subseteq m => t = m
  BY <1>3
<1>5. /\ f[m] = IF m = {} THEN 0 ELSE v[Pick(m)] + f[Others(m)]
      /\ g[m] = IF m = {} THEN 0 ELSE v[Pick(m)] + g[Others(m)]
  BY SumsAt
<1>6. m # {}
  BY <1>4, <1>5
<1>7. Others(m) \in SUBSET T /\ Others(m) \notin C
  BY <1>4, <1>6, Picked
<1>8. f[Others(m)] = g[Others(m)]
  BY <1>7
<1> QED
  BY <1>5, <1>6, <1>8

\* There are such sums for every finite S: a smallest set without them would
\* have them.
LEMMA SumsExist ==
  ASSUME NEW v, NEW S, IsFiniteSet(S)
  PROVE  \E f : Sums(f, v, S)
<1> DEFINE C == {T \in SUBSET S : ~ \E f : Sums(f, v, T)}
<1> SUFFICES ASSUME C # {} PROVE FALSE
  OBVIOUS
<1>0. C \subseteq SUBSET S
  OBVIOUS
<1>a. \E m \in C : \A t \in C : t \subseteq m => t = m
  <2> HIDE DEF C
  <2> QED
    BY <1>0, Smallest
<1>1. PICK m \in C : \A t \in C : t \subseteq m => t = m
  BY <1>a
<1> DEFINE G(t) == CHOOSE f : Sums(f, v, t)
           h == [s \in SUBSET m |-> IF s = {} THEN 0 ELSE v[Pick(s)] + G(Others(s))[Others(s)]]
<1>2. ASSUME NEW t \in SUBSET m, t # m PROVE Sums(G(t), v, t)
  <2>1. \E f : Sums(f, v, t)
    BY <1>1, <1>2
  <2> QED
    BY <2>1
<1> HIDE DEF G
<1>3. ASSUME NEW s \in SUBSET m, s # {} PROVE h[Others(s)] = G(Others(s))[Others(s)]
  <2> DEFINE t == Others(s)
  <2>1. t \in SUBSET m /\ t # m
    BY <1>3, Picked
  <2>2. Sums(G(t), v, t)
    BY <1>2, <2>1
  <2> HIDE DEF t
  <2>3. G(t)[t] = IF t = {} THEN 0 ELSE v[Pick(t)] + G(t)[Others(t)]
    BY <2>2, SumsAt
  <2>4. h[t] = IF t = {} THEN 0 ELSE v[Pick(t)] + G(Others(t))[Others(t)]
    BY <2>1
  <2>5. CASE t # {}
    <3>1. Others(t) \in SUBSET t /\ Others(t) \in SUBSET m /\ Others(t) # m
      BY <2>1, <2>5, Picked
    <3>2. Sums(G(Others(t)), v, Others(t)) /\ IsFiniteSet(t)
      BY <1>2, <2>1, <3>1, FS_Subset
    <3>3. G(t)[Others(t)] = G(Others(t))[Others(t)]
      BY <2>2, <3>1, <3>2, SumsAgree
    <3> QED
      BY <2>3, <2>4, <2>5, <3>3 DEF t
  <2> QED
    BY <2>3, <2>4, <2>5 DEF t
<1>4. Sums(h, v, m)
  BY <1>3 DEF Sums
<1> QED
  BY <1>4

Counts(f, S) == \A s \in SUBSET S : f[s] \in Nat

LEMMA SumsTyped ==
  ASSUME NEW v, NEW S, IsFiniteSet(S), \A x \in S : v[x] \in Nat, NEW f, Sums(f, v, S)
  PROVE  Counts(f, S)
<1> DEFINE C == {s \in SUBSET S : f[s] \notin Nat}
<1> SUFFICES ASSUME C # {} PROVE FALSE
  BY DEF Counts
<1>1. \E m \in C : \A t \in C : t \subseteq m => t = m
  <2>1. C \subseteq SUBSET S
    OBVIOUS
  <2> HIDE DEF C
  <2> QED
    BY <2>1, Smallest
<1>2. PICK m \in C : \A t \in C : t \subseteq m => t = m
  BY <1>1
<1>3. f[m] = IF m = {} THEN 0 ELSE v[Pick(m)] + f[Others(m)]
  BY SumsAt
<1>4. m # {}
  BY <1>2, <1>3
<1>5. Others(m) \in SUBSET S /\ Others(m) \notin C /\ v[Pick(m)] \in Nat
  BY <1>2, <1>4, Picked
<1>6. f[Others(m)] \in Nat
  BY <1>5
<1> QED
  BY <1>2, <1>3, <1>4, <1>5, <1>6

LEMMA SumsThere ==
  ASSUME NEW v, NEW S, IsFiniteSet(S), \A x \in S : v[x] \in Nat
  PROVE  \E f : Sums(f, v, S) /\ Counts(f, S)
<1>1. PICK f : Sums(f, v, S)
  BY SumsExist
<1>2. Counts(f, S)
  BY <1>1, SumsTyped
<1> QED
  BY <1>1, <1>2

LEMMA RowCounts ==
  ASSUME NEW S, IsFiniteSet(S), \A row \in S : row.count \in Nat
  PROVE  MapThenSumSet(LAMBDA row : row.count, S) \in Nat
<1> DEFINE v == [x \in S |-> x.count]
           Body(f) == f = [s \in SUBSET S |-> IF s = {} THEN 0 ELSE Pick(s).count + f[Others(s)]]
<1>1. \A f : Sums(f, v, S) <=> Body(f)
  <2> TAKE f
  <2>1. \A s \in SUBSET S : s # {} => v[Pick(s)] = Pick(s).count
    BY Picked
  <2> QED
    BY <2>1 DEF Sums
<1>2. \A f : Body(f) => Counts(f, S)
  <2>1. \A x \in S : v[x] \in Nat
    OBVIOUS
  <2> HIDE DEF v
  <2> QED
    BY <1>1, <2>1, SumsTyped
<1>3. \E f : Body(f)
  BY <1>1, SumsExist
<1>4. \E f : Body(f) /\ MapThenSumSet(LAMBDA row : row.count, S) = f[S]
  BY <1>3, Zenon DEF MapThenSumSet, MapThenFoldSet, Pick, Others
<1> QED
  BY <1>2, <1>4 DEF Counts

LEMMA LoadedSizeTyped ==
  ASSUME IsFiniteSet(db.inst), IsFiniteSet(db.inst_annot), NEW b
  PROVE  loadedSize(b) \in Nat
<1> DEFINE S == {i \in db.inst : i.block = b}
           rows(i) == {row \in db.inst_annot : row.inst = i}
           op(i) == Max({1, Cardinality(rows(i))})
           v == [x \in S |-> op(x)]
           Body(f) == f = [s \in SUBSET S |-> IF s = {} THEN 0 ELSE op(Pick(s)) + f[Others(s)]]
<1>0. IsFiniteSet(S)
  BY FS_Subset
<1>1. ASSUME NEW i PROVE op(i) \in Nat
  <2>1. Cardinality(rows(i)) \in Nat
    BY FS_Subset, FS_CardinalityType
  <2> DEFINE n == Cardinality(rows(i))
  <2>2. \E x \in {1, n} : \A y \in {1, n} : x >= y
    BY <2>1
  <2>3. Max({1, n}) \in {1, n}
    <3> HIDE DEF n
    <3> QED
      BY <2>2 DEF Max
  <2> QED
    BY <2>1, <2>3
<1> HIDE DEF op
<1>2. \A f : Sums(f, v, S) <=> Body(f)
  <2> TAKE f
  <2>1. \A s \in SUBSET S : s # {} => v[Pick(s)] = op(Pick(s))
    BY Picked
  <2> QED
    BY <2>1 DEF Sums
<1>3. \A f : Body(f) => Counts(f, S)
  <2>1. \A x \in S : v[x] \in Nat
    BY <1>1
  <2> HIDE DEF v
  <2> QED
    BY <1>0, <1>2, <2>1, SumsTyped
<1>4. \E f : Body(f)
  BY <1>0, <1>2, SumsExist
<1>5. \E f : Body(f) /\ loadedSize(b) = f[S]
  BY <1>4, Zenon DEF loadedSize, MapThenSumSet, MapThenFoldSet, Pick, Others, op
<1>6. PICK f : Body(f) /\ loadedSize(b) = f[S]
  BY <1>5, Zenon
<1> HIDE DEF Body
<1>7. Counts(f, S)
  BY <1>3, <1>6, Zenon
<1> HIDE DEF S
<1>8. S \in SUBSET S
  OBVIOUS
<1>9. f[S] \in Nat
  BY <1>7, <1>8 DEF Counts
<1> QED
  BY <1>6, <1>9, Zenon

LEMMA NumInsTyped ==
  ASSUME IsFiniteSet(db.inst), IsFiniteSet(db.inst_annot), NEW nodes, IsFiniteSet(Range(nodes))
  PROVE  num_ins(nodes) \in Nat
<1> DEFINE S == Range(nodes)
           v == [x \in S |-> loadedSize(x)]
           Body(f) == f = [s \in SUBSET S |-> IF s = {} THEN 0 ELSE loadedSize(Pick(s)) + f[Others(s)]]
<1>1. \A f : Sums(f, v, S) <=> Body(f)
  <2> TAKE f
  <2>1. \A s \in SUBSET S : s # {} => v[Pick(s)] = loadedSize(Pick(s))
    BY Picked
  <2> QED
    BY <2>1 DEF Sums
<1>2. \A f : Body(f) => Counts(f, S)
  <2>1. \A x \in S : v[x] \in Nat
    BY LoadedSizeTyped
  <2> HIDE DEF v
  <2> QED
    BY <1>1, <2>1, SumsTyped
<1>3. \E f : Body(f)
  BY <1>1, SumsExist
<1>4. \E f : Body(f) /\ num_ins(nodes) = f[S]
  BY <1>3, Zenon DEF num_ins, MapThenSumSet, MapThenFoldSet, Pick, Others
<1> QED
  BY <1>2, <1>4 DEF Counts

LEMMA HeurTyped ==
  ASSUME NEW nodes, IsFiniteSet(Range(nodes)), \A b : score(b) \in Nat
  PROVE  heur(nodes) \in Nat
<1> DEFINE S == Range(nodes)
           op(b) == IF times(search.covered, b) > form.reps THEN 0 ELSE score(b)
           v == [x \in S |-> op(x)]
           Body(f) == f = [s \in SUBSET S |-> IF s = {} THEN 0 ELSE op(Pick(s)) + f[Others(s)]]
<1>1. \A f : Sums(f, v, S) <=> Body(f)
  <2> TAKE f
  <2>1. \A s \in SUBSET S : s # {} => v[Pick(s)] = op(Pick(s))
    BY Picked
  <2> HIDE DEF op
  <2> QED
    BY <2>1 DEF Sums
<1>2. \A f : Body(f) => Counts(f, S)
  <2>1. \A x \in S : v[x] \in Nat
    OBVIOUS
  <2> HIDE DEF v
  <2> QED
    BY <1>1, <2>1, SumsTyped
<1>3. \E f : Body(f)
  BY <1>1, SumsExist
<1>4. \E f : Body(f) /\ heur(nodes) = f[S]
  BY <1>3, Zenon DEF heur, MapThenSumSet, MapThenFoldSet, Pick, Others
<1>5. PICK f : Body(f) /\ heur(nodes) = f[S]
  BY <1>4, Zenon
<1> HIDE DEF Body
<1>6. Counts(f, S)
  BY <1>2, <1>5, Zenon
<1>7. f[S] \in Nat
  BY <1>6 DEF Counts
<1> QED
  BY <1>5, <1>7, Zenon
-----------------------------------------------------------------------------
(* The tables: what is linked to what, and the counts and scores.          *)

\* A column is written, the others are left as they are.
LEMMA OneColumn ==
  ASSUME Tables(db), NEW c \in Columns, NEW x, NEW d, d = [db EXCEPT ![c] = x]
  PROVE  Tables(d) /\ d[c] = x /\ \A t \in Columns : t # c => d[t] = db[t]
BY Zenon DEF Tables

LinkColumns == {"module", "func", "edge"}
RateColumns == {"sample", "inst", "inst_annot", "block_annot"}
Same(C) == \A t \in C : db'[t] = db[t]

\* Whatever writes one column leaves those that do not have it.
LEMMA OthersSame ==
  ASSUME Tables(db), NEW c \in Columns, NEW x, db' = [db EXCEPT ![c] = x], NEW C, C \subseteq Columns, c \notin C
  PROVE  Same(C)
BY OneColumn DEF Same
LEMMA Column ==
  LinkColumns \subseteq Columns /\ RateColumns \subseteq Columns /\ "path" \in Columns
BY DEF LinkColumns, RateColumns, Columns

LEMMA LinkedKept ==
  ASSUME Linked, objects' = objects, Same(LinkColumns),
         command' = "disasm" => \A s \in Range(todo') : s[1] = "module" \/ s[2] \in db.module
  PROVE  Linked'
<1>1. db'.module = db.module /\ db'.func = db.func /\ db'.edge = db.edge
  BY DEF Same, LinkColumns
<1>2. Modules' = Modules /\ (\A m : Functions(m)' = Functions(m)) /\ \A m, f : get_edges(m, f)' = get_edges(m, f)
  BY Unmoved
<1>3. (\A g \in db'.func : \E m \in db'.module : \E f \in Functions(m)' : g = <<m, f>>)
  BY <1>1, <1>2 DEF Linked
<1>4. \A e \in db'.edge : \E m \in Modules' : \E f \in Functions(m)' : e \in get_edges(m, f)'
  BY <1>1, <1>2 DEF Linked
<1> QED
  BY <1>1, <1>3, <1>4 DEF Linked

LEMMA RatedKept ==
  ASSUME Rated, Same(RateColumns)
  PROVE  Rated'
<1>1. db'.sample = db.sample /\ db'.inst = db.inst /\ db'.inst_annot = db.inst_annot /\ db'.block_annot = db.block_annot
  BY DEF Same, RateColumns
<1> QED
  BY <1>1, Zenon DEF Rated

\* Another column leaves both.
LEMMA NoLink ==
  ASSUME Typed, NEW c \in Columns \ LinkColumns, NEW x, db' = [db EXCEPT ![c] = x]
  PROVE  Same(LinkColumns)
BY OthersSame, Column DEF Typed, Tables
LEMMA NoRate ==
  ASSUME Typed, NEW c \in Columns \ RateColumns, NEW x, db' = [db EXCEPT ![c] = x]
  PROVE  Same(RateColumns)
BY OthersSame, Column DEF Typed, Tables
LEMMA Untouched ==
  ASSUME db' = db
  PROVE  Same(LinkColumns) /\ Same(RateColumns)
BY DEF Same

LEMMA FiniteImage ==
  ASSUME NEW S, IsFiniteSet(S), NEW f, DOMAIN f = S
  PROVE  IsFiniteSet({f[x] : x \in S})
<1> DEFINE T == {f[x] : x \in S}
           g == [x \in S |-> f[x]]
<1>1. g \in Surjection(S, T)
  BY DEF Surjection
<1> HIDE DEF g, T
<1>2. IsFiniteSet(T)
  BY <1>1, FS_Surjection
<1> QED
  BY <1>2 DEF T

LEMMA FiniteSeq ==
  ASSUME NEW s, IsSeq(s)
  PROVE  IsFiniteSet(Range(s)) /\ IsFiniteSet(DOMAIN s)
<1>1. Len(s) \in Nat /\ DOMAIN s = 1 .. Len(s)
  BY DEF IsSeq
<1>2. IsFiniteSet(DOMAIN s)
  BY <1>1, FS_Interval
<1>3. IsFiniteSet({s[x] : x \in DOMAIN s})
  BY <1>2, FiniteImage
<1> QED
  BY <1>2, <1>3 DEF Range

LEMMA InstsFinite ==
  ASSUME Typed, NEW m \in Modules, NEW f \in Functions(m), NEW k \in DOMAIN Graph(m, f)
  PROVE  IsFiniteSet(InstsOf(m, f, k))
<1> DEFINE insts == Code(m, f)
           I == k .. Final(insts, k)
           row == [i \in I |-> [block |-> <<m, f, k>>, addr |-> insts[i].addr]]
<1>1. Assembled(insts)
  BY GraphOf
<1>2. k \in Heads(insts) /\ Graph(m, f)[k] = build_blocks(insts)[k]
  BY DEF Graph, link_blocks
<1>3. Range(Graph(m, f)[k]) = {insts[i] : i \in I}
  BY <1>1, <1>2, Block
<1>4. k \in Int /\ Final(insts, k) \in Int
  BY <1>1, <1>2, FinalOf, HeadsOf, PlacesOf DEF Places
<1>5. IsFiniteSet(I) /\ DOMAIN row = I
  BY <1>4, FS_Interval
<1> HIDE DEF row
<1>6. IsFiniteSet({row[i] : i \in I})
  BY <1>5, FiniteImage
<1>7. InstsOf(m, f, k) = {row[i] : i \in I}
  BY <1>3 DEF InstsOf, row
<1> QED
  BY <1>6, <1>7

\* What a statement of a disasm adds.
Adds(s) ==
  /\ Same({"sample", "inst_annot", "block_annot", "path"})
  /\ db.module \subseteq db'.module /\ (s[1] = "module" => s[2] \in db'.module)
  /\ \A g \in db'.func : g \in db.func \/
       \E m \in Modules : \E f \in Functions(m) : s = <<"func", m, f>> /\ g = <<m, f>>
  /\ \A e \in db'.edge : e \in db.edge \/ \E m \in Modules : \E f \in Functions(m) : e \in get_edges(m, f)
  /\ db.func \subseteq db'.func
  /\ db.inst \subseteq db'.inst /\ (IsFiniteSet(db.inst) => IsFiniteSet(db'.inst))
LEMMA SavedAdds ==
  ASSUME Typed, NEW s, Disassembling(s), db' = Saved(s)
  PROVE  Adds(s)
<1>0. Tables(db) /\ {"module", "func", "block", "inst", "edge", "sample", "inst_annot", "block_annot", "path"} \subseteq Columns
  BY DEF Typed, Tables, Columns
<1>1. CASE \E m \in Modules : s = <<"module", m>>
  <2>1. PICK m \in Modules : s = <<"module", m>>
    BY <1>1
  <2> DEFINE x == db.module \cup {m}
  <2>2. db' = [db EXCEPT !["module"] = x]
    BY <2>1 DEF Saved
  <2> HIDE DEF x
  <2>3. db'["module"] = x /\ \A t \in Columns : t # "module" => db'[t] = db[t]
    BY <1>0, <2>2, OneColumn
  <2> QED
    BY <1>0, <2>1, <2>3 DEF Adds, Same, x
<1>2. CASE \E m \in Modules : \E f \in Functions(m) : s = <<"func", m, f>>
  <2>1. PICK m \in Modules : \E f \in Functions(m) : s = <<"func", m, f>>
    BY <1>2
  <2>2. PICK f \in Functions(m) : s = <<"func", m, f>>
    BY <2>1
  <2> DEFINE x == db.func \cup {<<m, f>>}
  <2>3. db' = [db EXCEPT !["func"] = x]
    BY <2>2 DEF Saved
  <2> HIDE DEF x
  <2>4. db'["func"] = x /\ \A t \in Columns : t # "func" => db'[t] = db[t]
    BY <1>0, <2>3, OneColumn
  <2> QED
    BY <1>0, <2>2, <2>4 DEF Adds, Same, x
<1>3. CASE \E m \in Modules : \E f \in Functions(m) : s = <<"edges", m, f>>
  <2>1. PICK m \in Modules : \E f \in Functions(m) : s = <<"edges", m, f>>
    BY <1>3
  <2>2. PICK f \in Functions(m) : s = <<"edges", m, f>>
    BY <2>1
  <2> DEFINE x == db.edge \cup get_edges(m, f)
  <2>3. db' = [db EXCEPT !["edge"] = x]
    BY <2>2 DEF Saved
  <2> HIDE DEF x
  <2>4. db'["edge"] = x /\ \A t \in Columns : t # "edge" => db'[t] = db[t]
    BY <1>0, <2>3, OneColumn
  <2> QED
    BY <1>0, <2>2, <2>4 DEF Adds, Same, x
<1>4. CASE \E m \in Modules : \E f \in Functions(m) : \E k \in DOMAIN Graph(m, f) : s = <<"block", m, f, k>>
  <2>1. s[1] = "block"
    BY <1>4
  <2>2. \E x : db' = [db EXCEPT !["block"] = x]
    BY <2>1 DEF Saved
  <2>3. \A t \in Columns : t # "block" => db'[t] = db[t]
    BY <1>0, <2>2, OneColumn
  <2> QED
    BY <1>0, <2>1, <2>3 DEF Adds, Same
<1>5. CASE \E m \in Modules : \E f \in Functions(m) : \E k \in DOMAIN Graph(m, f) : s = <<"insts", m, f, k>>
  <2>1. PICK m \in Modules : \E f \in Functions(m) : \E k \in DOMAIN Graph(m, f) : s = <<"insts", m, f, k>>
    BY <1>5
  <2>2. PICK f \in Functions(m) : \E k \in DOMAIN Graph(m, f) : s = <<"insts", m, f, k>>
    BY <2>1
  <2>3. PICK k \in DOMAIN Graph(m, f) : s = <<"insts", m, f, k>>
    BY <2>2
  <2> DEFINE x == db.inst \cup InstsOf(m, f, k)
  <2>4. db' = [db EXCEPT !["inst"] = x]
    BY <2>3 DEF Saved
  <2> HIDE DEF x
  <2>5. db'["inst"] = x /\ \A t \in Columns : t # "inst" => db'[t] = db[t]
    BY <1>0, <2>4, OneColumn
  <2>6. IsFiniteSet(InstsOf(m, f, k))
    BY InstsFinite
  <2>7. IsFiniteSet(db.inst) => IsFiniteSet(x)
    BY <2>6, FS_Union DEF x
  <2> QED
    BY <1>0, <2>3, <2>5, <2>7 DEF Adds, Same, x
<1> QED
  BY <1>1, <1>2, <1>3, <1>4, <1>5 DEF Disassembling

LEMMA GroupedTyped ==
  ASSUME Typed, Rated, NEW m, NEW addr
  PROVE  sample_grouped(m, addr) \in Nat
<1> DEFINE P == (DOMAIN db.map) \X (DOMAIN db.sample)
           K == {k \in P : LET s == db.sample[k[2]]
                           IN  /\ k[1] \in covering(m, s)
                               /\ s.ip - offset(m, db.map[taken(covering(m, s))]) = addr}
<1>1. IsFiniteSet(DOMAIN db.map) /\ IsFiniteSet(DOMAIN db.sample)
  BY FiniteSeq DEF Typed, Mapped, Rated, IsSeq
<1>2. IsFiniteSet(P)
  BY <1>1, FS_Product
<1>3. K \in SUBSET P /\ sample_grouped(m, addr) = Cardinality(K)
  BY DEF sample_grouped
<1> HIDE DEF P, K
<1> QED
  BY <1>2, <1>3, FS_Subset, FS_CardinalityType

LEMMA CountRows ==
  ASSUME Typed, Rated, NEW m
  PROVE  /\ IsFiniteSet(count_insts(m))
         /\ \A row \in count_insts(m) : row.inst \in db.inst /\ row.count \in Nat
<1> DEFINE S == {i \in db.inst : sample_grouped(m, i.addr) > 0}
           g == [i \in S |-> [inst |-> i, module |-> m, count |-> sample_grouped(m, i.addr)]]
<1>1. IsFiniteSet(S)
  BY FS_Subset DEF Rated
<1>2. \A i \in S : i \in db.inst /\ sample_grouped(m, i.addr) \in Nat
  BY GroupedTyped
<1>3. DOMAIN g = S /\ \A i \in S : g[i] = [inst |-> i, module |-> m, count |-> sample_grouped(m, i.addr)]
  OBVIOUS
<1>4. count_insts(m) = {g[i] : i \in S}
  BY DEF count_insts
<1> HIDE DEF S, g
<1>5. IsFiniteSet({g[i] : i \in S})
  BY <1>1, <1>3, FiniteImage
<1>6. \A i \in S : g[i].inst \in db.inst /\ g[i].count \in Nat
  BY <1>2, <1>3
<1> QED
  BY <1>4, <1>5, <1>6

\* A block with a count or score.
Annotated(table) ==
  \A b \in DOMAIN table : table[b] \in [count : Nat, score : Nat] /\ \E i \in db.inst : i.block = b
LEMMA CountBlocks ==
  ASSUME Rated
  PROVE  Annotated(count_blocks)
<1> DEFINE rows == {row \in db.inst_annot : OfItsModule(row)}
           Of(b) == {row \in rows : row.inst.block = b}
           B == {row.inst.block : row \in rows}
           total(b) == MapThenSumSet(LAMBDA row : row.count, Of(b))
<1>1. count_blocks = [b \in B |-> [count |-> total(b), score |-> 0]]
  BY DEF count_blocks
<1>2. ASSUME NEW b \in B PROVE total(b) \in Nat
  <2>1. IsFiniteSet(Of(b)) /\ \A row \in Of(b) : row.count \in Nat
    BY FS_Subset DEF Rated
  <2> HIDE DEF Of
  <2> QED
    BY <2>1, RowCounts, Zenon
<1>3. ASSUME NEW b \in B PROVE \E i \in db.inst : i.block = b
  BY DEF Rated
<1> HIDE DEF B, total
<1> QED
  BY <1>1, <1>2, <1>3 DEF Annotated

LEMMA Quotient ==
  ASSUME NEW a \in Nat, NEW n \in Nat, n > 0
  PROVE  a \div n \in Nat
OBVIOUS
LEMMA ScoreBlocks ==
  ASSUME Rated, NEW x \in [DOMAIN db.block_annot -> Nat],
         NEW table, table = [b \in DOMAIN db.block_annot |-> [db.block_annot[b] EXCEPT !.score = x[b]]]
  PROVE  Annotated(table)
<1>1. \A b \in DOMAIN table : table[b] = [db.block_annot[b] EXCEPT !.score = x[b]] /\ b \in DOMAIN db.block_annot
  OBVIOUS
<1>2. \A b \in DOMAIN table : table[b] \in [count : Nat, score : Nat]
  <2> TAKE b \in DOMAIN table
  <2>1. db.block_annot[b] \in [count : Nat, score : Nat] /\ x[b] \in Nat
    BY <1>1 DEF Rated
  <2> QED
    BY <1>1, <2>1
<1> QED
  BY <1>1, <1>2 DEF Annotated, Rated

LEMMA SizeTyped ==
  ASSUME Rated, NEW b, \E i \in db.inst : i.block = b
  PROVE  size(b) \in Nat /\ size(b) > 0
<1> DEFINE S == {i \in db.inst : i.block = b}
<1>1. IsFiniteSet(S) /\ S # {}
  BY FS_Subset DEF Rated
<1>2. Cardinality(S) \in Nat /\ Cardinality(S) # 0
  <2> HIDE DEF S
  <2> QED
    BY <1>1, FS_CardinalityType, FS_EmptySet
<1> QED
  BY <1>2 DEF size

LEMMA RatedNext ==
  ASSUME Rated, Same({"sample", "inst", "inst_annot"}), Annotated(db'.block_annot)
  PROVE  Rated'
BY DEF Rated, Same, Annotated

LEMMA CountedRates ==
  ASSUME Typed, Rated, NEW s, Counting(s), db' = Counted(s)
  PROVE  Rated' /\ Same(LinkColumns) /\ db'.path = db.path
<1>0. /\ Tables(db)
      /\ {"inst_annot", "block_annot", "func_annot", "module_annot", "path", "sample", "inst"} \cup LinkColumns \subseteq Columns
      /\ {"inst_annot", "block_annot", "func_annot", "module_annot", "path", "sample", "inst"} \cap LinkColumns = {}
  BY DEF Typed, Tables, Columns, LinkColumns
<1>1. CASE s[1] = "pre"
  <2>1. db' = [db EXCEPT !["inst_annot"] = {}]
    BY <1>1 DEF Counted
  <2>2. db'["inst_annot"] = {} /\ \A t \in Columns : t # "inst_annot" => db'[t] = db[t]
    BY <1>0, <2>1, OneColumn
  <2>3. db'.inst_annot = {} /\ db'.sample = db.sample /\ db'.inst = db.inst /\ db'.block_annot = db.block_annot
    BY <1>0, <2>2
  <2>4. Rated'
    BY <2>3, FS_EmptySet DEF Rated
  <2> QED
    BY <1>0, <2>2, <2>4 DEF Same
<1>2. CASE s[1] = "count_insts"
  <2> DEFINE x == db.inst_annot \cup count_insts(s[2])
  <2>1. db' = [db EXCEPT !["inst_annot"] = x]
    BY <1>2 DEF Counted
  <2>a. IsFiniteSet(x) /\ \A row \in x : row.inst \in db.inst /\ row.count \in Nat
    BY CountRows, FS_Union DEF Rated
  <2> HIDE DEF x
  <2>2. db'["inst_annot"] = x /\ \A t \in Columns : t # "inst_annot" => db'[t] = db[t]
    BY <1>0, <2>1, OneColumn
  <2>3. db'.inst_annot = x /\ db'.sample = db.sample /\ db'.inst = db.inst /\ db'.block_annot = db.block_annot
    BY <1>0, <2>2
  <2>4. Rated'
    BY <2>a, <2>3 DEF Rated
  <2> QED
    BY <1>0, <2>2, <2>4 DEF Same
<1>3. CASE \E c \in {"block_annot", "func_annot", "module_annot"} : \E x : db' = [db EXCEPT ![c] = x] /\ (c = "block_annot" => Annotated(x))
  <2>b. PICK c \in {"block_annot", "func_annot", "module_annot"} : \E x : db' = [db EXCEPT ![c] = x] /\ (c = "block_annot" => Annotated(x))
    BY <1>3
  <2>1. PICK x : db' = [db EXCEPT ![c] = x] /\ (c = "block_annot" => Annotated(x))
    BY <2>b
  <2>a. c \in Columns /\ Tables(db) /\ db' = [db EXCEPT ![c] = x]
    BY <1>0, <2>1
  <2>2. db'[c] = x /\ \A t \in Columns : t # c => db'[t] = db[t]
    BY <2>a, OneColumn
  <2>3. Same({"sample", "inst", "inst_annot"}) /\ Same(LinkColumns) /\ db'.path = db.path
    BY <1>0, <2>2 DEF Same
  <2>4. Annotated(db.block_annot)
    BY DEF Rated, Annotated
  <2>5. Annotated(db'.block_annot)
    BY <1>0, <2>1, <2>2, <2>4
  <2> QED
    BY <2>3, <2>5, RatedNext
<1>4. CASE s[1] = "clear" /\ s[2] \in {"block_annot", "func_annot", "module_annot"}
  <2>1. db' = [db EXCEPT ![s[2]] = <<>>]
    BY <1>4 DEF Counted
  <2>2. Annotated(<<>>)
    BY DEF Annotated
  <2> QED
    BY <1>3, <1>4, <2>1, <2>2
<1>5. CASE s[1] = "count_blocks"
  <2>1. db' = [db EXCEPT !["block_annot"] = count_blocks]
    BY <1>5 DEF Counted
  <2> QED
    BY <1>3, <2>1, CountBlocks
<1>6. CASE s[1] = "count_funcs"
  <2>1. db' = [db EXCEPT !["func_annot"] = count_funcs]
    BY <1>6 DEF Counted
  <2> QED
    BY <1>3, <2>1
<1>7. CASE s[1] = "count_modules"
  <2>1. db' = [db EXCEPT !["module_annot"] = count_modules]
    BY <1>7 DEF Counted
  <2> QED
    BY <1>3, <2>1
<1> QED
  BY <1>1, <1>2, <1>4, <1>5, <1>6, <1>7 DEF Counting

LEMMA ScoredRates ==
  ASSUME Typed, Rated, NEW s, Scoring(s), db' = Scored(s)
  PROVE  Rated' /\ Same(LinkColumns) /\ db'.path = db.path
<1>0. /\ Tables(db)
      /\ {"inst_annot", "block_annot", "func_annot", "module_annot", "path", "sample", "inst"} \cup LinkColumns \subseteq Columns
      /\ {"inst_annot", "block_annot", "func_annot", "module_annot", "path", "sample", "inst"} \cap LinkColumns = {}
  BY DEF Typed, Tables, Columns, LinkColumns
<1>1. \A b \in DOMAIN db.block_annot :
        /\ db.block_annot[b].count \in Nat /\ db.block_annot[b].score \in Nat
        /\ size(b) \in Nat /\ size(b) > 0
  BY SizeTyped DEF Rated
<1>3. CASE \E c \in {"block_annot", "func_annot", "module_annot"} : \E x : db' = [db EXCEPT ![c] = x] /\ (c = "block_annot" => Annotated(x))
  <2>b. PICK c \in {"block_annot", "func_annot", "module_annot"} : \E x : db' = [db EXCEPT ![c] = x] /\ (c = "block_annot" => Annotated(x))
    BY <1>3
  <2>1. PICK x : db' = [db EXCEPT ![c] = x] /\ (c = "block_annot" => Annotated(x))
    BY <2>b
  <2>a. c \in Columns /\ Tables(db) /\ db' = [db EXCEPT ![c] = x]
    BY <1>0, <2>1
  <2>2. db'[c] = x /\ \A t \in Columns : t # c => db'[t] = db[t]
    BY <2>a, OneColumn
  <2>3. Same({"sample", "inst", "inst_annot"}) /\ Same(LinkColumns) /\ db'.path = db.path
    BY <1>0, <2>2 DEF Same
  <2>4. Annotated(db.block_annot)
    BY DEF Rated, Annotated
  <2>5. Annotated(db'.block_annot)
    BY <1>0, <2>1, <2>2, <2>4
  <2> QED
    BY <2>3, <2>5, RatedNext
<1>4. CASE s[1] = "score_blocks"
  <2> DEFINE v == [b \in DOMAIN db.block_annot |-> Scale * db.block_annot[b].count]
             x == [b \in DOMAIN db.block_annot |-> [db.block_annot[b] EXCEPT !.score = v[b]]]
  <2>1. db' = [db EXCEPT !["block_annot"] = x]
    BY <1>4 DEF Scored
  <2>2. v \in [DOMAIN db.block_annot -> Nat]
    BY <1>1, BoundAssumption
  <2> HIDE DEF v
  <2>3. Annotated(x)
    BY <2>2, ScoreBlocks
  <2> HIDE DEF x
  <2> QED
    BY <1>3, <2>1, <2>3
<1>5. CASE s[1] = "norm_blocks"
  <2> DEFINE v == [b \in DOMAIN db.block_annot |-> db.block_annot[b].score \div size(b)]
             x == [b \in DOMAIN db.block_annot |-> [db.block_annot[b] EXCEPT !.score = v[b]]]
  <2>1. db' = [db EXCEPT !["block_annot"] = x]
    BY <1>5 DEF Scored
  <2>2. v \in [DOMAIN db.block_annot -> Nat]
    BY <1>1, Quotient
  <2> HIDE DEF v
  <2>3. Annotated(x)
    BY <2>2, ScoreBlocks
  <2> HIDE DEF x
  <2> QED
    BY <1>3, <2>1, <2>3
<1>6. CASE s[1] = "score_funcs"
  <2>1. \E x : db' = [db EXCEPT !["func_annot"] = x]
    BY <1>6 DEF Scored
  <2> QED
    BY <1>3, <2>1
<1>7. CASE s[1] = "score_modules"
  <2>1. \E x : db' = [db EXCEPT !["module_annot"] = x]
    BY <1>7 DEF Scored
  <2> QED
    BY <1>3, <2>1
<1> QED
  BY <1>4, <1>5, <1>6, <1>7 DEF Scoring
-----------------------------------------------------------------------------
(* Every step keeps the tables linked and rated.                           *)

LEMMA TablesIdle ==
  ASSUME Linked, Rated, objects' = objects, db' = db, command' # "disasm"
  PROVE  Linked' /\ Rated'
BY Untouched, LinkedKept, RatedKept

LEMMA TablesStartSample ==
  ASSUME Typed, Linked, Rated, NEW pid \in Pids, StartSample(pid)
  PROVE  Linked' /\ Rated'
<1>1. objects' = objects /\ command' = "sample"
  BY DEF StartSample, Begin
<1>2. PICK x, y : db' = [db EXCEPT !["tables"] = x, !["map"] = y]
  BY DEF StartSample
<1>3. \A t \in Columns : t \notin {"tables", "map"} => db'[t] = db[t]
  BY <1>2 DEF Typed
<1>4. \A t \in LinkColumns \cup RateColumns : t \in Columns /\ t \notin {"tables", "map"}
  BY DEF LinkColumns, RateColumns, Columns
<1>5. Same(LinkColumns) /\ Same(RateColumns)
  BY <1>3, <1>4 DEF Same
<1> QED
  BY <1>1, <1>5, LinkedKept, RatedKept

LEMMA TablesSample ==
  ASSUME Typed, Linked, Rated, NEW m, NEW f, NEW i, Sample(m, f, i)
  PROVE  Linked' /\ Rated'
<1>1. objects' = objects /\ command' = "sample"
  BY DEF Sample
<1>2. PICK r : db' = [db EXCEPT !["sample"] = Append(db.sample, r)]
  BY DEF Sample
<1> DEFINE x == Append(db.sample, r)
<1>3. db' = [db EXCEPT !["sample"] = x] /\ Tables(db)
  BY <1>2 DEF Typed, Tables
<1>4. "sample" \in Columns \ LinkColumns /\ {"sample", "inst", "inst_annot", "block_annot"} \subseteq Columns
  BY DEF Columns, LinkColumns
<1>5. x \in Seq(Range(db.sample) \cup {r})
  BY DEF Rated
<1>6. IsSeq(x)
  <2> HIDE DEF x
  <2> QED
    BY <1>5, Sequence
<1> HIDE DEF x
<1>7. Same(LinkColumns)
  BY <1>3, <1>4, NoLink
<1>8. db'["sample"] = x /\ \A t \in Columns : t # "sample" => db'[t] = db[t]
  BY <1>3, <1>4, OneColumn
<1>9. db'.sample = x /\ db'.inst = db.inst /\ db'.inst_annot = db.inst_annot /\ db'.block_annot = db.block_annot
  BY <1>4, <1>8
<1>10. Rated'
  BY <1>6, <1>9, Zenon DEF Rated, IsSeq
<1> QED
  BY <1>1, <1>7, <1>10, LinkedKept

LEMMA TablesStartDisasm ==
  ASSUME Typed, Linked, Rated, NEW ms, StartDisasm(ms)
  PROVE  Linked' /\ Rated'
<1>1. objects' = objects
  BY DEF StartDisasm
<1>2. \E x : db' = [db EXCEPT !["tables"] = x]
  BY DEF StartDisasm
<1>3. "tables" \in Columns \ LinkColumns /\ "tables" \in Columns \ RateColumns
  BY DEF Columns, LinkColumns, RateColumns
<1>4. Same(LinkColumns) /\ Same(RateColumns)
  BY <1>2, <1>3, NoLink, NoRate
<1>5. \A s \in Range(todo') : s[1] = "module"
  BY DEF StartDisasm, Range
<1> QED
  BY <1>1, <1>4, <1>5, LinkedKept, RatedKept

LEMMA TablesDisasm ==
  ASSUME Typed, Linked, Rated, Statement, command = "disasm"
  PROVE  Linked' /\ Rated' /\ db'.path = db.path /\ db.func \subseteq db'.func
<1> DEFINE s == Head(todo)
           T == Tail(todo)
<1>1. IsSeq(todo) /\ todo # <<>>
  BY DEF Typed, Listed, IsSeq, Statement
<1>2. objects' = objects /\ db' = Saved(s) /\ todo' = AfterSaved(s) \o T
  BY DEF Statement, Execute, AfterThat
<1>3. IsSeq(T) /\ Range(todo) = {s} \cup Range(T)
  BY <1>1, Rest
<1> HIDE DEF s, T
<1>4. Disassembling(s)
  BY <1>1, <1>3 DEF Typed, Listed, OfCommand
<1>5. IsSeq(AfterSaved(s)) /\ \A t \in Range(AfterSaved(s)) : t[1] # "module" /\ t[2] = s[2]
  BY <1>4, AfterTyped
<1>6. Range(todo') = Range(AfterSaved(s)) \cup Range(T)
  BY <1>2, <1>3, <1>5, Then
<1>7. Adds(s)
  BY <1>2, <1>4, SavedAdds
<1>8. \A t \in {s} \cup Range(T) : t[1] = "module" \/ t[2] \in db.module
  BY <1>3 DEF Linked
<1>9. s[2] \in db'.module
  BY <1>7, <1>8 DEF Adds
<1>10. \A t \in Range(todo') : t[1] = "module" \/ t[2] \in db'.module
  BY <1>5, <1>6, <1>7, <1>8, <1>9 DEF Adds
<1>11. Modules' = Modules /\ (\A m : Functions(m)' = Functions(m)) /\ \A m, f : get_edges(m, f)' = get_edges(m, f)
  BY <1>2, Unmoved
<1>12. \A g \in db'.func : \E m \in db'.module : \E f \in Functions(m) : g = <<m, f>>
  <2> TAKE g \in db'.func
  <2>1. CASE g \in db.func
    BY <1>7, <2>1 DEF Linked, Adds
  <2>2. CASE \E m \in Modules : \E f \in Functions(m) : s = <<"func", m, f>> /\ g = <<m, f>>
    BY <1>9, <2>2
  <2> QED
    BY <1>7, <2>1, <2>2 DEF Adds
<1>13. \A e \in db'.edge : \E m \in Modules : \E f \in Functions(m) : e \in get_edges(m, f)
  BY <1>7 DEF Linked, Adds
<1>14. Linked'
  BY <1>10, <1>11, <1>12, <1>13 DEF Linked
<1>15. /\ db'.sample = db.sample /\ db'.inst_annot = db.inst_annot /\ db'.block_annot = db.block_annot /\ db'.path = db.path
       /\ db.inst \subseteq db'.inst /\ (IsFiniteSet(db.inst) => IsFiniteSet(db'.inst)) /\ db.func \subseteq db'.func
  BY <1>7 DEF Adds, Same
<1>16. Rated'
  BY <1>15 DEF Rated
<1> QED
  BY <1>14, <1>15, <1>16

LEMMA TablesOther ==
  ASSUME Typed, Linked, Rated, Statement, command # "disasm"
  PROVE  Linked' /\ Rated' /\ Same(LinkColumns) /\ (command # "search" => db'.path = db.path)
<1> DEFINE s == Head(todo)
<1>1. IsSeq(todo) /\ todo # <<>>
  BY DEF Typed, Listed, IsSeq, Statement
<1>2. objects' = objects /\ db' = Execute(s) /\ command' = command
  BY DEF Statement
<1>3. command \in {"count", "annotate", "search"}
  BY <1>1, Idle DEF Typed, Commands
<1>4. OfCommand(s)
  BY <1>1, Rest DEF Typed, Listed
<1> HIDE DEF s
<1>5. CASE command = "count"
  <2>1. Counting(s) /\ db' = Counted(s)
    BY <1>2, <1>4, <1>5 DEF OfCommand, Execute
  <2> QED
    BY <1>2, <1>5, <2>1, CountedRates, LinkedKept
<1>6. CASE command = "annotate"
  <2>1. Scoring(s) /\ db' = Scored(s)
    BY <1>2, <1>4, <1>6 DEF OfCommand, Execute
  <2> QED
    BY <1>2, <1>6, <2>1, ScoredRates, LinkedKept
<1>7. CASE command = "search"
  <2>1. Storing(s) /\ db' = Written(s)
    BY <1>2, <1>4, <1>7 DEF OfCommand, Execute
  <2>2. db' = db \/ \E x : db' = [db EXCEPT !["path"] = x]
    <3>1. CASE s[1] = "path"
      BY <2>1, <3>1 DEF Written
    <3>2. CASE s[1] = "path_node"
      <4>1. db' = [db EXCEPT !["path"] = [db.path EXCEPT ![Len(db.path)] = s[2]]]
        BY <2>1, <3>2 DEF Written
      <4> QED
        BY <4>1
    <3>3. CASE s[1] = "end"
      BY <2>1, <3>3 DEF Written
    <3> QED
      BY <2>1, <3>1, <3>2, <3>3 DEF Storing
  <2>3. "path" \in Columns \ LinkColumns /\ "path" \in Columns \ RateColumns
    BY DEF Columns, LinkColumns, RateColumns
  <2>4. Same(LinkColumns) /\ Same(RateColumns)
    BY <2>2, <2>3, NoLink, NoRate, Untouched
  <2> QED
    BY <1>2, <1>7, <2>4, LinkedKept, RatedKept
<1> QED
  BY <1>3, <1>5, <1>6, <1>7

LEMMA TablesNext ==
  ASSUME DisasmInv, Linked, Rated, [Next]_vars
  PROVE  Linked' /\ Rated'
<1>0. Typed
  BY DEF DisasmInv
<1>1. CASE UNCHANGED vars
  <2>1. objects' = objects /\ db' = db /\ command' = command /\ todo' = todo
    BY <1>1 DEF vars
  <2> QED
    BY <2>1, Untouched, LinkedKept, RatedKept DEF Linked
<1>2. ASSUME NEW pid \in Pids, StartSample(pid) PROVE Linked' /\ Rated'
  BY <1>0, <1>2, TablesStartSample
<1>3. CASE \E m \in Modules : \E f \in Functions(m) : \E i \in DOMAIN Code(m, f) : Sample(m, f, i)
  BY <1>0, <1>3, TablesSample
<1>4. CASE EndSample
  <2>1. objects' = objects /\ db' = db /\ command' # "disasm"
    BY <1>4 DEF EndSample
  <2> QED
    BY <2>1, TablesIdle
<1>5. CASE \E ms \in {{}} \cup {{m} : m \in Modules} : StartDisasm(ms)
  BY <1>0, <1>5, TablesStartDisasm
<1>6. CASE StartCount
  <2>1. objects' = objects /\ db' = db /\ command' # "disasm"
    BY <1>6 DEF StartCount, Begin
  <2> QED
    BY <2>1, TablesIdle
<1>7. CASE StartAnnotate
  <2>1. objects' = objects /\ db' = db /\ command' # "disasm"
    BY <1>7 DEF StartAnnotate, Begin
  <2> QED
    BY <2>1, TablesIdle
<1>8. CASE \E scope \in form.scopes : StartSearch(scope)
  <2>1. objects' = objects /\ db' = db /\ command' # "disasm"
    BY <1>8 DEF StartSearch, Begin
  <2> QED
    BY <2>1, TablesIdle
<1>9. CASE SearchNext
  <2>1. objects' = objects /\ db' = db /\ command' # "disasm"
    BY <1>9 DEF SearchNext
  <2> QED
    BY <2>1, TablesIdle
<1>10. CASE SearchEnd
  <2>1. objects' = objects /\ db' = db /\ command' # "disasm"
    BY <1>10 DEF SearchEnd
  <2> QED
    BY <2>1, TablesIdle
<1>11. CASE Statement
  BY <1>0, <1>11, TablesDisasm, TablesOther
<1>12. CASE EndCommand
  <2>1. objects' = objects /\ db' = db /\ command' # "disasm"
    BY <1>12 DEF EndCommand
  <2> QED
    BY <2>1, TablesIdle
<1>13. CASE Kill
  <2>1. objects' = objects /\ db' = db /\ command' # "disasm"
    BY <1>13 DEF Kill
  <2> QED
    BY <2>1, TablesIdle
<1>14. CASE Terminated
  BY <1>1, <1>14 DEF Terminated
<1> QED
  BY <1>1, <1>2, <1>3, <1>4, <1>5, <1>6, <1>7, <1>8, <1>9, <1>10, <1>11, <1>12, <1>13, <1>14 DEF Next
-----------------------------------------------------------------------------
(* Paths along the edges of a function.                                    *)

LEMMA EdgesIn ==
  ASSUME NEW insts, Assembled(insts), NEW e \in Edges(insts)
  PROVE  /\ e[1] \in DOMAIN link_blocks(insts) /\ e[2] \in DOMAIN link_blocks(insts) /\ e = <<e[1], e[2]>>
         /\ e[1] \in Nat /\ e[2] \in Nat
<1>1. e \in Heads(insts) \X Heads(insts) /\ e[1] # Max(Heads(insts))
  BY DEF Edges
<1>2. e[1] \notin Padding(insts) /\ e[2] \notin Padding(insts)
  BY <1>1 DEF Padding
<1>3. DOMAIN link_blocks(insts) = Heads(insts) \ Padding(insts)
  BY DEF link_blocks
<1>4. Heads(insts) \subseteq 1 .. Len(insts) /\ Len(insts) \in Nat
  BY HeadsOf, PlacesOf DEF Places
<1> QED
  BY <1>1, <1>2, <1>3, <1>4

Blocks(m, f) == DOMAIN Graph(m, f)
LEMMA BlocksOf ==
  ASSUME Typed, NEW m \in Modules, NEW f \in Functions(m)
  PROVE  /\ IsFiniteSet(Blocks(m, f)) /\ Blocks(m, f) \subseteq Nat /\ Blocks(m, f) # {}
         /\ Max(Blocks(m, f)) \in Blocks(m, f) /\ Min(Blocks(m, f)) \in Blocks(m, f)
<1> DEFINE insts == Code(m, f)
<1>1. Assembled(insts) /\ 1 \in Blocks(m, f)
  BY GraphOf DEF Blocks
<1>2. Blocks(m, f) \subseteq 1 .. Len(insts) /\ Len(insts) \in Nat
  BY <1>1, HeadsOf, PlacesOf DEF Places, Blocks, Graph, link_blocks
<1>3. IsFiniteSet(Blocks(m, f))
  <2>1. IsFiniteSet(1 .. Len(insts))
    BY <1>2, FS_Interval
  <2> QED
    BY <1>2, <2>1, FS_Subset
<1>4. Blocks(m, f) \subseteq Nat /\ Blocks(m, f) # {} /\ Blocks(m, f) \in SUBSET (1 .. Len(insts))
  BY <1>1, <1>2
<1>5. IsGreatest(Max(Blocks(m, f)), Blocks(m, f)) /\ IsLeast(Min(Blocks(m, f)), Blocks(m, f))
  BY <1>2, <1>4, MaxOf, MinOf
<1> QED
  BY <1>3, <1>4, <1>5 DEF IsGreatest, IsLeast

\* A walk is no longer than there are blocks, since it comes to none twice.
Walk(m, f, p) ==
  /\ p \in Seq(Blocks(m, f)) /\ p # <<>> /\ IsInjective(p)
  /\ \A k \in 1 .. Len(p) - 1 : <<p[k], p[k + 1]>> \in Edges(Code(m, f))
LEMMA WalkOf ==
  ASSUME Typed, NEW m \in Modules, NEW f \in Functions(m), NEW p
  PROVE  p \in Walks(m, f) <=> Walk(m, f, p)
<1> DEFINE D == Blocks(m, f)
           n == Cardinality(D)
<1>1. Walks(m, f) = {q \in SeqOf(D, n) \ {<<>>} :
                       /\ IsInjective(q)
                       /\ \A k \in 1 .. Len(q) - 1 : <<q[k], q[k + 1]>> \in Edges(Code(m, f))}
  BY DEF Walks, Blocks
<1>2. IsFiniteSet(D) /\ n \in Nat
  BY BlocksOf, FS_CardinalityType
<1>3. ASSUME p \in SeqOf(D, n) PROVE p \in Seq(D)
  <2>1. PICK i \in 0 .. n : p \in [1 .. i -> D]
    BY <1>3 DEF SeqOf
  <2> QED
    BY <1>2, <2>1
<1>4. ASSUME p \in Seq(D), IsInjective(p) PROVE p \in SeqOf(D, n)
  <2>1. Len(p) \in Nat /\ p \in [1 .. Len(p) -> D]
    BY <1>4
  <2>2. p \in Injection(1 .. Len(p), D)
    BY <1>4, <2>1 DEF Injection, IsInjective
  <2>a. Cardinality(1 .. Len(p)) = Len(p)
    BY <2>1, FS_Interval
  <2>b. Cardinality(1 .. Len(p)) <= n
    BY <1>2, <2>2, FS_Injection
  <2>3. Cardinality(1 .. Len(p)) <= n /\ Cardinality(1 .. Len(p)) = Len(p)
    BY <2>a, <2>b
  <2>4. Len(p) \in 0 .. n
    BY <1>2, <2>1, <2>3
  <2> QED
    BY <2>1, <2>4 DEF SeqOf
<1> QED
  BY <1>1, <1>3, <1>4 DEF Walk

LEMMA WalkLast ==
  ASSUME NEW m, NEW f, NEW p, Walk(m, f, p)
  PROVE  /\ Len(p) \in Nat /\ 1 \in DOMAIN p /\ Len(p) \in DOMAIN p /\ DOMAIN p = 1 .. Len(p)
         /\ Last(p) = p[Len(p)] /\ Last(p) \in Blocks(m, f) /\ p[1] \in Blocks(m, f)
BY DEF Walk, Last

\* A block on a walk, and one more.
LEMMA FirstBlock ==
  ASSUME NEW m, NEW f, NEW k \in Blocks(m, f)
  PROVE  Walk(m, f, <<k>>)
BY DEF Walk, IsInjective
LEMMA OneMore ==
  ASSUME NEW m, NEW f, NEW p, Walk(m, f, p), NEW k \in Blocks(m, f), k \notin Range(p),
         <<Last(p), k>> \in Edges(Code(m, f))
  PROVE  /\ Walk(m, f, Append(p, k)) /\ Append(p, k)[1] = p[1] /\ Last(Append(p, k)) = k
<1> DEFINE q == Append(p, k)
           n == Len(p)
<1>1. /\ n \in Nat /\ n >= 1 /\ DOMAIN p = 1 .. n /\ q \in Seq(Blocks(m, f)) /\ Len(q) = n + 1 /\ DOMAIN q = 1 .. n + 1
      /\ (\A i \in 1 .. n : q[i] = p[i]) /\ q[n + 1] = k
  BY WalkLast DEF Walk
<1> HIDE DEF q, n
<1>2. \A i \in 1 .. n : p[i] # k
  BY <1>1 DEF Range
<1>3. IsInjective(q)
  <2> SUFFICES ASSUME NEW a \in 1 .. n + 1, NEW b \in 1 .. n + 1, q[a] = q[b] PROVE a = b
    BY <1>1 DEF IsInjective
  <2>1. CASE a = n + 1 \/ b = n + 1
    BY <1>1, <1>2, <2>1
  <2>2. CASE a # n + 1 /\ b # n + 1
    <3>1. a \in 1 .. n /\ b \in 1 .. n
      BY <1>1, <2>2
    <3>2. p[a] = p[b]
      BY <1>1, <3>1
    <3> QED
      BY <1>1, <3>1, <3>2 DEF Walk, IsInjective
  <2> QED
    BY <2>1, <2>2
<1>4. ASSUME NEW i \in 1 .. Len(q) - 1 PROVE <<q[i], q[i + 1]>> \in Edges(Code(m, f))
  <2>1. i \in 1 .. n
    BY <1>1
  <2>2. CASE i = n
    <3>1. q[i] = Last(p) /\ q[i + 1] = k
      BY <1>1, <2>2 DEF Last, n
    <3> QED
      BY <3>1
  <2>3. CASE i # n
    <3>1. i \in 1 .. n - 1 /\ i + 1 \in 1 .. n
      BY <1>1, <2>1, <2>3
    <3>2. q[i] = p[i] /\ q[i + 1] = p[i + 1]
      BY <1>1, <2>1, <3>1
    <3>3. <<p[i], p[i + 1]>> \in Edges(Code(m, f))
      BY <3>1 DEF Walk, n
    <3> QED
      BY <3>2, <3>3
  <2> QED
    BY <2>2, <2>3
<1>5. q # <<>> /\ q[1] = p[1] /\ Last(q) = k
  BY <1>1 DEF Last
<1> QED
  BY <1>1, <1>3, <1>4, <1>5 DEF Walk, q

LEMMA ClosingIn ==
  ASSUME Typed, NEW m \in Modules, NEW f \in Functions(m), NEW e \in Closing(m, f)
  PROVE  e = <<e[1], e[2]>> /\ e[1] \in Blocks(m, f) /\ e[2] \in Blocks(m, f)
<1>1. Assembled(Code(m, f))
  BY GraphOf
<1>2. Max(Blocks(m, f)) \in Blocks(m, f) /\ Min(Blocks(m, f)) \in Blocks(m, f)
  BY BlocksOf
<1>3. e \in Edges(Code(m, f)) \/ e = <<Max(Blocks(m, f)), Min(Blocks(m, f))>>
  BY DEF Closing, Blocks
<1>4. CASE e \in Edges(Code(m, f))
  BY <1>1, <1>4, EdgesIn DEF Blocks, Graph
<1>5. CASE e = <<Max(Blocks(m, f)), Min(Blocks(m, f))>>
  BY <1>2, <1>5
<1> QED
  BY <1>3, <1>4, <1>5
-----------------------------------------------------------------------------
(* The blocks and edges that a search reads.                               *)

Row(m, f, e) == [from |-> <<m, f, e[1]>>, to |-> <<m, f, e[2]>>]
Whole(g, m, f) ==
  /\ m \in Modules /\ f \in Functions(m) /\ g = <<m, f>>
  /\ blocksOf(g) = {<<m, f, k>> : k \in Blocks(m, f)}
  /\ {e \in db.edge : FuncOf(e.from) = g} = {Row(m, f, e) : e \in Edges(Code(m, f))}
LEMMA WholeOf ==
  ASSUME DisasmInv, Linked, command # "disasm", NEW g \in db.func, g[1] \notin history.partial
  PROVE  \E m \in Modules : \E f \in Functions(m) : Whole(g, m, f)
<1>1. PICK m \in db.module : \E f \in Functions(m) : g = <<m, f>>
  BY DEF Linked
<1>2. PICK f \in Functions(m) : g = <<m, f>>
  BY <1>1
<1>3. m \in Complete
  BY <1>2 DEF Complete
<1>4. /\ m \in Modules
      /\ \A k \in Blocks(m, f) : <<m, f, k>> \in db.block
      /\ get_edges(m, f) \subseteq db.edge
  BY <1>3, WholeModule DEF Blocks
<1>5. blocksOf(g) = {<<m, f, k>> : k \in Blocks(m, f)}
  <2>1. ASSUME NEW b \in blocksOf(g) PROVE b \in {<<m, f, k>> : k \in Blocks(m, f)}
    <3>1. b \in db.block /\ FuncOf(b) = g
      BY DEF blocksOf
    <3>2. PICK n \in Modules : \E h \in Functions(n) : \E k \in Blocks(n, h) : b = <<n, h, k>>
      BY <3>1 DEF DisasmInv, Sound, Blocks
    <3>3. PICK h \in Functions(n) : \E k \in Blocks(n, h) : b = <<n, h, k>>
      BY <3>2
    <3>4. n = m /\ h = f
      BY <1>2, <3>1, <3>3 DEF FuncOf
    <3> QED
      BY <3>3, <3>4
  <2>2. ASSUME NEW k \in Blocks(m, f) PROVE <<m, f, k>> \in blocksOf(g)
    BY <1>2, <1>4 DEF blocksOf, FuncOf
  <2> QED
    BY <2>1, <2>2
<1>6. {e \in db.edge : FuncOf(e.from) = g} = {Row(m, f, e) : e \in Edges(Code(m, f))}
  <2>1. ASSUME NEW r \in db.edge, FuncOf(r.from) = g PROVE r \in {Row(m, f, e) : e \in Edges(Code(m, f))}
    <3>1. PICK n \in Modules : \E h \in Functions(n) : r \in get_edges(n, h)
      BY DEF Linked
    <3>2. PICK h \in Functions(n) : r \in get_edges(n, h)
      BY <3>1
    <3>3. PICK e \in Edges(Code(n, h)) : r = Row(n, h, e)
      BY <3>2 DEF get_edges, Row
    <3>4. n = m /\ h = f
      BY <1>2, <2>1, <3>3 DEF FuncOf, Row
    <3> QED
      BY <3>3, <3>4
  <2>2. ASSUME NEW e \in Edges(Code(m, f)) PROVE Row(m, f, e) \in db.edge /\ FuncOf(Row(m, f, e).from) = g
    BY <1>2, <1>4 DEF get_edges, Row, FuncOf
  <2> QED
    BY <2>1, <2>2
<1> QED
  BY <1>2, <1>4, <1>5, <1>6 DEF Whole

LEMMA NextOf ==
  ASSUME NEW g, NEW m, NEW f, Whole(g, m, f), NEW k, NEW v
  PROVE  v \in next(<<m, f, k>>) <=> \E h : v = <<m, f, h>> /\ <<k, h>> \in Edges(Code(m, f))
<1>1. ASSUME v \in next(<<m, f, k>>) PROVE \E h : v = <<m, f, h>> /\ <<k, h>> \in Edges(Code(m, f))
  <2>1. PICK r \in db.edge : r.from = <<m, f, k>> /\ v = r.to
    BY <1>1 DEF next
  <2>2. FuncOf(r.from) = g
    BY <2>1 DEF FuncOf, Whole
  <2>3. PICK e \in Edges(Code(m, f)) : r = Row(m, f, e)
    BY <2>2 DEF Whole
  <2>4. e = <<e[1], e[2]>>
    BY DEF Edges
  <2> QED
    BY <2>1, <2>3, <2>4 DEF Row
<1>2. ASSUME NEW h, v = <<m, f, h>>, <<k, h>> \in Edges(Code(m, f)) PROVE v \in next(<<m, f, k>>)
  <2>1. Row(m, f, <<k, h>>) \in db.edge
    BY <1>2 DEF Whole
  <2> QED
    BY <1>2, <2>1 DEF next, Row
<1> QED
  BY <1>1, <1>2

LEMMA BackEdges ==
  ASSUME NEW g, NEW m, NEW f, Whole(g, m, f)
  PROVE  backedges(g) = {Row(m, f, e) : e \in Closing(m, f)}
<1> DEFINE back == {e \in Edges(Code(m, f)) : e[2] <= e[1]}
           D == Blocks(m, f)
           numbers == {b[3] : b \in blocksOf(g)}
<1>1. get_backedges(g) = {Row(m, f, e) : e \in back}
  <2>1. get_backedges(g) = {r \in {e \in db.edge : FuncOf(e.from) = g} : r.to[3] <= r.from[3]}
    BY DEF get_backedges
  <2>2. {e \in db.edge : FuncOf(e.from) = g} = {Row(m, f, e) : e \in Edges(Code(m, f))}
    BY DEF Whole
  <2>3. \A e : Row(m, f, e).to[3] = e[2] /\ Row(m, f, e).from[3] = e[1]
    BY DEF Row
  <2> QED
    BY <2>1, <2>2, <2>3
<1>2. numbers = D
  <2>1. blocksOf(g) = {<<m, f, k>> : k \in D}
    BY DEF Whole
  <2>2. ASSUME NEW k \in D PROVE k \in numbers
    <3>1. <<m, f, k>> \in blocksOf(g) /\ <<m, f, k>>[3] = k
      BY <2>1
    <3> QED
      BY <3>1
  <2>3. ASSUME NEW k \in numbers PROVE k \in D
    BY <2>1
  <2> QED
    BY <2>2, <2>3
<1>3. make_loop(g) = Row(m, f, <<Max(D), Min(D)>>)
  <2>1. make_loop(g) = [from |-> <<g[1], g[2], Max(numbers)>>, to |-> <<g[1], g[2], Min(numbers)>>]
    BY DEF make_loop
  <2> HIDE DEF numbers, D
  <2> QED
    BY <1>2, <2>1 DEF Row, Whole
<1>4. Closing(m, f) = back \cup (IF back = {} \/ form.fullfunc THEN {<<Max(D), Min(D)>>} ELSE {})
  BY DEF Closing, Blocks
<1>5. get_backedges(g) = {} <=> back = {}
  BY <1>1
<1>6. backedges(g) = get_backedges(g) \cup (IF get_backedges(g) = {} \/ form.fullfunc THEN {make_loop(g)} ELSE {})
  BY DEF backedges
<1> HIDE DEF back, D
<1>7. CASE back = {} \/ form.fullfunc
  <2>1. backedges(g) = {Row(m, f, e) : e \in back} \cup {Row(m, f, <<Max(D), Min(D)>>)}
    BY <1>1, <1>3, <1>5, <1>6, <1>7, Zenon
  <2>2. Closing(m, f) = back \cup {<<Max(D), Min(D)>>}
    BY <1>4, <1>7, Zenon
  <2> QED
    BY <2>1, <2>2
<1>8. CASE ~(back = {} \/ form.fullfunc)
  <2>1. backedges(g) = {Row(m, f, e) : e \in back} \cup {}
    BY <1>1, <1>5, <1>6, <1>8, Zenon
  <2>2. Closing(m, f) = back \cup {}
    BY <1>4, <1>8, Zenon
  <2> QED
    BY <2>1, <2>2
<1> QED
  BY <1>7, <1>8
-----------------------------------------------------------------------------
(* The first blocks of a walk, as nodes of a path.                         *)

LEMMA FirstOf ==
  ASSUME NEW S, NEW p \in Seq(S), NEW k \in 1 .. Len(p)
  PROVE  /\ SubSeq(p, 1, k) \in Seq(S) /\ SubSeq(p, 1, k) # <<>> /\ Len(SubSeq(p, 1, k)) = k
         /\ \A i \in 1 .. k : SubSeq(p, 1, k)[i] = p[i]
         /\ Last(SubSeq(p, 1, k)) = p[k]
<1>1. /\ SubSeq(p, 1, k) \in Seq(S) /\ Len(SubSeq(p, 1, k)) = k
      /\ \A i \in 1 .. k : SubSeq(p, 1, k)[i] = p[i]
  OBVIOUS
<1>2. SubSeq(p, 1, k) # <<>> /\ Last(SubSeq(p, 1, k)) = p[k]
  BY <1>1 DEF Last
<1> QED
  BY <1>1, <1>2
LEMMA SameSeq ==
  ASSUME NEW S, NEW p \in Seq(S), NEW q \in Seq(S), Len(p) = Len(q), \A i \in 1 .. Len(p) : p[i] = q[i]
  PROVE  p = q
<1>1. p = [i \in 1 .. Len(p) |-> p[i]] /\ q = [i \in 1 .. Len(q) |-> q[i]]
  OBVIOUS
<1> QED
  BY <1>1
LEMMA FirstMore ==
  ASSUME NEW S, NEW p \in Seq(S), NEW k \in 1 .. Len(p), k < Len(p)
  PROVE  k + 1 \in 1 .. Len(p) /\ SubSeq(p, 1, k + 1) = Append(SubSeq(p, 1, k), p[k + 1])
<1> DEFINE a == SubSeq(p, 1, k + 1)
           b == Append(SubSeq(p, 1, k), p[k + 1])
<1>1. k + 1 \in 1 .. Len(p) /\ p[k + 1] \in S
  OBVIOUS
<1>2. a \in Seq(S) /\ Len(a) = k + 1 /\ \A i \in 1 .. k + 1 : a[i] = p[i]
  BY <1>1, FirstOf
<1>3. /\ SubSeq(p, 1, k) \in Seq(S) /\ Len(SubSeq(p, 1, k)) = k
      /\ \A i \in 1 .. k : SubSeq(p, 1, k)[i] = p[i]
  BY FirstOf
<1>4. b \in Seq(S) /\ Len(b) = k + 1 /\ \A i \in 1 .. k + 1 : b[i] = p[i]
  BY <1>1, <1>3
<1> HIDE DEF a, b
<1>5. a = b
  BY <1>2, <1>4, SameSeq
<1> QED
  BY <1>1, <1>5 DEF a, b
LEMMA AllOf ==
  ASSUME NEW S, NEW p \in Seq(S), p # <<>>
  PROVE  Len(p) \in 1 .. Len(p) /\ SubSeq(p, 1, Len(p)) = p /\ 1 \in 1 .. Len(p) /\ SubSeq(p, 1, 1) = <<p[1]>>
<1>1. Len(p) \in 1 .. Len(p) /\ 1 \in 1 .. Len(p) /\ p[1] \in S
  OBVIOUS
<1>2. SubSeq(p, 1, Len(p)) = p
  BY <1>1, FirstOf, SameSeq
<1>3. SubSeq(p, 1, 1) = <<p[1]>>
  <2>1. <<p[1]>> \in Seq(S) /\ Len(<<p[1]>>) = 1 /\ <<p[1]>>[1] = p[1]
    BY <1>1
  <2>2. SubSeq(p, 1, 1) \in Seq(S) /\ Len(SubSeq(p, 1, 1)) = 1 /\ SubSeq(p, 1, 1)[1] = p[1]
    BY <1>1, FirstOf
  <2> DEFINE a == SubSeq(p, 1, 1)
             b == <<p[1]>>
  <2>3. \A i \in 1 .. 1 : i = 1
    OBVIOUS
  <2>4. b \in Seq(S) /\ Len(b) = 1 /\ b[1] = p[1] /\ a \in Seq(S) /\ Len(a) = 1 /\ a[1] = p[1]
    BY <2>1, <2>2
  <2> HIDE DEF a, b
  <2>5. Len(a) = Len(b) /\ \A i \in 1 .. Len(a) : a[i] = b[i]
    BY <2>3, <2>4
  <2>6. a = b
    BY <2>4, <2>5, SameSeq
  <2> QED
    BY <2>6 DEF a, b
<1> QED
  BY <1>1, <1>2, <1>3

LEMMA NodesIn ==
  ASSUME NEW g, NEW S, NEW p \in Seq(S), p # <<>>
  PROVE  /\ NodesOf(g, p) # <<>> /\ IsSeq(NodesOf(g, p)) /\ FuncOf(NodesOf(g, p)[1]) = <<g[1], g[2]>>
         /\ Last(NodesOf(g, p)) = <<g[1], g[2], Last(p)>>
         /\ Range(NodesOf(g, p)) = BlocksAt(g, Range(p))
<1> DEFINE q == NodesOf(g, p)
           n == Len(p)
           T == {<<g[1], g[2], x>> : x \in S}
<1>1. /\ n \in Nat /\ n >= 1 /\ DOMAIN p = 1 .. n /\ q = [k \in 1 .. n |-> <<g[1], g[2], p[k]>>]
      /\ \A k \in 1 .. n : p[k] \in S
  BY DEF NodesOf
<1> HIDE DEF q, n
<1>a. \A k \in 1 .. n : q[k] = <<g[1], g[2], p[k]>>
  BY <1>1
<1>b. q \in [1 .. n -> T]
  BY <1>1
<1> HIDE DEF T
<1>c. q \in Seq(T) /\ Len(q) = n
  BY <1>1, <1>b
<1>e. DOMAIN q = 1 .. n
  BY <1>b
<1>d. q # <<>>
  <2>1. 1 \in DOMAIN q
    BY <1>1, <1>e
  <2>2. DOMAIN <<>> = {}
    OBVIOUS
  <2> QED
    BY <2>1, <2>2, Zenon
<1>2. q \in Seq(T) /\ Len(q) = n /\ DOMAIN q = 1 .. n /\ q # <<>>
  BY <1>c, <1>d, <1>e
<1>3. IsSeq(q)
  BY <1>2, Sequence
<1>4. Last(p) = p[n] /\ Last(q) = q[n] /\ n \in 1 .. n /\ 1 \in 1 .. n
  BY <1>1, <1>2 DEF Last, n
<1>5. Range(q) = BlocksAt(g, Range(p))
  <2>1. Range(q) = {q[k] : k \in 1 .. n} /\ Range(p) = {p[k] : k \in 1 .. n}
    BY <1>1, <1>2 DEF Range
  <2>2. BlocksAt(g, Range(p)) = {<<g[1], g[2], p[k]>> : k \in 1 .. n}
    BY <2>1, Zenon DEF BlocksAt
  <2> QED
    BY <1>a, <2>1, <2>2, Zenon
<1>6. FuncOf(q[1]) = <<g[1], g[2]>>
  BY <1>a, <1>4 DEF FuncOf
<1>7. Last(q) = <<g[1], g[2], Last(p)>>
  BY <1>a, <1>4
<1> QED
  BY <1>2, <1>3, <1>5, <1>6, <1>7 DEF q
LEMMA NodesMore ==
  ASSUME NEW g, NEW S, NEW p \in Seq(S), NEW k \in S
  PROVE  NodesOf(g, Append(p, k)) = Append(NodesOf(g, p), <<g[1], g[2], k>>)
<1> DEFINE n == Len(p)
           a == Append(p, k)
           q == NodesOf(g, p)
           T == {<<g[1], g[2], x>> : x \in S}
           u == NodesOf(g, a)
           v == Append(q, <<g[1], g[2], k>>)
<1>1. /\ n \in Nat /\ DOMAIN p = 1 .. n /\ a \in Seq(S) /\ Len(a) = n + 1 /\ DOMAIN a = 1 .. n + 1
      /\ (\A i \in 1 .. n : a[i] = p[i] /\ p[i] \in S) /\ a[n + 1] = k
  OBVIOUS
<1> HIDE DEF n, a
<1>2. q = [i \in 1 .. n |-> <<g[1], g[2], p[i]>>] /\ u = [i \in 1 .. n + 1 |-> <<g[1], g[2], a[i]>>]
  BY <1>1 DEF NodesOf
<1> HIDE DEF q, u
<1>a. \A i \in 1 .. n + 1 : i \in 1 .. n \/ i = n + 1
  BY <1>1
<1>b. \A i \in 1 .. n + 1 : a[i] \in S
  BY <1>1, <1>a
<1>c. q \in [1 .. n -> T] /\ u \in [1 .. n + 1 -> T]
  BY <1>1, <1>2, <1>b
<1>d. (\A i \in 1 .. n : q[i] = <<g[1], g[2], p[i]>>) /\ \A i \in 1 .. n + 1 : u[i] = <<g[1], g[2], a[i]>>
  BY <1>2
<1>e. <<g[1], g[2], k>> \in T
  OBVIOUS
<1> HIDE DEF T
<1>3. q \in Seq(T) /\ Len(q) = n
  BY <1>1, <1>c
<1>4. u \in Seq(T) /\ Len(u) = n + 1
  BY <1>1, <1>c
<1>5. v \in Seq(T) /\ Len(v) = n + 1 /\ (\A i \in 1 .. n : v[i] = q[i]) /\ v[n + 1] = <<g[1], g[2], k>>
  BY <1>1, <1>3, <1>e
<1> HIDE DEF v
<1>6. \A i \in 1 .. n + 1 : u[i] = v[i]
  BY <1>1, <1>a, <1>d, <1>5
<1>7. u = v
  BY <1>4, <1>5, <1>6, SameSeq
<1> QED
  BY <1>7 DEF u, v, q, a
LEMMA NodesOne ==
  ASSUME NEW g, NEW k
  PROVE  NodesOf(g, <<k>>) = << <<g[1], g[2], k>> >>
BY DEF NodesOf

\* The blocks of loops do not change.
LEMMA LoopsSame ==
  ASSUME objects' = objects, form' = form
  PROVE  /\ Modules' = Modules /\ \A m, f : Walks(m, f)' = Walks(m, f)
         /\ \A m, f : Closing(m, f)' = Closing(m, f)
         /\ \A m, f : Loops(m, f)' = Loops(m, f)
<1>1. \A m, f : Graph(m, f)' = Graph(m, f) /\ Code(m, f)' = Code(m, f)
  BY DEF Graph, Code
<1>2. Modules' = Modules /\ (\A m, f : Walks(m, f)' = Walks(m, f)) /\ \A m, f : Closing(m, f)' = Closing(m, f)
  BY <1>1 DEF Modules, Walks, Closing
<1> QED
  BY <1>2 DEF Loops
LEMMA LoopingKept ==
  ASSUME objects' = objects, form' = form, history.partial \subseteq history'.partial, NEW nodes, Looping(nodes)
  PROVE  Looping(nodes)'
<1>1. \A m, f : Loops(m, f)' = Loops(m, f)
  BY LoopsSame
<1> QED
  BY <1>1 DEF Looping

LEMMA LoopWalk ==
  ASSUME Typed, NEW m \in Modules, NEW f \in Functions(m), NEW p
  PROVE  p \in Loops(m, f) <=> Walk(m, f, p) /\ <<Last(p), p[1]>> \in Closing(m, f)
BY WalkOf DEF Loops
-----------------------------------------------------------------------------
(* What a search without limits drops: nothing.                            *)

LEMMA ScoreTyped ==
  ASSUME Rated
  PROVE  \A b : score(b) \in Nat
<1> SUFFICES ASSUME NEW b PROVE score(b) \in Nat
  OBVIOUS
<1>1. CASE b \in DOMAIN db.block_annot
  BY <1>1 DEF Rated, score, annot
<1>2. CASE b \notin DOMAIN db.block_annot
  BY <1>2 DEF score, annot
<1> QED
  BY <1>1, <1>2

LEMMA NotPruned ==
  ASSUME Rated, form.cutoff = 0, NEW path, IsSeq(path.nodes), path.score \in Nat
  PROVE  ~pruned(path)
<1>1. num_ins(path.nodes) \in Nat
  BY FiniteSeq, NumInsTyped DEF Rated
<1>2. form.cutoff * num_ins(path.nodes) = 0
  BY <1>1
<1> QED
  BY <1>2 DEF pruned

Fields == {"target", "nodes", "score"}
LEMMA Expanded ==
  ASSUME NEW path, Fields \subseteq DOMAIN path, IsSeq(path.nodes), path.nodes # <<>>, NEW v,
         NEW q, q = expand_path(path, v)
  PROVE  /\ Fields \subseteq DOMAIN q /\ q.nodes = Append(path.nodes, v) /\ q.target = path.target
         /\ IsSeq(q.nodes) /\ q.nodes # <<>> /\ q.nodes[1] = path.nodes[1]
         /\ Rated => q.score \in Nat
<1> DEFINE nodes == Append(path.nodes, v)
           x == heur(nodes)
<1>1. q = [path EXCEPT !.nodes = nodes, !.score = x]
  BY DEF expand_path
<1>2. nodes \in Seq(Range(path.nodes) \cup {v}) /\ nodes # <<>> /\ nodes[1] = path.nodes[1]
  BY DEF IsSeq
<1>3. IsSeq(nodes)
  <2> HIDE DEF nodes
  <2> QED
    BY <1>2, Sequence
<1>4. Rated => x \in Nat
  <2> HIDE DEF nodes
  <2> QED
    BY <1>3, FiniteSeq, ScoreTyped, HeurTyped
<1> HIDE DEF nodes, x
<1>5. Fields \subseteq DOMAIN q /\ q.nodes = nodes /\ q.target = path.target /\ q.score = x
  BY <1>1 DEF Fields
<1> QED
  BY <1>2, <1>3, <1>4, <1>5 DEF nodes
-----------------------------------------------------------------------------
(* The steps of a search.                                                  *)

LEMMA NoSeeking ==
  ASSUME search' = NoSearch
  PROVE  Seeking'
<1>1. /\ {"funcs", "queue", "paths"} \subseteq DOMAIN NoSearch
      /\ NoSearch.funcs = {} /\ NoSearch.queue = {} /\ NoSearch.paths = <<>>
  BY DEF NoSearch
<1>2. Range(<<>>) = {}
  BY DEF Range
<1> QED
  BY <1>1, <1>2 DEF Seeking

LEMMA WalkingKept ==
  ASSUME objects' = objects, form' = form, history.partial \subseteq history'.partial,
         search.funcs \subseteq search'.funcs, NEW path, Walking(path)
  PROVE  Walking(path)'
<1>1. (\A m, f : Walks(m, f)' = Walks(m, f)) /\ \A m, f : Closing(m, f)' = Closing(m, f)
  BY LoopsSame
<1> QED
  BY <1>1 DEF Walking

LEMMA SeekingKept ==
  ASSUME Seeking, objects' = objects, form' = form, search' = search, db.func \subseteq db'.func,
         history'.partial = history.partial, command' = "search" \/ search = NoSearch
  PROVE  Seeking'
<1>1. \A m, f : Loops(m, f)' = Loops(m, f)
  BY LoopsSame
<1>2. \A path \in search'.queue : Walking(path)'
  BY WalkingKept DEF Seeking
<1>3. \A nodes \in Range(search'.paths) : Looping(nodes)'
  BY LoopingKept DEF Seeking
<1>4. Unlimited' => \A g \in search'.funcs :
        g[1] \in history'.partial \/ \A p \in Loops(g[1], g[2])' : Within(g, p)'
  BY <1>1 DEF Seeking, Unlimited, Within
<1>5. /\ {"funcs", "queue", "paths"} \subseteq DOMAIN search'
      /\ (command' # "search" => search' = NoSearch) /\ search'.funcs \subseteq db'.func
  BY DEF Seeking
<1> QED
  BY <1>2, <1>3, <1>4, <1>5 DEF Seeking

LEMMA SelectedIn ==
  ASSUME NEW scope
  PROVE  Selected(scope) \subseteq db.func
<1>1. CASE scope[1] = "global"
  BY <1>1 DEF Selected
<1>2. CASE scope[1] = "module"
  BY <1>2 DEF Selected
<1>3. CASE scope[1] = "function"
  BY <1>3 DEF Selected
<1>4. CASE scope[1] \notin {"global", "module", "function"}
  BY <1>4 DEF Selected
<1> QED
  BY <1>1, <1>2, <1>3, <1>4

\* What the queue begins with: a path for each back edge.
Seed(e) == [target |-> e.from, nodes |-> <<e.to>>, score |-> 0]
LEMMA SeedOf ==
  ASSUME NEW e
  PROVE  /\ Fields \subseteq DOMAIN Seed(e) /\ Seed(e).nodes = <<e.to>> /\ Seed(e).target = e.from
         /\ Seed(e).nodes # <<>> /\ IsSeq(Seed(e).nodes) /\ Seed(e).nodes[1] = e.to
BY One DEF Seed, Fields

LEMMA SeedWalks ==
  ASSUME Typed, NEW g, NEW m, NEW f, Whole(g, m, f), NEW r \in backedges(g)
  PROVE  /\ FuncOf(r.to) = g
         /\ \E p \in Walks(m, f) : \E e \in Closing(m, f) :
              Seed(r).nodes = NodesOf(g, p) /\ p[1] = e[2] /\ Seed(r).target = <<m, f, e[1]>>
<1>1. PICK e \in Closing(m, f) : r = Row(m, f, e)
  BY BackEdges
<1>2. m \in Modules /\ f \in Functions(m) /\ g = <<m, f>>
  BY DEF Whole
<1>3. e[2] \in Blocks(m, f)
  BY <1>2, ClosingIn
<1> DEFINE p == <<e[2]>>
<1>4. p \in Walks(m, f)
  BY <1>2, <1>3, FirstBlock, WalkOf
<1>5. NodesOf(g, p) = << <<m, f, e[2]>> >>
  BY <1>2, NodesOne
<1>6. Seed(r).nodes = << <<m, f, e[2]>> >> /\ Seed(r).target = <<m, f, e[1]>> /\ FuncOf(r.to) = g
  BY <1>1, <1>2, SeedOf DEF Row, FuncOf
<1> QED
  BY <1>4, <1>5, <1>6

LEMMA SeedWithin ==
  ASSUME Typed, NEW g, NEW m, NEW f, Whole(g, m, f), NEW p \in Loops(m, f)
  PROVE  \E r \in backedges(g) : \E k \in 1 .. Len(p) :
           Seed(r).nodes = NodesOf(g, SubSeq(p, 1, k)) /\ Seed(r).target = <<g[1], g[2], Last(p)>>
<1>1. m \in Modules /\ f \in Functions(m) /\ g = <<m, f>> /\ g[1] = m /\ g[2] = f
  BY DEF Whole
<1>2. Walk(m, f, p) /\ <<Last(p), p[1]>> \in Closing(m, f)
  BY <1>1, LoopWalk
<1>3. p \in Seq(Blocks(m, f)) /\ p # <<>>
  BY <1>2 DEF Walk
<1>4. 1 \in 1 .. Len(p) /\ SubSeq(p, 1, 1) = <<p[1]>>
  BY <1>3, AllOf
<1> DEFINE r == Row(m, f, <<Last(p), p[1]>>)
<1>5. r \in backedges(g)
  BY <1>2, BackEdges
<1>6. Seed(r).nodes = << <<m, f, p[1]>> >> /\ Seed(r).target = <<m, f, Last(p)>>
  BY SeedOf DEF Row
<1>7. NodesOf(g, SubSeq(p, 1, 1)) = << <<m, f, p[1]>> >>
  BY <1>1, <1>4, NodesOne
<1> QED
  BY <1>1, <1>4, <1>5, <1>6, <1>7

LEMMA SeekingStarts ==
  ASSUME DisasmInv, Linked, Seeking, NEW scope, StartSearch(scope)
  PROVE  Seeking'
<1> DEFINE funcs == Selected(scope)
           seeds == {Seed(e) : e \in UNION {backedges(g) : g \in funcs}}
<1>1. /\ objects' = objects /\ form' = form /\ command' = "search" /\ db' = db /\ history' = history
      /\ command # "disasm" /\ Typed
  BY DEF StartSearch, Begin, DisasmInv
<1>2. search' = NoSearch \/ search' = [NoSearch EXCEPT !.funcs = funcs, !.queue = seeds]
  BY DEF StartSearch, Seed
<1>3. CASE search' = [NoSearch EXCEPT !.funcs = funcs, !.queue = seeds]
  <2>0. funcs \subseteq db.func
    BY SelectedIn
  <2> HIDE DEF funcs, seeds
  <2>1. /\ search'.funcs = funcs /\ search'.queue = seeds /\ search'.paths = <<>>
        /\ {"funcs", "queue", "paths"} \subseteq DOMAIN search'
    BY <1>3 DEF NoSearch
  <2>2. ASSUME NEW g \in funcs, NEW r \in backedges(g) PROVE Walking(Seed(r))'
    <3>1. CASE g[1] \in history.partial
      <4>1. FuncOf(r.to)[1] = g[1] /\ FuncOf(r.to) = g
        <5>1. PICK n \in db.module : \E h \in Functions(n) : g = <<n, h>>
          BY <2>0 DEF Linked
        <5>2. r \in get_backedges(g) \/ r = make_loop(g)
          BY DEF backedges
        <5>3. CASE r \in get_backedges(g)
          <6>1. r \in db.edge /\ FuncOf(r.from) = g
            BY <5>3 DEF get_backedges
          <6>2. PICK a \in Modules : \E b \in Functions(a) : r \in get_edges(a, b)
            BY <6>1 DEF Linked
          <6>3. PICK b \in Functions(a) : r \in get_edges(a, b)
            BY <6>2
          <6>4. FuncOf(r.from) = FuncOf(r.to)
            BY <6>3 DEF get_edges, FuncOf
          <6> QED
            BY <6>1, <6>4
        <5>4. CASE r = make_loop(g)
          BY <5>1, <5>4 DEF make_loop, FuncOf
        <5> QED
          BY <5>2, <5>3, <5>4
      <4> QED
        BY <1>1, <2>1, <3>1, <4>1, SeedOf DEF Walking, Fields, IsSeq
    <3>2. CASE g[1] \notin history.partial
      <4>1. PICK m \in Modules : \E f \in Functions(m) : Whole(g, m, f)
        BY <1>1, <2>0, <3>2, WholeOf
      <4>2. PICK f \in Functions(m) : Whole(g, m, f)
        BY <4>1
      <4>3. g = <<m, f>> /\ g[1] = m /\ g[2] = f
        BY <4>2 DEF Whole
      <4>4. FuncOf(Seed(r).nodes[1]) = g
        BY <1>1, <4>2, SeedWalks, SeedOf
      <4>5. \E p \in Walks(m, f)' : \E e \in Closing(m, f)' :
              Seed(r).nodes = NodesOf(g, p) /\ p[1] = e[2] /\ Seed(r).target = <<m, f, e[1]>>
        BY <1>1, <4>2, SeedWalks, LoopsSame
      <4>6. Fields \subseteq DOMAIN Seed(r) /\ Seed(r).nodes # <<>> /\ IsSeq(Seed(r).nodes)
        BY SeedOf
      <4> QED
        BY <2>1, <4>3, <4>4, <4>5, <4>6 DEF Walking, Fields, IsSeq
    <3> QED
      BY <3>1, <3>2
  <2>3. \A path \in search'.queue : Walking(path)'
    BY <2>1, <2>2 DEF seeds
  <2>4. ASSUME NEW g \in funcs, g[1] \notin history.partial, NEW p \in Loops(g[1], g[2])' PROVE Within(g, p)'
    <3>1. PICK m \in Modules : \E f \in Functions(m) : Whole(g, m, f)
      BY <1>1, <2>0, <2>4, WholeOf
    <3>2. PICK f \in Functions(m) : Whole(g, m, f)
      BY <3>1
    <3>3. g = <<m, f>> /\ g[1] = m /\ g[2] = f /\ p \in Loops(m, f)
      BY <1>1, <2>4, <3>2, LoopsSame DEF Whole
    <3>4. PICK r \in backedges(g) : \E k \in 1 .. Len(p) :
            Seed(r).nodes = NodesOf(g, SubSeq(p, 1, k)) /\ Seed(r).target = <<g[1], g[2], Last(p)>>
      BY <1>1, <3>2, <3>3, SeedWithin
    <3>5. Seed(r) \in search'.queue
      BY <2>1 DEF seeds
    <3> QED
      BY <3>4, <3>5 DEF Within
  <2>5. Range(search'.paths) = {}
    BY <2>1 DEF Range
  <2> QED
    BY <1>1, <2>0, <2>1, <2>3, <2>4, <2>5 DEF Seeking
<1> QED
  BY <1>2, <1>3, NoSeeking

LEMMA Appended ==
  ASSUME NEW s, IsSeq(s), NEW x
  PROVE  IsSeq(Append(s, x)) /\ Range(Append(s, x)) = Range(s) \cup {x} /\ Append(s, x) = s \o <<x>>
<1>1. Append(s, x) = s \o <<x>>
  BY DEF IsSeq
<1> DEFINE t == <<x>>
<1>2. IsSeq(t) /\ Range(t) = {x}
  BY One
<1> HIDE DEF t
<1>3. IsSeq(s \o t) /\ Range(s \o t) = Range(s) \cup {x}
  BY <1>2, Then
<1> QED
  BY <1>1, <1>3 DEF t

\* What Search::next does with the path it takes.
Taken(path) ==
  /\ path \in search.queue
  /\ search'.funcs = search.funcs /\ {"funcs", "queue", "paths"} \subseteq DOMAIN search'
  /\ \/ /\ Last(path.nodes) = path.target
        /\ search'.queue = search.queue \ {path} /\ search'.paths = Append(search.paths, path.nodes)
     \/ /\ Last(path.nodes) # path.target /\ search'.paths = search.paths
        /\ search'.queue = (search.queue \ {path}) \cup
             {q \in {expand_path(path, v) : v \in next(Last(path.nodes)) \ Range(path.nodes)} : ~pruned(q)}
     \/ /\ (Last(path.nodes) = path.target /\ found_path(path.nodes)) \/ form.target # NoTarget
        /\ search'.queue = search.queue \ {path} /\ search'.paths = search.paths
LEMMA SearchTakes ==
  ASSUME Seeking, SearchNext
  PROVE  \E path \in search.queue : Taken(path)
<1> DEFINE More(path) == {q \in {expand_path(path, v) : v \in next(Last(path.nodes)) \ Range(path.nodes)} : ~pruned(q)}
<1>1. {"funcs", "queue", "paths"} \subseteq DOMAIN search
  BY DEF Seeking
<1>2. PICK path \in search.queue :
        LET u == Last(path.nodes)
            visits == times(search.visited, u) + 1
            rest == [search EXCEPT !.queue = @ \ {path}, !.visited = more(@, {u})]
        IN  search' =
              CASE u = path.target /\ ~found_path(path.nodes) ->
                     [scoredPath(path.nodes) EXCEPT !.queue = rest.queue, !.visited = rest.visited]
                [] u # path.target /\ (form.target = NoTarget \/ visits <= form.target) ->
                     [rest EXCEPT !.queue = @ \cup More(path)]
                [] OTHER -> rest
  BY DEF SearchNext
<1> DEFINE u == Last(path.nodes)
           M == More(path)
           Q == search.queue \ {path}
<1> HIDE DEF M, More
<1>3. PICK visits, v, w : LET rest == [search EXCEPT !.queue = Q, !.visited = v]
                       IN  search' =
                             CASE u = path.target /\ ~found_path(path.nodes) ->
                                    [scoredPath(path.nodes) EXCEPT !.queue = rest.queue, !.visited = w]
                               [] u # path.target /\ (form.target = NoTarget \/ visits <= form.target) ->
                                    [rest EXCEPT !.queue = rest.queue \cup M]
                               [] OTHER -> rest
  BY <1>2 DEF M
<1> DEFINE rest == [search EXCEPT !.queue = Q, !.visited = v]
<1>4. /\ {"funcs", "queue", "paths"} \subseteq DOMAIN rest
      /\ rest.queue = Q /\ rest.paths = search.paths /\ rest.funcs = search.funcs
  BY <1>1
<1>5. CASE u = path.target /\ ~found_path(path.nodes)
  <2>1. search' = [scoredPath(path.nodes) EXCEPT !.queue = rest.queue, !.visited = w]
    BY <1>3, <1>5
  <2>2. \E c, g : scoredPath(path.nodes) = [search EXCEPT !.paths = Append(@, path.nodes), !.covered = c, !.coverage = g]
    BY DEF scoredPath
  <2>3. PICK c, g : scoredPath(path.nodes) = [search EXCEPT !.paths = Append(@, path.nodes), !.covered = c, !.coverage = g]
    BY <2>2
  <2> DEFINE x == scoredPath(path.nodes)
  <2>4. /\ {"funcs", "queue", "paths"} \subseteq DOMAIN x
        /\ x.paths = Append(search.paths, path.nodes) /\ x.funcs = search.funcs
    BY <1>1, <2>3
  <2> HIDE DEF x, rest
  <2>5. search' = [x EXCEPT !.queue = Q, !.visited = w]
    BY <1>4, <2>1 DEF x
  <2>6. /\ {"funcs", "queue", "paths"} \subseteq DOMAIN search' /\ search'.queue = Q
        /\ search'.paths = Append(search.paths, path.nodes) /\ search'.funcs = search.funcs
    BY <2>4, <2>5
  <2> QED
    BY <1>5, <2>6 DEF Taken
<1>6. CASE u # path.target /\ (form.target = NoTarget \/ visits <= form.target)
  <2>1. search' = [rest EXCEPT !.queue = rest.queue \cup M]
    BY <1>3, <1>6
  <2> HIDE DEF rest
  <2>2. /\ {"funcs", "queue", "paths"} \subseteq DOMAIN search' /\ search'.queue = Q \cup M
        /\ search'.paths = search.paths /\ search'.funcs = search.funcs
    BY <1>4, <2>1
  <2> QED
    BY <1>6, <2>2 DEF Taken, M, More
<1>7. CASE ~(u = path.target /\ ~found_path(path.nodes)) /\ ~(u # path.target /\ (form.target = NoTarget \/ visits <= form.target))
  <2>1. search' = rest
    BY <1>3, <1>7
  <2> HIDE DEF rest
  <2>2. (u = path.target /\ found_path(path.nodes)) \/ form.target # NoTarget
    BY <1>7
  <2> QED
    BY <1>4, <2>1, <2>2 DEF Taken
<1> QED
  BY <1>5, <1>6, <1>7

\* A path from where a back edge leads to, to where it comes from, is a loop.
LEMMA WalkingLoops ==
  ASSUME DisasmInv, Linked, Seeking, command # "disasm", NEW path \in search.queue, Last(path.nodes) = path.target
  PROVE  Looping(path.nodes)
<1>1. Walking(path)
  BY DEF Seeking
<1> DEFINE g == FuncOf(path.nodes[1])
<1>2. g \in db.func
  BY <1>1 DEF Walking, Seeking
<1>3. CASE g[1] \in history.partial
  BY <1>1, <1>3 DEF Walking, Looping
<1>4. CASE g[1] \notin history.partial
  <2>1. PICK m \in Modules : \E f \in Functions(m) : Whole(g, m, f)
    BY <1>2, <1>4, WholeOf
  <2>2. PICK f \in Functions(m) : Whole(g, m, f)
    BY <2>1
  <2>3. g = <<m, f>> /\ g[1] = m /\ g[2] = f /\ Typed
    BY <2>2 DEF Whole, DisasmInv
  <2>4. PICK p \in Walks(m, f) : \E e \in Closing(m, f) :
          path.nodes = NodesOf(g, p) /\ p[1] = e[2] /\ path.target = <<m, f, e[1]>>
    BY <1>1, <1>4, <2>3 DEF Walking
  <2>5. PICK e \in Closing(m, f) : path.nodes = NodesOf(g, p) /\ p[1] = e[2] /\ path.target = <<m, f, e[1]>>
    BY <2>4
  <2>6. Walk(m, f, p)
    BY <2>3, <2>4, WalkOf
  <2>7. p \in Seq(Blocks(m, f)) /\ p # <<>>
    BY <2>6 DEF Walk
  <2>8. Last(path.nodes) = <<m, f, Last(p)>> /\ Range(path.nodes) = BlocksAt(g, Range(p))
    BY <2>3, <2>5, <2>7, NodesIn
  <2>9. Last(p) = e[1] /\ e = <<e[1], e[2]>>
    BY <2>3, <2>5, <2>8, ClosingIn
  <2>10. p \in Loops(m, f)
    BY <2>3, <2>5, <2>6, <2>9, LoopWalk
  <2> QED
    BY <1>1, <2>3, <2>8, <2>10 DEF Walking, Looping
<1> QED
  BY <1>3, <1>4

\* An expanded path is a walk on the way to the same block.
LEMMA ExpandedWalks ==
  ASSUME DisasmInv, Linked, Seeking, command # "disasm", NEW path \in search.queue,
         NEW v \in next(Last(path.nodes)) \ Range(path.nodes)
  PROVE  Walking(expand_path(path, v))
<1> DEFINE g == FuncOf(path.nodes[1])
           q == expand_path(path, v)
<1>1. Walking(path) /\ Fields \subseteq DOMAIN path /\ IsSeq(path.nodes) /\ path.nodes # <<>>
  BY DEF Seeking, Walking, Fields, IsSeq
<1>2. /\ Fields \subseteq DOMAIN q /\ q.nodes = Append(path.nodes, v) /\ q.target = path.target
      /\ IsSeq(q.nodes) /\ q.nodes # <<>> /\ q.nodes[1] = path.nodes[1]
  BY <1>1, Expanded
<1> HIDE DEF q
<1>3. g \in db.func /\ g \in search.funcs
  BY <1>1 DEF Walking, Seeking
<1>4. CASE g[1] \in history.partial
  BY <1>2, <1>3, <1>4 DEF Walking, Fields, IsSeq, q
<1>5. CASE g[1] \notin history.partial
  <2>1. PICK m \in Modules : \E f \in Functions(m) : Whole(g, m, f)
    BY <1>3, <1>5, WholeOf
  <2>2. PICK f \in Functions(m) : Whole(g, m, f)
    BY <2>1
  <2>3. g = <<m, f>> /\ g[1] = m /\ g[2] = f /\ Typed
    BY <2>2 DEF Whole, DisasmInv
  <2>4. PICK p \in Walks(m, f) : \E e \in Closing(m, f) :
          path.nodes = NodesOf(g, p) /\ p[1] = e[2] /\ path.target = <<m, f, e[1]>>
    BY <1>1, <1>5, <2>3 DEF Walking
  <2>6. Walk(m, f, p)
    BY <2>3, <2>4, WalkOf
  <2>7. p \in Seq(Blocks(m, f)) /\ p # <<>>
    BY <2>6 DEF Walk
  <2>8. Last(path.nodes) = <<m, f, Last(p)>> /\ Range(path.nodes) = BlocksAt(g, Range(p))
    BY <2>3, <2>4, <2>7, NodesIn
  <2>9. v \in next(<<m, f, Last(p)>>)
    BY <2>8
  <2>10. PICK h : v = <<m, f, h>> /\ <<Last(p), h>> \in Edges(Code(m, f))
    BY <2>2, <2>9, NextOf
  <2>11. h \in Blocks(m, f)
    <3>1. Assembled(Code(m, f))
      BY <2>3, GraphOf
    <3>2. <<Last(p), h>>[2] \in DOMAIN link_blocks(Code(m, f))
      BY <2>10, <3>1, EdgesIn
    <3> QED
      BY <3>2 DEF Blocks, Graph
  <2>12. h \notin Range(p)
    BY <2>3, <2>8, <2>10 DEF BlocksAt
  <2> DEFINE r == Append(p, h)
  <2>13. Walk(m, f, r) /\ r[1] = p[1]
    BY <2>6, <2>10, <2>11, <2>12, OneMore
  <2>14. q.nodes = NodesOf(g, r)
    <3>1. NodesOf(g, Append(p, h)) = Append(NodesOf(g, p), <<g[1], g[2], h>>)
      BY <2>7, <2>11, NodesMore
    <3> QED
      BY <1>2, <2>3, <2>4, <2>10, <3>1, Zenon
  <2> HIDE DEF r
  <2>15. r \in Walks(m, f)
    BY <2>3, <2>13, WalkOf
  <2>16. \E e \in Closing(m, f) : q.nodes = NodesOf(g, r) /\ r[1] = e[2] /\ q.target = <<m, f, e[1]>>
    BY <1>2, <2>4, <2>13, <2>14
  <2> QED
    BY <1>2, <1>3, <2>3, <2>15, <2>16 DEF Walking, Fields, IsSeq, q
<1> QED
  BY <1>4, <1>5

\* The path that is taken was the first part of a loop: so is what follows it.
LEMMA StillWithin ==
  ASSUME DisasmInv, Linked, Rated, Seeking, Unlimited, command # "disasm", NEW path, Taken(path),
         NEW g \in search.funcs, g[1] \notin history.partial, NEW p \in Loops(g[1], g[2]), Within(g, p)
  PROVE  \/ \E nodes \in Range(search'.paths) : Range(nodes) = BlocksAt(g, Range(p))
         \/ \E q \in search'.queue : \E k \in 1 .. Len(p) :
              q.nodes = NodesOf(g, SubSeq(p, 1, k)) /\ q.target = <<g[1], g[2], Last(p)>>
<1> DEFINE n == Len(p)
           u == Last(path.nodes)
<1>0. IsSeq(search.paths) /\ Typed /\ g \in db.func /\ form.target = NoTarget /\ form.cutoff = 0
  BY DEF DisasmInv, Typed, Searching, IsSeq, Seeking, Unlimited
<1>1. Range(search.paths) \subseteq Range(search'.paths)
  <2>1. CASE search'.paths = search.paths
    BY <2>1
  <2>2. CASE search'.paths = Append(search.paths, path.nodes)
    <3>1. Range(Append(search.paths, path.nodes)) = Range(search.paths) \cup {path.nodes}
      BY <1>0, Appended
    <3> QED
      BY <2>2, <3>1, Zenon
  <2> QED
    BY <2>1, <2>2 DEF Taken
<1>2. CASE \E nodes \in Range(search.paths) : Range(nodes) = BlocksAt(g, Range(p))
  BY <1>1, <1>2
<1>3. CASE \E q \in search.queue : \E k \in 1 .. Len(p) :
             q.nodes = NodesOf(g, SubSeq(p, 1, k)) /\ q.target = <<g[1], g[2], Last(p)>>
  <2>1. PICK q \in search.queue : \E k \in 1 .. Len(p) :
             q.nodes = NodesOf(g, SubSeq(p, 1, k)) /\ q.target = <<g[1], g[2], Last(p)>>
    BY <1>3
  <2>2. CASE q # path
    BY <2>1, <2>2 DEF Taken
  <2>3. CASE q = path
    <3>1. PICK k \in 1 .. Len(p) :
             path.nodes = NodesOf(g, SubSeq(p, 1, k)) /\ path.target = <<g[1], g[2], Last(p)>>
      BY <2>1, <2>3
    <3>2. PICK m \in Modules : \E f \in Functions(m) : Whole(g, m, f)
      BY <1>0, WholeOf
    <3>3. PICK f \in Functions(m) : Whole(g, m, f)
      BY <3>2
    <3>4. g = <<m, f>> /\ g[1] = m /\ g[2] = f
      BY <3>3 DEF Whole
    <3> DEFINE S == Blocks(m, f)
    <3>5. Walk(m, f, p)
      BY <1>0, <3>4, LoopWalk
    <3>6. p \in Seq(S) /\ p # <<>> /\ IsInjective(p) /\ n \in Nat /\ DOMAIN p = 1 .. n /\ Last(p) = p[n] /\ n \in 1 .. n
      BY <3>5, WalkLast DEF Walk
    <3> DEFINE a == SubSeq(p, 1, k)
    <3>7. a \in Seq(S) /\ a # <<>> /\ Last(a) = p[k] /\ Len(a) = k /\ \A i \in 1 .. k : a[i] = p[i]
      BY <3>6, FirstOf
    <3>8. u = <<m, f, p[k]>> /\ Range(path.nodes) = BlocksAt(g, Range(a))
      <4>1. Last(NodesOf(g, a)) = <<g[1], g[2], Last(a)>> /\ Range(NodesOf(g, a)) = BlocksAt(g, Range(a))
        BY <3>7, NodesIn
      <4> QED
        BY <3>1, <3>4, <3>7, <4>1, Zenon
    <3>a. k \in 1 .. n /\ path.nodes = NodesOf(g, a) /\ path.target = <<m, f, p[n]>>
      BY <3>1, <3>4, <3>6
    <3> HIDE DEF a, n, S, u
    <3>9. CASE u = path.target
      <4>1. p[k] = p[n]
        BY <3>8, <3>9, <3>a
      <4>b. k = n
        BY <3>6, <3>a, <4>1, Zenon DEF IsInjective
      <4>2. a = p
        BY <3>6, <4>b, AllOf DEF a, n
      <4>3. Range(path.nodes) = BlocksAt(g, Range(p))
        BY <3>8, <4>2
      <4>4. CASE found_path(path.nodes)
        <5>1. PICK x \in Range(search.paths) : Range(x) = Range(path.nodes)
          BY <4>4 DEF found_path, SamePath
        <5> QED
          BY <1>1, <4>3, <5>1
      <4>5. CASE search'.paths = Append(search.paths, path.nodes)
        <5>1. path.nodes \in Range(search'.paths)
          <6>1. Range(Append(search.paths, path.nodes)) = Range(search.paths) \cup {path.nodes}
            BY <1>0, Appended
          <6> QED
            BY <4>5, <6>1
        <5> QED
          BY <4>3, <5>1
      <4> QED
        BY <1>0, <3>9, <4>4, <4>5 DEF Taken, u
    <3>10. CASE u # path.target
      <4>1. k # n
        BY <3>8, <3>10, <3>a, Zenon
      <4>2. k + 1 \in 1 .. n /\ SubSeq(p, 1, k + 1) = Append(a, p[k + 1]) /\ k \in 1 .. n - 1
        <5>1. k < n /\ k \in 1 .. n - 1
          BY <3>6, <3>a, <4>1
        <5>2. k < Len(p) /\ k \in 1 .. Len(p)
          BY <3>a, <5>1 DEF n
        <5>3. k + 1 \in 1 .. Len(p) /\ SubSeq(p, 1, k + 1) = Append(SubSeq(p, 1, k), p[k + 1])
          BY <3>6, <5>2, FirstMore
        <5> QED
          BY <5>1, <5>3 DEF n, a
      <4> DEFINE v == <<m, f, p[k + 1]>>
                 r == expand_path(path, v)
      <4>3. v \in next(u)
        <5>1. <<p[k], p[k + 1]>> \in Edges(Code(m, f))
          BY <3>5, <4>2 DEF Walk, n
        <5>2. v \in next(<<m, f, p[k]>>)
          BY <3>3, <5>1, NextOf
        <5> QED
          BY <3>8, <5>2, Zenon
      <4>4. v \notin Range(path.nodes)
        <5>1. p[k + 1] \notin Range(a)
          <6>1. \A i \in 1 .. k : i \in DOMAIN p /\ k + 1 \in DOMAIN p /\ i # k + 1
            BY <3>6, <4>2
          <6>2. \A i \in 1 .. k : a[i] # p[k + 1]
            BY <3>6, <3>7, <6>1, Zenon DEF IsInjective
          <6>3. DOMAIN a = 1 .. k
            BY <3>7
          <6> QED
            BY <6>2, <6>3 DEF Range
        <5> QED
          BY <3>4, <3>8, <5>1 DEF BlocksAt
      <4>5. /\ Fields \subseteq DOMAIN path /\ IsSeq(path.nodes) /\ path.nodes # <<>>
        BY <2>1, <2>3 DEF Seeking, Walking, Fields, IsSeq
      <4>6. r.nodes = Append(path.nodes, v) /\ r.target = path.target /\ IsSeq(r.nodes) /\ r.score \in Nat
        BY <4>5, Expanded
      <4>7. r.nodes = NodesOf(g, SubSeq(p, 1, k + 1))
        <5>1. p[k + 1] \in S
          BY <3>6, <4>2
        <5>2. NodesOf(g, Append(a, p[k + 1])) = Append(NodesOf(g, a), <<g[1], g[2], p[k + 1]>>)
          BY <3>7, <5>1, NodesMore
        <5> QED
          BY <3>4, <3>a, <4>2, <4>6, <5>2, Zenon
      <4> HIDE DEF r
      <4>8. ~pruned(r)
        BY <1>0, <4>6, NotPruned
      <4>9. r \in search'.queue
        <5>1. search'.queue = (search.queue \ {path}) \cup
                {x \in {expand_path(path, y) : y \in next(u) \ Range(path.nodes)} : ~pruned(x)}
          BY <1>0, <3>10 DEF Taken, u
        <5> QED
          BY <4>3, <4>4, <4>8, <5>1 DEF r
      <4>c. r.target = <<g[1], g[2], Last(p)>> /\ k + 1 \in 1 .. Len(p)
        BY <3>1, <4>2, <4>6 DEF n
      <4> QED
        BY <4>7, <4>9, <4>c
    <3> QED
      BY <3>9, <3>10
  <2> QED
    BY <2>2, <2>3
<1> QED
  BY <1>2, <1>3 DEF Within

LEMMA SeekingGoesOn ==
  ASSUME DisasmInv, Linked, Rated, Seeking, SearchNext
  PROVE  Seeking'
<1>1. /\ objects' = objects /\ form' = form /\ command' = command /\ command = "search" /\ db' = db /\ history' = history
  BY DEF SearchNext
<1>2. PICK path \in search.queue : Taken(path)
  BY SearchTakes
<1>3. search'.funcs = search.funcs /\ {"funcs", "queue", "paths"} \subseteq DOMAIN search'
  BY <1>2 DEF Taken
<1>4. ASSUME NEW q \in search'.queue PROVE Walking(q)'
  <2>1. Walking(q)
    <3>1. CASE q \in search.queue
      BY <3>1 DEF Seeking
    <3>2. CASE \E v \in next(Last(path.nodes)) \ Range(path.nodes) : q = expand_path(path, v)
      BY <1>1, <3>2, ExpandedWalks
    <3>3. q \in search.queue \/ \E v \in next(Last(path.nodes)) \ Range(path.nodes) : q = expand_path(path, v)
      BY <1>2 DEF Taken
    <3> QED
      BY <3>1, <3>2, <3>3
  <2> QED
    BY <1>1, <1>3, <2>1, WalkingKept
<1>5. ASSUME NEW nodes \in Range(search'.paths) PROVE Looping(nodes)'
  <2>1. IsSeq(search.paths)
    BY DEF DisasmInv, Typed, Searching, IsSeq
  <2>2. Looping(nodes)
    <3>1. CASE search'.paths = search.paths
      BY <3>1 DEF Seeking
    <3>2. CASE Last(path.nodes) = path.target /\ search'.paths = Append(search.paths, path.nodes)
      <4>2. nodes \in Range(search.paths) \/ nodes = path.nodes
        <5>1. Range(Append(search.paths, path.nodes)) = Range(search.paths) \cup {path.nodes}
          BY <2>1, Appended
        <5> QED
          BY <3>2, <5>1
      <4>3. Looping(path.nodes)
        BY <1>1, <3>2, WalkingLoops
      <4> QED
        BY <4>2, <4>3 DEF Seeking
    <3> QED
      BY <1>2, <3>1, <3>2 DEF Taken
  <2> QED
    BY <1>1, <2>2, LoopingKept
<1>6. ASSUME Unlimited', NEW g \in search'.funcs, g[1] \notin history.partial, NEW p \in Loops(g[1], g[2])'
      PROVE  Within(g, p)'
  <2>1. Unlimited /\ g \in search.funcs /\ p \in Loops(g[1], g[2])
    BY <1>1, <1>3, <1>6, LoopsSame DEF Unlimited
  <2>2. Within(g, p)
    BY <1>6, <2>1 DEF Seeking
  <2> QED
    BY <1>1, <1>2, <1>6, <2>1, <2>2, StillWithin DEF Within
<1> QED
  BY <1>1, <1>3, <1>4, <1>5, <1>6 DEF Seeking
-----------------------------------------------------------------------------
(* What a search writes.                                                   *)

LEMMA StoredKept ==
  ASSUME PathsStored, objects' = objects, form' = form, db'.path = db.path, db.func \subseteq db'.func,
         history.partial \subseteq history'.partial, history'.searched = history.searched,
         "searched" \in DOMAIN history'
  PROVE  PathsStored'
<1>1. \A m, f : Loops(m, f)' = Loops(m, f)
  BY LoopsSame
<1>2. \A p \in Range(db'.path) : p = <<>> \/ Looping(p)'
  BY LoopingKept DEF PathsStored
<1>3. \A g \in history'.searched :
        /\ g \in db'.func
        /\ g[1] \in history'.partial \/
             \A p \in Loops(g[1], g[2])' : \E q \in Range(db'.path) : Range(q) = BlocksAt(g, Range(p))
  BY <1>1 DEF PathsStored
<1> QED
  BY <1>2, <1>3 DEF PathsStored

LEMMA NotWriting ==
  ASSUME command' # "search" \/ todo' = <<>>
  PROVE  Writing'
BY DEF Writing

\* What the other commands do.
LEMMA PathsAside ==
  ASSUME Seeking, PathsStored, objects' = objects, form' = form, search = NoSearch, search' = NoSearch,
         command' # "search", db'.path = db.path, db.func \subseteq db'.func,
         history'.partial = history.partial, history'.searched = history.searched,
         "searched" \in DOMAIN history'
  PROVE  Seeking' /\ Writing' /\ PathsStored'
BY NoSeeking, NotWriting, StoredKept

LEMMA Empty ==
  ASSUME NEW nodes, Looping(nodes)
  PROVE  nodes # <<>> /\ Range(nodes) # {} /\ Range(<<>>) = {}
<1>1. nodes # <<>> /\ nodes \in Seq(Range(nodes))
  BY DEF Looping
<1>2. 1 \in DOMAIN nodes
  BY <1>1
<1> QED
  BY <1>1, <1>2 DEF Range

\* The statements that are left, and one that is put before them.
Marked(t) ==
  \A i \in DOMAIN t : (t[i][1] = "end" => i = Len(t)) /\ (t[i][1] = "path_node" => i = 1)
LEMMA MarkedRest ==
  ASSUME NEW s, IsSeq(s), s # <<>>, Marked(s)
  PROVE  \A i \in DOMAIN Tail(s) : (Tail(s)[i][1] = "end" => i = Len(Tail(s))) /\ Tail(s)[i][1] # "path_node"
<1> DEFINE t == Tail(s)
<1>1. /\ Len(t) = Len(s) - 1 /\ Len(s) \in Nat /\ Len(t) \in Nat /\ DOMAIN t = 1 .. Len(t)
      /\ \A i \in DOMAIN t : i + 1 \in DOMAIN s /\ t[i] = s[i + 1]
  <2>1. Len(t) = Len(s) - 1 /\ Len(s) \in Nat
    BY DEF IsSeq
  <2> QED
    BY <2>1, Rest
<1> HIDE DEF t
<1>2. ASSUME NEW i \in DOMAIN t PROVE (t[i][1] = "end" => i = Len(t)) /\ t[i][1] # "path_node"
  <2>1. i + 1 \in DOMAIN s /\ t[i] = s[i + 1] /\ i \in Nat /\ i >= 1
    BY <1>1
  <2>2. (s[i + 1][1] = "end" => i + 1 = Len(s)) /\ (s[i + 1][1] = "path_node" => i + 1 = 1)
    BY <2>1, Zenon DEF Marked
  <2> QED
    BY <1>1, <2>1, <2>2
<1> QED
  BY <1>2 DEF t

LEMMA MarkedMore ==
  ASSUME NEW s, IsSeq(s), s # <<>>, Marked(s), NEW x, x[1] # "end", NEW q, q = <<x>> \o Tail(s)
  PROVE  /\ Range(q) = {x} \cup Range(Tail(s)) /\ Marked(q) /\ 1 \in DOMAIN q /\ q[1] = x
<1> DEFINE t == Tail(s)
           o == <<x>>
<1>1. IsSeq(t) /\ Len(t) \in Nat /\ DOMAIN t = 1 .. Len(t)
  BY Rest
<1>2. IsSeq(o) /\ Range(o) = {x} /\ Len(o) = 1 /\ o[1] = x
  BY One
<1>3. \A i \in DOMAIN t : (t[i][1] = "end" => i = Len(t)) /\ t[i][1] # "path_node"
  BY MarkedRest
<1> HIDE DEF t, o
<1>4. q = o \o t
  BY DEF o, t
<1>5. /\ Range(q) = {x} \cup Range(t) /\ DOMAIN q = 1 .. 1 + Len(t) /\ IsSeq(q)
      /\ \A i \in 1 .. 1 + Len(t) : q[i] = IF i <= 1 THEN o[i] ELSE t[i - 1]
  <2>1. /\ Range(o \o t) = Range(o) \cup Range(t) /\ DOMAIN (o \o t) = 1 .. Len(o) + Len(t) /\ IsSeq(o \o t)
        /\ \A i \in 1 .. Len(o) + Len(t) : (o \o t)[i] = IF i <= Len(o) THEN o[i] ELSE t[i - Len(o)]
    BY <1>1, <1>2, Then
  <2> QED
    BY <1>2, <1>4, <2>1, Zenon
<1>6. Len(q) = 1 + Len(t) /\ 1 \in DOMAIN q
  BY <1>1, <1>5 DEF IsSeq
<1>7. q[1] = x
  BY <1>1, <1>2, <1>5
<1>8. ASSUME NEW i \in DOMAIN q PROVE (q[i][1] = "end" => i = Len(q)) /\ (q[i][1] = "path_node" => i = 1)
  <2>1. CASE i = 1
    BY <1>7, <2>1
  <2>2. CASE i # 1
    <3>1. i - 1 \in DOMAIN t /\ q[i] = t[i - 1]
      BY <1>1, <1>5, <2>2
    <3>2. (t[i - 1][1] = "end" => i - 1 = Len(t)) /\ t[i - 1][1] # "path_node"
      BY <1>3, <3>1
    <3> QED
      BY <1>1, <1>5, <1>6, <3>1, <3>2
  <2> QED
    BY <2>1, <2>2
<1> QED
  BY <1>5, <1>6, <1>7, <1>8 DEF Marked, t

\* The row of a path, and its nodes.
LEMMA RowAdded ==
  ASSUME NEW p, IsSeq(p), NEW x, NEW q, q = Append(p, x)
  PROVE  /\ IsSeq(q) /\ Range(q) = Range(p) \cup {x} /\ Last(q) = x /\ q # <<>>
         /\ \A i \in DOMAIN q : (i \in DOMAIN p /\ q[i] = p[i]) \/ (i = Len(q) /\ q[i] = x)
<1>1. IsSeq(q) /\ Range(q) = Range(p) \cup {x}
  BY Appended
<1>2. /\ Len(p) \in Nat /\ Len(q) = Len(p) + 1 /\ DOMAIN q = 1 .. Len(p) + 1 /\ DOMAIN p = 1 .. Len(p)
      /\ (\A i \in 1 .. Len(p) : q[i] = p[i]) /\ q[Len(p) + 1] = x
  BY DEF IsSeq
<1>3. q # <<>>
  <2>1. 1 \in DOMAIN q /\ DOMAIN <<>> = {}
    BY <1>2
  <2> QED
    BY <2>1, Zenon
<1>4. \A i \in DOMAIN q : (i \in DOMAIN p /\ q[i] = p[i]) \/ (i = Len(q) /\ q[i] = x)
  BY <1>2
<1>5. Last(q) = x
  BY <1>2 DEF Last
<1> QED
  BY <1>1, <1>3, <1>4, <1>5
LEMMA RowFilled ==
  ASSUME NEW p, IsSeq(p), p # <<>>, NEW x, NEW q, q = [p EXCEPT ![Len(p)] = x]
  PROVE  /\ IsSeq(q) /\ DOMAIN q = DOMAIN p /\ Len(p) \in DOMAIN p /\ q[Len(p)] = x /\ Last(p) = p[Len(p)]
         /\ \A i \in DOMAIN p : i # Len(p) => q[i] = p[i]
<1> DEFINE n == Len(p)
           S == Range(p) \cup {x}
<1>1. n \in Nat /\ DOMAIN p = 1 .. n /\ n \in 1 .. n /\ p = [i \in 1 .. n |-> p[i]] /\ p \in Seq(S)
  BY DEF IsSeq
<1>2. DOMAIN q = DOMAIN p /\ q[n] = x /\ \A i \in DOMAIN p : i # n => q[i] = p[i]
  BY <1>1
<1>3. x \in S
  OBVIOUS
<1> HIDE DEF S
<1>4. q \in Seq(S)
  BY <1>1, <1>3
<1> QED
  BY <1>1, <1>2, <1>4, Sequence DEF Last
-----------------------------------------------------------------------------
(* The statements of a search.                                             *)

LEMMA WritingEnds ==
  ASSUME Typed, Seeking, SearchEnd
  PROVE  Writing'
<1>1. /\ objects' = objects /\ form' = form /\ db' = db /\ history' = history /\ search' = search
      /\ command = "search" /\ Searching
  BY DEF SearchEnd, Typed
<1> DEFINE paths == search.paths
           a == [k \in DOMAIN paths |-> <<"path", paths[k]>>]
           C == {<<"path", paths[k]>> : k \in DOMAIN paths}
           e == <<"end">>
<1>2. Len(paths) \in Nat /\ DOMAIN paths = 1 .. Len(paths) /\ Range(paths) = {paths[k] : k \in DOMAIN paths}
  BY <1>1 DEF Searching, Range
<1>3. a \in Seq(C) /\ DOMAIN a = DOMAIN paths /\ \A k \in DOMAIN a : a[k] = <<"path", paths[k]>>
  BY <1>2
<1>4. todo' = Append(a, e) /\ e[1] = "end"
  BY DEF SearchEnd
<1>5. IsSeq(a)
  <2> HIDE DEF a, C
  <2> QED
    BY <1>3, Sequence
<1> HIDE DEF a, C, e
<1>6. /\ Range(todo') = Range(a) \cup {e}
      /\ \A i \in DOMAIN todo' : (i \in DOMAIN a /\ todo'[i] = a[i]) \/ (i = Len(todo') /\ todo'[i] = e)
  <2>1. \A q : q = Append(a, e) =>
          /\ Range(q) = Range(a) \cup {e}
          /\ \A i \in DOMAIN q : (i \in DOMAIN a /\ q[i] = a[i]) \/ (i = Len(q) /\ q[i] = e)
    <3> SUFFICES ASSUME NEW q, q = Append(a, e)
                 PROVE  /\ Range(q) = Range(a) \cup {e}
                        /\ \A i \in DOMAIN q : (i \in DOMAIN a /\ q[i] = a[i]) \/ (i = Len(q) /\ q[i] = e)
      OBVIOUS
    <3>1. Range(q) = Range(a) \cup {e}
      BY <1>5, RowAdded
    <3>2. \A i \in DOMAIN q : (i \in DOMAIN a /\ q[i] = a[i]) \/ (i = Len(q) /\ q[i] = e)
      BY <1>5, RowAdded
    <3> QED
      BY <3>1, <3>2
  <2> QED
    BY <1>4, <2>1, Zenon
<1>7. \A i \in DOMAIN a : a[i][1] = "path" /\ a[i][2] \in Range(paths)
  BY <1>2, <1>3
<1>8. Unlimited' => search'.queue = {}
  BY <1>1 DEF SearchEnd, Unlimited, complete
<1>9. ASSUME NEW nodes \in Range(search'.paths) PROVE <<"path", nodes>> \in Range(todo')
  <2>1. PICK k \in DOMAIN paths : nodes = paths[k]
    BY <1>1, <1>2
  <2>2. <<"path", nodes>> \in Range(a)
    BY <1>3, <2>1 DEF Range
  <2> QED
    BY <1>6, <2>2
<1>10. ASSUME NEW s \in Range(todo') PROVE s[1] = "end" \/ Looping(s[2])'
  <2>1. CASE s = e
    BY <1>4, <2>1
  <2>2. CASE s \in Range(a)
    <3>1. s[2] \in Range(paths)
      BY <1>7, <2>2 DEF Range
    <3>2. Looping(s[2])
      BY <3>1 DEF Seeking
    <3> QED
      BY <1>1, <3>2, LoopingKept
  <2> QED
    BY <1>6, <2>1, <2>2
<1>11. ASSUME NEW i \in DOMAIN todo' PROVE (todo'[i][1] = "end" => i = Len(todo')) /\ todo'[i][1] # "path_node"
  BY <1>4, <1>6, <1>7
<1> QED
  BY <1>8, <1>9, <1>10, <1>11 DEF Writing

\* What is common to the statements of a search.
LEMMA Searched ==
  ASSUME Typed, Seeking, Writing, PathsStored, Statement, command = "search", NEW s, s = Head(todo)
  PROVE  /\ objects' = objects /\ form' = form /\ command' = command /\ history'.partial = history.partial
         /\ IsSeq(todo) /\ todo # <<>> /\ Marked(todo) /\ IsSeq(Tail(todo)) /\ Range(todo) = {s} \cup Range(Tail(todo))
         /\ s = todo[1] /\ 1 \in DOMAIN todo /\ Storing(s) /\ (s[1] = "end" \/ Looping(s[2]))
         /\ db' = Written(s) /\ todo' = AfterWritten(s) \o Tail(todo)
         /\ (s[1] # "end" => search' = search) /\ (s[1] = "end" => search' = NoSearch)
         /\ "searched" \in DOMAIN history' /\ IsSeq(db.path)
         /\ history'.searched = history.searched \cup (IF s[1] = "end" /\ Unlimited THEN search.funcs ELSE {})
<1>1. IsSeq(todo) /\ todo # <<>>
  BY DEF Typed, Listed, IsSeq, Statement
<1>2. /\ IsSeq(Tail(todo)) /\ Range(todo) = {s} \cup Range(Tail(todo)) /\ s = todo[1] /\ 1 \in DOMAIN todo
  BY <1>1, Rest
<1>3. Storing(s)
  BY <1>2 DEF Typed, Listed, OfCommand
<1>4. Marked(todo) /\ (s[1] = "end" \/ Looping(s[2]))
  BY <1>1, <1>2 DEF Writing, Marked
<1>5. db' = Written(s) /\ todo' = AfterWritten(s) \o Tail(todo)
  BY DEF Statement, Execute, AfterThat
<1>6. /\ objects' = objects /\ form' = form /\ command' = command
      /\ (s[1] # "end" => search' = search) /\ (s[1] = "end" => search' = NoSearch)
  BY DEF Statement
<1>7. PICK x : history' = [history EXCEPT !.counted = x,
                  !.searched = @ \cup (IF s[1] = "end" /\ Unlimited THEN search.funcs ELSE {})]
  BY DEF Statement
<1> DEFINE more_ == history.searched \cup (IF s[1] = "end" /\ Unlimited THEN search.funcs ELSE {})
<1>8. history' = [history EXCEPT !.counted = x, !.searched = more_]
  BY <1>7
<1>9. /\ history'.partial = history.partial /\ "searched" \in DOMAIN history' /\ history'.searched = more_
  <2>1. "partial" \in DOMAIN history /\ "searched" \in DOMAIN history
    BY DEF Typed, PathsStored
  <2> HIDE DEF more_
  <2> QED
    BY <1>8, <2>1
<1>10. IsSeq(db.path)
  BY DEF PathsStored, IsSeq
<1> QED
  BY <1>1, <1>2, <1>3, <1>4, <1>5, <1>6, <1>9, <1>10

\* A path that was found before.
LEMMA PathKnown ==
  ASSUME Typed, Seeking, Writing, PathsStored, Statement, command = "search", NEW s, s = Head(todo),
         s[1] = "path", find_by_hash(s[2])
  PROVE  Seeking' /\ Writing' /\ PathsStored'
<1> DEFINE T == Tail(todo)
<1>1. /\ objects' = objects /\ form' = form /\ command' = command /\ history'.partial = history.partial
      /\ IsSeq(todo) /\ todo # <<>> /\ Marked(todo) /\ IsSeq(T) /\ Range(todo) = {s} \cup Range(T)
      /\ search' = search /\ "searched" \in DOMAIN history' /\ history'.searched = history.searched
  BY Searched
<1>2. db' = db /\ todo' = T
  <2>1. Written(s) = db /\ AfterWritten(s) = <<>>
    BY DEF Written, AfterWritten
  <2>2. db' = db /\ todo' = <<>> \o T
    BY <2>1, Searched
  <2> QED
    BY <1>1, <2>2 DEF IsSeq
<1>3. Seeking'
  BY <1>1, <1>2, SeekingKept
<1>4. PathsStored'
  BY <1>1, <1>2, StoredKept
<1>5. \A i \in DOMAIN T : (T[i][1] = "end" => i = Len(T)) /\ T[i][1] # "path_node"
  BY <1>1, MarkedRest
<1> HIDE DEF T
<1>6. ASSUME NEW nodes \in Range(search'.paths)
      PROVE  find_by_hash(nodes)' \/ <<"path", nodes>> \in Range(T) \/ <<"path_node", nodes>> \in Range(T)
  <2>1. find_by_hash(nodes)' <=> find_by_hash(nodes)
    BY <1>2 DEF find_by_hash
  <2>2. find_by_hash(nodes) \/ <<"path", nodes>> \in Range(todo) \/ <<"path_node", nodes>> \in Range(todo)
    BY <1>1 DEF Writing
  <2>3. <<"path", nodes>> = s => find_by_hash(nodes)
    OBVIOUS
  <2>4. <<"path_node", nodes>> # s
    OBVIOUS
  <2> QED
    BY <1>1, <2>1, <2>2, <2>3, <2>4
<1>7. ASSUME NEW t \in Range(T) PROVE t[1] = "end" \/ Looping(t[2])'
  <2>1. t[1] = "end" \/ Looping(t[2])
    BY <1>1 DEF Writing
  <2> QED
    BY <1>1, <2>1, LoopingKept
<1>8. Unlimited' => search'.queue = {}
  BY <1>1 DEF Writing, Unlimited
<1> QED
  BY <1>2, <1>3, <1>4, <1>5, <1>6, <1>7, <1>8 DEF Writing

LEMMA EmptySeq ==
  ASSUME NEW S, NEW s \in Seq(S), Len(s) = 0
  PROVE  s = <<>>
OBVIOUS

\* A path that was not: its row comes before its nodes.
LEMMA PathNew ==
  ASSUME Typed, Seeking, Writing, PathsStored, Statement, command = "search", NEW s, s = Head(todo),
         s[1] = "path", ~find_by_hash(s[2])
  PROVE  Seeking' /\ Writing' /\ PathsStored'
<1> DEFINE T == Tail(todo)
           x == <<"path_node", s[2]>>
           P == db.path
           Q == db'.path
<1>1. /\ objects' = objects /\ form' = form /\ command' = command /\ history'.partial = history.partial
      /\ IsSeq(todo) /\ todo # <<>> /\ Marked(todo) /\ IsSeq(T) /\ Range(todo) = {s} \cup Range(T)
      /\ search' = search /\ "searched" \in DOMAIN history' /\ history'.searched = history.searched
      /\ IsSeq(P) /\ Looping(s[2])
  BY Searched
<1>2. db' = [db EXCEPT !["path"] = Append(P, <<>>)] /\ todo' = <<x>> \o T
  <2>1. Written(s) = [db EXCEPT !["path"] = Append(P, <<>>)] /\ AfterWritten(s) = <<x>>
    BY DEF Written, AfterWritten
  <2> QED
    BY <2>1, Searched
<1>3. Q = Append(P, <<>>) /\ db'.func = db.func
  <2> DEFINE y == Append(P, <<>>)
  <2>1. "path" \in Columns /\ "func" \in Columns /\ Tables(db) /\ db' = [db EXCEPT !["path"] = y]
    BY <1>2 DEF Columns, Typed, Tables
  <2> HIDE DEF y
  <2>2. db'["path"] = y /\ \A t \in Columns : t # "path" => db'[t] = db[t]
    BY <2>1, OneColumn
  <2> QED
    BY <2>1, <2>2 DEF y
<1>4. x[1] # "end" /\ x[1] = "path_node" /\ x[2] = s[2]
  OBVIOUS
<1> HIDE DEF T, x, P, Q
<1>5. Range(todo') = {x} \cup Range(T) /\ Marked(todo') /\ 1 \in DOMAIN todo' /\ todo'[1] = x
  <2>1. ASSUME NEW q, q = <<x>> \o Tail(todo)
        PROVE  Range(q) = {x} \cup Range(Tail(todo)) /\ Marked(q) /\ 1 \in DOMAIN q /\ q[1] = x
    <3>1. IsSeq(todo) /\ todo # <<>> /\ Marked(todo) /\ x[1] # "end" /\ q = <<x>> \o Tail(todo)
      BY <1>1, <1>4, <2>1
    <3>2. Range(q) = {x} \cup Range(Tail(todo))
      BY <3>1, MarkedMore
    <3>3. Marked(q)
      BY <3>1, MarkedMore
    <3>4. 1 \in DOMAIN q /\ q[1] = x
      BY <3>1, MarkedMore
    <3> QED
      BY <3>2, <3>3, <3>4
  <2> QED
    BY <1>2, <2>1, Zenon DEF T
<1>6. /\ IsSeq(Q) /\ Range(Q) = Range(P) \cup {<<>>} /\ Last(Q) = <<>> /\ Q # <<>>
      /\ \A i \in DOMAIN Q : (i \in DOMAIN P /\ Q[i] = P[i]) \/ (i = Len(Q) /\ Q[i] = <<>>)
  <2>1. ASSUME NEW q, q = Append(P, <<>>)
        PROVE  /\ IsSeq(q) /\ Range(q) = Range(P) \cup {<<>>} /\ Last(q) = <<>> /\ q # <<>>
               /\ \A i \in DOMAIN q : (i \in DOMAIN P /\ q[i] = P[i]) \/ (i = Len(q) /\ q[i] = <<>>)
    <3>1. IsSeq(q) /\ Range(q) = Range(P) \cup {<<>>}
      BY <1>1, <2>1, RowAdded
    <3>2. Last(q) = <<>> /\ q # <<>>
      BY <1>1, <2>1, RowAdded
    <3>3. \A i \in DOMAIN q : (i \in DOMAIN P /\ q[i] = P[i]) \/ (i = Len(q) /\ q[i] = <<>>)
      BY <1>1, <2>1, RowAdded
    <3> QED
      BY <3>1, <3>2, <3>3
  <2> QED
    BY <1>3, <2>1, Zenon
<1>7. \A nodes : Looping(nodes) => nodes # <<>> /\ Range(nodes) # {} /\ Range(<<>>) = {}
  BY Empty
<1>8. \A nodes : find_by_hash(nodes) <=> \E p \in Range(P) : Range(nodes) = Range(p)
  BY DEF find_by_hash, SamePath, P
<1>9. \A nodes : find_by_hash(nodes)' <=> \E p \in Range(Q) : Range(nodes) = Range(p)
  BY DEF find_by_hash, SamePath, Q
<1>10. Seeking'
  BY <1>1, <1>3, SeekingKept
<1>11. ASSUME NEW nodes \in Range(search'.paths)
      PROVE  find_by_hash(nodes)' \/ <<"path", nodes>> \in Range(todo') \/ <<"path_node", nodes>> \in Range(todo')
  <2>1. find_by_hash(nodes) => find_by_hash(nodes)'
    BY <1>6, <1>8, <1>9
  <2>2. find_by_hash(nodes) \/ <<"path", nodes>> \in Range(todo) \/ <<"path_node", nodes>> \in Range(todo)
    BY <1>1 DEF Writing
  <2>3. <<"path", nodes>> = s => <<"path_node", nodes>> = x
    BY DEF x
  <2>4. <<"path_node", nodes>> # s
    OBVIOUS
  <2> QED
    BY <1>1, <1>5, <2>1, <2>2, <2>3, <2>4
<1>12. ASSUME NEW t \in Range(todo') PROVE t[1] = "end" \/ Looping(t[2])'
  <2>1. t[1] = "end" \/ Looping(t[2])
    <3>1. CASE t = x
      BY <1>1, <1>4, <3>1
    <3>2. CASE t \in Range(T)
      BY <1>1, <3>2 DEF Writing
    <3> QED
      BY <1>5, <3>1, <3>2
  <2> QED
    BY <1>1, <2>1, LoopingKept
<1>13. ~find_by_hash(s[2])'
  BY <1>1, <1>6, <1>7, <1>8, <1>9
<1>14. Unlimited' => search'.queue = {}
  BY <1>1 DEF Writing, Unlimited
<1>15. Writing'
  <2>1. ASSUME NEW i \in DOMAIN todo'
        PROVE  /\ todo'[i][1] = "end" => i = Len(todo')
               /\ todo'[i][1] = "path_node" => i = 1 /\ db'.path # <<>> /\ Last(db'.path) = <<>> /\ ~find_by_hash(todo[1][2])'
    <3>1. (todo'[i][1] = "end" => i = Len(todo')) /\ (todo'[i][1] = "path_node" => i = 1)
      BY <1>5 DEF Marked
    <3>2. ~find_by_hash(todo[1][2])'
      BY <1>4, <1>5, <1>9, <1>13
    <3> QED
      BY <1>6, <3>1, <3>2 DEF Q
  <2> QED
    BY <1>11, <1>12, <1>14, <2>1 DEF Writing
<1>16. \A p \in Range(Q) : p = <<>> \/ Looping(p)'
  BY <1>1, <1>6, LoopingKept DEF PathsStored, P
<1>17. ASSUME NEW k \in DOMAIN Q, NEW l \in DOMAIN Q, Q[k] # <<>>, Range(Q[k]) = Range(Q[l]) PROVE k = l
  <2>1. k \in DOMAIN P /\ Q[k] = P[k] /\ P[k] \in Range(P)
    BY <1>6, <1>17 DEF Range
  <2>2. Looping(P[k])
    BY <1>17, <2>1 DEF PathsStored, P
  <2>3. Q[l] # <<>>
    BY <1>7, <1>17, <2>1, <2>2
  <2>4. l \in DOMAIN P /\ Q[l] = P[l]
    BY <1>6, <2>3
  <2> QED
    BY <1>17, <2>1, <2>4 DEF PathsStored, P
<1>18. ASSUME NEW g \in history'.searched
      PROVE  /\ g \in db'.func
             /\ g[1] \in history'.partial \/
                  \A p \in Loops(g[1], g[2])' : \E q \in Range(Q) : Range(q) = BlocksAt(g, Range(p))
  <2>1. \A m, f : Loops(m, f)' = Loops(m, f)
    BY <1>1, LoopsSame
  <2>2. /\ g \in db.func
        /\ g[1] \in history.partial \/
             \A p \in Loops(g[1], g[2]) : \E q \in Range(P) : Range(q) = BlocksAt(g, Range(p))
    BY <1>1 DEF PathsStored, P
  <2> QED
    BY <1>1, <1>3, <1>6, <2>1, <2>2
<1>19. PathsStored'
  BY <1>1, <1>6, <1>16, <1>17, <1>18 DEF PathsStored, IsSeq, Q
<1> QED
  BY <1>10, <1>15, <1>19

\* The nodes of a path go to the row that was added for them.
LEMMA PathFilled ==
  ASSUME DisasmInv, Linked, Seeking, Writing, PathsStored, Statement, command = "search", NEW s, s = Head(todo),
         s[1] = "path_node"
  PROVE  Seeking' /\ Writing' /\ PathsStored'
<1> DEFINE T == Tail(todo)
           P == db.path
           Q == db'.path
           n == Len(P)
<1>0. Typed
  BY DEF DisasmInv
<1>1. /\ objects' = objects /\ form' = form /\ command' = command /\ history'.partial = history.partial
      /\ IsSeq(todo) /\ todo # <<>> /\ Marked(todo) /\ IsSeq(T) /\ Range(todo) = {s} \cup Range(T)
      /\ search' = search /\ "searched" \in DOMAIN history' /\ history'.searched = history.searched
      /\ IsSeq(P) /\ Looping(s[2]) /\ s = todo[1] /\ 1 \in DOMAIN todo
  BY <1>0, Searched
<1>2. P # <<>> /\ Last(P) = <<>> /\ ~find_by_hash(s[2])
  BY <1>1 DEF Writing
<1>3. db' = [db EXCEPT !["path"] = [P EXCEPT ![n] = s[2]]] /\ todo' = T
  <2>1. Written(s) = [db EXCEPT !["path"] = [P EXCEPT ![n] = s[2]]] /\ AfterWritten(s) = <<>>
    BY DEF Written, AfterWritten
  <2>2. db' = [db EXCEPT !["path"] = [P EXCEPT ![n] = s[2]]] /\ todo' = <<>> \o T
    BY <1>0, <2>1, Searched
  <2> QED
    BY <1>1, <2>2 DEF IsSeq
<1>4. Q = [P EXCEPT ![n] = s[2]] /\ db'.func = db.func
  <2> DEFINE y == [P EXCEPT ![n] = s[2]]
  <2>1. "path" \in Columns /\ "func" \in Columns /\ Tables(db) /\ db' = [db EXCEPT !["path"] = y]
    BY <1>0, <1>3 DEF Columns, Typed, Tables
  <2> HIDE DEF y
  <2>2. db'["path"] = y /\ \A t \in Columns : t # "path" => db'[t] = db[t]
    BY <2>1, OneColumn
  <2> QED
    BY <2>1, <2>2 DEF y
<1> HIDE DEF P, Q
<1>5. /\ IsSeq(Q) /\ DOMAIN Q = DOMAIN P /\ n \in DOMAIN P /\ Q[n] = s[2] /\ Last(P) = P[n]
      /\ \A i \in DOMAIN P : i # n => Q[i] = P[i]
  BY <1>1, <1>2, <1>4, RowFilled
<1> HIDE DEF T, n
<1>6. P[n] = <<>> /\ s[2] \in Range(Q) /\ \A i \in DOMAIN P : P[i] \in Range(P) /\ Q[i] \in Range(Q)
  BY <1>2, <1>5 DEF Range
<1>7. \A nodes : Looping(nodes) => nodes # <<>> /\ Range(nodes) # {} /\ Range(<<>>) = {}
  BY Empty
<1>8. \A nodes : find_by_hash(nodes) <=> \E p \in Range(P) : Range(nodes) = Range(p)
  BY DEF find_by_hash, SamePath, P
<1>9. \A nodes : find_by_hash(nodes)' <=> \E p \in Range(Q) : Range(nodes) = Range(p)
  BY DEF find_by_hash, SamePath, Q
<1>10. \A p \in Range(P) : p = <<>> \/ p \in Range(Q)
  <2> TAKE p \in Range(P)
  <2>1. PICK i \in DOMAIN P : p = P[i]
    BY DEF Range
  <2> QED
    BY <1>5, <1>6, <2>1
<1>11. \A p \in Range(Q) : p = s[2] \/ p \in Range(P)
  <2> TAKE p \in Range(Q)
  <2>1. PICK i \in DOMAIN Q : p = Q[i]
    BY DEF Range
  <2> QED
    BY <1>5, <1>6, <2>1
<1>12. Seeking'
  BY <1>1, <1>4, SeekingKept
<1>13. ASSUME NEW nodes \in Range(search'.paths)
      PROVE  find_by_hash(nodes)' \/ <<"path", nodes>> \in Range(T) \/ <<"path_node", nodes>> \in Range(T)
  <2>1. find_by_hash(nodes) => find_by_hash(nodes)'
    <3>1. Looping(nodes)
      BY <1>1 DEF Seeking
    <3> QED
      BY <1>7, <1>8, <1>9, <1>10, <3>1
  <2>2. find_by_hash(nodes) \/ <<"path", nodes>> \in Range(todo) \/ <<"path_node", nodes>> \in Range(todo)
    BY <1>1 DEF Writing
  <2>3. <<"path", nodes>> # s
    OBVIOUS
  <2>4. <<"path_node", nodes>> = s => find_by_hash(nodes)'
    BY <1>6, <1>9
  <2> QED
    BY <1>1, <2>1, <2>2, <2>3, <2>4
<1>14. ASSUME NEW t \in Range(T) PROVE t[1] = "end" \/ Looping(t[2])'
  <2>1. t[1] = "end" \/ Looping(t[2])
    BY <1>1 DEF Writing
  <2> QED
    BY <1>1, <2>1, LoopingKept
<1>15. Unlimited' => search'.queue = {}
  BY <1>1 DEF Writing, Unlimited
<1>16. \A i \in DOMAIN T : (T[i][1] = "end" => i = Len(T)) /\ T[i][1] # "path_node"
  BY <1>1, MarkedRest DEF T
<1>17. Writing'
  BY <1>3, <1>13, <1>14, <1>15, <1>16 DEF Writing
<1>18. \A p \in Range(Q) : p = <<>> \/ Looping(p)'
  BY <1>1, <1>11, LoopingKept DEF PathsStored, P
<1>19. ASSUME NEW k \in DOMAIN Q, NEW l \in DOMAIN Q, Q[k] # <<>>, Range(Q[k]) = Range(Q[l]) PROVE k = l
  <2>1. CASE k = n /\ l # n
    BY <1>2, <1>5, <1>6, <1>8, <1>19, <2>1
  <2>2. CASE k # n /\ l = n
    BY <1>2, <1>5, <1>6, <1>8, <1>19, <2>2
  <2>3. CASE k # n /\ l # n
    BY <1>5, <1>19, <2>3 DEF PathsStored, P
  <2> QED
    BY <2>1, <2>2, <2>3
<1>20. ASSUME NEW g \in history'.searched
      PROVE  /\ g \in db'.func
             /\ g[1] \in history'.partial \/
                  \A p \in Loops(g[1], g[2])' : \E q \in Range(Q) : Range(q) = BlocksAt(g, Range(p))
  <2>1. \A m, f : Loops(m, f)' = Loops(m, f)
    BY <1>1, LoopsSame
  <2>2. /\ g \in db.func
        /\ g[1] \in history.partial \/
             \A p \in Loops(g[1], g[2]) : \E q \in Range(P) : Range(q) = BlocksAt(g, Range(p))
    BY <1>1 DEF PathsStored, P
  <2>3. ASSUME NEW p \in Loops(g[1], g[2]) PROVE BlocksAt(g, Range(p)) # {}
    <3>1. PICK m \in db.module : \E f \in Functions(m) : g = <<m, f>>
      BY <2>2 DEF Linked
    <3>2. m \in Modules /\ g[1] = m /\ g[2] \in Functions(m)
      BY <3>1 DEF DisasmInv, Sound
    <3>3. Walk(m, g[2], p)
      BY <1>0, <3>2, LoopWalk
    <3>4. 1 \in DOMAIN p
      BY <3>3, WalkLast
    <3> QED
      BY <3>4 DEF BlocksAt, Range
  <2>4. Range(<<>>) = {}
    BY <1>1, <1>7
  <2> QED
    BY <1>1, <1>4, <1>10, <2>1, <2>2, <2>3, <2>4
<1>21. PathsStored'
  BY <1>1, <1>5, <1>18, <1>19, <1>20 DEF PathsStored, IsSeq, Q
<1> QED
  BY <1>12, <1>17, <1>21

\* All is written.
LEMMA PathsDone ==
  ASSUME DisasmInv, Linked, Seeking, Writing, PathsStored, Statement, command = "search", NEW s, s = Head(todo),
         s[1] = "end"
  PROVE  Seeking' /\ Writing' /\ PathsStored'
<1> DEFINE T == Tail(todo)
<1>0. Typed
  BY DEF DisasmInv
<1>1. /\ objects' = objects /\ form' = form /\ command' = command /\ history'.partial = history.partial
      /\ IsSeq(todo) /\ todo # <<>> /\ Marked(todo) /\ IsSeq(T) /\ Range(todo) = {s} \cup Range(T)
      /\ search' = NoSearch /\ "searched" \in DOMAIN history' /\ s = todo[1] /\ 1 \in DOMAIN todo
      /\ history'.searched = history.searched \cup (IF Unlimited THEN search.funcs ELSE {})
  BY <1>0, Searched
<1>2. db' = db /\ todo' = T
  <2>1. Written(s) = db /\ AfterWritten(s) = <<>>
    BY DEF Written, AfterWritten
  <2>2. db' = db /\ todo' = <<>> \o T
    BY <1>0, <2>1, Searched
  <2> QED
    BY <1>1, <2>2 DEF IsSeq
<1>3. T = <<>> /\ Range(T) = {}
  <2>1. Len(todo) = 1
    BY <1>1 DEF Marked
  <2>2. Len(T) = 0 /\ T \in Seq(Range(T))
    BY <1>1, <2>1 DEF IsSeq
  <2>3. T = <<>>
    BY <2>2, EmptySeq
  <2> QED
    BY <1>1, <2>3, Empty DEF Range
<1>4. Seeking' /\ Writing'
  BY <1>1, <1>2, <1>3, NoSeeking, NotWriting
<1> HIDE DEF T
<1>5. \A p \in Range(db'.path) : p = <<>> \/ Looping(p)'
  BY <1>1, <1>2, LoopingKept DEF PathsStored
<1>6. ASSUME NEW g \in history'.searched
      PROVE  /\ g \in db'.func
             /\ g[1] \in history'.partial \/
                  \A p \in Loops(g[1], g[2])' : \E q \in Range(db'.path) : Range(q) = BlocksAt(g, Range(p))
  <2>1. \A m, f : Loops(m, f)' = Loops(m, f)
    BY <1>1, LoopsSame
  <2>2. CASE g \in history.searched
    BY <1>1, <1>2, <2>1, <2>2 DEF PathsStored
  <2>3. CASE Unlimited /\ g \in search.funcs
    <3>1. g \in db.func /\ search.queue = {}
      BY <1>1, <2>3 DEF Seeking, Writing
    <3>2. ASSUME g[1] \notin history.partial, NEW p \in Loops(g[1], g[2])
          PROVE  \E q \in Range(db.path) : Range(q) = BlocksAt(g, Range(p))
      <4>1. Within(g, p)
        BY <2>3, <3>2 DEF Seeking
      <4>2. PICK nodes \in Range(search.paths) : Range(nodes) = BlocksAt(g, Range(p))
        BY <3>1, <4>1 DEF Within
      <4>3. find_by_hash(nodes) \/ <<"path", nodes>> = s \/ <<"path_node", nodes>> = s
        BY <1>1, <1>3 DEF Writing
      <4>4. find_by_hash(nodes)
        BY <4>3
      <4> QED
        BY <4>2, <4>4 DEF find_by_hash, SamePath
    <3> QED
      BY <1>1, <1>2, <2>1, <3>1, <3>2
  <2> QED
    BY <1>1, <2>2, <2>3
<1>7. PathsStored'
  BY <1>1, <1>2, <1>5, <1>6 DEF PathsStored
<1> QED
  BY <1>4, <1>7

LEMMA SearchStatement ==
  ASSUME DisasmInv, Linked, Seeking, Writing, PathsStored, Statement, command = "search"
  PROVE  Seeking' /\ Writing' /\ PathsStored'
<1> DEFINE s == Head(todo)
<1>1. Typed
  BY DEF DisasmInv
<1>2. Storing(s)
  BY <1>1, Searched
<1> QED
  BY <1>1, <1>2, PathKnown, PathNew, PathFilled, PathsDone DEF Storing

LEMMA OtherPaths ==
  ASSUME DisasmInv, Linked, Rated, Seeking, PathsStored, Statement, command # "search"
  PROVE  Seeking' /\ Writing' /\ PathsStored'
<1>1. Typed /\ search = NoSearch
  BY DEF DisasmInv, Seeking
<1>2. objects' = objects /\ form' = form /\ command' = command /\ search' = NoSearch
  BY <1>1 DEF Statement
<1>3. search.funcs = {}
  BY <1>1 DEF NoSearch
<1>4. PICK x : history' = [history EXCEPT !.counted = x, !.searched = @ \cup {}]
  BY <1>3 DEF Statement
<1>5. /\ history'.partial = history.partial /\ history'.searched = history.searched
      /\ "searched" \in DOMAIN history'
  BY <1>1, <1>4 DEF Typed, PathsStored
<1>6. db'.path = db.path /\ db.func \subseteq db'.func
  <2>1. CASE command = "disasm"
    BY <1>1, <2>1, TablesDisasm
  <2>2. CASE command # "disasm"
    <3>1. Same(LinkColumns) /\ db'.path = db.path
      BY <1>1, <2>2, TablesOther
    <3> QED
      BY <3>1 DEF Same, LinkColumns
  <2> QED
    BY <2>1, <2>2
<1> QED
  BY <1>1, <1>2, <1>5, <1>6, PathsAside

PathsPart == Seeking /\ Writing /\ PathsStored
LEMMA PathsStartSample ==
  ASSUME DisasmInv, PathsPart, NEW pid \in Pids, StartSample(pid)
  PROVE  PathsPart'
<1>1. /\ objects' = objects /\ form' = form /\ command' = "sample" /\ command = "none" /\ search' = search
  BY DEF StartSample, Begin
<1>2. search = NoSearch
  BY <1>1 DEF PathsPart, Seeking
<1>3. PICK x, y : db' = [db EXCEPT !["tables"] = x, !["map"] = y]
  BY DEF StartSample
<1>4. db'.path = db.path /\ db'.func = db.func
  <2>1. \A t \in Columns : t \notin {"tables", "map"} => db'[t] = db[t]
    BY <1>3 DEF DisasmInv, Typed
  <2> QED
    BY <2>1 DEF Columns
<1>5. \E c, r : history' = [history EXCEPT !.counted = c, !.reused = r]
  BY DEF StartSample
<1>6. /\ history'.partial = history.partial /\ history'.searched = history.searched
      /\ "searched" \in DOMAIN history'
  BY <1>5 DEF DisasmInv, Typed, PathsPart, PathsStored
<1> QED
  BY <1>1, <1>2, <1>4, <1>6, PathsAside DEF PathsPart

LEMMA PathsSample ==
  ASSUME DisasmInv, PathsPart, NEW m, NEW f, NEW i, Sample(m, f, i)
  PROVE  PathsPart'
<1>1. /\ objects' = objects /\ form' = form /\ command' = "sample" /\ command = "sample" /\ search' = search
      /\ history' = history
  BY DEF Sample
<1>2. search = NoSearch
  BY <1>1 DEF PathsPart, Seeking
<1>3. PICK x : db' = [db EXCEPT !["sample"] = x]
  BY DEF Sample
<1>4. db'.path = db.path /\ db'.func = db.func
  BY <1>3 DEF DisasmInv, Typed
<1>5. "searched" \in DOMAIN history'
  BY <1>1 DEF PathsPart, PathsStored
<1> QED
  BY <1>1, <1>2, <1>4, <1>5, PathsAside DEF PathsPart

LEMMA PathsStartDisasm ==
  ASSUME DisasmInv, PathsPart, NEW ms, StartDisasm(ms)
  PROVE  PathsPart'
<1>1. /\ objects' = objects /\ form' = form /\ command' = "disasm" /\ command = "none" /\ search' = search
  BY DEF StartDisasm, Begin
<1>2. search = NoSearch
  BY <1>1 DEF PathsPart, Seeking
<1>3. PICK x : db' = [db EXCEPT !["tables"] = x]
  BY DEF StartDisasm
<1>4. db'.path = db.path /\ db'.func = db.func
  BY <1>3 DEF DisasmInv, Typed
<1>5. history' = [history EXCEPT !.counted = FALSE]
  BY DEF StartDisasm
<1>6. /\ history'.partial = history.partial /\ history'.searched = history.searched
      /\ "searched" \in DOMAIN history'
  BY <1>5 DEF DisasmInv, Typed, PathsPart, PathsStored
<1> QED
  BY <1>1, <1>2, <1>4, <1>6, PathsAside DEF PathsPart

LEMMA PathsIdle ==
  ASSUME DisasmInv, PathsPart, EndSample \/ StartCount \/ StartAnnotate \/ EndCommand
  PROVE  PathsPart'
<1>1. /\ objects' = objects /\ form' = form /\ db' = db /\ search' = search /\ command' # "search"
      /\ command \in {"none", "sample"} \/ search = NoSearch
      /\ history' = history \/ history' = [history EXCEPT !.counted = FALSE]
  BY DEF EndSample, StartCount, StartAnnotate, EndCommand, Begin
<1>2. search = NoSearch
  BY <1>1 DEF PathsPart, Seeking
<1>3. /\ history'.partial = history.partial /\ history'.searched = history.searched
      /\ "searched" \in DOMAIN history'
  BY <1>1 DEF DisasmInv, Typed, PathsPart, PathsStored
<1> QED
  BY <1>1, <1>2, <1>3, PathsAside DEF PathsPart

\* A search begins, goes on, and ends.
LEMMA PathsSearch ==
  ASSUME DisasmInv, Linked, Rated, PathsPart,
         (\E scope \in form.scopes : StartSearch(scope)) \/ SearchNext \/ SearchEnd
  PROVE  PathsPart'
<1>1. /\ objects' = objects /\ form' = form /\ db' = db /\ history' = history /\ "searched" \in DOMAIN history
  BY DEF StartSearch, SearchNext, SearchEnd, PathsPart, PathsStored
<1>2. PathsStored'
  BY <1>1, StoredKept DEF PathsPart
<1>3. CASE \E scope \in form.scopes : StartSearch(scope)
  <2>1. PICK scope \in form.scopes : StartSearch(scope)
    BY <1>3
  <2>2. command = "none" /\ todo' = todo
    BY <2>1 DEF StartSearch, Begin
  <2>3. Seeking'
    BY <1>3, SeekingStarts DEF PathsPart
  <2>4. todo' = <<>>
    BY <2>2, Idle DEF DisasmInv
  <2> QED
    BY <1>2, <2>3, <2>4, NotWriting DEF PathsPart
<1>4. CASE SearchNext
  <2>1. todo' = <<>>
    BY <1>4 DEF SearchNext
  <2>2. Seeking'
    BY <1>4, SeekingGoesOn DEF PathsPart
  <2> QED
    BY <1>2, <2>1, <2>2, NotWriting DEF PathsPart
<1>5. CASE SearchEnd
  <2>1. search' = search /\ command' = "search"
    BY <1>5 DEF SearchEnd
  <2>2. Seeking'
    BY <1>1, <2>1, SeekingKept DEF PathsPart
  <2>3. Writing'
    BY <1>5, WritingEnds DEF PathsPart, DisasmInv
  <2> QED
    BY <1>2, <2>2, <2>3 DEF PathsPart
<1> QED
  BY <1>3, <1>4, <1>5

LEMMA PathsKill ==
  ASSUME DisasmInv, PathsPart, Kill
  PROVE  PathsPart'
<1>1. objects' = objects /\ form' = form /\ db' = db /\ todo' = <<>> /\ search' = NoSearch
  BY DEF Kill
<1>2. PICK x : history' = [history EXCEPT !.partial = @ \cup x]
  BY DEF Kill
<1>3. history.partial \subseteq history'.partial /\ history'.searched = history.searched /\ "searched" \in DOMAIN history'
  BY <1>2 DEF DisasmInv, Typed, PathsPart, PathsStored
<1>4. PathsStored'
  BY <1>1, <1>3, StoredKept DEF PathsPart
<1> QED
  BY <1>1, <1>4, NoSeeking, NotWriting DEF PathsPart

LEMMA PathsUnchanged ==
  ASSUME PathsPart, UNCHANGED vars
  PROVE  PathsPart'
<1>1. /\ objects' = objects /\ form' = form /\ db' = db /\ command' = command /\ todo' = todo
      /\ search' = search /\ history' = history
  BY DEF vars
<1>2. PathsStored'
  BY <1>1, StoredKept DEF PathsPart, PathsStored
<1>3. Seeking'
  BY <1>1, SeekingKept DEF PathsPart, Seeking
<1>4. Writing'
  <2>1. Unlimited' = Unlimited /\ \A nodes : find_by_hash(nodes)' = find_by_hash(nodes)
    BY <1>1 DEF Unlimited, find_by_hash
  <2>2. \A nodes : Looping(nodes) => Looping(nodes)'
    BY <1>1, LoopingKept
  <2>3. find_by_hash(todo[1][2])' = find_by_hash(todo[1][2])
    BY <1>1 DEF find_by_hash
  <2> QED
    BY <1>1, <2>1, <2>2, <2>3 DEF PathsPart, Writing
<1> QED
  BY <1>2, <1>3, <1>4 DEF PathsPart

LEMMA PathsInit ==
  ASSUME Init
  PROVE  PathsInv
<1>1. /\ db = [tables |-> {}, map |-> <<>>, sample |-> <<>>,
               module |-> {}, func |-> {}, block |-> {}, inst |-> {}, edge |-> {},
               inst_annot |-> {}, block_annot |-> <<>>, func_annot |-> <<>>,
               module_annot |-> <<>>, path |-> <<>>]
      /\ command = "none" /\ search = NoSearch
      /\ history = [partial |-> {}, reused |-> FALSE, counted |-> FALSE, searched |-> {}]
  BY DEF Init
<1>2. /\ db.sample = <<>> /\ db.func = {} /\ db.edge = {} /\ db.inst = {} /\ db.inst_annot = {}
      /\ db.block_annot = <<>> /\ db.path = <<>> /\ "searched" \in DOMAIN history /\ history.searched = {}
  BY <1>1
<1>3. Range(<<>>) = {} /\ DOMAIN <<>> = {} /\ <<>> \in Seq({}) /\ IsFiniteSet({})
  BY FS_EmptySet DEF Range
<1>4. Linked
  BY <1>1, <1>2 DEF Linked
<1>5. Rated
  BY <1>2, <1>3 DEF Rated
<1>6. Seeking
  <2>1. /\ {"funcs", "queue", "paths"} \subseteq DOMAIN NoSearch
        /\ NoSearch.funcs = {} /\ NoSearch.queue = {} /\ NoSearch.paths = <<>>
    BY DEF NoSearch
  <2> QED
    BY <1>1, <1>3, <2>1 DEF Seeking
<1>7. Writing
  BY <1>1 DEF Writing
<1>8. PathsStored
  BY <1>2, <1>3 DEF PathsStored
<1> QED
  BY <1>4, <1>5, <1>6, <1>7, <1>8, DisasmInit DEF PathsInv

LEMMA PathsNext ==
  ASSUME PathsInv, [Next]_vars
  PROVE  PathsInv'
<1>0. DisasmInv /\ Linked /\ Rated /\ PathsPart
  BY DEF PathsInv, PathsPart
<1>1. DisasmInv' /\ Linked' /\ Rated'
  BY <1>0, DisasmNext, TablesNext
<1>2. PathsPart'
  <2>1. CASE UNCHANGED vars
    BY <1>0, <2>1, PathsUnchanged
  <2>2. ASSUME NEW pid \in Pids, StartSample(pid) PROVE PathsPart'
    BY <1>0, <2>2, PathsStartSample
  <2>3. CASE \E m \in Modules : \E f \in Functions(m) : \E i \in DOMAIN Code(m, f) : Sample(m, f, i)
    BY <1>0, <2>3, PathsSample
  <2>4. CASE EndSample \/ StartCount \/ StartAnnotate \/ EndCommand
    BY <1>0, <2>4, PathsIdle
  <2>5. CASE \E ms \in {{}} \cup {{m} : m \in Modules} : StartDisasm(ms)
    BY <1>0, <2>5, PathsStartDisasm
  <2>6. CASE (\E scope \in form.scopes : StartSearch(scope)) \/ SearchNext \/ SearchEnd
    BY <1>0, <2>6, PathsSearch
  <2>7. CASE Statement /\ command = "search"
    BY <1>0, <2>7, SearchStatement DEF PathsPart
  <2>8. CASE Statement /\ command # "search"
    BY <1>0, <2>8, OtherPaths DEF PathsPart
  <2>9. CASE Kill
    BY <1>0, <2>9, PathsKill
  <2>10. CASE Terminated
    BY <2>1, <2>10 DEF Terminated
  <2> QED
    BY <2>1, <2>2, <2>3, <2>4, <2>5, <2>6, <2>7, <2>8, <2>9, <2>10 DEF Next
<1> QED
  BY <1>1, <1>2 DEF PathsInv, PathsPart

\* Whatever the user does and whichever commands are killed, a search has found a
\* loop or has the first part of it in its queue, and what it has found is in the
\* table or in the statements that are left.
THEOREM PathsInvAlways == Spec => []PathsInv
<1>1. Init => PathsInv
  BY PathsInit
<1>2. PathsInv /\ [Next]_vars => PathsInv'
  BY PathsNext
<1> QED
  BY <1>1, <1>2, PTL DEF Spec

LEMMA PathsAre ==
  ASSUME PathsInv
  PROVE  PathsExact
<1>1. PathsStored /\ Typed /\ Linked /\ Sound
  BY DEF PathsInv, DisasmInv
<1> DEFINE Rows(g) == {p \in Range(db.path) : p # <<>> /\ FuncOf(p[1]) = g}
<1>2. ASSUME NEW g \in history.searched, g[1] \in Complete
      PROVE  {Range(p) : p \in Rows(g)} = {BlocksAt(g, Range(p)) : p \in Loops(g[1], g[2])}
  <2>1. g \in db.func /\ g[1] \notin history.partial
    BY <1>1, <1>2 DEF PathsStored, Complete
  <2>2. PICK m \in db.module : \E f \in Functions(m) : g = <<m, f>>
    BY <1>1, <2>1 DEF Linked
  <2>3. m \in Modules /\ g[2] \in Functions(m) /\ g = <<m, g[2]>> /\ g[1] = m
    BY <1>1, <2>2 DEF Sound
  <2>4. ASSUME NEW p \in Rows(g)
        PROVE  \E q \in Loops(g[1], g[2]) : Range(p) = BlocksAt(g, Range(q))
    <3>1. Looping(p) /\ FuncOf(p[1]) = g
      BY <1>1 DEF PathsStored
    <3> QED
      BY <2>1, <3>1 DEF Looping
  <2>5. ASSUME NEW q \in Loops(g[1], g[2])
        PROVE  \E p \in Rows(g) : Range(p) = BlocksAt(g, Range(q))
    <3>1. PICK p \in Range(db.path) : Range(p) = BlocksAt(g, Range(q))
      BY <1>1, <2>1 DEF PathsStored
    <3>2. Walk(m, g[2], q)
      BY <1>1, <2>3, LoopWalk
    <3>3. 1 \in DOMAIN q
      BY <3>2, WalkLast
    <3>4. BlocksAt(g, Range(q)) # {}
      BY <3>3 DEF BlocksAt, Range
    <3>5. p # <<>>
      <4>1. Range(<<>>) = {}
        BY DEF Range
      <4> QED
        BY <3>1, <3>4, <4>1
    <3>6. Looping(p)
      BY <1>1, <3>5 DEF PathsStored
    <3>7. p[1] \in Range(p)
      BY <3>6 DEF Looping
    <3>8. FuncOf(p[1]) = g
      BY <2>3, <3>1, <3>7 DEF BlocksAt, FuncOf
    <3> QED
      BY <3>1, <3>5, <3>8
  <2> HIDE DEF Rows
  <2> QED
    BY <2>4, <2>5
<1>3. \A k, l \in DOMAIN db.path : db.path[k] # <<>> /\ Range(db.path[k]) = Range(db.path[l]) => k = l
  BY <1>1 DEF PathsStored
<1> QED
  BY <1>2, <1>3 DEF PathsExact

\* For every program, user and script: a search without limits stores every loop
\* of the functions it was given, nothing else, and each of them once.
THEOREM PathsExactAlways == Spec => []PathsExact
<1>1. PathsInv => PathsExact
  BY PathsAre
<1> QED
  BY <1>1, PathsInvAlways, PTL
-----------------------------------------------------------------------------
(* What a count leaves.  Sums of the sizes of disjoint sets.               *)

Sized(v, T, S) == \A x \in S : IsFiniteSet(T[x]) /\ v[x] = Cardinality(T[x])
Parted(T, S) == \A x \in S : \A y \in S : x # y => T[x] \cap T[y] = {}

Joined(T, S) == UNION {T[x] : x \in S}

LEMMA SumsUnion ==
  ASSUME NEW v, NEW T, NEW S, IsFiniteSet(S), Sized(v, T, S), Parted(T, S), NEW f, Sums(f, v, S)
  PROVE  IsFiniteSet(Joined(T, S)) /\ f[S] = Cardinality(Joined(T, S))
<1> DEFINE U(s) == UNION {T[x] : x \in s}
           C == {s \in SUBSET S : ~ (IsFiniteSet(U(s)) /\ f[s] = Cardinality(U(s)))}
<1> SUFFICES ASSUME C # {} PROVE FALSE
  BY DEF Joined
<1>1. \E m \in C : \A t \in C : t \subseteq m => t = m
  <2>1. C \subseteq SUBSET S
    OBVIOUS
  <2> HIDE DEF C
  <2> QED
    BY <2>1, Smallest
<1>2. PICK m \in C : \A t \in C : t \subseteq m => t = m
  BY <1>1
<1>3. f[m] = IF m = {} THEN 0 ELSE v[Pick(m)] + f[Others(m)]
  BY SumsAt
<1>4. m # {}
  <2>1. CASE m = {}
    <3>1. U(m) = {}
      BY <2>1
    <3>2. IsFiniteSet(U(m)) /\ Cardinality(U(m)) = 0
      BY <3>1, FS_EmptySet
    <3> QED
      BY <1>2, <1>3, <2>1, <3>2
  <2> QED
    BY <2>1
<1> DEFINE a == Pick(m)
           r == Others(m)
<1>5. a \in m /\ a \in S /\ r \in SUBSET S /\ r \notin C /\ a \notin r /\ m = {a} \cup r
  <2>1. a \in m /\ r \subseteq m /\ r # m /\ r = m \ {a}
    BY <1>4, Picked DEF Others
  <2>2. m \in SUBSET S /\ \A t \in C : t \subseteq m => t = m
    BY <1>2
  <2> HIDE DEF C, a, r
  <2> QED
    BY <2>1, <2>2
<1>6. IsFiniteSet(U(r)) /\ f[r] = Cardinality(U(r)) /\ IsFiniteSet(T[a]) /\ v[a] = Cardinality(T[a])
  BY <1>5 DEF Sized
<1> HIDE DEF a, r
<1>7. U(m) = T[a] \cup U(r)
  BY <1>5
<1>8. T[a] \cap U(r) = {}
  BY <1>5 DEF Parted
<1>9. IsFiniteSet(U(m)) /\ Cardinality(U(m)) = Cardinality(T[a]) + Cardinality(U(r))
  <2> HIDE DEF U
  <2>1. Cardinality(T[a]) \in Nat /\ Cardinality(U(r)) \in Nat
    BY <1>6, FS_CardinalityType
  <2>2. Cardinality(T[a] \cap U(r)) = 0
    BY <1>8, FS_EmptySet
  <2>3. IsFiniteSet(T[a] \cup U(r)) /\
        Cardinality(T[a] \cup U(r)) = Cardinality(T[a]) + Cardinality(U(r)) - Cardinality(T[a] \cap U(r))
    BY <1>6, FS_Union
  <2> QED
    BY <1>7, <2>1, <2>2, <2>3
<1>10. f[m] = Cardinality(U(m))
  BY <1>3, <1>4, <1>6, <1>9 DEF a, r
<1> QED
  BY <1>2, <1>9, <1>10

\* The counts of rows, and of the entries of a table, that count disjoint sets.
LEMMA RowsUnion ==
  ASSUME NEW S, IsFiniteSet(S), NEW T, \A row \in S : IsFiniteSet(T[row]) /\ row.count = Cardinality(T[row]), Parted(T, S)
  PROVE  MapThenSumSet(LAMBDA row : row.count, S) = Cardinality(Joined(T, S))
<1> DEFINE v == [x \in S |-> x.count]
           Body(f) == f = [s \in SUBSET S |-> IF s = {} THEN 0 ELSE Pick(s).count + f[Others(s)]]
<1>1. \A f : Sums(f, v, S) <=> Body(f)
  <2> TAKE f
  <2>1. \A s \in SUBSET S : s # {} => v[Pick(s)] = Pick(s).count
    BY Picked
  <2> QED
    BY <2>1 DEF Sums
<1>2. ASSUME NEW f, Body(f) PROVE f[S] = Cardinality(Joined(T, S))
  <2>1. Sized(v, T, S)
    BY DEF Sized
  <2>2. Sums(f, v, S)
    BY <1>1, <1>2
  <2> HIDE DEF v, Body
  <2> QED
    BY <2>1, <2>2, SumsUnion, ZenonT(60)
<1>3. \E f : Body(f)
  BY <1>1, SumsExist
<1>4. \E f : Body(f) /\ MapThenSumSet(LAMBDA row : row.count, S) = f[S]
  BY <1>3, Zenon DEF MapThenSumSet, MapThenFoldSet, Pick, Others
<1> HIDE DEF Body
<1> QED
  BY <1>2, <1>4, Zenon

LEMMA TableUnion ==
  ASSUME NEW table, NEW S, IsFiniteSet(S), NEW T,
         \A x \in S : IsFiniteSet(T[x]) /\ table[x].count = Cardinality(T[x]), Parted(T, S)
  PROVE  countOf(table, S) = Cardinality(Joined(T, S))
<1> DEFINE v == [x \in S |-> table[x].count]
           Body(f) == f = [s \in SUBSET S |-> IF s = {} THEN 0 ELSE table[Pick(s)].count + f[Others(s)]]
<1>1. \A f : Sums(f, v, S) <=> Body(f)
  <2> TAKE f
  <2>1. \A s \in SUBSET S : s # {} => v[Pick(s)] = table[Pick(s)].count
    BY Picked
  <2> QED
    BY <2>1 DEF Sums
<1>2. ASSUME NEW f, Body(f) PROVE f[S] = Cardinality(Joined(T, S))
  <2>1. Sized(v, T, S)
    BY DEF Sized
  <2>2. Sums(f, v, S)
    BY <1>1, <1>2
  <2> HIDE DEF v, Body
  <2> QED
    BY <2>1, <2>2, SumsUnion, ZenonT(60)
<1>3. \E f : Body(f)
  BY <1>1, SumsExist
<1>4. \E f : Body(f) /\ countOf(table, S) = f[S]
  BY <1>3, Zenon DEF countOf, MapThenSumSet, MapThenFoldSet, Pick, Others
<1> HIDE DEF Body
<1> QED
  BY <1>2, <1>4, Zenon
-----------------------------------------------------------------------------
(* Where the modules are.                                                  *)

LEMMA GreatestOf ==
  ASSUME NEW C, C \subseteq Nat, C # {}, NEW b \in Nat, \A n \in C : n <= b
  PROVE  IsGreatest(Max(C), C)
<1> DEFINE D == {b - n : n \in C}
<1>1. D \subseteq Nat /\ D # {}
  <2>1. \A n \in C : b - n \in Nat
    <3> TAKE n \in C
    <3>1. n \in Nat /\ n <= b
      OBVIOUS
    <3> QED
      BY <3>1
  <2> QED
    BY <2>1
<1>2. PICK d \in D : \A e \in D : d <= e
  <2> HIDE DEF D
  <2> QED
    BY <1>1, Least
<1>3. PICK m \in C : d = b - m
  OBVIOUS
<1>4. \A n \in C : m >= n
  <2> TAKE n \in C
  <2>1. b - n \in D
    OBVIOUS
  <2>2. b - m <= b - n
    BY <1>2, <1>3, <2>1
  <2> QED
    BY <2>2
<1>5. \E x \in C : \A y \in C : x >= y
  BY <1>4
<1>6. Max(C) \in C /\ \A y \in C : Max(C) >= y
  BY <1>5, Zenon DEF Max
<1>7. Max(C) \in Nat /\ \A y \in C : y \in Nat
  BY <1>6
<1> QED
  BY <1>6, <1>7 DEF IsGreatest

LEMMA AddressesOf ==
  ASSUME Typed, NEW m \in Modules
  PROVE  /\ Addresses(m) \subseteq Nat
         /\ Addresses(m) = UNION {AddrsOf(objects[m][f]) : f \in DOMAIN objects[m]}
         /\ \A f \in Functions(m) : \A i \in DOMAIN Code(m, f) :
              Code(m, f)[i].addr \in Addresses(m) /\ Code(m, f)[i].addr \in AddrsOf(objects[m][f])
<1>1. \A f \in Functions(m) : Assembled(Code(m, f))
  BY GraphOf
<1>2. \A f \in Functions(m) : \A inst \in Range(Code(m, f)) : inst.addr \in Nat
  <2> TAKE f \in Functions(m)
  <2>1. \A i \in 1 .. Len(Code(m, f)) : Code(m, f)[i] \in Inst
    BY <1>1, PlacesOf DEF Places
  <2>2. DOMAIN Code(m, f) = 1 .. Len(Code(m, f))
    BY <1>1, PlacesOf DEF Places
  <2> QED
    BY <2>1, <2>2 DEF Range, Inst
<1>3. Addresses(m) \subseteq Nat
  BY <1>2 DEF Addresses, AddrsOf
<1>4. Addresses(m) = UNION {AddrsOf(objects[m][f]) : f \in DOMAIN objects[m]}
  BY DEF Addresses, Functions, Code
<1>5. ASSUME NEW f \in Functions(m), NEW i \in DOMAIN Code(m, f)
      PROVE  Code(m, f)[i].addr \in Addresses(m) /\ Code(m, f)[i].addr \in AddrsOf(objects[m][f])
  <2>1. Code(m, f)[i] \in Range(Code(m, f))
    BY DEF Range
  <2>2. Code(m, f)[i].addr \in AddrsOf(Code(m, f))
    BY <2>1 DEF AddrsOf
  <2>3. AddrsOf(Code(m, f)) \subseteq Addresses(m)
    BY DEF Addresses
  <2> QED
    BY <2>2, <2>3 DEF Code
<1> QED
  BY <1>3, <1>4, <1>5

\* Where a module is in a process.
LEMMA BiasOf ==
  ASSUME Typed, NEW pid \in Pids, NEW m \in MappedIn(pid), NEW lines, lines = Layout[pid].lines,
         NEW bias, bias = Layout[pid].bias[m]
  PROVE  /\ m \in Modules /\ Addresses(m) \subseteq Nat /\ bias \in Nat
         /\ bias = 0 \/ \A addr \in Addresses(m) : addr < bias
         /\ \A addr \in Addresses(m) : \E k \in DOMAIN lines :
              lines[k].path = m /\ m # Anonymous /\ Has(lines[k], addr + bias)
<1>1. PICK user \in Users : objects = user.objects
  BY DEF Typed
<1>2. m \in DOMAIN Layout[pid].bias \cap DOMAIN user.objects /\ m \in Modules
  BY <1>1 DEF MappedIn, Modules
<1>3. Addresses(m) = UNION {AddrsOf(user.objects[m][f]) : f \in DOMAIN user.objects[m]} /\ Addresses(m) \subseteq Nat
  BY <1>1, <1>2, AddressesOf
<1>4. LET addrs == UNION {AddrsOf(user.objects[m][f]) : f \in DOMAIN user.objects[m]}
      IN  /\ bias \in Nat /\ (bias = 0 \/ \A addr \in addrs : addr < bias)
          /\ \A addr \in addrs : \E k \in DOMAIN lines :
               lines[k].path = m /\ m # Anonymous /\ Has(lines[k], addr + bias)
  <2>1. LET addrs == UNION {AddrsOf(user.objects[m][f]) : f \in DOMAIN user.objects[m]}
        IN  /\ Layout[pid].bias[m] \in Nat
            /\ Layout[pid].bias[m] = 0 \/ \A addr \in addrs : addr < Layout[pid].bias[m]
            /\ \A addr \in addrs : \E k \in DOMAIN Layout[pid].lines :
                 /\ Layout[pid].lines[k].path = m /\ m # Anonymous
                 /\ Has(Layout[pid].lines[k], addr + Layout[pid].bias[m])
    BY <1>2, LayoutAssumption, Zenon
  <2> QED
    BY <2>1, Zenon
<1> QED
  BY <1>2, <1>3, <1>4, Zenon

\* An address is in one mapping.
LEMMA OneLine ==
  ASSUME NEW pid \in Pids, NEW lines, lines = Layout[pid].lines, NEW ip \in Nat,
         NEW k \in DOMAIN lines, NEW l \in DOMAIN lines, Has(lines[k], ip), Has(lines[l], ip)
  PROVE  k = l
<1>1. DOMAIN lines = 1 .. Len(lines) /\ Len(lines) \in Nat
  BY LinesOf
<1>2. /\ lines[k].begin \in Nat /\ lines[k].end \in Nat /\ (k < l => lines[k].end <= lines[l].begin)
      /\ lines[l].begin \in Nat /\ lines[l].end \in Nat /\ (l < k => lines[l].end <= lines[k].begin)
  BY LinesOf
<1>3. k \in Nat /\ l \in Nat
  BY <1>1
<1>4. /\ lines[k].begin <= ip /\ ip < lines[k].end
      /\ lines[l].begin <= ip /\ ip < lines[l].end
  BY DEF Has
<1> HIDE DEF Has
<1> QED
  BY <1>2, <1>3, <1>4

\* The row of a mapping with a path of its own.
LEMMA RowOf ==
  ASSUME NEW pid \in Pids, NEW lines, lines = Layout[pid].lines, NEW k \in DOMAIN lines
  PROVE  LET row == insert_maps(pid)[k]
         IN  /\ DOMAIN insert_maps(pid) = DOMAIN lines
             /\ row.pid = pid /\ row.begin = lines[k].begin /\ row.end = lines[k].end
             /\ lines[k].path # Anonymous => row.path = lines[k].path
<1>1. /\ DOMAIN insert_maps(pid) = DOMAIN lines
      /\ insert_maps(pid)[k] = [pid |-> pid, path |-> pathOf(lines, k), perm |-> lines[k].perm,
                                begin |-> lines[k].begin, end |-> lines[k].end]
  BY DEF insert_maps
<1>2. ASSUME lines[k].path # Anonymous PROVE pathOf(lines, k) = lines[k].path
  <2> DEFINE C == {j \in DOMAIN lines : j <= k /\ lines[j].path # Anonymous}
  <2>1. DOMAIN lines = 1 .. Len(lines) /\ Len(lines) \in Nat
    BY LinesOf
  <2>2. k \in Nat /\ C \subseteq Nat /\ k \in C /\ \A n \in C : n <= k
    BY <1>2, <2>1
  <2>3. pathOf(lines, k) = IF C = {} THEN Anonymous ELSE lines[Max(C)].path
    BY DEF pathOf
  <2> HIDE DEF C
  <2>4. IsGreatest(Max(C), C)
    BY <2>2, GreatestOf
  <2>5. Max(C) = k
    <3>1. Max(C) \in Nat /\ Max(C) >= k /\ Max(C) <= k
      BY <2>2, <2>4 DEF IsGreatest
    <3> QED
      BY <2>2, <3>1
  <2> QED
    BY <2>2, <2>3, <2>5
<1> QED
  BY <1>1, <1>2

\* The offset of the mapping with the code of a legible module.
LEMMA OffsetOf ==
  ASSUME Typed, NEW pid \in Pids, NEW m \in MappedIn(pid), NEW a \in Addresses(m),
         NEW line, line.begin \in Nat, line.end \in Nat,
         NEW bias, bias = Layout[pid].bias[m], bias \in {0, line.begin},
         \A addr \in Addresses(m) : Has(line, addr + bias),
         NEW r, r.begin = line.begin, r.end = line.end
  PROVE  offset(m, r) = bias
<1> DEFINE inMap(addr) == r.begin <= addr /\ addr <= r.end
<1>1. /\ Addresses(m) \subseteq Nat /\ bias \in Nat /\ Addresses(m) # {}
      /\ bias = 0 \/ \A addr \in Addresses(m) : addr < bias
  BY BiasOf
<1>2. offset(m, r) = IF inMap(Min(Addresses(m))) /\ inMap(Max(Addresses(m))) THEN 0 ELSE r.begin
  BY DEF offset
<1>3. \A addr \in Addresses(m) : addr \in Nat /\ line.begin <= addr + bias /\ addr + bias < line.end
  BY <1>1 DEF Has
<1>4. Min(Addresses(m)) \in Addresses(m)
  BY <1>1, MinOf DEF IsLeast
<1>5. CASE bias = 0
  <2>1. \A addr \in Addresses(m) : inMap(addr)
    BY <1>3, <1>5
  <2>2. \A addr \in Addresses(m) : addr <= line.end
    BY <1>3, <1>5
  <2>3. Max(Addresses(m)) \in Addresses(m)
    BY <1>1, <2>2, GreatestOf DEF IsGreatest
  <2> QED
    BY <1>2, <1>4, <1>5, <2>1, <2>3
<1>6. CASE bias # 0
  <2>1. bias = line.begin /\ \A addr \in Addresses(m) : addr < line.begin
    BY <1>1, <1>6
  <2>2. ~inMap(Min(Addresses(m)))
    BY <1>1, <1>4, <2>1
  <2> QED
    BY <1>2, <2>1, <2>2
<1> QED
  BY <1>5, <1>6
-----------------------------------------------------------------------------
(* The samples at an address.                                              *)

At(m, a) == {s \in DOMAIN db.sample : db.sample[s].at[1] = m /\ db.sample[s].at[3] = a}

LEMMA RangeAt ==
  ASSUME NEW s, NEW i \in DOMAIN s
  PROVE  s[i] \in Range(s)
BY DEF Range

LEMMA SampleOf ==
  ASSUME Typed, Drawn, NEW s \in DOMAIN db.sample
  PROVE  \E pid \in Pids : \E m \in MappedIn(pid) : \E f \in Functions(m) : \E i \in Reached(Code(m, f)) :
           /\ db.sample[s] = [pid |-> pid, ip |-> Loaded(pid, m, Code(m, f)[i].addr),
                              at |-> <<m, f, Code(m, f)[i].addr>>]
           /\ Range(insert_maps(pid)) \subseteq Range(db.map)
           /\ i \in DOMAIN Code(m, f) /\ m \in Modules /\ Code(m, f)[i].addr \in Addresses(m)
<1>1. DrawnFrom(db.sample[s])
  BY RangeAt DEF Drawn
<1>2. PICK pid \in Pids : \E m \in MappedIn(pid) : \E f \in Functions(m) : \E i \in Reached(Code(m, f)) :
           /\ db.sample[s] = [pid |-> pid, ip |-> Loaded(pid, m, Code(m, f)[i].addr),
                              at |-> <<m, f, Code(m, f)[i].addr>>]
           /\ Range(insert_maps(pid)) \subseteq Range(db.map)
  BY <1>1, Zenon DEF DrawnFrom
<1>3. PICK m \in MappedIn(pid) : \E f \in Functions(m) : \E i \in Reached(Code(m, f)) :
           /\ db.sample[s] = [pid |-> pid, ip |-> Loaded(pid, m, Code(m, f)[i].addr),
                              at |-> <<m, f, Code(m, f)[i].addr>>]
           /\ Range(insert_maps(pid)) \subseteq Range(db.map)
  BY <1>2, Zenon
<1>4. PICK f \in Functions(m) : \E i \in Reached(Code(m, f)) :
           /\ db.sample[s] = [pid |-> pid, ip |-> Loaded(pid, m, Code(m, f)[i].addr),
                              at |-> <<m, f, Code(m, f)[i].addr>>]
           /\ Range(insert_maps(pid)) \subseteq Range(db.map)
  BY <1>3, Zenon
<1>5. PICK i \in Reached(Code(m, f)) :
           /\ db.sample[s] = [pid |-> pid, ip |-> Loaded(pid, m, Code(m, f)[i].addr),
                              at |-> <<m, f, Code(m, f)[i].addr>>]
           /\ Range(insert_maps(pid)) \subseteq Range(db.map)
  BY <1>4, Zenon
<1>6. i \in DOMAIN Code(m, f) /\ m \in Modules
  BY DEF Reached, MappedIn
<1>7. Code(m, f)[i].addr \in Addresses(m)
  BY <1>6, AddressesOf
<1> QED
  BY <1>5, <1>6, <1>7, Zenon

\* The rows of a module that cover a sample: one if it is the module's.
OwnRow(m, x) ==
  /\ x.at[1] = m => \E k \in DOMAIN db.map : covering(m, x) = {k} /\ x.ip - offset(m, db.map[k]) = x.at[3]
  /\ x.at[1] # m => covering(m, x) = {}

\* So it is for a legible module.
LEMMA Covered ==
  ASSUME Typed, Located, Drawn, ~history.reused, NEW m, Legible(m),
         NEW s \in DOMAIN db.sample, NEW x, x = db.sample[s]
  PROVE  OwnRow(m, x)
<1>1. PICK pid \in Pids : \E n \in MappedIn(pid) : \E f \in Functions(n) : \E i \in Reached(Code(n, f)) :
           /\ x = [pid |-> pid, ip |-> Loaded(pid, n, Code(n, f)[i].addr), at |-> <<n, f, Code(n, f)[i].addr>>]
           /\ Range(insert_maps(pid)) \subseteq Range(db.map)
           /\ Code(n, f)[i].addr \in Addresses(n)
  BY SampleOf, Zenon
<1>2. PICK n \in MappedIn(pid) : \E f \in Functions(n) : \E i \in Reached(Code(n, f)) :
           /\ x = [pid |-> pid, ip |-> Loaded(pid, n, Code(n, f)[i].addr), at |-> <<n, f, Code(n, f)[i].addr>>]
           /\ Range(insert_maps(pid)) \subseteq Range(db.map)
           /\ Code(n, f)[i].addr \in Addresses(n)
  BY <1>1, Zenon
<1>3. PICK f, a : /\ x = [pid |-> pid, ip |-> Loaded(pid, n, a), at |-> <<n, f, a>>]
                  /\ Range(insert_maps(pid)) \subseteq Range(db.map) /\ a \in Addresses(n)
  BY <1>2, Zenon
<1> DEFINE lines == Layout[pid].lines
           bias == Layout[pid].bias[n]
           maps == insert_maps(pid)
<1>4. x.pid = pid /\ x.ip = Loaded(pid, n, a) /\ x.at[1] = n /\ x.at[3] = a
  BY <1>3
<1>5. Addresses(n) \subseteq Nat /\ bias \in Nat /\ a \in Nat
  BY <1>3, BiasOf
<1>6. x.ip = a + bias /\ x.ip \in Nat
  BY <1>4, <1>5 DEF Loaded
<1>7. PICK j \in DOMAIN lines : lines[j].path = n /\ n # Anonymous /\ Has(lines[j], a + bias)
  BY <1>3, BiasOf
<1> HIDE DEF lines, bias, maps
<1>8. /\ DOMAIN maps = DOMAIN lines
      /\ maps[j].pid = pid /\ maps[j].begin = lines[j].begin /\ maps[j].end = lines[j].end
      /\ maps[j].path = n
  BY <1>7, RowOf DEF lines, maps
<1>9. ASSUME NEW k \in covering(m, x) PROVE n = m /\ k \in DOMAIN db.map /\ db.map[k] = maps[j]
  <2> DEFINE r == db.map[k]
  <2>1. k \in DOMAIN db.map /\ r.path = m /\ r.pid = pid /\ r.begin <= x.ip /\ x.ip <= r.end
    BY <1>4 DEF covering
  <2> HIDE DEF r
  <2>2. r \in Range(db.map)
    BY <2>1, RangeAt DEF r
  <2>3. PICK q \in Pids : r \in Range(insert_maps(q))
    BY <2>2 DEF Located
  <2>4. PICK l \in DOMAIN insert_maps(q) : r = insert_maps(q)[l]
    BY <2>3 DEF Range
  <2>5. l \in DOMAIN Layout[q].lines
    BY <2>4 DEF insert_maps
  <2>6. r.pid = q
    BY <2>4, <2>5, RowOf
  <2>7. q = pid /\ l \in DOMAIN lines /\ r = maps[l] /\ r \in Range(maps)
    BY <2>1, <2>3, <2>4, <2>5, <2>6 DEF lines, maps
  <2>8. r.begin = lines[l].begin /\ r.end = lines[l].end
    BY <2>7, RowOf DEF lines, maps
  <2>9. x.ip # r.end
    <3>1. \A o \in MappedIn(pid) : \A addr \in Addresses(o) : Loaded(pid, o, addr) # r.end
      BY <2>1, <2>7, Zenon DEF Legible, maps
    <3> QED
      BY <1>3, <1>4, <3>1
  <2>10. lines[l].begin \in Nat /\ lines[l].end \in Nat
    BY <2>7, LinesOf DEF lines
  <2>11. Has(lines[l], x.ip)
    BY <1>6, <2>1, <2>8, <2>9, <2>10 DEF Has
  <2>12. l = j
    <3>1. Has(lines[j], x.ip)
      BY <1>6, <1>7
    <3>2. l \in DOMAIN lines /\ j \in DOMAIN lines /\ x.ip \in Nat /\ lines = Layout[pid].lines
      BY <1>6, <2>7 DEF lines
    <3> QED
      BY <2>11, <3>1, <3>2, OneLine, Zenon
  <2> QED
    BY <1>8, <2>1, <2>7, <2>12 DEF r
<1>10. ASSUME n = m
       PROVE  \E k \in DOMAIN db.map : covering(m, x) = {k} /\ x.ip - offset(m, db.map[k]) = a
  <2>1. maps[j] \in Range(db.map)
    BY <1>3, <1>7, <1>8, RangeAt DEF maps
  <2>2. PICK k \in DOMAIN db.map : db.map[k] = maps[j]
    BY <2>1 DEF Range
  <2>3. lines[j].begin \in Nat /\ lines[j].end \in Nat
    BY <1>7, LinesOf DEF lines
  <2>4. k \in covering(m, x)
    BY <1>4, <1>6, <1>7, <1>8, <1>10, <2>2, <2>3 DEF covering, Has
  <2>5. \A l \in covering(m, x) : l = k
    BY <1>9, <2>2 DEF Located
  <2>6. covering(m, x) = {k}
    BY <2>4, <2>5
  <2>7. PICK i \in DOMAIN lines : bias \in {0, lines[i].begin} /\ \A addr \in Addresses(m) : Has(lines[i], addr + bias)
    <3>1. m \in DOMAIN Layout[pid].bias
      BY <1>10 DEF MappedIn
    <3> QED
      BY <1>10, <3>1, Zenon DEF Legible, lines, bias
  <2>8. i = j
    <3>1. Has(lines[i], x.ip)
      BY <1>3, <1>6, <1>10, <2>7
    <3>2. Has(lines[j], x.ip) /\ x.ip \in Nat /\ lines = Layout[pid].lines
      BY <1>6, <1>7 DEF lines
    <3> QED
      BY <3>1, <3>2, OneLine, Zenon
  <2>9. offset(m, maps[j]) = bias
    BY <1>3, <1>8, <1>10, <2>3, <2>7, <2>8, OffsetOf DEF bias
  <2>10. x.ip - offset(m, db.map[k]) = a
    BY <1>5, <1>6, <2>2, <2>9
  <2> QED
    BY <2>6, <2>10
<1> QED
  BY <1>4, <1>9, <1>10 DEF OwnRow

\* The greatest and the least of one.
LEMMA TakenOne ==
  ASSUME NEW k \in Nat
  PROVE  taken({k}) = k
<1>1. IsLeast(Min({k}), {k})
  BY MinOf
<1>2. IsGreatest(Max({k}), {k})
  BY GreatestOf
<1> QED
  BY <1>1, <1>2 DEF IsLeast, IsGreatest, taken

LEMMA SamplesFinite ==
  ASSUME Rated
  PROVE  IsFiniteSet(DOMAIN db.sample)
BY FiniteSeq DEF Rated, IsSeq

LEMMA GroupedExact ==
  ASSUME Typed, Rated, Located, Drawn, ~history.reused, NEW m, Legible(m), NEW a
  PROVE  IsFiniteSet(At(m, a)) /\ sample_grouped(m, a) = Cardinality(At(m, a))
<1> DEFINE P == (DOMAIN db.map) \X (DOMAIN db.sample)
           K == {k \in P : LET s == db.sample[k[2]]
                           IN  /\ k[1] \in covering(m, s)
                               /\ s.ip - offset(m, db.map[taken(covering(m, s))]) = a}
           g == [k \in K |-> k[2]]
<1>1. IsFiniteSet(P)
  BY SamplesFinite, FiniteSeq, FS_Product DEF Typed, Mapped, IsSeq
<1>2. IsFiniteSet(K)
  <2>1. K \in SUBSET P
    OBVIOUS
  <2> HIDE DEF P, K
  <2> QED
    BY <1>1, <2>1, FS_Subset
<1>3. ASSUME NEW k \in P
      PROVE  k \in K <=> k[2] \in At(m, a) /\ covering(m, db.sample[k[2]]) = {k[1]}
  <2> DEFINE x == db.sample[k[2]]
             c == covering(m, x)
  <2>1. k[1] \in DOMAIN db.map /\ k[2] \in DOMAIN db.sample
    OBVIOUS
  <2>2. /\ x.at[1] = m => \E l \in DOMAIN db.map : c = {l} /\ x.ip - offset(m, db.map[l]) = x.at[3]
        /\ x.at[1] # m => c = {}
    <3>0. PICK s \in DOMAIN db.sample : s = k[2]
      BY <2>1
    <3>1. PICK y : y = db.sample[s]
      OBVIOUS
    <3>2. OwnRow(m, y)
      BY <3>1, Covered
    <3>3. x = y /\ c = covering(m, y)
      BY <3>0, <3>1
    <3> HIDE DEF x, c, K, P
    <3> QED
      BY <3>2, <3>3 DEF OwnRow
  <2>3. k \in K <=> k[1] \in c /\ x.ip - offset(m, db.map[taken(c)]) = a
    OBVIOUS
  <2>4. k[2] \in At(m, a) <=> x.at[1] = m /\ x.at[3] = a
    BY <2>1 DEF At
  <2>5. DOMAIN db.map \subseteq Nat
    BY DEF Typed, Mapped
  <2> HIDE DEF x, c, K, P
  <2>6. CASE x.at[1] # m
    BY <2>2, <2>3, <2>4, <2>6
  <2>7. CASE x.at[1] = m
    <3>1. PICK l \in DOMAIN db.map : c = {l} /\ x.ip - offset(m, db.map[l]) = x.at[3]
      BY <2>2, <2>7
    <3>2. taken(c) = l
      BY <2>5, <3>1, TakenOne
    <3>3. k \in K <=> k[1] = l /\ x.at[3] = a
      BY <2>3, <3>1, <3>2
    <3> QED
      BY <2>4, <2>7, <3>1, <3>3 DEF c, x
  <2> QED
    BY <2>6, <2>7
<1>4. g \in [K -> At(m, a)]
  <2>1. ASSUME NEW k \in K PROVE g[k] \in At(m, a)
    <3>1. k \in P
      OBVIOUS
    <3>2. g[k] = k[2]
      OBVIOUS
    <3> HIDE DEF K, P, g
    <3> QED
      BY <1>3, <3>1, <3>2
  <2> QED
    BY <2>1
<1>5. ASSUME NEW s \in At(m, a) PROVE \E k \in K : g[k] = s
  <2>1. s \in DOMAIN db.sample /\ db.sample[s].at[1] = m
    BY DEF At
  <2>2. PICK k \in DOMAIN db.map : covering(m, db.sample[s]) = {k}
    <3>1. PICK x : x = db.sample[s]
      OBVIOUS
    <3>2. x.at[1] = m => \E k \in DOMAIN db.map : covering(m, x) = {k} /\ x.ip - offset(m, db.map[k]) = x.at[3]
      BY <2>1, <3>1, Covered DEF OwnRow
    <3> QED
      BY <2>1, <3>1, <3>2
  <2>3. <<k, s>> \in P /\ <<k, s>>[1] = k /\ <<k, s>>[2] = s
    BY <2>1
  <2>4. <<k, s>> \in K
    <3> HIDE DEF K, P, g
    <3> QED
      BY <1>3, <2>2, <2>3
  <2>5. g[<<k, s>>] = s
    BY <2>3, <2>4
  <2> QED
    BY <2>4, <2>5
<1>6. ASSUME NEW k \in K, NEW l \in K, g[k] = g[l] PROVE k = l
  <2>0. k \in P /\ l \in P
    OBVIOUS
  <2>5. g[k] = k[2] /\ g[l] = l[2]
    OBVIOUS
  <2>6. \A p \in P : p = <<p[1], p[2]>>
    OBVIOUS
  <2> HIDE DEF K, P, g
  <2>1. k = <<k[1], k[2]>> /\ l = <<l[1], l[2]>> /\ k[2] = l[2]
    BY <1>6, <2>0, <2>6, <2>5
  <2>3. covering(m, db.sample[k[2]]) = {k[1]} /\ covering(m, db.sample[k[2]]) = {l[1]}
    BY <1>3, <2>0, <2>1
  <2>4. k[1] = l[1]
    BY <2>3
  <2> QED
    BY <2>1, <2>4
<1>7. g \in Surjection(K, At(m, a)) /\ g \in Injection(K, At(m, a))
  <2> HIDE DEF K, g
  <2> QED
    BY <1>4, <1>5, <1>6 DEF Surjection, Injection, IsInjective
<1>8. sample_grouped(m, a) = Cardinality(K)
  BY DEF sample_grouped
<1> HIDE DEF K, g
<1> QED
  BY <1>2, <1>7, <1>8, FS_Surjection
-----------------------------------------------------------------------------
(* The three steps of a count.                                             *)

Settled == DisasmInv /\ Rated /\ Located /\ Drawn /\ command # "disasm"

LEMMA StoredWhole ==
  ASSUME Settled, NEW m \in Stored
  PROVE  m \in Complete /\ m \in db.module /\ m \in Modules /\ ~history.reused /\ Legible(m)
<1>1. m \in db.module \ history.partial /\ ~history.reused /\ Legible(m)
  BY DEF Stored
<1> QED
  BY <1>1 DEF Complete, Settled, DisasmInv, Sound

\* An instruction in the tables is of its block.
LEMMA InstIn ==
  ASSUME Settled, NEW i \in db.inst
  PROVE  \E m \in Modules : \E f \in Functions(m) : \E k \in DOMAIN Graph(m, f) :
           /\ i.block = <<m, f, k>> /\ i = [block |-> i.block, addr |-> i.addr]
           /\ i.addr \in AddrsOf(objects[m][f])
<1>1. PICK m \in Modules : \E f \in Functions(m) : \E k \in DOMAIN Graph(m, f) : i \in InstsOf(m, f, k)
  BY DEF Settled, DisasmInv, Sound
<1>2. PICK f \in Functions(m) : \E k \in DOMAIN Graph(m, f) : i \in InstsOf(m, f, k)
  BY <1>1
<1>3. PICK k \in DOMAIN Graph(m, f) : i \in InstsOf(m, f, k)
  BY <1>2
<1>4. PICK inst \in Range(Graph(m, f)[k]) : i = [block |-> <<m, f, k>>, addr |-> inst.addr]
  BY <1>3 DEF InstsOf
<1>5. i.block = <<m, f, k>> /\ i.addr = inst.addr
  BY <1>4
<1>6. inst \in Range(Code(m, f))
  <2> DEFINE insts == Code(m, f)
  <2>1. Assembled(insts)
    BY GraphOf DEF Settled, DisasmInv
  <2>2. k \in Heads(insts) /\ Graph(m, f)[k] = build_blocks(insts)[k]
    BY DEF Graph, link_blocks
  <2>3. PICK j \in k .. Final(insts, k) : inst = insts[j]
    BY <2>1, <2>2, Block
  <2>4. k \in 1 .. Len(insts) /\ Final(insts, k) \in k .. Len(insts) /\ DOMAIN insts = 1 .. Len(insts) /\ Len(insts) \in Nat
    BY <2>1, <2>2, HeadsOf, FinalOf, PlacesOf DEF Places
  <2>5. j \in DOMAIN insts
    BY <2>4
  <2> QED
    BY <2>3, <2>5, RangeAt
<1>7. i.addr \in AddrsOf(objects[m][f])
  BY <1>5, <1>6 DEF AddrsOf, Code
<1> QED
  BY <1>4, <1>5, <1>7

\* A sample of a module is of an instruction that can be reached.
LEMMA SampleIn ==
  ASSUME Settled, NEW s \in DOMAIN db.sample
  PROVE  \E m \in Modules : \E f \in Functions(m) : \E i \in Reached(Code(m, f)) :
           /\ db.sample[s].at = <<m, f, Code(m, f)[i].addr>>
           /\ i \in DOMAIN Code(m, f) /\ Code(m, f)[i].addr \in AddrsOf(objects[m][f])
<1>1. PICK pid \in Pids : \E m \in MappedIn(pid) : \E f \in Functions(m) : \E i \in Reached(Code(m, f)) :
           /\ db.sample[s] = [pid |-> pid, ip |-> Loaded(pid, m, Code(m, f)[i].addr),
                              at |-> <<m, f, Code(m, f)[i].addr>>]
           /\ i \in DOMAIN Code(m, f) /\ m \in Modules
  BY SampleOf, Zenon DEF Settled, DisasmInv
<1>2. PICK m \in MappedIn(pid) : \E f \in Functions(m) : \E i \in Reached(Code(m, f)) :
           /\ db.sample[s] = [pid |-> pid, ip |-> Loaded(pid, m, Code(m, f)[i].addr),
                              at |-> <<m, f, Code(m, f)[i].addr>>]
           /\ i \in DOMAIN Code(m, f) /\ m \in Modules
  BY <1>1, Zenon
<1>3. PICK f \in Functions(m) : \E i \in Reached(Code(m, f)) :
           /\ db.sample[s] = [pid |-> pid, ip |-> Loaded(pid, m, Code(m, f)[i].addr),
                              at |-> <<m, f, Code(m, f)[i].addr>>]
           /\ i \in DOMAIN Code(m, f) /\ m \in Modules
  BY <1>2, Zenon
<1>4. PICK i \in Reached(Code(m, f)) :
           /\ db.sample[s] = [pid |-> pid, ip |-> Loaded(pid, m, Code(m, f)[i].addr),
                              at |-> <<m, f, Code(m, f)[i].addr>>]
           /\ i \in DOMAIN Code(m, f) /\ m \in Modules
  BY <1>3, Zenon
<1>5. db.sample[s].at = <<m, f, Code(m, f)[i].addr>>
  BY <1>4
<1>6. Code(m, f)[i].addr \in AddrsOf(objects[m][f])
  BY <1>4, AddressesOf DEF Settled, DisasmInv
<1> QED
  BY <1>4, <1>5, <1>6, Zenon

\* Functions of a module share no address.
LEMMA OneFunction ==
  ASSUME Settled, NEW m \in Modules, NEW f \in Functions(m), NEW g \in Functions(m),
         NEW a, a \in AddrsOf(objects[m][f]), a \in AddrsOf(objects[m][g])
  PROVE  f = g
<1>1. PICK user \in Users : objects = user.objects
  BY DEF Settled, DisasmInv, Typed
<1>2. m \in DOMAIN user.objects /\ f \in DOMAIN user.objects[m] /\ g \in DOMAIN user.objects[m]
  BY <1>1 DEF Modules, Functions
<1>3. f # g => AddrsOf(user.objects[m][f]) \cap AddrsOf(user.objects[m][g]) = {}
  BY <1>2, AddressAssumption
<1> QED
  BY <1>1, <1>3

\* Where a sample is.
LEMMA SampleAt ==
  ASSUME Settled, NEW m, NEW f, NEW s \in DOMAIN db.sample
  PROVE  /\ s \in InFunction(<<m, f>>) =>
              /\ db.sample[s].at[1] = m /\ f \in Functions(m)
              /\ \E i \in Reached(Code(m, f)) : db.sample[s].at[3] = Code(m, f)[i].addr
         /\ s \in InModule(m) =>
              \E g \in Functions(m) : s \in InFunction(<<m, g>>) /\ db.sample[s].at[3] \in AddrsOf(objects[m][g])
<1>1. PICK n \in Modules : \E g \in Functions(n) : \E i \in Reached(Code(n, g)) :
           /\ db.sample[s].at = <<n, g, Code(n, g)[i].addr>>
           /\ i \in DOMAIN Code(n, g) /\ Code(n, g)[i].addr \in AddrsOf(objects[n][g])
  BY SampleIn
<1>2. PICK g \in Functions(n) : \E i \in Reached(Code(n, g)) :
           /\ db.sample[s].at = <<n, g, Code(n, g)[i].addr>>
           /\ i \in DOMAIN Code(n, g) /\ Code(n, g)[i].addr \in AddrsOf(objects[n][g])
  BY <1>1
<1>3. PICK i \in Reached(Code(n, g)) :
           /\ db.sample[s].at = <<n, g, Code(n, g)[i].addr>>
           /\ i \in DOMAIN Code(n, g) /\ Code(n, g)[i].addr \in AddrsOf(objects[n][g])
  BY <1>2
<1>4. /\ FuncOf(db.sample[s].at) = <<n, g>> /\ db.sample[s].at[1] = n
      /\ db.sample[s].at[3] = Code(n, g)[i].addr
  BY <1>3 DEF FuncOf
<1>5. s \in InFunction(<<m, f>>) => n = m /\ g = f
  BY <1>4 DEF InFunction
<1>6. s \in InModule(m) => n = m
  BY <1>4 DEF InModule
<1>7. s \in InFunction(<<n, g>>)
  BY <1>4 DEF InFunction
<1> QED
  BY <1>3, <1>4, <1>5, <1>6, <1>7

LEMMA InBlockFinite ==
  ASSUME Rated, NEW b
  PROVE  IsFiniteSet(InBlockOf(b)) /\ IsFiniteSet(InFunction(b)) /\ IsFiniteSet(InModule(b))
<1>1. /\ InBlockOf(b) \in SUBSET (DOMAIN db.sample) /\ InFunction(b) \in SUBSET (DOMAIN db.sample)
      /\ InModule(b) \in SUBSET (DOMAIN db.sample)
  BY DEF InBlockOf, InFunction, InModule
<1> QED
  BY <1>1, SamplesFinite, FS_Subset

\* A set with an element has a size that is not zero.
LEMMA SomeElement ==
  ASSUME NEW S, IsFiniteSet(S), NEW x \in S
  PROVE  Cardinality(S) \in Nat /\ Cardinality(S) > 0
<1>1. Cardinality(S) \in Nat /\ Cardinality(S) # 0
  BY FS_CardinalityType, FS_EmptySet
<1> QED
  BY <1>1

Rows == /\ \A row \in db.inst_annot : row \in count_insts(row.module)
        /\ \A m \in db.module : count_insts(m) \subseteq db.inst_annot

\* The rows of the instructions of a block.
RowsFor(b) == {row \in {row \in db.inst_annot : OfItsModule(row)} : row.inst.block = b}
LEMMA RowFacts ==
  ASSUME Settled, Rows, NEW m \in Stored, NEW f, NEW k, NEW row \in RowsFor(<<m, f, k>>)
  PROVE  /\ row.inst \in db.inst /\ row.inst.block = <<m, f, k>> /\ row.module = m
         /\ row = [inst |-> row.inst, module |-> m, count |-> sample_grouped(m, row.inst.addr)]
         /\ IsFiniteSet(At(m, row.inst.addr)) /\ row.count = Cardinality(At(m, row.inst.addr))
<1>1. row \in db.inst_annot /\ row.inst.block = <<m, f, k>> /\ row.module = m
  BY DEF RowsFor, OfItsModule
<1>2. row \in count_insts(m)
  BY <1>1 DEF Rows
<1>3. PICK i \in db.inst : row = [inst |-> i, module |-> m, count |-> sample_grouped(m, i.addr)]
  BY <1>2 DEF count_insts
<1>4. row.inst = i /\ row.count = sample_grouped(m, i.addr)
  BY <1>3
<1>5. IsFiniteSet(At(m, i.addr)) /\ sample_grouped(m, i.addr) = Cardinality(At(m, i.addr))
  BY StoredWhole, GroupedExact DEF Settled, DisasmInv
<1> QED
  BY <1>1, <1>3, <1>4, <1>5

\* The first step: blocks.
LEMMA RowsJoined ==
  ASSUME Settled, Rows, NEW m \in Stored, NEW f \in Functions(m), NEW k \in DOMAIN Graph(m, f),
         NEW b, b = <<m, f, k>>, NEW T, T = [row \in RowsFor(b) |-> At(m, row.inst.addr)]
  PROVE  Parted(T, RowsFor(b)) /\ Joined(T, RowsFor(b)) = InBlockOf(b)
<1>1. m \in Modules /\ m \in db.module /\ ~history.reused
  BY StoredWhole
<1>2. ASSUME NEW i \in db.inst, i.block = b
      PROVE  i = [block |-> b, addr |-> i.addr] /\ i.addr \in AddrsOf(objects[m][f])
  <2>1. PICK n \in Modules : \E g \in Functions(n) : \E h \in DOMAIN Graph(n, g) :
           /\ i.block = <<n, g, h>> /\ i = [block |-> i.block, addr |-> i.addr]
           /\ i.addr \in AddrsOf(objects[n][g])
    BY InstIn
  <2> QED
    BY <1>2, <2>1
<1>3. FuncOf(b) = <<m, f>>
  BY DEF FuncOf
<1>4. Parted(T, RowsFor(b))
  <2> SUFFICES ASSUME NEW x \in RowsFor(b), NEW y \in RowsFor(b), x # y
               PROVE  At(m, x.inst.addr) \cap At(m, y.inst.addr) = {}
    BY DEF Parted
  <2>1. /\ x.inst \in db.inst /\ x.inst.block = b
        /\ x = [inst |-> x.inst, module |-> m, count |-> sample_grouped(m, x.inst.addr)]
    BY RowFacts
  <2>2. /\ y.inst \in db.inst /\ y.inst.block = b
        /\ y = [inst |-> y.inst, module |-> m, count |-> sample_grouped(m, y.inst.addr)]
    BY RowFacts
  <2>3. x.inst.addr # y.inst.addr
    BY <1>2, <2>1, <2>2
  <2> QED
    BY <2>3 DEF At
<1>5. ASSUME NEW s \in Joined(T, RowsFor(b)) PROVE s \in InBlockOf(b)
  <2>1. PICK row \in RowsFor(b) : s \in At(m, row.inst.addr)
    BY DEF Joined
  <2>2. row.inst \in db.inst /\ row.inst.block = b
    BY RowFacts
  <2>3. s \in DOMAIN db.sample /\ s \in InModule(m) /\ db.sample[s].at[3] = row.inst.addr
    BY <2>1 DEF At, InModule
  <2>4. PICK g \in Functions(m) : s \in InFunction(<<m, g>>) /\ db.sample[s].at[3] \in AddrsOf(objects[m][g])
    BY <2>3, SampleAt
  <2>5. g = f
    <3>1. row.inst.addr \in AddrsOf(objects[m][f]) /\ row.inst.addr \in AddrsOf(objects[m][g])
      BY <1>2, <2>2, <2>3, <2>4
    <3> QED
      BY <1>1, <3>1, OneFunction
  <2>6. [block |-> b, addr |-> db.sample[s].at[3]] \in db.inst
    BY <1>2, <2>2, <2>3
  <2> QED
    BY <1>3, <2>4, <2>5, <2>6 DEF InBlockOf
<1>6. ASSUME NEW s \in InBlockOf(b) PROVE s \in Joined(T, RowsFor(b))
  <2> DEFINE a == db.sample[s].at[3]
             i == [block |-> b, addr |-> a]
             row == [inst |-> i, module |-> m, count |-> sample_grouped(m, a)]
  <2>1. s \in InFunction(<<m, f>>) /\ i \in db.inst /\ s \in DOMAIN db.sample
    BY <1>3 DEF InBlockOf, InFunction
  <2>2. db.sample[s].at[1] = m
    BY <2>1, SampleAt
  <2>3. s \in At(m, a)
    BY <2>1, <2>2 DEF At
  <2>4. sample_grouped(m, a) > 0
    <3>0. PICK c : c = a
      OBVIOUS
    <3>1. IsFiniteSet(At(m, c)) /\ sample_grouped(m, c) = Cardinality(At(m, c))
      <4> HIDE DEF a, i, row
      <4>1. Typed /\ Rated /\ Located /\ Drawn /\ ~history.reused /\ Legible(m)
        BY StoredWhole DEF Settled, DisasmInv
      <4> QED
        BY <4>1, GroupedExact
    <3>2. s \in At(m, c)
      BY <2>3, <3>0
    <3>3. sample_grouped(m, c) > 0
      BY <3>1, <3>2, SomeElement
    <3> QED
      BY <3>0, <3>3
  <2>5. i.addr = a /\ i.block = b
    OBVIOUS
  <2>6. row \in count_insts(m)
    <3> HIDE DEF a, i
    <3>1. \E j \in {j \in db.inst : sample_grouped(m, j.addr) > 0} :
            row = [inst |-> j, module |-> m, count |-> sample_grouped(m, j.addr)]
      BY <2>1, <2>4, <2>5
    <3> QED
      BY <3>1 DEF count_insts
  <2>7. row \in db.inst_annot
    BY <1>1, <2>6 DEF Rows
  <2>8. row.inst = i /\ row.module = m /\ i.block[1] = m
    OBVIOUS
  <2> HIDE DEF i, row
  <2>9. row \in RowsFor(b)
    BY <2>5, <2>7, <2>8 DEF RowsFor, OfItsModule
  <2>10. s \in T[row]
    BY <2>3, <2>5, <2>8, <2>9
  <2> QED
    BY <2>9, <2>10 DEF Joined
<1> QED
  BY <1>4, <1>5, <1>6

LEMMA BlocksCounted ==
  ASSUME Settled, Rows, NEW m \in Stored, NEW f \in Functions(m), NEW k \in DOMAIN Graph(m, f)
  PROVE  annot(count_blocks, <<m, f, k>>).count = Cardinality(InBlockOf(<<m, f, k>>))
<1> DEFINE b == <<m, f, k>>
           R == RowsFor(b)
           T == [row \in R |-> At(m, row.inst.addr)]
<1>1. Parted(T, R) /\ Joined(T, R) = InBlockOf(b)
  BY RowsJoined
<1>2. IsFiniteSet(R)
  BY FS_Subset DEF RowsFor, Settled, Rated
<1>3. \A row \in R : IsFiniteSet(T[row]) /\ row.count = Cardinality(T[row])
  BY RowFacts
<1>4. MapThenSumSet(LAMBDA row : row.count, R) = Cardinality(InBlockOf(b))
  <2> HIDE DEF T, R
  <2>1. MapThenSumSet(LAMBDA row : row.count, R) = Cardinality(Joined(T, R))
    BY <1>1, <1>2, <1>3, RowsUnion, Zenon
  <2> QED
    BY <1>1, <2>1, Zenon
<1> DEFINE rows == {row \in db.inst_annot : OfItsModule(row)}
           B == {row.inst.block : row \in rows}
           total(c) == MapThenSumSet(LAMBDA row : row.count, {row \in rows : row.inst.block = c})
<1>5. count_blocks = [c \in B |-> [count |-> total(c), score |-> 0]]
  BY DEF count_blocks
<1>6. R = {row \in rows : row.inst.block = b}
  BY DEF RowsFor
<1>7. CASE b \in B
  <2>1. total(b) = MapThenSumSet(LAMBDA row : row.count, R)
    BY <1>6, Zenon
  <2> HIDE DEF total, B, b
  <2>2. DOMAIN count_blocks = B /\ count_blocks[b] = [count |-> total(b), score |-> 0]
    BY <1>5, <1>7
  <2>3. annot(count_blocks, b) = count_blocks[b]
    BY <1>7, <2>2 DEF annot
  <2>4. annot(count_blocks, b).count = total(b)
    BY <2>2, <2>3
  <2>5. annot(count_blocks, b).count = Cardinality(InBlockOf(b))
    BY <1>4, <2>1, <2>4, Zenon
  <2> QED
    BY <2>5 DEF b
<1>8. CASE b \notin B
  <2>1. R = {}
    BY <1>6, <1>8
  <2>2. Joined(T, R) = {}
    BY <2>1 DEF Joined
  <2>3. Cardinality(InBlockOf(b)) = 0
    BY <1>1, <2>2, FS_EmptySet
  <2> HIDE DEF total, B, b
  <2>4. DOMAIN count_blocks = B
    BY <1>5
  <2>5. annot(count_blocks, b).count = 0
    BY <1>8, <2>4 DEF annot
  <2>6. annot(count_blocks, b).count = Cardinality(InBlockOf(b))
    BY <2>3, <2>5
  <2> QED
    BY <2>6 DEF b
<1> QED
  BY <1>7, <1>8

\* The second step: functions.
LEMMA AnnotatedIn ==
  ASSUME Settled, NEW b \in DOMAIN db.block_annot, NEW m, NEW f, FuncOf(b) = <<m, f>>
  PROVE  m \in Modules /\ f \in Functions(m) /\ \E k \in DOMAIN Graph(m, f) : b = <<m, f, k>>
<1>1. PICK i \in db.inst : i.block = b
  BY DEF Settled, Rated
<1>2. PICK n \in Modules : \E g \in Functions(n) : \E k \in DOMAIN Graph(n, g) : b = <<n, g, k>>
  BY <1>1, InstIn
<1> QED
  BY <1>2 DEF FuncOf

LEMMA AnnotatedFinite ==
  ASSUME Settled
  PROVE  IsFiniteSet(DOMAIN db.block_annot)
<1> DEFINE g == [i \in db.inst |-> i.block]
           S == {g[i] : i \in db.inst}
<1>1. IsFiniteSet(db.inst) /\ DOMAIN g = db.inst
  BY DEF Settled, Rated
<1>2. \A b \in DOMAIN db.block_annot : \E i \in db.inst : g[i] = b
  BY DEF Settled, Rated
<1> HIDE DEF g
<1>3. IsFiniteSet(S)
  BY <1>1, FiniteImage
<1>4. DOMAIN db.block_annot \in SUBSET S
  BY <1>2
<1> HIDE DEF S
<1> QED
  BY <1>3, <1>4, FS_Subset

\* A sample of a function is of one of its blocks.
LEMMA SampleBlock ==
  ASSUME Settled, NEW m \in Stored, NEW f \in Functions(m), NEW s \in InFunction(<<m, f>>)
  PROVE  \E h \in DOMAIN Graph(m, f) :
           s \in InBlockOf(<<m, f, h>>) /\ \A k \in DOMAIN Graph(m, f) : s \in InBlockOf(<<m, f, k>>) => k = h
<1>1. m \in Complete
  BY StoredWhole
<1>2. s \in DOMAIN db.sample
  BY DEF InFunction
<1>3. PICK i \in Reached(Code(m, f)) : db.sample[s].at[3] = Code(m, f)[i].addr
  BY <1>2, SampleAt
<1> DEFINE a == db.sample[s].at[3]
<1>4. PICK h \in DOMAIN Graph(m, f) :
        {b \in blocksOf(<<m, f>>) : [block |-> b, addr |-> a] \in db.inst} = {<<m, f, h>>}
  BY <1>1, <1>3, Holder DEF Settled
<1>5. s \in InBlockOf(<<m, f, h>>)
  <2>1. [block |-> <<m, f, h>>, addr |-> a] \in db.inst
    BY <1>4
  <2>2. FuncOf(<<m, f, h>>) = <<m, f>>
    BY DEF FuncOf
  <2> QED
    BY <2>1, <2>2 DEF InBlockOf
<1>6. ASSUME NEW k \in DOMAIN Graph(m, f), s \in InBlockOf(<<m, f, k>>) PROVE k = h
  <2>1. [block |-> <<m, f, k>>, addr |-> a] \in db.inst
    BY <1>6 DEF InBlockOf
  <2>2. <<m, f, k>> \in db.block
    BY <1>1, WholeModule DEF Settled
  <2>3. <<m, f, k>> \in blocksOf(<<m, f>>)
    BY <2>2 DEF blocksOf, FuncOf
  <2>4. <<m, f, k>> = <<m, f, h>>
    BY <1>4, <2>1, <2>3
  <2> QED
    BY <2>4
<1> QED
  BY <1>5, <1>6

BlocksFor(g) == {b \in DOMAIN db.block_annot : FuncOf(b) = g}
LEMMA BlocksJoined ==
  ASSUME Settled, BlocksExact, NEW m \in Stored, NEW f \in Functions(m), NEW g, g = <<m, f>>,
         NEW T, T = [b \in BlocksFor(g) |-> InBlockOf(b)]
  PROVE  Parted(T, BlocksFor(g)) /\ Joined(T, BlocksFor(g)) = InFunction(g)
<1>1. ASSUME NEW b \in BlocksFor(g)
      PROVE  FuncOf(b) = g /\ \E k \in DOMAIN Graph(m, f) : b = <<m, f, k>>
  BY AnnotatedIn DEF BlocksFor
<1>2. Parted(T, BlocksFor(g))
  <2> SUFFICES ASSUME NEW x \in BlocksFor(g), NEW y \in BlocksFor(g), x # y, NEW s \in InBlockOf(x), s \in InBlockOf(y)
               PROVE  FALSE
    BY DEF Parted
  <2>1. PICK j \in DOMAIN Graph(m, f) : x = <<m, f, j>>
    BY <1>1
  <2>2. PICK k \in DOMAIN Graph(m, f) : y = <<m, f, k>>
    BY <1>1
  <2>3. s \in InFunction(<<m, f>>)
    BY <1>1 DEF InBlockOf
  <2>4. j = k
    BY <2>1, <2>2, <2>3, SampleBlock
  <2> QED
    BY <2>1, <2>2, <2>4
<1>3. ASSUME NEW s \in Joined(T, BlocksFor(g)) PROVE s \in InFunction(g)
  <2>1. PICK b \in BlocksFor(g) : s \in InBlockOf(b)
    BY DEF Joined
  <2> QED
    BY <1>1, <2>1 DEF InBlockOf
<1>4. ASSUME NEW s \in InFunction(g) PROVE s \in Joined(T, BlocksFor(g))
  <2>1. PICK h \in DOMAIN Graph(m, f) : s \in InBlockOf(<<m, f, h>>)
    BY SampleBlock
  <2> DEFINE b == <<m, f, h>>
  <2>2. Cardinality(InBlockOf(b)) > 0
    BY <2>1, InBlockFinite, SomeElement DEF Settled
  <2>3. annot(db.block_annot, b).count = Cardinality(InBlockOf(b))
    BY DEF BlocksExact
  <2>4. b \in DOMAIN db.block_annot
    <3> HIDE DEF b
    <3>1. CASE b \notin DOMAIN db.block_annot
      <4>1. annot(db.block_annot, b).count = 0
        BY <3>1 DEF annot
      <4>2. 0 > 0
        BY <2>2, <2>3, <4>1
      <4> QED
        BY <4>2
    <3> QED
      BY <3>1
  <2>5. b \in BlocksFor(g)
    BY <2>4 DEF BlocksFor, FuncOf
  <2>6. s \in T[b]
    BY <2>1, <2>5
  <2> HIDE DEF b
  <2> QED
    BY <2>5, <2>6 DEF Joined
<1> QED
  BY <1>2, <1>3, <1>4

LEMMA FuncsCounted ==
  ASSUME Settled, BlocksExact, NEW m \in Stored, NEW f \in Functions(m)
  PROVE  annot(count_funcs, <<m, f>>).count = Cardinality(InFunction(<<m, f>>))
<1> DEFINE g == <<m, f>>
           R == BlocksFor(g)
           T == [b \in R |-> InBlockOf(b)]
<1>1. Parted(T, R) /\ Joined(T, R) = InFunction(g)
  BY BlocksJoined
<1>2. IsFiniteSet(R)
  BY AnnotatedFinite, FS_Subset DEF BlocksFor
<1>3. \A b \in R : IsFiniteSet(T[b]) /\ db.block_annot[b].count = Cardinality(T[b])
  <2> TAKE b \in R
  <2>1. b \in DOMAIN db.block_annot /\ FuncOf(b) = <<m, f>>
    BY DEF BlocksFor
  <2>2. PICK k \in DOMAIN Graph(m, f) : b = <<m, f, k>>
    BY <2>1, AnnotatedIn
  <2>3. annot(db.block_annot, b).count = Cardinality(InBlockOf(b))
    BY <2>2 DEF BlocksExact
  <2>4. annot(db.block_annot, b) = db.block_annot[b]
    BY <2>1 DEF annot
  <2>5. T[b] = InBlockOf(b)
    OBVIOUS
  <2> HIDE DEF T, R, g
  <2> QED
    BY <2>3, <2>4, <2>5, InBlockFinite DEF Settled
<1>4. countOf(db.block_annot, R) = Cardinality(InFunction(g))
  <2> HIDE DEF T, R
  <2>1. countOf(db.block_annot, R) = Cardinality(Joined(T, R))
    BY <1>1, <1>2, <1>3, TableUnion, Zenon
  <2> QED
    BY <1>1, <2>1, Zenon
<1> DEFINE B == {FuncOf(b) : b \in DOMAIN db.block_annot}
           total(c) == countOf(db.block_annot, {b \in DOMAIN db.block_annot : FuncOf(b) = c})
<1>5. count_funcs = [c \in B |-> [count |-> total(c), score |-> 0]]
  BY DEF count_funcs
<1>6. total(g) = Cardinality(InFunction(g))
  BY <1>4 DEF BlocksFor
<1>7. CASE g \in B
  <2> HIDE DEF total, B, g
  <2>1. DOMAIN count_funcs = B /\ count_funcs[g] = [count |-> total(g), score |-> 0]
    BY <1>5, <1>7
  <2>2. annot(count_funcs, g) = count_funcs[g]
    BY <1>7, <2>1 DEF annot
  <2>3. annot(count_funcs, g).count = Cardinality(InFunction(g))
    BY <1>6, <2>1, <2>2
  <2> QED
    BY <2>3 DEF g
<1>8. CASE g \notin B
  <2>1. R = {}
    BY <1>8 DEF BlocksFor
  <2>2. Joined(T, R) = {}
    BY <2>1 DEF Joined
  <2>3. Cardinality(InFunction(g)) = 0
    BY <1>1, <2>2, FS_EmptySet
  <2> HIDE DEF total, B, g
  <2>4. DOMAIN count_funcs = B
    BY <1>5
  <2>5. annot(count_funcs, g).count = 0
    BY <1>8, <2>4 DEF annot
  <2>6. annot(count_funcs, g).count = Cardinality(InFunction(g))
    BY <2>3, <2>5
  <2> QED
    BY <2>6 DEF g
<1> QED
  BY <1>7, <1>8

\* The third step: modules.
FuncsFor(m) == {g \in DOMAIN db.func_annot : g[1] = m}
LEMMA FuncsIn ==
  ASSUME Settled, Recounted, NEW m \in Modules, NEW g \in FuncsFor(m)
  PROVE  \E f \in Functions(m) : g = <<m, f>>
<1>1. g \in DOMAIN db.func_annot /\ g[1] = m
  BY DEF FuncsFor
<1>2. PICK n \in Modules : \E f \in Functions(n) : g = <<n, f>>
  BY <1>1 DEF Recounted
<1> QED
  BY <1>1, <1>2

LEMMA FuncsJoined ==
  ASSUME Settled, Recounted, FuncsExact, NEW m \in Stored, NEW T, T = [g \in FuncsFor(m) |-> InFunction(g)]
  PROVE  Parted(T, FuncsFor(m)) /\ Joined(T, FuncsFor(m)) = InModule(m)
<1>1. m \in Modules
  BY StoredWhole
<1>2. Parted(T, FuncsFor(m))
  BY DEF Parted, InFunction
<1>3. ASSUME NEW s \in Joined(T, FuncsFor(m)) PROVE s \in InModule(m)
  <2>1. PICK g \in FuncsFor(m) : s \in InFunction(g)
    BY DEF Joined
  <2>2. PICK f \in Functions(m) : g = <<m, f>>
    BY <1>1, FuncsIn
  <2>3. s \in DOMAIN db.sample
    BY <2>1 DEF InFunction
  <2>4. db.sample[s].at[1] = m
    BY <2>1, <2>2, <2>3, SampleAt
  <2> QED
    BY <2>3, <2>4 DEF InModule
<1>4. ASSUME NEW s \in InModule(m) PROVE s \in Joined(T, FuncsFor(m))
  <2>1. s \in DOMAIN db.sample
    BY DEF InModule
  <2>2. PICK f \in Functions(m) : s \in InFunction(<<m, f>>)
    BY <2>1, SampleAt
  <2> DEFINE g == <<m, f>>
  <2>3. Cardinality(InFunction(g)) > 0
    BY <2>2, InBlockFinite, SomeElement DEF Settled
  <2>4. annot(db.func_annot, g).count = Cardinality(InFunction(g))
    BY DEF FuncsExact
  <2>5. g \in DOMAIN db.func_annot
    <3> HIDE DEF g
    <3>1. CASE g \notin DOMAIN db.func_annot
      <4>1. annot(db.func_annot, g).count = 0
        BY <3>1 DEF annot
      <4>2. 0 > 0
        BY <2>3, <2>4, <4>1
      <4> QED
        BY <4>2
    <3> QED
      BY <3>1
  <2>6. g \in FuncsFor(m)
    BY <2>5 DEF FuncsFor
  <2>7. s \in T[g]
    BY <2>2, <2>6
  <2> HIDE DEF g
  <2> QED
    BY <2>6, <2>7 DEF Joined
<1> QED
  BY <1>2, <1>3, <1>4

LEMMA FuncsForFinite ==
  ASSUME Settled, Recounted, NEW m \in Modules
  PROVE  IsFiniteSet(FuncsFor(m))
<1> DEFINE h == [f \in Functions(m) |-> <<m, f>>]
           S == {h[f] : f \in Functions(m)}
<1>1. IsFiniteSet(Functions(m)) /\ DOMAIN h = Functions(m)
  BY GraphOf, FS_Interval DEF Settled, DisasmInv
<1>2. \A g \in FuncsFor(m) : \E f \in Functions(m) : h[f] = g
  BY FuncsIn
<1> HIDE DEF h
<1>3. IsFiniteSet(S)
  BY <1>1, FiniteImage
<1>4. FuncsFor(m) \in SUBSET S
  BY <1>2
<1> HIDE DEF S
<1> QED
  BY <1>3, <1>4, FS_Subset

LEMMA ModulesCounted ==
  ASSUME Settled, Recounted, FuncsExact, NEW m \in Stored
  PROVE  annot(count_modules, m).count = Cardinality(InModule(m))
<1> DEFINE R == FuncsFor(m)
           T == [g \in R |-> InFunction(g)]
<1>0. m \in Modules
  BY StoredWhole
<1>1. Parted(T, R) /\ Joined(T, R) = InModule(m)
  BY FuncsJoined
<1>2. IsFiniteSet(R)
  BY <1>0, FuncsForFinite
<1>3. \A g \in R : IsFiniteSet(T[g]) /\ db.func_annot[g].count = Cardinality(T[g])
  <2> TAKE g \in R
  <2>1. g \in DOMAIN db.func_annot
    BY DEF FuncsFor
  <2>2. PICK f \in Functions(m) : g = <<m, f>>
    BY <1>0, FuncsIn
  <2>3. annot(db.func_annot, g).count = Cardinality(InFunction(g))
    BY <2>2 DEF FuncsExact
  <2>4. annot(db.func_annot, g) = db.func_annot[g]
    BY <2>1 DEF annot
  <2>5. T[g] = InFunction(g)
    OBVIOUS
  <2> HIDE DEF T, R
  <2> QED
    BY <2>3, <2>4, <2>5, InBlockFinite DEF Settled
<1>4. countOf(db.func_annot, R) = Cardinality(InModule(m))
  <2> HIDE DEF T, R
  <2>1. countOf(db.func_annot, R) = Cardinality(Joined(T, R))
    BY <1>1, <1>2, <1>3, TableUnion, Zenon
  <2> QED
    BY <1>1, <2>1, Zenon
<1> DEFINE B == {g[1] : g \in DOMAIN db.func_annot}
           total(c) == countOf(db.func_annot, {g \in DOMAIN db.func_annot : g[1] = c})
<1>5. count_modules = [c \in B |-> [count |-> total(c), score |-> 0]]
  BY DEF count_modules
<1>6. total(m) = Cardinality(InModule(m))
  BY <1>4 DEF FuncsFor
<1>7. CASE m \in B
  <2> HIDE DEF total, B
  <2>1. DOMAIN count_modules = B /\ count_modules[m] = [count |-> total(m), score |-> 0]
    BY <1>5, <1>7
  <2>2. annot(count_modules, m) = count_modules[m]
    BY <1>7, <2>1 DEF annot
  <2> QED
    BY <1>6, <2>1, <2>2
<1>8. CASE m \notin B
  <2>1. R = {}
    BY <1>8 DEF FuncsFor
  <2>2. Joined(T, R) = {}
    BY <2>1 DEF Joined
  <2>3. Cardinality(InModule(m)) = 0
    BY <1>1, <2>2, FS_EmptySet
  <2> HIDE DEF total, B
  <2>4. DOMAIN count_modules = B
    BY <1>5
  <2>5. annot(count_modules, m).count = 0
    BY <1>8, <2>4 DEF annot
  <2> QED
    BY <2>3, <2>5
<1> QED
  BY <1>7, <1>8
-----------------------------------------------------------------------------
(* What leaves the counts as they are.                                     *)

LEMMA PlacesSame ==
  ASSUME objects' = objects
  PROVE  /\ \A pid : MappedIn(pid)' = MappedIn(pid)
         /\ \A m, f : Code(m, f)' = Code(m, f)
         /\ Modules' = Modules /\ \A m : Functions(m)' = Functions(m)
         /\ \A m : Addresses(m)' = Addresses(m)
         /\ \A m : Legible(m)' <=> Legible(m)
<1>1. /\ \A pid : MappedIn(pid)' = MappedIn(pid)
      /\ \A m, f : Code(m, f)' = Code(m, f)
      /\ Modules' = Modules /\ \A m : Functions(m)' = Functions(m)
  BY DEF MappedIn, Code, Modules, Functions
<1>2. \A m : Addresses(m)' = Addresses(m)
  BY DEF Addresses, Functions, Code
<1>3. \A m : Legible(m)' <=> Legible(m)
  BY DEF Legible, MappedIn, Modules, Addresses, Functions, Code
<1> QED
  BY <1>1, <1>2, <1>3

LEMMA LocatedKept ==
  ASSUME Located, Drawn, objects' = objects, db'.map = db.map, db'.sample = db.sample,
         history'.reused = history.reused, {"reused", "counted"} \subseteq DOMAIN history',
         command' = "sample" => command = "sample" /\ sampled' = sampled
  PROVE  Located' /\ Drawn'
<1>1. Located'
  BY DEF Located
<1>2. ASSUME NEW s \in Range(db'.sample) PROVE DrawnFrom(s)'
  <2>1. DrawnFrom(s)
    BY <1>2 DEF Drawn
  <2> QED
    BY <2>1, PlacesSame, Zenon DEF DrawnFrom
<1> QED
  BY <1>1, <1>2 DEF Drawn

LEMMA RecountedKept ==
  ASSUME Recounted, objects' = objects, db'.func_annot = db.func_annot, db'.module_annot = db.module_annot
  PROVE  Recounted'
BY PlacesSame DEF Recounted

SameSamples == objects' = objects /\ db'.sample = db.sample /\ db'.inst = db.inst
LEMMA SetsSame ==
  ASSUME SameSamples
  PROVE  \A x : InModule(x)' = InModule(x) /\ InFunction(x)' = InFunction(x) /\ InBlockOf(x)' = InBlockOf(x)
BY DEF SameSamples, InModule, InFunction, InBlockOf

SameStored == db'.module = db.module /\ history'.partial = history.partial /\ history'.reused = history.reused
SameCount(t, u) == \A x : annot(u, x).count = annot(t, x).count

LEMMA ExactKept ==
  ASSUME SameSamples, SameStored
  PROVE  /\ BlocksExact /\ SameCount(db.block_annot, db'.block_annot) => BlocksExact'
         /\ FuncsExact /\ SameCount(db.func_annot, db'.func_annot) => FuncsExact'
         /\ ModulesExact /\ SameCount(db.module_annot, db'.module_annot) => ModulesExact'
<1>1. Stored' = Stored
  <2>1. \A m : Legible(m)' <=> Legible(m)
    BY PlacesSame DEF SameSamples
  <2> QED
    BY <2>1 DEF Stored, SameStored
<1>2. (\A m : Functions(m)' = Functions(m)) /\ (\A m, f : Graph(m, f)' = Graph(m, f))
  BY Unmoved DEF SameSamples
<1>3. \A x : InModule(x)' = InModule(x) /\ InFunction(x)' = InFunction(x) /\ InBlockOf(x)' = InBlockOf(x)
  BY SetsSame
<1>5. ASSUME BlocksExact, SameCount(db.block_annot, db'.block_annot) PROVE BlocksExact'
  <2> SUFFICES ASSUME NEW m \in Stored', NEW f \in Functions(m)', NEW k \in DOMAIN Graph(m, f)'
               PROVE  annot(db'.block_annot, <<m, f, k>>).count = Cardinality(InBlockOf(<<m, f, k>>)')
    BY DEF BlocksExact
  <2>1. m \in Stored /\ f \in Functions(m) /\ k \in DOMAIN Graph(m, f)
    BY <1>1, <1>2
  <2>2. annot(db.block_annot, <<m, f, k>>).count = Cardinality(InBlockOf(<<m, f, k>>))
    BY <1>5, <2>1 DEF BlocksExact
  <2> QED
    BY <1>3, <1>5, <2>2 DEF SameCount
<1>6. ASSUME FuncsExact, SameCount(db.func_annot, db'.func_annot) PROVE FuncsExact'
  <2> SUFFICES ASSUME NEW m \in Stored', NEW f \in Functions(m)'
               PROVE  annot(db'.func_annot, <<m, f>>).count = Cardinality(InFunction(<<m, f>>)')
    BY DEF FuncsExact
  <2>1. annot(db.func_annot, <<m, f>>).count = Cardinality(InFunction(<<m, f>>))
    BY <1>1, <1>2, <1>6 DEF FuncsExact
  <2> QED
    BY <1>3, <1>6, <2>1 DEF SameCount
<1>7. ASSUME ModulesExact, SameCount(db.module_annot, db'.module_annot) PROVE ModulesExact'
  <2> SUFFICES ASSUME NEW m \in Stored'
               PROVE  annot(db'.module_annot, m).count = Cardinality(InModule(m)')
    BY DEF ModulesExact
  <2>1. annot(db.module_annot, m).count = Cardinality(InModule(m))
    BY <1>1, <1>7 DEF ModulesExact
  <2> QED
    BY <1>3, <1>7, <2>1 DEF SameCount
<1> QED
  BY <1>5, <1>6, <1>7

CountPart == Located /\ Drawn /\ Recounted /\ Progress /\ Finished
CountColumns == {"map", "sample", "module", "inst", "block_annot", "func_annot", "module_annot"}

\* A command that leaves the tables that are counted, and no count.
LEMMA CountAside ==
  ASSUME CountPart, objects' = objects, Same(CountColumns), {"reused", "counted"} \subseteq DOMAIN history',
         history'.partial = history.partial, history'.reused = history.reused,
         history'.counted => history.counted, command' \notin {"sample", "disasm", "count"}
  PROVE  CountPart'
<1>1. /\ db'.map = db.map /\ db'.sample = db.sample /\ db'.module = db.module /\ db'.inst = db.inst
      /\ db'.block_annot = db.block_annot /\ db'.func_annot = db.func_annot /\ db'.module_annot = db.module_annot
  BY DEF Same, CountColumns
<1>2. Located' /\ Drawn'
  BY <1>1, LocatedKept DEF CountPart
<1>3. Recounted'
  BY <1>1, RecountedKept DEF CountPart
<1>4. Progress'
  BY DEF Progress
<1>5. SameSamples /\ SameStored
  BY <1>1 DEF SameSamples, SameStored
<1>6. SameCount(db.block_annot, db'.block_annot) /\ SameCount(db.func_annot, db'.func_annot)
      /\ SameCount(db.module_annot, db'.module_annot)
  BY <1>1 DEF SameCount
<1>7. Finished'
  <2>1. history.counted => BlocksExact /\ FuncsExact /\ ModulesExact
    BY DEF CountPart, Finished
  <2> QED
    BY <1>5, <1>6, <2>1, ExactKept DEF Finished
<1> QED
  BY <1>2, <1>3, <1>4, <1>7 DEF CountPart

\* After one that does, nothing is known to be counted.
LEMMA CountCleared ==
  ASSUME CountPart, objects' = objects, Same({"map", "sample", "func_annot", "module_annot"}),
         {"reused", "counted"} \subseteq DOMAIN history', history'.reused = history.reused,
         ~history'.counted, command' \notin {"sample", "count"}
  PROVE  CountPart'
<1>1. /\ db'.map = db.map /\ db'.sample = db.sample
      /\ db'.func_annot = db.func_annot /\ db'.module_annot = db.module_annot
  BY DEF Same
<1>2. Located' /\ Drawn'
  BY <1>1, LocatedKept DEF CountPart
<1>3. Recounted'
  BY <1>1, RecountedKept DEF CountPart
<1>4. Progress' /\ Finished'
  BY DEF Progress, Finished
<1> QED
  BY <1>2, <1>3, <1>4 DEF CountPart
-----------------------------------------------------------------------------
(* The commands other than count.                                          *)

LEMMA Enumerated ==
  ASSUME NEW S, IsFiniteSet(S)
  PROVE  /\ Cardinality(S) \in Nat /\ DOMAIN SetToSeq(S) = 1 .. Cardinality(S)
         /\ IsSeq(SetToSeq(S)) /\ Range(SetToSeq(S)) = S
         /\ \A k \in DOMAIN SetToSeq(S) : \A l \in DOMAIN SetToSeq(S) : SetToSeq(S)[k] = SetToSeq(S)[l] => k = l
<1> DEFINE n == Cardinality(S)
           q == SetToSeq(S)
<1>1. n \in Nat /\ ExistsBijection(1 .. n, S)
  BY FS_CardinalityType
<1>2. \E f \in [1 .. n -> S] : IsInjective(f)
  BY <1>1 DEF ExistsBijection, Bijection, Injection
<1>3. q \in [1 .. n -> S] /\ IsInjective(q)
  BY <1>2 DEF SetToSeq
<1> HIDE DEF q
<1>4. q \in Surjection(1 .. n, S)
  <2>1. q \in Injection(1 .. n, S)
    BY <1>3 DEF Injection
  <2>2. Cardinality(1 .. n) = n
    BY <1>1, FS_Interval
  <2> QED
    BY <2>1, <2>2, FS_Injection
<1>5. Range(q) = S /\ DOMAIN q = 1 .. n
  BY <1>3, <1>4 DEF Surjection, Range
<1>6. IsSeq(q)
  BY <1>1, <1>3, Indexed
<1>7. \A k \in DOMAIN q : \A l \in DOMAIN q : q[k] = q[l] => k = l
  BY <1>3 DEF IsInjective
<1> QED
  BY <1>1, <1>5, <1>6, <1>7 DEF q

LEMMA MapsOf ==
  ASSUME NEW pid \in Pids
  PROVE  /\ IsSeq(insert_maps(pid)) /\ \A r \in Range(insert_maps(pid)) : r.pid = pid
         /\ \A k \in DOMAIN insert_maps(pid) : \A l \in DOMAIN insert_maps(pid) :
              insert_maps(pid)[k] = insert_maps(pid)[l] => k = l
<1> DEFINE lines == Layout[pid].lines
           maps  == insert_maps(pid)
<1>1. IsSeq(maps) /\ DOMAIN maps = DOMAIN lines
  BY MapsSeq
<1>2. \A k \in DOMAIN lines : maps[k].pid = pid /\ maps[k].begin = lines[k].begin
  BY RowOf
<1>3. DOMAIN lines = 1 .. Len(lines) /\ Len(lines) \in Nat
  BY LinesOf
<1>4. \A k \in DOMAIN lines :
        /\ lines[k].begin \in Nat /\ lines[k].end \in Nat /\ lines[k].begin < lines[k].end
        /\ \A l \in DOMAIN lines : k < l => lines[k].end <= lines[l].begin
  BY LinesOf
<1> HIDE DEF maps, lines
<1>5. ASSUME NEW k \in DOMAIN lines, NEW l \in DOMAIN lines, k < l PROVE maps[k] # maps[l]
  <2>1. lines[k].begin < lines[l].begin
    BY <1>4, <1>5
  <2> QED
    BY <1>2, <1>4, <2>1
<1>6. ASSUME NEW k \in DOMAIN maps, NEW l \in DOMAIN maps, maps[k] = maps[l] PROVE k = l
  <2>1. k \in Nat /\ l \in Nat /\ ~ (k < l) /\ ~ (l < k)
    BY <1>1, <1>3, <1>5, <1>6
  <2> QED
    BY <2>1
<1>7. \A r \in Range(maps) : r.pid = pid
  BY <1>1, <1>2 DEF Range
<1> QED
  BY <1>1, <1>6, <1>7 DEF maps

LEMMA MapsAdded ==
  ASSUME Typed, NEW pid \in Pids, NEW q, q = db.map \o insert_maps(pid)
  PROVE  /\ Range(q) = Range(db.map) \cup Range(insert_maps(pid))
         /\ (\A k \in DOMAIN db.map : \A l \in DOMAIN db.map : db.map[k] = db.map[l] => k = l) /\
            (\A r \in Range(db.map) : r.pid # pid) =>
              \A k \in DOMAIN q : \A l \in DOMAIN q : q[k] = q[l] => k = l
<1> DEFINE t == insert_maps(pid)
           s == db.map
<1>1. /\ IsSeq(s) /\ IsSeq(t) /\ \A r \in Range(t) : r.pid = pid
      /\ \A k \in DOMAIN t : \A l \in DOMAIN t : t[k] = t[l] => k = l
  BY MapsOf DEF Typed, Mapped, IsSeq
<1> HIDE DEF s, t
<1>2. /\ Range(s \o t) = Range(s) \cup Range(t)
      /\ Len(s) \in Nat /\ Len(t) \in Nat /\ DOMAIN s = 1 .. Len(s) /\ DOMAIN t = 1 .. Len(t)
      /\ DOMAIN (s \o t) = 1 .. Len(s) + Len(t)
      /\ \A i \in 1 .. Len(s) + Len(t) : (s \o t)[i] = IF i <= Len(s) THEN s[i] ELSE t[i - Len(s)]
  BY <1>1, Then
<1>3. q = s \o t
  BY DEF s, t
<1>4. ASSUME \A k \in DOMAIN s : \A l \in DOMAIN s : s[k] = s[l] => k = l, \A r \in Range(s) : r.pid # pid,
             NEW k \in DOMAIN q, NEW l \in DOMAIN q, q[k] = q[l]
      PROVE  k = l
  <2>1. k \in 1 .. Len(s) + Len(t) /\ l \in 1 .. Len(s) + Len(t)
    BY <1>2, <1>3
  <2>2. ASSUME NEW i \in 1 .. Len(s) + Len(t)
        PROVE  \/ i \in DOMAIN s /\ q[i] = s[i] /\ q[i].pid # pid
               \/ i - Len(s) \in DOMAIN t /\ q[i] = t[i - Len(s)] /\ q[i].pid = pid
    <3>1. CASE i <= Len(s)
      <4>1. i \in DOMAIN s /\ q[i] = s[i]
        BY <1>2, <1>3, <3>1
      <4> QED
        BY <1>4, <4>1, RangeAt
    <3>2. CASE ~ (i <= Len(s))
      <4>1. i - Len(s) \in DOMAIN t /\ q[i] = t[i - Len(s)]
        BY <1>2, <1>3, <3>2
      <4> QED
        BY <1>1, <4>1, RangeAt
    <3> QED
      BY <3>1, <3>2
  <2>3. \/ k \in DOMAIN s /\ q[k] = s[k] /\ q[k].pid # pid
        \/ k - Len(s) \in DOMAIN t /\ q[k] = t[k - Len(s)] /\ q[k].pid = pid
    BY <2>1, <2>2
  <2>4. \/ l \in DOMAIN s /\ q[l] = s[l] /\ q[l].pid # pid
        \/ l - Len(s) \in DOMAIN t /\ q[l] = t[l - Len(s)] /\ q[l].pid = pid
    BY <2>1, <2>2
  <2>5. CASE q[k].pid # pid
    <3>1. k \in DOMAIN s /\ l \in DOMAIN s /\ s[k] = s[l]
      BY <1>4, <2>3, <2>4, <2>5
    <3> QED
      BY <1>4, <3>1
  <2>6. CASE q[k].pid = pid
    <3>1. k - Len(s) \in DOMAIN t /\ l - Len(s) \in DOMAIN t /\ t[k - Len(s)] = t[l - Len(s)]
      BY <1>4, <2>3, <2>4, <2>6
    <3>2. k - Len(s) = l - Len(s)
      BY <1>1, <3>1
    <3> QED
      BY <1>2, <2>1, <3>2
  <2> QED
    BY <2>5, <2>6
<1> QED
  BY <1>2, <1>3, <1>4 DEF s, t

LEMMA CountStartSample ==
  ASSUME DisasmInv, CountPart, NEW pid \in Pids, StartSample(pid)
  PROVE  CountPart'
<1> DEFINE x == db.map \o insert_maps(pid)
<1>1. Typed
  BY DEF DisasmInv
<1>2. objects' = objects /\ command' = "sample" /\ sampled' = pid
  BY DEF StartSample, Begin
<1>3. /\ db'.map = x /\ db'.sample = db.sample
      /\ db'.func_annot = db.func_annot /\ db'.module_annot = db.module_annot
  <2>1. \E y : db' = [db EXCEPT !["tables"] = y, !["map"] = x]
    BY DEF StartSample
  <2>2. db = [t \in Columns |-> db[t]]
    BY <1>1 DEF Typed
  <2>3. "map" \in Columns /\ \A t \in {"sample", "func_annot", "module_annot"} : t \in Columns
    BY DEF Columns
  <2> HIDE DEF x
  <2>4. \A t \in Columns : t \notin {"tables", "map"} => db'[t] = db[t]
    BY <2>1, <2>2
  <2>5. db'["map"] = x
    BY <2>1, <2>2, <2>3
  <2> QED
    BY <2>3, <2>4, <2>5
<1>4. /\ {"reused", "counted"} \subseteq DOMAIN history' /\ ~history'.counted
      /\ ~history'.reused => ~history.reused /\ \A r \in Range(db.map) : r.pid # pid
  BY DEF StartSample, CountPart, Located
<1>5. /\ Range(x) = Range(db.map) \cup Range(insert_maps(pid))
      /\ (\A k \in DOMAIN db.map : \A l \in DOMAIN db.map : db.map[k] = db.map[l] => k = l) /\
         (\A r \in Range(db.map) : r.pid # pid) =>
           \A k \in DOMAIN x : \A l \in DOMAIN x : x[k] = x[l] => k = l
  <2>1. ASSUME NEW q, q = x
        PROVE  /\ Range(q) = Range(db.map) \cup Range(insert_maps(pid))
               /\ (\A k \in DOMAIN db.map : \A l \in DOMAIN db.map : db.map[k] = db.map[l] => k = l) /\
                  (\A r \in Range(db.map) : r.pid # pid) =>
                    \A k \in DOMAIN q : \A l \in DOMAIN q : q[k] = q[l] => k = l
    BY <1>1, <2>1, MapsAdded
  <2> HIDE DEF x
  <2> QED
    BY <2>1
<1> HIDE DEF x
<1>6. Located'
  <2>1. \A r \in Range(x) : \E p \in Pids : r \in Range(insert_maps(p))
    BY <1>5 DEF CountPart, Located
  <2>2. ~history'.reused => \A k \in DOMAIN x : \A l \in DOMAIN x : x[k] = x[l] => k = l
    BY <1>4, <1>5 DEF CountPart, Located
  <2>3. sampled' \in Pids /\ Range(insert_maps(sampled')) \subseteq Range(x)
    BY <1>2, <1>5
  <2> QED
    BY <1>3, <1>4, <2>1, <2>2, <2>3 DEF Located
<1>7. Drawn'
  <2>1. ASSUME NEW s \in Range(db'.sample) PROVE DrawnFrom(s)'
    <3>1. DrawnFrom(s)
      BY <1>3, <2>1 DEF CountPart, Drawn
    <3>2. PICK p \in Pids : \E m \in MappedIn(p) : \E f \in Functions(m) : \E i \in Reached(Code(m, f)) :
            /\ s = [pid |-> p, ip |-> Loaded(p, m, Code(m, f)[i].addr), at |-> <<m, f, Code(m, f)[i].addr>>]
            /\ Range(insert_maps(p)) \subseteq Range(db.map)
      BY <3>1 DEF DrawnFrom
    <3>3. \E m \in MappedIn(p) : \E f \in Functions(m) : \E i \in Reached(Code(m, f)) :
            /\ s = [pid |-> p, ip |-> Loaded(p, m, Code(m, f)[i].addr), at |-> <<m, f, Code(m, f)[i].addr>>]
            /\ Range(insert_maps(p)) \subseteq Range(db'.map)
      BY <1>3, <1>5, <3>2
    <3> QED
      BY <1>2, <3>3, PlacesSame, Zenon DEF DrawnFrom
  <2> QED
    BY <2>1 DEF Drawn
<1>8. Recounted'
  BY <1>2, <1>3, RecountedKept DEF CountPart
<1>9. Progress' /\ Finished'
  BY <1>2, <1>4 DEF Progress, Finished
<1> QED
  BY <1>6, <1>7, <1>8, <1>9 DEF CountPart

LEMMA CountSample ==
  ASSUME DisasmInv, Rated, CountPart, NEW m \in Modules, NEW f \in Functions(m), NEW i, Sample(m, f, i)
  PROVE  CountPart'
<1> DEFINE r == [pid |-> sampled, ip |-> Loaded(sampled, m, Code(m, f)[i].addr),
                 at |-> <<m, f, Code(m, f)[i].addr>>]
           x == Append(db.sample, r)
<1>1. Typed /\ Tables(db)
  BY DEF DisasmInv, Typed, Tables
<1>2. /\ objects' = objects /\ command' = command /\ command = "sample" /\ sampled' = sampled /\ history' = history
      /\ m \in MappedIn(sampled) /\ i \in Reached(Code(m, f))
  BY DEF Sample
<1>3. db' = [db EXCEPT !["sample"] = x]
  BY DEF Sample
<1>4. "sample" \in Columns /\ \A t \in {"map", "func_annot", "module_annot"} : t \in Columns /\ t # "sample"
  BY DEF Columns
<1>5. /\ db'.sample = x /\ db'.map = db.map
      /\ db'.func_annot = db.func_annot /\ db'.module_annot = db.module_annot
  <2> HIDE DEF x
  <2>1. db'["sample"] = x /\ \A t \in Columns : t # "sample" => db'[t] = db[t]
    BY <1>1, <1>3, <1>4, OneColumn
  <2> QED
    BY <1>4, <2>1
<1>6. Range(x) = Range(db.sample) \cup {r}
  <2> HIDE DEF r
  <2>1. db.sample \in Seq(Range(db.sample))
    BY DEF Rated
  <2>2. IsSeq(db.sample) /\ x = db.sample \o <<r>>
    BY <2>1 DEF IsSeq
  <2>3. IsSeq(<<r>>) /\ Range(<<r>>) = {r}
    BY One
  <2>4. Range(db.sample \o <<r>>) = Range(db.sample) \cup Range(<<r>>)
    BY <2>2, <2>3, Then
  <2> HIDE DEF x
  <2> QED
    BY <2>2, <2>3, <2>4
<1>7. sampled \in Pids /\ m \in MappedIn(sampled) /\ Range(insert_maps(sampled)) \subseteq Range(db.map)
  BY <1>2 DEF CountPart, Located
<1>8. DrawnFrom(r)
  BY <1>2, <1>7 DEF DrawnFrom
<1> HIDE DEF r, x
<1>9. Drawn'
  <2>1. ASSUME NEW s \in Range(db'.sample) PROVE DrawnFrom(s)'
    <3>1. DrawnFrom(s)
      BY <1>5, <1>6, <1>8, <2>1 DEF CountPart, Drawn
    <3>2. db'.map = db.map
      BY <1>5
    <3> QED
      BY <1>2, <3>1, <3>2, PlacesSame, Zenon DEF DrawnFrom
  <2> QED
    BY <2>1 DEF Drawn
<1>10. Located'
  BY <1>2, <1>5 DEF CountPart, Located
<1>11. Recounted'
  BY <1>2, <1>5, RecountedKept DEF CountPart
<1>12. ~history.counted
  BY <1>2 DEF CountPart, Finished
<1>13. Progress' /\ Finished'
  BY <1>2, <1>12 DEF Progress, Finished
<1> QED
  BY <1>9, <1>10, <1>11, <1>13 DEF CountPart

LEMMA CountAround ==
  ASSUME CountPart, EndSample \/ StartAnnotate \/ (\E scope : StartSearch(scope)) \/ SearchNext \/ SearchEnd \/ EndCommand
  PROVE  CountPart'
<1>1. /\ objects' = objects /\ db' = db /\ history' = history /\ command' \notin {"sample", "disasm", "count"}
  BY DEF EndSample, StartAnnotate, StartSearch, SearchNext, SearchEnd, EndCommand, Begin
<1>2. Same(CountColumns)
  BY <1>1 DEF Same
<1>3. /\ {"reused", "counted"} \subseteq DOMAIN history' /\ history'.partial = history.partial
      /\ history'.reused = history.reused /\ (history'.counted => history.counted)
  BY <1>1 DEF CountPart, Located
<1> QED
  BY <1>1, <1>2, <1>3, CountAside

LEMMA CountStartDisasm ==
  ASSUME Typed, CountPart, NEW ms, StartDisasm(ms)
  PROVE  CountPart'
<1>1. objects' = objects /\ command' = "disasm"
  BY DEF StartDisasm, Begin
<1>2. \E x : db' = [db EXCEPT !["tables"] = x]
  BY DEF StartDisasm
<1>3. /\ "tables" \in Columns /\ {"map", "sample", "func_annot", "module_annot"} \subseteq Columns
      /\ "tables" \notin {"map", "sample", "func_annot", "module_annot"} /\ Tables(db)
  BY DEF Columns, Typed, Tables
<1>4. Same({"map", "sample", "func_annot", "module_annot"})
  BY <1>2, <1>3, OthersSame
<1>5. {"reused", "counted"} \subseteq DOMAIN history' /\ history'.reused = history.reused /\ ~history'.counted
  BY DEF StartDisasm, CountPart, Located
<1> QED
  BY <1>1, <1>4, <1>5, CountCleared

LEMMA CountKill ==
  ASSUME Typed, CountPart, Kill
  PROVE  CountPart'
<1>1. objects' = objects /\ db' = db /\ command' = "none"
  BY DEF Kill
<1>2. Same(CountColumns) /\ Same({"map", "sample", "func_annot", "module_annot"})
  BY <1>1 DEF Same
<1>3. /\ {"reused", "counted"} \subseteq DOMAIN history'
      /\ history'.reused = history.reused /\ (history'.counted => history.counted)
  BY DEF Kill, CountPart, Located
<1>4. CASE command = "disasm"
  <2>1. ~history.counted
    BY <1>4 DEF CountPart, Finished
  <2> QED
    BY <1>1, <1>2, <1>3, <2>1, CountCleared
<1>5. CASE command # "disasm"
  <2>1. history'.partial = history.partial
    BY <1>5 DEF Kill, Typed
  <2> QED
    BY <1>1, <1>2, <1>3, <2>1, CountAside
<1> QED
  BY <1>4, <1>5

LEMMA SavedAside ==
  ASSUME Typed, NEW s, Disassembling(s), db' = Saved(s)
  PROVE  Same({"map", "sample", "func_annot", "module_annot"})
<1> DEFINE C == {"map", "sample", "func_annot", "module_annot"}
<1>0. Tables(db) /\ {"module", "func", "block", "inst", "edge"} \subseteq Columns \ C /\ C \subseteq Columns
  BY DEF Typed, Tables, Columns
<1>1. \E c \in {"module", "func", "block", "inst", "edge"} : \E x : db' = [db EXCEPT ![c] = x]
  <2>1. CASE \E m \in Modules : s = <<"module", m>>
    <3>1. s[1] = "module"
      BY <2>1
    <3>2. db' = [db EXCEPT !["module"] = db.module \cup {s[2]}]
      BY <3>1 DEF Saved
    <3> QED
      BY <3>2
  <2>2. CASE \E m \in Modules : \E f \in Functions(m) : s = <<"func", m, f>>
    <3>1. s[1] = "func"
      BY <2>2
    <3>2. db' = [db EXCEPT !["func"] = db.func \cup {<<s[2], s[3]>>}]
      BY <3>1 DEF Saved
    <3> QED
      BY <3>2
  <2>3. CASE \E m \in Modules : \E f \in Functions(m) : s = <<"edges", m, f>>
    <3>1. s[1] = "edges"
      BY <2>3
    <3>2. \E x : db' = [db EXCEPT !["edge"] = x]
      BY <3>1 DEF Saved
    <3> QED
      BY <3>2
  <2>4. CASE \E m \in Modules : \E f \in Functions(m) : \E k \in DOMAIN Graph(m, f) : s = <<"block", m, f, k>>
    <3>1. s[1] = "block"
      BY <2>4
    <3>2. \E x : db' = [db EXCEPT !["block"] = x]
      BY <3>1 DEF Saved
    <3> QED
      BY <3>2
  <2>5. CASE \E m \in Modules : \E f \in Functions(m) : \E k \in DOMAIN Graph(m, f) : s = <<"insts", m, f, k>>
    <3>1. s[1] = "insts"
      BY <2>5
    <3>2. \E x : db' = [db EXCEPT !["inst"] = x]
      BY <3>1 DEF Saved
    <3> QED
      BY <3>2
  <2> QED
    BY <2>1, <2>2, <2>3, <2>4, <2>5 DEF Disassembling
<1>2. PICK c \in {"module", "func", "block", "inst", "edge"} : \E x : db' = [db EXCEPT ![c] = x]
  BY <1>1
<1>3. PICK x : db' = [db EXCEPT ![c] = x]
  BY <1>2
<1>4. c \in Columns /\ c \notin C
  BY <1>0
<1> HIDE DEF C
<1>5. Same(C)
  BY <1>0, <1>3, <1>4, OthersSame
<1> QED
  BY <1>5 DEF C

LEMMA CountDisasm ==
  ASSUME Typed, CountPart, Statement, command = "disasm"
  PROVE  CountPart'
<1> DEFINE s == Head(todo)
<1>1. IsSeq(todo) /\ todo # <<>>
  BY DEF Typed, Listed, IsSeq, Statement
<1>2. objects' = objects /\ db' = Saved(s) /\ command' = command
  BY DEF Statement, Execute
<1>3. s \in Range(todo)
  BY <1>1, Rest
<1>4. /\ {"reused", "counted"} \subseteq DOMAIN history'
      /\ history'.reused = history.reused /\ (history'.counted => history.counted \/ s[1] = "count_modules")
  BY DEF Statement, CountPart, Located
<1> HIDE DEF s
<1>5. Disassembling(s)
  BY <1>3 DEF Typed, Listed, OfCommand
<1>6. s[1] # "count_modules"
  BY <1>5 DEF Disassembling
<1>7. ~history'.counted
  BY <1>4, <1>6 DEF CountPart, Finished
<1> QED
  BY <1>2, <1>4, <1>5, <1>7, SavedAside, CountCleared
-----------------------------------------------------------------------------
(* A count: its statements, and what they leave.                           *)

InOrder(q) ==
  \A i \in DOMAIN q : \A j \in DOMAIN q : i < j => Turn(q[i]) <= Turn(q[j]) /\ Turn(q[i]) < 8

LEMMA OrderThen ==
  ASSUME NEW s, IsSeq(s), NEW t, IsSeq(t), InOrder(s), InOrder(t),
         \A x \in Range(s) : \A y \in Range(t) : Turn(x) <= Turn(y) /\ Turn(x) < 8
  PROVE  InOrder(s \o t)
<1> DEFINE q == s \o t
<1>1. /\ Len(s) \in Nat /\ Len(t) \in Nat /\ DOMAIN s = 1 .. Len(s) /\ DOMAIN t = 1 .. Len(t)
      /\ DOMAIN q = 1 .. Len(s) + Len(t)
      /\ \A i \in 1 .. Len(s) + Len(t) : q[i] = IF i <= Len(s) THEN s[i] ELSE t[i - Len(s)]
  BY Then
<1> HIDE DEF q
<1>2. ASSUME NEW i \in DOMAIN q, NEW j \in DOMAIN q, i < j
      PROVE  Turn(q[i]) <= Turn(q[j]) /\ Turn(q[i]) < 8
  <2>1. CASE j <= Len(s)
    <3>1. i \in DOMAIN s /\ j \in DOMAIN s /\ q[i] = s[i] /\ q[j] = s[j]
      BY <1>1, <1>2, <2>1
    <3> QED
      BY <1>2, <3>1 DEF InOrder
  <2>2. CASE i <= Len(s) /\ ~(j <= Len(s))
    <3>1. i \in DOMAIN s /\ j - Len(s) \in DOMAIN t /\ q[i] = s[i] /\ q[j] = t[j - Len(s)]
      BY <1>1, <1>2, <2>2
    <3>2. s[i] \in Range(s) /\ t[j - Len(s)] \in Range(t)
      BY <3>1, RangeAt
    <3> QED
      BY <3>1, <3>2
  <2>3. CASE ~(i <= Len(s)) /\ ~(j <= Len(s))
    <3>1. /\ i - Len(s) \in DOMAIN t /\ j - Len(s) \in DOMAIN t /\ i - Len(s) < j - Len(s)
          /\ q[i] = t[i - Len(s)] /\ q[j] = t[j - Len(s)]
      BY <1>1, <1>2, <2>3
    <3> QED
      BY <3>1 DEF InOrder
  <2> QED
    BY <1>1, <1>2, <2>1, <2>2, <2>3
<1> QED
  BY <1>2 DEF InOrder, q

LEMMA CountStartCount ==
  ASSUME DisasmInv, CountPart, StartCount
  PROVE  CountPart'
<1> DEFINE a == << <<"pre">> >>
           b == [k \in 1 .. Cardinality(db.module) |-> <<"count_insts", SetToSeq(db.module)[k]>>]
           c == << <<"clear", "block_annot">>, <<"count_blocks">>, <<"clear", "func_annot">>, <<"count_funcs">>,
                   <<"clear", "module_annot">>, <<"count_modules">> >>
<1>1. Typed /\ db.module \subseteq Modules
  BY DEF DisasmInv, Sound
<1>2. objects' = objects /\ db' = db /\ command' = "count"
  BY DEF StartCount, Begin
<1>3. {"reused", "counted"} \subseteq DOMAIN history' /\ history'.reused = history.reused /\ ~history'.counted
  BY DEF StartCount, CountPart, Located
<1>4. todo' \in {<<>>, a, (a \o b) \o c}
  BY DEF StartCount
<1>5. IsSeq(a) /\ Range(a) = {<<"pre">>}
  BY One
<1>6. IsSeq(b) /\ Range(b) = {<<"count_insts", m>> : m \in db.module}
  <2> DEFINE q == SetToSeq(db.module)
  <2>1. /\ Cardinality(db.module) \in Nat /\ DOMAIN q = 1 .. Cardinality(db.module) /\ Range(q) = db.module
    BY <1>1, ModulesFinite, FS_Subset, Enumerated
  <2>2. b \in [1 .. Cardinality(db.module) -> {x \in Range(b) : TRUE}]
    BY DEF Range
  <2>3. IsSeq(b)
    BY <2>1, <2>2, Indexed
  <2>4. Range(b) = {<<"count_insts", m>> : m \in Range(q)}
    <3>1. b = [k \in DOMAIN q |-> <<"count_insts", q[k]>>]
      BY <2>1
    <3> HIDE DEF q, b
    <3> QED
      BY <3>1 DEF Range
  <2> HIDE DEF q, b
  <2> QED
    BY <2>1, <2>3, <2>4
<1>7. /\ IsSeq(c) /\ DOMAIN c = 1 .. 6 /\ \A i \in 1 .. 6 : Turn(c[i]) = i + 2
      /\ <<"count_blocks">> \in Range(c) /\ <<"count_funcs">> \in Range(c)
      /\ \A s \in Range(c) : Spelled(s) /\ s # <<"pre">>
  <2> DEFINE C == {<<"clear", "block_annot">>, <<"count_blocks">>, <<"clear", "func_annot">>, <<"count_funcs">>,
                   <<"clear", "module_annot">>, <<"count_modules">>}
  <2>1. c \in Seq(C) /\ DOMAIN c = 1 .. 6
    OBVIOUS
  <2>2. c[1] = <<"clear", "block_annot">> /\ c[2] = <<"count_blocks">> /\ c[3] = <<"clear", "func_annot">>
        /\ c[4] = <<"count_funcs">> /\ c[5] = <<"clear", "module_annot">> /\ c[6] = <<"count_modules">>
    OBVIOUS
  <2>3. \A s \in C : Spelled(s) /\ s # <<"pre">>
    BY DEF Spelled
  <2>4. Range(c) \subseteq C
    BY <2>1 DEF Range
  <2>5. Turn(c[1]) = 3 /\ Turn(c[2]) = 4 /\ Turn(c[3]) = 5 /\ Turn(c[4]) = 6 /\ Turn(c[5]) = 7 /\ Turn(c[6]) = 8
    BY <2>2 DEF Turn
  <2> HIDE DEF c
  <2>6. \A i \in 1 .. 6 : Turn(c[i]) = i + 2
    BY <2>5
  <2>7. c[2] \in Range(c) /\ c[4] \in Range(c)
    BY <2>1, RangeAt
  <2>8. IsSeq(c)
    BY <2>1, Sequence
  <2> QED
    BY <2>1, <2>2, <2>3, <2>4, <2>6, <2>7, <2>8
<1>8. (\A s \in Range(a) : Turn(s) = 1 /\ Spelled(s)) /\ \A s \in Range(b) : Turn(s) = 2 /\ Spelled(s)
  BY <1>5, <1>6 DEF Turn, Spelled
<1>9. \A s \in Range(c) : Turn(s) \in Nat /\ Turn(s) >= 3
  BY <1>7 DEF Range
<1>10. InOrder(a) /\ InOrder(b) /\ InOrder(c)
  <2>1. InOrder(a)
    BY DEF InOrder
  <2>2. InOrder(b)
    BY <1>8 DEF InOrder, Range
  <2> HIDE DEF c
  <2>3. InOrder(c)
    BY <1>7 DEF InOrder
  <2> QED
    BY <2>1, <2>2, <2>3
<1> DEFINE d == (a \o b) \o c
<1> HIDE DEF a, b, c
<1>11. IsSeq(a \o b) /\ Range(a \o b) = Range(a) \cup Range(b) /\ InOrder(a \o b)
  <2>1. IsSeq(a \o b) /\ Range(a \o b) = Range(a) \cup Range(b)
    BY <1>5, <1>6, Then
  <2>2. \A x \in Range(a) : \A y \in Range(b) : Turn(x) <= Turn(y) /\ Turn(x) < 8
    BY <1>8
  <2>3. InOrder(a \o b)
    BY <1>5, <1>6, <1>10, <2>2, OrderThen
  <2> QED
    BY <2>1, <2>3
<1>12. IsSeq(d) /\ Range(d) = (Range(a) \cup Range(b)) \cup Range(c) /\ InOrder(d)
  <2>1. \A x \in Range(a \o b) : \A y \in Range(c) : Turn(x) <= Turn(y) /\ Turn(x) < 8
    BY <1>8, <1>9, <1>11
  <2> QED
    BY <1>7, <1>10, <1>11, <2>1, Then, OrderThen
<1> HIDE DEF d
<1>13. Range(<<>>) = {}
  BY DEF Range
<1>14. \A s \in Range(todo') : Spelled(s)
  BY <1>4, <1>7, <1>8, <1>12, <1>13 DEF d
<1>15. Finished'
  <2>1. \A s : Spelled(s)' <=> Spelled(s)
    BY DEF Spelled
  <2> QED
    BY <1>3, <1>14, <2>1 DEF Finished
<1>16. Progress'
  <2>1. CASE todo' \in {<<>>, a}
    <3>1. <<"count_modules">> \notin Range(todo')
      BY <1>5, <1>13, <2>1
    <3> QED
      BY <3>1 DEF Progress
  <2>2. CASE todo' = d
    <3>1. <<"pre">> \in Range(d) /\ <<"count_blocks">> \in Range(d) /\ <<"count_funcs">> \in Range(d)
          /\ \A m \in db.module : <<"count_insts", m>> \in Range(d)
      BY <1>5, <1>6, <1>7, <1>12
    <3>2. InTurn'
      BY <1>2, <1>12, <2>2, <3>1 DEF InTurn, InOrder
    <3> QED
      BY <1>3, <2>2, <3>1, <3>2 DEF Progress
  <2> QED
    BY <1>4, <2>1, <2>2 DEF d
<1>17. Located' /\ Drawn'
  BY <1>2, <1>3, LocatedKept DEF CountPart
<1>18. Recounted'
  BY <1>2, RecountedKept DEF CountPart
<1> QED
  BY <1>15, <1>16, <1>17, <1>18 DEF CountPart

\* What a statement of a count writes.
Wrote(c, x) == db'[c] = x /\ \A t \in Columns : t # c => db'[t] = db[t]
LEMMA CountWrites ==
  ASSUME Typed, NEW s, Counting(s), db' = Counted(s)
  PROVE  /\ s[1] = "pre" => Wrote("inst_annot", {})
         /\ s[1] = "count_insts" => Wrote("inst_annot", db.inst_annot \cup count_insts(s[2]))
         /\ s[1] = "clear" => s[2] \in {"block_annot", "func_annot", "module_annot"} /\ Wrote(s[2], <<>>)
         /\ s[1] = "count_blocks" => Wrote("block_annot", count_blocks)
         /\ s[1] = "count_funcs" => Wrote("func_annot", count_funcs)
         /\ s[1] = "count_modules" => Wrote("module_annot", count_modules)
<1>0. Tables(db) /\ {"inst_annot", "block_annot", "func_annot", "module_annot"} \subseteq Columns
  BY DEF Typed, Tables, Columns
<1>1. ASSUME NEW c \in {"inst_annot", "block_annot", "func_annot", "module_annot"}, NEW x, db' = [db EXCEPT ![c] = x]
      PROVE  Wrote(c, x)
  <2>1. c \in Columns
    BY <1>0
  <2>2. db'[c] = x /\ \A t \in Columns : t # c => db'[t] = db[t]
    BY <1>0, <1>1, <2>1, OneColumn
  <2> QED
    BY <2>2 DEF Wrote
<1>2. s[1] = "pre" => db' = [db EXCEPT !["inst_annot"] = {}]
  BY DEF Counted
<1>3. s[1] = "count_insts" => db' = [db EXCEPT !["inst_annot"] = db.inst_annot \cup count_insts(s[2])]
  BY DEF Counted
<1>4. s[1] = "clear" => s[2] \in {"block_annot", "func_annot", "module_annot"} /\ db' = [db EXCEPT ![s[2]] = <<>>]
  BY DEF Counted, Counting
<1>5. s[1] = "count_blocks" => db' = [db EXCEPT !["block_annot"] = count_blocks]
  BY DEF Counted
<1>6. s[1] = "count_funcs" => db' = [db EXCEPT !["func_annot"] = count_funcs]
  BY DEF Counted
<1>7. s[1] = "count_modules" => db' = [db EXCEPT !["module_annot"] = count_modules]
  BY DEF Counted
<1>8. s[1] = "pre" => Wrote("inst_annot", {})
  BY <1>1, <1>2
<1>9. s[1] = "count_insts" => Wrote("inst_annot", db.inst_annot \cup count_insts(s[2]))
  BY <1>1, <1>3
<1>10. s[1] = "clear" => s[2] \in {"block_annot", "func_annot", "module_annot"} /\ Wrote(s[2], <<>>)
  BY <1>1, <1>4
<1>11. s[1] = "count_blocks" => Wrote("block_annot", count_blocks)
  BY <1>1, <1>5
<1>12. s[1] = "count_funcs" => Wrote("func_annot", count_funcs)
  BY <1>1, <1>6
<1>13. s[1] = "count_modules" => Wrote("module_annot", count_modules)
  BY <1>1, <1>7
<1> QED
  BY <1>8, <1>9, <1>10, <1>11, <1>12, <1>13

LEMMA TableCounts ==
  ASSUME NEW table, NEW S, IsFiniteSet(S), \A x \in S : table[x].count \in Nat
  PROVE  countOf(table, S) \in Nat
<1> DEFINE v == [x \in S |-> table[x].count]
           Body(f) == f = [s \in SUBSET S |-> IF s = {} THEN 0 ELSE table[Pick(s)].count + f[Others(s)]]
<1>1. \A f : Sums(f, v, S) <=> Body(f)
  <2> TAKE f
  <2>1. \A s \in SUBSET S : s # {} => v[Pick(s)] = table[Pick(s)].count
    BY Picked
  <2> QED
    BY <2>1 DEF Sums
<1>2. \A f : Body(f) => Counts(f, S)
  <2>1. \A x \in S : v[x] \in Nat
    OBVIOUS
  <2> HIDE DEF v
  <2> QED
    BY <1>1, <2>1, SumsTyped
<1>3. \E f : Body(f)
  BY <1>1, SumsExist
<1>4. \E f : Body(f) /\ countOf(table, S) = f[S]
  BY <1>3, Zenon DEF countOf, MapThenSumSet, MapThenFoldSet, Pick, Others
<1>5. PICK f : Body(f) /\ countOf(table, S) = f[S]
  BY <1>4
<1> HIDE DEF Body
<1>6. Counts(f, S)
  BY <1>2, <1>5, Zenon
<1> QED
  BY <1>5, <1>6 DEF Counts

LEMMA FuncsTyped ==
  ASSUME Settled, NEW g \in DOMAIN count_funcs
  PROVE  /\ "count" \in DOMAIN count_funcs[g] /\ count_funcs[g].count \in Nat
         /\ \E m \in Modules : \E f \in Functions(m) : g = <<m, f>>
<1> DEFINE S == {b \in DOMAIN db.block_annot : FuncOf(b) = g}
<1>1. /\ g \in {FuncOf(b) : b \in DOMAIN db.block_annot}
      /\ count_funcs[g] = [count |-> countOf(db.block_annot, S), score |-> 0]
  BY DEF count_funcs
<1>2. IsFiniteSet(S) /\ \A b \in S : db.block_annot[b].count \in Nat
  <2>1. IsFiniteSet(S)
    BY AnnotatedFinite, FS_Subset
  <2>2. \A b \in DOMAIN db.block_annot : db.block_annot[b].count \in Nat
    BY DEF Settled, Rated
  <2> QED
    BY <2>1, <2>2
<1>3. countOf(db.block_annot, S) \in Nat
  <2> HIDE DEF S
  <2> QED
    BY <1>2, TableCounts
<1>4. PICK b \in DOMAIN db.block_annot : g = FuncOf(b)
  BY <1>1
<1>5. FuncOf(b) = <<b[1], b[2]>>
  BY DEF FuncOf
<1>6. b[1] \in Modules /\ b[2] \in Functions(b[1])
  BY <1>5, AnnotatedIn
<1> HIDE DEF S
<1> QED
  BY <1>1, <1>3, <1>4, <1>5, <1>6

LEMMA ModulesTyped ==
  \A m \in DOMAIN count_modules : "count" \in DOMAIN count_modules[m]
BY DEF count_modules

LEMMA CountedTables ==
  ASSUME Typed, NEW s, Counting(s), db' = Counted(s)
  PROVE  Same({"map", "sample", "module", "inst"})
<1> DEFINE C == {"map", "sample", "module", "inst"}
<1>1. C \subseteq Columns /\ C \cap {"inst_annot", "block_annot", "func_annot", "module_annot"} = {}
  BY DEF Columns
<1>2. \E c \in {"inst_annot", "block_annot", "func_annot", "module_annot"} : \E x : Wrote(c, x)
  <2>1. CASE s[1] = "pre"
    BY <2>1, CountWrites
  <2>2. CASE s[1] = "count_insts"
    BY <2>2, CountWrites
  <2>3. CASE s[1] = "clear"
    BY <2>3, CountWrites
  <2>4. CASE s[1] = "count_blocks"
    BY <2>4, CountWrites
  <2>5. CASE s[1] = "count_funcs"
    BY <2>5, CountWrites
  <2>6. CASE s[1] = "count_modules"
    BY <2>6, CountWrites
  <2> QED
    BY <2>1, <2>2, <2>3, <2>4, <2>5, <2>6 DEF Counting
<1>3. \A t \in C : db'[t] = db[t]
  BY <1>1, <1>2 DEF Wrote
<1> QED
  BY <1>3 DEF Same

\* Which of the three tables a statement writes.
LEMMA CountedAnnots ==
  ASSUME Typed, NEW s, Counting(s), db' = Counted(s)
  PROVE  /\ s[1] \in {"pre", "count_insts"} \/ db'.inst_annot = db.inst_annot
         /\ s[1] = "count_blocks" \/ (s[1] = "clear" /\ s[2] = "block_annot") \/ db'.block_annot = db.block_annot
         /\ s[1] = "count_funcs" \/ (s[1] = "clear" /\ s[2] = "func_annot") \/ db'.func_annot = db.func_annot
         /\ s[1] = "count_modules" \/ (s[1] = "clear" /\ s[2] = "module_annot") \/ db'.module_annot = db.module_annot
<1>0. "inst_annot" \in Columns /\ "block_annot" \in Columns /\ "func_annot" \in Columns /\ "module_annot" \in Columns
  BY DEF Columns
<1>1. CASE s[1] = "pre"
  <2>1. Wrote("inst_annot", {})
    BY <1>1, CountWrites
  <2> QED
    BY <1>0, <1>1, <2>1 DEF Wrote
<1>2. CASE s[1] = "count_insts"
  <2>1. \E x : Wrote("inst_annot", x)
    BY <1>2, CountWrites
  <2> QED
    BY <1>0, <1>2, <2>1 DEF Wrote
<1>3. CASE s[1] = "clear"
  <2>1. s[2] \in {"block_annot", "func_annot", "module_annot"} /\ Wrote(s[2], <<>>)
    BY <1>3, CountWrites
  <2> QED
    BY <1>0, <1>3, <2>1 DEF Wrote
<1>4. CASE s[1] = "count_blocks"
  <2>1. \E x : Wrote("block_annot", x)
    BY <1>4, CountWrites
  <2> QED
    BY <1>0, <1>4, <2>1 DEF Wrote
<1>5. CASE s[1] = "count_funcs"
  <2>1. \E x : Wrote("func_annot", x)
    BY <1>5, CountWrites
  <2> QED
    BY <1>0, <1>5, <2>1 DEF Wrote
<1>6. CASE s[1] = "count_modules"
  <2>1. \E x : Wrote("module_annot", x)
    BY <1>6, CountWrites
  <2> QED
    BY <1>0, <1>6, <2>1 DEF Wrote
<1> QED
  BY <1>1, <1>2, <1>3, <1>4, <1>5, <1>6 DEF Counting

LEMMA CountedRecounted ==
  ASSUME Settled, Recounted, objects' = objects, NEW s, Counting(s), db' = Counted(s)
  PROVE  Recounted'
<1>0. /\ Typed /\ "func_annot" \in Columns /\ "module_annot" \in Columns
      /\ Modules' = Modules /\ \A m : Functions(m)' = Functions(m)
  BY PlacesSame DEF Settled, DisasmInv, Columns
<1>1. \A g \in DOMAIN db'.func_annot :
        /\ "count" \in DOMAIN db'.func_annot[g] /\ db'.func_annot[g].count \in Nat
        /\ \E m \in Modules : \E f \in Functions(m) : g = <<m, f>>
  <2>1. CASE db'.func_annot = db.func_annot
    BY <2>1 DEF Recounted
  <2>2. CASE db'.func_annot = <<>>
    <3>1. DOMAIN db'.func_annot = {}
      BY <2>2
    <3> QED
      BY <3>1
  <2>3. CASE db'.func_annot = count_funcs
    BY <2>3, FuncsTyped
  <2>4. db'.func_annot \in {db.func_annot, <<>>, count_funcs}
    <3>1. CASE s[1] = "count_funcs"
      BY <1>0, <3>1, CountWrites DEF Wrote
    <3>2. CASE s[1] = "clear" /\ s[2] = "func_annot"
      <4>1. Wrote("func_annot", <<>>)
        BY <1>0, <3>2, CountWrites
      <4> QED
        BY <4>1 DEF Wrote
    <3> QED
      BY <1>0, <3>1, <3>2, CountedAnnots
  <2> QED
    BY <2>1, <2>2, <2>3, <2>4
<1>2. \A m \in DOMAIN db'.module_annot : "count" \in DOMAIN db'.module_annot[m]
  <2>1. CASE db'.module_annot = db.module_annot
    BY <2>1 DEF Recounted
  <2>2. CASE db'.module_annot = <<>>
    <3>1. DOMAIN db'.module_annot = {}
      BY <2>2
    <3> QED
      BY <3>1
  <2>3. CASE db'.module_annot = count_modules
    BY <2>3, ModulesTyped
  <2>4. db'.module_annot \in {db.module_annot, <<>>, count_modules}
    <3>1. CASE s[1] = "count_modules"
      BY <1>0, <3>1, CountWrites DEF Wrote
    <3>2. CASE s[1] = "clear" /\ s[2] = "module_annot"
      <4>1. Wrote("module_annot", <<>>)
        BY <1>0, <3>2, CountWrites
      <4> QED
        BY <4>1 DEF Wrote
    <3> QED
      BY <1>0, <3>1, <3>2, CountedAnnots
  <2> QED
    BY <2>1, <2>2, <2>3, <2>4
<1> QED
  BY <1>0, <1>1, <1>2 DEF Recounted

LEMMA RowsSame ==
  ASSUME objects' = objects, form' = form, Same({"map", "sample", "inst"})
  PROVE  \A m : count_insts(m)' = count_insts(m)
<1>1. db'.map = db.map /\ db'.sample = db.sample /\ db'.inst = db.inst
  BY DEF Same
<1>2. \A m : Addresses(m)' = Addresses(m)
  BY PlacesSame
<1>3. \A m, r : offset(m, r)' = offset(m, r)
  BY <1>2 DEF offset
<1>4. \A m, x : covering(m, x)' = covering(m, x)
  BY <1>1 DEF covering
<1>5. \A rows : taken(rows)' = taken(rows)
  BY DEF taken
<1>6. \A m, addr : sample_grouped(m, addr)' = sample_grouped(m, addr)
  BY <1>1, <1>3, <1>4, <1>5 DEF sample_grouped
<1> QED
  BY <1>1, <1>6 DEF count_insts

LEMMA Behind ==
  ASSUME InTurn, IsSeq(todo), todo # <<>>, NEW t \in Range(Tail(todo))
  PROVE  Turn(Head(todo)) <= Turn(t) /\ Turn(Head(todo)) < 8
<1>1. PICK i \in DOMAIN Tail(todo) : t = Tail(todo)[i]
  BY DEF Range
<1>2. /\ 1 \in DOMAIN todo /\ Head(todo) = todo[1] /\ i + 1 \in DOMAIN todo /\ t = todo[i + 1] /\ i \in Nat /\ 1 <= i
  BY <1>1, Rest
<1> QED
  BY <1>2 DEF InTurn

\* What is known of the first statement of a plan.
LEMMA Plan ==
  ASSUME InTurn, IsSeq(todo), todo # <<>>, NEW s, s = Head(todo), Counting(s), Spelled(s),
         NEW T, T = Range(Tail(todo))
  PROVE  /\ s \in Range(todo) /\ Range(todo) = {s} \cup T /\ \A t \in T : Turn(s) <= Turn(t) /\ Turn(s) < 8
         /\ s[1] \in {"pre", "count_insts"} \/ (s[1] = "clear" /\ s[2] = "block_annot") =>
              Turn(s) < 4 /\ <<"count_blocks">> \in T
         /\ s[1] \in {"pre", "count_insts", "count_blocks"} \/ (s[1] = "clear" /\ s[2] \in {"block_annot", "func_annot"}) =>
              Turn(s) < 6 /\ <<"count_funcs">> \in T
         /\ s[1] \in {"count_blocks", "count_funcs", "count_modules"} =>
              <<"pre">> \notin Range(todo) /\ \A m : <<"count_insts", m>> \notin Range(todo)
         /\ s[1] \in {"count_funcs", "count_modules"} => <<"count_blocks">> \notin Range(todo)
         /\ s[1] = "count_modules" => <<"count_funcs">> \notin Range(todo) /\ T = {}
<1>1. s \in Range(todo) /\ Range(todo) = {s} \cup T
  BY Rest
<1>2. \A t \in T : Turn(s) <= Turn(t) /\ Turn(s) < 8
  BY Behind
<1>3. /\ Turn(<<"pre">>) = 1 /\ Turn(<<"count_blocks">>) = 4 /\ Turn(<<"count_funcs">>) = 6
      /\ \A m : Turn(<<"count_insts", m>>) = 2
  BY DEF Turn
<1>4. /\ s[1] = "pre" => Turn(s) = 1 /\ s = <<"pre">>
      /\ s[1] = "count_insts" => Turn(s) = 2
      /\ s[1] = "clear" /\ s[2] = "block_annot" => Turn(s) = 3
      /\ s[1] = "clear" /\ s[2] = "func_annot" => Turn(s) = 5
      /\ s[1] = "count_blocks" => Turn(s) = 4 /\ s = <<"count_blocks">>
      /\ s[1] = "count_funcs" => Turn(s) = 6 /\ s = <<"count_funcs">>
      /\ s[1] = "count_modules" => Turn(s) = 8 /\ s = <<"count_modules">>
  BY DEF Turn, Spelled
<1>5. s[1] \in {"pre", "count_insts"} \/ (s[1] = "clear" /\ s[2] = "block_annot") =>
        Turn(s) < 4 /\ <<"count_blocks">> \in T
  <2> SUFFICES ASSUME s[1] \in {"pre", "count_insts"} \/ (s[1] = "clear" /\ s[2] = "block_annot")
               PROVE  Turn(s) < 4 /\ <<"count_blocks">> \in T
    OBVIOUS
  <2>1. Turn(s) < 4
    BY <1>4
  <2>2. <<"count_blocks">> \in Range(todo)
    BY <1>1, <2>1 DEF InTurn
  <2>3. s # <<"count_blocks">>
    BY <1>3, <2>1
  <2> QED
    BY <1>1, <2>1, <2>2, <2>3
<1>6. s[1] \in {"pre", "count_insts", "count_blocks"} \/ (s[1] = "clear" /\ s[2] \in {"block_annot", "func_annot"}) =>
        Turn(s) < 6 /\ <<"count_funcs">> \in T
  <2> SUFFICES ASSUME s[1] \in {"pre", "count_insts", "count_blocks"} \/ (s[1] = "clear" /\ s[2] \in {"block_annot", "func_annot"})
               PROVE  Turn(s) < 6 /\ <<"count_funcs">> \in T
    OBVIOUS
  <2>1. Turn(s) < 6
    BY <1>4
  <2>2. <<"count_funcs">> \in Range(todo)
    BY <1>1, <2>1 DEF InTurn
  <2>3. s # <<"count_funcs">>
    BY <1>3, <2>1
  <2> QED
    BY <1>1, <2>1, <2>2, <2>3
<1>7. ASSUME s[1] \in {"count_blocks", "count_funcs", "count_modules"}
      PROVE  <<"pre">> \notin Range(todo) /\ \A m : <<"count_insts", m>> \notin Range(todo)
  <2>1. Turn(s) >= 4 /\ Turn(s) \in Nat
    BY <1>4, <1>7
  <2> QED
    BY <1>1, <1>2, <1>3, <2>1
<1>8. ASSUME s[1] \in {"count_funcs", "count_modules"} PROVE <<"count_blocks">> \notin Range(todo)
  <2>1. Turn(s) >= 6 /\ Turn(s) \in Nat
    BY <1>4, <1>8
  <2> QED
    BY <1>1, <1>2, <1>3, <2>1
<1>9. ASSUME s[1] = "count_modules" PROVE <<"count_funcs">> \notin Range(todo) /\ T = {}
  <2>1. Turn(s) = 8
    BY <1>4, <1>9
  <2> QED
    BY <1>1, <1>2, <1>3, <2>1
<1> QED
  BY <1>1, <1>2, <1>5, <1>6, <1>7, <1>8, <1>9

LEMMA TurnKept ==
  ASSUME InTurn, IsSeq(todo), todo # <<>>, Counting(Head(todo)), Spelled(Head(todo)), todo' = Tail(todo),
         db'.module = db.module
  PROVE  InTurn'
<1> DEFINE s == Head(todo)
           T == Range(Tail(todo))
<1>1. s \in Range(todo) /\ Range(todo) = {s} \cup T /\ \A t \in T : Turn(s) <= Turn(t) /\ Turn(s) < 8
  BY Plan
<1>2. \A i \in DOMAIN todo' : \A j \in DOMAIN todo' :
        i < j => Turn(todo'[i]) <= Turn(todo'[j]) /\ Turn(todo'[i]) < 8
  <2> TAKE i \in DOMAIN todo'
  <2> TAKE j \in DOMAIN todo'
  <2>1. /\ i + 1 \in DOMAIN todo /\ j + 1 \in DOMAIN todo /\ i \in Nat /\ j \in Nat
        /\ todo'[i] = todo[i + 1] /\ todo'[j] = todo[j + 1]
    BY Rest
  <2>2. i < j => i + 1 < j + 1
    BY <2>1
  <2> QED
    BY <2>1, <2>2 DEF InTurn
<1>3. ASSUME NEW t \in T PROVE /\ Turn(t) < 4 => <<"count_blocks">> \in T
                               /\ Turn(t) < 6 => <<"count_funcs">> \in T
  <2>1. /\ Turn(t) < 4 => <<"count_blocks">> \in Range(todo)
        /\ Turn(t) < 6 => <<"count_funcs">> \in Range(todo)
    BY <1>1, <1>3 DEF InTurn
  <2>2. Turn(s) <= Turn(t) /\ Turn(s) \in Nat /\ Turn(t) \in Nat
    BY <1>1, <1>3 DEF Turn
  <2>3. Turn(<<"count_blocks">>) = 4 /\ Turn(<<"count_funcs">>) = 6
    BY DEF Turn
  <2> HIDE DEF s, T
  <2>4. /\ Turn(t) < 4 => s # <<"count_blocks">>
        /\ Turn(t) < 6 => s # <<"count_funcs">>
    BY <2>2, <2>3
  <2> QED
    BY <1>1, <2>1, <2>4
<1>4. ASSUME <<"pre">> \in T PROVE \A m \in db.module : <<"count_insts", m>> \in T
  <2>1. \A m \in db.module : <<"count_insts", m>> \in Range(todo)
    BY <1>1, <1>4 DEF InTurn
  <2>2. Turn(s) <= 1
    <3>1. Turn(<<"pre">>) = 1
      BY DEF Turn
    <3> QED
      BY <1>1, <1>4, <3>1
  <2>3. \A m : Turn(<<"count_insts", m>>) = 2
    BY DEF Turn
  <2> HIDE DEF s, T
  <2>4. ASSUME NEW m, s = <<"count_insts", m>> PROVE FALSE
    <3>1. Turn(s) = 2
      BY <2>3, <2>4
    <3> QED
      BY <2>2, <3>1
  <2> QED
    BY <1>1, <2>1, <2>4
<1>5. Range(todo') = T
  OBVIOUS
<1> HIDE DEF T, s
<1>6. \A t : Turn(t)' = Turn(t)
  BY DEF Turn
<1> QED
  BY <1>2, <1>3, <1>4, <1>5, <1>6 DEF InTurn

\* A count that executes its last statement, or has nothing to count.
LEMMA CountStatement ==
  ASSUME Settled, CountPart, Statement, command = "count"
  PROVE  CountPart'
<1> DEFINE s == Head(todo)
           T == Range(Tail(todo))
<1>1. IsSeq(todo) /\ todo # <<>> /\ Typed
  BY DEF Settled, DisasmInv, Typed, Listed, IsSeq, Statement
<1>2. /\ objects' = objects /\ form' = form /\ db' = Counted(s) /\ command' = command /\ sampled' = sampled
      /\ todo' = <<>> \o Tail(todo)
  BY DEF Statement, Execute, AfterThat
<1>3. IsSeq(Tail(todo)) /\ Range(todo) = {s} \cup T
  BY <1>1, Rest
<1>4. todo' = Tail(todo)
  BY <1>2, <1>3 DEF IsSeq
<1>5. /\ {"reused", "counted"} \subseteq DOMAIN history' /\ history'.reused = history.reused
      /\ history'.partial = history.partial /\ (history'.counted => history.counted \/ s[1] = "count_modules")
  BY <1>1 DEF Statement, CountPart, Located, Typed
<1>6. Counting(s) /\ Spelled(s)
  BY <1>1, <1>3 DEF Typed, Listed, OfCommand, CountPart, Finished
<1>7. ~history.counted
  BY <1>1 DEF CountPart, Finished
<1> HIDE DEF s, T
<1>8. Same({"map", "sample", "module", "inst"})
  BY <1>1, <1>2, <1>6, CountedTables
<1>9. db'.map = db.map /\ db'.sample = db.sample /\ db'.module = db.module /\ db'.inst = db.inst
  BY <1>8 DEF Same
<1>10. Located' /\ Drawn'
  BY <1>2, <1>5, <1>9, LocatedKept DEF CountPart
<1>11. Recounted'
  BY <1>2, <1>6, CountedRecounted DEF CountPart
<1>12. SameSamples /\ SameStored
  BY <1>2, <1>5, <1>9 DEF SameSamples, SameStored
<1>13. Stored' = Stored /\ (\A m : Functions(m)' = Functions(m)) /\ (\A m, f : Graph(m, f)' = Graph(m, f))
  BY <1>2, <1>12, Unmoved, PlacesSame DEF Stored, SameStored
<1>14. \A x : InModule(x)' = InModule(x) /\ InFunction(x)' = InFunction(x) /\ InBlockOf(x)' = InBlockOf(x)
  BY <1>12, SetsSame
<1>15. \A t \in Range(todo') : Spelled(t)'
  BY <1>3, <1>4 DEF T, CountPart, Finished, Spelled
<1>16. CASE <<"count_modules">> \notin Range(todo)
  <2>1. s[1] # "count_modules"
    BY <1>3, <1>6, <1>16 DEF Spelled
  <2>2. <<"count_modules">> \notin Range(todo')
    BY <1>3, <1>4, <1>16 DEF T
  <2>3. Progress'
    BY <2>2 DEF Progress
  <2>4. Finished'
    BY <1>5, <1>7, <1>15, <2>1 DEF Finished
  <2> QED
    BY <1>10, <1>11, <2>3, <2>4 DEF CountPart
<1>17. CASE <<"count_modules">> \in Range(todo)
  <2>1. /\ InTurn
        /\ <<"pre">> \notin Range(todo) =>
             /\ \A row \in db.inst_annot : row \in count_insts(row.module)
             /\ \A m \in db.module : <<"count_insts", m>> \in Range(todo) \/ count_insts(m) \subseteq db.inst_annot
        /\ <<"count_blocks">> \notin Range(todo) => BlocksExact
        /\ <<"count_funcs">> \notin Range(todo) => FuncsExact
    BY <1>17 DEF CountPart, Progress
  <2>2. InTurn'
    BY <1>1, <1>4, <1>6, <1>9, <2>1, TurnKept DEF s
  <2>3. /\ \A t \in T : Turn(s) <= Turn(t) /\ Turn(s) < 8
        /\ s[1] \in {"pre", "count_insts"} \/ (s[1] = "clear" /\ s[2] = "block_annot") =>
             Turn(s) < 4 /\ <<"count_blocks">> \in T
        /\ s[1] \in {"pre", "count_insts", "count_blocks"} \/ (s[1] = "clear" /\ s[2] \in {"block_annot", "func_annot"}) =>
             Turn(s) < 6 /\ <<"count_funcs">> \in T
        /\ s[1] \in {"count_blocks", "count_funcs", "count_modules"} =>
             <<"pre">> \notin Range(todo) /\ \A m : <<"count_insts", m>> \notin Range(todo)
        /\ s[1] \in {"count_funcs", "count_modules"} => <<"count_blocks">> \notin Range(todo)
        /\ s[1] = "count_modules" => <<"count_funcs">> \notin Range(todo) /\ T = {}
    BY <1>1, <1>6, <2>1, Plan DEF s, T
  <2>4. ASSUME <<"pre">> \notin T
        PROVE  /\ \A row \in db'.inst_annot : row \in count_insts(row.module)
               /\ \A m \in db.module : <<"count_insts", m>> \in T \/ count_insts(m) \subseteq db'.inst_annot
    <3>1. CASE s[1] = "pre"
      <4>1. db'.inst_annot = {}
        BY <1>1, <1>2, <1>6, <3>1, CountWrites DEF Wrote
      <4>2. s = <<"pre">>
        BY <1>6, <3>1 DEF Spelled
      <4>3. \A m \in db.module : <<"count_insts", m>> \in Range(todo)
        BY <1>3, <2>1, <4>2 DEF InTurn
      <4>4. \A m : <<"count_insts", m>> # s
        BY <4>2
      <4> QED
        BY <1>3, <4>1, <4>3, <4>4
    <3>2. CASE s[1] # "pre"
      <4>1. s # <<"pre">>
        BY <3>2
      <4>2. /\ \A row \in db.inst_annot : row \in count_insts(row.module)
            /\ \A m \in db.module : <<"count_insts", m>> \in Range(todo) \/ count_insts(m) \subseteq db.inst_annot
        BY <1>3, <2>1, <2>4, <4>1
      <4>3. CASE s[1] = "count_insts"
        <5>1. db'.inst_annot = db.inst_annot \cup count_insts(s[2])
          BY <1>1, <1>2, <1>6, <4>3, CountWrites DEF Wrote
        <5>2. \A row \in count_insts(s[2]) : row.module = s[2]
          BY DEF count_insts
        <5>3. \A m : s = <<"count_insts", m>> => s[2] = m
          OBVIOUS
        <5>4. \A row \in db'.inst_annot : row \in count_insts(row.module)
          BY <4>2, <5>1, <5>2
        <5>5. ASSUME NEW m \in db.module PROVE <<"count_insts", m>> \in T \/ count_insts(m) \subseteq db'.inst_annot
          BY <1>3, <4>2, <5>1, <5>3
        <5> QED
          BY <5>4, <5>5
      <4>4. CASE s[1] # "count_insts"
        <5>1. db'.inst_annot = db.inst_annot
          BY <1>1, <1>2, <1>6, <3>2, <4>4, CountedAnnots
        <5>2. \A m : s # <<"count_insts", m>>
          BY <4>4
        <5> QED
          BY <1>3, <4>2, <5>1, <5>2
      <4> QED
        BY <4>3, <4>4
    <3> QED
      BY <3>1, <3>2
  <2>5. ASSUME <<"count_blocks">> \notin T PROVE BlocksExact'
    <3>1. CASE s[1] = "count_blocks"
      <4>1. Rows
        BY <2>1, <2>3, <3>1 DEF Rows
      <4>2. db'.block_annot = count_blocks
        BY <1>1, <1>2, <1>6, <3>1, CountWrites DEF Wrote
      <4>3. ASSUME NEW m \in Stored', NEW f \in Functions(m)', NEW k \in DOMAIN Graph(m, f)'
            PROVE  annot(db'.block_annot, <<m, f, k>>).count = Cardinality(InBlockOf(<<m, f, k>>)')
        <5>1. m \in Stored /\ f \in Functions(m) /\ k \in DOMAIN Graph(m, f)
          BY <1>13, <4>3
        <5>2. annot(count_blocks, <<m, f, k>>).count = Cardinality(InBlockOf(<<m, f, k>>))
          BY <4>1, <5>1, BlocksCounted
        <5> QED
          BY <1>14, <4>2, <5>2
      <4> QED
        BY <4>3 DEF BlocksExact
    <3>2. CASE s[1] # "count_blocks"
      <4>1. <<"count_blocks">> \notin Range(todo)
        BY <1>3, <2>5, <3>2
      <4>2. db'.block_annot = db.block_annot
        BY <1>1, <1>2, <1>6, <2>3, <2>5, <3>2, CountedAnnots
      <4>3. SameCount(db.block_annot, db'.block_annot)
        BY <4>2 DEF SameCount
      <4> QED
        BY <1>12, <2>1, <4>1, <4>3, ExactKept
    <3> QED
      BY <3>1, <3>2
  <2>6. ASSUME <<"count_funcs">> \notin T PROVE FuncsExact'
    <3>1. CASE s[1] = "count_funcs"
      <4>1. BlocksExact
        BY <2>1, <2>3, <3>1
      <4>2. db'.func_annot = count_funcs
        BY <1>1, <1>2, <1>6, <3>1, CountWrites DEF Wrote
      <4>3. ASSUME NEW m \in Stored', NEW f \in Functions(m)'
            PROVE  annot(db'.func_annot, <<m, f>>).count = Cardinality(InFunction(<<m, f>>)')
        <5>1. m \in Stored /\ f \in Functions(m)
          BY <1>13, <4>3
        <5>2. annot(count_funcs, <<m, f>>).count = Cardinality(InFunction(<<m, f>>))
          BY <4>1, <5>1, FuncsCounted
        <5> QED
          BY <1>14, <4>2, <5>2
      <4> QED
        BY <4>3 DEF FuncsExact
    <3>2. CASE s[1] # "count_funcs"
      <4>1. <<"count_funcs">> \notin Range(todo)
        BY <1>3, <2>6, <3>2
      <4>2. db'.func_annot = db.func_annot
        BY <1>1, <1>2, <1>6, <2>3, <2>6, <3>2, CountedAnnots
      <4>3. SameCount(db.func_annot, db'.func_annot)
        BY <4>2 DEF SameCount
      <4> QED
        BY <1>12, <2>1, <4>1, <4>3, ExactKept
    <3> QED
      BY <3>1, <3>2
  <2>7. Progress'
    <3>1. \A m : count_insts(m)' = count_insts(m)
      <4>1. Same({"map", "sample", "inst"})
        BY <1>9 DEF Same
      <4> QED
        BY <1>2, <4>1, RowsSame
    <3>2. CASE s[1] = "count_modules"
      <4>1. <<"count_modules">> \notin Range(todo')
        BY <1>4, <2>3, <3>2 DEF T
      <4> QED
        BY <4>1 DEF Progress
    <3>3. CASE s[1] # "count_modules"
      <4>1. ~history'.counted
        BY <1>5, <1>7, <3>3
      <4>2. Range(todo') = T
        BY <1>4 DEF T
      <4>3. <<"pre">> \notin T =>
              /\ \A row \in db'.inst_annot : row \in count_insts(row.module)'
              /\ \A m \in db'.module : <<"count_insts", m>> \in T \/ count_insts(m)' \subseteq db'.inst_annot
        BY <1>9, <2>4, <3>1
      <4> QED
        BY <2>2, <2>5, <2>6, <4>1, <4>2, <4>3 DEF Progress
    <3> QED
      BY <3>2, <3>3
  <2>8. Finished'
    <3>1. CASE s[1] # "count_modules"
      BY <1>5, <1>7, <1>15, <3>1 DEF Finished
    <3>2. CASE s[1] = "count_modules"
      <4>1. T = {} /\ BlocksExact' /\ FuncsExact' /\ FuncsExact
        BY <2>1, <2>3, <2>5, <2>6, <3>2
      <4>2. todo' = <<>>
        <5>1. IsSeq(todo') /\ Range(todo') = {}
          BY <1>3, <1>4, <4>1 DEF T
        <5> QED
          BY <5>1 DEF IsSeq
      <4>3. db'.module_annot = count_modules
        BY <1>1, <1>2, <1>6, <3>2, CountWrites DEF Wrote
      <4>4. ASSUME NEW m \in Stored'
            PROVE  annot(db'.module_annot, m).count = Cardinality(InModule(m)')
        <5>1. annot(count_modules, m).count = Cardinality(InModule(m))
          BY <1>13, <4>1, <4>4, ModulesCounted DEF CountPart
        <5> QED
          BY <1>14, <4>3, <5>1
      <4>5. ModulesExact'
        BY <4>4 DEF ModulesExact
      <4>6. command' = "count"
        BY <1>2
      <4> QED
        BY <1>15, <4>1, <4>2, <4>5, <4>6 DEF Finished
    <3> QED
      BY <3>1, <3>2
  <2> QED
    BY <1>10, <1>11, <2>7, <2>8 DEF CountPart
<1> QED
  BY <1>16, <1>17

\* A score is written beside a count.
LEMMA Rescored ==
  ASSUME NEW t, \A x \in DOMAIN t : "count" \in DOMAIN t[x], NEW v,
         NEW u, u = [k \in DOMAIN t |-> [t[k] EXCEPT !.score = v[k]]]
  PROVE  /\ DOMAIN u = DOMAIN t /\ SameCount(t, u)
         /\ \A x \in DOMAIN t : "count" \in DOMAIN u[x] /\ u[x].count = t[x].count
<1>1. DOMAIN u = DOMAIN t
  OBVIOUS
<1>2. ASSUME NEW x \in DOMAIN t PROVE "count" \in DOMAIN u[x] /\ u[x].count = t[x].count
  <2>1. u[x] = [t[x] EXCEPT !.score = v[x]] /\ "count" \in DOMAIN t[x]
    OBVIOUS
  <2> QED
    BY <2>1
<1>3. SameCount(t, u)
  BY <1>1, <1>2 DEF SameCount, annot
<1> QED
  BY <1>1, <1>2, <1>3

LEMMA CountAnnotate ==
  ASSUME Typed, Rated, CountPart, Statement, command = "annotate"
  PROVE  CountPart'
<1> DEFINE s == Head(todo)
           A == {"block_annot", "func_annot", "module_annot"}
<1>1. IsSeq(todo) /\ todo # <<>> /\ Tables(db)
  BY DEF Typed, Listed, IsSeq, Statement, Tables
<1>2. objects' = objects /\ db' = Scored(s) /\ command' = command
  BY DEF Statement, Execute
<1>3. s \in Range(todo)
  BY <1>1, Rest
<1>4. /\ {"reused", "counted"} \subseteq DOMAIN history' /\ history'.partial = history.partial
      /\ history'.reused = history.reused /\ (history'.counted => history.counted \/ s[1] = "count_modules")
  BY DEF Statement, CountPart, Located, Typed
<1> HIDE DEF s
<1>5. Scoring(s)
  BY <1>3 DEF Typed, Listed, OfCommand
<1>6. history'.counted => history.counted
  BY <1>4, <1>5 DEF Scoring
<1>7. \E c \in A : \E v : db' = [db EXCEPT ![c] = [k \in DOMAIN db[c] |-> [db[c][k] EXCEPT !.score = v[k]]]]
  <2>1. CASE s[1] = "score_blocks"
    <3> DEFINE v == [b \in DOMAIN db.block_annot |-> Scale * db.block_annot[b].count]
    <3>1. db' = [db EXCEPT !["block_annot"] =
                   [k \in DOMAIN db["block_annot"] |-> [db["block_annot"][k] EXCEPT !.score = v[k]]]]
      BY <1>2, <2>1 DEF Scored
    <3> HIDE DEF v, A
    <3>2. \E w : db' = [db EXCEPT !["block_annot"] = [k \in DOMAIN db["block_annot"] |-> [db["block_annot"][k] EXCEPT !.score = w[k]]]]
      BY <3>1
    <3> QED
      BY <3>2 DEF A
  <2>2. CASE s[1] = "norm_blocks"
    <3> DEFINE v == [b \in DOMAIN db.block_annot |-> db.block_annot[b].score \div size(b)]
    <3>1. db' = [db EXCEPT !["block_annot"] =
                   [k \in DOMAIN db["block_annot"] |-> [db["block_annot"][k] EXCEPT !.score = v[k]]]]
      BY <1>2, <2>2 DEF Scored
    <3> HIDE DEF v, A
    <3>2. \E w : db' = [db EXCEPT !["block_annot"] = [k \in DOMAIN db["block_annot"] |-> [db["block_annot"][k] EXCEPT !.score = w[k]]]]
      BY <3>1
    <3> QED
      BY <3>2 DEF A
  <2>3. CASE s[1] = "score_funcs"
    <3> DEFINE v == [g \in DOMAIN db.func_annot |->
                       scoreOf(db.block_annot, {b \in DOMAIN db.block_annot : FuncOf(b) = g})]
    <3>1. db' = [db EXCEPT !["func_annot"] =
                   [k \in DOMAIN db["func_annot"] |-> [db["func_annot"][k] EXCEPT !.score = v[k]]]]
      BY <1>2, <2>3 DEF Scored
    <3> HIDE DEF v, A
    <3>2. \E w : db' = [db EXCEPT !["func_annot"] = [k \in DOMAIN db["func_annot"] |-> [db["func_annot"][k] EXCEPT !.score = w[k]]]]
      BY <3>1
    <3> QED
      BY <3>2 DEF A
  <2>4. CASE s[1] = "score_modules"
    <3> DEFINE v == [m \in DOMAIN db.module_annot |->
                       scoreOf(db.func_annot, {g \in DOMAIN db.func_annot : g[1] = m})]
    <3>1. db' = [db EXCEPT !["module_annot"] =
                   [k \in DOMAIN db["module_annot"] |-> [db["module_annot"][k] EXCEPT !.score = v[k]]]]
      BY <1>2, <2>4 DEF Scored
    <3> HIDE DEF v, A
    <3>2. \E w : db' = [db EXCEPT !["module_annot"] = [k \in DOMAIN db["module_annot"] |-> [db["module_annot"][k] EXCEPT !.score = w[k]]]]
      BY <3>1
    <3> QED
      BY <3>2 DEF A
  <2> QED
    BY <1>5, <2>1, <2>2, <2>3, <2>4 DEF Scoring
<1>8. PICK c \in A : \E v : db' = [db EXCEPT ![c] = [k \in DOMAIN db[c] |-> [db[c][k] EXCEPT !.score = v[k]]]]
  BY <1>7
<1>9. PICK v : db' = [db EXCEPT ![c] = [k \in DOMAIN db[c] |-> [db[c][k] EXCEPT !.score = v[k]]]]
  BY <1>8
<1> DEFINE u == [k \in DOMAIN db[c] |-> [db[c][k] EXCEPT !.score = v[k]]]
<1>10. \A t \in A : \A x \in DOMAIN db[t] : "count" \in DOMAIN db[t][x]
  BY DEF Rated, CountPart, Recounted
<1>11. /\ DOMAIN u = DOMAIN db[c] /\ SameCount(db[c], u)
       /\ \A x \in DOMAIN db[c] : "count" \in DOMAIN u[x] /\ u[x].count = db[c][x].count
  <2>1. \A x \in DOMAIN db[c] : "count" \in DOMAIN db[c][x]
    BY <1>10
  <2>2. ASSUME NEW w, w = u
        PROVE  /\ DOMAIN w = DOMAIN db[c] /\ SameCount(db[c], w)
               /\ \A x \in DOMAIN db[c] : "count" \in DOMAIN w[x] /\ w[x].count = db[c][x].count
    BY <2>1, <2>2, Rescored
  <2> HIDE DEF u
  <2> QED
    BY <2>2
<1>12. A \subseteq Columns /\ {"map", "sample", "module", "inst"} \subseteq Columns \ A
  BY DEF Columns
<1>13. c \in Columns /\ db' = [db EXCEPT ![c] = u]
  BY <1>9, <1>12
<1> HIDE DEF u
<1>14. db'[c] = u /\ \A t \in Columns : t # c => db'[t] = db[t]
  <2>1. ASSUME NEW w, w = u PROVE db'[c] = w /\ \A t \in Columns : t # c => db'[t] = db[t]
    <3>1. db' = [db EXCEPT ![c] = w]
      BY <1>13, <2>1
    <3>2. Tables(db) /\ c \in Columns
      BY <1>1, <1>13
    <3> HIDE DEF A
    <3> QED
      BY <3>1, <3>2, OneColumn
  <2> QED
    BY <2>1
<1>15. \A t \in A : /\ DOMAIN db'[t] = DOMAIN db[t] /\ SameCount(db[t], db'[t])
                    /\ \A x \in DOMAIN db[t] : "count" \in DOMAIN db'[t][x] /\ db'[t][x].count = db[t][x].count
  <2> TAKE t \in A
  <2>1. CASE t = c
    BY <1>11, <1>14, <2>1
  <2>2. CASE t # c
    <3>1. db'[t] = db[t]
      BY <1>12, <1>14, <2>2
    <3> QED
      BY <1>10, <3>1 DEF SameCount
  <2> QED
    BY <2>1, <2>2
<1>16. db'.map = db.map /\ db'.sample = db.sample /\ db'.module = db.module /\ db'.inst = db.inst
  BY <1>12, <1>14
<1>17. Located' /\ Drawn'
  BY <1>2, <1>4, <1>16, LocatedKept DEF CountPart
<1>18. Recounted'
  <2>1. Modules' = Modules /\ \A m : Functions(m)' = Functions(m)
    BY <1>2, PlacesSame
  <2>2. /\ DOMAIN db'.func_annot = DOMAIN db.func_annot /\ DOMAIN db'.module_annot = DOMAIN db.module_annot
        /\ \A x \in DOMAIN db.func_annot : "count" \in DOMAIN db'.func_annot[x]
                                           /\ db'.func_annot[x].count = db.func_annot[x].count
        /\ \A x \in DOMAIN db.module_annot : "count" \in DOMAIN db'.module_annot[x]
    BY <1>15
  <2> QED
    BY <2>1, <2>2 DEF CountPart, Recounted
<1>19. SameSamples /\ SameStored
  BY <1>2, <1>4, <1>16 DEF SameSamples, SameStored
<1>20. /\ SameCount(db.block_annot, db'.block_annot) /\ SameCount(db.func_annot, db'.func_annot)
       /\ SameCount(db.module_annot, db'.module_annot)
  BY <1>15
<1>21. Progress'
  BY <1>2 DEF Progress
<1>22. Finished'
  <2>1. history.counted => BlocksExact /\ FuncsExact /\ ModulesExact
    BY DEF CountPart, Finished
  <2>2. history'.counted => BlocksExact' /\ FuncsExact' /\ ModulesExact'
    BY <1>6, <1>19, <1>20, <2>1, ExactKept
  <2> QED
    BY <1>2, <2>2 DEF Finished
<1> QED
  BY <1>17, <1>18, <1>21, <1>22 DEF CountPart

LEMMA CountSearch ==
  ASSUME Typed, CountPart, Statement, command = "search"
  PROVE  CountPart'
<1> DEFINE s == Head(todo)
<1>1. IsSeq(todo) /\ todo # <<>> /\ Tables(db)
  BY DEF Typed, Listed, IsSeq, Statement, Tables
<1>2. objects' = objects /\ db' = Written(s) /\ command' = command
  BY DEF Statement, Execute
<1>3. s \in Range(todo)
  BY <1>1, Rest
<1>4. /\ {"reused", "counted"} \subseteq DOMAIN history' /\ history'.partial = history.partial
      /\ history'.reused = history.reused /\ (history'.counted => history.counted \/ s[1] = "count_modules")
  BY DEF Statement, CountPart, Located, Typed
<1> HIDE DEF s
<1>5. Storing(s)
  BY <1>3 DEF Typed, Listed, OfCommand
<1>6. history'.counted => history.counted
  BY <1>4, <1>5 DEF Storing
<1>7. db' = db \/ \E x : db' = [db EXCEPT !["path"] = x]
  <2>1. CASE s[1] = "path"
    BY <1>2, <2>1 DEF Written
  <2>2. CASE s[1] = "path_node"
    <3>1. db' = [db EXCEPT !["path"] = [db.path EXCEPT ![Len(db.path)] = s[2]]]
      BY <1>2, <2>2 DEF Written
    <3> QED
      BY <3>1
  <2>3. CASE s[1] = "end"
    BY <1>2, <2>3 DEF Written
  <2> QED
    BY <1>5, <2>1, <2>2, <2>3 DEF Storing
<1>8. "path" \in Columns /\ CountColumns \subseteq Columns /\ "path" \notin CountColumns
  BY DEF Columns, CountColumns
<1>9. Same(CountColumns)
  <2>1. CASE db' = db
    BY <2>1 DEF Same
  <2>2. CASE \E x : db' = [db EXCEPT !["path"] = x]
    BY <1>1, <1>8, <2>2, OthersSame
  <2> QED
    BY <1>7, <2>1, <2>2
<1>10. command' \notin {"sample", "disasm", "count"}
  BY <1>2
<1> QED
  BY <1>2, <1>4, <1>6, <1>9, <1>10, CountAside

LEMMA CountUnchanged ==
  ASSUME CountPart, UNCHANGED vars
  PROVE  CountPart'
<1>1. /\ objects' = objects /\ form' = form /\ db' = db /\ history' = history
      /\ command' = command /\ todo' = todo /\ sampled' = sampled
  BY DEF vars
<1>2. Located' /\ Drawn'
  BY <1>1, LocatedKept DEF CountPart, Located
<1>3. Recounted'
  BY <1>1, RecountedKept DEF CountPart
<1>4. SameSamples /\ SameStored /\ SameCount(db.block_annot, db'.block_annot)
      /\ SameCount(db.func_annot, db'.func_annot) /\ SameCount(db.module_annot, db'.module_annot)
  BY <1>1 DEF SameSamples, SameStored, SameCount
<1>5. (BlocksExact => BlocksExact') /\ (FuncsExact => FuncsExact') /\ (ModulesExact => ModulesExact')
  BY <1>4, ExactKept
<1>6. Progress'
  <2>1. \A m : count_insts(m)' = count_insts(m)
    <3>1. Same({"map", "sample", "inst"})
      BY <1>1 DEF Same
    <3> QED
      BY <1>1, <3>1, RowsSame
  <2>2. InTurn => InTurn'
    BY <1>1 DEF InTurn, Turn
  <2> QED
    BY <1>1, <1>5, <2>1, <2>2 DEF CountPart, Progress
<1>7. Finished'
  BY <1>1, <1>5 DEF CountPart, Finished, Spelled
<1> QED
  BY <1>2, <1>3, <1>6, <1>7 DEF CountPart

LEMMA CountsInit ==
  ASSUME Init
  PROVE  CountsInv
<1>1. /\ db.map = <<>> /\ db.sample = <<>> /\ db.func_annot = <<>> /\ db.module_annot = <<>>
      /\ command = "none" /\ {"reused", "counted"} \subseteq DOMAIN history /\ ~history.counted
  BY DEF Init
<1>2. Range(<<>>) = {} /\ DOMAIN <<>> = {}
  BY DEF Range
<1>3. Located /\ Drawn /\ Recounted
  BY <1>1, <1>2 DEF Located, Drawn, Recounted
<1>4. Progress /\ Finished
  BY <1>1 DEF Progress, Finished
<1> QED
  BY <1>3, <1>4, PathsInit DEF CountsInv

LEMMA CountsNext ==
  ASSUME CountsInv, [Next]_vars
  PROVE  CountsInv'
<1>1. PathsInv /\ DisasmInv /\ Rated /\ Typed /\ CountPart
  BY DEF CountsInv, PathsInv, DisasmInv, CountPart
<1>2. PathsInv'
  BY <1>1, PathsNext
<1>3. CountPart'
  <2>1. CASE UNCHANGED vars
    BY <1>1, <2>1, CountUnchanged
  <2>2. ASSUME NEW pid \in Pids, StartSample(pid) PROVE CountPart'
    BY <1>1, <2>2, CountStartSample
  <2>3. CASE \E m \in Modules : \E f \in Functions(m) : \E i \in DOMAIN Code(m, f) : Sample(m, f, i)
    BY <1>1, <2>3, CountSample
  <2>4. CASE EndSample \/ StartAnnotate \/ (\E scope \in form.scopes : StartSearch(scope))
             \/ SearchNext \/ SearchEnd \/ EndCommand
    BY <1>1, <2>4, CountAround
  <2>5. CASE \E ms \in {{}} \cup {{m} : m \in Modules} : StartDisasm(ms)
    BY <1>1, <2>5, CountStartDisasm
  <2>6. CASE StartCount
    BY <1>1, <2>6, CountStartCount
  <2>7. CASE Statement
    <3>1. command \in {"disasm", "count", "annotate", "search"}
      BY <1>1, <2>7, Idle DEF Typed, Commands, Statement
    <3>2. CASE command = "disasm"
      BY <1>1, <2>7, <3>2, CountDisasm
    <3>3. CASE command = "count"
      <4>1. Settled
        BY <1>1, <3>3 DEF Settled, CountPart
      <4> QED
        BY <1>1, <2>7, <3>3, <4>1, CountStatement
    <3>4. CASE command = "annotate"
      BY <1>1, <2>7, <3>4, CountAnnotate
    <3>5. CASE command = "search"
      BY <1>1, <2>7, <3>5, CountSearch
    <3> QED
      BY <3>1, <3>2, <3>3, <3>4, <3>5
  <2>8. CASE Kill
    BY <1>1, <2>8, CountKill
  <2>9. CASE Terminated
    BY <2>1, <2>9 DEF Terminated
  <2> QED
    BY <2>1, <2>2, <2>3, <2>4, <2>5, <2>6, <2>7, <2>8, <2>9 DEF Next
<1> QED
  BY <1>2, <1>3 DEF CountsInv, CountPart

\* Between the statements of a count, the tables that are written already say how
\* often the program was in each legible module, for every program and layout.
THEOREM CountsInvAlways == Spec => []CountsInv
<1>1. Init => CountsInv
  BY CountsInit
<1>2. CountsInv /\ [Next]_vars => CountsInv'
  BY CountsNext
<1> QED
  BY <1>1, <1>2, PTL DEF Spec

LEMMA CountsAre ==
  ASSUME CountsInv
  PROVE  CountsExact
<1> DEFINE Told == {m \in Complete : Legible(m)}
<1> SUFFICES ASSUME history.counted, ~history.reused PROVE CountsOf(Told)
  BY DEF CountsExact
<1>1. BlocksExact /\ FuncsExact /\ ModulesExact /\ Sound /\ Linked
  BY DEF CountsInv, Finished, PathsInv, DisasmInv
<1>2. Told \subseteq Stored
  BY DEF Complete, Stored
<1> DEFINE where == [s \in DOMAIN db.sample |-> db.sample[s].at]
<1> HIDE DEF Told
<1>3. DOMAIN where = DOMAIN db.sample /\ \A s \in DOMAIN where : where[s] = db.sample[s].at
  OBVIOUS
<1> HIDE DEF where
<1>4. ASSUME NEW b \in {b \in db.block : b[1] \in Told}
      PROVE  annot(db.block_annot, b).count =
               Cardinality({s \in DOMAIN where : /\ [block |-> b, addr |-> where[s][3]] \in db.inst
                                                 /\ FuncOf(where[s]) = FuncOf(b)})
  <2>1. PICK m \in Modules : \E f \in Functions(m) : \E k \in DOMAIN Graph(m, f) : b = <<m, f, k>>
    BY <1>1 DEF Sound
  <2>2. m \in Stored
    BY <1>2, <2>1
  <2>3. annot(db.block_annot, b).count = Cardinality(InBlockOf(b))
    BY <1>1, <2>1, <2>2 DEF BlocksExact
  <2>4. InBlockOf(b) = {s \in DOMAIN where : /\ [block |-> b, addr |-> where[s][3]] \in db.inst
                                             /\ FuncOf(where[s]) = FuncOf(b)}
    BY <1>3 DEF InBlockOf, InFunction
  <2> QED
    BY <2>3, <2>4
<1>5. ASSUME NEW g \in {g \in db.func : g[1] \in Told}
      PROVE  annot(db.func_annot, g).count = Cardinality({s \in DOMAIN where : FuncOf(where[s]) = g})
  <2>1. PICK m \in db.module : \E f \in Functions(m) : g = <<m, f>>
    BY <1>1 DEF Linked
  <2>2. m \in Stored
    BY <1>2, <2>1
  <2>3. annot(db.func_annot, g).count = Cardinality(InFunction(g))
    BY <1>1, <2>1, <2>2 DEF FuncsExact
  <2>4. InFunction(g) = {s \in DOMAIN where : FuncOf(where[s]) = g}
    BY <1>3 DEF InFunction
  <2> QED
    BY <2>3, <2>4
<1>6. ASSUME NEW m \in Told
      PROVE  annot(db.module_annot, m).count = Cardinality({s \in DOMAIN where : where[s][1] = m})
  <2>1. annot(db.module_annot, m).count = Cardinality(InModule(m))
    BY <1>1, <1>2 DEF ModulesExact
  <2>2. InModule(m) = {s \in DOMAIN where : where[s][1] = m}
    BY <1>3 DEF InModule
  <2> QED
    BY <2>1, <2>2
<1> QED
  BY <1>4, <1>5, <1>6 DEF CountsOf, where

\* For every program, script and layout of its processes: what a count leaves for
\* the legible modules is how often the program was there.
THEOREM CountsExactAlways == Spec => []CountsExact
<1>1. CountsInv => CountsExact
  BY CountsAre
<1> QED
  BY <1>1, CountsInvAlways, PTL
=============================================================================
