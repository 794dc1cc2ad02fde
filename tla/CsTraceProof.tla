---------------------------- MODULE CsTraceProof ----------------------------
(***************************************************************************)
(* Proofs about the valgrind tool of chop-trace-mem, for every size of its *)
(* queue, list of indices, limit and program: what it prints is exactly    *)
(* the accesses that the executions to trace attempt, and the traces it    *)
(* begins are those of the listed executions, as long as no code that      *)
(* accesses data at a mark is translated.                                  *)
(*                                                                         *)
(* The invariant follows a block while it runs.  At any point of it some   *)
(* events are pending: the program has attempted the accesses, the calls of the *)
(* helpers for them are further on in the block.  Every statement and call *)
(* changes the pending events in one way only (Flows), the translated      *)
(* block leads from the events pending now to the tool's queue (Leads),    *)
(* and the lines due are those the calls for the pending events will print *)
(* (Owed).                                                                 *)
(***************************************************************************)
EXTENDS CsTrace, TLAPS

Kinds == {"instr", "read", "write", "modify"}
\* A program that has no access to data at a mark.
Plain == Data \ Marks
PlainStatement == {s \in Statement : ~Strays(s)}

Addresses == Code \cup Data
Events == {e \in [kind : Kinds, addr : Addresses, on : BOOLEAN, guarded : BOOLEAN] : e.guarded \/ e.on}
HelperCalls == [tag : {"call"}, kind : Kinds, addr : Addresses, on : BOOLEAN]
Items == PlainStatement \cup HelperCalls
Lines == {"I", "R", "W"} \X Addresses

\* The state between two items of a block: the events pending, and the read of
\* the load-linked that comes next if its helper has been called already.
None == CHOOSE a : a \notin Plain
States == [pending : Seq(Events), ahead : Plain \cup {None}]
Waiting(p) == [pending |-> p, ahead |-> None]
Empty == Waiting(<<>>)
Unguarded(p) == p # <<>> /\ Last(p).kind = "read" /\ ~Last(p).guarded
Modifies(p, x) == Unguarded(p) /\ Last(p).addr = x.addr

\* When item x may come in state y, and the state it leaves.
Follows(y, x) ==
  CASE x.tag = "call" -> /\ y.ahead = None
                         /\ \/ y.pending # <<>> /\ x = HelperCall(Head(y.pending))
                            \/ y.pending = <<>> /\ x.kind = "read" /\ x.on /\ x.addr \in Plain
    [] x.tag = "ll"   -> y.pending = <<>> /\ y.ahead = x.addr
    [] x.tag = "exit" -> y = Empty
    [] OTHER          -> y.ahead = None
KindOf(tag) ==
  CASE tag = "mark" -> "instr" [] tag \in {"load", "loadG"} -> "read" [] tag = "modify" -> "modify" [] OTHER -> "write"
Flows(y, x) ==
  CASE x.tag = "call" -> IF y.pending # <<>> THEN Waiting(Tail(y.pending))
                                             ELSE [pending |-> <<>>, ahead |-> x.addr]
    [] x.tag \in {"ll", "exit"} -> Empty
    [] x.tag \in {"store", "sc"} /\ Modifies(y.pending, x)
                      -> Waiting([y.pending EXCEPT ![Len(y.pending)].kind = "modify"])
    [] OTHER          -> Waiting(Append(y.pending, Event(KindOf(x.tag), x)))

\* Block o leads from state y to state w.
Path(Q, o, y, w) ==
  /\ Q \in [1 .. Len(o) + 1 -> States]
  /\ Q[1] = y /\ Q[Len(o) + 1] = w
  /\ \A j \in 1 .. Len(o) : Follows(Q[j], o[j]) /\ Q[j + 1] = Flows(Q[j], o[j])
Leads(o, y, w) == \E Q : Path(Q, o, y, w)

\* What the calls for the events of p will do: from enabled and cindice as in
\* s to region and executions as in t, printing the lines d on the way.
Tallies == [on : BOOLEAN, count : Nat, paid : Nat]
Enables(e, s) ==
  CASE e.addr \in Begins -> Listed(s.count) [] e.addr \in Ends \ Begins -> FALSE [] OTHER -> s.on
After(e, s) ==
  IF e.on
    THEN [on |-> Enables(e, s), count |-> IF e.addr \in Begins THEN s.count + 1 ELSE s.count,
          paid |-> IF Enables(e, s) THEN s.paid + 1 ELSE s.paid]
    ELSE s
LineOf(e) == <<Letter(e.kind), e.addr>>
Pays(S, p, d) ==
  /\ S \in [0 .. Len(p) -> Tallies]
  /\ \A i \in 1 .. Len(p) :
       /\ S[i] = After(p[i], S[i - 1])
       /\ S[i].paid # S[i - 1].paid => d[S[i].paid].line = LineOf(p[i])
  /\ \A i \in 0 .. Len(p) : \A j \in i .. Len(p) : S[i].paid <= S[j].paid
Tallied(on, count, paid) == [on |-> on, count |-> count, paid |-> paid]
Owed(p, s, t, d) == \E S : Pays(S, p, d) /\ S[0] = s /\ S[Len(p)] = t

LEMMA NoneNotPlain == None \notin Plain
BY NoSetContainsEverything DEF None

LEMMA EmptyState == Empty \in States
BY DEF Empty, Waiting, States

\* Sequences: Append and \o by their elements.
LEMMA SeqEqual ==
  ASSUME NEW s, NEW t, NEW S, s \in Seq(S), t \in Seq(S), Len(s) = Len(t), \A i \in 1 .. Len(s) : s[i] = t[i]
  PROVE  s = t
OBVIOUS

LEMMA WaitingStates ==
  ASSUME NEW p \in Seq(Events)
  PROVE  Waiting(p) \in States /\ Waiting(p).pending = p /\ Waiting(p).ahead = None
BY DEF Waiting, States

LEMMA TailElements ==
  ASSUME NEW S, NEW s \in Seq(S), s # <<>>
  PROVE  /\ Head(s) = s[1] /\ Head(s) \in S /\ Tail(s) \in Seq(S) /\ Len(Tail(s)) = Len(s) - 1
         /\ \A i \in 1 .. Len(s) - 1 : Tail(s)[i] = s[i + 1]
OBVIOUS

LEMMA AppendElements ==
  ASSUME NEW S, NEW s \in Seq(S), NEW e \in S
  PROVE  /\ Append(s, e) \in Seq(S) /\ Len(Append(s, e)) = Len(s) + 1 /\ Append(s, e)[Len(s) + 1] = e
         /\ \A i \in 1 .. Len(s) : Append(s, e)[i] = s[i]
OBVIOUS

LEMMA ConcatElements ==
  ASSUME NEW S, NEW s \in Seq(S), NEW t \in Seq(S)
  PROVE  /\ s \o t \in Seq(S) /\ Len(s \o t) = Len(s) + Len(t)
         /\ \A i \in 1 .. Len(s) : (s \o t)[i] = s[i]
         /\ \A i \in 1 .. Len(t) : (s \o t)[Len(s) + i] = t[i]
OBVIOUS

LEMMA ExceptElements ==
  ASSUME NEW S, NEW s \in Seq(S), NEW n \in 1 .. Len(s), NEW e \in S
  PROVE  /\ [s EXCEPT ![n] = e] \in Seq(S) /\ Len([s EXCEPT ![n] = e]) = Len(s)
         /\ [s EXCEPT ![n] = e][n] = e
         /\ \A i \in 1 .. Len(s) : i # n => [s EXCEPT ![n] = e][i] = s[i]
OBVIOUS

LEMMA ConcatAppend ==
  ASSUME NEW S, NEW s \in Seq(S), NEW t \in Seq(S), NEW e \in S
  PROVE  s \o Append(t, e) = Append(s \o t, e)
<1> DEFINE n == Len(s)
           m == Len(t)
           a == Append(t, e)
           b == s \o t
           c == s \o a
           d == Append(b, e)
<1>1. n \in Nat /\ m \in Nat
  OBVIOUS
<1>2. a \in Seq(S) /\ Len(a) = m + 1 /\ a[m + 1] = e /\ \A i \in 1 .. m : a[i] = t[i]
  BY AppendElements
<1>3. /\ b \in Seq(S) /\ Len(b) = n + m /\ \A i \in 1 .. n : b[i] = s[i]
      /\ \A i \in 1 .. m : b[n + i] = t[i]
  BY ConcatElements
<1> HIDE DEF a, b
<1>4. /\ c \in Seq(S) /\ Len(c) = n + (m + 1) /\ \A i \in 1 .. n : c[i] = s[i]
      /\ \A i \in 1 .. m + 1 : c[n + i] = a[i]
  <2>1. /\ c \in Seq(S) /\ Len(c) = n + Len(a) /\ \A i \in 1 .. n : c[i] = s[i]
        /\ \A i \in 1 .. Len(a) : c[n + i] = a[i]
    <3>1. \A v \in Seq(S) : /\ s \o v \in Seq(S) /\ Len(s \o v) = Len(s) + Len(v)
                            /\ \A i \in 1 .. Len(s) : (s \o v)[i] = s[i]
                            /\ \A i \in 1 .. Len(v) : (s \o v)[Len(s) + i] = v[i]
      BY ConcatElements
    <3>2. a \in Seq(S)
      BY <1>2
    <3> QED
      BY <3>1, <3>2, Zenon
  <2> HIDE DEF c
  <2> QED
    BY <1>2, <2>1
<1>5. d \in Seq(S) /\ Len(d) = n + m + 1 /\ d[n + m + 1] = e /\ \A i \in 1 .. n + m : d[i] = b[i]
  BY <1>3, AppendElements
<1> HIDE DEF c, d
<1>6. ASSUME NEW i \in 1 .. n + (m + 1) PROVE c[i] = d[i]
  <2>1. CASE i \in 1 .. n
    BY <1>1, <1>3, <1>4, <1>5, <2>1
  <2>2. CASE i \notin 1 .. n
    <3>1. PICK k \in 1 .. m + 1 : i = n + k
      <4>1. i - n \in 1 .. m + 1 /\ i = n + (i - n)
        BY <1>1, <2>2
      <4> QED
        BY <4>1
    <3>2. CASE k = m + 1
      BY <1>1, <1>2, <1>4, <1>5, <3>1, <3>2
    <3>3. CASE k \in 1 .. m
      BY <1>1, <1>2, <1>3, <1>4, <1>5, <3>1, <3>3
    <3> QED
      BY <1>1, <3>2, <3>3
  <2> QED
    BY <2>1, <2>2
<1>7. c = d
  BY <1>1, <1>4, <1>5, <1>6, SeqEqual
<1> QED
  BY <1>7 DEF a, b, c, d

\* A block may be lengthened by an item that may follow.
LEMMA LeadsAppend ==
  ASSUME NEW o \in Seq(Items), NEW x \in Items, NEW y, NEW w, Leads(o, y, w),
         Follows(w, x), Flows(w, x) \in States
  PROVE  Leads(Append(o, x), y, Flows(w, x))
<1> DEFINE n == Len(o)
           f == Flows(w, x)
<1>1. PICK Q : Path(Q, o, y, w)
  BY DEF Leads
<1> DEFINE R == [j \in 1 .. n + 2 |-> IF j = n + 2 THEN f ELSE Q[j]]
<1>2. n \in Nat /\ Len(Append(o, x)) = n + 1
  OBVIOUS
<1>3. \A j \in 1 .. n : Append(o, x)[j] = o[j]
  OBVIOUS
<1>4. Append(o, x)[n + 1] = x
  OBVIOUS
<1>5. R \in [1 .. n + 2 -> States] /\ R[1] = y /\ R[n + 2] = f /\ R[n + 1] = w /\ \A j \in 1 .. n + 1 : R[j] = Q[j]
  BY <1>1, <1>2 DEF Path
<1> HIDE DEF R, f
<1>6. ASSUME NEW j \in 1 .. n + 1
      PROVE  Follows(R[j], Append(o, x)[j]) /\ R[j + 1] = Flows(R[j], Append(o, x)[j])
  <2>1. CASE j \in 1 .. n
    BY <1>1, <1>2, <1>3, <1>5, <2>1 DEF Path
  <2>2. CASE j = n + 1
    <3>1. R[j] = w /\ Append(o, x)[j] = x /\ R[j + 1] = f
      BY <1>2, <1>4, <1>5, <2>2
    <3> QED
      BY <3>1 DEF f
  <2> QED
    BY <1>2, <2>1, <2>2
<1>7. Path(R, Append(o, x), y, f)
  BY <1>2, <1>5, <1>6 DEF Path
<1> QED
  BY <1>7 DEF Leads, f

\* The first item of a block.
LEMMA LeadsHead ==
  ASSUME NEW o \in Seq(Items), o # <<>>, NEW y, NEW w, Leads(o, y, w)
  PROVE  /\ y \in States /\ Follows(y, Head(o)) /\ Flows(y, Head(o)) \in States
         /\ Leads(Tail(o), Flows(y, Head(o)), w)
<1>1. PICK Q : Path(Q, o, y, w)
  BY DEF Leads
<1> DEFINE n == Len(o)
           R == [j \in 1 .. n |-> Q[j + 1]]
<1>2. /\ n \in Nat \ {0} /\ Len(Tail(o)) = n - 1 /\ Head(o) = o[1]
      /\ \A j \in 1 .. n - 1 : Tail(o)[j] = o[j + 1]
  OBVIOUS
<1>3. /\ Q[1] = y /\ Follows(Q[1], o[1]) /\ Q[2] = Flows(Q[1], o[1])
      /\ Q[1] \in States /\ Q[2] \in States
  BY <1>1, <1>2 DEF Path
<1>4. R \in [1 .. n -> States] /\ R[1] = Q[2] /\ R[n] = w /\ \A j \in 1 .. n : R[j] = Q[j + 1]
  BY <1>1, <1>2 DEF Path
<1> HIDE DEF R
<1>5. \A j \in 1 .. n - 1 : Follows(R[j], Tail(o)[j]) /\ R[j + 1] = Flows(R[j], Tail(o)[j])
  BY <1>1, <1>2, <1>4 DEF Path
<1>6. Path(R, Tail(o), Flows(y, Head(o)), w)
  BY <1>2, <1>3, <1>4, <1>5 DEF Path
<1> QED
  BY <1>2, <1>3, <1>6 DEF Leads

\* No item is left.
LEMMA LeadsNowhere ==
  ASSUME NEW y, NEW w
  PROVE  /\ Leads(<<>>, y, w) => y = w
         /\ y \in States => Leads(<<>>, y, y)
<1>1. ASSUME y \in States PROVE Leads(<<>>, y, y)
  <2>1. Path([j \in 1 .. 1 |-> y], <<>>, y, y)
    BY <1>1 DEF Path
  <2> QED
    BY <2>1 DEF Leads
<1> QED
  BY <1>1 DEF Leads, Path

\* The calls of a flush.
LEMMA CallItems ==
  ASSUME NEW p \in Seq(Events)
  PROVE  /\ Calls(p) \in Seq(Items) /\ Len(Calls(p)) = Len(p)
         /\ \A i \in 1 .. Len(p) : Calls(p)[i] = HelperCall(p[i])
<1>1. \A e \in Events : HelperCall(e) \in Items
  BY DEF HelperCall, HelperCalls, Items, Events
<1> QED
  BY <1>1 DEF Calls

\* Flushing the queue leaves nothing pending.
LEMMA LeadsFlushed ==
  ASSUME NEW o \in Seq(Items), NEW p \in Seq(Events), NEW y, Leads(o, y, Waiting(p))
  PROVE  o \o Calls(p) \in Seq(Items) /\ Leads(o \o Calls(p), y, Empty)
<1> DEFINE n == Len(o)
           m == Len(p)
           c == o \o Calls(p)
           Rest(j) == SubSeq(p, j - n, m)
<1>1. PICK Q : Path(Q, o, y, Waiting(p))
  BY DEF Leads
<1> DEFINE R == [j \in 1 .. n + m + 1 |-> IF j <= n THEN Q[j] ELSE Waiting(Rest(j))]
<1>2. n \in Nat /\ m \in Nat
  OBVIOUS
<1>4. Calls(p) \in Seq(Items) /\ Len(Calls(p)) = m /\ \A i \in 1 .. m : Calls(p)[i] = HelperCall(p[i])
  BY CallItems
<1>5. /\ c \in Seq(Items) /\ Len(c) = n + m
      /\ \A j \in 1 .. n : c[j] = o[j]
      /\ \A j \in n + 1 .. n + m : c[j] = HelperCall(p[j - n])
  BY <1>2, <1>4
<1> HIDE DEF c
<1>6. ASSUME NEW j \in n + 1 .. n + m + 1
      PROVE  /\ Rest(j) \in Seq(Events) /\ Len(Rest(j)) = n + m + 1 - j
             /\ \A i \in 1 .. n + m + 1 - j : Rest(j)[i] = p[i + j - n - 1]
  BY <1>2
<1>7. Rest(n + 1) = p
  <2>1. Rest(n + 1) \in Seq(Events) /\ Len(Rest(n + 1)) = m /\ \A i \in 1 .. m : Rest(n + 1)[i] = p[i]
    BY <1>2, <1>6
  <2> HIDE DEF Rest
  <2> QED
    BY <2>1, SeqEqual
<1>8. Rest(n + m + 1) = <<>>
  <2>1. Rest(n + m + 1) \in Seq(Events) /\ Len(Rest(n + m + 1)) = 0
    BY <1>2, <1>6
  <2> HIDE DEF Rest
  <2> QED
    BY <2>1
<1>9. ASSUME NEW j \in n + 1 .. n + m
      PROVE  Rest(j) # <<>> /\ Head(Rest(j)) = p[j - n] /\ Tail(Rest(j)) = Rest(j + 1)
  <2>0. j \in n + 1 .. n + m + 1
    BY <1>2
  <2>1. /\ Rest(j) \in Seq(Events) /\ Len(Rest(j)) = n + m + 1 - j
        /\ \A i \in 1 .. n + m + 1 - j : Rest(j)[i] = p[i + j - n - 1]
    <3> HIDE DEF Rest
    <3> QED
      BY <1>6, <2>0
  <2>2. /\ Rest(j + 1) \in Seq(Events) /\ Len(Rest(j + 1)) = n + m - j
        /\ \A i \in 1 .. n + m - j : Rest(j + 1)[i] = p[i + j - n]
    <3> DEFINE k == j + 1
    <3>1. k \in n + 1 .. n + m + 1 /\ n + m + 1 - k = n + m - j
      BY <1>2
    <3>2. \A i \in 1 .. n + m - j : i + k - n - 1 = i + j - n
      BY <1>2
    <3> HIDE DEF k, Rest
    <3>3. /\ Rest(k) \in Seq(Events) /\ Len(Rest(k)) = n + m + 1 - k
          /\ \A i \in 1 .. n + m + 1 - k : Rest(k)[i] = p[i + k - n - 1]
      BY <1>6, <3>1
    <3>4. /\ Rest(k) \in Seq(Events) /\ Len(Rest(k)) = n + m - j
          /\ \A i \in 1 .. n + m - j : Rest(k)[i] = p[i + j - n]
      BY <3>1, <3>2, <3>3
    <3> QED
      BY <3>4 DEF k
  <2> HIDE DEF Rest
  <2>3. Rest(j) # <<>> /\ Head(Rest(j)) = p[j - n]
    BY <1>2, <2>1
  <2>4. Tail(Rest(j)) \in Seq(Events) /\ Len(Tail(Rest(j))) = n + m - j /\ \A i \in 1 .. n + m - j : Tail(Rest(j))[i] = p[i + j - n]
    <3>1. Len(Tail(Rest(j))) = n + m - j /\ \A i \in 1 .. n + m - j : Tail(Rest(j))[i] = Rest(j)[i + 1]
      BY <1>2, <2>1, <2>3, TailElements
    <3>2. \A i \in 1 .. n + m - j : i + 1 \in 1 .. n + m + 1 - j /\ (i + 1) + j - n - 1 = i + j - n
      BY <1>2
    <3> QED
      BY <2>1, <2>3, <3>1, <3>2, TailElements
  <2>5. Tail(Rest(j)) = Rest(j + 1)
    BY <2>2, <2>4, SeqEqual
  <2> QED
    BY <2>3, <2>5
<1>10. \A j \in n + 1 .. n + m + 1 : Rest(j) \in Seq(Events)
  BY <1>6
<1> HIDE DEF Rest
<1>11. \A j \in 1 .. n : R[j] = Q[j]
  BY <1>2
<1>12. \A j \in n + 1 .. n + m + 1 : R[j] = Waiting(Rest(j))
  BY <1>2
<1>13. R[n + 1] = Q[n + 1] /\ R[n + m + 1] = Empty /\ R[1] = y
  <2>1. Q[n + 1] = Waiting(p) /\ Q[1] = y
    BY <1>1 DEF Path
  <2>2. R[n + 1] = Waiting(p)
    BY <1>2, <1>7, <1>12
  <2> HIDE DEF R
  <2>3. R[1] = y
    <3>1. CASE n = 0
      BY <2>1, <2>2, <3>1
    <3>2. CASE n # 0
      BY <1>2, <1>11, <2>1, <3>2
    <3> QED
      BY <3>1, <3>2
  <2> QED
    BY <1>2, <1>8, <1>12, <2>1, <2>2, <2>3 DEF Empty
<1>14. R \in [1 .. n + m + 1 -> States]
  <2>1. ASSUME NEW j \in 1 .. n + m + 1 PROVE R[j] \in States
    <3>1. CASE j <= n
      <4>1. j \in 1 .. n /\ j \in 1 .. n + 1
        BY <1>2, <3>1
      <4>2. Q[j] \in States
        BY <1>1, <4>1 DEF Path
      <4> QED
        BY <1>11, <4>1, <4>2
    <3>2. CASE j > n
      <4>1. R[j] = Waiting(Rest(j)) /\ Rest(j) \in Seq(Events)
        BY <1>2, <1>10, <1>12, <3>2
      <4> QED
        BY <4>1, WaitingStates
    <3> QED
      BY <1>2, <3>1, <3>2
  <2> QED
    BY <2>1
<1> HIDE DEF R
<1>15. ASSUME NEW j \in 1 .. n + m PROVE Follows(R[j], c[j]) /\ R[j + 1] = Flows(R[j], c[j])
  <2>1. CASE j <= n
    <3>1. j \in 1 .. n /\ R[j] = Q[j] /\ R[j + 1] = Q[j + 1] /\ c[j] = o[j]
      BY <1>2, <1>5, <1>11, <1>13, <2>1
    <3> QED
      BY <1>1, <3>1 DEF Path
  <2>2. CASE j > n
    <3>1. j \in n + 1 .. n + m /\ j + 1 \in n + 1 .. n + m + 1
      BY <1>2, <2>2
    <3>2. R[j] = Waiting(Rest(j)) /\ R[j + 1] = Waiting(Rest(j + 1)) /\ c[j] = HelperCall(p[j - n])
      <4>1. R[j] = Waiting(Rest(j)) /\ R[j + 1] = Waiting(Rest(j + 1))
        BY <1>12, <3>1
      <4>2. c[j] = HelperCall(p[j - n])
        BY <1>5, <3>1
      <4> QED
        BY <4>1, <4>2
    <3>3. R[j].ahead = None /\ R[j].pending = Rest(j)
      BY <3>2 DEF Waiting
    <3>4. c[j].tag = "call"
      BY <3>2 DEF HelperCall
    <3>5. Rest(j) # <<>> /\ Head(Rest(j)) = p[j - n] /\ Tail(Rest(j)) = Rest(j + 1)
      BY <1>9, <3>1
    <3>6. Follows(R[j], c[j])
      BY <3>2, <3>3, <3>4, <3>5 DEF Follows
    <3>7. Flows(R[j], c[j]) = Waiting(Tail(R[j].pending))
      BY <3>3, <3>4, <3>5 DEF Flows
    <3> QED
      BY <3>2, <3>3, <3>5, <3>6, <3>7
  <2> QED
    BY <1>2, <2>1, <2>2
<1>16. Path(R, c, y, Empty)
  BY <1>2, <1>5, <1>13, <1>14, <1>15 DEF Path
<1> QED
  BY <1>5, <1>16 DEF Leads, c
-----------------------------------------------------------------------------
(* Translation.                                                            *)

Queues == [events : Seq(Events), out : Seq(Items)]

LEMMA StatementEvent ==
  ASSUME NEW s \in PlainStatement, s.tag # "exit", NEW kind \in Kinds
  PROVE  Event(kind, s) \in Events /\ Event(kind, s).guarded = (s.tag \in Guarded)
         /\ Event(kind, s).kind = kind /\ Event(kind, s).addr = s.addr /\ Event(kind, s).on = Reported(s)
<1>1. s.addr \in Addresses /\ s.on \in BOOLEAN
  BY CodeAssumption DEF PlainStatement, Statement, Addresses, Guarded
<1>6. Reported(s) \in BOOLEAN /\ (Reported(s) \/ s.tag \in Guarded)
  BY <1>1 DEF Reported
<1>2. kind \in Kinds /\ (s.tag \in Guarded) \in BOOLEAN
  OBVIOUS
<1>3. /\ Event(kind, s).guarded = (s.tag \in Guarded) /\ Event(kind, s).kind = kind
      /\ Event(kind, s).addr = s.addr /\ Event(kind, s).on = Reported(s)
  BY Zenon DEF Event
<1>4. Event(kind, s) \in [kind : Kinds, addr : Addresses, on : BOOLEAN, guarded : BOOLEAN]
  <2> DEFINE g == s.tag \in Guarded
             o == Reported(s)
  <2>1. g \in BOOLEAN /\ o \in BOOLEAN
    BY <1>6
  <2>2. Event(kind, s) = [kind |-> kind, addr |-> s.addr, on |-> o, guarded |-> g]
    BY Zenon DEF Event
  <2> HIDE DEF g, o
  <2> QED
    BY <1>1, <2>1, <2>2
<1>5. Event(kind, s).guarded \/ Event(kind, s).on
  BY <1>3, <1>6
<1> QED
  BY <1>3, <1>4, <1>5 DEF Events

\* An event is added to the pending ones, or to none after a flush.
AddedTo(q, r, e, y) ==
  \E p \in Seq(Events), o \in Seq(Items) :
    r = [events |-> Append(p, e), out |-> o] /\ Leads(o, y, Waiting(p)) /\ p \in {q.events, <<>>}

LEMMA FlushLeads ==
  ASSUME NEW q \in Queues, NEW y, Leads(q.out, y, Waiting(q.events))
  PROVE  Flush(q) \in Queues /\ Flush(q).events = <<>> /\ Leads(Flush(q).out, y, Empty)
<1>1. q.out \in Seq(Items) /\ q.events \in Seq(Events)
  BY DEF Queues
<1>2. q.out \o Calls(q.events) \in Seq(Items) /\ Leads(q.out \o Calls(q.events), y, Empty)
  BY <1>1, LeadsFlushed
<1>3. Flush(q).events = <<>> /\ Flush(q).out = q.out \o Calls(q.events)
  BY DEF Flush
<1>4. Flush(q) \in Queues
  BY <1>2 DEF Flush, Queues
<1> QED
  BY <1>2, <1>3, <1>4

LEMMA Queued ==
  ASSUME NEW q \in Queues, NEW x
  PROVE  /\ [q EXCEPT !.events = x] = [events |-> x, out |-> q.out]
         /\ [q EXCEPT !.out = x] = [events |-> q.events, out |-> x]
BY DEF Queues

LEMMA Added ==
  ASSUME NEW q \in Queues, NEW e, Flush(q) \in Queues
  PROVE  /\ Len(q.events) = N_EVENTS => Add(q, e) = [events |-> Append(Flush(q).events, e), out |-> Flush(q).out]
         /\ Len(q.events) # N_EVENTS => Add(q, e) = [events |-> Append(q.events, e), out |-> q.out]
<1>1. \A r : [r EXCEPT !.events = Append(@, e)] = [r EXCEPT !.events = Append(r.events, e)]
  OBVIOUS
<1>2. \A r \in Queues : [r EXCEPT !.events = Append(@, e)] = [events |-> Append(r.events, e), out |-> r.out]
  BY Queued, <1>1
<1>3. /\ Len(q.events) = N_EVENTS => Add(q, e) = [Flush(q) EXCEPT !.events = Append(@, e)]
      /\ Len(q.events) # N_EVENTS => Add(q, e) = [q EXCEPT !.events = Append(@, e)]
  BY DEF Add
<1> QED
  BY <1>2, <1>3

LEMMA AddLeads ==
  ASSUME NEW q \in Queues, NEW y, Leads(q.out, y, Waiting(q.events)), NEW e \in Events
  PROVE  AddedTo(q, Add(q, e), e, y)
<1>0. Flush(q) \in Queues /\ Flush(q).events = <<>> /\ Leads(Flush(q).out, y, Waiting(<<>>))
  BY FlushLeads DEF Empty
<1>1. CASE Len(q.events) = N_EVENTS
  <2>1. Flush(q) \in Queues /\ Flush(q).events = <<>> /\ Leads(Flush(q).out, y, Waiting(<<>>))
    BY <1>0
  <2>2. Add(q, e) = [events |-> Append(<<>>, e), out |-> Flush(q).out]
    BY <1>1, <2>1, Added
  <2>3. Flush(q).out \in Seq(Items) /\ <<>> \in Seq(Events)
    BY <2>1 DEF Queues
  <2> QED
    BY <2>1, <2>2, <2>3 DEF AddedTo
<1>2. CASE Len(q.events) # N_EVENTS
  <2>1. q.out \in Seq(Items) /\ q.events \in Seq(Events) /\ q = [events |-> q.events, out |-> q.out]
    BY DEF Queues
  <2>2. Add(q, e) = [events |-> Append(q.events, e), out |-> q.out]
    BY <1>0, <1>2, Added
  <2> QED
    BY <2>1, <2>2 DEF AddedTo
<1> QED
  BY <1>1, <1>2

\* The last element of a sequence is replaced.
LEMMA LastReplaced ==
  ASSUME NEW p \in Seq(Events), NEW e \in Events
  PROVE  /\ Append(p, e) \in Seq(Events) /\ Append(p, e) # <<>> /\ Last(Append(p, e)) = e
         /\ \A k \in Kinds : [Append(p, e) EXCEPT ![Len(Append(p, e))].kind = k]
                               = Append(p, [e EXCEPT !.kind = k])
<1> DEFINE n == Len(p)
           a == Append(p, e)
<1>1. a \in Seq(Events) /\ Len(a) = n + 1 /\ a[n + 1] = e /\ n \in Nat /\ a # <<>> /\ \A i \in 1 .. n : a[i] = p[i]
  OBVIOUS
<1>2. ASSUME NEW k \in Kinds PROVE [a EXCEPT ![Len(a)].kind = k] = Append(p, [e EXCEPT !.kind = k])
  <2> DEFINE f == [e EXCEPT !.kind = k]
             b == [a EXCEPT ![n + 1] = f]
             c == Append(p, f)
  <2>1. f \in Events
    BY DEF Events
  <2>2. [a EXCEPT ![Len(a)].kind = k] = b
    BY <1>1
  <2> HIDE DEF f
  <2>3. c \in Seq(Events) /\ Len(c) = n + 1 /\ c[n + 1] = f /\ \A i \in 1 .. n : c[i] = p[i]
    BY <2>1
  <2>4. b \in Seq(Events) /\ Len(b) = n + 1 /\ b[n + 1] = f /\ \A i \in 1 .. n : b[i] = p[i]
    <3> HIDE DEF a
    <3> QED
      BY <1>1, <2>1, ExceptElements
  <2> HIDE DEF b, c
  <2>5. \A i \in 1 .. n + 1 : b[i] = c[i]
    BY <1>1, <2>3, <2>4
  <2>6. b = c
    BY <2>3, <2>4, <2>5, SeqEqual
  <2> QED
    BY <2>2, <2>6 DEF b, c, f
<1> QED
  BY <1>1, <1>2 DEF Last

LEMMA LastModified ==
  ASSUME NEW p \in Seq(Events), p # <<>>
  PROVE  [p EXCEPT ![Len(p)].kind = "modify"] \in Seq(Events)
<1>1. p[Len(p)] \in Events /\ Len(p) \in 1 .. Len(p)
  OBVIOUS
<1>2. [p[Len(p)] EXCEPT !.kind = "modify"] \in Events
  BY <1>1 DEF Events, Kinds
<1> QED
  BY <1>1, <1>2

\* After any statement the block leads to the queue.
With(r, s) == [r EXCEPT !.out = Append(@, s)]
Translated(r, y) == r \in Queues /\ Leads(r.out, y, Waiting(r.events))

LEMMA AppendLeads ==
  ASSUME NEW r \in Queues, NEW s \in PlainStatement, NEW y, NEW p \in Seq(Events), NEW w \in States,
         Leads(r.out, y, w), Follows(w, s), Flows(w, s) = Waiting(p), r.events = p
  PROVE  Translated(With(r, s), y)
<1>1. s \in Items /\ r.out \in Seq(Items) /\ Waiting(p) \in States
  BY WaitingStates DEF Items, Queues
<1>2. Leads(Append(r.out, s), y, Waiting(p)) /\ Append(r.out, s) \in Seq(Items)
  BY <1>1, LeadsAppend
<1>3. With(r, s) = [events |-> p, out |-> Append(r.out, s)]
  BY Queued DEF With
<1> QED
  BY <1>2, <1>3 DEF Translated, Queues

\* A statement behind the event it is to be reported by.
LEMMA AddStatement ==
  ASSUME NEW q \in Queues, NEW y, NEW s \in PlainStatement, NEW r,
         s.tag \in {"mark", "load", "loadG", "storeG", "modify", "store", "sc"},
         AddedTo(q, r, Event(KindOf(s.tag), s), y), s.tag \in {"store", "sc"} => ~Modifies(q.events, s)
  PROVE  Translated(With(r, s), y)
<1> DEFINE e == Event(KindOf(s.tag), s)
<1>1. PICK p \in Seq(Events), o \in Seq(Items) :
        r = [events |-> Append(p, e), out |-> o] /\ Leads(o, y, Waiting(p)) /\ p \in {q.events, <<>>}
  BY DEF AddedTo
<1>2. e \in Events
  BY StatementEvent DEF KindOf, Kinds
<1>3. Append(p, e) \in Seq(Events) /\ r \in Queues /\ r.events = Append(p, e) /\ r.out = o
  BY <1>1, <1>2, LastReplaced DEF Queues
<1>4. Waiting(p) \in States /\ Waiting(p).pending = p /\ Waiting(p).ahead = None
  BY WaitingStates
<1>5. Follows(Waiting(p), s)
  BY <1>4 DEF Follows
<1>6. s.tag \in {"store", "sc"} => ~Modifies(p, s)
  BY <1>1 DEF Modifies, Unguarded
<1>7. Flows(Waiting(p), s) = Waiting(Append(p, e))
  BY <1>4, <1>6 DEF Flows
<1> QED
  BY <1>1, <1>3, <1>4, <1>5, <1>7, AppendLeads

LEMMA TranslateLeads ==
  ASSUME NEW q \in Queues, NEW s \in PlainStatement, NEW y, Leads(q.out, y, Waiting(q.events))
  PROVE  Translated(Translate(q, s), y)
<1> DEFINE K == KindOf(s.tag)
           E == EventsOf(q, s)
<1>0. /\ s.tag \in {"mark", "load", "loadG", "storeG", "modify", "store", "sc", "ll", "exit"}
      /\ q.events \in Seq(Events) /\ q.out \in Seq(Items)
  BY DEF PlainStatement, Statement, Queues, Guarded
<1>1. \A kind \in Kinds : s.tag # "exit" => AddedTo(q, Add(q, Event(kind, s)), Event(kind, s), y)
  BY StatementEvent, AddLeads
<1>2. s.tag # "ll" => Translate(q, s) = With(E, s)
  BY DEF Translate, FlushAfter, With
<1>3. CASE s.tag \in {"mark", "load", "loadG", "storeG"}
  <2>1. E = Add(q, Event(K, s)) /\ K \in Kinds
    BY <1>3 DEF EventsOf, KindOf, Kinds
  <2> QED
    BY <1>1, <1>2, <1>3, <2>1, AddStatement
<1>4. CASE s.tag \in {"store", "sc"} /\ ~Merges(q, s)
  <2>1. E = Add(q, Event(K, s)) /\ K \in Kinds
    BY <1>4 DEF EventsOf, AddWrite, KindOf, Kinds
  <2>2. ~Modifies(q.events, s)
    BY <1>4 DEF Modifies, Unguarded, Merges
  <2> QED
    BY <1>1, <1>2, <1>4, <2>1, <2>2, AddStatement
<1>5. CASE s.tag \in {"store", "sc"} /\ Merges(q, s)
  <2> DEFINE p == [q.events EXCEPT ![Len(q.events)].kind = "modify"]
  <2>1. E = [q EXCEPT !.events = p]
    BY <1>0, <1>5 DEF EventsOf, AddWrite
  <2>2. q.events # <<>> /\ Modifies(q.events, s)
    BY <1>5 DEF Modifies, Unguarded, Merges
  <2>3. p \in Seq(Events)
    BY <1>0, <2>2, LastModified
  <2>4. Follows(Waiting(q.events), s) /\ Flows(Waiting(q.events), s) = Waiting(p)
    <3>1. Waiting(q.events).pending = q.events /\ Waiting(q.events).ahead = None
      BY DEF Waiting
    <3> QED
      BY <1>5, <2>2, <3>1 DEF Follows, Flows
  <2> HIDE DEF p
  <2>5. E \in Queues /\ E.events = p /\ E.out = q.out
    BY <2>1, <2>3 DEF Queues
  <2> HIDE DEF E
  <2>6. Waiting(q.events) \in States
    BY <1>0, WaitingStates
  <2> QED
    BY <1>2, <1>5, <2>3, <2>4, <2>5, <2>6, AppendLeads
<1>6. CASE s.tag = "modify"
  <2> DEFINE a == Event("read", s)
             e == Event("modify", s)
  <2>1. a \in Events /\ e \in Events /\ a.kind = "read" /\ a.addr = s.addr /\ ~a.guarded
    BY <1>6, StatementEvent DEF Kinds, Guarded
  <2>2. PICK p \in Seq(Events), o \in Seq(Items) :
          Add(q, a) = [events |-> Append(p, a), out |-> o] /\ Leads(o, y, Waiting(p)) /\ p \in {q.events, <<>>}
    BY <1>1, <1>6 DEF AddedTo, Kinds
  <2>3. [a EXCEPT !.kind = "modify"] = e
    BY DEF Event
  <2> HIDE DEF a, e
  <2> DEFINE r == Add(q, a)
  <2>4. /\ r.events # <<>> /\ Last(r.events) = a
        /\ [r.events EXCEPT ![Len(r.events)].kind = "modify"] = Append(p, e)
    <3>1. r.events = Append(p, a) /\ "modify" \in Kinds
      BY <2>2 DEF Kinds
    <3> HIDE DEF r
    <3> QED
      <4> DEFINE b == Append(p, a)
      <4>1. b # <<>> /\ Last(b) = a /\ [b EXCEPT ![Len(b)].kind = "modify"] = Append(p, [a EXCEPT !.kind = "modify"])
        BY <2>1, <3>1, LastReplaced, Zenon
      <4>2. r.events = b
        BY <3>1
      <4> HIDE DEF b
      <4> QED
        BY <2>3, <4>1, <4>2
  <2>5. Merges(r, s)
    BY <2>1, <2>4 DEF Merges
  <2>6. E = [r EXCEPT !.events[Len(r.events)].kind = "modify"]
    BY <1>6, <2>5 DEF EventsOf, AddWrite, a
  <2>7. E = [events |-> Append(p, e), out |-> o]
    <3>1. r \in Queues /\ r.out = o
      BY <2>1, <2>2, LastReplaced DEF Queues
    <3>2. E = [r EXCEPT !.events = [r.events EXCEPT ![Len(r.events)].kind = "modify"]]
      BY <2>6
    <3> HIDE DEF E, r
    <3> QED
      BY <2>4, <3>1, <3>2, Queued
  <2>8. AddedTo(q, E, e, y)
    BY <2>2, <2>7 DEF AddedTo
  <2> QED
    BY <1>2, <1>6, <2>8, AddStatement DEF KindOf, e
<1>7. CASE s.tag = "ll"
  <2> DEFINE a == Event("read", s)
  <2>1. a \in Events /\ a.kind = "read" /\ a.addr = s.addr /\ a.on = Reported(s)
    BY <1>7, StatementEvent DEF Kinds
  <2>2. PICK p \in Seq(Events), o \in Seq(Items) :
          Add(q, a) = [events |-> Append(p, a), out |-> o] /\ Leads(o, y, Waiting(p)) /\ p \in {q.events, <<>>}
    BY <1>1, <1>7 DEF AddedTo, Kinds
  <2>3. E = Add(q, a)
    BY <1>7 DEF EventsOf
  <2>4. Reported(s) /\ s.addr \in Plain
    BY <1>7, CodeAssumption DEF PlainStatement, Statement, Strays, Plain, Guarded, Reported
  <2> HIDE DEF a
  <2> DEFINE x == HelperCall(a)
             c == o \o Calls(p)
             r == Flush(E)
             w == [pending |-> <<>>, ahead |-> s.addr]
  <2>5. c \in Seq(Items) /\ Leads(c, y, Empty)
    BY <2>2, LeadsFlushed
  <2>6. x \in Items /\ x.tag = "call" /\ x.kind = "read" /\ x.on /\ x.addr = s.addr
    BY <2>1, <2>4 DEF HelperCall, HelperCalls, Items, Events
  <2>7. w \in States /\ w.pending = <<>> /\ w.ahead = s.addr
    BY <2>4 DEF States
  <2>8. Follows(Empty, x) /\ Flows(Empty, x) = w
    <3>1. Empty.pending = <<>> /\ Empty.ahead = None
      BY DEF Empty, Waiting
    <3> QED
      BY <2>4, <2>6, <3>1 DEF Follows, Flows
  <2>9. r.out = Append(c, x) /\ r.events = <<>>
    <3>1. r.out = o \o Calls(Append(p, a)) /\ r.events = <<>>
      BY <2>2, <2>3 DEF Flush
    <3>2. Calls(p) \in Seq(Items) /\ Len(Calls(p)) = Len(p) /\ \A i \in 1 .. Len(p) : Calls(p)[i] = HelperCall(p[i])
      BY CallItems
    <3> DEFINE b == Append(p, a)
    <3>3. b \in Seq(Events) /\ Len(b) = Len(p) + 1 /\ b[Len(p) + 1] = a /\ \A i \in 1 .. Len(p) : b[i] = p[i]
      BY <2>1, AppendElements
    <3> HIDE DEF b
    <3>4. Calls(b) \in Seq(Items) /\ Len(Calls(b)) = Len(b) /\ \A i \in 1 .. Len(b) : Calls(b)[i] = HelperCall(b[i])
      BY <3>3, CallItems
    <3> HIDE DEF x
    <3> DEFINE u == Calls(p)
               v == Append(u, x)
    <3>5. v \in Seq(Items) /\ Len(v) = Len(p) + 1 /\ v[Len(p) + 1] = x /\ \A i \in 1 .. Len(p) : v[i] = u[i]
      BY <2>6, <3>2, AppendElements
    <3>6. ASSUME NEW i \in 1 .. Len(b) PROVE Calls(b)[i] = v[i]
      <4>1. Calls(b)[i] = HelperCall(b[i]) /\ Len(p) \in Nat
        BY <3>4
      <4> HIDE DEF v
      <4>2. CASE i = Len(p) + 1
        BY <3>3, <3>5, <4>1, <4>2 DEF x
      <4>3. CASE i # Len(p) + 1
        <5>1. i \in 1 .. Len(p)
          BY <3>3, <4>1, <4>3
        <5> QED
          BY <3>2, <3>3, <3>5, <4>1, <5>1
      <4> QED
        BY <4>2, <4>3
    <3>7. Calls(b) = v
      <4> HIDE DEF v
      <4> QED
        BY <3>3, <3>4, <3>5, <3>6, SeqEqual
    <3>8. o \o v = Append(o \o u, x)
      BY <2>6, <3>2, ConcatAppend
    <3> QED
      BY <3>1, <3>7, <3>8 DEF b
  <2> HIDE DEF x, c, w
  <2>10. Leads(r.out, y, w) /\ r.out \in Seq(Items)
    BY <2>5, <2>6, <2>7, <2>8, <2>9, LeadsAppend
  <2>11. r \in Queues
    BY <2>9, <2>10 DEF Flush, Queues
  <2>12. Follows(w, s) /\ Flows(w, s) = Waiting(<<>>)
    BY <1>7, <2>7 DEF Follows, Flows, Empty
  <2>13. Translate(q, s) = With(r, s)
    BY <1>7 DEF Translate, FlushAfter, With
  <2> HIDE DEF r
  <2>14. <<>> \in Seq(Events)
    OBVIOUS
  <2> QED
    BY <2>7, <2>9, <2>10, <2>11, <2>12, <2>13, <2>14, AppendLeads
<1>8. CASE s.tag = "exit"
  <2>1. E = Flush(q)
    BY <1>8 DEF EventsOf
  <2>2. E \in Queues /\ E.events = <<>> /\ Leads(E.out, y, Empty)
    BY <2>1, FlushLeads
  <2>3. Follows(Empty, s) /\ Flows(Empty, s) = Waiting(<<>>)
    BY <1>8 DEF Follows, Flows, Empty
  <2> HIDE DEF E
  <2>4. <<>> \in Seq(Events)
    OBVIOUS
  <2> QED
    BY <1>2, <1>8, <2>2, <2>3, <2>4, EmptyState, AppendLeads
<1> QED
  BY <1>0, <1>3, <1>4, <1>5, <1>6, <1>7, <1>8
-----------------------------------------------------------------------------
(* The lines due for the pending events.                                   *)

LEMMA AfterTallies ==
  ASSUME NEW e \in Events, NEW s \in Tallies
  PROVE  After(e, s) \in Tallies /\ Enables(e, s) \in BOOLEAN
<1>1. Enables(e, s) \in BOOLEAN
  BY DEF Enables, Listed, in_list, Tallies
<1> QED
  BY <1>1 DEF After, Tallies

LEMMA OwedNothing ==
  ASSUME NEW s, NEW t, NEW d
  PROVE  /\ Owed(<<>>, s, t, d) => s = t
         /\ s \in Tallies => Owed(<<>>, s, s, d)
<1>1. ASSUME s \in Tallies PROVE Owed(<<>>, s, s, d)
  <2> DEFINE S == [i \in 0 .. 0 |-> s]
  <2>1. Pays(S, <<>>, d) /\ S[0] = s
    BY <1>1 DEF Pays, Tallies
  <2> QED
    BY <2>1 DEF Owed
<1> QED
  BY <1>1 DEF Owed, Pays

LEMMA OwedTypes ==
  ASSUME NEW p \in Seq(Events), NEW s, NEW t, NEW d, Owed(p, s, t, d)
  PROVE  s \in Tallies /\ t \in Tallies
<1>1. Len(p) \in Nat
  OBVIOUS
<1> QED
  BY <1>1 DEF Owed, Pays

\* The last event, when it is of an access of the region, is the last due.
LastDue(p, s, t, d) ==
  t.paid >= 1 /\ d[t.paid].line = LineOf(Last(p)) /\ (Len(p) > 1 => t.paid > After(Head(p), s).paid)
LEMMA OwedLast ==
  ASSUME NEW p \in Seq(Events), p # <<>>, NEW s, NEW t, NEW d, Owed(p, s, t, d), Last(p).on, t.on
  PROVE  LastDue(p, s, t, d)
<1> DEFINE n == Len(p)
<1>1. n \in Nat \ {0} /\ Head(p) = p[1] /\ \A i \in 1 .. n : p[i] \in Events
  OBVIOUS
<1>2. PICK S : Pays(S, p, d) /\ S[0] = s /\ S[n] = t
  BY DEF Owed
<1>3. /\ S[n] = After(p[n], S[n - 1]) /\ (S[n].paid # S[n - 1].paid => d[S[n].paid].line = LineOf(p[n]))
      /\ S[n - 1] \in Tallies /\ S[n] \in Tallies /\ S[1] = After(p[1], S[0])
      /\ (n > 1 => S[1].paid <= S[n - 1].paid) /\ S[1] \in Tallies
  BY <1>1, <1>2 DEF Pays
<1>4. t.on = Enables(p[n], S[n - 1]) /\ (t.on => t.paid = S[n - 1].paid + 1)
  <2> DEFINE x == S[n - 1]
             e == p[n]
  <2>1. e.on /\ t = After(e, x) /\ t.on
    BY <1>2, <1>3 DEF Last
  <2> HIDE DEF x, e
  <2>2. t = [on |-> Enables(e, x), count |-> IF e.addr \in Begins THEN x.count + 1 ELSE x.count,
             paid |-> IF Enables(e, x) THEN x.paid + 1 ELSE x.paid]
    BY <2>1 DEF After
  <2>3. t.on = Enables(e, x) /\ t.paid = IF Enables(e, x) THEN x.paid + 1 ELSE x.paid
    BY <2>2
  <2> QED
    BY <2>1, <2>3 DEF x, e
<1> QED
  BY <1>1, <1>2, <1>3, <1>4 DEF Last, Tallies, LastDue

\* One more event, and the line due for it if it is of the region.
LEMMA OwedAppend ==
  ASSUME NEW p \in Seq(Events), NEW s, NEW t, NEW d, NEW f, Owed(p, s, t, d), NEW e \in Events,
         \A i \in 1 .. t.paid : f[i].line = d[i].line,
         After(e, t).paid # t.paid => f[After(e, t).paid].line = LineOf(e)
  PROVE  Owed(Append(p, e), s, After(e, t), f)
<1> DEFINE n == Len(p)
           a == Append(p, e)
           u == After(e, t)
<1>1. n \in Nat /\ Len(a) = n + 1 /\ a[n + 1] = e /\ \A i \in 1 .. n : a[i] = p[i]
  BY AppendElements
<1>2. PICK S : Pays(S, p, d) /\ S[0] = s /\ S[n] = t
  BY DEF Owed
<1>3. t \in Tallies /\ u \in Tallies /\ u.paid >= t.paid
  <2>1. t \in Tallies
    BY OwedTypes
  <2> QED
    BY <2>1, AfterTallies DEF After, Tallies
<1> DEFINE T == [i \in 0 .. n + 1 |-> IF i = n + 1 THEN u ELSE S[i]]
<1>4. /\ T \in [0 .. n + 1 -> Tallies] /\ T[n + 1] = u /\ \A i \in 0 .. n : T[i] = S[i]
  BY <1>1, <1>2, <1>3 DEF Pays
<1> HIDE DEF a, u, T
<1>5. ASSUME NEW i \in 1 .. n + 1
      PROVE  T[i] = After(a[i], T[i - 1]) /\ (T[i].paid # T[i - 1].paid => f[T[i].paid].line = LineOf(a[i]))
  <2>1. CASE i = n + 1
    BY <1>1, <1>2, <1>4, <2>1 DEF u
  <2>2. CASE i \in 1 .. n
    <3>1. /\ T[i] = S[i] /\ T[i - 1] = S[i - 1] /\ a[i] = p[i]
          /\ S[i] = After(p[i], S[i - 1]) /\ (S[i].paid # S[i - 1].paid => d[S[i].paid].line = LineOf(p[i]))
          /\ S[i] \in Tallies /\ S[i - 1] \in Tallies /\ S[i].paid <= t.paid /\ S[i - 1].paid <= S[i].paid
      <4>1. i \in 0 .. n /\ i - 1 \in 0 .. n /\ n \in i .. n /\ i \in i - 1 .. n
        BY <1>1, <2>2
      <4>2. /\ S[i] = After(p[i], S[i - 1]) /\ (S[i].paid # S[i - 1].paid => d[S[i].paid].line = LineOf(p[i]))
            /\ S[i] \in Tallies /\ S[i - 1] \in Tallies
        BY <1>2, <2>2, <4>1 DEF Pays
      <4>3. S[i].paid <= t.paid /\ S[i - 1].paid <= S[i].paid
        BY <1>2, <4>1 DEF Pays
      <4>4. T[i] = S[i] /\ T[i - 1] = S[i - 1] /\ a[i] = p[i]
        BY <1>1, <1>4, <2>2, <4>1
      <4> QED
        BY <4>2, <4>3, <4>4
    <3>2. S[i].paid # S[i - 1].paid => S[i].paid \in 1 .. t.paid
      BY <1>3, <3>1 DEF Tallies
    <3> QED
      BY <3>1, <3>2
  <2> QED
    BY <1>1, <2>1, <2>2
<1>6. ASSUME NEW i \in 0 .. n + 1, NEW j \in i .. n + 1 PROVE T[i].paid <= T[j].paid
  <2>1. CASE j \in 0 .. n
    BY <1>1, <1>2, <1>4, <2>1 DEF Pays
  <2>2. CASE i \in 0 .. n /\ j = n + 1
    <3>1. S[i].paid <= t.paid /\ T[i] = S[i] /\ T[j] = u /\ S[i] \in Tallies
      BY <1>1, <1>2, <1>4, <2>2 DEF Pays
    <3> QED
      BY <1>3, <3>1 DEF Tallies
  <2>3. CASE i = n + 1 /\ j = n + 1
    BY <1>3, <1>4, <2>3 DEF Tallies
  <2> QED
    BY <1>1, <2>1, <2>2, <2>3
<1>7. Pays(T, a, f)
  BY <1>1, <1>4, <1>5, <1>6 DEF Pays
<1>8. T[0] = s /\ T[Len(a)] = u
  BY <1>1, <1>2, <1>4
<1> QED
  BY <1>7, <1>8 DEF Owed, a, u

\* What is owed depends on the lines only, and on the addresses and guards of
\* the events except for the last when it is not of the region.
LEMMA OwedLines ==
  ASSUME NEW p \in Seq(Events), NEW s, NEW t, NEW d, NEW f, Owed(p, s, t, d),
         \A i \in 1 .. t.paid : f[i].line = d[i].line
  PROVE  Owed(p, s, t, f)
<1> DEFINE n == Len(p)
<1>1. n \in Nat
  OBVIOUS
<1>2. PICK S : Pays(S, p, d) /\ S[0] = s /\ S[n] = t
  BY DEF Owed
<1>3. ASSUME NEW i \in 1 .. n
      PROVE  S[i] = After(p[i], S[i - 1]) /\ (S[i].paid # S[i - 1].paid => f[S[i].paid].line = LineOf(p[i]))
  <2>1. /\ S[i] = After(p[i], S[i - 1]) /\ (S[i].paid # S[i - 1].paid => d[S[i].paid].line = LineOf(p[i]))
        /\ S[i] \in Tallies /\ S[i - 1] \in Tallies /\ S[i].paid <= t.paid /\ S[i - 1].paid <= S[i].paid
        /\ t \in Tallies
    BY <1>1, <1>2 DEF Pays
  <2>2. S[i].paid # S[i - 1].paid => S[i].paid \in 1 .. t.paid
    BY <2>1 DEF Tallies
  <2> QED
    BY <2>1, <2>2
<1>4. Pays(S, p, f)
  BY <1>1, <1>2, <1>3 DEF Pays
<1> QED
  BY <1>2, <1>4 DEF Owed

\* The last event becomes a modification, and so does the line due for it.
LEMMA OwedModified ==
  ASSUME NEW p \in Seq(Events), p # <<>>, Last(p).on, NEW s, NEW t, NEW d, NEW f, Owed(p, s, t, d),
         \A i \in 1 .. t.paid - 1 : f[i].line = d[i].line,
         t.on => f[t.paid].line = <<"W", Last(p).addr>>,
         ~t.on => \A i \in 1 .. t.paid : f[i].line = d[i].line
  PROVE  Owed([p EXCEPT ![Len(p)].kind = "modify"], s, t, f)
<1> DEFINE n == Len(p)
           e == [p[n] EXCEPT !.kind = "modify"]
           q == [p EXCEPT ![n] = e]
<1>1. n \in Nat \ {0} /\ \A i \in 1 .. n : p[i] \in Events
  OBVIOUS
<1>2. e \in Events /\ e.on = p[n].on /\ e.addr = p[n].addr /\ e.kind = "modify"
  BY <1>1 DEF Events, Kinds
<1>3. [p EXCEPT ![Len(p)].kind = "modify"] = q
  OBVIOUS
<1> HIDE DEF e
<1>4. q \in Seq(Events) /\ Len(q) = n /\ q[n] = e /\ \A i \in 1 .. n : i # n => q[i] = p[i]
  BY <1>1, <1>2, ExceptElements
<1> HIDE DEF q
<1>5. PICK S : Pays(S, p, d) /\ S[0] = s /\ S[n] = t
  BY DEF Owed
<1>6. \A x \in Tallies : After(e, x) = After(p[n], x)
  BY <1>2 DEF After, Enables
<1>7. ASSUME NEW i \in 1 .. n
      PROVE  S[i] = After(q[i], S[i - 1]) /\ (S[i].paid # S[i - 1].paid => f[S[i].paid].line = LineOf(q[i]))
  <2>1. /\ S[i] = After(p[i], S[i - 1]) /\ (S[i].paid # S[i - 1].paid => d[S[i].paid].line = LineOf(p[i]))
        /\ S[i] \in Tallies /\ S[i - 1] \in Tallies /\ S[i].paid <= t.paid /\ S[i - 1].paid <= S[i].paid
        /\ t \in Tallies
    BY <1>1, <1>5 DEF Pays
  <2>2. S[n] = After(p[n], S[n - 1]) /\ S[n - 1] \in Tallies
    BY <1>1, <1>5 DEF Pays
  <2>3. t.on = Enables(p[n], S[n - 1]) /\ t.paid = IF t.on THEN S[n - 1].paid + 1 ELSE S[n - 1].paid
    BY <1>5, <2>2 DEF After, Last
  <2>4. CASE i = n
    <3>1. S[i] = After(q[i], S[i - 1])
      BY <1>4, <1>6, <2>1, <2>4
    <3>2. S[i].paid # S[i - 1].paid => t.on
      BY <1>5, <2>3, <2>4
    <3>3. t.on => f[S[i].paid].line = LineOf(q[i])
      BY <1>2, <1>4, <1>5, <2>4 DEF LineOf, Letter, Last
    <3> QED
      BY <3>1, <3>2, <3>3
  <2>5. CASE i # n
    <3>1. q[i] = p[i] /\ S[i].paid <= S[n - 1].paid
      <4>1. i \in 0 .. n /\ n - 1 \in i .. n
        BY <1>1, <2>5
      <4> QED
        BY <1>4, <1>5, <2>5, <4>1 DEF Pays
    <3>2. S[i].paid # S[i - 1].paid => S[i].paid \in 1 .. t.paid /\ (t.on => S[i].paid \in 1 .. t.paid - 1)
      <4>1. S[i].paid \in Nat /\ S[i - 1].paid \in Nat /\ S[n - 1].paid \in Nat /\ t.paid \in Nat
        BY <2>1, <2>2 DEF Tallies
      <4> QED
        BY <2>1, <2>3, <3>1, <4>1
    <3>3. S[i].paid # S[i - 1].paid => f[S[i].paid].line = d[S[i].paid].line
      BY <2>1, <3>2
    <3> QED
      BY <2>1, <3>1, <3>3
  <2> QED
    BY <2>4, <2>5
<1>8. Pays(S, q, f)
  BY <1>1, <1>4, <1>5, <1>7 DEF Pays
<1> QED
  BY <1>3, <1>4, <1>5, <1>8 DEF Owed

\* The call for the first event is made: it prints the first line due, or none.
LEMMA OwedHead ==
  ASSUME NEW p \in Seq(Events), p # <<>>, NEW s, NEW on, NEW count, NEW L, NEW d \in Seq(L), s.paid = 0,
         Owed(p, s, Tallied(on, count, Len(d)), d)
  PROVE  LET e == Head(p)
             u == After(e, s)
         IN  /\ u.paid = 0 => Owed(Tail(p), u, Tallied(on, count, Len(d)), d)
             /\ u.paid # 0 => /\ d # <<>> /\ d[1].line = LineOf(e)
                              /\ Owed(Tail(p), Tallied(u.on, u.count, 0), Tallied(on, count, Len(d) - 1), Tail(d))
<1> DEFINE n == Len(p)
           t == Tallied(on, count, Len(d))
           e == p[1]
           u == After(e, s)
           q == Tail(p)
<1>1. /\ n \in Nat \ {0} /\ Head(p) = e /\ q \in Seq(Events) /\ Len(q) = n - 1
      /\ \A i \in 1 .. n - 1 : q[i] = p[i + 1]
  BY TailElements
<1>2. PICK S : Pays(S, p, d) /\ S[0] = s /\ S[n] = t
  BY DEF Owed
<1>3. /\ S[1] = u /\ (u.paid # 0 => d[u.paid].line = LineOf(e)) /\ u \in Tallies
      /\ \A i \in 0 .. n : S[i] \in Tallies
      /\ \A i \in 1 .. n : u.paid <= S[i].paid
      /\ u.paid <= t.paid /\ t.paid = Len(d) /\ s \in Tallies
  <2>1. S[1] = After(p[1], S[0]) /\ (S[1].paid # S[0].paid => d[S[1].paid].line = LineOf(p[1]))
    BY <1>1, <1>2 DEF Pays
  <2>2. \A i \in 0 .. n : S[i] \in Tallies
    BY <1>1, <1>2 DEF Pays
  <2>3. \A i \in 1 .. n : S[1].paid <= S[i].paid
    BY <1>1, <1>2 DEF Pays
  <2>4. t.paid = Len(d)
    BY DEF Tallied
  <2> QED
    BY <1>1, <1>2, <2>1, <2>2, <2>3, <2>4
<1>4. u.paid \in {0, 1}
  BY <1>3 DEF After, Tallies
<1> HIDE DEF u, q
<1>5. ASSUME u.paid = 0 PROVE Owed(q, u, t, d)
  <2> DEFINE T == [i \in 0 .. n - 1 |-> S[i + 1]]
  <2>1. T \in [0 .. n - 1 -> Tallies] /\ \A i \in 0 .. n - 1 : T[i] = S[i + 1]
    BY <1>1, <1>3
  <2> HIDE DEF T
  <2>2. ASSUME NEW i \in 1 .. n - 1
        PROVE  T[i] = After(q[i], T[i - 1]) /\ (T[i].paid # T[i - 1].paid => d[T[i].paid].line = LineOf(q[i]))
    <3>1. T[i] = S[i + 1] /\ T[i - 1] = S[i] /\ q[i] = p[i + 1]
      BY <1>1, <2>1
    <3>2. S[i + 1] = After(p[i + 1], S[i]) /\ (S[i + 1].paid # S[i].paid => d[S[i + 1].paid].line = LineOf(p[i + 1]))
      BY <1>1, <1>2 DEF Pays
    <3> QED
      BY <3>1, <3>2
  <2>3. \A i \in 0 .. n - 1 : \A j \in i .. n - 1 : T[i].paid <= T[j].paid
    <3> TAKE i \in 0 .. n - 1
    <3> TAKE j \in i .. n - 1
    <3>1. i + 1 \in 0 .. n /\ j + 1 \in (i + 1) .. n /\ T[i] = S[i + 1] /\ T[j] = S[j + 1]
      BY <1>1, <2>1
    <3> QED
      BY <1>2, <3>1 DEF Pays
  <2>4. Pays(T, q, d) /\ T[0] = u /\ T[Len(q)] = t
    BY <1>1, <1>2, <1>3, <2>1, <2>2, <2>3 DEF Pays
  <2> QED
    BY <2>4 DEF Owed
<1>6. ASSUME u.paid # 0
      PROVE  /\ d # <<>> /\ d[1].line = LineOf(e)
             /\ Owed(q, Tallied(u.on, u.count, 0), Tallied(on, count, Len(d) - 1), Tail(d))
  <2> DEFINE T == [i \in 0 .. n - 1 |-> Tallied(S[i + 1].on, S[i + 1].count, S[i + 1].paid - 1)]
             f == Tail(d)
  <2>1. /\ u.paid = 1 /\ d # <<>> /\ Len(f) = Len(d) - 1 /\ Len(d) \in Nat \ {0}
        /\ \A i \in 1 .. Len(d) - 1 : f[i] = d[i + 1]
    <3>1. u.paid = 1 /\ d # <<>>
      BY <1>3, <1>4, <1>6
    <3> QED
      BY <3>1, TailElements
  <2>2. /\ \A i \in 0 .. n - 1 : T[i] = Tallied(S[i + 1].on, S[i + 1].count, S[i + 1].paid - 1)
        /\ \A i \in 0 .. n - 1 : S[i + 1] \in Tallies /\ S[i + 1].paid >= 1
    BY <1>1, <1>3, <2>1
  <2>3. T \in [0 .. n - 1 -> Tallies]
    <3>1. \A i \in 0 .. n - 1 : Tallied(S[i + 1].on, S[i + 1].count, S[i + 1].paid - 1) \in Tallies
      BY <2>2 DEF Tallied, Tallies
    <3> QED
      BY <3>1
  <2> HIDE DEF T, f
  <2>4. \A x \in Tallies : \A y \in Events : x.paid >= 1 =>
          /\ After(y, x).paid >= 1
          /\ After(y, Tallied(x.on, x.count, x.paid - 1))
               = Tallied(After(y, x).on, After(y, x).count, After(y, x).paid - 1)
    <3> TAKE x \in Tallies
    <3> TAKE y \in Events
    <3> HAVE x.paid >= 1
    <3> DEFINE v == Tallied(x.on, x.count, x.paid - 1)
    <3>1. v.on = x.on /\ v.count = x.count /\ v.paid = x.paid - 1
      BY DEF Tallied
    <3>2. Enables(y, v) = Enables(y, x)
      BY <3>1 DEF Enables
    <3>3. v = [on |-> x.on, count |-> x.count, paid |-> x.paid - 1]
      BY DEF Tallied
    <3>4. x.paid \in Nat
      BY DEF Tallies
    <3> HIDE DEF v
    <3> QED
      BY <3>1, <3>2, <3>3, <3>4 DEF After, Tallied, v
  <2>5. ASSUME NEW i \in 1 .. n - 1
        PROVE  T[i] = After(q[i], T[i - 1]) /\ (T[i].paid # T[i - 1].paid => f[T[i].paid].line = LineOf(q[i]))
    <3> DEFINE x == S[i]
               y == S[i + 1]
    <3>1. q[i] = p[i + 1] /\ i + 1 \in 1 .. n /\ i - 1 \in 0 .. n - 1 /\ i \in 0 .. n - 1 /\ (i - 1) + 1 = i
      BY <1>1
    <3>2. y = After(p[i + 1], x) /\ (y.paid # x.paid => d[y.paid].line = LineOf(p[i + 1])) /\ y.paid <= t.paid
      <4>1. /\ S[i + 1] = After(p[i + 1], S[(i + 1) - 1])
            /\ S[i + 1].paid # S[(i + 1) - 1].paid => d[S[i + 1].paid].line = LineOf(p[i + 1])
        BY <1>2, <3>1 DEF Pays
      <4>2. S[i + 1].paid <= S[n].paid
        BY <1>1, <1>2, <3>1 DEF Pays
      <4>3. (i + 1) - 1 = i
        BY <1>1
      <4> QED
        BY <1>2, <4>1, <4>2, <4>3
    <3>3. x \in Tallies /\ y \in Tallies /\ x.paid >= 1 /\ y.paid >= 1
      BY <2>2, <3>1
    <3>4. T[i] = Tallied(y.on, y.count, y.paid - 1) /\ T[i - 1] = Tallied(x.on, x.count, x.paid - 1)
      BY <2>2, <3>1
    <3> HIDE DEF x, y
    <3>5. T[i].paid = y.paid - 1 /\ T[i - 1].paid = x.paid - 1
      BY <3>4 DEF Tallied
    <3>6. T[i] = After(q[i], T[i - 1])
      BY <1>1, <2>4, <3>1, <3>2, <3>3, <3>4
    <3>7. ASSUME T[i].paid # T[i - 1].paid PROVE f[T[i].paid].line = LineOf(q[i])
      <4>1. y.paid # x.paid /\ x.paid <= y.paid
        <5>1. x.paid <= y.paid
          BY <1>1, <1>2, <3>1 DEF Pays, x, y
        <5> QED
          BY <3>5, <3>7, <5>1
      <4>2. y.paid - 1 \in 1 .. Len(d) - 1 /\ (y.paid - 1) + 1 = y.paid
        <5>1. x.paid \in Nat /\ y.paid \in Nat
          BY <3>3 DEF Tallies
        <5>2. y.paid <= Len(d) /\ Len(d) \in Nat
          BY <1>3, <2>1, <3>2
        <5> QED
          BY <3>3, <4>1, <5>1, <5>2
      <4>3. f[y.paid - 1] = d[y.paid]
        BY <2>1, <4>2
      <4> QED
        BY <3>1, <3>2, <3>5, <4>1, <4>3
    <3> QED
      BY <3>6, <3>7
  <2>6. \A i \in 0 .. n - 1 : \A j \in i .. n - 1 : T[i].paid <= T[j].paid
    <3> TAKE i \in 0 .. n - 1
    <3> TAKE j \in i .. n - 1
    <3>1. i + 1 \in 0 .. n /\ j + 1 \in (i + 1) .. n /\ j \in 0 .. n - 1
      BY <1>1
    <3>2. S[i + 1].paid <= S[j + 1].paid /\ S[i + 1] \in Tallies /\ S[j + 1] \in Tallies
      BY <1>2, <2>2, <3>1 DEF Pays
    <3>3. T[i].paid = S[i + 1].paid - 1 /\ T[j].paid = S[j + 1].paid - 1
      <4>1. \A k \in 0 .. n - 1 : T[k].paid = S[k + 1].paid - 1
        <5>1. \A a, b, c : Tallied(a, b, c).paid = c
          BY DEF Tallied
        <5> QED
          BY <2>2, <5>1
      <4> QED
        BY <3>1, <4>1
    <3> QED
      <4>1. S[i + 1].paid \in Nat /\ S[j + 1].paid \in Nat
        BY <3>2 DEF Tallies
      <4>2. \A v \in Nat : \A w \in Nat : v <= w => v - 1 <= w - 1
        OBVIOUS
      <4>3. S[i + 1].paid - 1 <= S[j + 1].paid - 1
        BY <3>2, <4>1, <4>2
      <4> QED
        BY <3>3, <4>3, Zenon
  <2>7. Pays(T, q, f)
    BY <1>1, <2>3, <2>5, <2>6 DEF Pays
  <2>8. T[0] = Tallied(u.on, u.count, 0) /\ T[Len(q)] = Tallied(on, count, Len(d) - 1)
    <3>1. T[0] = Tallied(u.on, u.count, u.paid - 1)
      BY <1>1, <1>3, <2>2
    <3>2. T[n - 1] = Tallied(S[n].on, S[n].count, S[n].paid - 1)
      BY <1>1, <2>2
    <3>3. S[n].on = on /\ S[n].count = count /\ S[n].paid = Len(d)
      BY <1>2 DEF Tallied
    <3> QED
      BY <1>1, <2>1, <3>1, <3>2, <3>3
  <2> QED
    BY <1>3, <2>1, <2>7, <2>8 DEF Owed, f
<1> QED
  BY <1>1, <1>5, <1>6 DEF u, q
-----------------------------------------------------------------------------
(* The invariant.                                                          *)

Dues == [line : Lines, open : BOOLEAN]

\* The types of the variables.
TypeOK ==
  /\ loc \in {"translate", "run", "stopped", "panic"}
  /\ events \in Seq(Events) /\ out \in Seq(Items)
  /\ enabled \in BOOLEAN /\ num_traces \in Nat /\ cindice \in Nat
  /\ due \in Seq(Dues) /\ region \in BOOLEAN /\ executions \in Nat

\* With z the state between the items: the block leads to the queue, the calls
\* to come owe the lines that are due, the last of them is open as long as a
\* write may turn it into a modification, and a line is early when the call
\* for a load-linked of the region has been made.
Debt(z) == Owed(z.pending, Tallied(enabled, cindice, 0), Tallied(region, executions, Len(due)), due)
Joined(z) == (due # <<>> /\ Last(due).open) <=> (region /\ Unguarded(z.pending))
Pointing(z) == early = IF z.ahead # None /\ region THEN << <<"R", z.ahead>> >> ELSE <<>>
Matches(z) == Leads(out, z, Waiting(events)) /\ Debt(z) /\ Joined(z) /\ Pointing(z)
LogInv ==
  /\ loc = "translate" => Matches(Empty)
  /\ loc = "run" => events = <<>> /\ \E z \in States : Matches(z)
  /\ loc \in {"stopped", "panic"} => early = <<>>

LEMMA ItemFacts ==
  ASSUME NEW x \in Items
  PROVE  /\ x.tag = "call" => /\ x \in HelperCalls /\ x.kind \in Kinds
                              /\ x.addr \in Addresses /\ x.on \in BOOLEAN
         /\ x.tag = "mark" => x.addr \in Code
         /\ x.tag \in {"load", "loadG", "ll", "store", "storeG", "sc", "modify"} => x.addr \in Plain
         /\ x.tag # "call" => /\ x \in PlainStatement /\ x.on \in BOOLEAN
                              /\ Reported(x) \in BOOLEAN /\ (Reported(x) \/ x.tag \in Guarded)
         /\ x.tag \in {"mark", "ll"} => x.on
BY CodeAssumption DEF Items, PlainStatement, Statement, Strays, Plain, HelperCalls, Guarded, Reported

\* The addresses of data are no marks.
LEMMA DataFacts ==
  ASSUME NEW a \in Plain
  PROVE  a \notin Begins /\ a \notin Ends /\ a \in Addresses /\ a # None
BY NoneNotPlain DEF Plain, Marks, Addresses

\* The last line is closed.
LEMMA ClosedFacts ==
  ASSUME NEW d \in Seq(Dues)
  PROVE  /\ Closed(d) \in Seq(Dues) /\ Len(Closed(d)) = Len(d)
         /\ \A i \in 1 .. Len(d) : Closed(d)[i].line = d[i].line
         /\ ~(Closed(d) # <<>> /\ Last(Closed(d)).open)
         /\ ~(d # <<>> /\ Last(d).open) => Closed(d) = d
<1>1. CASE d = <<>>
  BY <1>1 DEF Closed
<1>2. CASE d # <<>>
  <2> DEFINE n == Len(d)
             x == d[n]
             y == [line |-> x.line, open |-> FALSE]
             c == [d EXCEPT ![n] = y]
  <2>1. n \in Nat \ {0} /\ n \in 1 .. n /\ x \in Dues /\ \A i \in 1 .. n : d[i] \in Dues
    BY <1>2
  <2>2. y \in Dues /\ y.line = x.line /\ ~y.open
    BY <2>1 DEF Dues
  <2>3. ASSUME ~x.open PROVE y = x
    <3>1. x = [line |-> x.line, open |-> x.open] /\ x.open \in BOOLEAN
      BY <2>1 DEF Dues
    <3> HIDE DEF x
    <3>2. x.open = FALSE
      BY <2>3, <3>1
    <3> QED
      BY <3>1, <3>2, Zenon
  <2>4. Closed(d) = c
    <3>1. ASSUME NEW w \in BOOLEAN PROVE [x EXCEPT !.open = w] = [line |-> x.line, open |-> w]
      <4>1. x \in Dues
        BY <2>1
      <4> HIDE DEF x
      <4> QED
        BY <4>1 DEF Dues
    <3>2. [x EXCEPT !.open = FALSE] = y
      BY <3>1, Zenon
    <3>3. Closed(d) = [d EXCEPT ![n] = [x EXCEPT !.open = FALSE]]
      BY <1>2, Zenon DEF Closed
    <3> QED
      BY <3>2, <3>3, Zenon
  <2> HIDE DEF x, y
  <2>5. c \in Seq(Dues) /\ Len(c) = n /\ c[n] = y /\ \A i \in 1 .. n : i # n => c[i] = d[i]
    BY <2>1, <2>2, ExceptElements
  <2> HIDE DEF c
  <2>6. \A i \in 1 .. n : c[i].line = d[i].line
    BY <2>2, <2>5 DEF x
  <2>7. ASSUME ~(d # <<>> /\ Last(d).open) PROVE c = d
    <3>1. y = x
      BY <1>2, <2>3, <2>7 DEF Last, x
    <3>2. \A i \in 1 .. n : c[i] = d[i]
      BY <2>5, <3>1 DEF x
    <3> QED
      BY <2>5, <3>2, SeqEqual
  <2>8. ~(c # <<>> /\ Last(c).open)
    BY <2>2, <2>5 DEF Last
  <2> QED
    BY <2>4, <2>5, <2>6, <2>7, <2>8
<1> QED
  BY <1>1, <1>2

\* A statement of the program: one more event, and a line more if it is of the
\* region.
Takes(on, count, d, e, newOn, newCount, open, f) ==
  /\ newOn = IF e.on THEN Enables(e, Tallied(on, count, Len(d))) ELSE on
  /\ newCount = IF e.on /\ e.addr \in Begins THEN count + 1 ELSE count
  /\ LineOf(e) \in Lines
  /\ f = IF e.on /\ newOn THEN Append(Closed(d), [line |-> LineOf(e), open |-> open]) ELSE Closed(d)
More(p, s, on, count, e, open, f) ==
  /\ Owed(Append(p, e), s, Tallied(on, count, Len(f)), f) /\ f \in Seq(Dues)
  /\ (f # <<>> /\ Last(f).open) <=> (e.on /\ on /\ open)
LEMMA OwedMore ==
  ASSUME NEW p \in Seq(Events), NEW s, NEW on \in BOOLEAN, NEW count \in Nat, NEW d \in Seq(Dues),
         Owed(p, s, Tallied(on, count, Len(d)), d), NEW e \in Events, NEW newOn, NEW newCount,
         NEW open \in BOOLEAN, NEW f,
         Takes(on, count, d, e, newOn, newCount, open, f)
  PROVE  More(p, s, newOn, newCount, e, open, f)
<1> DEFINE t == Tallied(on, count, Len(d))
           u == After(e, t)
           l == [line |-> LineOf(e), open |-> open]
<1>0. /\ newOn = IF e.on THEN Enables(e, t) ELSE on
      /\ newCount = IF e.on /\ e.addr \in Begins THEN count + 1 ELSE count
      /\ LineOf(e) \in Lines
      /\ f = IF e.on /\ newOn THEN Append(Closed(d), l) ELSE Closed(d)
  BY Zenon DEF Takes
<1>1. /\ Closed(d) \in Seq(Dues) /\ Len(Closed(d)) = Len(d) /\ Len(d) \in Nat
      /\ \A i \in 1 .. Len(d) : Closed(d)[i].line = d[i].line
      /\ ~(Closed(d) # <<>> /\ Last(Closed(d)).open)
  BY ClosedFacts
<1>2. t.on = on /\ t.count = count /\ t.paid = Len(d)
  BY DEF Tallied
<1>3. l \in Dues /\ l.line = LineOf(e) /\ l.open = open
  BY <1>0 DEF Dues
<1>4. u = Tallied(newOn, newCount, IF e.on /\ newOn THEN Len(d) + 1 ELSE Len(d))
  <2>1. CASE e.on
    <3>1. u = [on |-> Enables(e, t), count |-> IF e.addr \in Begins THEN t.count + 1 ELSE t.count,
               paid |-> IF Enables(e, t) THEN t.paid + 1 ELSE t.paid]
      BY <2>1, Zenon DEF After
    <3>2. Enables(e, t) = newOn
      BY <1>0, <2>1
    <3> HIDE DEF t, u
    <3> QED
      BY <1>0, <1>2, <2>1, <3>1, <3>2 DEF Tallied
  <2>2. CASE ~e.on
    <3>1. u = t
      BY <2>2, Zenon DEF After
    <3> HIDE DEF u
    <3> QED
      BY <1>0, <2>2, <3>1
  <2> QED
    BY <2>1, <2>2
<1> HIDE DEF l, u
<1>5. /\ f \in Seq(Dues) /\ Len(f) = IF e.on /\ newOn THEN Len(d) + 1 ELSE Len(d)
      /\ \A i \in 1 .. Len(d) : f[i].line = d[i].line
      /\ e.on /\ newOn => f[Len(d) + 1] = l
  <2>1. CASE e.on /\ newOn
    <3>1. f = Append(Closed(d), l)
      BY <1>0, <2>1
    <3> QED
      BY <1>1, <1>3, <2>1, <3>1, AppendElements
  <2>2. CASE ~(e.on /\ newOn)
    BY <1>0, <1>1, <2>2
  <2> QED
    BY <2>1, <2>2
<1>6. u = Tallied(newOn, newCount, Len(f)) /\ u.paid = Len(f)
  <2>1. u = Tallied(newOn, newCount, Len(f))
    BY <1>4, <1>5
  <2> QED
    BY <2>1 DEF Tallied
<1>7. u.paid # t.paid => f[u.paid].line = LineOf(e)
  BY <1>1, <1>2, <1>3, <1>5, <1>6
<1>8. \A i \in 1 .. t.paid : f[i].line = d[i].line
  BY <1>2, <1>5
<1>9. Owed(Append(p, e), s, u, f)
  <2>1. Owed(p, s, t, d)
    OBVIOUS
  <2>2. u = After(e, t)
    BY DEF u
  <2> HIDE DEF t
  <2>3. After(e, t).paid # t.paid => f[After(e, t).paid].line = LineOf(e)
    BY <1>7, <2>2, Zenon
  <2>4. Owed(Append(p, e), s, After(e, t), f)
    <3>1. \A g : /\ \A i \in 1 .. t.paid : g[i].line = d[i].line
                 /\ After(e, t).paid # t.paid => g[After(e, t).paid].line = LineOf(e)
                 => Owed(Append(p, e), s, After(e, t), g)
      BY <2>1, OwedAppend
    <3> QED
      BY <1>8, <2>3, <3>1, Zenon
  <2> QED
    BY <2>2, <2>4, Zenon
<1>10. (f # <<>> /\ Last(f).open) <=> (e.on /\ newOn /\ open)
  <2>1. CASE e.on /\ newOn
    <3>1. Len(f) = Len(d) + 1 /\ f[Len(d) + 1] = l
      BY <1>5, <2>1
    <3>2. f # <<>> /\ Last(f) = l
      <4>1. f # <<>>
        <5>1. Len(f) \in Nat \ {0} /\ f \in Seq(Dues)
          BY <1>1, <1>5, <3>1
        <5> QED
          BY <5>1
      <4> QED
        BY <3>1, <4>1, Zenon DEF Last
    <3> QED
      BY <1>3, <2>1, <3>2
  <2>2. CASE ~(e.on /\ newOn)
    <3>1. f = Closed(d)
      BY <1>0, <2>2
    <3> QED
      BY <1>1, <2>2, <3>1
  <2> QED
    BY <2>1, <2>2
<1> QED
  BY <1>5, <1>6, <1>9, <1>10 DEF More

\* An item of the block that runs.
Here(z) ==
  /\ z \in States /\ Matches(z)
  /\ events = <<>> /\ Head(out) \in Items /\ Tail(out) \in Seq(Items)
  /\ Follows(z, Head(out)) /\ Flows(z, Head(out)) \in States
  /\ Leads(Tail(out), Flows(z, Head(out)), Empty)

LEMMA Running ==
  ASSUME TypeOK, LogInv, loc = "run", out # <<>>
  PROVE  \E z \in States : Here(z)
<1>1. PICK z \in States : Matches(z) /\ events = <<>>
  BY DEF LogInv
<1>2. Leads(out, z, Empty) /\ out \in Seq(Items)
  BY <1>1 DEF Matches, Empty, TypeOK
<1>3. Head(out) \in Items /\ Tail(out) \in Seq(Items)
  BY <1>2, TailElements
<1>4. /\ Follows(z, Head(out)) /\ Flows(z, Head(out)) \in States
      /\ Leads(Tail(out), Flows(z, Head(out)), Empty)
  BY <1>2, LeadsHead
<1> QED
  BY <1>1, <1>3, <1>4 DEF Here

LEMMA Continues ==
  ASSUME loc' = "run", events' = <<>>, NEW w \in States, Leads(out', w, Empty),
         Debt(w)', Joined(w)', Pointing(w)'
  PROVE  LogInv'
<1>1. Leads(out', w, Waiting(events'))
  BY DEF Empty
<1>2. Matches(w)'
  BY <1>1 DEF Matches
<1> QED
  BY <1>2 DEF LogInv

\* One statement, whose event becomes pending.
LEMMA Adds ==
  ASSUME TypeOK, NEW z, Here(z), loc' = "run", out' = Tail(out), UNCHANGED <<events, enabled, cindice>>,
         NEW tag \in {"mark", "load", "loadG", "store", "storeG", "sc", "modify"}, Head(out).tag = tag,
         tag \in {"store", "sc"} => ~Modifies(z.pending, Head(out)), early' = early,
         NEW e, e = Event(KindOf(tag), Head(out)),
         NEW open \in BOOLEAN, open = (e.kind = "read" /\ ~e.guarded),
         region' \in BOOLEAN,
         region' = IF e.on THEN Enables(e, Tallied(region, executions, Len(due))) ELSE region,
         executions' = IF e.on /\ e.addr \in Begins THEN executions + 1 ELSE executions,
         due' = IF e.on /\ region' THEN Append(Closed(due), [line |-> LineOf(e), open |-> open]) ELSE Closed(due)
  PROVE  LogInv' /\ due' \in Seq(Dues)
<1> DEFINE x == Head(out)
           p == z.pending
           s == Tallied(enabled, cindice, 0)
<1>1. /\ x \in Items /\ z.pending \in Seq(Events) /\ z.ahead = None /\ events = <<>>
      /\ Flows(z, x) = Waiting(Append(p, e)) /\ Leads(Tail(out), Flows(z, x), Empty) /\ Matches(z)
  BY DEF Here, Follows, Flows, States
<1>2. x \in PlainStatement /\ e \in Events /\ e.kind = KindOf(tag) /\ e.addr = x.addr /\ KindOf(tag) \in Kinds
  BY <1>1, ItemFacts, StatementEvent DEF KindOf, Kinds
<1>3. LineOf(e) \in Lines
  BY <1>2 DEF LineOf, Letter, Lines, Events
<1>4. Owed(p, s, Tallied(region, executions, Len(due)), due) /\ early = <<>>
  BY <1>1 DEF Matches, Debt, Pointing
<1>5. /\ region \in BOOLEAN /\ executions \in Nat /\ due \in Seq(Dues)
  BY DEF TypeOK
<1> HIDE DEF s
<1>6. /\ Owed(Append(p, e), s, Tallied(region', executions', Len(due')), due') /\ due' \in Seq(Dues)
      /\ (due' # <<>> /\ Last(due').open) <=> (e.on /\ region' /\ open)
  <2>1. p \in Seq(Events) /\ e \in Events /\ LineOf(e) \in Lines
    BY <1>1, <1>2, <1>3
  <2> HIDE DEF p
  <2>2. Takes(region, executions, due, e, region', executions', open, due')
    BY <2>1, Zenon DEF Takes
  <2>3. More(p, s, region', executions', e, open, due')
    <3>1. \A o, c, f : Takes(region, executions, due, e, o, c, open, f) => More(p, s, o, c, e, open, f)
      BY <1>4, <1>5, <2>1, OwedMore
    <3> QED
      BY <2>2, <3>1, Zenon
  <2> QED
    BY <2>3 DEF More
<1>7. PICK w : w = Waiting(Append(p, e))
  OBVIOUS
<1>8. w \in States /\ w.pending = Append(p, e) /\ w.ahead = None /\ Append(p, e) # <<>> /\ Last(Append(p, e)) = e
  BY <1>1, <1>2, <1>7, WaitingStates, LastReplaced
<1>9. Debt(w)'
  <2>1. Tallied(enabled', cindice', 0) = s
    BY DEF s
  <2> QED
    BY <1>6, <1>8, <2>1 DEF Debt
<1>10. Joined(w)'
  <2>1. open => e.on
    BY <1>2 DEF Events
  <2>2. Unguarded(Append(p, e)) <=> open
    BY <1>8 DEF Unguarded
  <2>3. (due' # <<>> /\ Last(due').open) <=> (region' /\ Unguarded(w.pending))
    BY <1>6, <1>8, <2>1, <2>2
  <2> QED
    BY <2>3 DEF Joined
<1>11. Pointing(w)'
  BY <1>4, <1>8 DEF Pointing
<1>12. Leads(out', w, Empty) /\ events' = <<>>
  BY <1>1, <1>7
<1> QED
  BY <1>6, <1>8, <1>9, <1>10, <1>11, <1>12, Continues

\* A line expected when none is early.
LEMMA Expected ==
  ASSUME NEW line, NEW open, early = <<>>
  PROVE  Expect(line, open) =>
           due' = Append(Closed(due), [line |-> line, open |-> open]) /\ early' = early
BY DEF Expect

\* Nothing is open outside of the region.
LEMMA NothingOpen ==
  ASSUME TypeOK, NEW z, Matches(z), ~region
  PROVE  Closed(due) = due
BY ClosedFacts DEF TypeOK, Matches, Joined

LEMMA MarkStep ==
  ASSUME TypeOK, LogInv, Mark
  PROVE  LogInv' /\ due' \in Seq(Dues) /\ region' \in BOOLEAN /\ executions' \in Nat
<1> DEFINE x == Head(out)
           e == Event("instr", x)
<1>1. /\ loc = "run" /\ loc' = "run" /\ out # <<>> /\ out' = Tail(out) /\ x.tag = "mark"
      /\ UNCHANGED <<events, enabled, cindice>>
  BY DEF Mark, Performs, tool
<1>2. PICK z \in States : Here(z)
  BY <1>1, Running
<1>3. z.ahead = None /\ x \in Items
  BY <1>1, <1>2 DEF Here, Follows
<1>4. early = <<>>
  BY <1>2, <1>3 DEF Here, Matches, Pointing
<1>5. x \in PlainStatement /\ Reported(x)
  BY <1>1, <1>3, ItemFacts DEF Guarded
<1>6. e \in Events /\ e.kind = "instr" /\ e.addr = x.addr /\ e.on = Reported(x)
  BY <1>1, <1>5, StatementEvent DEF Kinds
<1>7. region' = Enables(e, Tallied(region, executions, Len(due)))
  BY <1>6 DEF Mark, Enables, Tallied
<1>8. region' \in BOOLEAN
  BY <1>7 DEF Enables, Tallied, Listed, in_list, TypeOK
<1>9. executions' = (IF e.on /\ e.addr \in Begins THEN executions + 1 ELSE executions) /\ executions' \in Nat
  BY <1>5, <1>6 DEF Mark, TypeOK
<1>10. LineOf(e) = <<"I", x.addr>>
  BY <1>6 DEF LineOf, Letter
<1> HIDE DEF e
<1>11. /\ due' = IF region' THEN Append(Closed(due), [line |-> LineOf(e), open |-> FALSE]) ELSE Closed(due)
       /\ early' = early
  <2>1. CASE region'
    BY <1>4, <1>10, <2>1, Expected DEF Mark
  <2>2. CASE ~region'
    BY <2>2 DEF Mark
  <2> QED
    BY <2>1, <2>2
<1>12. FALSE = (e.kind = "read" /\ ~e.guarded) /\ FALSE \in BOOLEAN
  BY <1>6
<1>13. e = Event(KindOf("mark"), x)
  BY DEF KindOf, e
<1>14. LogInv' /\ due' \in Seq(Dues)
  BY <1>1, <1>2, <1>5, <1>6, <1>7, <1>8, <1>9, <1>11, <1>12, <1>13, Adds
<1> QED
  BY <1>8, <1>9, <1>14

\* An access of data: it changes neither the region nor its executions.
LEMMA AccessAdds ==
  ASSUME TypeOK, NEW z, Here(z), loc = "run", out # <<>>, loc' = "run", out' = Tail(out),
         UNCHANGED <<events, enabled, cindice, region, executions>>,
         NEW tag \in {"load", "loadG", "store", "storeG", "sc", "modify"}, Head(out).tag = tag,
         tag \in {"store", "sc"} => ~Modifies(z.pending, Head(out)),
         NEW open \in BOOLEAN, open = (tag = "load"), NEW line,
         line = <<IF tag \in {"load", "loadG"} THEN "R" ELSE "W", Head(out).addr>>,
         IF Reported(Head(out)) THEN Expecting(line, open) ELSE due' = Closed(due) /\ UNCHANGED early
  PROVE  LogInv' /\ due' \in Seq(Dues)
<1> DEFINE x == Head(out)
           k == KindOf(tag)
           e == Event(k, x)
<1>1. z.ahead = None /\ x \in Items /\ Matches(z)
  BY DEF Here, Follows
<1>2. early = <<>>
  BY <1>1 DEF Matches, Pointing
<1>3. x \in PlainStatement /\ x.addr \in Plain /\ Reported(x) \in BOOLEAN
  BY <1>1, ItemFacts
<1>4. /\ e \in Events /\ e.kind = k /\ e.addr = x.addr /\ e.on = Reported(x) /\ k \in Kinds
      /\ e.guarded = (x.tag \in Guarded)
  BY <1>3, StatementEvent DEF Kinds, KindOf
<1>5. LineOf(e) = line
  BY <1>4 DEF LineOf, Letter, KindOf
<1>6. open = (e.kind = "read" /\ ~e.guarded)
  BY <1>4 DEF KindOf, Guarded
<1> HIDE DEF e, k
<1>7. x.addr \notin Begins /\ x.addr \notin Ends
  BY <1>3, DataFacts
<1>8. region' = (IF e.on THEN Enables(e, Tallied(region, executions, Len(due))) ELSE region) /\ region' \in BOOLEAN
  BY <1>4, <1>7 DEF Enables, Tallied, TypeOK
<1>9. executions' = IF e.on /\ e.addr \in Begins THEN executions + 1 ELSE executions
  BY <1>4, <1>7
<1>10. /\ due' = IF e.on /\ region' THEN Append(Closed(due), [line |-> LineOf(e), open |-> open]) ELSE Closed(due)
       /\ early' = early
  <2>1. CASE Reported(x) /\ region
    BY <1>2, <1>4, <1>5, <2>1, Expected DEF Expecting
  <2>2. CASE Reported(x) /\ ~region
    BY <1>1, <1>4, <2>2, NothingOpen DEF Expecting
  <2>3. CASE ~Reported(x)
    BY <1>4, <2>3
  <2> QED
    BY <1>3, <2>1, <2>2, <2>3 DEF TypeOK
<1>11. e = Event(KindOf(tag), x)
  BY DEF e, k
<1>12. tag \in {"mark", "load", "loadG", "store", "storeG", "sc", "modify"}
  OBVIOUS
<1> QED
  BY <1>6, <1>8, <1>9, <1>10, <1>11, <1>12, Adds

\* A load-linked: its event is reported already.
LEMMA LinkedStep ==
  ASSUME TypeOK, LogInv, Read, Head(out).tag = "ll"
  PROVE  LogInv' /\ due' \in Seq(Dues)
<1> DEFINE x == Head(out)
<1>1. /\ loc = "run" /\ loc' = "run" /\ out # <<>> /\ out' = Tail(out)
      /\ UNCHANGED <<events, enabled, cindice, region, executions>>
  BY DEF Read, Performs, tool
<1>2. PICK z \in States : Here(z)
  BY <1>1, Running
<1>3. /\ z.pending = <<>> /\ z.ahead = x.addr /\ Flows(z, x) = Empty /\ x \in Items /\ Matches(z) /\ events = <<>>
      /\ Leads(Tail(out), Empty, Empty)
  BY <1>2 DEF Here, Follows, Flows
<1>4. x.addr \in Plain /\ Reported(x) /\ x.on /\ x.addr # None
  BY <1>3, ItemFacts, DataFacts DEF Guarded
<1>5. /\ early = (IF region THEN << <<"R", x.addr>> >> ELSE <<>>)
      /\ Tallied(enabled, cindice, 0) = Tallied(region, executions, Len(due))
  BY <1>3, <1>4, OwedNothing DEF Matches, Pointing, Debt
<1>6. due = <<>> /\ enabled = region /\ cindice = executions
  BY <1>5 DEF Tallied, TypeOK
<1>7. due' = <<>> /\ early' = <<>>
  <2>1. CASE region
    <3>1. early = << <<"R", x.addr>> >>
      BY <1>5, <2>1
    <3>2. early # <<>> /\ Head(early) = <<"R", x.addr>> /\ Tail(early) = <<>>
      BY <3>1
    <3>3. Expect(<<"R", x.addr>>, FALSE)
      BY <1>4, <2>1 DEF Read, Expecting
    <3> QED
      BY <1>6, <3>2, <3>3 DEF Expect, Closed
  <2>2. CASE ~region
    BY <1>4, <1>5, <1>6, <2>2 DEF Read, Expecting
  <2> QED
    BY <2>1, <2>2
<1>8. PICK w : w = Empty
  OBVIOUS
<1>9. w \in States /\ w.pending = <<>> /\ w.ahead = None
  <2>1. <<>> \in Seq(Events)
    OBVIOUS
  <2> QED
    BY <1>8, <2>1, WaitingStates DEF Empty
<1>10. Debt(w)'
  <2>1. Tallied(enabled', cindice', 0) = Tallied(region', executions', Len(due'))
    BY <1>1, <1>6, <1>7
  <2>2. Tallied(enabled', cindice', 0) \in Tallies
    BY <1>1 DEF TypeOK, Tallied, Tallies
  <2> QED
    BY <1>9, <2>1, <2>2, OwedNothing DEF Debt
<1>11. Joined(w)' /\ Pointing(w)'
  BY <1>7, <1>9 DEF Joined, Pointing, Unguarded
<1>12. LogInv'
  BY <1>1, <1>3, <1>8, <1>9, <1>10, <1>11, Continues
<1> QED
  BY <1>7, <1>12

LEMMA ReadStep ==
  ASSUME TypeOK, LogInv, Read
  PROVE  LogInv' /\ due' \in Seq(Dues)
<1> DEFINE x == Head(out)
<1>1. /\ loc = "run" /\ loc' = "run" /\ out # <<>> /\ out' = Tail(out)
      /\ UNCHANGED <<events, enabled, cindice, region, executions>>
  BY DEF Read, Performs, tool
<1>2. PICK z \in States : Here(z)
  BY <1>1, Running
<1>3. CASE x.tag \in {"load", "loadG"}
  <2>1. PICK tag \in {"load", "loadG"} : x.tag = tag
    BY <1>3
  <2>2. PICK open \in BOOLEAN : open = (tag = "load")
    OBVIOUS
  <2>3. PICK line : line = <<"R", x.addr>>
    OBVIOUS
  <2>4. IF Reported(x) THEN Expecting(line, open) ELSE due' = Closed(due) /\ UNCHANGED early
    BY <2>1, <2>2, <2>3 DEF Read
  <2> QED
    BY <1>1, <1>2, <2>1, <2>2, <2>3, <2>4, AccessAdds
<1>4. CASE x.tag = "ll"
  BY <1>4, LinkedStep
<1> QED
  BY <1>3, <1>4 DEF Read

\* A write after a read of the same place: they become one modification.
LEMMA ModifiesStep ==
  ASSUME TypeOK, LogInv, Write, Head(out).tag \in {"store", "sc"},
         NEW z \in States, Here(z), Modifies(z.pending, Head(out))
  PROVE  LogInv' /\ due' \in Seq(Dues)
<1> DEFINE x == Head(out)
           p == z.pending
           q == [p EXCEPT ![Len(p)].kind = "modify"]
           s == Tallied(enabled, cindice, 0)
           t == Tallied(region, executions, Len(due))
           W == [line |-> <<"W", x.addr>>, open |-> FALSE]
<1>1. /\ loc = "run" /\ loc' = "run" /\ out # <<>> /\ out' = Tail(out)
      /\ UNCHANGED <<events, enabled, cindice, region, executions>>
  BY DEF Write, Performs, tool
<1>2. /\ Flows(z, x) = Waiting(q) /\ x \in Items /\ Matches(z) /\ events = <<>> /\ z.ahead = None
      /\ Leads(Tail(out), Waiting(q), Empty) /\ p \in Seq(Events)
  BY DEF Here, Follows, Flows, States
<1>3. /\ early = <<>> /\ Owed(p, s, t, due) /\ ((due # <<>> /\ Last(due).open) <=> (region /\ Unguarded(p)))
  BY <1>2 DEF Matches, Pointing, Debt, Joined
<1>4. Reported(x) /\ x.on \in BOOLEAN /\ x.addr \in Plain
  BY <1>2, ItemFacts DEF Guarded
<1>5. /\ p # <<>> /\ Last(p) \in Events /\ Last(p).kind = "read" /\ Last(p).addr = x.addr /\ Last(p).on
      /\ Unguarded(p) /\ Len(p) \in 1 .. Len(p)
  <2>1. p # <<>> /\ Last(p).kind = "read" /\ ~Last(p).guarded /\ Last(p).addr = x.addr /\ Unguarded(p)
    BY DEF Modifies, Unguarded
  <2>2. Last(p) \in Events /\ Len(p) \in 1 .. Len(p)
    BY <1>2, <2>1 DEF Last
  <2> QED
    BY <2>1, <2>2 DEF Events
<1>6. t.paid = Len(due) /\ t.on = region /\ Len(due) \in Nat /\ due \in Seq(Dues)
  BY DEF Tallied, TypeOK
<1>7. q \in Seq(Events) /\ Last(q).kind = "modify"
  <2>1. q \in Seq(Events)
    BY <1>2, <1>5, LastModified
  <2>2. Len(q) = Len(p) /\ q[Len(p)].kind = "modify"
    BY <1>2, <1>5 DEF Events
  <2> QED
    BY <2>1, <2>2 DEF Last
<1>8. W \in Dues /\ W.line = <<"W", x.addr>> /\ ~W.open
  BY <1>4, DataFacts DEF Dues, Lines
<1> HIDE DEF W
<1>9. ASSUME region
      PROVE  /\ due' = [due EXCEPT ![Len(due)] = W] /\ early' = early
             /\ Len(due) \in 1 .. Len(due)
  <2>1. due # <<>> /\ Last(due).open
    BY <1>3, <1>5, <1>9
  <2>2. due[Len(due)].line = LineOf(Last(p))
    <3> HIDE DEF p, s, t
    <3>1. LastDue(p, s, t, due)
      BY <1>2, <1>3, <1>5, <1>6, <1>9, OwedLast
    <3> QED
      BY <1>6, <3>1 DEF LastDue
  <2>3. Last(due) \in Dues /\ Len(due) \in 1 .. Len(due)
    BY <1>6, <2>1 DEF Last
  <2>4. LineOf(Last(p)) = <<"R", x.addr>>
    BY <1>5 DEF LineOf, Letter
  <2>5. Last(due).line = <<"R", x.addr>>
    BY <2>2, <2>4 DEF Last
  <2>6. due' = [due EXCEPT ![Len(due)] = W] /\ UNCHANGED early
    BY <1>4, <2>1, <2>5, Zenon DEF Write, W
  <2> QED
    BY <2>3, <2>6
<1>10. ASSUME ~region PROVE due' = due /\ early' = early
  <2>1. ~(due # <<>> /\ Last(due).line = <<"R", x.addr>> /\ Last(due).open)
    BY <1>3, <1>10
  <2> QED
    BY <1>4, <1>10, <2>1, Zenon DEF Write, Expecting
<1>11. /\ due' \in Seq(Dues) /\ Len(due') = Len(due) /\ early' = <<>>
       /\ \A i \in 1 .. t.paid - 1 : due'[i].line = due[i].line
       /\ t.on => due'[t.paid].line = <<"W", Last(p).addr>>
       /\ ~t.on => \A i \in 1 .. t.paid : due'[i].line = due[i].line
       /\ ~(due' # <<>> /\ Last(due').open)
  <2>1. CASE region
    <3>1. /\ due' \in Seq(Dues) /\ Len(due') = Len(due) /\ due'[Len(due)] = W
          /\ \A i \in 1 .. Len(due) : i # Len(due) => due'[i] = due[i]
      BY <1>6, <1>8, <1>9, <2>1, ExceptElements
    <3>2. \A i \in 1 .. Len(due) - 1 : i \in 1 .. Len(due) /\ i # Len(due)
      BY <1>6
    <3> QED
      BY <1>3, <1>5, <1>6, <1>8, <1>9, <2>1, <3>1, <3>2 DEF Last
  <2>2. CASE ~region
    BY <1>3, <1>6, <1>10, <2>2
  <2> QED
    BY <2>1, <2>2
<1> HIDE DEF q, s, t
<1>12. Owed(q, s, t, due')
  BY <1>2, <1>3, <1>5, <1>11, OwedModified DEF q
<1>13. PICK w : w = Waiting(q)
  OBVIOUS
<1>14. w \in States /\ w.pending = q /\ w.ahead = None
  BY <1>7, <1>13, WaitingStates
<1>15. Debt(w)'
  <2>1. s = Tallied(enabled', cindice', 0) /\ t = Tallied(region', executions', Len(due'))
    BY <1>1, <1>11 DEF s, t
  <2> QED
    BY <1>12, <1>14, <2>1 DEF Debt
<1>16. Joined(w)' /\ Pointing(w)'
  BY <1>7, <1>11, <1>14 DEF Joined, Pointing, Unguarded
<1>17. LogInv'
  BY <1>1, <1>2, <1>13, <1>14, <1>15, <1>16, Continues
<1> QED
  BY <1>11, <1>17

LEMMA WriteStep ==
  ASSUME TypeOK, LogInv, Write
  PROVE  LogInv' /\ due' \in Seq(Dues)
<1> DEFINE x == Head(out)
<1>1. /\ loc = "run" /\ loc' = "run" /\ out # <<>> /\ out' = Tail(out)
      /\ UNCHANGED <<events, enabled, cindice, region, executions>>
  BY DEF Write, Performs, tool
<1>2. PICK z \in States : Here(z)
  BY <1>1, Running
<1>3. CASE x.tag \in {"store", "sc"} /\ Modifies(z.pending, x)
  BY <1>2, <1>3, ModifiesStep
<1>4. CASE ~(x.tag \in {"store", "sc"} /\ Modifies(z.pending, x))
  <2>1. PICK tag \in {"store", "storeG", "sc", "modify"} : x.tag = tag
    BY DEF Write
  <2>2. /\ x.tag \in {"store", "sc"}
        => ~(due # <<>> /\ Last(due).line = <<"R", x.addr>> /\ Last(due).open)
    <3>1. SUFFICES ASSUME x.tag \in {"store", "sc"}, due # <<>>,
                          Last(due).line = <<"R", x.addr>>, Last(due).open
                   PROVE  FALSE
      OBVIOUS
    <3>2. /\ region /\ Unguarded(z.pending) /\ z.pending \in Seq(Events)
          /\ Owed(z.pending, Tallied(enabled, cindice, 0), Tallied(region, executions, Len(due)), due)
      BY <1>2, <3>1 DEF Here, Matches, Joined, States, Debt
    <3> DEFINE p == z.pending
               t == Tallied(region, executions, Len(due))
    <3>3. p # <<>> /\ Last(p).kind = "read" /\ ~Last(p).guarded /\ Last(p) \in Events /\ t.on /\ t.paid = Len(due)
      BY <3>2 DEF Unguarded, Last, Tallied
    <3>4. Last(p).on
      BY <3>3 DEF Events
    <3>5. due[Len(due)].line = LineOf(Last(p))
      <4> HIDE DEF p, t
      <4>1. LastDue(p, Tallied(enabled, cindice, 0), t, due)
        BY <3>2, <3>3, <3>4, OwedLast DEF p, t
      <4> QED
        BY <3>3, <4>1 DEF LastDue
    <3>6. LineOf(Last(p))[2] = x.addr
      BY <3>1, <3>5 DEF Last
    <3>7. Last(p).addr = x.addr
      BY <3>6 DEF LineOf
    <3> QED
      BY <1>4, <3>1, <3>2, <3>7 DEF Modifies
  <2>3. PICK line : line = <<"W", x.addr>>
    OBVIOUS
  <2>4. IF Reported(x) THEN Expecting(line, FALSE) ELSE due' = Closed(due) /\ UNCHANGED early
    BY <2>1, <2>2, <2>3 DEF Write
  <2>5. /\ FALSE = (tag = "load") /\ FALSE \in BOOLEAN
        /\ line = <<IF tag \in {"load", "loadG"} THEN "R" ELSE "W", x.addr>>
        /\ tag \in {"load", "loadG", "store", "storeG", "sc", "modify"}
        /\ tag \in {"store", "sc"} => ~Modifies(z.pending, x)
    BY <1>4, <2>1, <2>3
  <2> QED
    BY <1>1, <1>2, <2>1, <2>4, <2>5, AccessAdds
<1> QED
  BY <1>3, <1>4

LEMMA ExitStep ==
  ASSUME TypeOK, LogInv, Exit
  PROVE  LogInv' /\ due' \in Seq(Dues)
<1> DEFINE x == Head(out)
<1>1. /\ loc = "run" /\ loc' = "run" /\ out # <<>> /\ x.tag = "exit" /\ out' \in {Tail(out), <<>>}
      /\ UNCHANGED <<events, enabled, cindice, region, executions, early>> /\ due' = Closed(due)
  BY DEF Exit, tool
<1>2. PICK z \in States : Here(z)
  BY <1>1, Running
<1>3. z = Empty /\ Flows(z, x) = Empty /\ Matches(z) /\ events = <<>> /\ Leads(Tail(out), Empty, Empty)
  BY <1>1, <1>2 DEF Here, Follows, Flows
<1>4. z.pending = <<>> /\ z.ahead = None
  BY <1>3 DEF Empty, Waiting
<1>5. early = <<>> /\ Tallied(enabled, cindice, 0) = Tallied(region, executions, Len(due))
  BY <1>3, <1>4, OwedNothing DEF Matches, Pointing, Debt
<1>6. due = <<>>
  BY <1>5 DEF Tallied, TypeOK
<1>7. due' = <<>>
  BY <1>1, <1>6 DEF Closed
<1>8. Leads(out', z, Empty)
  BY <1>1, <1>2, <1>3, LeadsNowhere
<1>9. Debt(z)' /\ Joined(z)' /\ Pointing(z)'
  BY <1>1, <1>3, <1>4, <1>5, <1>6, <1>7 DEF Matches, Debt, Joined, Pointing
<1>10. LogInv'
  BY <1>1, <1>2, <1>3, <1>8, <1>9, Continues
<1> QED
  BY <1>7, <1>10

LEMMA BlockDoneStep ==
  ASSUME TypeOK, LogInv, BlockDone
  PROVE  LogInv' /\ due' \in Seq(Dues)
<1>1. /\ loc = "run" /\ loc' = "translate" /\ out = <<>>
      /\ UNCHANGED <<events, out, enabled, cindice, region, executions, early>> /\ due' = Closed(due)
  BY DEF BlockDone, tool
<1>2. PICK z \in States : Matches(z) /\ events = <<>>
  BY <1>1 DEF LogInv
<1>3. z = Empty
  BY <1>1, <1>2, LeadsNowhere DEF Matches, Empty
<1>4. z.pending = <<>> /\ z.ahead = None
  BY <1>3 DEF Empty, Waiting
<1>5. early = <<>> /\ Tallied(enabled, cindice, 0) = Tallied(region, executions, Len(due))
  BY <1>2, <1>4, OwedNothing DEF Matches, Pointing, Debt
<1>6. due = <<>>
  BY <1>5 DEF Tallied, TypeOK
<1>7. due' = due
  BY <1>1, <1>6 DEF Closed
<1>8. Matches(z)'
  BY <1>1, <1>2, <1>7 DEF Matches, Debt, Joined, Pointing
<1>9. LogInv'
  BY <1>1, <1>3, <1>8 DEF LogInv
<1> QED
  BY <1>7, <1>9 DEF TypeOK

\* Translation: nothing is pending, and the block leads to the queue.
LEMMA InstrumentStep ==
  ASSUME TypeOK, LogInv, NEW s \in PlainStatement, Instrument(s)
  PROVE  LogInv' /\ events' \in Seq(Events) /\ out' \in Seq(Items)
<1> DEFINE q == [events |-> events, out |-> out]
           r == Translate(q, s)
<1>1. /\ loc = "translate" /\ loc' = loc /\ events' = r.events /\ out' = r.out
      /\ UNCHANGED <<enabled, cindice, due, region, executions, early>>
  BY DEF Instrument, tool, history
<1>2. Matches(Empty) /\ q \in Queues /\ q.events = events /\ q.out = out
  BY <1>1 DEF LogInv, Queues, TypeOK
<1> HIDE DEF q
<1>3. Leads(q.out, Empty, Waiting(q.events))
  BY <1>2 DEF Matches
<1>4. Translated(r, Empty)
  BY <1>2, <1>3, TranslateLeads
<1> HIDE DEF r
<1>5. events' \in Seq(Events) /\ out' \in Seq(Items) /\ Leads(out', Empty, Waiting(events'))
  BY <1>1, <1>4 DEF Translated, Queues
<1>6. PICK z : z = Empty
  OBVIOUS
<1>7. Matches(z)'
  BY <1>1, <1>2, <1>5, <1>6 DEF Matches, Debt, Joined, Pointing
<1>8. LogInv'
  BY <1>1, <1>6, <1>7 DEF LogInv
<1> QED
  BY <1>5, <1>8

LEMMA EndBlockStep ==
  ASSUME TypeOK, LogInv, EndBlock
  PROVE  LogInv' /\ events' \in Seq(Events) /\ out' \in Seq(Items)
<1> DEFINE q == [events |-> events, out |-> out]
           r == Flush(q)
<1>1. /\ loc = "translate" /\ loc' = "run" /\ events' = r.events /\ out' = r.out
      /\ UNCHANGED <<enabled, cindice, due, region, executions, early>>
  BY DEF EndBlock, tool, history
<1>2. Matches(Empty) /\ q \in Queues /\ q.events = events /\ q.out = out
  BY <1>1 DEF LogInv, Queues, TypeOK
<1> HIDE DEF q
<1>3. Leads(q.out, Empty, Waiting(q.events))
  BY <1>2 DEF Matches
<1>4. r \in Queues /\ r.events = <<>> /\ Leads(r.out, Empty, Empty)
  BY <1>2, <1>3, FlushLeads
<1> HIDE DEF r
<1>5. events' = <<>> /\ out' \in Seq(Items) /\ Leads(out', Empty, Waiting(events'))
  BY <1>1, <1>4 DEF Queues, Empty
<1>6. PICK z : z = Empty
  OBVIOUS
<1>7. Matches(z)'
  BY <1>1, <1>2, <1>5, <1>6 DEF Matches, Debt, Joined, Pointing
<1>8. LogInv'
  BY <1>1, <1>5, <1>6, <1>7, EmptyState DEF LogInv
<1> QED
  BY <1>5, <1>8

\* The call for the oldest pending event.
LEMMA PendingCall ==
  ASSUME TypeOK, NEW z, Here(z), z.pending # <<>>, loc = "run", out # <<>>, Head(out).tag = "call",
         loc' = "run", out' = Tail(out), UNCHANGED <<events, region, executions>>,
         NEW u, u = After(Head(z.pending), Tallied(enabled, cindice, 0)),
         enabled' = u.on, cindice' = u.count,
         IF u.paid = 0 THEN UNCHANGED <<due, early>>
                       ELSE Report(<<Letter(Head(out).kind), Head(out).addr>>)
  PROVE  LogInv' /\ due' \in Seq(Dues)
<1> DEFINE x == Head(out)
           p == z.pending
           e == Head(p)
           s == Tallied(enabled, cindice, 0)
           t == Tallied(region, executions, Len(due))
<1>1. /\ x = HelperCall(e) /\ Matches(z) /\ events = <<>> /\ z.ahead = None /\ p \in Seq(Events)
      /\ Flows(z, x) = Waiting(Tail(p)) /\ Leads(Tail(out), Waiting(Tail(p)), Empty)
  BY DEF Here, Follows, Flows, States
<1>2. /\ early = <<>> /\ Owed(p, s, t, due) /\ ((due # <<>> /\ Last(due).open) <=> (region /\ Unguarded(p)))
  BY <1>1 DEF Matches, Pointing, Debt, Joined
<1>3. x.kind = e.kind /\ x.addr = e.addr /\ x.on = e.on
  BY <1>1 DEF HelperCall
<1>4. due \in Seq(Dues) /\ Len(due) \in Nat /\ s.paid = 0 /\ t.paid = Len(due) /\ t.on = region
  BY DEF TypeOK, Tallied
<1> HIDE DEF p
<1>5. /\ Tail(p) \in Seq(Events) /\ Len(Tail(p)) = Len(p) - 1 /\ Len(p) \in Nat \ {0} /\ e \in Events
      /\ \A i \in 1 .. Len(p) - 1 : Tail(p)[i] = p[i + 1]
  BY <1>1, TailElements DEF p
<1>6. Unguarded(Tail(p)) <=> Tail(p) # <<>> /\ Unguarded(p)
  <2> DEFINE r == Tail(p)
  <2>0. /\ r \in Seq(Events) /\ Len(r) = Len(p) - 1 /\ p \in Seq(Events)
        /\ \A i \in 1 .. Len(p) - 1 : r[i] = p[i + 1]
    BY <1>1, <1>5
  <2> HIDE DEF r
  <2>1. CASE Len(p) = 1
    <3>1. r = <<>>
      BY <2>0, <2>1
    <3> QED
      BY <3>1 DEF Unguarded, r
  <2>2. CASE Len(p) # 1
    <3>1. r # <<>> /\ p # <<>> /\ r[Len(r)] = p[Len(p)]
      BY <1>5, <2>0, <2>2
    <3>2. Last(r) = Last(p)
      BY <3>1, Zenon DEF Last
    <3> QED
      BY <3>1, <3>2 DEF Unguarded, r
  <2> QED
    BY <2>1, <2>2
<1>7. /\ u.paid = 0 => Owed(Tail(p), u, t, due)
      /\ u.paid # 0 => /\ due # <<>> /\ due[1].line = LineOf(e)
                       /\ Owed(Tail(p), Tallied(u.on, u.count, 0), Tallied(region, executions, Len(due) - 1), Tail(due))
  <2>1. u = After(Head(p), s) /\ p # <<>>
    BY DEF p
  <2> HIDE DEF s
  <2> QED
    BY <1>1, <1>2, <1>4, <2>1, OwedHead DEF p
<1>8. u = Tallied(u.on, u.count, u.paid) /\ u.paid \in Nat
  <2>1. s \in Tallies
    BY DEF TypeOK, Tallied, Tallies
  <2>2. u \in Tallies
    BY <1>5, <2>1, AfterTallies DEF p
  <2> QED
    BY <2>2 DEF Tallies, Tallied
<1>9. PICK w : w = Waiting(Tail(p))
  OBVIOUS
<1>10. w \in States /\ w.pending = Tail(p) /\ w.ahead = None
  BY <1>5, <1>9, WaitingStates
<1>11. Leads(out', w, Empty) /\ events' = <<>>
  BY <1>1, <1>9 DEF p
<1>12. CASE u.paid = 0
  <2>1. due' = due /\ early' = <<>>
    BY <1>2, <1>12
  <2>2. Owed(Tail(p), Tallied(u.on, u.count, 0), t, due)
    BY <1>7, <1>8, <1>12
  <2>3. Debt(w)'
    BY <1>10, <2>1, <2>2 DEF Debt
  <2>4. Tail(p) = <<>> => due = <<>>
    <3>1. ASSUME Tail(p) = <<>> PROVE Len(due) = 0
      <4>1. u = t
        <5>1. Owed(<<>>, u, t, due)
          BY <1>7, <1>12, <3>1, Zenon
        <5> QED
          BY <5>1, OwedNothing
      <4> QED
        BY <1>4, <1>12, <4>1
    <3> QED
      BY <1>4, <3>1
  <2>5. Joined(w)'
    <3>1. (due # <<>> /\ Last(due).open) <=> (region /\ Unguarded(Tail(p)))
      BY <1>2, <1>6, <2>4
    <3> QED
      BY <1>10, <2>1, <3>1 DEF Joined
  <2>6. Pointing(w)'
    BY <1>10, <2>1 DEF Pointing
  <2> QED
    BY <1>4, <1>10, <1>11, <2>1, <2>3, <2>5, <2>6, Continues
<1>13. CASE u.paid # 0
  <2>1. /\ due # <<>> /\ Head(due).line = <<Letter(x.kind), x.addr>>
        /\ Owed(Tail(p), Tallied(u.on, u.count, 0), Tallied(region, executions, Len(due) - 1), Tail(due))
    <3>1. due # <<>> /\ due[1].line = LineOf(e) /\ Head(due) = due[1]
      BY <1>4, <1>7, <1>13
    <3>2. LineOf(e) = <<Letter(x.kind), x.addr>>
      BY <1>3 DEF LineOf
    <3> QED
      BY <1>7, <1>13, <3>1, <3>2
  <2>2. due' = Tail(due) /\ early' = <<>>
    BY <1>2, <1>13, <2>1, Zenon DEF Report
  <2>3. /\ due' \in Seq(Dues) /\ Len(due') = Len(due) - 1 /\ Len(due) \in Nat \ {0}
        /\ \A i \in 1 .. Len(due) - 1 : due'[i] = due[i + 1]
    BY <1>4, <2>1, <2>2, TailElements
  <2>4. Debt(w)'
    BY <1>10, <2>1, <2>2, <2>3 DEF Debt
  <2>5. due' # <<>> => Last(due') = Last(due)
    BY <2>3 DEF Last
  <2>6. Tail(p) = <<>> => due' = <<>>
    <3>1. ASSUME Tail(p) = <<>> PROVE Len(due') = 0 /\ due' \in Seq(Dues)
      <4>1. Tallied(u.on, u.count, 0) = Tallied(region, executions, Len(due) - 1)
        <5>1. Owed(<<>>, Tallied(u.on, u.count, 0), Tallied(region, executions, Len(due) - 1), Tail(due))
          BY <2>1, <3>1, Zenon
        <5> QED
          BY <5>1, OwedNothing
      <4> QED
        BY <2>3, <4>1 DEF Tallied
    <3> QED
      <4>1. \A v \in Seq(Dues) : Len(v) = 0 => v = <<>>
        OBVIOUS
      <4> QED
        BY <3>1, <4>1
  <2>7. region /\ Unguarded(Tail(p)) => due' # <<>>
    <3>1. SUFFICES ASSUME region, Unguarded(Tail(p)) PROVE due' # <<>>
      OBVIOUS
    <3>2. Tail(p) # <<>> /\ Unguarded(p) /\ p # <<>>
      BY <1>6, <3>1 DEF Unguarded
    <3>3. Len(p) > 1
      BY <1>5, <3>2
    <3>4. Last(p).on
      <4>1. Last(p) \in Events
        BY <1>1, <3>2 DEF Last, p
      <4> QED
        BY <3>2, <4>1 DEF Unguarded, Events
    <3>5. t.on
      BY <1>4, <3>1
    <3> HIDE DEF s, t
    <3>6. LastDue(p, s, t, due)
      BY <1>1, <1>2, <3>2, <3>4, <3>5, OwedLast DEF p
    <3>7. Len(due) > u.paid
      BY <1>4, <3>3, <3>6 DEF LastDue, s, p
    <3> QED
      BY <1>8, <1>13, <2>3, <3>7
  <2>8. (due' # <<>> /\ Last(due').open) <=> (region /\ Unguarded(Tail(p)))
    BY <1>2, <1>6, <2>1, <2>5, <2>6, <2>7
  <2>9. Joined(w)' /\ Pointing(w)'
    BY <1>10, <2>2, <2>8 DEF Joined, Pointing
  <2> QED
    BY <1>10, <1>11, <2>3, <2>4, <2>9, Continues
<1> QED
  BY <1>12, <1>13

\* The call for a load-linked that comes next.
LEMMA AheadCall ==
  ASSUME TypeOK, NEW z, Here(z), z.pending = <<>>, loc = "run", out # <<>>, Head(out).tag = "call",
         loc' = "run", out' = Tail(out), UNCHANGED <<events, region, executions, enabled, cindice>>,
         IF enabled' THEN Report(<<Letter(Head(out).kind), Head(out).addr>>) ELSE UNCHANGED <<due, early>>
  PROVE  LogInv' /\ due' \in Seq(Dues)
<1> DEFINE x == Head(out)
<1>1. /\ x.kind = "read" /\ x.on /\ x.addr \in Plain /\ Matches(z) /\ events = <<>> /\ z.ahead = None
      /\ Flows(z, x) = [pending |-> <<>>, ahead |-> x.addr] /\ Flows(z, x) \in States
      /\ Leads(Tail(out), Flows(z, x), Empty)
  BY DEF Here, Follows, Flows
<1>2. early = <<>> /\ Tallied(enabled, cindice, 0) = Tallied(region, executions, Len(due))
  BY <1>1, OwedNothing DEF Matches, Pointing, Debt
<1>3. due = <<>> /\ enabled = region /\ cindice = executions
  BY <1>2 DEF Tallied, TypeOK
<1>4. due' = <<>> /\ early' = IF region THEN << <<"R", x.addr>> >> ELSE <<>>
  <2>1. CASE region
    <3>1. Report(<<"R", x.addr>>)
      BY <1>1, <1>3, <2>1 DEF Letter
    <3> QED
      BY <1>2, <1>3, <2>1, <3>1 DEF Report
  <2>2. CASE ~region
    BY <1>2, <1>3, <2>2
  <2> QED
    BY <2>1, <2>2
<1>5. PICK w : w = Flows(z, x)
  OBVIOUS
<1>6. w \in States /\ w.pending = <<>> /\ w.ahead = x.addr /\ w.ahead # None
  BY <1>1, <1>5, DataFacts
<1>7. Debt(w)'
  <2>1. Tallied(enabled', cindice', 0) = Tallied(region', executions', Len(due'))
    BY <1>3, <1>4
  <2>2. Tallied(enabled', cindice', 0) \in Tallies
    BY DEF TypeOK, Tallied, Tallies
  <2> QED
    BY <1>6, <2>1, <2>2, OwedNothing DEF Debt
<1>8. Joined(w)' /\ Pointing(w)'
  BY <1>4, <1>6 DEF Joined, Pointing, Unguarded
<1>9. LogInv'
  BY <1>1, <1>5, <1>6, <1>7, <1>8, Continues
<1> QED
  BY <1>4, <1>9

LEMMA CallStep ==
  ASSUME TypeOK, LogInv, Call
  PROVE  LogInv' /\ due' \in Seq(Dues)
<1> DEFINE x == Head(out)
<1>1. loc = "run" /\ out # <<>> /\ x.tag = "call" /\ UNCHANGED <<events, region, executions>>
  BY DEF Call
<1>2. PICK z \in States : Here(z)
  BY <1>1, Running
<1>3. z.ahead = None /\ x \in HelperCalls /\ Matches(z) /\ x.on \in BOOLEAN
  BY <1>1, <1>2, ItemFacts DEF Here, Follows
<1>4. CASE x.on /\ (StopsAt(x.addr) \/ Panics(x.addr))
  <2>1. loc' \in {"stopped", "panic"} /\ UNCHANGED <<due, early>>
    BY <1>4 DEF Call
  <2>2. early = <<>>
    BY <1>3 DEF Matches, Pointing
  <2> QED
    BY <2>1, <2>2 DEF LogInv, TypeOK
<1>5. CASE ~x.on
  <2>1. /\ out' = Tail(out) /\ loc' = "run"
        /\ UNCHANGED <<enabled, cindice, due, early>>
    BY <1>1, <1>5 DEF Call, tool
  <2>2. z.pending # <<>> /\ x = HelperCall(Head(z.pending))
    BY <1>1, <1>2, <1>5 DEF Here, Follows
  <2> DEFINE s == Tallied(enabled, cindice, 0)
             u == After(Head(z.pending), s)
  <2>3. ~Head(z.pending).on
    BY <1>5, <2>2 DEF HelperCall
  <2>4. u = s /\ s.on = enabled /\ s.count = cindice /\ s.paid = 0
    BY <2>3 DEF After, Tallied
  <2> HIDE DEF s
  <2>5. u.on = enabled' /\ u.count = cindice' /\ u.paid = 0
    BY <2>1, <2>4
  <2>6. u = After(Head(z.pending), Tallied(enabled, cindice, 0))
    BY DEF s
  <2> HIDE DEF u
  <2> QED
    BY <1>1, <1>2, <2>1, <2>2, <2>5, <2>6, PendingCall
<1>6. CASE x.on /\ ~(StopsAt(x.addr) \/ Panics(x.addr))
  <2>1. /\ out' = Tail(out) /\ loc' = "run" /\ trace_enabled(x.addr)
        /\ IF enabled' THEN Report(<<Letter(x.kind), x.addr>>) ELSE UNCHANGED <<due, early>>
    BY <1>1, <1>6 DEF Call
  <2>2. CASE z.pending # <<>>
    <3>1. x = HelperCall(Head(z.pending))
      BY <1>1, <1>2, <2>2 DEF Here, Follows
    <3> DEFINE e == Head(z.pending)
               s == Tallied(enabled, cindice, 0)
               u == After(e, s)
    <3>2. e.on /\ e.addr = x.addr
      BY <1>6, <3>1 DEF HelperCall
    <3>3. enabled' = Enables(e, s)
      BY <2>1, <3>2 DEF trace_enabled, Enables, Tallied
    <3>4. cindice' = IF e.addr \in Begins THEN cindice + 1 ELSE cindice
      BY <2>1, <3>2 DEF trace_enabled, CountAll
    <3>5. s.count = cindice /\ s.paid = 0
      BY DEF Tallied
    <3>6. u = [on |-> Enables(e, s), count |-> IF e.addr \in Begins THEN s.count + 1 ELSE s.count,
               paid |-> IF Enables(e, s) THEN s.paid + 1 ELSE s.paid]
      BY <3>2 DEF After
    <3>7. u = After(Head(z.pending), Tallied(enabled, cindice, 0))
      OBVIOUS
    <3> HIDE DEF s, u, e
    <3>8. u.on = enabled' /\ u.count = cindice' /\ (u.paid = 0 <=> ~enabled')
      BY <3>3, <3>4, <3>5, <3>6
    <3>9. IF u.paid = 0 THEN UNCHANGED <<due, early>> ELSE Report(<<Letter(x.kind), x.addr>>)
      BY <2>1, <3>8
    <3> QED
      BY <1>1, <1>2, <2>1, <2>2, <3>7, <3>8, <3>9, PendingCall
  <2>3. CASE z.pending = <<>>
    <3>1. x.addr \in Plain
      BY <1>1, <1>2, <2>3 DEF Here, Follows
    <3>2. x.addr \notin Begins /\ x.addr \notin Ends
      BY <3>1, DataFacts
    <3>3. UNCHANGED <<enabled, cindice>>
      BY <2>1, <3>2 DEF trace_enabled
    <3> QED
      BY <1>1, <1>2, <2>1, <2>3, <3>3, AheadCall
  <2> QED
    BY <2>2, <2>3
<1> QED
  BY <1>3, <1>4, <1>5, <1>6
-----------------------------------------------------------------------------
(* The indices.                                                            *)

AtMost == IF MaxTraces = 0 THEN 1 ELSE MaxTraces
IndicesInv ==
  /\ begun = {n \in 0 .. cindice - 1 : Listed(n)}
  /\ MaxTraces # NoLimit =>
       num_traces <= AtMost /\ (num_traces = AtMost /\ loc \in {"translate", "run"} => enabled)

\* The types that hold whatever the program accesses.
ToolTypes ==
  /\ loc \in {"translate", "run", "stopped", "panic"} /\ strayed \in BOOLEAN
  /\ enabled \in BOOLEAN /\ num_traces \in Nat /\ cindice \in Nat

LEMMA IndicesStep ==
  ASSUME ToolTypes, IndicesInv, Call
  PROVE  IndicesInv' /\ ToolTypes'
<1> DEFINE x == Head(out)
           a == x.addr
<1>1. loc = "run" /\ loc' \in {"run", "stopped", "panic"} /\ strayed' = strayed
  BY DEF Call
<1>3. CASE UNCHANGED <<enabled, num_traces, cindice, begun>>
  BY <1>1, <1>3 DEF IndicesInv, ToolTypes
<1>4. CASE x.on /\ ~StopsAt(a) /\ ~Panics(a) /\ trace_enabled(a) /\ loc' = loc
  <2>1. enabled' = CASE a \in Begins -> Listed(cindice)
                     [] a \in Ends \ Begins -> FALSE
                     [] OTHER -> enabled
    BY <1>4 DEF trace_enabled
  <2>2. enabled' \in BOOLEAN
    BY <2>1 DEF Listed, in_list, ToolTypes
  <2>3. CASE a \in Begins
    <3>1. /\ cindice' = cindice + 1 /\ num_traces' = (IF enabled' THEN num_traces + 1 ELSE num_traces)
          /\ begun' = IF enabled' THEN begun \cup {cindice} ELSE begun
      BY <1>4, <2>3 DEF trace_enabled, CountAll
    <3>2. enabled' = Listed(cindice)
      BY <2>1, <2>3
    <3>3. cindice \in Nat /\ begun = {n \in 0 .. cindice - 1 : Listed(n)} /\ num_traces \in Nat /\ enabled \in BOOLEAN
      BY DEF ToolTypes, IndicesInv
    <3>4. begun' = {n \in 0 .. cindice' - 1 : Listed(n)}
      <4> HIDE DEF Listed
      <4>1. CASE Listed(cindice)
        BY <3>1, <3>2, <3>3, <4>1
      <4>2. CASE ~Listed(cindice)
        BY <3>1, <3>2, <3>3, <4>2
      <4> QED
        BY <4>1, <4>2
    <3>5. ASSUME MaxTraces # NoLimit
          PROVE  num_traces' <= AtMost /\ (num_traces' = AtMost /\ loc' \in {"translate", "run"} => enabled')
      <4>1. /\ MaxTraces \in Nat /\ AtMost \in Nat /\ AtMost >= MaxTraces /\ num_traces <= AtMost
            /\ num_traces = AtMost => enabled
        BY <1>1, <3>5, LimitAssumption DEF IndicesInv, AtMost
      <4>2. num_traces # AtMost
        <5>1. SUFFICES ASSUME num_traces = AtMost PROVE FALSE
          OBVIOUS
        <5>2. enabled
          BY <4>1, <5>1
        <5>3. a \in Ends
          BY <1>4, <2>3, <5>2 DEF Panics
        <5> QED
          BY <1>4, <3>5, <4>1, <5>1, <5>2, <5>3 DEF StopsAt
      <4> QED
        BY <3>1, <3>3, <4>1, <4>2
    <3> QED
      BY <1>1, <2>2, <3>1, <3>3, <3>4, <3>5 DEF IndicesInv, ToolTypes
  <2>4. CASE a \notin Begins
    <3>1. UNCHANGED <<cindice, num_traces, begun>>
      BY <1>4, <2>4 DEF trace_enabled
    <3>2. ASSUME MaxTraces # NoLimit, num_traces = AtMost PROVE enabled'
      <4>1. MaxTraces \in Nat /\ AtMost >= MaxTraces /\ enabled
        BY <1>1, <3>2, LimitAssumption DEF IndicesInv, AtMost
      <4>2. a \notin Ends
        BY <1>4, <3>2, <4>1 DEF StopsAt
      <4> QED
        BY <2>1, <2>4, <4>1, <4>2
    <3> QED
      BY <1>1, <2>2, <3>1, <3>2 DEF IndicesInv, ToolTypes
  <2> QED
    BY <2>3, <2>4
<1> QED
  BY <1>3, <1>4 DEF Call, tool
-----------------------------------------------------------------------------
(* The invariant holds.                                                    *)

\* The inductive invariant: the indices, and for a program that has no access
\* to data at a mark the types of its block and the log.
CsInv == ToolTypes /\ IndicesInv /\ (~strayed => TypeOK /\ LogInv)

LEMMA CsInitially == Init => CsInv
<1> SUFFICES ASSUME Init PROVE CsInv
  OBVIOUS
<1>1. TypeOK
  <2>1. \A S : <<>> \in Seq(S)
    OBVIOUS
  <2>2. /\ loc = "translate" /\ events = <<>> /\ out = <<>> /\ enabled = FALSE /\ num_traces = 0
        /\ cindice = 0 /\ due = <<>> /\ region = FALSE /\ executions = 0
    BY DEF Init
  <2>3. events \in Seq(Events) /\ out \in Seq(Items) /\ due \in Seq(Dues)
    BY <2>1, <2>2, Zenon
  <2> QED
    BY <2>2, <2>3 DEF TypeOK
<1>2. Empty.pending = <<>> /\ Empty.ahead = None /\ Empty \in States /\ Waiting(events) = Empty
  BY EmptyState DEF Empty, Waiting, Init
<1>3. Leads(out, Empty, Waiting(events))
  BY <1>2, LeadsNowhere DEF Init
<1>4. Debt(Empty)
  <2>1. Tallied(enabled, cindice, 0) = Tallied(region, executions, Len(due))
    BY DEF Init
  <2>2. Tallied(enabled, cindice, 0) \in Tallies
    BY <1>1 DEF TypeOK, Tallied, Tallies
  <2> QED
    BY <1>2, <2>1, <2>2, OwedNothing DEF Debt
<1>5. Joined(Empty) /\ Pointing(Empty)
  BY <1>2 DEF Init, Joined, Pointing
<1>6. LogInv
  BY <1>3, <1>4, <1>5 DEF Init, LogInv, Matches
<1>7. IndicesInv
  BY LimitAssumption DEF Init, IndicesInv, AtMost
<1> QED
  BY <1>1, <1>6, <1>7 DEF CsInv, ToolTypes, Init

\* What no action but Call changes.
LEMMA OthersKeep ==
  ASSUME ToolTypes, IndicesInv, UNCHANGED tool, loc' \in {"translate", "run"}, loc \in {"translate", "run"},
         strayed' \in BOOLEAN
  PROVE  ToolTypes' /\ IndicesInv'
BY DEF tool, IndicesInv, ToolTypes

\* A step that changes nothing.
LEMMA LogKept ==
  ASSUME TypeOK, LogInv, UNCHANGED vars
  PROVE  TypeOK' /\ LogInv'
<1>1. UNCHANGED <<loc, events, out, budget, enabled, num_traces, cindice, begun, due, early, region, executions>>
  BY DEF vars, tool, history
<1>2. TypeOK'
  BY <1>1 DEF TypeOK
<1>3. \A z : Matches(z) => Matches(z)'
  BY <1>1 DEF Matches, Debt, Joined, Pointing
<1>4. LogInv'
  <2>1. ASSUME loc = "translate" PROVE Matches(Empty)'
    <3>1. PICK z : z = Empty
      OBVIOUS
    <3>2. Matches(z)'
      BY <1>3, <2>1, <3>1 DEF LogInv
    <3> QED
      BY <3>1, <3>2
  <2> QED
    BY <1>1, <1>3, <2>1 DEF LogInv
<1> QED
  BY <1>2, <1>4

\* The log's part of the invariant, for a program without such accesses.
LEMMA LogStep ==
  ASSUME TypeOK, LogInv, ToolTypes', ~strayed', Next
  PROVE  TypeOK' /\ LogInv'
<1>1. CASE \E s \in Statement : Instrument(s)
  <2>1. PICK s \in Statement : Instrument(s)
    BY <1>1
  <2>2. s \in PlainStatement
    <3>1. ~Strays(s)
      BY <2>1 DEF Instrument
    <3> QED
      BY <3>1 DEF PlainStatement
  <2>3. LogInv' /\ events' \in Seq(Events) /\ out' \in Seq(Items)
    BY <2>1, <2>2, InstrumentStep
  <2>4. UNCHANGED <<loc, tool, due, region, executions>>
    BY <2>1 DEF Instrument
  <2> QED
    BY <2>3, <2>4 DEF TypeOK, tool
<1>2. CASE EndBlock
  <2>1. LogInv' /\ events' \in Seq(Events) /\ out' \in Seq(Items)
    BY <1>2, EndBlockStep
  <2>2. loc' = "run" /\ UNCHANGED <<tool, history>>
    BY <1>2 DEF EndBlock
  <2> QED
    BY <2>1, <2>2 DEF TypeOK, tool, history
<1>0. ASSUME out' \in {Tail(out), <<>>}, out # <<>> PROVE out' \in Seq(Items)
  <2>1. out \in Seq(Items) /\ <<>> \in Seq(Items)
    BY DEF TypeOK
  <2>2. Tail(out) \in Seq(Items)
    BY <1>0, <2>1, TailElements
  <2> QED
    BY <1>0, <2>1, <2>2, Zenon
<1>3. CASE Call
  <2>1. LogInv' /\ due' \in Seq(Dues)
    BY <1>3, CallStep
  <2>2. out' \in {Tail(out), <<>>} /\ out # <<>> /\ UNCHANGED <<events, region, executions>>
    BY <1>3 DEF Call
  <2> QED
    BY <1>0, <2>1, <2>2 DEF TypeOK, ToolTypes
<1>4. ASSUME out # <<>>, out' \in {Tail(out), <<>>}, UNCHANGED <<loc, events, tool>>,
             due' \in Seq(Dues), region' \in BOOLEAN, executions' \in Nat
      PROVE  TypeOK'
  BY <1>0, <1>4 DEF TypeOK, tool
<1>5. CASE Mark
  <2>1. LogInv' /\ due' \in Seq(Dues) /\ region' \in BOOLEAN /\ executions' \in Nat
    BY <1>5, MarkStep
  <2>2. out # <<>> /\ out' = Tail(out) /\ UNCHANGED <<loc, events, tool>>
    BY <1>5 DEF Mark, Performs
  <2> QED
    BY <1>4, <2>1, <2>2
<1>6. CASE Read
  <2>1. LogInv' /\ due' \in Seq(Dues)
    BY <1>6, ReadStep
  <2>2. out # <<>> /\ out' = Tail(out) /\ UNCHANGED <<loc, events, tool, region, executions>>
    BY <1>6 DEF Read, Performs
  <2> QED
    BY <1>4, <2>1, <2>2 DEF TypeOK
<1>7. CASE Write
  <2>1. LogInv' /\ due' \in Seq(Dues)
    BY <1>7, WriteStep
  <2>2. out # <<>> /\ out' = Tail(out) /\ UNCHANGED <<loc, events, tool, region, executions>>
    BY <1>7 DEF Write, Performs
  <2> QED
    BY <1>4, <2>1, <2>2 DEF TypeOK
<1>8. CASE Exit
  <2>1. LogInv' /\ due' \in Seq(Dues)
    BY <1>8, ExitStep
  <2>2. out # <<>> /\ out' \in {Tail(out), <<>>} /\ UNCHANGED <<loc, events, tool, region, executions>>
    BY <1>8 DEF Exit
  <2> QED
    BY <1>4, <2>1, <2>2 DEF TypeOK
<1>9. CASE BlockDone
  <2>1. LogInv' /\ due' \in Seq(Dues)
    BY <1>9, BlockDoneStep
  <2>2. loc' = "translate" /\ UNCHANGED <<events, out, tool, region, executions>>
    BY <1>9 DEF BlockDone
  <2> QED
    BY <2>1, <2>2 DEF TypeOK, tool
<1>10. CASE Terminated
  BY <1>10, LogKept DEF Terminated
<1> QED
  BY <1>1, <1>2, <1>3, <1>5, <1>6, <1>7, <1>8, <1>9, <1>10 DEF Next

LEMMA CsInductive == CsInv /\ [Next]_vars => CsInv'
<1> SUFFICES ASSUME CsInv, [Next]_vars PROVE CsInv'
  OBVIOUS
<1>0. ToolTypes /\ IndicesInv
  BY DEF CsInv
<1>1. ToolTypes' /\ IndicesInv' /\ (~strayed' => ~strayed)
  <2>1. CASE Call
    BY <1>0, <2>1, IndicesStep DEF Call
  <2>2. CASE \E s \in Statement : Instrument(s)
    BY <1>0, <2>2, OthersKeep DEF Instrument
  <2>3. CASE EndBlock \/ Mark \/ Read \/ Write \/ Exit \/ BlockDone
    <3>1. /\ UNCHANGED <<tool, strayed>> /\ loc' \in {"translate", "run"} /\ loc \in {"translate", "run"}
      BY <2>3 DEF EndBlock, Mark, Read, Write, Exit, BlockDone, Performs, history
    <3> QED
      BY <1>0, <3>1, OthersKeep DEF ToolTypes
  <2>4. CASE Terminated \/ UNCHANGED vars
    BY <1>0, <2>4 DEF Terminated, vars, tool, history, ToolTypes, IndicesInv
  <2> QED
    BY <2>1, <2>2, <2>3, <2>4 DEF Next
<1>2. ASSUME ~strayed' PROVE TypeOK' /\ LogInv'
  <2>1. TypeOK /\ LogInv
    BY <1>1, <1>2 DEF CsInv
  <2>2. Next \/ UNCHANGED vars
    OBVIOUS
  <2>3. CASE Next
    BY <1>1, <1>2, <2>1, <2>3, LogStep
  <2>4. CASE UNCHANGED vars
    BY <1>1, <1>2, <2>1, <2>4, LogKept
  <2> QED
    BY <2>2, <2>3, <2>4
<1> QED
  BY <1>1, <1>2 DEF CsInv

\* At any moment of any program, as long as it has no access to data at a begin
\* or end address, the lines printed are the accesses the executions to trace
\* have attempted, in program order: no line is early but that of a load-linked
\* about to run, and none is due when a block has been left.  It is about
\* cs_instrument's queue (addEvent_*, flushEvents) and the helpers.
THEOREM LogExactAlways == Spec => []LogExact
<1>1. CsInv => LogExact
  <2> SUFFICES ASSUME CsInv, ~strayed
               PROVE  /\ early = <<>> \/ /\ out # <<>> /\ Head(out).tag = "ll" /\ due = <<>>
                                         /\ early = << <<"R", Head(out).addr>> >>
                      /\ loc = "translate" /\ out = <<>> => due = <<>>
    BY DEF LogExact
  <2>0. TypeOK /\ LogInv
    BY DEF CsInv
  <2>1. Empty.pending = <<>> /\ Empty.ahead = None
    BY DEF Empty, Waiting
  <2>2. ASSUME loc = "translate" PROVE early = <<>> /\ (out = <<>> => due = <<>>)
    <3>1. early = <<>> /\ Tallied(enabled, cindice, 0) = Tallied(region, executions, Len(due))
      BY <2>0, <2>1, <2>2, OwedNothing DEF LogInv, Matches, Pointing, Debt
    <3> QED
      BY <2>0, <3>1 DEF Tallied, TypeOK
  <2>3. ASSUME loc = "run", early # <<>>
        PROVE  out # <<>> /\ Head(out).tag = "ll" /\ due = <<>> /\ early = << <<"R", Head(out).addr>> >>
    <3>1. PICK z \in States : Matches(z) /\ events = <<>>
      BY <2>0, <2>3 DEF LogInv
    <3>2. z.ahead # None /\ early = << <<"R", z.ahead>> >>
      BY <2>3, <3>1 DEF Matches, Pointing
    <3>3. out # <<>>
      BY <2>1, <3>1, <3>2, LeadsNowhere DEF Matches, Empty
    <3>4. PICK y \in States : Here(y)
      BY <2>0, <2>3, <3>3, Running
    <3>5. Follows(z, Head(out))
      BY <2>0, <3>1, <3>3, LeadsHead DEF Matches, TypeOK
    <3>6. Head(out).tag = "ll" /\ z.pending = <<>> /\ z.ahead = Head(out).addr
      BY <2>1, <3>2, <3>5 DEF Follows
    <3>7. Tallied(enabled, cindice, 0) = Tallied(region, executions, Len(due))
      BY <3>1, <3>6, OwedNothing DEF Matches, Debt
    <3>8. due = <<>>
      BY <2>0, <3>7 DEF Tallied, TypeOK
    <3> QED
      BY <3>2, <3>3, <3>6, <3>8
  <2> QED
    BY <2>0, <2>2, <2>3 DEF LogInv, TypeOK
<1> QED
  BY <1>1, CsInitially, CsInductive, PTL DEF Spec

\* The traces begun are those of the listed executions, for any list and any
\* program without an access to data at a begin or end address, and there are
\* for any program never more than -max-traces allows, although an execution is
\* counted by its helper and not when the program enters it.  It
\* is about trace_enabled, in_list and the exits in the helpers.
THEOREM IndicesKeptAlways == Spec => []IndicesKept
<1>1. CsInv => IndicesKept
  <2> SUFFICES ASSUME CsInv PROVE IndicesKept
    OBVIOUS
  <2>0. IndicesInv /\ (~strayed => LogInv)
    BY DEF CsInv
  <2>1. Empty.pending = <<>>
    BY DEF Empty, Waiting
  <2>2. ASSUME ~strayed, loc = "translate" PROVE executions = cindice
    <3>1. Tallied(enabled, cindice, 0) = Tallied(region, executions, Len(due))
      BY <2>0, <2>1, <2>2, OwedNothing DEF LogInv, Matches, Debt
    <3> QED
      BY <3>1 DEF Tallied
  <2> QED
    BY <2>0, <2>2 DEF IndicesKept, ListedBegun, IndicesInv, AtMost
<1> QED
  BY <1>1, CsInitially, CsInductive, PTL DEF Spec
=============================================================================
