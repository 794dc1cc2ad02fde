------------------------------ MODULE Snapshot ------------------------------
(***************************************************************************)
(* What a trace promises about memory (docs/tracing.md): the initial       *)
(* contents of every page the program accesses between the begin and the   *)
(* end of the trace.  A page is kept before it is accessed for the first   *)
(* time, so what is kept is what the trace began with.  PageTrace          *)
(* implements it for the pages it protects.                                *)
(***************************************************************************)
CONSTANT Page

VARIABLES
  open,      \* a trace is being taken
  kept,      \* pages whose initial contents are in the trace
  accessed,  \* pages accessed since the trace began
  strict     \* no limit on the pages and nothing that could come between: no
             \* page is accessed before it is kept

snapVars == <<open, kept, accessed, strict>>

Init == strict \in BOOLEAN /\ ~open /\ kept = {} /\ accessed = {}

Begin == ~open /\ open' = TRUE /\ kept' = {} /\ accessed' = {} /\ UNCHANGED strict

Keep(p) ==
  /\ open /\ (strict => p \notin accessed)
  /\ kept' = kept \cup {p}
  /\ UNCHANGED <<open, accessed, strict>>

Access(p) ==
  /\ open /\ (strict => p \in kept)
  /\ accessed' = accessed \cup {p}
  /\ UNCHANGED <<open, kept, strict>>

End == open /\ open' = FALSE /\ UNCHANGED <<kept, accessed, strict>>

Next == Begin \/ End \/ \E p \in Page : Keep(p) \/ Access(p)

Spec == Init /\ [][Next]_snapVars
=============================================================================
