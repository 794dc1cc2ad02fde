------------------------------ MODULE TraceLog ------------------------------
(***************************************************************************)
(* What `chop trace' promises about its output directory, without the      *)
(* tracer, the child and the library: numbered traces that are begun and   *)
(* ended one after the other, at most `limit' of them (0: no limit).       *)
(* Tracer implements it.                                                   *)
(***************************************************************************)
EXTENDS Integers

VARIABLES
  begun,  \* the traces with an initial state (regs.n) in the directory
  ended,  \* how many traces, 0 .. ended - 1, are complete
  limit   \* -max-traces, fixed when the tracer starts

logVars == <<begun, ended, limit>>

Init == begun = {} /\ ended = 0 /\ limit \in Nat

Begin ==
  /\ begun = 0 .. ended - 1
  /\ limit > 0 => ended < limit
  /\ begun' = begun \cup {ended}
  /\ UNCHANGED <<ended, limit>>

End ==
  /\ begun = 0 .. ended
  /\ ended' = ended + 1
  /\ UNCHANGED <<begun, limit>>

Next == Begin \/ End

Spec == Init /\ [][Next]_logVars
=============================================================================
