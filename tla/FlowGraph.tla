----------------------------- MODULE FlowGraph -----------------------------
(***************************************************************************)
(* The control flow graph of a function (core/function.cpp,                *)
(* core/basicblock.cpp, core/edge.cpp).  A function is a sequence of       *)
(* instructions [addr, kind, target]; the kinds are the flags that         *)
(* Arch::parse_inst gives a branch.  A block is a sequence of              *)
(* instructions, named by the place of its first one in the function; an   *)
(* edge is a pair of blocks.  A jump to a register has the kind of a       *)
(* return: it is taken to leave the function.                              *)
(***************************************************************************)
EXTENDS Integers, FiniteSets, SequencesExt

Kinds == {"plain", "cond", "condret", "call", "callreg", "jump", "ret"}
\* The instructions of a function, in the order of their addresses.
Assembled(insts) ==
  /\ insts # <<>> /\ insts \in Seq([addr : Nat, kind : Kinds, target : Nat])
  /\ \A i \in DOMAIN insts : \A j \in DOMAIN insts : i < j => insts[i].addr < insts[j].addr

IsBranch(inst) == inst.kind # "plain"
IsCond(inst)   == inst.kind \in {"cond", "condret"}
IsLink(inst)   == inst.kind \in {"call", "callreg"}
IsReg(inst)    == inst.kind \in {"ret", "condret", "callreg"}

\* Range::contains: the last address belongs to the range.
InRange(insts, addr) == insts[1].addr <= addr /\ addr <= Last(insts).addr

\* Function::build_blocks: the instruction after a branch and the one it goes
\* to begin a block.
Marks(insts) ==
  LET branches == {i \in DOMAIN insts : IsBranch(insts[i])}
  IN  {i + 1 : i \in branches} \cup
      {t \in DOMAIN insts : \E i \in branches :
         ~IsReg(insts[i]) /\ InRange(insts, insts[i].target) /\ insts[t].addr = insts[i].target}

Heads(insts) == {1} \cup (Marks(insts) \cap DOMAIN insts)
Final(insts, h) == Min({i \in h .. Len(insts) : i + 1 \in Heads(insts) \/ i = Len(insts)})
build_blocks(insts) == [h \in Heads(insts) |-> SubSeq(insts, h, Final(insts, h))]

\* Function::link_blocks: the blocks that follow a block that is not the last.
FallsOnlyCond(inst) == ~IsBranch(inst) \/ IsCond(inst)  \* mutant: what a call returns to is no successor
FallsThrough(inst) == ~IsBranch(inst) \/ IsCond(inst) \/ IsLink(inst)

Goes(insts, inst) == IsBranch(inst) /\ ~IsReg(inst) /\ InRange(insts, inst.target)

Edges(insts) ==
  LET blocks == build_blocks(insts)
      last(h) == Last(blocks[h])
  IN  {e \in Heads(insts) \X Heads(insts) :
         /\ e[1] # Max(Heads(insts))
         /\ \/ e[2] = Final(insts, e[1]) + 1 /\ FallsThrough(last(e[1]))
            \/ Goes(insts, last(e[1])) /\ Head(blocks[e[2]]).addr = last(e[1]).target}

\* The last block is taken for padding when nothing leads to it.
Padding(insts) ==
  {h \in Heads(insts) : h # 1 /\ h = Max(Heads(insts)) /\ ~\E e \in Edges(insts) : e[2] = h}
link_blocks(insts) == [h \in Heads(insts) \ Padding(insts) |-> build_blocks(insts)[h]]
-----------------------------------------------------------------------------
(* What the processor does, for the properties.                            *)

\* The instructions of the function that may run after the i-th of them.
Flow(insts, i) ==
  (IF insts[i].kind \notin {"jump", "ret"} THEN {i + 1} \cap DOMAIN insts ELSE {}) \cup
  (IF insts[i].kind \in {"jump", "cond"}
     THEN {t \in DOMAIN insts : insts[t].addr = insts[i].target} ELSE {})

Reached(insts) ==
  {i \in DOMAIN insts :
     \A s \in SUBSET DOMAIN insts : 1 \in s /\ (\A k \in s : Flow(insts, k) \subseteq s) => i \in s}
=============================================================================
