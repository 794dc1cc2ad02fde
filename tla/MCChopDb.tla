------------------------------ MODULE MCChopDb ------------------------------
(* Small programs, users and address spaces for ChopDb.                    *)
EXTENDS ChopDb

I(addr, kind, target) == [addr |-> addr, kind |-> kind, target |-> target]
Plain(addr) == I(addr, "plain", 0)
Ret(addr) == I(addr, "ret", 0)
Jump(addr, target) == I(addr, "jump", target)
Cond(addr, target) == I(addr, "cond", target)
Call(addr, target) == I(addr, "call", target)
CallReg(addr) == I(addr, "callreg", 0)

Form == [script |-> <<{"disasm"}, {"search"}>>, kill |-> FALSE, scopes |-> {<<"function", "a", 1>>},
         last |-> FALSE, normalize |-> FALSE, fullfunc |-> FALSE, hot |-> FALSE, target |-> 99, coverage |-> 99,
         reps |-> 99, ins |-> 99, cutoff |-> 0, timeout |-> FALSE]

\* Many functions of four instructions; there is none at address 3.
Programs ==
  {<<i, j, k, l>> : i \in {Plain(1), Cond(1, 1), Cond(1, 4), Cond(1, 5), Jump(1, 4)},
                    j \in {Plain(2), Cond(2, 1), Cond(2, 2), Cond(2, 5), Jump(2, 1), Jump(2, 3),
                           Call(2, 9), Call(2, 1), CallReg(2)},
                    k \in {Plain(4), Cond(4, 1), Cond(4, 2), Jump(4, 2), Ret(4)},
                    l \in {Ret(5), Plain(5), Jump(5, 1)}}
\* Two loops that pass the same blocks in another order.
Twisted == <<Cond(1, 3), Cond(2, 4), Cond(3, 2), Cond(4, 1), Ret(5)>>

\* Modules with the same addresses, and one at a fixed address.
Two == [a |-> << <<Plain(1), Ret(2)>>, <<Ret(3)>> >>, b |-> << <<Cond(1, 1), Ret(2)>> >>]
\* One whose code is in its second mapping, its first instruction where that begins.
Behind == [a |-> << <<Plain(1), Ret(2)>> >>, d |-> << <<Plain(5), Ret(6)>> >>]
Fixed == [a |-> << <<Plain(1), Ret(2)>> >>, c |-> << <<Plain(30), Ret(31)>> >>]
Small == [a |-> << <<Plain(1), Cond(2, 1), Ret(3)>>, <<Plain(4), Cond(5, 4), Ret(6)>> >>]

\* Searches for the best paths, of functions with samples.
Limited ==
  LET user == [Form EXCEPT !.script = <<{"sample"}, {"disasm"}, {"count"}, {"annotate"}, {"search"}>>,
                           !.scopes = {<<"module", "a">>}]
  IN  {[user EXCEPT !.normalize = TRUE, !.target = 1],
       [user EXCEPT !.hot = TRUE, !.coverage = 4],
       [user EXCEPT !.reps = 1, !.ins = 1, !.cutoff = 1]}

Split ==
  [objects : {Behind},
   form : {[Form EXCEPT !.script = <<{"sample"}, {"disasm"}, {"count"}>>, !.last = l] : l \in BOOLEAN}]

McUsers ==
  [objects : {[a |-> <<p>>] : p \in Programs \cup {Twisted}}, form : {Form}]
  \cup [objects : {Two, Fixed},
        form : {[Form EXCEPT !.script = [k \in 1 .. 4 |-> {"sample", "disasm", "count"}], !.kill = TRUE]}]
  \cup Split
  \cup [objects : {[a |-> <<Twisted>>]}, form : Limited]
  \cup [objects : {Small},
        form : {[Form EXCEPT !.script = <<{"disasm"}, {"search"}, {"search"}>>, !.kill = TRUE,
                             !.scopes = {<<"function", "a", 1>>, <<"global">>}, !.fullfunc = TRUE,
                             !.timeout = t, !.target = n] : t \in BOOLEAN, n \in {2, 99}}]

\* The mappings of a process: shared objects, one of them in two mappings, with an
\* anonymous one in between, and a program at a fixed address.
Map(path, perm, begin, end) == [path |-> path, perm |-> perm, begin |-> begin, end |-> end]
McLayout ==
  << [lines |-> << Map("a", "r-xp", 10, 20), Map("b", "r-xp", 20, 24), Map("", "rw-p", 24, 30),
                   Map("c", "r-xp", 30, 40), Map("d", "r--p", 50, 55), Map("d", "r-xp", 55, 60),
                   Map("[vdso]", "r-xp", 70, 80) >>,
      bias  |-> [a |-> 10, b |-> 20, c |-> 0, d |-> 50]],
     [lines |-> << Map("a", "r-xp", 40, 50), Map("", "rw-p", 50, 55) >>, bias |-> [a |-> 40]] >>
=============================================================================
