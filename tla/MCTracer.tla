------------------------------ MODULE MCTracer ------------------------------
(* Command lines and programs for the model checker.                       *)
EXTENDS Tracer

CONSTANTS s, t, e, f, o, x

\* The calls of the program come from 20 and 30, those of the library from its
\* mapping, handlers end in the vdso.
Usual == [callers |-> {20, 30}, own |-> {41}, returns |-> {61}, support |-> 40 .. 42, vdso |-> 60,
          sysz |-> FALSE]
\* Handlers end on the stack below the vdso, with the number of sigreturn.
OnStack == [Usual EXCEPT !.returns = {55}, !.sysz = TRUE]
\* The first mapping of the library holds no code; the vdso lies above it.
Headers == [Usual EXCEPT !.own = {43}]
\* The loader, from which the program makes calls too, lies above the vdso.
LoaderAbove == [Usual EXCEPT !.callers = {20, 62}]

\* -begin -end, two marks of each kind.
Ranged ==
  [mode |-> "ranged", kind |-> "all", starts |-> {s, t}, ends |-> {e, f}, others |-> {o},
   stray |-> {}, indices |-> <<>>, maxTraces |-> 0, enabled |-> TRUE, signals |-> {},
   layout |-> Usual]
\* -prob -max-traces, a program with an illegal instruction, and signals.
Sampled ==
  [Ranged EXCEPT !.kind = "randomized", !.starts = {s}, !.ends = {e}, !.others = {o, x},
                 !.stray = {x}, !.maxTraces = 2, !.layout = OnStack, !.signals = SignalKinds]
\* -interval -active.
Timed ==
  [Ranged EXCEPT !.mode = "timed", !.starts = {}, !.ends = {}, !.others = {o, s, x},
                 !.stray = {x}, !.maxTraces = 3, !.signals = {"sig", "term"}]
\* -begin -active -indices.
Hybrid ==
  [Ranged EXCEPT !.mode = "rangedTimed", !.kind = "indexed", !.starts = {s}, !.ends = {},
                 !.indices = <<0, 2>>, !.signals = {"sig"}]
\* -begin -end -no-trace.
Dry == [Ranged EXCEPT !.starts = {s}, !.ends = {e}, !.enabled = FALSE]

\* Other layouts, with signals.
Other(layout) == [Ranged EXCEPT !.starts = {s}, !.ends = {e}, !.signals = {"sig"}, !.layout = layout]

AllForms == {Ranged, Sampled, Timed, Hybrid, Dry, Other(OnStack), Other(Headers), Other(LoaderAbove)}
=============================================================================
