--------------------------- MODULE MCBreakpoints ---------------------------
(* Values of Breakpoints' constants for the runs of the model checker.     *)
EXTENDS Breakpoints

\* Marks in different pages, a start and an end mark with a common word.
TwoStarts   == <<5, 0>>
TwoEnds     == <<1, 4>>
=============================================================================
