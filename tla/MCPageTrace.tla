---------------------------- MODULE MCPageTrace ----------------------------
(* Command lines and programs for the model checker.                       *)
EXTENDS PageTrace

\* -memory-access-trace, and -max-pages for a program with signal handlers.
Logged  == [maxPages |-> 0, memTrace |-> TRUE, interrupts |-> FALSE, timed |-> FALSE, known |-> TRUE]
Plain   == [Logged EXCEPT !.memTrace = FALSE]
Limited == [Plain EXCEPT !.maxPages = 2, !.interrupts = TRUE]
Handlers == [Plain EXCEPT !.interrupts = TRUE]
\* -interval -active, and a layout in which every call of the handler splits.
Temporal      == [Plain EXCEPT !.timed = TRUE]
TemporalFew   == [Temporal EXCEPT !.maxPages = 1]
TemporalLog   == [Logged EXCEPT !.timed = TRUE]
Unknown       == [Plain EXCEPT !.known = FALSE]

AllOptions == {Logged, Plain, Limited, Handlers, Temporal, TemporalFew, TemporalLog, Unknown}
=============================================================================
