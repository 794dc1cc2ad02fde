----------------------------- MODULE MCCsTrace -----------------------------
(* Instances of the valgrind tool: the list given with -indices.           *)
EXTENDS CsTrace
Second == <<1>>
=============================================================================
