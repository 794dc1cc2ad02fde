---------------------------- MODULE MCPerfInvok ----------------------------
(* Values of PerfInvok's constants for the runs of the model checker.      *)
EXTENDS PerfInvok

CommandLines ==
  {[full |-> TRUE, inMain |-> TRUE, level |-> 0, max |-> 9],
   [full |-> FALSE, inMain |-> FALSE, level |-> 0, max |-> 9],
   [full |-> FALSE, inMain |-> TRUE, level |-> 0, max |-> 2],
   [full |-> FALSE, inMain |-> TRUE, level |-> 1, max |-> 9]}
=============================================================================
