-------------------------------- MODULE MCProbes --------------------------------
(***************************************************************************)
(* Small instances of Probes.  Four liveness runs overfill the history;    *)
(* three startup runs are counted while a liveness run makes the summary   *)
(* choose.                                                                 *)
(***************************************************************************)
EXTENDS Probes

SomeRuns == {[liveness |-> 4, startup |-> 0], [liveness |-> 1, startup |-> 3]}
LivenessRuns == {[liveness |-> 2, startup |-> 0]}
===============================================================================
