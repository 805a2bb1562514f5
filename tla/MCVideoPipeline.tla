--------------------------- MODULE MCVideoPipeline ---------------------------
(* Instances of VideoPipeline for TLC. *)
EXTENDS VideoPipeline, TLC

CONSTANTS v1, v2

\* A second crash gives a delete job up; other faults come alone.
OnlyCrashesTwice == Len(faults) > 1 => faults = <<"crash", "crash">>

VideoSymmetry == Permutations({v1, v2})

=============================================================================
