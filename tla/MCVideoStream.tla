---------------------------- MODULE MCVideoStream ----------------------------
(* Instances of VideoStream, and of the pipeline it reads from, for TLC. *)
EXTENDS VideoStream, TLC

CONSTANTS v1, v2

VideoSymmetry == Permutations({v1, v2})

=============================================================================
