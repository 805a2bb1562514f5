--------------------------- MODULE MCImagePipeline ---------------------------
(* Instances of ImagePipeline for TLC. *)
EXTENDS ImagePipeline, TLC

CONSTANTS i1, i2, s1, s2

SizeSymmetry == Permutations({s1, s2})

=============================================================================
