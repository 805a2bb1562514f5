----------------------------- MODULE MCTusUpload -----------------------------
(* Instances of TusUpload for TLC. *)
EXTENDS TusUpload

CONSTANTS u1, u2, u3

=============================================================================
