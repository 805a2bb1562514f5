----------------------------- MODULE MCMoviesApi -----------------------------
(* Instances of MoviesApi for TLC. *)
EXTENDS MoviesApi, TLC

CONSTANTS r1, r2, m1, m2, c1

\* Requests are told apart by what they ask for only, and movies not at all.
Symmetry == Permutations({r1, r2}) \cup Permutations({m1, m2})

=============================================================================
