----------------------------- MODULE MCWebPages -----------------------------
(***************************************************************************)
(* Instances of WebPages for TLC.                                          *)
(***************************************************************************)
EXTENDS WebPages

\* Every property of the movie's page is about behaviours in which nothing
\* came between page and server ("apart", which once true stays true), so
\* what follows such states need not be explored; what is under way once the
\* page is left is left to the proofs.  Where the clock is does not bear on
\* how a page comes from the creation of its movie: one of them at a time.
Together == ~apart /\ ~left /\ ~(behind /\ fromCreation)

=============================================================================
