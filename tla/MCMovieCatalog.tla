---------------------------- MODULE MCMovieCatalog ----------------------------
(***************************************************************************)
(* Instances of MovieCatalog for TLC.  Clients who work on a movie one at  *)
(* a time send fewer kinds of request, with one name, but more of them     *)
(* than clients who share the movies.                                      *)
(***************************************************************************)
EXTENDS MovieCatalog, Naturals, FiniteSets, TLC

CONSTANTS r1, r2, r3, r4,
          MaxSent    \* bound: requests of clients who share the movies

RequestSymmetry == Permutations(Requests)

Sent == {r \in Requests : request[r].step # "new"}

\* Bounds of the requests that are sent.
FewShared == Cardinality(Sent) <= MaxSent
SimpleAlone ==
    \A r \in Sent : /\ request[r].kind \notin {"import", "rename", "unpublish"}
                    /\ request[r].name \in {"a", Nothing}

\* VideoStore does not say that no file comes before its video; here none does, as
\* its id is not generated yet.
MCNext ==
    /\ Next
    /\ IF alone THEN SimpleAlone' ELSE FewShared'
    /\ \A r \in Requests \ Sent : bytes'[r] = bytes[r]

MCSpec == Init /\ [][MCNext]_vars

=============================================================================
