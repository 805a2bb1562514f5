--------------------------- MODULE MCTitleSearch ---------------------------
(***************************************************************************)
(* Three calls.  The films of one query fill three pages, of which two are *)
(* read, and are too many for the selector to keep them all; the other     *)
(* query has few films, one of them not similar to it.  t6 is no film,     *)
(* and the limit 0 is NaN.                                                 *)
(***************************************************************************)
EXTENDS TitleSearch, TLC

CONSTANTS t1, t2, t3, t4, t5, t6, c1, c2, c3

MCTitles == {t1, t2, t3, t4, t5}
MCListing == [many |-> <<{t1, t2, t3}, {t4, t5}>>, few |-> <<{t1, t3}, {}>>]
MCPages == [many |-> 3, few |-> 2]
MCPopularity == t1 :> 9 @@ t2 :> 40 @@ t3 :> 30 @@ t4 :> 20 @@ t5 :> 11
MCAlike == [many |-> {t1, t2, t3, t4, t5}, few |-> {t3}]
CallSymmetry == Permutations(Calls)

=============================================================================
