SPECIFICATION Spec
CONSTANTS
    t1 = t1
    t2 = t2
    t3 = t3
    t4 = t4
    c1 = c1
    c2 = c2
    c3 = c3
    Calls = {c1, c2, c3}
    Titles <- MCTitles
    Wanted = {t1, t6}
    t6 = t6
    t5 = t5
    Queries = {"many", "few"}
    Listing <- MCListing
    Pages <- MCPages
    Undated = {t2}
    Popularity <- MCPopularity
    Alike <- MCAlike
    Limits = {0, 1, 2}
    Between = 1
    MaxPages = 2
    Few = 2
    Many = 2
    Unpopular = 10
    MaxTime = 3
INVARIANT CallsApart
INVARIANT RefusedForAnother
INVARIANT WholeOrNothing
INVARIANT NotFoundUntried
SYMMETRY CallSymmetry
CHECK_DEADLOCK FALSE
