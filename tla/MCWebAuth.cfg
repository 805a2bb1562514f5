CONSTANTS
    Nobody = Nobody
    Nowhere = Nowhere
    Kinds = {"oauth2", "fake"}
    NoRoles = NoRoles
    Provided <- MCProvided
    MaxClicks = 3
SPECIFICATION FairSpec
INVARIANT TypeOK
INVARIANT UserIsOfToken
INVARIANT GuardsAgree
INVARIANT ViewerModeIsManagers
PROPERTY SignedInStays
PROPERTY SignInPagesEnd
CHECK_DEADLOCK FALSE
