--------------------------- MODULE AccessControl ---------------------------
(***************************************************************************)
(* Who may do what: the roles a token gives, and the two guards a request  *)
(* that changes the catalog passes, AuthenticationGuard with one of its    *)
(* strategies and PermissionGuard.  The web application makes the roles of *)
(* its user from the same claims, with a mapper of its own.                *)
(*                                                                         *)
(* A token has expired or not, and has the claims about its user of when   *)
(* it was issued, which the identity token has too.  Signatures are not    *)
(* modelled.                                                               *)
(***************************************************************************)
CONSTANT NoRoles   \* a token without a roles claim

Roles == {"viewer", "manager"}
Groups == {"NetixUsers", "NetixManagers"}

RoleOfGroup == [NetixUsers |-> "viewer", NetixManagers |-> "manager"]

\* A role the application does not have, which a roles claim lists before the others;
\* listed after the role that is looked for it is never looked at.
Unknown == "unknown"
ASSUME NoRolesAssumption == \A roles \in SUBSET (Roles \cup {Unknown}) : roles # NoRoles

\* "complete": subject, name, address and groups are all there, or the mappers throw.
Claims == [complete : BOOLEAN, groups : SUBSET Groups,
           roles : {NoRoles} \cup SUBSET (Roles \cup {Unknown})]

\* Both mappers: the roles claim if there is one, else the roles of the groups.
RolesOf(c) == IF c.roles # NoRoles THEN c.roles ELSE {RoleOfGroup[g] : g \in c.groups}

PermissionsOf ==
    [viewer  |-> {"ReadTitles"},
     manager |-> {"ReadTitleDetails", "UpdateTitle", "CreateTitle", "ImportTitle", "DeleteTitle"}]

\* Mutant: one of the roles has to give nothing more than the permission.
AnyRoleHasPermission(roles, permission) ==
    \E r \in Roles : r \in roles /\ permission \in UNION {PermissionsOf[s] : s \in Roles}

\* A role that is not in the table makes it throw.
HasPermission(roles, permission) ==
    Unknown \notin roles /\ \E r \in roles : permission \in PermissionsOf[r]

\* The handlers that change something, with the permission of their HasPermission.
Required ==
    [create |-> "CreateTitle", import |-> "ImportTitle", updatePoster |-> "UpdateTitle",
     updateBackdrop |-> "UpdateTitle", uploadVideo |-> "UpdateTitle", update |-> "UpdateTitle",
     publish |-> "UpdateTitle", unpublish |-> "UpdateTitle", delete |-> "DeleteTitle"]
Handlers == DOMAIN Required

-----------------------------------------------------------------------------
NoClaims == [complete |-> FALSE, groups |-> {}, roles |-> NoRoles]
Token == [held : BOOLEAN, fresh : BOOLEAN, claims : Claims]
NoToken == [held |-> FALSE, fresh |-> FALSE, claims |-> NoClaims]
TokenFor(c) == [held |-> TRUE, fresh |-> TRUE, claims |-> c]

\* The user FakeAuthService makes a token of has all roles.
FakeClaims == [complete |-> TRUE, groups |-> {}, roles |-> Roles]

\* JwtStrategy of passport: an access token that is signed and has not expired, of
\* which its validate can make a user.
ValidJwt(token) == token.held /\ token.fresh /\ token.claims.complete

\* FakeAuthenticationGuard: any token, which the application makes itself.
FakeToken(token) == token.held

\* The strategy is that of the environment.
Strategy(strategy, token) == IF strategy = "fake" THEN FakeToken(token) ELSE ValidJwt(token)

\* AuthenticationGuard, which turns what its strategy throws into a refusal.
Authenticated(strategy, token) == Strategy(strategy, token)

\* PermissionGuard, for the user the strategy has put into the request; what
\* HasPermission throws is a refusal too.
Permitted(token, handler) == HasPermission(RolesOf(token.claims), Required[handler])

\* A request that a guard turns down is answered 403, also one without a user.
Answer(strategy, token, handler) ==
    IF Authenticated(strategy, token) /\ Permitted(token, handler) THEN "handled" ELSE "403"

=============================================================================
