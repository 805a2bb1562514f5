----------------------------- MODULE MCWebAuth -----------------------------
(* Instances of WebAuth for TLC. *)
EXTENDS WebAuth

Told(groups, roles) == [complete |-> TRUE, groups |-> groups, roles |-> roles]

\* A viewer, a manager by group, one by a roles claim, one with a role nobody knows,
\* and a manager of whom a claim is missing.
MCProvided ==
    {Told({"NetixUsers"}, NoRoles), Told(Groups, NoRoles), Told({}, {"manager"}),
     Told(Groups, {"manager", Unknown}),
     [complete |-> FALSE, groups |-> Groups, roles |-> NoRoles]}

=============================================================================
