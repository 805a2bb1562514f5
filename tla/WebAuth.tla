------------------------------ MODULE WebAuth ------------------------------
(***************************************************************************)
(* The web application from the user's sign-in to the page they see: the   *)
(* router with its guards, OAuth2Service (or FakeAuthService), the login,  *)
(* callback and error pages and the navbar, in one tab of a browser.       *)
(*                                                                         *)
(* Everything that outlives its page is here: the subscriptions nobody     *)
(* ends, the timers nobody clears.  The identity provider and the library  *)
(* angular-oauth2-oidc are external; they are modelled from how            *)
(* OAuth2Service configures them and from the events it handles.           *)
(***************************************************************************)
EXTENDS Naturals, AccessControl

CONSTANTS
    Nobody,      \* null instead of a user
    Nowhere,     \* no navigation is going on
    Kinds,       \* "oauth2" or "fake": which AuthService is provided
    Provided,    \* what the identity provider may say of the user
    MaxClicks    \* bound of the model: what the user does, apart from signing in

ASSUME NobodyAssumption == \A roles \in SUBSET (Roles \cup {Unknown}) : roles # Nobody
ASSUME ProvidedAssumption == Provided \subseteq Claims
ASSUME ClicksAssumption == MaxClicks \in Nat
ASSUME KindsAssumption == Kinds \subseteq {"oauth2", "fake"}

VARIABLES
    kind,        \* which AuthService it is
    claims,      \* what the identity provider says of the user
    token,       \* the access token in the session storage
    viewer,      \* viewer mode, in the local storage
    page,        \* the page that is shown
    going,       \* the page the router is going to
    user,        \* currentUserSubject: the roles of the user
    app,         \* what else is in the memory of the tab
    clicks

vars == <<kind, claims, token, viewer, page, going, user, app, clicks>>

-----------------------------------------------------------------------------
\* "home" is any page with the navbar and no guard, "manage" one for managers;
\* "idp" is the site of the identity provider, "start" a page not shown yet.
Content == {"home", "manage"}
Routes == Content \cup {"login", "callback", "403", "404"}
Pages == Routes \cup {"start", "idp"}
ASSUME NowhereAssumption == Nowhere \notin Pages

App == [discovery : {"loading", "loaded", "failed"},  \* the discovery document
        exchange  : {"none", "code", "refresh"},      \* the request for a token
        hasCode   : BOOLEAN,    \* the address the tab was loaded with has a code
        subs      : Nat,        \* callback pages, shown or gone, subscribed to the user
        timer     : BOOLEAN,    \* the time-out of the callback page that is shown
        waiting   : BOOLEAN,    \* the login page that is shown waits for isReady
        lateWaits : Nat,        \* login pages that are gone and still wait
        counting  : BOOLEAN,    \* the login page that is shown counts down
        lateCounts : Nat,       \* countdowns of login pages that are gone
        navbar    : BOOLEAN,    \* a navbar was made, which is subscribed to the user for good
        redirects : Nat,        \* timers of error pages, shown or gone
        logins    : Nat]        \* timers of FakeAuthService.login

TypeOK ==
    /\ kind \in Kinds
    /\ claims \in Provided
    /\ token \in Token
    /\ viewer \in BOOLEAN
    /\ page \in Pages
    /\ going \in Routes \cup {Nowhere}
    /\ user \in {Nobody} \cup SUBSET (Roles \cup {Unknown})
    /\ app \in App
    /\ clicks \in 0..MaxClicks

Manages(u) == u # Nobody /\ "manager" \in u

\* The identity claims are stored with the token, and read whether or not it is valid.
\* claimsToUserMapper throws if one of them is missing.
Mapped(t) == t.held => t.claims.complete
StoredUser(t) == IF t.held THEN RolesOf(t.claims) ELSE Nobody

FreshApp(hasCode) ==
    [discovery |-> IF kind = "fake" THEN "loaded" ELSE "loading", exchange |-> "none",
     hasCode |-> hasCode, subs |-> 0, timer |-> FALSE, waiting |-> FALSE, lateWaits |-> 0,
     counting |-> FALSE, lateCounts |-> 0, navbar |-> FALSE, redirects |-> 0, logins |-> 0]

\* The document is loaded and the AuthService made; FakeAuthService is logged in by
\* its configuration, and replaces the token.  If the constructor of OAuth2Service
\* throws, nothing is shown and the router goes nowhere, but the library goes on.
Load(p, hasCode) ==
    /\ page' = "start"
    /\ going' = IF kind = "fake" \/ Mapped(token) THEN p ELSE Nowhere
    /\ app' = FreshApp(hasCode)
    /\ token' = IF kind = "fake" THEN TokenFor(FakeClaims) ELSE token
    /\ user' = IF kind = "fake" THEN Roles
               ELSE IF Mapped(token) THEN StoredUser(token) ELSE Nobody

Init ==
    /\ kind \in Kinds
    /\ claims \in Provided
    /\ token = IF kind = "fake" THEN TokenFor(FakeClaims) ELSE NoToken
    /\ viewer = FALSE
    /\ page = "start" /\ going \in Routes
    /\ user = IF kind = "fake" THEN Roles ELSE Nobody
    /\ app = FreshApp(FALSE)
    /\ clicks = 0

\* initCodeFlow: the tab leaves the application, whose memory is lost.
LeaveForProvider ==
    /\ page' = "idp" /\ going' = Nowhere
    /\ app' = FreshApp(FALSE) /\ user' = Nobody

-----------------------------------------------------------------------------
(* The router *)

Left(a) ==
    CASE page = "callback" -> [a EXCEPT !.timer = FALSE]
      [] page = "login" ->
            [a EXCEPT !.waiting = FALSE, !.counting = FALSE,
                      !.lateWaits = IF a.waiting THEN @ + 1 ELSE @]
      [] OTHER -> a

\* A guard turns a navigation into another one; the page that is shown already
\* is not made again.
Refused == going = "manage" /\ ~Manages(user)
Redirect ==
    /\ Refused
    /\ going' = "403"
    /\ UNCHANGED <<kind, claims, token, viewer, page, user, app, clicks>>

StayHere ==
    /\ going = page /\ ~Refused
    /\ going' = Nowhere
    /\ UNCHANGED <<kind, claims, token, viewer, page, user, app, clicks>>

Arrives(p) == going = p /\ page # p /\ ~Refused

\* NavbarComponent.ngOnInit
ShowContent ==
    /\ \E p \in Content : Arrives(p)
    /\ page' = going /\ going' = Nowhere
    /\ app' = [Left(app) EXCEPT !.navbar = TRUE]
    /\ viewer' = (viewer /\ Manages(user))
    /\ UNCHANGED <<kind, claims, token, user, clicks>>

\* ErrorPageComponent.ngOnInit: its timer is not cleared.
ShowError ==
    /\ Arrives("403") \/ Arrives("404")
    /\ page' = going /\ going' = Nowhere
    /\ app' = [Left(app) EXCEPT !.redirects = @ + 1]
    /\ UNCHANGED <<kind, claims, token, viewer, user, clicks>>

\* AuthCallbackComponent.ngOnInit: the user there is, if any, comes at once.
ShowCallback ==
    /\ Arrives("callback")
    /\ page' = "callback"
    /\ going' = IF user # Nobody THEN "home" ELSE Nowhere
    /\ app' = [Left(app) EXCEPT !.subs = @ + 1, !.timer = user = Nobody]
    /\ UNCHANGED <<kind, claims, token, viewer, user, clicks>>

\* The page of /auth/login, which the resolver chooses.  OAuth2LoginComponent calls
\* login, which waits for isReady, or leaves at once.
ShowLogin ==
    /\ Arrives("login") /\ kind = "oauth2" /\ app.discovery # "loaded"
    /\ page' = "login" /\ going' = Nowhere
    /\ app' = [Left(app) EXCEPT !.waiting = TRUE]
    /\ UNCHANGED <<kind, claims, token, viewer, user, clicks>>

LoginAtOnce ==
    /\ Arrives("login") /\ kind = "oauth2" /\ app.discovery = "loaded"
    /\ LeaveForProvider
    /\ UNCHANGED <<kind, claims, token, viewer, clicks>>

\* FakeLoginComponent and FakeAuthService.login
ShowFakeLogin ==
    /\ Arrives("login") /\ kind = "fake"
    /\ page' = "login" /\ going' = Nowhere
    /\ app' = [Left(app) EXCEPT !.logins = @ + 1]
    /\ UNCHANGED <<kind, claims, token, viewer, user, clicks>>

\* NavbarComponent.isLoggedIn, which the template calls
SendToLogin ==
    /\ page \in Content /\ user = Nobody /\ going # "login"
    /\ going' = "login"
    /\ UNCHANGED <<kind, claims, token, viewer, page, user, app, clicks>>

-----------------------------------------------------------------------------
(* OAuth2Service and its events *)

\* updateCurrentUser: every subscribed callback page, shown or gone, navigates, and
\* every navbar takes the viewer mode from who is not a manager.  If it throws nobody
\* hears of the token.
Updated(t) ==
    IF Mapped(t)
    THEN /\ user' = StoredUser(t)
         /\ viewer' = (viewer /\ (app.navbar => Manages(StoredUser(t))))
    ELSE UNCHANGED <<user, viewer>>

Announced(t) == Mapped(t) /\ StoredUser(t) # Nobody

DiscoveryLoaded ==
    /\ page # "idp" /\ app.discovery = "loading"
    /\ IF app.waiting \/ app.lateWaits > 0
       THEN LeaveForProvider /\ UNCHANGED viewer
       ELSE /\ Updated(token)
            /\ going' = IF Announced(token) /\ app.subs > 0 THEN "home" ELSE going
            /\ app' = [app EXCEPT !.discovery = "loaded",
                                  !.timer = @ /\ ~Announced(token),
                                  !.exchange = IF app.hasCode THEN "code" ELSE "none"]
            /\ UNCHANGED page
    /\ UNCHANGED <<kind, claims, token, clicks>>

\* Nobody asks for it again.
DiscoveryFails ==
    /\ page # "idp" /\ app.discovery = "loading"
    /\ app' = [app EXCEPT !.discovery = "failed"]
    /\ UNCHANGED <<kind, claims, token, viewer, page, going, user, clicks>>

\* setupAutomaticSilentRefresh
StartRefresh ==
    /\ kind = "oauth2" /\ page # "idp" /\ token.held
    /\ app.discovery = "loaded" /\ app.exchange = "none"
    /\ app' = [app EXCEPT !.exchange = "refresh"]
    /\ UNCHANGED <<kind, claims, token, viewer, page, going, user, clicks>>

\* Mutant: the tab goes to the default page wherever it is.
TokenReceivedAnywhere ==
    /\ app.exchange # "none"
    /\ token' = TokenFor(claims)
    /\ Updated(token')
    /\ going' = IF Announced(token') THEN "home" ELSE going
    /\ app' = [app EXCEPT !.exchange = "none", !.timer = @ /\ ~Announced(token')]
    /\ UNCHANGED <<kind, claims, page, clicks>>

\* Mutant: a new token does not make a new user.
TokenReceivedQuietly ==
    /\ app.exchange # "none"
    /\ token' = TokenFor(claims)
    /\ IF user = Nobody THEN Updated(token') ELSE UNCHANGED <<user, viewer>>
    /\ going' = IF Announced(token') /\ app.subs > 0 THEN "home" ELSE going
    /\ app' = [app EXCEPT !.exchange = "none", !.timer = @ /\ ~Announced(token')]
    /\ UNCHANGED <<kind, claims, page, clicks>>

\* Mutant: the navbar keeps the viewer mode of who is a manager no more.
TokenReceivedViewing ==
    /\ app.exchange # "none"
    /\ token' = TokenFor(claims)
    /\ user' = IF Mapped(token') THEN StoredUser(token') ELSE user
    /\ going' = IF Announced(token') /\ app.subs > 0 THEN "home" ELSE going
    /\ app' = [app EXCEPT !.exchange = "none", !.timer = @ /\ ~Announced(token')]
    /\ UNCHANGED <<kind, claims, page, viewer, clicks>>

\* handleTokenReceived and handleTokenRefreshed, one after the other.  No route asks
\* for a login with returnTo, so the state is empty.  The callback page's own timer
\* goes on if there is no user.
TokenReceived ==
    /\ app.exchange # "none"
    /\ token' = TokenFor(claims)
    /\ Updated(token')
    /\ going' = IF Announced(token') /\ (page = "callback" \/ app.subs > 0)
                THEN "home" ELSE going
    /\ app' = [app EXCEPT !.exchange = "none", !.timer = @ /\ ~Announced(token')]
    /\ UNCHANGED <<kind, claims, page, clicks>>

\* handleTokenRefreshError
TokenRefreshError ==
    /\ app.exchange # "none"
    /\ going' = IF page = "callback" THEN "home" ELSE going
    /\ app' = [app EXCEPT !.exchange = "none"]
    /\ UNCHANGED <<kind, claims, token, viewer, page, user, clicks>>

\* token_validation_error, which has no handler
TokenInvalid ==
    /\ app.exchange # "none"
    /\ app' = [app EXCEPT !.exchange = "none"]
    /\ UNCHANGED <<kind, claims, token, viewer, page, going, user, clicks>>

TokenExpires ==
    /\ kind = "oauth2" /\ token.fresh
    /\ token' = [token EXCEPT !.fresh = FALSE]
    /\ UNCHANGED <<kind, claims, viewer, page, going, user, app, clicks>>

-----------------------------------------------------------------------------
(* Timers *)

CallbackTimeout ==
    /\ app.timer
    /\ going' = "404"
    /\ app' = [app EXCEPT !.timer = FALSE]
    /\ UNCHANGED <<kind, claims, token, viewer, page, user, clicks>>

\* Mutant: only OAuth2Service hears of the error of login.
LoginTimeoutUnnoticed ==
    /\ app.discovery # "loaded"
    /\ \/ app.waiting /\ app' = [app EXCEPT !.waiting = FALSE]
       \/ app.lateWaits > 0 /\ app' = [app EXCEPT !.lateWaits = @ - 1]
    /\ UNCHANGED <<kind, claims, token, viewer, page, going, user, clicks>>

\* isReady gives up, login throws, and the login page, shown or gone, counts down.
LoginTimeout ==
    /\ app.discovery # "loaded"
    /\ \/ /\ app.waiting
          /\ app' = [app EXCEPT !.waiting = FALSE, !.counting = TRUE]
       \/ /\ app.lateWaits > 0
          /\ app' = [app EXCEPT !.lateWaits = @ - 1, !.lateCounts = @ + 1]
    /\ UNCHANGED <<kind, claims, token, viewer, page, going, user, clicks>>

CountedDown ==
    /\ \/ app.counting /\ app' = [app EXCEPT !.counting = FALSE]
       \/ app.lateCounts > 0 /\ app' = [app EXCEPT !.lateCounts = @ - 1]
    /\ going' = "home"
    /\ UNCHANGED <<kind, claims, token, viewer, page, user, clicks>>

\* Mutant: the timer is an interval.
ErrorRedirectAgain ==
    /\ page \in {"403", "404"}
    /\ app' = [app EXCEPT !.redirects = @ - 1]
    /\ going' = "home"
    /\ UNCHANGED <<kind, claims, token, viewer, page, user, clicks>>

ErrorRedirect ==
    /\ app.redirects > 0
    /\ app' = [app EXCEPT !.redirects = @ - 1]
    /\ going' = "home"
    /\ UNCHANGED <<kind, claims, token, viewer, page, user, clicks>>

\* The end of FakeAuthService.login
FakeLoginDone ==
    /\ app.logins > 0
    /\ app' = [app EXCEPT !.logins = @ - 1]
    /\ token' = TokenFor(FakeClaims) /\ user' = Roles
    /\ going' = "home"
    /\ UNCHANGED <<kind, claims, viewer, page, clicks>>

-----------------------------------------------------------------------------
(* The user and the identity provider *)

Click == clicks < MaxClicks /\ clicks' = clicks + 1

\* A link, or the browser's way back
UserGoes(p) ==
    /\ Click /\ page \in Routes /\ p # page
    /\ going' = p
    /\ UNCHANGED <<kind, claims, token, viewer, page, user, app>>

\* An address typed in, or a reload
UserLoads(p) ==
    /\ Click
    /\ Load(p, FALSE)
    /\ UNCHANGED <<kind, claims, viewer>>

ToggleViewerMode ==
    /\ Click /\ page \in Content /\ Manages(user)
    /\ viewer' = ~viewer
    /\ going' = IF viewer' THEN "home" ELSE "manage"
    /\ UNCHANGED <<kind, claims, token, page, user, app>>

\* revokeTokenAndLogout ends at the provider; if the revocation fails nothing happens.
Logout ==
    /\ Click /\ page \in Content /\ user # Nobody
    /\ IF kind = "oauth2"
       THEN LeaveForProvider
       ELSE user' = Nobody /\ viewer' = FALSE /\ UNCHANGED <<page, going, app>>
    /\ token' = NoToken
    /\ UNCHANGED <<kind, claims>> /\ (kind = "oauth2" => UNCHANGED viewer)

\* The provider sends the tab back, with a code or with an error; or the user goes.
ProviderReturns ==
    /\ page = "idp"
    /\ \/ \E hasCode \in BOOLEAN : Load("callback", hasCode)
       \/ Load("home", FALSE)
    /\ UNCHANGED <<kind, claims, viewer, clicks>>

\* Somebody changes the groups of the user, or what the provider puts into its tokens.
ClaimsChange(c) ==
    /\ Click /\ claims' = c
    /\ UNCHANGED <<kind, token, viewer, page, going, user, app>>

-----------------------------------------------------------------------------
Arrive == Redirect \/ StayHere \/ ShowContent \/ ShowError \/ ShowCallback
          \/ ShowLogin \/ LoginAtOnce \/ ShowFakeLogin

UserNavigates == (\E p \in Routes : UserGoes(p) \/ UserLoads(p)) \/ ToggleViewerMode \/ Logout

Next ==
    \/ Arrive \/ SendToLogin
    \/ DiscoveryLoaded \/ DiscoveryFails
    \/ StartRefresh \/ TokenReceived \/ TokenRefreshError \/ TokenInvalid \/ TokenExpires
    \/ CallbackTimeout \/ LoginTimeout \/ CountedDown \/ ErrorRedirect \/ FakeLoginDone
    \/ UserNavigates \/ ProviderReturns
    \/ \E c \in Provided : ClaimsChange(c)

\* The browser goes on with navigations and timers, and requests are answered.
\* Nothing makes the user or the identity provider do anything.
Fairness ==
    /\ WF_vars(Arrive) /\ WF_vars(SendToLogin)
    /\ WF_vars(DiscoveryLoaded \/ DiscoveryFails)
    /\ WF_vars(CallbackTimeout) /\ WF_vars(LoginTimeout) /\ WF_vars(CountedDown)
    /\ WF_vars(FakeLoginDone)

Spec == Init /\ [][Next]_vars
FairSpec == Spec /\ Fairness

-----------------------------------------------------------------------------
(* Properties *)

\* Whatever order claims, renewals and reloads come in, the user the application
\* knows has the roles of the token it sends (oauth2.service.ts:276), unless that is
\* one the mapper makes no user of, which leaves the user that was there.
UserIsOfToken ==
    user # Nobody /\ token.held /\ token.claims.complete => user = RolesOf(token.claims)

\* The application and the backend agree about who manages: what is offered to a
\* manager with a valid token is not refused, and nothing is done for others, who
\* have neither the role nor, without a roles claim, the group.  A token that one
\* side makes no user of, or with a role only the backend's table is asked about,
\* is refused although the application may show the user as a manager.
Understood(c) == c.complete /\ Unknown \notin RolesOf(c)
MadeManager(c) == IF c.roles = NoRoles THEN "NetixManagers" \in c.groups ELSE "manager" \in c.roles
GuardsAgree ==
    \A h \in Handlers :
        /\ Manages(user) /\ token.fresh /\ Understood(token.claims) => Answer(kind, token, h) = "handled"
        /\ Answer(kind, token, h) = "handled" => Understood(token.claims) /\ MadeManager(token.claims)

\* Viewer mode, which hides the tools of managers and is kept over reloads, is
\* never left on for somebody who has no switch to turn it off (navbar.component.ts:37).
ViewerModeIsManagers == page \in Content /\ viewer => Manages(user)

\* Somebody signed in is only taken from a page of content by what an earlier page has
\* left behind: a callback page subscribed to the user, the timer of an error page, or
\* a login page that waits or counts down.
LeftBehind == app.subs > 0 \/ app.redirects > 0 \/ app.lateCounts > 0 \/ app.lateWaits > 0 \/ app.logins > 0
SignedInStays ==
    [][(page \in Content /\ user # Nobody /\ going = Nowhere /\ <<page, going>>' # <<page, going>>) =>
          (UserNavigates \/ LeftBehind)]_vars

\* Neither the callback page nor the login page keeps anybody, whatever is not
\* answered: their time-outs see to it.
SignInPagesEnd ==
    /\ page = "callback" ~> page # "callback"
    /\ page = "login" ~> page # "login"

=============================================================================
