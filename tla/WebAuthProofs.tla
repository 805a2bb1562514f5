---------------------------- MODULE WebAuthProofs ----------------------------
(***************************************************************************)
(* What is proved of WebAuth, for either service and any number of clicks: *)
(* the user shown is the one of the token, the two sides agree about       *)
(* managers, viewer mode is a manager's, and nobody is taken away from a   *)
(* page of content but by what an earlier page has left behind.            *)
(***************************************************************************)
EXTENDS WebAuth, TLAPS

-----------------------------------------------------------------------------
(* The inductive invariant *)

\* A token that has not expired is there.
FreshIsHeld == token.fresh => token.held

\* There is no user without a token, which may have expired since; unless no user can be
\* made of it, it is this user's.
UserHasToken ==
    user # Nobody => token.held /\ (token.claims.complete => user = RolesOf(token.claims))

\* The navbar, which takes the viewer mode away, was made with the page.
NavbarIsThere == page \in Content => app.navbar

\* What a page starts and stops when it goes is going on only on that page.
TimersOfPage ==
    /\ app.timer => page = "callback"
    /\ app.waiting \/ app.counting => page = "login"

\* FakeAuthService asks nobody for anything, and makes its tokens itself.
AsksNobody(a) == a.exchange = "none" /\ a.discovery = "loaded"
FakeTokens ==
    kind = "fake" => AsksNobody(app) /\ (token.held => token.claims.complete)

WebInv ==
    /\ TypeOK /\ FakeTokens
    /\ FreshIsHeld /\ UserHasToken
    /\ NavbarIsThere /\ ViewerModeIsManagers /\ TimersOfPage

-----------------------------------------------------------------------------
(* Roles and permissions *)

\* The role of a manager is listed, or comes from one group if there is no list.
LEMMA RolesOfClaims ==
    ASSUME NEW c \in Claims
    PROVE  /\ RolesOf(c) \in SUBSET (Roles \cup {Unknown})
           /\ "manager" \in RolesOf(c) <=> MadeManager(c)
  <1>1. c.groups \in SUBSET Groups /\ c.roles \in {NoRoles} \cup SUBSET (Roles \cup {Unknown})
    BY DEF Claims
  <1>2. CASE c.roles = NoRoles
    <2>1. RolesOf(c) = {RoleOfGroup[g] : g \in c.groups}
      BY <1>2 DEF RolesOf
    <2>2. \A g \in Groups : RoleOfGroup[g] \in Roles /\ (RoleOfGroup[g] = "manager" <=> g = "NetixManagers")
      BY DEF RoleOfGroup, Groups, Roles
    <2>3. RolesOf(c) \in SUBSET Roles /\ ("manager" \in RolesOf(c) <=> "NetixManagers" \in c.groups)
      BY <1>1, <2>1, <2>2
    <2> QED
      BY <1>2, <2>3 DEF MadeManager
  <1>3. CASE c.roles # NoRoles
    BY <1>1, <1>3 DEF RolesOf, MadeManager
  <1> QED
    BY <1>2, <1>3

\* FakeAuthService lists all roles in its token.
LEMMA AllRoles ==
    FakeClaims \in Claims /\ RolesOf(FakeClaims) = Roles
  <1>1. Roles # NoRoles
    BY NoRolesAssumption
  <1> QED
    BY <1>1 DEF FakeClaims, Claims, RolesOf

\* A manager has the permission every handler asks for, and nobody else has one; a role
\* that is unknown gets nobody anything.
LEMMA ManagersPermission ==
    ASSUME NEW roles \in SUBSET (Roles \cup {Unknown}), NEW h \in Handlers
    PROVE  HasPermission(roles, Required[h]) <=> "manager" \in roles /\ Unknown \notin roles
  <1>1. Required[h] \in {"CreateTitle", "ImportTitle", "UpdateTitle", "DeleteTitle"}
    BY DEF Handlers, Required
  <1>2. Required[h] \in PermissionsOf["manager"] /\ Required[h] \notin PermissionsOf["viewer"]
    BY <1>1 DEF PermissionsOf
  <1> QED
    BY <1>2 DEF HasPermission, Roles

-----------------------------------------------------------------------------
(* Types *)

LEMMA TokenTypes ==
    /\ NoToken \in Token
    /\ \A c \in Claims : TokenFor(c) \in Token
    /\ \A c \in Claims : TokenFor(c).held /\ TokenFor(c).fresh /\ TokenFor(c).claims = c
    /\ ~NoToken.held /\ ~NoToken.fresh
    /\ \A t \in Token : StoredUser(t) \in {Nobody} \cup SUBSET (Roles \cup {Unknown})
  <1>1. NoClaims \in Claims
    BY DEF NoClaims, Claims
  <1>2. \A t \in Token : RolesOf(t.claims) \in SUBSET (Roles \cup {Unknown})
    BY RolesOfClaims DEF Token
  <1> QED
    BY <1>1, <1>2 DEF NoToken, TokenFor, Token, StoredUser

LEMMA FreshAppType ==
    ASSUME NEW hasCode \in BOOLEAN
    PROVE  FreshApp(hasCode) \in App
  BY DEF FreshApp, App

LEMMA FreshAppTimers ==
    ASSUME NEW hasCode \in BOOLEAN
    PROVE  /\ ~FreshApp(hasCode).timer /\ ~FreshApp(hasCode).waiting
           /\ ~FreshApp(hasCode).counting
  BY DEF FreshApp

\* What a page that is left leaves behind.
LEMMA LeftType ==
    ASSUME app \in App
    PROVE  /\ Left(app) \in App /\ (AsksNobody(app) => AsksNobody(Left(app)))
           /\ page = "callback" \/ ~app.timer => ~Left(app).timer
           /\ page = "login" \/ ~(app.waiting \/ app.counting) =>
                 ~Left(app).waiting /\ ~Left(app).counting
  <1>1. CASE page = "callback"
    BY <1>1 DEF Left, App, AsksNobody
  <1>2. CASE page = "login"
    <2>1. app.waiting \in BOOLEAN /\ app.lateWaits \in Nat
      BY DEF App
    <2>2. PICK n \in Nat : n = IF app.waiting THEN app.lateWaits + 1 ELSE app.lateWaits
      BY <2>1
    <2>3. Left(app) = [app EXCEPT !.waiting = FALSE, !.counting = FALSE, !.lateWaits = n]
      BY <1>2, <2>2 DEF Left
    <2> QED
      BY <1>2, <2>3 DEF App, AsksNobody
  <1>3. CASE page \notin {"callback", "login"}
    BY <1>3 DEF Left, App, AsksNobody
  <1> QED
    BY <1>1, <1>2, <1>3

\* With TimersOfPage nothing that belongs to a page goes on when it is left.
LEMMA LeftIsQuiet ==
    ASSUME app \in App, TimersOfPage
    PROVE  /\ Left(app) \in App /\ (AsksNobody(app) => AsksNobody(Left(app)))
           /\ ~Left(app).timer /\ ~Left(app).waiting /\ ~Left(app).counting
  BY LeftType DEF TimersOfPage

\* The user that is read from a token has the token.
LEMMA StoredUserHasToken ==
    ASSUME NEW t \in Token, StoredUser(t) # Nobody
    PROVE  t.held /\ StoredUser(t) = RolesOf(t.claims)
  BY DEF StoredUser

-----------------------------------------------------------------------------
(* The steps that only choose where to go, or only change the application's memory *)

\* A step that only turns the router around.
LEMMA GoingStep ==
    ASSUME WebInv, UNCHANGED <<kind, claims, token, viewer, page, user, app>>,
           going' \in Routes \cup {Nowhere}, clicks' \in 0..MaxClicks
    PROVE  WebInv'
  BY DEF WebInv, TypeOK, FreshIsHeld, UserHasToken, NavbarIsThere, ViewerModeIsManagers,
         TimersOfPage, Manages, Content, FakeTokens

\* A step that is taken on a page and leaves page, user, token and viewer mode alone.
LEMMA MemoryStep ==
    ASSUME WebInv, UNCHANGED <<kind, claims, token, viewer, page, user, clicks>>,
           going' \in Routes \cup {Nowhere},
           app' \in App, app'.navbar = app.navbar,
           kind = "fake" /\ AsksNobody(app) => AsksNobody(app'),
           app'.timer => app.timer,
           app'.waiting => app.waiting,
           app'.counting => app.waiting \/ app.counting
    PROVE  WebInv'
  <1>1. TypeOK'
    BY DEF WebInv, TypeOK
  <1>2. FreshIsHeld' /\ UserHasToken'
    BY DEF WebInv, FreshIsHeld, UserHasToken
  <1>3. NavbarIsThere' /\ ViewerModeIsManagers'
    BY DEF WebInv, NavbarIsThere, ViewerModeIsManagers, Manages, Content
  <1>4. TimersOfPage'
    BY DEF WebInv, TimersOfPage
  <1>5. FakeTokens'
    BY DEF WebInv, FakeTokens, AsksNobody
  <1> QED
    BY <1>1, <1>2, <1>3, <1>4, <1>5 DEF WebInv

\* A step that shows a page without content.
LEMMA PageStep ==
    ASSUME WebInv, UNCHANGED <<kind, claims, token, viewer, user, clicks>>,
           page' \in Pages \ Content, going' \in Routes \cup {Nowhere},
           app' \in App, AsksNobody(app) => AsksNobody(app'),
           app'.timer => page' = "callback",
           app'.waiting \/ app'.counting => page' = "login"
    PROVE  WebInv'
  <1>1. TypeOK'
    BY DEF WebInv, TypeOK
  <1>2. FreshIsHeld' /\ UserHasToken'
    BY DEF WebInv, FreshIsHeld, UserHasToken
  <1>3. NavbarIsThere' /\ ViewerModeIsManagers' /\ TimersOfPage'
    BY DEF NavbarIsThere, ViewerModeIsManagers, TimersOfPage, Content
  <1>4. FakeTokens'
    BY DEF WebInv, FakeTokens, AsksNobody
  <1> QED
    BY <1>1, <1>2, <1>3, <1>4 DEF WebInv

\* Every document starts with an empty memory, on a page with no content.
LEMMA FreshStep ==
    ASSUME WebInv, UNCHANGED <<kind, claims>>,
           page' \in {"start", "idp"}, going' \in Routes \cup {Nowhere},
           NEW hasCode \in BOOLEAN, app' = FreshApp(hasCode),
           viewer' \in BOOLEAN, clicks' \in 0..MaxClicks,
           token' \in Token, token'.fresh => token'.held,
           kind = "fake" /\ token'.held => token'.claims.complete,
           user' \in {Nobody} \cup SUBSET (Roles \cup {Unknown}),
           user' # Nobody => token'.held /\ user' = RolesOf(token'.claims)
    PROVE  WebInv'
  <1>1. TypeOK'
    BY FreshAppType DEF WebInv, TypeOK, Pages
  <1>2. FreshIsHeld' /\ UserHasToken'
    BY DEF FreshIsHeld, UserHasToken
  <1>3. NavbarIsThere' /\ ViewerModeIsManagers'
    BY DEF NavbarIsThere, ViewerModeIsManagers, Content
  <1>4. TimersOfPage'
    BY FreshAppTimers DEF TimersOfPage
  <1>5. FakeTokens'
    BY DEF FakeTokens, AsksNobody, FreshApp
  <1> QED
    BY <1>1, <1>2, <1>3, <1>4, <1>5 DEF WebInv

-----------------------------------------------------------------------------
(* One lemma per group of actions *)

\* The router, which is turned around, stays or shows a page.
LEMMA ArriveInv ==
    ASSUME WebInv, Arrive
    PROVE  WebInv'
  <1> USE DEF WebInv
  <1>1. /\ app \in App /\ Left(app) \in App /\ going \in Routes \cup {Nowhere}
        /\ ~Left(app).timer /\ ~Left(app).waiting /\ ~Left(app).counting
        /\ AsksNobody(app) => AsksNobody(Left(app))
    BY LeftIsQuiet DEF TypeOK
  <1>2. CASE Redirect \/ StayHere
    <2>1. /\ UNCHANGED <<kind, claims, token, viewer, page, user, app, clicks>>
          /\ going' \in {"403", Nowhere}
      BY <1>2 DEF Redirect, StayHere
    <2> QED
      BY <2>1, GoingStep DEF TypeOK, Routes
  <1>3. CASE ShowContent
    <2>1. app' = [Left(app) EXCEPT !.navbar = TRUE] /\ page' \in Content
      BY <1>3 DEF ShowContent, Arrives
    <2>2. /\ app' \in App /\ app'.navbar /\ (AsksNobody(app) => AsksNobody(app'))
          /\ ~app'.timer /\ ~app'.waiting /\ ~app'.counting
      BY <1>1, <2>1 DEF App, AsksNobody
    <2>3. TypeOK'
      <3>1. viewer' \in BOOLEAN
        BY <1>3 DEF ShowContent, TypeOK
      <3> QED
        BY <1>3, <2>1, <2>2, <3>1 DEF ShowContent, TypeOK, Pages, Routes
    <2>4. FreshIsHeld' /\ UserHasToken' /\ FakeTokens'
      BY <1>3, <2>2 DEF ShowContent, FreshIsHeld, UserHasToken, FakeTokens
    <2>5. NavbarIsThere' /\ TimersOfPage'
      BY <2>2 DEF NavbarIsThere, TimersOfPage
    <2>6. ViewerModeIsManagers'
      BY <1>3 DEF ShowContent, ViewerModeIsManagers, Manages
    <2> QED
      BY <2>3, <2>4, <2>5, <2>6
  <1>4. CASE ShowError
    <2>1. app' = [Left(app) EXCEPT !.redirects = @ + 1] /\ page' \in {"403", "404"}
      BY <1>4 DEF ShowError, Arrives
    <2>2. /\ app' \in App /\ ~app'.timer /\ ~app'.waiting /\ ~app'.counting
          /\ AsksNobody(app) => AsksNobody(app')
      BY <1>1, <2>1 DEF App, AsksNobody
    <2> QED
      BY <1>4, <2>1, <2>2, PageStep DEF ShowError, Pages, Routes, Content
  <1>5. CASE ShowCallback
    <2>1. app' = [Left(app) EXCEPT !.subs = @ + 1, !.timer = user = Nobody]
      BY <1>5 DEF ShowCallback
    <2>2. /\ app' \in App /\ ~app'.waiting /\ ~app'.counting
          /\ AsksNobody(app) => AsksNobody(app')
      <3>1. PICK n \in Nat : n = Left(app).subs + 1
        BY <1>1 DEF App
      <3>2. PICK b \in BOOLEAN : b = (user = Nobody)
        OBVIOUS
      <3>3. app' = [Left(app) EXCEPT !.subs = n, !.timer = b]
        BY <2>1, <3>1, <3>2
      <3> QED
        BY <1>1, <3>3 DEF App, AsksNobody
    <2>3. page' = "callback" /\ going' \in Routes \cup {Nowhere}
      BY <1>5 DEF ShowCallback, Routes, Content
    <2> QED
      BY <1>5, <2>2, <2>3, PageStep DEF ShowCallback, Pages, Routes, Content
  <1>6. CASE ShowLogin
    <2>1. app' = [Left(app) EXCEPT !.waiting = TRUE]
      BY <1>6 DEF ShowLogin
    <2>2. app' \in App /\ ~app'.timer /\ (AsksNobody(app) => AsksNobody(app'))
      BY <1>1, <2>1 DEF App, AsksNobody
    <2> QED
      BY <1>6, <2>2, PageStep DEF ShowLogin, Pages, Routes, Content
  <1>7. CASE LoginAtOnce
    <2>1. page' = "idp" /\ app' = FreshApp(FALSE) /\ user' = Nobody
      BY <1>7 DEF LoginAtOnce, LeaveForProvider
    <2> QED
      BY <1>7, <2>1, FreshStep DEF LoginAtOnce, LeaveForProvider, TypeOK, FreshIsHeld, FakeTokens
  <1>8. CASE ShowFakeLogin
    <2>1. app' = [Left(app) EXCEPT !.logins = @ + 1]
      BY <1>8 DEF ShowFakeLogin
    <2>2. /\ app' \in App /\ ~app'.timer /\ ~app'.waiting /\ ~app'.counting
          /\ AsksNobody(app) => AsksNobody(app')
      BY <1>1, <2>1 DEF App, AsksNobody
    <2> QED
      BY <1>8, <2>2, PageStep DEF ShowFakeLogin, Pages, Routes, Content
  <1> QED
    BY <1>2, <1>3, <1>4, <1>5, <1>6, <1>7, <1>8 DEF Arrive

\* A new user: the navbar, if there is one, has seen who it is.
LEMMA UpdatedViewer ==
    ASSUME TypeOK, NavbarIsThere, ViewerModeIsManagers, NEW t \in Token, Updated(t)
    PROVE  /\ viewer' \in BOOLEAN
           /\ page \in Content /\ viewer' => Manages(user)'
  BY DEF Updated, TypeOK, NavbarIsThere, ViewerModeIsManagers, Manages

\* The discovery document: without somebody waiting, the user is read from the token.
LEMMA DiscoveryInv ==
    ASSUME WebInv, DiscoveryLoaded \/ DiscoveryFails
    PROVE  WebInv'
  <1> USE DEF WebInv
  <1>1. app \in App /\ token \in Token /\ app.timer \in BOOLEAN
    BY DEF TypeOK, App
  <1>2. CASE DiscoveryFails
    <2>1. app' = [app EXCEPT !.discovery = "failed"]
      BY <1>2 DEF DiscoveryFails
    <2>2. /\ app' \in App /\ app'.navbar = app.navbar /\ app'.timer = app.timer
          /\ app'.waiting = app.waiting /\ app'.counting = app.counting
      BY <1>1, <2>1 DEF App
    <2> QED
      BY <1>2, <2>2, MemoryStep DEF DiscoveryFails, TypeOK, AsksNobody
  <1>3. CASE DiscoveryLoaded /\ (app.waiting \/ app.lateWaits > 0)
    <2>1. LeaveForProvider /\ UNCHANGED <<kind, claims, token, viewer, clicks>>
      BY <1>3 DEF DiscoveryLoaded
    <2> QED
      BY <2>1, FreshStep DEF LeaveForProvider, TypeOK, FreshIsHeld, FakeTokens
  <1>4. CASE DiscoveryLoaded /\ ~(app.waiting \/ app.lateWaits > 0)
    <2>1. /\ Updated(token) /\ UNCHANGED <<kind, claims, token, page, clicks>>
          /\ going' = IF Announced(token) /\ app.subs > 0 THEN "home" ELSE going
      BY <1>4 DEF DiscoveryLoaded
    <2>2. app' = [app EXCEPT !.discovery = "loaded",
                             !.timer = @ /\ ~Announced(token),
                             !.exchange = IF app.hasCode THEN "code" ELSE "none"]
      BY <1>4 DEF DiscoveryLoaded
    <2>3. /\ app' \in App /\ app'.navbar = app.navbar /\ (app'.timer => app.timer)
          /\ app'.waiting = app.waiting /\ app'.counting = app.counting
      BY <1>1, <2>2 DEF App
    <2>4. /\ user' = IF Mapped(token) THEN StoredUser(token) ELSE user
          /\ user' \in {Nobody} \cup SUBSET (Roles \cup {Unknown})
      BY <1>1, <2>1, TokenTypes DEF Updated, TypeOK
    <2>5. viewer' \in BOOLEAN /\ ViewerModeIsManagers'
      BY <1>1, <2>1, UpdatedViewer DEF ViewerModeIsManagers, Content
    <2>6. TypeOK'
      <3>1. going' \in Routes \cup {Nowhere}
        BY <2>1 DEF TypeOK, Routes, Content
      <3> QED
        BY <2>1, <2>3, <2>4, <2>5, <3>1 DEF TypeOK
    <2>7. FreshIsHeld' /\ UserHasToken'
      BY <1>1, <2>1, <2>4, StoredUserHasToken DEF FreshIsHeld, UserHasToken
    <2>8. NavbarIsThere' /\ TimersOfPage'
      BY <2>1, <2>3 DEF NavbarIsThere, TimersOfPage
    <2>9. FakeTokens'
      BY <1>4, <2>1 DEF FakeTokens, AsksNobody, DiscoveryLoaded
    <2> QED
      BY <2>5, <2>6, <2>7, <2>8, <2>9
  <1> QED
    BY <1>2, <1>3, <1>4

\* The request for a token and the timers, none of which makes a user.
LEMMA TimersInv ==
    ASSUME WebInv,
           \/ StartRefresh \/ TokenRefreshError \/ TokenInvalid
           \/ CallbackTimeout \/ LoginTimeout \/ CountedDown \/ ErrorRedirect
    PROVE  WebInv'
  <1>1. app \in App /\ going \in Routes \cup {Nowhere} /\ {"home", "404"} \subseteq Routes
    BY DEF WebInv, TypeOK, Routes, Content
  <1>2. CASE StartRefresh
    <2>1. app' = [app EXCEPT !.exchange = "refresh"]
      BY <1>2 DEF StartRefresh
    <2>2. /\ app' \in App /\ app'.navbar = app.navbar /\ app'.timer = app.timer
          /\ app'.waiting = app.waiting /\ app'.counting = app.counting
          /\ kind = "fake" /\ AsksNobody(app) => AsksNobody(app')
      BY <1>1, <1>2, <2>1 DEF App, AsksNobody, StartRefresh
    <2> QED
      BY <1>1, <1>2, <2>2, MemoryStep DEF StartRefresh
  <1>3. CASE TokenRefreshError \/ TokenInvalid
    <2>1. app' = [app EXCEPT !.exchange = "none"]
      BY <1>3 DEF TokenRefreshError, TokenInvalid
    <2>2. /\ app' \in App /\ app'.navbar = app.navbar /\ app'.timer = app.timer
          /\ app'.waiting = app.waiting /\ app'.counting = app.counting
          /\ kind = "fake" /\ AsksNobody(app) => AsksNobody(app')
      BY <1>1, <2>1 DEF App, AsksNobody
    <2>3. going' \in Routes \cup {Nowhere}
      BY <1>1, <1>3 DEF TokenRefreshError, TokenInvalid
    <2> QED
      BY <1>3, <2>2, <2>3, MemoryStep DEF TokenRefreshError, TokenInvalid
  <1>4. CASE CallbackTimeout
    <2>1. app' = [app EXCEPT !.timer = FALSE]
      BY <1>4 DEF CallbackTimeout
    <2>2. /\ app' \in App /\ app'.navbar = app.navbar /\ ~app'.timer
          /\ app'.waiting = app.waiting /\ app'.counting = app.counting
          /\ kind = "fake" /\ AsksNobody(app) => AsksNobody(app')
      BY <1>1, <2>1 DEF App, AsksNobody
    <2> QED
      BY <1>1, <1>4, <2>2, MemoryStep DEF CallbackTimeout
  <1>5. CASE LoginTimeout
    <2>1. \/ app.waiting /\ app' = [app EXCEPT !.waiting = FALSE, !.counting = TRUE]
          \/ /\ app.lateWaits > 0
             /\ app' = [app EXCEPT !.lateWaits = @ - 1, !.lateCounts = @ + 1]
      BY <1>5 DEF LoginTimeout
    <2>2. CASE app.waiting /\ app' = [app EXCEPT !.waiting = FALSE, !.counting = TRUE]
      <3>1. /\ app' \in App /\ app'.navbar = app.navbar /\ app'.timer = app.timer
            /\ ~app'.waiting /\ (AsksNobody(app) => AsksNobody(app'))
        BY <1>1, <2>2 DEF App, AsksNobody
      <3> QED
        BY <1>1, <1>5, <2>2, <3>1, MemoryStep DEF LoginTimeout
    <2>3. CASE /\ app.lateWaits > 0
               /\ app' = [app EXCEPT !.lateWaits = @ - 1, !.lateCounts = @ + 1]
      <3>1. PICK n \in Nat, m \in Nat : n = app.lateWaits - 1 /\ m = app.lateCounts + 1
        BY <1>1, <2>3 DEF App, AsksNobody
      <3>2. app' = [app EXCEPT !.lateWaits = n, !.lateCounts = m]
        BY <2>3, <3>1
      <3>3. /\ app' \in App /\ app'.navbar = app.navbar /\ app'.timer = app.timer
            /\ app'.waiting = app.waiting /\ app'.counting = app.counting
            /\ kind = "fake" /\ AsksNobody(app) => AsksNobody(app')
        BY <1>1, <3>2 DEF App, AsksNobody
      <3> QED
        BY <1>1, <1>5, <3>3, MemoryStep DEF LoginTimeout
    <2> QED
      BY <2>1, <2>2, <2>3
  <1>6. CASE CountedDown
    <2>1. \/ app' = [app EXCEPT !.counting = FALSE]
          \/ app.lateCounts > 0 /\ app' = [app EXCEPT !.lateCounts = @ - 1]
      BY <1>6 DEF CountedDown
    <2>2. /\ app' \in App /\ app'.navbar = app.navbar /\ app'.timer = app.timer
          /\ app'.waiting = app.waiting /\ (app'.counting => app.counting)
          /\ AsksNobody(app) => AsksNobody(app')
      <3>1. CASE app' = [app EXCEPT !.counting = FALSE]
        BY <1>1, <3>1 DEF App, AsksNobody
      <3>2. CASE app.lateCounts > 0 /\ app' = [app EXCEPT !.lateCounts = @ - 1]
        BY <1>1, <3>2 DEF App, AsksNobody
      <3> QED
        BY <2>1, <3>1, <3>2
    <2> QED
      BY <1>1, <1>6, <2>2, MemoryStep DEF CountedDown
  <1>7. CASE ErrorRedirect
    <2>1. app.redirects > 0 /\ app' = [app EXCEPT !.redirects = @ - 1]
      BY <1>7 DEF ErrorRedirect
    <2>2. /\ app' \in App /\ app'.navbar = app.navbar /\ app'.timer = app.timer
          /\ app'.waiting = app.waiting /\ app'.counting = app.counting
          /\ kind = "fake" /\ AsksNobody(app) => AsksNobody(app')
      BY <1>1, <2>1 DEF App, AsksNobody
    <2> QED
      BY <1>1, <1>7, <2>2, MemoryStep DEF ErrorRedirect
  <1> QED
    BY <1>2, <1>3, <1>4, <1>5, <1>6, <1>7

\* Tokens come and expire: who has one that was issued to the user is that user.
LEMMA TokenInv ==
    ASSUME WebInv, TokenReceived \/ TokenExpires \/ FakeLoginDone
    PROVE  WebInv'
  <1>1. /\ app \in App /\ token \in Token /\ claims \in Claims /\ "home" \in Routes
        /\ app.timer \in BOOLEAN
    BY ProvidedAssumption DEF WebInv, TypeOK, Routes, Content, App
  <1>2. CASE TokenReceived
    <2>1. /\ token' = TokenFor(claims) /\ UNCHANGED <<kind, claims, page, clicks>>
          /\ going' \in {"home", going} /\ Updated(TokenFor(claims))
      BY <1>2 DEF TokenReceived
    <2>2. app' = [app EXCEPT !.exchange = "none", !.timer = @ /\ ~Announced(TokenFor(claims))]
      BY <1>2, <2>1 DEF TokenReceived
    <2>3. /\ app' \in App /\ app'.navbar = app.navbar /\ (app'.timer => app.timer)
          /\ app'.waiting = app.waiting /\ app'.counting = app.counting
      BY <1>1, <2>2 DEF App
    <2>4. /\ token' \in Token /\ token'.held
          /\ user' = IF Mapped(token') THEN StoredUser(token') ELSE user
          /\ user' \in {Nobody} \cup SUBSET (Roles \cup {Unknown})
      BY <1>1, <2>1, TokenTypes DEF Updated, WebInv, TypeOK
    <2>5. viewer' \in BOOLEAN /\ ViewerModeIsManagers'
      BY <1>1, <2>1, <2>4, UpdatedViewer DEF WebInv, ViewerModeIsManagers, Content
    <2>6. TypeOK'
      BY <1>1, <2>1, <2>3, <2>4, <2>5 DEF WebInv, TypeOK
    <2>7. FreshIsHeld' /\ UserHasToken'
      BY <2>4, StoredUserHasToken DEF FreshIsHeld, UserHasToken, Mapped
    <2>8. NavbarIsThere' /\ TimersOfPage'
      BY <2>1, <2>3 DEF WebInv, NavbarIsThere, TimersOfPage
    <2>9. FakeTokens'
      BY <1>2, <2>1 DEF TokenReceived, WebInv, FakeTokens, AsksNobody
    <2> QED
      BY <2>5, <2>6, <2>7, <2>8, <2>9 DEF WebInv
  <1>3. CASE TokenExpires
    <2>1. token' = [token EXCEPT !.fresh = FALSE]
      BY <1>3 DEF TokenExpires
    <2>2. /\ token' \in Token /\ ~token'.fresh
          /\ token'.held = token.held /\ token'.claims = token.claims
      BY <1>1, <2>1 DEF Token
    <2>3. TypeOK'
      BY <1>3, <2>2 DEF TokenExpires, WebInv, TypeOK
    <2>4. FreshIsHeld' /\ UserHasToken' /\ FakeTokens'
      BY <1>3, <2>2 DEF TokenExpires, WebInv, FreshIsHeld, UserHasToken, FakeTokens
    <2>5. NavbarIsThere' /\ ViewerModeIsManagers' /\ TimersOfPage'
      BY <1>3 DEF TokenExpires, WebInv, NavbarIsThere, ViewerModeIsManagers, TimersOfPage,
                  Manages
    <2> QED
      BY <2>3, <2>4, <2>5 DEF WebInv
  <1>4. CASE FakeLoginDone
    <2>1. app.logins > 0 /\ app' = [app EXCEPT !.logins = @ - 1]
      BY <1>4 DEF FakeLoginDone
    <2>2. /\ app' \in App /\ app'.navbar = app.navbar /\ app'.timer = app.timer
          /\ app'.waiting = app.waiting /\ app'.counting = app.counting
          /\ AsksNobody(app) => AsksNobody(app')
      BY <1>1, <2>1 DEF App, AsksNobody
    <2>3. token' = TokenFor(FakeClaims) /\ user' = Roles
      BY <1>4 DEF FakeLoginDone
    <2>4. /\ token' \in Token /\ token'.held /\ token'.claims = FakeClaims
          /\ user' \in SUBSET (Roles \cup {Unknown}) /\ user' = RolesOf(FakeClaims)
      BY <2>3, TokenTypes, AllRoles
    <2>5. TypeOK'
      BY <1>1, <1>4, <2>2, <2>4 DEF FakeLoginDone, WebInv, TypeOK
    <2>6. FreshIsHeld' /\ UserHasToken'
      BY <2>4 DEF FreshIsHeld, UserHasToken
    <2>7. ViewerModeIsManagers'
      BY <2>3, <2>4, NobodyAssumption DEF ViewerModeIsManagers, Manages, Roles
    <2>8. NavbarIsThere' /\ TimersOfPage'
      BY <1>4, <2>2 DEF FakeLoginDone, WebInv, NavbarIsThere, TimersOfPage
    <2>9. FakeTokens'
      BY <1>4, <2>2, <2>4 DEF FakeLoginDone, WebInv, FakeTokens, FakeClaims
    <2> QED
      BY <2>5, <2>6, <2>7, <2>8, <2>9 DEF WebInv
  <1> QED
    BY <1>2, <1>3, <1>4

\* The user goes, reloads, switches, leaves, and comes back from the provider.
LEMMA UserInv ==
    ASSUME WebInv,
           UserNavigates \/ ProviderReturns \/ (\E c \in Provided : ClaimsChange(c))
    PROVE  WebInv'
  <1>1. /\ token \in Token /\ user \in {Nobody} \cup SUBSET (Roles \cup {Unknown})
        /\ viewer \in BOOLEAN /\ claims \in Provided /\ FreshIsHeld
        /\ kind = "fake" /\ token.held => token.claims.complete
    BY DEF WebInv, TypeOK, FakeTokens
  <1>2. clicks \in 0..MaxClicks /\ (Click => clicks' \in 0..MaxClicks)
    BY ClicksAssumption DEF WebInv, TypeOK, Click
  <1>3. ASSUME NEW p \in Routes, NEW hasCode \in BOOLEAN, Load(p, hasCode),
               UNCHANGED <<kind, claims, viewer>>, clicks' \in 0..MaxClicks
        PROVE  WebInv'
    <2>1. /\ token' \in Token /\ (token'.fresh => token'.held)
          /\ user' \in {Nobody} \cup SUBSET (Roles \cup {Unknown})
          /\ user' # Nobody => token'.held /\ user' = RolesOf(token'.claims)
          /\ kind = "fake" /\ token'.held => token'.claims.complete
      <3>1. CASE kind = "fake"
        <4>1. token' = TokenFor(FakeClaims) /\ user' = Roles
          BY <1>3, <3>1 DEF Load
        <4> QED
          BY <4>1, TokenTypes, AllRoles DEF FakeClaims
      <3>2. CASE kind # "fake"
        <4>1. token' = token /\ user' \in {Nobody, StoredUser(token)}
          BY <1>3, <3>2 DEF Load
        <4> QED
          BY <1>1, <4>1, TokenTypes, StoredUserHasToken DEF FreshIsHeld
      <3> QED
        BY <3>1, <3>2
    <2>2. page' = "start" /\ going' \in {p, Nowhere} /\ app' = FreshApp(hasCode)
      BY <1>3 DEF Load
    <2> QED
      BY <1>1, <1>3, <2>1, <2>2, FreshStep
  <1>4. CASE \E p \in Routes : UserGoes(p)
    <2>1. /\ Click /\ going' \in Routes
          /\ UNCHANGED <<kind, claims, token, viewer, page, user, app>>
      BY <1>4 DEF UserGoes
    <2> QED
      BY <1>2, <2>1, GoingStep
  <1>5. CASE \E p \in Routes : UserLoads(p)
    BY <1>2, <1>3, <1>5 DEF UserLoads
  <1>6. CASE ToggleViewerMode
    <2>1. /\ Click /\ viewer' \in BOOLEAN /\ going' \in Routes /\ Manages(user)
          /\ UNCHANGED <<kind, claims, token, page, user, app>>
      BY <1>1, <1>6 DEF ToggleViewerMode, Routes, Content
    <2>2. TypeOK'
      BY <1>2, <2>1 DEF WebInv, TypeOK
    <2>3. FreshIsHeld' /\ UserHasToken' /\ NavbarIsThere' /\ TimersOfPage' /\ FakeTokens'
      BY <2>1 DEF WebInv, FreshIsHeld, UserHasToken, NavbarIsThere, TimersOfPage, FakeTokens
    <2>4. ViewerModeIsManagers'
      BY <2>1 DEF ViewerModeIsManagers, Manages
    <2> QED
      BY <2>2, <2>3, <2>4 DEF WebInv
  <1>7. CASE Logout
    <2>1. /\ Click /\ token' = NoToken /\ user' = Nobody /\ viewer' \in BOOLEAN
          /\ UNCHANGED <<kind, claims>>
      BY <1>1, <1>7 DEF Logout, LeaveForProvider
    <2>2. CASE kind = "oauth2"
      <3>1. LeaveForProvider
        BY <1>7, <2>2 DEF Logout
      <3> QED
        BY <1>2, <2>1, <3>1, TokenTypes, FreshStep DEF LeaveForProvider
    <2>3. CASE kind # "oauth2"
      <3>1. viewer' = FALSE /\ UNCHANGED <<page, going, app>>
        BY <1>7, <2>3 DEF Logout
      <3>2. TypeOK'
        BY <1>2, <2>1, <3>1, TokenTypes DEF WebInv, TypeOK
      <3>3. FreshIsHeld' /\ UserHasToken' /\ ViewerModeIsManagers'
        BY <2>1, <3>1, TokenTypes DEF FreshIsHeld, UserHasToken, ViewerModeIsManagers
      <3>4. NavbarIsThere' /\ TimersOfPage' /\ FakeTokens'
        BY <2>1, <3>1, TokenTypes DEF WebInv, NavbarIsThere, TimersOfPage, FakeTokens
      <3> QED
        BY <3>2, <3>3, <3>4 DEF WebInv
    <2> QED
      BY <2>2, <2>3
  <1>8. CASE ProviderReturns
    <2>1. \E p \in Routes, hasCode \in BOOLEAN : Load(p, hasCode)
      BY <1>8 DEF ProviderReturns, Routes, Content
    <2> QED
      BY <1>2, <1>3, <1>8, <2>1 DEF ProviderReturns
  <1>9. CASE \E c \in Provided : ClaimsChange(c)
    <2>1. /\ Click /\ claims' \in Provided
          /\ UNCHANGED <<kind, token, viewer, page, going, user, app>>
      BY <1>9 DEF ClaimsChange
    <2>2. TypeOK'
      BY <1>2, <2>1 DEF WebInv, TypeOK
    <2> QED
      BY <2>1, <2>2 DEF WebInv, FreshIsHeld, UserHasToken, NavbarIsThere,
                        ViewerModeIsManagers, TimersOfPage, Manages, FakeTokens
  <1> QED
    BY <1>4, <1>5, <1>6, <1>7, <1>8, <1>9 DEF UserNavigates

-----------------------------------------------------------------------------
(* The invariant *)

\* The application starts, with the user of its configuration or with nobody.
LEMMA InitInv ==
    ASSUME Init
    PROVE  WebInv
  <1>1. /\ token \in Token /\ FreshIsHeld /\ UserHasToken
        /\ user \in {Nobody} \cup SUBSET (Roles \cup {Unknown})
    <2>1. CASE kind = "fake"
      BY <2>1, TokenTypes, AllRoles DEF Init, FreshIsHeld, UserHasToken
    <2>2. CASE kind # "fake"
      BY <2>2, TokenTypes DEF Init, FreshIsHeld, UserHasToken
    <2> QED
      BY <2>1, <2>2
  <1>2. app \in App /\ TimersOfPage /\ FakeTokens
    <2>1. app \in App /\ TimersOfPage
      BY FreshAppType, FreshAppTimers DEF Init, TimersOfPage
    <2>2. kind = "fake" => AsksNobody(app)
      BY DEF Init, AsksNobody, FreshApp
    <2>3. kind = "fake" => token.claims.complete
      BY TokenTypes, AllRoles DEF Init, FakeClaims
    <2> QED
      BY <2>1, <2>2, <2>3 DEF FakeTokens
  <1>3. TypeOK
    <2>1. clicks \in 0..MaxClicks /\ viewer \in BOOLEAN /\ page \in Pages
      <3>1. clicks = 0 /\ viewer = FALSE /\ page = "start"
        BY DEF Init
      <3>2. 0 \in 0..MaxClicks
        BY ClicksAssumption
      <3>3. "start" \in Pages
        BY DEF Pages
      <3> QED
        BY <3>1, <3>2, <3>3
    <2>2. kind \in Kinds /\ claims \in Provided /\ going \in Routes \cup {Nowhere}
      BY DEF Init
    <2> QED
      BY <1>1, <1>2, <2>1, <2>2 DEF TypeOK
  <1>4. NavbarIsThere /\ ViewerModeIsManagers
    BY DEF Init, NavbarIsThere, ViewerModeIsManagers, Content
  <1> QED
    BY <1>1, <1>2, <1>3, <1>4 DEF WebInv

\* Every step keeps the invariant.
LEMMA NextInv ==
    ASSUME WebInv, [Next]_vars
    PROVE  WebInv'
  <1>1. CASE SendToLogin
    BY <1>1, GoingStep DEF SendToLogin, Routes, WebInv, TypeOK
  <1>2. CASE UNCHANGED vars
    BY <1>2 DEF vars, WebInv, TypeOK, FreshIsHeld, UserHasToken, NavbarIsThere,
                ViewerModeIsManagers, TimersOfPage, Manages, FakeTokens
  <1>3. CASE Next /\ ~SendToLogin
    <2>1. \/ Arrive
          \/ DiscoveryLoaded \/ DiscoveryFails
          \/ \/ StartRefresh \/ TokenRefreshError \/ TokenInvalid
             \/ CallbackTimeout \/ LoginTimeout \/ CountedDown \/ ErrorRedirect
          \/ TokenReceived \/ TokenExpires \/ FakeLoginDone
          \/ UserNavigates \/ ProviderReturns \/ (\E c \in Provided : ClaimsChange(c))
      BY <1>3 DEF Next
    <2> QED
      BY <2>1, ArriveInv, DiscoveryInv, TimersInv, TokenInv, UserInv
  <1> QED
    BY <1>1, <1>2, <1>3

LEMMA Invariant == Spec => []WebInv
  BY InitInv, NextInv, PTL DEF Spec

-----------------------------------------------------------------------------
(* The theorems *)

\* The tab is always in a state the code can describe.
THEOREM TypeCorrect == Spec => []TypeOK
  <1>1. WebInv => TypeOK
    BY DEF WebInv
  <1> QED
    BY <1>1, Invariant, PTL

\* However long the tab lives, and whatever is renewed, reloaded or revoked in between,
\* the user it shows has the roles of the token it sends, if a user can be made of it.
THEOREM UserCorrect == Spec => []UserIsOfToken
  <1>1. WebInv => UserIsOfToken
    BY DEF WebInv, UserHasToken, UserIsOfToken
  <1> QED
    BY <1>1, Invariant, PTL

\* A manager with a token that has not expired, and that both sides understand, is
\* answered by every handler, and whoever is answered is made a manager by the roles
\* claim, or without one by the groups, under either service.
THEOREM GuardsCorrect == Spec => []GuardsAgree
  <1>1. ASSUME WebInv, NEW h \in Handlers
        PROVE  /\ Manages(user) /\ token.fresh /\ Understood(token.claims) =>
                     Answer(kind, token, h) = "handled"
               /\ Answer(kind, token, h) = "handled" =>
                     Understood(token.claims) /\ MadeManager(token.claims)
    <2>1. /\ token.claims \in Claims
          /\ RolesOf(token.claims) \in SUBSET (Roles \cup {Unknown})
          /\ "manager" \in RolesOf(token.claims) <=> MadeManager(token.claims)
      BY <1>1, RolesOfClaims DEF WebInv, TypeOK, Token
    <2>2. Permitted(token, h) <=>
             "manager" \in RolesOf(token.claims) /\ Unknown \notin RolesOf(token.claims)
      BY <2>1, ManagersPermission DEF Permitted
    <2>3. Manages(user) /\ token.fresh /\ token.claims.complete =>
             Authenticated(kind, token) /\ "manager" \in RolesOf(token.claims)
      BY <1>1 DEF WebInv, FreshIsHeld, UserHasToken, Manages, Authenticated, Strategy,
                  FakeToken, ValidJwt
    <2>4. Authenticated(kind, token) => token.claims.complete
      BY <1>1 DEF WebInv, FakeTokens, Authenticated, Strategy, FakeToken, ValidJwt
    <2> QED
      BY <2>1, <2>2, <2>3, <2>4 DEF Answer, Understood
  <1>2. WebInv => GuardsAgree
    BY <1>1 DEF GuardsAgree
  <1> QED
    BY <1>2, Invariant, PTL

\* Viewer mode, which is kept in the browser, is on only on pages of managers, who
\* have the switch.
THEOREM ViewerModeCorrect == Spec => []ViewerModeIsManagers
  <1>1. WebInv => ViewerModeIsManagers
    BY DEF WebInv
  <1> QED
    BY <1>1, Invariant, PTL

\* Nothing but the user, and what earlier pages have left behind, takes somebody who
\* is signed in away from a page of content.
THEOREM SignedInStaysCorrect == Spec => SignedInStays
  <1> DEFINE Stays ==
        (page \in Content /\ user # Nobody /\ going = Nowhere
            /\ <<page, going>>' # <<page, going>>) => UserNavigates \/ LeftBehind
  <1>1. ASSUME WebInv, [Next]_vars, page \in Content, user # Nobody, going = Nowhere,
               <<page, going>>' # <<page, going>>, ~UserNavigates, ~LeftBehind
        PROVE  FALSE
    <2>1. Nowhere \notin Routes \cup {"manage"} /\ page \notin {"callback", "login", "idp", Nowhere}
      BY <1>1, NowhereAssumption DEF Pages, Routes, Content
    <2>2. ~app.timer /\ ~app.waiting /\ ~app.counting
      BY <1>1, <2>1 DEF WebInv, TimersOfPage
    <2>3. ~Arrive /\ ~SendToLogin
      BY <1>1, <2>1 DEF Arrive, Redirect, StayHere, ShowContent, ShowError, ShowCallback,
                        ShowLogin, LoginAtOnce, ShowFakeLogin, Arrives, Refused, SendToLogin,
                        Routes, Content
    <2>4. ~DiscoveryLoaded /\ ~TokenReceived
      BY <1>1, <2>1, <2>2 DEF DiscoveryLoaded, TokenReceived, LeftBehind
    <2>5. ~DiscoveryFails /\ ~StartRefresh /\ ~TokenInvalid /\ ~TokenExpires /\ ~LoginTimeout
      BY <1>1 DEF DiscoveryFails, StartRefresh, TokenInvalid, TokenExpires, LoginTimeout
    <2>6. ~TokenRefreshError /\ ~CallbackTimeout /\ ~CountedDown /\ ~ErrorRedirect
          /\ ~FakeLoginDone /\ ~ProviderReturns
      BY <1>1, <2>1, <2>2 DEF TokenRefreshError, CallbackTimeout, CountedDown, ErrorRedirect,
                              FakeLoginDone, ProviderReturns, LeftBehind
    <2>7. \A c \in Provided : ~ClaimsChange(c)
      BY <1>1 DEF ClaimsChange
    <2> QED
      BY <1>1, <2>3, <2>4, <2>5, <2>6, <2>7 DEF Next, vars
  <1>2. WebInv /\ [Next]_vars => [Stays]_vars
    BY <1>1
  <1> QED
    BY <1>2, Invariant, PTL DEF Spec, SignedInStays

=============================================================================
