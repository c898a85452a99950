---------------------------- MODULE LoginSession ----------------------------
(***************************************************************************)
(* Login with the identity provider, the session it makes, and what the    *)
(* server takes from a request: OIDCLogin, SessionManager, the             *)
(* authenticators and requireCSRF in internal/broker/auth.go, handleSession*)
(* in internal/broker/server.go.                                           *)
(*                                                                         *)
(* The server keeps nothing: a login under way and a session are signed    *)
(* cookies of the browser, one of each, which all its tabs send and which  *)
(* any answer may replace.  A login is named by its state, nonce and code  *)
(* verifier, which are drawn together; a session by its login, whose CSRF  *)
(* token is drawn with it.                                                 *)
(***************************************************************************)
EXTENDS Naturals

CONSTANTS
    User, Browser, Tab,
    BrowserOf,    \* [Tab -> Browser]
    Attempt,      \* logins that are started
    Role, Required,
    IdRoles,      \* [User -> SUBSET Role], as the ID token has them
    AccessRoles,  \* [User -> SUBSET Role], as the access token has them
    LoginTTL,     \* oauthStateTTL
    SessionTTL,
    MaxClock,     \* bound on time
    None

ASSUME LoginAssumption ==
    /\ BrowserOf \in [Tab -> Browser]
    /\ Required \subseteq Role
    /\ IdRoles \in [User -> SUBSET Role] /\ AccessRoles \in [User -> SUBSET Role]
    /\ LoginTTL \in Nat /\ SessionTTL \in Nat /\ MaxClock \in Nat
    /\ None \notin User \cup Browser \cup Tab \cup Attempt

VARIABLES
    clock,
    attempt,  \* [Attempt -> browser, expiry, user the provider knows, code spent,
              \*  browsers in which its address was opened, how it ended there]
    state,    \* [Browser -> the login in its cookie b2_share_oauth, or None]
    session,  \* [Browser -> the session in its cookie b2_share_session, or None]
    tab,      \* [Tab -> where it is, with which login, the answer under way to it]
    page      \* [Tab -> the session as /api/session told it, or None]

loginVars == <<clock, attempt, state, session, tab, page>>

Session == [id : Attempt, user : User, exp : Nat]
Ending == {"none", "in", "forbidden", "late", "provider", "refused"}
Started == [browser : Browser \cup {None}, exp : Nat, user : User \cup {None},
            spent : BOOLEAN, opened : SUBSET Browser, end : Ending]
Place == [at : {"page", "provider", "callback", "returning"}, login : Attempt \cup {None},
          clears : BOOLEAN, gets : Session \cup {None}]

OnPage == [at |-> "page", login |-> None, clears |-> FALSE, gets |-> None]
AtLogin(a) == [at |-> "provider", login |-> a, clears |-> FALSE, gets |-> None]

LoginInit ==
    /\ clock = 0
    /\ attempt = [a \in Attempt |-> [browser |-> None, exp |-> 0, user |-> None,
                                     spent |-> FALSE, opened |-> {}, end |-> "none"]]
    /\ state = [b \in Browser |-> None]
    /\ session = [b \in Browser |-> None]
    /\ tab = [t \in Tab |-> OnPage]
    /\ page = [t \in Tab |-> None]

-----------------------------------------------------------------------------

\* roleAuthorizer.Allows, of the ID token's roles with those of an access token
\* that verifies (mergeKeycloakClaims); without required roles nobody is let in.
Allows(roles) == roles \cap Required # {}
LoginRoles(u, merged) == IdRoles[u] \cup (IF merged THEN AccessRoles[u] ELSE {})

\* SessionManager.Read, of a request from this browser.
Valid(b) == session[b] # None /\ clock <= session[b].exp

\* requireCSRF, of a page that sends the token it was told.
\* Mistake: any session will do.
AnyToken(t) == TRUE
SameToken(t) == page[t].id = session[BrowserOf[t]].id

\* A write that the server takes from this page, in the name of Principal(t).
Authorized(t) ==
    /\ tab[t].at = "page" /\ page[t] # None
    /\ Valid(BrowserOf[t]) /\ SameToken(t)
Principal(t) == session[BrowserOf[t]].user

-----------------------------------------------------------------------------

\* OIDCLogin.Start and its answer: a new login takes the place of the one the
\* browser had under way, and the tab goes to the provider.
Start(t, a) ==
    /\ tab[t].at = "page" /\ attempt[a].browser = None
    /\ attempt' = [attempt EXCEPT ![a] = [@ EXCEPT !.browser = BrowserOf[t], !.exp = clock + LoginTTL]]
    /\ state' = [state EXCEPT ![BrowserOf[t]] = a]
    /\ tab' = [tab EXCEPT ![t] = AtLogin(a)]
    /\ page' = [page EXCEPT ![t] = None]
    /\ UNCHANGED <<clock, session>>

\* The provider knows the user and sends the tab to /auth/callback with a code.
SignIn(t, u) ==
    /\ tab[t].at = "provider"
    /\ attempt' = [attempt EXCEPT ![tab[t].login].user = u]
    /\ tab' = [tab EXCEPT ![t].at = "callback"]
    /\ UNCHANGED <<clock, state, session, page>>

\* It sends the tab back with an error: 401, and the cookie stays.
SignInFails(t) ==
    /\ tab[t].at = "provider"
    /\ tab' = [tab EXCEPT ![t] = OnPage]
    /\ UNCHANGED <<clock, attempt, state, session, page>>

\* The login whose answer a callback is taken for.
\* Mistake: the one named in the address.
LoginOfAddress(b, a) == a
LoginOfCookie(b, a) == state[b]

\* How a callback of login a from browser b ends.  Exchange fails for a code
\* that was spent, and may fail for any; the access token may not verify.
Ends(b, a, exchanged, merged) ==
    IF LoginOfCookie(b, a) # a THEN "refused"
    ELSE IF clock > attempt[a].exp THEN "late"
    ELSE IF attempt[a].spent THEN "refused"
    ELSE IF ~exchanged THEN "provider"
    ELSE IF ~Allows(LoginRoles(attempt[a].user, merged)) THEN "forbidden"
    ELSE "in"

\* A login after this answer in browser b, where only the first one ends it.
Answered(login, b, end) ==
    [login EXCEPT !.spent = login.spent \/ end \in {"in", "forbidden", "provider"},
                  !.opened = login.opened \cup {b},
                  !.end = IF login.end = "none" /\ login.browser = b THEN end ELSE login.end]

\* OIDCLogin.Complete.  Its address is followed by the tab that comes from the
\* provider, or opened once more, in any tab.  With a cookie the answer will
\* clear it, whatever the outcome.
Complete(t, a, exchanged, merged) ==
    LET b == BrowserOf[t]
        end == Ends(b, a, exchanged, merged)
    IN /\ \/ tab[t].at = "callback" /\ tab[t].login = a
          \/ tab[t].at = "page" /\ attempt[a].user # None
       /\ attempt' = [attempt EXCEPT ![a] = Answered(@, b, end)]
       /\ tab' = [tab EXCEPT ![t] =
              [at |-> "returning", login |-> None, clears |-> state[b] # None,
               gets |-> IF end = "in" THEN [id |-> a, user |-> attempt[a].user,
                                            exp |-> clock + SessionTTL]
                        ELSE None]]
       /\ page' = [page EXCEPT ![t] = None]
       /\ UNCHANGED <<clock, state, session>>

\* The answer's cookies reach the browser.
Return(t) ==
    LET b == BrowserOf[t] IN
    /\ tab[t].at = "returning"
    /\ state' = IF tab[t].clears THEN [state EXCEPT ![b] = None] ELSE state
    /\ session' = IF tab[t].gets # None THEN [session EXCEPT ![b] = tab[t].gets] ELSE session
    /\ tab' = [tab EXCEPT ![t] = OnPage]
    /\ UNCHANGED <<clock, attempt, page>>

\* GET /api/session, by which a page learns the user and the token.
LoadPage(t) ==
    LET b == BrowserOf[t] IN
    /\ tab[t].at = "page"
    /\ page' = [page EXCEPT ![t] = IF Valid(b) THEN session[b] ELSE None]
    /\ UNCHANGED <<clock, attempt, state, session, tab>>

\* The cookies that signing out clears.
\* Mistake: the login's too.
ClearedBoth(b) == [state EXCEPT ![b] = None]
ClearedOne(b) == state
Logout(t) ==
    /\ tab[t].at = "page"
    /\ session' = [session EXCEPT ![BrowserOf[t]] = None]
    /\ state' = ClearedOne(BrowserOf[t])
    /\ page' = [page EXCEPT ![t] = None]
    /\ UNCHANGED <<clock, attempt, tab>>

Tick ==
    /\ clock < MaxClock
    /\ clock' = clock + 1
    /\ UNCHANGED <<attempt, state, session, tab, page>>

LoginNext ==
    \/ \E t \in Tab, a \in Attempt : Start(t, a)
    \/ \E t \in Tab, u \in User : SignIn(t, u)
    \/ \E t \in Tab : SignInFails(t)
    \/ \E t \in Tab, a \in Attempt, exchanged, merged \in BOOLEAN :
          Complete(t, a, exchanged, merged)
    \/ \E t \in Tab : Return(t) \/ LoadPage(t) \/ Logout(t)
    \/ Tick

LoginSpec == LoginInit /\ [][LoginNext]_loginVars

-----------------------------------------------------------------------------
(* What logins and sessions promise. *)

LoginTypeOK ==
    /\ clock \in Nat
    /\ attempt \in [Attempt -> Started]
    /\ state \in [Browser -> Attempt \cup {None}]
    /\ session \in [Browser -> Session \cup {None}]
    /\ tab \in [Tab -> Place]
    /\ page \in [Tab -> Session \cup {None}]

\* Whatever addresses are opened, and in whatever order answers arrive, a browser
\* is only ever signed in by a login that was started in it, as the user who
\* signed in there, and only if that user has a required role.
SessionIsOfTheBrowsersLogin ==
    \A b \in Browser : session[b] # None =>
        LET a == attempt[session[b].id] IN
        /\ a.browser = b /\ a.user = session[b].user /\ a.end = "in"
        /\ Allows(LoginRoles(a.user, TRUE))

\* A login that comes back in time is refused only if another login was started
\* in the same browser, or the address of another was opened in it: reloads,
\* answers that arrive late and signing out do not spoil it.
UndisturbedLoginSucceeds ==
    \A a \in Attempt : attempt[a].end = "refused" =>
        \E other \in Attempt \ {a} :
            attempt[a].browser \in {attempt[other].browser} \cup attempt[other].opened
=============================================================================
