------------------------- MODULE BrokerRequestsProofs -------------------------
(***************************************************************************)
(* Proofs about LoginSession, for any users, browsers, tabs and roles, any *)
(* lifetimes, and any number of logins; about UploadRequest, for any       *)
(* bodies, limits and names; and about BrokerRequests: what the two        *)
(* promise holds in the composition too, and a write is done for the user  *)
(* its page shows.                                                         *)
(***************************************************************************)
EXTENDS BrokerRequests, ShareNamesProofs

-----------------------------------------------------------------------------
(* Logins: the inductive invariant. *)

\* A login that was not started belongs to nobody.
Unstarted ==
    \A a \in Attempt : attempt[a].browser = None =>
        /\ attempt[a].user = None /\ attempt[a].end = "none"
        /\ ~attempt[a].spent /\ attempt[a].opened = {}

\* A tab at the provider is there with a login of its own browser, which no
\* other tab has there and in which nobody has signed in yet.
AtProvider ==
    \A t \in Tab : tab[t].at = "provider" =>
        /\ tab[t].login \in Attempt
        /\ attempt[tab[t].login].browser = BrowserOf[t]
        /\ attempt[tab[t].login].user = None
        /\ \A other \in Tab \ {t} :
              tab[other].at = "provider" => tab[other].login # tab[t].login

\* A tab that comes from the provider comes with a user.
FromProvider ==
    \A t \in Tab : tab[t].at = "callback" =>
        tab[t].login \in Attempt /\ attempt[tab[t].login].user # None

\* The cookie of a browser names a login that was started there.
CookieIsOwn ==
    \A b \in Browser : state[b] # None => attempt[state[b]].browser = b

\* s is a session that browser b may have.
Rightful(s, b) ==
    /\ attempt[s.id].browser = b
    /\ attempt[s.id].user = s.user
    /\ attempt[s.id].end = "in"
    /\ Allows(LoginRoles(s.user, TRUE))

\* So are the sessions that answers carry and that pages were told.
SessionsAreRightful ==
    /\ \A b \in Browser : session[b] # None => Rightful(session[b], b)
    /\ \A t \in Tab : tab[t].gets # None => Rightful(tab[t].gets, BrowserOf[t])
    /\ \A t \in Tab : page[t] # None => Rightful(page[t], BrowserOf[t])

\* A code is spent by an answer that ends its login.
SpentEnds == \A a \in Attempt : attempt[a].spent => attempt[a].end # "none"

\* A login that has ended cannot be answered a second time.
EndsOnce ==
    \A a \in Attempt : attempt[a].end # "none" =>
        \/ attempt[a].spent \/ clock > attempt[a].exp
        \/ state[attempt[a].browser] # a

Disturbed(a) ==
    \E other \in Attempt \ {a} :
        attempt[a].browser \in {attempt[other].browser} \cup attempt[other].opened

\* A login under way lost its cookie to another one.
LostToAnother ==
    \A a \in Attempt :
        attempt[a].browser # None /\ attempt[a].end = "none" /\ state[attempt[a].browser] # a
            => Disturbed(a)

\* An answer that will clear the cookie has ended its own login.
ClearsAnEndedLogin ==
    \A t \in Tab : tab[t].at = "returning" /\ tab[t].clears =>
        \E a \in Attempt :
            /\ BrowserOf[t] \in attempt[a].opened
            /\ attempt[a].browser = BrowserOf[t] => attempt[a].end # "none"

LoginInv ==
    /\ LoginTypeOK
    /\ Unstarted /\ AtProvider /\ FromProvider
    /\ CookieIsOwn /\ SessionsAreRightful
    /\ SpentEnds /\ EndsOnce
    /\ LostToAnother /\ ClearsAnEndedLogin /\ UndisturbedLoginSucceeds

-----------------------------------------------------------------------------
\* More roles are not fewer.
LEMMA MoreRoles ==
    ASSUME NEW u, NEW merged \in BOOLEAN, Allows(LoginRoles(u, merged))
    PROVE  Allows(LoginRoles(u, TRUE))
BY DEF Allows, LoginRoles

\* A session is about its login alone.
LEMMA SessionsStayRightful ==
    ASSUME attempt' = attempt
    PROVE  \A s, b : Rightful(s, b) => Rightful(s, b)'
BY DEF Rightful

-----------------------------------------------------------------------------
(* Each action keeps LoginInv. *)

LEMMA InitKeeps == LoginInit => LoginInv
<1> SUFFICES ASSUME LoginInit PROVE LoginInv
  OBVIOUS
<1> USE LoginAssumption DEF LoginInit
<1>1. LoginTypeOK
  BY DEF LoginTypeOK, Started, Ending, Place, OnPage
<1>2. Unstarted /\ AtProvider /\ FromProvider
  BY DEF Unstarted, AtProvider, FromProvider, OnPage
<1>3. CookieIsOwn /\ SessionsAreRightful /\ SpentEnds /\ EndsOnce
  BY DEF CookieIsOwn, SessionsAreRightful, SpentEnds, EndsOnce, OnPage
<1>4. LostToAnother /\ ClearsAnEndedLogin /\ UndisturbedLoginSucceeds
  BY DEF LostToAnother, ClearsAnEndedLogin, UndisturbedLoginSucceeds, OnPage
<1> QED
  BY <1>1, <1>2, <1>3, <1>4 DEF LoginInv

LEMMA StartKeeps ==
    ASSUME LoginInv, NEW t \in Tab, NEW a \in Attempt, Start(t, a)
    PROVE  LoginInv'
<1> DEFINE b == BrowserOf[t]
<1> DEFINE late == clock + LoginTTL
<1> DEFINE new == [attempt[a] EXCEPT !.browser = b, !.exp = late]
<1> USE LoginAssumption
<1>a. LoginTypeOK /\ b \in Browser /\ attempt[a] \in Started
  BY DEF LoginInv, LoginTypeOK
<1>b. /\ tab[t].at = "page" /\ attempt[a].browser = None
      /\ attempt' = [attempt EXCEPT ![a] = new]
      /\ state' = [state EXCEPT ![b] = a]
      /\ tab' = [tab EXCEPT ![t] = AtLogin(a)]
      /\ page' = [page EXCEPT ![t] = None]
      /\ clock' = clock /\ session' = session
  BY DEF Start
<1>c. late \in Nat
  BY <1>a DEF LoginTypeOK
<1> HIDE DEF b, late
<1>d. /\ new \in Started
      /\ new.browser = b /\ new.user = attempt[a].user /\ new.spent = attempt[a].spent
      /\ new.opened = attempt[a].opened /\ new.end = attempt[a].end
  <2> DEFINE r == attempt[a]
  <2>1. r \in Started /\ b \in Browser /\ late \in Nat /\ new = [r EXCEPT !.browser = b, !.exp = late]
    BY <1>a, <1>c
  <2> HIDE DEF r, new
  <2>2. /\ new \in Started
        /\ new.browser = b /\ new.exp = late /\ new.user = r.user /\ new.spent = r.spent
        /\ new.opened = r.opened /\ new.end = r.end
    BY <2>1 DEF Started
  <2> QED
    BY <2>2 DEF r
<1> HIDE DEF new
<1>e. /\ attempt'[a] = new
      /\ \A c \in Attempt \ {a} : attempt'[c] = attempt[c]
      /\ \A c \in Attempt : /\ attempt'[c].user = attempt[c].user
                            /\ attempt'[c].spent = attempt[c].spent
                            /\ attempt'[c].opened = attempt[c].opened
                            /\ attempt'[c].end = attempt[c].end
  <2>1. attempt'[a] = new /\ \A c \in Attempt \ {a} : attempt'[c] = attempt[c]
    BY <1>a, <1>b DEF LoginTypeOK
  <2> QED
    BY <1>d, <2>1
<1>f. /\ attempt[a].opened = {}
      /\ attempt[a].user = None /\ attempt[a].end = "none" /\ ~attempt[a].spent
      /\ \A c \in Attempt : attempt[c].browser # None \/ attempt[c].end # "none"
                            \/ attempt[c].user # None => c # a
  BY <1>a, <1>b DEF LoginInv, Unstarted
<1>g. /\ tab'[t] = [at |-> "provider", login |-> a, clears |-> FALSE, gets |-> None]
      /\ \A other \in Tab \ {t} : tab'[other] = tab[other]
  BY <1>a, <1>b DEF LoginTypeOK, AtLogin
<1>1. LoginTypeOK'
  <2>1. attempt' \in [Attempt -> Started] /\ state' \in [Browser -> Attempt \cup {None}]
    BY <1>a, <1>b, <1>d DEF LoginTypeOK
  <2>2. tab'[t] \in Place
    BY <1>g DEF Place
  <2>3. tab' \in [Tab -> Place] /\ page' \in [Tab -> Session \cup {None}]
    BY <1>a, <1>b, <1>g, <2>2 DEF LoginTypeOK
  <2> QED
    BY <1>a, <1>b, <2>1, <2>3 DEF LoginTypeOK
<1>2. Unstarted'
  BY <1>a, <1>d, <1>e DEF LoginInv, Unstarted
<1>3. AtProvider'
  <2>1. \A o \in Tab \ {t} : tab[o].at = "provider" =>
            tab[o].login \in Attempt \ {a}
    BY <1>a, <1>b DEF LoginInv, AtProvider
  <2> QED
    BY <1>d, <1>e, <1>f, <1>g, <2>1 DEF LoginInv, AtProvider, b
<1>4. FromProvider'
  BY <1>e, <1>g DEF LoginInv, FromProvider
<1>5. CookieIsOwn'
  <2>1. \A c \in Browser : state[c] # None => state[c] # a
    BY <1>a, <1>b DEF LoginInv, CookieIsOwn, LoginTypeOK
  <2> QED
    BY <1>a, <1>b, <1>d, <1>e, <2>1 DEF LoginInv, CookieIsOwn, LoginTypeOK
<1>6. SessionsAreRightful'
  <2>1. ASSUME NEW s \in Session, NEW c \in Browser, Rightful(s, c)
        PROVE  Rightful(s, c)'
    <3>1. s.id \in Attempt \ {a}
      BY <1>a, <1>b, <2>1 DEF Rightful, Session
    <3> QED
      BY <1>e, <2>1, <3>1 DEF Rightful
  <2>2. session' = session
    BY <1>b
  <2>3. \A o \in Tab : page'[o] # None => page'[o] = page[o]
    BY <1>a, <1>b DEF LoginTypeOK
  <2>4. \A o \in Tab : tab'[o].gets # None => tab'[o].gets = tab[o].gets
    BY <1>g
  <2>5. /\ \A c \in Browser : session[c] # None => session[c] \in Session
        /\ \A o \in Tab : tab[o].gets # None => tab[o].gets \in Session
        /\ \A o \in Tab : page[o] # None => page[o] \in Session
        /\ \A o \in Tab : BrowserOf[o] \in Browser
    BY <1>a DEF LoginTypeOK, Place
  <2> QED
    BY <2>1, <2>2, <2>3, <2>4, <2>5 DEF LoginInv, SessionsAreRightful
<1>7. SpentEnds'
  BY <1>e DEF LoginInv, SpentEnds
<1>8. EndsOnce'
  <2> SUFFICES ASSUME NEW c \in Attempt, attempt'[c].end # "none"
               PROVE  \/ attempt'[c].spent \/ clock' > attempt'[c].exp
                      \/ state'[attempt'[c].browser] # c
    BY DEF EndsOnce
  <2>1. c # a /\ attempt'[c] = attempt[c]
    BY <1>e, <1>f
  <2> QED
    BY <1>a, <1>b, <1>f, <1>e, <2>1 DEF LoginInv, EndsOnce, LoginTypeOK, Started, Unstarted
<1>9. LostToAnother'
  <2> SUFFICES ASSUME NEW c \in Attempt, attempt'[c].browser # None, attempt'[c].end = "none",
                      state'[attempt'[c].browser] # c
               PROVE  Disturbed(c)'
    BY DEF LostToAnother
  <2>1. c # a
    BY <1>a, <1>b, <1>d, <1>e DEF LoginTypeOK
  <2>2. CASE attempt[c].browser = b
    BY <1>d, <1>e, <2>1, <2>2 DEF Disturbed
  <2>3. CASE attempt[c].browser # b
    <3>1. state[attempt[c].browser] # c
      BY <1>a, <1>b, <1>e, <2>1, <2>3 DEF LoginTypeOK, Started
    <3>2. Disturbed(c)
      BY <1>e, <2>1, <3>1 DEF LoginInv, LostToAnother
    <3> QED
      BY <1>b, <1>e, <2>1, <3>2 DEF Disturbed
  <2> QED
    BY <2>2, <2>3
<1>10. ClearsAnEndedLogin'
  <2> SUFFICES ASSUME NEW o \in Tab, tab'[o].at = "returning", tab'[o].clears
               PROVE  \E c \in Attempt :
                          /\ BrowserOf[o] \in attempt'[c].opened
                          /\ attempt'[c].browser = BrowserOf[o] => attempt'[c].end # "none"
    BY DEF ClearsAnEndedLogin
  <2>1. o # t /\ tab[o].at = "returning" /\ tab[o].clears
    BY <1>g
  <2>2. PICK c \in Attempt : /\ BrowserOf[o] \in attempt[c].opened
                             /\ attempt[c].browser = BrowserOf[o] => attempt[c].end # "none"
    BY <2>1 DEF LoginInv, ClearsAnEndedLogin
  <2>3. c # a
    BY <1>f, <2>2
  <2> QED
    BY <1>e, <2>2, <2>3
<1>11. UndisturbedLoginSucceeds'
  <2> SUFFICES ASSUME NEW c \in Attempt, attempt'[c].end = "refused"
               PROVE  Disturbed(c)'
    BY DEF UndisturbedLoginSucceeds, Disturbed
  <2>1. c # a /\ Disturbed(c)
    BY <1>e, <1>f DEF LoginInv, UndisturbedLoginSucceeds, Disturbed
  <2>2. attempt[c].browser # None
    BY <1>e, <2>1 DEF LoginInv, Unstarted
  <2> QED
    BY <1>b, <1>e, <2>1, <2>2 DEF Disturbed
<1> QED
  BY <1>1, <1>2, <1>3, <1>4, <1>5, <1>6, <1>7, <1>8, <1>9, <1>10, <1>11 DEF LoginInv

LEMMA SignInKeeps ==
    ASSUME LoginInv, NEW t \in Tab, NEW u \in User, SignIn(t, u)
    PROVE  LoginInv'
<1> DEFINE a == tab[t].login
<1> DEFINE r == attempt[a]
<1> DEFINE new == [r EXCEPT !.user = u]
<1> DEFINE old == tab[t]
<1> DEFINE back == [old EXCEPT !.at = "callback"]
<1> USE LoginAssumption
<1>a. /\ LoginTypeOK /\ u # None /\ old \in Place
      /\ a \in Attempt /\ r \in Started /\ attempt[a].browser = BrowserOf[t]
      /\ r.browser # None /\ r.user = None
      /\ BrowserOf \in [Tab -> Browser]
  <2>1. LoginTypeOK /\ AtProvider /\ tab[t].at = "provider"
    BY DEF LoginInv, SignIn
  <2>2. a \in Attempt /\ attempt[a].browser = BrowserOf[t] /\ attempt[a].user = None
    BY <2>1 DEF AtProvider
  <2>3. BrowserOf \in [Tab -> Browser] /\ u # None /\ BrowserOf[t] # None
    OBVIOUS
  <2>4. old \in Place /\ r \in Started
    BY <2>1, <2>2 DEF LoginTypeOK
  <2> QED
    BY <2>1, <2>2, <2>3, <2>4
<1>b. /\ tab[t].at = "provider"
      /\ attempt' = [attempt EXCEPT ![a] = new]
      /\ tab' = [tab EXCEPT ![t] = back]
      /\ clock' = clock /\ state' = state /\ session' = session /\ page' = page
  BY DEF SignIn
<1> HIDE DEF r, old
<1>c. /\ new \in Started
      /\ new.user = u /\ new.browser = r.browser /\ new.exp = r.exp
      /\ new.spent = r.spent /\ new.opened = r.opened /\ new.end = r.end
  BY <1>a DEF Started
<1>d. /\ back \in Place
      /\ back.at = "callback" /\ back.login = old.login /\ back.gets = old.gets
  BY <1>a DEF Place
<1> HIDE DEF new, back, a
<1>e. /\ attempt'[a] = new /\ \A c \in Attempt \ {a} : attempt'[c] = attempt[c]
      /\ \A c \in Attempt : /\ attempt'[c].browser = attempt[c].browser
                            /\ attempt'[c].exp = attempt[c].exp
                            /\ attempt'[c].spent = attempt[c].spent
                            /\ attempt'[c].opened = attempt[c].opened
                            /\ attempt'[c].end = attempt[c].end
  <2>1. attempt'[a] = new /\ \A c \in Attempt \ {a} : attempt'[c] = attempt[c]
    BY <1>a, <1>b DEF LoginTypeOK
  <2> QED
    BY <1>a, <1>c, <2>1 DEF r
<1>f. /\ tab'[t] = back /\ back.login = a /\ back.gets = tab[t].gets
      /\ \A o \in Tab \ {t} : tab'[o] = tab[o]
  BY <1>a, <1>b, <1>d DEF LoginTypeOK, a, old
<1>g. /\ attempt'[a].user = u
      /\ \A c \in Attempt : attempt[c].user # None => attempt'[c].user = attempt[c].user
  BY <1>a, <1>c, <1>e DEF r
<1>1. LoginTypeOK'
  BY <1>a, <1>b, <1>c, <1>d DEF LoginTypeOK
<1>2. Unstarted'
  BY <1>a, <1>e DEF LoginInv, Unstarted, r
<1>3. AtProvider'
  <2> SUFFICES ASSUME NEW o \in Tab, tab'[o].at = "provider"
               PROVE  /\ tab'[o].login \in Attempt
                      /\ attempt'[tab'[o].login].browser = BrowserOf[o]
                      /\ attempt'[tab'[o].login].user = None
                      /\ \A other \in Tab \ {o} : tab'[other].at = "provider" =>
                             tab'[other].login # tab'[o].login
    BY DEF AtProvider
  <2>1. o # t /\ tab'[o] = tab[o] /\ tab[o].at = "provider"
    BY <1>d, <1>f
  <2>2. tab[o].login \in Attempt \ {a}
    BY <1>b, <2>1 DEF LoginInv, AtProvider, a
  <2>3. \A other \in Tab : tab'[other].at = "provider" => tab'[other] = tab[other]
    BY <1>d, <1>f
  <2> QED
    BY <1>e, <2>1, <2>2, <2>3 DEF LoginInv, AtProvider
<1>4. FromProvider'
  BY <1>a, <1>d, <1>f, <1>g DEF LoginInv, FromProvider
<1>5. CookieIsOwn'
  BY <1>a, <1>b, <1>e DEF LoginInv, CookieIsOwn, LoginTypeOK
<1>6. SessionsAreRightful'
  <2>1. ASSUME NEW s \in Session, NEW c, Rightful(s, c)
        PROVE  Rightful(s, c)'
    <3>1. s.id \in Attempt /\ s.user # None
      BY DEF Session
    <3> QED
      BY <1>e, <1>g, <2>1, <3>1 DEF Rightful
  <2>2. \A o \in Tab : tab'[o].gets = tab[o].gets
    BY <1>f
  <2>3. /\ \A c \in Browser : session[c] # None => session[c] \in Session
        /\ \A o \in Tab : tab[o].gets # None => tab[o].gets \in Session
        /\ \A o \in Tab : page[o] # None => page[o] \in Session
    BY <1>a DEF LoginTypeOK, Place
  <2> QED
    BY <1>b, <2>1, <2>2, <2>3 DEF LoginInv, SessionsAreRightful
<1>7. SpentEnds' /\ EndsOnce'
  BY <1>b, <1>e DEF LoginInv, SpentEnds, EndsOnce
<1>8. LostToAnother'
  BY <1>b, <1>e DEF LoginInv, LostToAnother, Disturbed
<1>9. ClearsAnEndedLogin'
  <2>1. \A o \in Tab : tab'[o].at = "returning" => tab'[o] = tab[o]
    BY <1>d, <1>f
  <2> QED
    BY <1>e, <2>1 DEF LoginInv, ClearsAnEndedLogin
<1>10. UndisturbedLoginSucceeds'
  BY <1>e DEF LoginInv, UndisturbedLoginSucceeds
<1> QED
  BY <1>1, <1>2, <1>3, <1>4, <1>5, <1>6, <1>7, <1>8, <1>9, <1>10 DEF LoginInv

LEMMA SignInFailsKeeps ==
    ASSUME LoginInv, NEW t \in Tab, SignInFails(t)
    PROVE  LoginInv'
<1> USE LoginAssumption
<1>a. /\ LoginTypeOK
      /\ tab' = [tab EXCEPT ![t] = OnPage]
      /\ clock' = clock /\ attempt' = attempt /\ state' = state
      /\ session' = session /\ page' = page
  BY DEF LoginInv, SignInFails
<1>b. /\ tab'[t] = OnPage /\ \A o \in Tab \ {t} : tab'[o] = tab[o]
      /\ \A o \in Tab : tab'[o].at # "page" => tab'[o] = tab[o]
      /\ \A o \in Tab : tab'[o].gets # None => tab'[o] = tab[o]
  BY <1>a DEF LoginTypeOK, OnPage
<1>1. LoginTypeOK'
  BY <1>a DEF LoginTypeOK, Place, OnPage
<1>2. AtProvider' /\ FromProvider' /\ ClearsAnEndedLogin'
  BY <1>a, <1>b DEF LoginInv, AtProvider, FromProvider, ClearsAnEndedLogin
<1>3. SessionsAreRightful'
  BY <1>a, <1>b, SessionsStayRightful DEF LoginInv, SessionsAreRightful
<1>4. Unstarted' /\ CookieIsOwn' /\ SpentEnds' /\ EndsOnce'
  BY <1>a DEF LoginInv, Unstarted, CookieIsOwn, SpentEnds, EndsOnce
<1>5. LostToAnother' /\ UndisturbedLoginSucceeds'
  BY <1>a DEF LoginInv, LostToAnother, Disturbed, UndisturbedLoginSucceeds
<1> QED
  BY <1>1, <1>2, <1>3, <1>4, <1>5 DEF LoginInv

LEMMA LoadPageKeeps ==
    ASSUME LoginInv, NEW t \in Tab, LoadPage(t)
    PROVE  LoginInv'
<1> USE LoginAssumption
<1>a. /\ LoginTypeOK /\ BrowserOf[t] \in Browser
      /\ page' = [page EXCEPT ![t] = IF Valid(BrowserOf[t]) THEN session[BrowserOf[t]] ELSE None]
      /\ clock' = clock /\ attempt' = attempt /\ state' = state
      /\ session' = session /\ tab' = tab
  BY DEF LoginInv, LoadPage, LoginTypeOK
<1>b. /\ page'[t] \in {session[BrowserOf[t]], None}
      /\ \A o \in Tab \ {t} : page'[o] = page[o]
  BY <1>a DEF LoginTypeOK
<1>1. LoginTypeOK'
  BY <1>a DEF LoginTypeOK
<1>2. SessionsAreRightful'
  <2>1. \A s, c : Rightful(s, c) => Rightful(s, c)'
    BY <1>a, SessionsStayRightful
  <2>2. \A c \in Browser : session[c] # None => Rightful(session[c], c)
    BY DEF LoginInv, SessionsAreRightful
  <2>3. \A o \in Tab : page'[o] # None => Rightful(page'[o], BrowserOf[o])
    BY <1>a, <1>b, <2>2 DEF LoginInv, SessionsAreRightful
  <2> QED
    BY <1>a, <2>1, <2>3 DEF LoginInv, SessionsAreRightful
<1>3. Unstarted' /\ CookieIsOwn' /\ SpentEnds' /\ EndsOnce'
  BY <1>a DEF LoginInv, Unstarted, CookieIsOwn, SpentEnds, EndsOnce
<1>4. LostToAnother' /\ UndisturbedLoginSucceeds'
  BY <1>a DEF LoginInv, LostToAnother, Disturbed, UndisturbedLoginSucceeds
<1>5. AtProvider' /\ FromProvider' /\ ClearsAnEndedLogin'
  BY <1>a DEF LoginInv, AtProvider, FromProvider, ClearsAnEndedLogin
<1> QED
  BY <1>1, <1>2, <1>3, <1>4, <1>5 DEF LoginInv

LEMMA LogoutKeeps ==
    ASSUME LoginInv, NEW t \in Tab, Logout(t)
    PROVE  LoginInv'
<1> USE LoginAssumption
<1>a. /\ LoginTypeOK
      /\ page' = [page EXCEPT ![t] = None]
      /\ session' = [session EXCEPT ![BrowserOf[t]] = None]
      /\ clock' = clock /\ attempt' = attempt /\ state' = state /\ tab' = tab
  BY DEF LoginInv, Logout, ClearedOne
<1>b. /\ \A c \in Browser : session'[c] # None => session'[c] = session[c]
      /\ \A o \in Tab : page'[o] # None => page'[o] = page[o]
  BY <1>a DEF LoginTypeOK
<1>1. LoginTypeOK'
  BY <1>a DEF LoginTypeOK
<1>2. SessionsAreRightful'
  BY <1>a, <1>b, SessionsStayRightful DEF LoginInv, SessionsAreRightful
<1>3. Unstarted' /\ CookieIsOwn' /\ SpentEnds' /\ EndsOnce'
  BY <1>a DEF LoginInv, Unstarted, CookieIsOwn, SpentEnds, EndsOnce
<1>4. LostToAnother' /\ UndisturbedLoginSucceeds'
  BY <1>a DEF LoginInv, LostToAnother, Disturbed, UndisturbedLoginSucceeds
<1>5. AtProvider' /\ FromProvider' /\ ClearsAnEndedLogin'
  BY <1>a DEF LoginInv, AtProvider, FromProvider, ClearsAnEndedLogin
<1> QED
  BY <1>1, <1>2, <1>3, <1>4, <1>5 DEF LoginInv

LEMMA TickKeeps ==
    ASSUME LoginInv, Tick
    PROVE  LoginInv'
<1>a. /\ LoginTypeOK
      /\ clock \in Nat /\ clock' = clock + 1
      /\ attempt' = attempt /\ state' = state /\ session' = session
      /\ tab' = tab /\ page' = page
  BY DEF LoginInv, LoginTypeOK, Tick
<1>1. LoginTypeOK'
  BY <1>a DEF LoginTypeOK
<1>2. EndsOnce'
  <2>1. \A c \in Attempt : attempt[c].exp \in Nat
    BY <1>a DEF LoginTypeOK, Started
  <2> QED
    BY <1>a, <2>1 DEF LoginInv, EndsOnce
<1>3. Unstarted' /\ CookieIsOwn' /\ SpentEnds' /\ SessionsAreRightful'
  BY <1>a DEF LoginInv, Unstarted, CookieIsOwn, SpentEnds, SessionsAreRightful, Rightful
<1>4. LostToAnother' /\ UndisturbedLoginSucceeds'
  BY <1>a DEF LoginInv, LostToAnother, Disturbed, UndisturbedLoginSucceeds
<1>5. AtProvider' /\ FromProvider' /\ ClearsAnEndedLogin'
  BY <1>a DEF LoginInv, AtProvider, FromProvider, ClearsAnEndedLogin
<1> QED
  BY <1>1, <1>2, <1>3, <1>4, <1>5 DEF LoginInv

LEMMA ReturnKeeps ==
    ASSUME LoginInv, NEW t \in Tab, Return(t)
    PROVE  LoginInv'
<1> DEFINE b == BrowserOf[t]
<1> USE LoginAssumption
<1>a. /\ LoginTypeOK /\ b \in Browser
      /\ tab' = [tab EXCEPT ![t] = OnPage]
      /\ state' = IF tab[t].clears THEN [state EXCEPT ![b] = None] ELSE state
      /\ session' = IF tab[t].gets # None THEN [session EXCEPT ![b] = tab[t].gets] ELSE session
      /\ clock' = clock /\ attempt' = attempt /\ page' = page
      /\ tab[t].at = "returning"
  BY DEF LoginInv, Return
<1> HIDE DEF b
<1>b. /\ \A o \in Tab : tab'[o].at # "page" => tab'[o] = tab[o]
      /\ \A o \in Tab : tab'[o].gets # None => tab'[o] = tab[o]
  BY <1>a DEF LoginTypeOK, OnPage
<1>c. /\ \A c \in Browser : state'[c] \in {state[c], None}
      /\ \A c \in Browser : state'[c] # state[c] => c = b /\ tab[t].clears
  BY <1>a DEF LoginTypeOK
<1>d. \A c \in Browser : session'[c] # session[c] =>
          c = b /\ tab[t].gets # None /\ session'[c] = tab[t].gets
  BY <1>a DEF LoginTypeOK
<1>e. \A c \in Attempt : attempt[c].end # "none" \/ attempt[c].browser # None =>
          attempt[c].browser \in Browser
  BY <1>a DEF LoginInv, Unstarted, LoginTypeOK, Started
<1>1. LoginTypeOK'
  <2>1. tab[t].gets \in Session \cup {None}
    BY <1>a DEF LoginTypeOK, Place
  <2>2. session' \in [Browser -> Session \cup {None}]
    BY <1>a, <2>1 DEF LoginTypeOK
  <2>3. state' \in [Browser -> Attempt \cup {None}]
    BY <1>a DEF LoginTypeOK
  <2>4. tab' \in [Tab -> Place]
    BY <1>a DEF LoginTypeOK, Place, OnPage
  <2> QED
    BY <1>a, <2>2, <2>3, <2>4 DEF LoginTypeOK
<1>2. AtProvider' /\ FromProvider' /\ ClearsAnEndedLogin'
  BY <1>a, <1>b DEF LoginInv, AtProvider, FromProvider, ClearsAnEndedLogin
<1>3. SessionsAreRightful'
  <2>1. \A s, c : Rightful(s, c) => Rightful(s, c)'
    BY <1>a, SessionsStayRightful
  <2>2. tab[t].gets # None => Rightful(tab[t].gets, b)
    BY DEF LoginInv, SessionsAreRightful, b
  <2>3. \A c \in Browser : session'[c] # None => Rightful(session'[c], c)
    BY <1>d, <2>2 DEF LoginInv, SessionsAreRightful
  <2> QED
    BY <1>a, <1>b, <2>1, <2>3 DEF LoginInv, SessionsAreRightful
<1>4. Unstarted' /\ SpentEnds'
  BY <1>a DEF LoginInv, Unstarted, SpentEnds
<1>5. CookieIsOwn'
  BY <1>a, <1>c DEF LoginInv, CookieIsOwn
<1>6. EndsOnce'
  <2>1. \A c \in Attempt : c # None
    OBVIOUS
  <2> QED
    BY <1>a, <1>c, <1>e, <2>1 DEF LoginInv, EndsOnce
<1>7. LostToAnother'
  <2> SUFFICES ASSUME NEW c \in Attempt, attempt[c].browser # None, attempt[c].end = "none",
                      state'[attempt[c].browser] # c
               PROVE  Disturbed(c)
    BY <1>a DEF LostToAnother, Disturbed
  <2>1. CASE state[attempt[c].browser] # c
    BY <2>1 DEF LoginInv, LostToAnother
  <2>2. CASE state[attempt[c].browser] = c
    <3>1. attempt[c].browser = b /\ tab[t].clears
      BY <1>c, <1>e, <2>2
    <3>2. PICK d \in Attempt : /\ b \in attempt[d].opened
                               /\ attempt[d].browser = b => attempt[d].end # "none"
      BY <1>a, <3>1 DEF LoginInv, ClearsAnEndedLogin, b
    <3> QED
      BY <3>1, <3>2 DEF Disturbed
  <2> QED
    BY <2>1, <2>2
<1>8. UndisturbedLoginSucceeds'
  BY <1>a DEF LoginInv, UndisturbedLoginSucceeds
<1> QED
  BY <1>1, <1>2, <1>3, <1>4, <1>5, <1>6, <1>7, <1>8 DEF LoginInv

LEMMA CompleteKeeps ==
    ASSUME LoginInv, NEW t \in Tab, NEW a \in Attempt,
           NEW exchanged \in BOOLEAN, NEW merged \in BOOLEAN,
           Complete(t, a, exchanged, merged)
    PROVE  LoginInv'
<1> DEFINE b == BrowserOf[t]
<1> DEFINE end == Ends(b, a, exchanged, merged)
<1> DEFINE r == attempt[a]
<1> DEFINE spent == r.spent \/ end \in {"in", "forbidden", "provider"}
<1> DEFINE opened == r.opened \cup {b}
<1> DEFINE ended == IF r.end = "none" /\ r.browser = b THEN end ELSE r.end
<1> DEFINE new == [r EXCEPT !.spent = spent, !.opened = opened, !.end = ended]
<1> DEFINE got == [id |-> a, user |-> r.user, exp |-> clock + SessionTTL]
<1> DEFINE gets == IF end = "in" THEN got ELSE None
<1> DEFINE back == [at |-> "returning", login |-> None, clears |-> state[b] # None, gets |-> gets]
<1> USE LoginAssumption
<1>a. /\ LoginTypeOK /\ b \in Browser /\ r \in Started
      /\ attempt' = [attempt EXCEPT ![a] = new]
      /\ tab' = [tab EXCEPT ![t] = back]
      /\ page' = [page EXCEPT ![t] = None]
      /\ clock' = clock /\ state' = state /\ session' = session
  <2>1. LoginTypeOK
    BY DEF LoginInv
  <2> QED
    BY <2>1 DEF LoginTypeOK, Complete, Answered
<1>b. r.user \in User /\ r.browser \in Browser
  <2>1. r.user # None
    BY DEF LoginInv, FromProvider, Complete
  <2>2. r.browser # None
    BY <2>1 DEF LoginInv, Unstarted
  <2> QED
    BY <1>a, <2>1, <2>2 DEF Started
<1>c. end \in Ending \ {"none"}
  BY DEF Ends, Ending
\* How a login ends depends on the cookie, on time and on whether its code is spent.
<1>d. /\ end \in {"in", "forbidden", "provider"} =>
             state[b] = a /\ ~r.spent /\ ~(clock > r.exp)
      /\ end = "in" => Allows(LoginRoles(r.user, TRUE))
      /\ end = "late" => clock > r.exp
      /\ end = "refused" => state[b] # a \/ r.spent
  BY MoreRoles DEF Ends, LoginOfCookie
<1> HIDE DEF end
\* Only the first answer in a browser of its own can be good.
<1>e. end \in {"in", "forbidden", "provider"} => r.browser = b /\ r.end = "none"
  <2>1. state[b] = a => r.browser = b
    BY <1>a DEF LoginInv, CookieIsOwn
  <2> QED
    BY <1>d, <2>1 DEF LoginInv, EndsOnce
<1>f. r.spent => r.end # "none"
  BY DEF LoginInv, SpentEnds
<1>g. spent \in BOOLEAN /\ opened \in SUBSET Browser /\ ended \in Ending
  BY <1>a, <1>c DEF Started
<1> HIDE DEF r, spent, opened, ended
<1>h. /\ new \in Started
      /\ new.spent = spent /\ new.opened = opened /\ new.end = ended
      /\ new.browser = r.browser /\ new.exp = r.exp /\ new.user = r.user
  BY <1>a, <1>g DEF Started
<1> HIDE DEF new
<1>i. /\ attempt'[a] = new /\ \A c \in Attempt \ {a} : attempt'[c] = attempt[c]
      /\ \A c \in Attempt : /\ attempt'[c].browser = attempt[c].browser
                            /\ attempt'[c].exp = attempt[c].exp
                            /\ attempt'[c].user = attempt[c].user
                            /\ attempt[c].opened \subseteq attempt'[c].opened
                            /\ attempt[c].spent => attempt'[c].spent
                            /\ attempt[c].end # "none" => attempt'[c].end = attempt[c].end
  <2>1. attempt'[a] = new /\ \A c \in Attempt \ {a} : attempt'[c] = attempt[c]
    BY <1>a DEF LoginTypeOK
  <2>2. r.opened \subseteq opened /\ (r.spent => spent) /\ (r.end # "none" => ended = r.end)
    BY DEF opened, spent, ended
  <2> QED
    BY <1>h, <2>1, <2>2 DEF r
<1>j. /\ tab'[t] = back /\ \A o \in Tab \ {t} : tab'[o] = tab[o]
      /\ back.at = "returning" /\ back.gets = gets
  BY <1>a DEF LoginTypeOK
<1>k. got \in Session /\ got.id = a /\ got.user = r.user
  <2>1. clock + SessionTTL \in Nat
    BY <1>a DEF LoginTypeOK
  <2> QED
    BY <1>b, <2>1 DEF Session
<1>l. \A c \in Attempt : Disturbed(c) => Disturbed(c)'
  BY <1>i DEF Disturbed
<1> HIDE DEF got
<1>1. LoginTypeOK'
  <2>1. gets \in Session \cup {None} /\ (state[b] # None) \in BOOLEAN
    BY <1>k
  <2> HIDE DEF gets
  <2>2. back \in Place
    BY <2>1 DEF Place
  <2> HIDE DEF back
  <2> QED
    BY <1>a, <1>h, <2>2 DEF LoginTypeOK
<1>2. Unstarted'
  BY <1>b, <1>i DEF LoginInv, Unstarted, r
<1>3. AtProvider' /\ FromProvider'
  <2>1. \A o \in Tab : tab'[o].at # "returning" => tab'[o] = tab[o]
    BY <1>j
  <2> QED
    BY <1>i, <2>1 DEF LoginInv, AtProvider, FromProvider
<1>4. CookieIsOwn'
  BY <1>a, <1>i DEF LoginInv, CookieIsOwn, LoginTypeOK
<1>5. SessionsAreRightful'
  <2>1. ASSUME NEW s \in Session, NEW c, Rightful(s, c)
        PROVE  Rightful(s, c)'
    <3>1. s.id \in Attempt
      BY DEF Session
    <3> QED
      BY <1>i, <2>1, <3>1 DEF Rightful
  <2>2. tab'[t].gets # None => Rightful(tab[t].gets, b)'
    <3> SUFFICES ASSUME end = "in" PROVE Rightful(tab[t].gets, b)'
      BY <1>j
    <3>1. r.browser = b /\ ended = "in" /\ Allows(LoginRoles(r.user, TRUE))
      BY <1>d, <1>e DEF ended
    <3>2. tab'[t].gets = got
      BY <1>j
    <3>3. attempt'[a].browser = b /\ attempt'[a].user = r.user /\ attempt'[a].end = "in"
      BY <1>h, <1>i, <3>1
    <3> QED
      BY <1>k, <3>1, <3>2, <3>3 DEF Rightful
  <2>3. \A o \in Tab : page'[o] # None => page'[o] = page[o]
    BY <1>a DEF LoginTypeOK
  <2>4. /\ \A c \in Browser : session[c] # None => session[c] \in Session
        /\ \A o \in Tab : tab[o].gets # None => tab[o].gets \in Session
        /\ \A o \in Tab : page[o] # None => page[o] \in Session
    BY <1>a DEF LoginTypeOK, Place
  <2>5. \A o \in Tab : tab'[o].gets # None => Rightful(tab[o].gets, BrowserOf[o])'
    BY <1>j, <2>1, <2>2, <2>4 DEF LoginInv, SessionsAreRightful
  <2> QED
    BY <1>a, <2>1, <2>3, <2>4, <2>5 DEF LoginInv, SessionsAreRightful
<1>6. SpentEnds'
  <2>1. spent => ended # "none"
    BY <1>c, <1>e, <1>f DEF spent, ended
  <2> QED
    BY <1>h, <1>i, <2>1 DEF LoginInv, SpentEnds
<1>7. EndsOnce'
  <2> SUFFICES ASSUME NEW c \in Attempt, attempt'[c].end # "none"
               PROVE  \/ attempt'[c].spent \/ clock > attempt'[c].exp
                      \/ state[attempt'[c].browser] # c
    BY <1>a DEF EndsOnce
  <2>1. CASE attempt[c].end # "none"
    BY <1>i, <2>1 DEF LoginInv, EndsOnce
  <2>2. CASE attempt[c].end = "none"
    <3>1. c = a /\ r.end = "none" /\ r.browser = b /\ ended = end
      BY <1>h, <1>i, <2>2 DEF ended, r
    <3>2. end = "refused" => state[b] # a
      BY <1>d, <1>f, <3>1
    <3> QED
      BY <1>c, <1>d, <1>h, <1>i, <3>1, <3>2 DEF spent, Ending
  <2> QED
    BY <2>1, <2>2
<1>8. LostToAnother'
  BY <1>a, <1>i, <1>l DEF LoginInv, LostToAnother
<1>9. ClearsAnEndedLogin'
  <2> SUFFICES ASSUME NEW o \in Tab, tab'[o].at = "returning", tab'[o].clears
               PROVE  \E c \in Attempt :
                          /\ BrowserOf[o] \in attempt'[c].opened
                          /\ attempt'[c].browser = BrowserOf[o] => attempt'[c].end # "none"
    BY DEF ClearsAnEndedLogin
  <2>1. CASE o = t
    <3>1. b \in opened /\ (r.browser = b => ended # "none")
      BY <1>c DEF opened, ended
    <3> QED
      BY <1>h, <1>i, <2>1, <3>1
  <2>2. CASE o # t
    <3>1. PICK c \in Attempt : /\ BrowserOf[o] \in attempt[c].opened
                               /\ attempt[c].browser = BrowserOf[o] => attempt[c].end # "none"
      BY <1>j, <2>2 DEF LoginInv, ClearsAnEndedLogin
    <3> QED
      BY <1>i, <3>1
  <2> QED
    BY <2>1, <2>2
<1>10. UndisturbedLoginSucceeds'
  <2> SUFFICES ASSUME NEW c \in Attempt, attempt'[c].end = "refused"
               PROVE  Disturbed(c)'
    BY DEF UndisturbedLoginSucceeds, Disturbed
  <2>1. CASE attempt[c].end = "refused"
    BY <1>l, <2>1 DEF LoginInv, UndisturbedLoginSucceeds, Disturbed
  <2>2. CASE attempt[c].end # "refused"
    <3>1. c = a /\ r.end = "none" /\ r.browser = b /\ end = "refused"
      BY <1>h, <1>i, <2>2 DEF ended, r
    <3>2. state[b] # a
      BY <1>d, <1>f, <3>1
    <3>3. Disturbed(a)
      BY <1>b, <3>1, <3>2 DEF LoginInv, LostToAnother, r
    <3> QED
      BY <1>l, <3>1, <3>3
  <2> QED
    BY <2>1, <2>2
<1> QED
  BY <1>1, <1>2, <1>3, <1>4, <1>5, <1>6, <1>7, <1>8, <1>9, <1>10 DEF LoginInv
LEMMA StutterKeeps ==
    ASSUME LoginInv, UNCHANGED loginVars
    PROVE  LoginInv'
<1>1. /\ attempt' = attempt /\ state' = state /\ session' = session
      /\ tab' = tab /\ page' = page /\ clock' = clock
  BY DEF loginVars
<1>2. LoginTypeOK'
  BY <1>1 DEF LoginInv, LoginTypeOK
<1>3. Unstarted' /\ AtProvider' /\ FromProvider' /\ CookieIsOwn'
  BY <1>1 DEF LoginInv, Unstarted, AtProvider, FromProvider, CookieIsOwn
<1>4. SessionsAreRightful'
  BY <1>1 DEF LoginInv, SessionsAreRightful, Rightful
<1>5. SpentEnds' /\ EndsOnce' /\ LostToAnother'
  BY <1>1 DEF LoginInv, SpentEnds, EndsOnce, LostToAnother, Disturbed
<1>6. ClearsAnEndedLogin' /\ UndisturbedLoginSucceeds'
  BY <1>1 DEF LoginInv, ClearsAnEndedLogin, UndisturbedLoginSucceeds
<1> QED
  BY <1>2, <1>3, <1>4, <1>5, <1>6 DEF LoginInv

LEMMA StepKeeps == LoginInv /\ [LoginNext]_loginVars => LoginInv'
<1> SUFFICES ASSUME LoginInv, [LoginNext]_loginVars PROVE LoginInv'
  OBVIOUS
<1>1. ASSUME NEW t \in Tab, NEW a \in Attempt, Start(t, a) PROVE LoginInv'
  BY <1>1, StartKeeps
<1>2. ASSUME NEW t \in Tab, NEW u \in User, SignIn(t, u) PROVE LoginInv'
  BY <1>2, SignInKeeps
<1>3. ASSUME NEW t \in Tab, SignInFails(t) PROVE LoginInv'
  BY <1>3, SignInFailsKeeps
<1>4. ASSUME NEW t \in Tab, NEW a \in Attempt, NEW exchanged \in BOOLEAN,
             NEW merged \in BOOLEAN, Complete(t, a, exchanged, merged)
      PROVE  LoginInv'
  BY <1>4, CompleteKeeps
<1>5. ASSUME NEW t \in Tab, Return(t) PROVE LoginInv'
  BY <1>5, ReturnKeeps
<1>6. ASSUME NEW t \in Tab, LoadPage(t) PROVE LoginInv'
  BY <1>6, LoadPageKeeps
<1>7. ASSUME NEW t \in Tab, Logout(t) PROVE LoginInv'
  BY <1>7, LogoutKeeps
<1>8. CASE Tick
  BY <1>8, TickKeeps
<1>9. CASE UNCHANGED loginVars
  BY <1>9, StutterKeeps
<1> QED
  BY <1>1, <1>2, <1>3, <1>4, <1>5, <1>6, <1>7, <1>8, <1>9 DEF LoginNext

-----------------------------------------------------------------------------
(* The theorems. *)

\* LoginInv holds throughout.
THEOREM LoginInvariance == LoginSpec => []LoginInv
BY InitKeeps, StepKeeps, PTL DEF LoginSpec

\* The cookies, the tabs and the pages are of their types: a session has a user
\* who signed in, and a tab returns from a login that was started.
THEOREM LoginTypeCorrect == LoginSpec => []LoginTypeOK
<1>1. LoginInv => LoginTypeOK
  BY DEF LoginInv
<1> QED
  BY <1>1, LoginInvariance, PTL

LEMMA RightfulOfLoginInv == LoginInv => SessionIsOfTheBrowsersLogin
BY DEF LoginInv, SessionsAreRightful, Rightful, SessionIsOfTheBrowsersLogin

\* A browser is only ever signed in by a login that was started in it, as the
\* user who signed in there, and only if that user has a required role
\* (OIDCLogin.Complete and SessionManager.Read).
THEOREM SessionsBelongToTheBrowsersLogin == LoginSpec => []SessionIsOfTheBrowsersLogin
BY RightfulOfLoginInv, LoginInvariance, PTL

\* OIDCLogin.Complete refuses a login for its state or its code only where
\* another one was started, or its address opened, in the same browser.
THEOREM UndisturbedLoginsSucceed == LoginSpec => []UndisturbedLoginSucceeds
<1>1. LoginInv => UndisturbedLoginSucceeds
  BY DEF LoginInv
<1> QED
  BY <1>1, LoginInvariance, PTL


-----------------------------------------------------------------------------
(* Uploads: the inductive invariant. *)

Open == pc \in {"next", "copy"}

\* A request under way has a body and an id that nothing else uses.
RequestUnderWay ==
    Open => /\ asked \in Form /\ job \in Job
            /\ job \notin accepted /\ job \notin abandoned

\* What it has on the staging volume is where the handler is.
StagedSoFar ==
    /\ pc = "copy" => at < Len(asked) /\ file = Nothing /\ Staged(job) = {<<job, "temp">>}
    /\ pc = "next" /\ file = Nothing => Staged(job) = {}
    /\ pc = "next" /\ file # Nothing => Staged(job) = {<<job, "staged">>}

UploadInv ==
    /\ pc \in {"idle", "next", "copy", "done"}
    /\ at \in Nat
    /\ staging \subseteq Job \X {"temp", "staged"}
    /\ accepted \subseteq Job /\ abandoned \subseteq Job
    /\ pc \in {"idle", "done"} => at = 0 /\ file = Nothing /\ name = Nothing
    /\ RequestUnderWay /\ StagedSoFar /\ FilesHaveTheirJobs

-----------------------------------------------------------------------------
\* A part of a body is a part, so it is not Nothing.
LEMMA PartsAreParts ==
    ASSUME UploadInv, Open, at < Len(asked)
    PROVE  Part # Nothing /\ at + 1 \in 1 .. Len(asked)
<1>1. asked \in Form /\ at \in Nat
  BY DEF UploadInv, RequestUnderWay
<1>2. asked \in Seq({asked[i] : i \in DOMAIN asked})
  BY <1>1, FormAssumption
<1>3. DOMAIN asked = 1 .. Len(asked) /\ Len(asked) \in Nat
  BY <1>2
<1>4. at + 1 \in DOMAIN asked
  BY <1>1, <1>3
<1>5. Nothing \notin {asked[i] : i \in DOMAIN asked}
  BY <1>1, FormAssumption
<1> QED
  BY <1>3, <1>4, <1>5 DEF Part

LEMMA UploadInitKeeps == UploadInit => UploadInv
BY DEF UploadInit, UploadInv, RequestUnderWay, Open, StagedSoFar, FilesHaveTheirJobs, Staged

\* An error answer removes what its request staged, and only that.
LEMMA RefuseKeeps ==
    ASSUME UploadInv, Open, NEW status, Refuse(status)
    PROVE  UploadInv'
<1>1. /\ pc' = "done" /\ at' = 0 /\ file' = Nothing /\ name' = Nothing
      /\ job' = job /\ accepted' = accepted /\ abandoned' = abandoned
      /\ staging' = staging \ {<<job, "temp">>, <<job, "staged">>}
  BY DEF Refuse, Respond
<1>2. job \notin accepted /\ staging \subseteq Job \X {"temp", "staged"}
  BY DEF UploadInv, RequestUnderWay
<1>3. \A f \in staging : f[1] = job => f \in {<<job, "temp">>, <<job, "staged">>}
  BY <1>2
<1>4. FilesHaveTheirJobs'
  <2>1. ASSUME NEW f \in staging' PROVE f[1] \in accepted \cup abandoned
    BY <1>1, <1>3, <2>1 DEF UploadInv, FilesHaveTheirJobs
  <2>2. ASSUME NEW j \in accepted PROVE Staged(j)' = {<<j, "staged">>}
    <3>1. Staged(j) = {<<j, "staged">>} /\ j # job
      BY <1>2, <2>2 DEF UploadInv, FilesHaveTheirJobs
    <3>2. \A f \in staging : f[1] = j => f \in staging'
      BY <1>1, <3>1
    <3> QED
      BY <1>1, <3>1, <3>2 DEF Staged
  <2> QED
    BY <1>1, <2>1, <2>2 DEF FilesHaveTheirJobs
<1> QED
  BY <1>1, <1>4 DEF UploadInv, RequestUnderWay, Open, StagedSoFar

\* A handler that ends in the middle leaves its files to nobody.
LEMMA EndKeeps ==
    ASSUME UploadInv, Open, NEW status, End(status)
    PROVE  UploadInv'
<1>1. /\ pc' = "done" /\ at' = 0 /\ file' = Nothing /\ name' = Nothing
      /\ job' = job /\ accepted' = accepted /\ staging' = staging
      /\ abandoned' = IF \E f \in staging : f[1] = job THEN abandoned \cup {job} ELSE abandoned
  BY DEF End, Respond
<1>2. job \in Job
  BY DEF UploadInv, RequestUnderWay
<1>3. FilesHaveTheirJobs'
  BY <1>1 DEF UploadInv, FilesHaveTheirJobs, Staged
<1> QED
  BY <1>1, <1>2, <1>3 DEF UploadInv, RequestUnderWay, Open, StagedSoFar

LEMMA BeginKeeps ==
    ASSUME UploadInv, NEW j \in Job, NEW form \in Form, BeginUpload(j, form)
    PROVE  UploadInv'
<1>1. /\ pc = "idle" /\ pc' = "next" /\ asked' = form /\ job' = j
      /\ j \notin accepted \cup abandoned
      /\ at' = at /\ file' = file /\ name' = name /\ staging' = staging
      /\ accepted' = accepted /\ abandoned' = abandoned
  BY DEF BeginUpload
<1>2. Staged(j) = {}
  BY <1>1 DEF UploadInv, FilesHaveTheirJobs, Staged
<1>3. FilesHaveTheirJobs'
  BY <1>1 DEF UploadInv, FilesHaveTheirJobs, Staged
<1>4. StagedSoFar'
  BY <1>1, <1>2 DEF UploadInv, StagedSoFar, Staged
<1> QED
  BY <1>1, <1>3, <1>4 DEF UploadInv, RequestUnderWay, Open

\* The files of other requests are not touched by this one's.
LEMMA OthersStay ==
    ASSUME UploadInv, Open, Open', job' = job,
           accepted' = accepted, abandoned' = abandoned,
           \A f : f[1] # job => (f \in staging <=> f \in staging')
    PROVE  FilesHaveTheirJobs'
<1>1. job \notin accepted
  BY DEF UploadInv, RequestUnderWay
<1>2. ASSUME NEW f \in staging' PROVE f[1] \in accepted' \cup abandoned' \/ f[1] = job'
  BY <1>2 DEF UploadInv, FilesHaveTheirJobs
<1>3. ASSUME NEW j \in accepted PROVE Staged(j)' = {<<j, "staged">>}
  <2>1. Staged(j) = {<<j, "staged">>} /\ j # job
    BY <1>1, <1>3 DEF UploadInv, FilesHaveTheirJobs
  <2> QED
    BY <2>1 DEF Staged
<1> QED
  BY <1>2, <1>3 DEF FilesHaveTheirJobs, Open

LEMMA FilePartKeeps == ASSUME UploadInv, FilePart PROVE UploadInv'
<1>1. pc = "next" /\ at < Len(asked) /\ Open
  BY DEF FilePart, NextIs, Open
<1>2. CASE \E status : Refuse(status)
  BY <1>1, <1>2, RefuseKeeps
<1>3. CASE \E status : End(status)
  BY <1>1, <1>3, EndKeeps
<1>4. CASE /\ file = Nothing /\ pc' = "copy"
           /\ staging' = staging \cup {<<job, "temp">>}
           /\ UNCHANGED <<asked, at, job, file, name, answer, accepted, abandoned, share>>
  <2>1. Open' /\ \A f : f[1] # job => (f \in staging <=> f \in staging')
    BY <1>4 DEF Open
  <2>2. FilesHaveTheirJobs'
    BY <1>1, <1>4, <2>1, OthersStay
  <2>3. job \in Job /\ Staged(job)' = {<<job, "temp">>}
    BY <1>1, <1>4 DEF UploadInv, RequestUnderWay, StagedSoFar, Staged
  <2> QED
    BY <1>1, <1>4, <2>2, <2>3 DEF UploadInv, RequestUnderWay, Open, StagedSoFar, Staged
<1> QED
  BY <1>2, <1>3, <1>4 DEF FilePart

LEMMA CopyKeeps == ASSUME UploadInv, Copy PROVE UploadInv'
<1>1. pc = "copy" /\ Open
  BY DEF Copy, Open
<1>2. CASE \E status : Refuse(status)
  BY <1>1, <1>2, RefuseKeeps
<1>3. CASE /\ staging' = (staging \ {<<job, "temp">>}) \cup {<<job, "staged">>}
           /\ file' = Part /\ GoOn /\ UNCHANGED name
  <2>1. /\ pc' = "next" /\ at' = at + 1 /\ asked' = asked /\ job' = job
        /\ accepted' = accepted /\ abandoned' = abandoned /\ Open'
    BY <1>3 DEF GoOn, Open
  <2>2. FilesHaveTheirJobs'
    BY <1>1, <1>3, <2>1, OthersStay
  <2>3. job \in Job /\ Staged(job) = {<<job, "temp">>} /\ file' # Nothing
    BY <1>1, <1>3, PartsAreParts DEF UploadInv, RequestUnderWay, StagedSoFar
  <2>4. Staged(job)' = {<<job, "staged">>}
    BY <1>3, <2>1, <2>3 DEF Staged
  <2> QED
    BY <1>1, <1>3, <2>1, <2>2, <2>3, <2>4 DEF UploadInv, RequestUnderWay, Open, StagedSoFar
<1> QED
  BY <1>2, <1>3 DEF Copy

\* A part that is not a file is read, or refused.
LEMMA ReadOnKeeps ==
    ASSUME UploadInv, pc = "next", GoOn, UNCHANGED <<file, staging>>
    PROVE  UploadInv'
<1>1. /\ pc' = "next" /\ at' = at + 1 /\ asked' = asked /\ job' = job
      /\ accepted' = accepted /\ abandoned' = abandoned
      /\ file' = file /\ staging' = staging
  BY DEF GoOn
<1>2. FilesHaveTheirJobs'
  BY <1>1 DEF UploadInv, FilesHaveTheirJobs, Staged
<1>3. StagedSoFar'
  BY <1>1 DEF UploadInv, StagedSoFar, Staged
<1> QED
  BY <1>1, <1>2, <1>3 DEF UploadInv, RequestUnderWay, Open

LEMMA NamePartKeeps == ASSUME UploadInv, NamePart PROVE UploadInv'
<1>1. pc = "next" /\ Open
  BY DEF NamePart, NextIs, Open
<1>2. (\E status : Refuse(status)) \/ (GoOn /\ UNCHANGED <<file, staging>>)
  BY DEF NamePart
<1> QED
  BY <1>1, <1>2, RefuseKeeps, ReadOnKeeps

LEMMA OtherPartKeeps == ASSUME UploadInv, OtherPart PROVE UploadInv'
<1>1. pc = "next" /\ Open
  BY DEF OtherPart, NextIs, Open
<1>2. (\E status : Refuse(status)) \/ (GoOn /\ UNCHANGED <<file, staging>>)
  BY DEF OtherPart
<1> QED
  BY <1>1, <1>2, RefuseKeeps, ReadOnKeeps

LEMMA EndOfFormKeeps == ASSUME UploadInv, EndOfForm PROVE UploadInv'
<1>1. pc = "next" /\ Open
  BY DEF EndOfForm, Open
<1>2. CASE \E status : Refuse(status)
  BY <1>1, <1>2, RefuseKeeps
<1>3. CASE \E status : End(status)
  BY <1>1, <1>3, EndKeeps
<1>4. CASE /\ file # Nothing /\ Respond(202)
           /\ accepted' = accepted \cup {job}
           /\ UNCHANGED <<staging, abandoned>>
  <2>1. /\ pc' = "done" /\ at' = 0 /\ file' = Nothing /\ name' = Nothing
        /\ job \in Job /\ Staged(job) = {<<job, "staged">>}
    BY <1>1, <1>4 DEF Respond, UploadInv, RequestUnderWay, StagedSoFar
  <2>2. FilesHaveTheirJobs'
    BY <1>1, <1>4, <2>1 DEF UploadInv, FilesHaveTheirJobs, Staged
  <2> QED
    BY <1>4, <2>1, <2>2 DEF UploadInv, RequestUnderWay, Open, StagedSoFar
<1> QED
  BY <1>2, <1>3, <1>4 DEF EndOfForm

LEMMA IdleKeeps ==
    ASSUME UploadInv, pc \in {"idle", "done"}, pc' \in {"idle", "done"},
           UNCHANGED <<at, file, name, staging, accepted, abandoned>>
    PROVE  UploadInv'
<1>1. FilesHaveTheirJobs'
  BY DEF UploadInv, FilesHaveTheirJobs, Staged
<1> QED
  BY <1>1 DEF UploadInv, RequestUnderWay, Open, StagedSoFar

LEMMA UploadStepKeeps == UploadInv /\ [UploadNext]_uploadVars => UploadInv'
<1> SUFFICES ASSUME UploadInv, [UploadNext]_uploadVars PROVE UploadInv'
  OBVIOUS
<1>1. ASSUME NEW j \in Job, NEW form \in Form, BeginUpload(j, form) PROVE UploadInv'
  BY <1>1, BeginKeeps
<1>2. CASE UploadStep
  BY <1>2, FilePartKeeps, CopyKeeps, NamePartKeeps, OtherPartKeeps, EndOfFormKeeps DEF UploadStep
<1>3. CASE Crash
  BY <1>3, EndKeeps DEF Crash, Open
<1>4. CASE Forget
  BY <1>4, IdleKeeps DEF Forget
<1>5. ASSUME NEW v \in Typed, Rename(v) PROVE UploadInv'
  BY <1>5, IdleKeeps DEF Rename
<1>6. CASE UNCHANGED uploadVars
  <2>1. FilesHaveTheirJobs' /\ StagedSoFar'
    BY <1>6 DEF uploadVars, UploadInv, FilesHaveTheirJobs, StagedSoFar, Staged
  <2> QED
    BY <1>6, <2>1 DEF uploadVars, UploadInv, RequestUnderWay, Open
<1> QED
  BY <1>1, <1>2, <1>3, <1>4, <1>5, <1>6 DEF UploadNext

-----------------------------------------------------------------------------
(* Uploads: the theorem. *)

\* Every file on the staging volume belongs to an accepted job, to the request
\* under way or to one whose handler ended without an answer, and every accepted
\* job has its file and no other (stageMultipartUpload, stageUpload and
\* handleCreateUpload), for bodies of any length and any limits.
THEOREM FilesBelong == UploadSpec => []FilesHaveTheirJobs
<1>1. UploadInv => FilesHaveTheirJobs
  BY DEF UploadInv
<1> QED
  BY <1>1, UploadInitKeeps, UploadStepKeeps, PTL DEF UploadSpec

-----------------------------------------------------------------------------
(* Uploads: what the answer says of the body. *)

\* What MaxBytesReader has counted after each part.
LEMMA SizesOneByOne ==
    ASSUME NEW parts, NEW n \in Nat, DOMAIN parts = 1 .. n, \A i \in 1 .. n : parts[i].size \in Nat
    PROVE  \E acc :
              /\ acc[0] = 0 /\ acc[n] = Size(parts)
              /\ \A k \in 1 .. n : acc[k] = acc[k - 1] + parts[k].size
<1> DEFINE h == [p \in (1 .. n) \X Nat |-> p[2] + parts[p[1]].size]
           Folds(it) == it = [t \in SUBSET DOMAIN parts |->
                                IF t = {} THEN 0 ELSE it[t \ {Max(t)}] + parts[Max(t)].size]
           fold == CHOOSE it : Folds(it)
           acc == [k \in 0 .. n |-> fold[1 .. k]]
<1>1. h \in [(1 .. n) \X Nat -> Nat]
  <2>1. \A p \in (1 .. n) \X Nat : parts[p[1]].size \in Nat /\ p[2] \in Nat
    OBVIOUS
  <2>2. \A p \in (1 .. n) \X Nat : p[2] + parts[p[1]].size \in Nat
    BY <2>1
  <2> QED
    BY <2>2
<1>2. PICK it : Iterator(it, n, Nat, 0, h)
  <2> HIDE DEF h
  <2> QED
    BY <1>1, Iterates
<1>3. \A t \in SUBSET (1 .. n) : t # {} => Max(t) \in 1 .. n /\ it[t \ {Max(t)}] \in Nat
  BY <1>2, MinMax DEF Iterator
<1>4. Folds(it)
  <2>1. \A t \in SUBSET (1 .. n) :
          it[t] = IF t = {} THEN 0 ELSE it[t \ {Max(t)}] + parts[Max(t)].size
    BY <1>2, <1>3 DEF Iterator
  <2> QED
    BY <1>2, <2>1 DEF Iterator
<1>5. Folds(fold)
  <2> HIDE DEF Folds
  <2> QED
    BY <1>4
<1>6. Size(parts) = fold[1 .. n]
  BY DEF Size, FoldLeft, MapThenFoldSet
<1> HIDE DEF fold
<1>7. acc[0] = 0
  <2>1. 1 .. 0 = {} /\ 0 \in 0 .. n
    OBVIOUS
  <2>2. fold[{}] = 0
    BY <1>5
  <2> QED
    BY <2>1, <2>2
<1>8. ASSUME NEW k \in 1 .. n PROVE acc[k] = acc[k - 1] + parts[k].size
  <2>0. /\ 1 .. k \in SUBSET (1 .. n) /\ 1 .. k # {}
        /\ Max(1 .. k) = k /\ (1 .. k) \ {Max(1 .. k)} = 1 .. k - 1
    BY FirstNumbers
  <2>1. fold[1 .. k] = fold[1 .. k - 1] + parts[k].size
    BY <1>5, <2>0
  <2>2. k \in 0 .. n /\ k - 1 \in 0 .. n
    OBVIOUS
  <2> QED
    BY <2>1, <2>2
<1>9. acc[n] = Size(parts)
  BY <1>6
<1> HIDE DEF acc
<1> QED
  BY <1>7, <1>8, <1>9

\* A body is as large as its parts up to any of them, or larger.
LEMMA SizesGrow ==
    ASSUME NEW C, NEW form \in Seq(C), \A i \in 1 .. Len(form) : form[i].size \in Nat
    PROVE  /\ Size(SubSeq(form, 1, 0)) = 0
           /\ Size(form) \in Nat
           /\ \A k \in 0 .. Len(form) :
                 Size(SubSeq(form, 1, k)) \in Nat /\ Size(SubSeq(form, 1, k)) <= Size(form)
           /\ \A k \in 1 .. Len(form) :
                 Size(SubSeq(form, 1, k)) = Size(SubSeq(form, 1, k - 1)) + form[k].size
<1> DEFINE n == Len(form)
<1>1. n \in Nat /\ DOMAIN form = 1 .. n
  OBVIOUS
<1>2. PICK acc : /\ acc[0] = 0 /\ acc[n] = Size(form)
                 /\ \A k \in 1 .. n : acc[k] = acc[k - 1] + form[k].size
  BY <1>1, SizesOneByOne
<1>3. ASSUME NEW k \in 0 .. n PROVE Size(SubSeq(form, 1, k)) = acc[k]
  <2> DEFINE s == SubSeq(form, 1, k)
  <2>1. k \in Nat /\ DOMAIN s = 1 .. k /\ \A i \in 1 .. k : s[i] = form[i] /\ i \in 1 .. n
    BY <1>1
  <2> HIDE DEF s, n
  <2>2. PICK part : /\ part[0] = 0 /\ part[k] = Size(s)
                    /\ \A i \in 1 .. k : part[i] = part[i - 1] + s[i].size
    BY <2>1, SizesOneByOne DEF n
  <2> DEFINE P == {i \in 0 .. k : part[i] = acc[i]}
  <2>3. 0 \in P
    BY <1>2, <2>1, <2>2
  <2>4. ASSUME NEW i \in 1 .. k, i - 1 \in P PROVE i \in P
    <3>1. part[i] = part[i - 1] + form[i].size /\ acc[i] = acc[i - 1] + form[i].size
      BY <1>2, <2>1, <2>2
    <3> QED
      BY <2>1, <2>4, <3>1
  <2>5. k \in P
    <3> HIDE DEF P
    <3>1. 0 .. k \subseteq P
      BY <2>1, <2>3, <2>4, UpTo
    <3> QED
      BY <2>1, <3>1
  <2> QED
    BY <2>2, <2>5 DEF s
<1>4. n \in {m \in 0 .. n : acc[m] \in Nat /\ \A k \in 0 .. m : acc[k] \in Nat /\ acc[k] <= acc[m]}
  <2> DEFINE P == {m \in 0 .. n : acc[m] \in Nat /\ \A k \in 0 .. m : acc[k] \in Nat /\ acc[k] <= acc[m]}
  <2>1. 0 \in P
    BY <1>1, <1>2
  <2>2. ASSUME NEW m \in 1 .. n, m - 1 \in P PROVE m \in P
    <3> DEFINE a == acc[m - 1]
               b == acc[m]
    <3>1. b = a + form[m].size /\ a \in Nat /\ \A k \in 0 .. m - 1 : acc[k] \in Nat /\ acc[k] <= a
      BY <1>2, <2>2
    <3>2. form[m].size \in Nat /\ m \in 0 .. n /\ m \in Nat
      BY <1>1
    <3> HIDE DEF a
    <3>3. b \in Nat /\ a <= b
      BY <3>1, <3>2
    <3>4. ASSUME NEW k \in 0 .. m PROVE acc[k] \in Nat /\ acc[k] <= b
      <4>1. CASE k = m
        BY <3>3, <4>1
      <4>2. CASE k # m
        <5>1. k \in 0 .. m - 1
          BY <3>2, <4>2
        <5>2. acc[k] \in Nat /\ acc[k] <= a
          BY <3>1, <5>1
        <5> DEFINE c == acc[k]
        <5> HIDE DEF c
        <5>3. c \in Nat /\ c <= a => c <= b
          BY <3>1, <3>3
        <5> QED
          BY <5>2, <5>3 DEF c
      <4> QED
        BY <4>1, <4>2
    <3> QED
      BY <3>2, <3>3, <3>4
  <2>3. n \in P
    <3> HIDE DEF P, n
    <3>1. 0 .. n \subseteq P
      <4>1. n \in Nat
        BY <1>1
      <4> QED
        BY <2>1, <2>2, <4>1, UpTo
    <3> QED
      BY <1>1, <3>1
  <2> QED
    BY <2>3
<1>5. \A k \in 0 .. n : acc[k] \in Nat /\ acc[k] <= acc[n]
  BY <1>4
<1>6. 0 \in 0 .. n /\ n \in 0 .. n
  BY <1>1
<1>7. ASSUME NEW k \in 1 .. n
      PROVE  Size(SubSeq(form, 1, k)) = Size(SubSeq(form, 1, k - 1)) + form[k].size
  <2>1. k \in 0 .. n /\ k - 1 \in 0 .. n
    BY <1>1
  <2>2. Size(SubSeq(form, 1, k)) = acc[k] /\ Size(SubSeq(form, 1, k - 1)) = acc[k - 1]
    BY <1>3, <2>1
  <2> QED
    BY <1>2, <2>2
<1> HIDE DEF n
<1> QED
  BY <1>2, <1>3, <1>5, <1>6, <1>7 DEF n

LEMMA TwoAreMany ==
    ASSUME NEW n \in Nat, NEW S \in SUBSET (1 .. n), NEW i \in S, NEW j \in S, i # j
    PROVE  Cardinality(S) # 1 /\ Cardinality(S) > 1
<1>1. IsFiniteSet(1 .. n)
  BY FS_Interval
<1>2. IsFiniteSet(S)
  BY <1>1, FS_Subset
<1>3. Cardinality(S) \in Nat /\ Cardinality(S) # 0
  BY <1>2, FS_CardinalityType, FS_EmptySet
<1>4. Cardinality(S) # 1
  BY <1>2, FS_Singleton
<1> QED
  BY <1>3, <1>4

\* What is known of the parts of a body.
LEMMA PartsOfForms ==
    ASSUME NEW form \in Form
    PROVE  /\ form \in Seq({form[i] : i \in DOMAIN form})
           /\ DOMAIN form = 1 .. Len(form) /\ Len(form) \in Nat
           /\ \A i \in 1 .. Len(form) :
                 /\ form[i].kind \in Kind /\ form[i].size \in Nat /\ form[i] # Nothing
                 /\ form[i].text \in Seq(Range(form[i].text))
                 /\ form[i].kind = "file" /\ form[i].typeExt # "video" =>
                       /\ form[i].typeExt \in Seq(Range(form[i].typeExt))
                       /\ NormalizeExtension(form[i].typeExt) = form[i].typeExt
<1>1. form \in Seq({form[i] : i \in DOMAIN form})
  BY FormAssumption
<1>2. DOMAIN form = 1 .. Len(form) /\ Len(form) \in Nat
  BY <1>1
<1> QED
  BY <1>1, <1>2, FormAssumption

\* The part that was kept of a kind is the only one of it so far.
OnlyOne(kind, part) ==
    IF part = Nothing THEN \A i \in 1 .. at : asked[i].kind # kind
    ELSE \E i \in 1 .. at :
            /\ asked[i] = part /\ part.kind = kind
            /\ \A k \in 1 .. at : asked[k].kind = kind => k = i

\* The parts that were read are whole and within their limits, as their sum is.
PartsAreRight ==
    /\ \A i \in 1 .. at :
          /\ asked[i].whole
          /\ asked[i].kind = "file" => asked[i].size <= MaxUpload
          /\ asked[i].kind = "name" => asked[i].size <= NameMax
    /\ Size(SubSeq(asked, 1, at)) <= MaxUpload + Slack

ReadSoFar ==
    Open => /\ at <= Len(asked)
            /\ PartsAreRight /\ OnlyOne("file", file) /\ OnlyOne("name", name)
            /\ pc = "copy" => at < Len(asked) /\ Part.kind = "file" /\ file = Nothing

AnswerInv ==
    /\ pc # "done" => answer = 0
    /\ ReadSoFar /\ AnswersTellWhy /\ OnlyLongEndingsPanic

LongNames(form) ==
    \E i \in DOMAIN form :
        /\ form[i].kind # "other"
        /\ \E k \in DOMAIN form[i].text :
              form[i].text[k] = "." /\ Len(form[i].text) - k >= LongExt

\* An answer for which there is reason.
LEMMA AnsweredKeeps ==
    ASSUME AnswerInv, NEW status, Respond(status),
           status \in {202, 409} => ~TooLarge(asked) /\ ~Malformed(asked),
           status = 413 => TooLarge(asked),
           status = 400 => Malformed(asked),
           status = Panicked => LongNames(asked)
    PROVE  AnswerInv'
<1>1. pc' = "done" /\ answer' = status /\ asked' = asked
  BY DEF Respond
<1>2. AnswersTellWhy'
  BY <1>1 DEF AnswersTellWhy
<1>3. OnlyLongEndingsPanic'
  BY <1>1 DEF OnlyLongEndingsPanic, LongNames
<1> QED
  BY <1>1, <1>2, <1>3 DEF AnswerInv, ReadSoFar, Open

\* A refusal for another reason.
LEMMA OtherRefusalKeeps == ASSUME AnswerInv, Refuse(500) PROVE AnswerInv'
BY AnsweredKeeps DEF Refuse, Panicked

\* The part that is looked at.
LEMMA CurrentPart ==
    ASSUME UploadInv, Open, at < Len(asked)
    PROVE  /\ asked \in Form /\ at \in Nat /\ at + 1 \in 1 .. Len(asked) /\ Part = asked[at + 1]
           /\ DOMAIN asked = 1 .. Len(asked) /\ Len(asked) \in Nat
           /\ Part # Nothing /\ Part.kind \in Kind /\ Part.size \in Nat
<1>1. asked \in Form /\ at \in Nat
  BY DEF UploadInv, RequestUnderWay
<1>2. /\ DOMAIN asked = 1 .. Len(asked) /\ Len(asked) \in Nat
      /\ \A i \in 1 .. Len(asked) : asked[i].kind \in Kind /\ asked[i].size \in Nat /\ asked[i] # Nothing
  BY <1>1, PartsOfForms
<1>3. at + 1 \in 1 .. Len(asked)
  BY <1>1, <1>2
<1> QED
  BY <1>1, <1>2, <1>3 DEF Part

\* A body that is too large up to a part is too large.
LEMMA TooLargeSoFar ==
    ASSUME UploadInv, Open, at < Len(asked), ~BodyFits
    PROVE  TooLarge(asked)
<1>1. asked \in Form /\ at + 1 \in 1 .. Len(asked)
  BY CurrentPart
<1>2. asked \in Seq({asked[i] : i \in DOMAIN asked}) /\ \A i \in 1 .. Len(asked) : asked[i].size \in Nat
  BY <1>1, PartsOfForms
<1> DEFINE a == Size(SubSeq(asked, 1, at + 1))
<1>3. a \in Nat /\ a <= Size(asked) /\ Size(asked) \in Nat
  <2>1. at + 1 \in 0 .. Len(asked)
    BY <1>1
  <2> QED
    BY <1>2, <2>1, SizesGrow
<1>4. ~(a <= MaxUpload + Slack) /\ MaxUpload \in Nat /\ Slack \in Nat
  BY FormAssumption DEF BodyFits
<1> HIDE DEF a
<1>5. Size(asked) > MaxUpload + Slack
  BY <1>3, <1>4
<1> QED
  BY <1>5 DEF TooLarge

\* Where what is read of a name that is too long does not fit, its part does not.
LEMMA LongNamesFillTheBody ==
    ASSUME UploadInv, Open, at < Len(asked), Part.size > NameMax, ~NameReadFits
    PROVE  ~BodyFits
<1>1. asked \in Form /\ at + 1 \in 1 .. Len(asked) /\ at \in Nat /\ Part = asked[at + 1]
      /\ Part.size \in Nat
  BY CurrentPart
<1>2. asked \in Seq({asked[i] : i \in DOMAIN asked}) /\ \A i \in 1 .. Len(asked) : asked[i].size \in Nat
  BY <1>1, PartsOfForms
<1> DEFINE a == Size(SubSeq(asked, 1, at))
           b == Size(SubSeq(asked, 1, at + 1))
<1>3. a \in Nat /\ b = a + Part.size
  <2>1. at \in 0 .. Len(asked) /\ (at + 1) - 1 = at
    BY <1>1
  <2> QED
    BY <1>1, <1>2, <2>1, SizesGrow
<1>4. NameMax \in Nat /\ MaxUpload \in Nat /\ Slack \in Nat
  BY FormAssumption
<1>5. ~(a + NameMax + 1 <= MaxUpload + Slack)
  BY DEF NameReadFits
<1> HIDE DEF a, b
<1>6. ~(b <= MaxUpload + Slack)
  BY <1>1, <1>3, <1>4, <1>5
<1> QED
  BY <1>6 DEF b, BodyFits

\* A second file or name is one too many.
LEMMA SecondIsMalformed ==
    ASSUME UploadInv, Open, at < Len(asked), NEW kind, NEW part, OnlyOne(kind, part), part # Nothing,
           Part.kind = kind, kind \in {"file", "name"}
    PROVE  Malformed(asked)
<1>1. at + 1 \in 1 .. Len(asked) /\ at \in Nat /\ Len(asked) \in Nat /\ Part = asked[at + 1] /\ DOMAIN asked = 1 .. Len(asked)
  BY CurrentPart
<1>2. PICK i \in 1 .. at : asked[i] = part /\ part.kind = kind
  BY DEF OnlyOne
<1> DEFINE S == {k \in DOMAIN asked : asked[k].kind = kind}
<1>3. S \in SUBSET (1 .. Len(asked)) /\ i \in S /\ at + 1 \in S /\ i # at + 1
  BY <1>1, <1>2
<1>4. Cardinality(S) # 1 /\ Cardinality(S) > 1
  <2> HIDE DEF S
  <2> QED
    BY <1>1, <1>3, TwoAreMany
<1> QED
  BY <1>4 DEF Malformed

\* A part is read: it is right, and the only one of its kind that is kept.
LEMMA GoOnKeeps ==
    ASSUME UploadInv, AnswerInv, Open, at < Len(asked), GoOn, BodyFits, Part.whole,
           Part.kind = "file" => Part.size <= MaxUpload /\ file = Nothing /\ file' = Part,
           Part.kind = "name" => Part.size <= NameMax /\ name = Nothing /\ name' = Part,
           Part.kind # "file" => file' = file,
           Part.kind # "name" => name' = name
    PROVE  AnswerInv'
<1>1. pc' = "next" /\ at' = at + 1 /\ asked' = asked /\ answer' = answer /\ answer = 0
  BY DEF GoOn, AnswerInv, Open
<1>2. /\ at + 1 \in 1 .. Len(asked) /\ at \in Nat /\ Len(asked) \in Nat /\ Part = asked[at + 1]
      /\ Part # Nothing
  BY CurrentPart
<1>3. PartsAreRight /\ OnlyOne("file", file) /\ OnlyOne("name", name)
  BY DEF AnswerInv, ReadSoFar
<1>4. \A i \in 1 .. at + 1 : i \in 1 .. at \/ i = at + 1
  BY <1>2
<1>5. at + 1 \in 1 .. at + 1 /\ at + 1 \notin 1 .. at /\ 1 .. at \subseteq 1 .. at + 1
  BY <1>2
<1>6. PartsAreRight'
  BY <1>1, <1>2, <1>3, <1>4 DEF PartsAreRight, BodyFits
<1>7. OnlyOne("file", file)'
  <2>1. CASE Part.kind = "file"
    BY <1>1, <1>2, <1>3, <1>4, <1>5, <2>1 DEF OnlyOne
  <2>2. CASE Part.kind # "file"
    BY <1>1, <1>2, <1>3, <1>4, <1>5, <2>2 DEF OnlyOne
  <2> QED
    BY <2>1, <2>2
<1>8. OnlyOne("name", name)'
  <2>1. CASE Part.kind = "name"
    BY <1>1, <1>2, <1>3, <1>4, <1>5, <2>1 DEF OnlyOne
  <2>2. CASE Part.kind # "name"
    BY <1>1, <1>2, <1>3, <1>4, <1>5, <2>2 DEF OnlyOne
  <2> QED
    BY <2>1, <2>2
<1>9. ReadSoFar'
  BY <1>1, <1>2, <1>6, <1>7, <1>8 DEF ReadSoFar
<1>10. AnswersTellWhy' /\ OnlyLongEndingsPanic'
  BY <1>1 DEF AnswersTellWhy, OnlyLongEndingsPanic, Panicked
<1> QED
  BY <1>1, <1>9, <1>10 DEF AnswerInv

LEMMA FilePartAnswers == ASSUME UploadInv, AnswerInv, FilePart PROVE AnswerInv'
<1>1. pc = "next" /\ Open /\ at < Len(asked) /\ Part.kind = "file"
  BY DEF FilePart, NextIs, Open
<1>2. /\ asked \in Form /\ at + 1 \in 1 .. Len(asked) /\ at \in Nat /\ Part = asked[at + 1]
      /\ DOMAIN asked = 1 .. Len(asked)
  BY <1>1, CurrentPart
<1>3. CASE file # Nothing /\ Refuse(400)
  <2>1. OnlyOne("file", file)
    BY <1>1 DEF AnswerInv, ReadSoFar
  <2>2. Malformed(asked)
    BY <1>1, <1>3, <2>1, SecondIsMalformed
  <2> QED
    BY <1>3, <2>2, AnsweredKeeps DEF Refuse, Panicked
<1>4. CASE SanitizeFilename(Part.text) = Panic /\ End(Panicked)
  <2>1. Part.text \in Seq(Range(Part.text))
    BY <1>2, PartsOfForms
  <2>2. LongEnding(Part.text) /\ DOMAIN Part.text = 1 .. Len(Part.text)
    BY <1>4, <2>1, SanitizedNames
  <2>3. LongNames(asked)
    BY <1>1, <1>2, <2>2 DEF LongNames, LongEnding
  <2> QED
    BY <1>4, <2>3, AnsweredKeeps DEF End, Panicked
<1>5. CASE /\ file = Nothing /\ pc' = "copy"
           /\ UNCHANGED <<asked, at, job, file, name, answer, accepted, abandoned, share>>
  <2>1. ReadSoFar'
    BY <1>1, <1>5 DEF AnswerInv, ReadSoFar, Open, PartsAreRight, OnlyOne, Part
  <2>2. AnswersTellWhy' /\ OnlyLongEndingsPanic'
    BY <1>5 DEF AnswerInv, AnswersTellWhy, OnlyLongEndingsPanic
  <2> QED
    BY <1>1, <1>5, <2>1, <2>2 DEF AnswerInv
<1>6. CASE Refuse(500)
  BY <1>6, OtherRefusalKeeps
<1> QED
  BY <1>3, <1>4, <1>5, <1>6 DEF FilePart

LEMMA CopyAnswers == ASSUME UploadInv, AnswerInv, Copy PROVE AnswerInv'
<1>1. pc = "copy" /\ Open /\ at < Len(asked) /\ Part.kind = "file" /\ file = Nothing
  BY DEF Copy, Open, AnswerInv, ReadSoFar
<1>2. /\ at + 1 \in 1 .. Len(asked) /\ Part = asked[at + 1] /\ DOMAIN asked = 1 .. Len(asked)
      /\ Part.size \in Nat /\ MaxUpload \in Nat
  BY <1>1, CurrentPart, FormAssumption
<1>3. CASE ~(WithinLimit(Part.size) /\ BodyFits) /\ Refuse(413)
  <2>1. CASE ~WithinLimit(Part.size)
    <3>1. Part.size > MaxUpload
      BY <1>2, <2>1 DEF WithinLimit
    <3>2. TooLarge(asked)
      BY <1>1, <1>2, <3>1 DEF TooLarge
    <3> QED
      BY <1>3, <3>2, AnsweredKeeps DEF Refuse, Panicked
  <2>2. CASE ~BodyFits
    <3>1. TooLarge(asked)
      BY <1>1, <2>2, TooLargeSoFar
    <3> QED
      BY <1>3, <3>1, AnsweredKeeps DEF Refuse, Panicked
  <2> QED
    BY <1>3, <2>1, <2>2
<1>4. CASE Refuse(500)
  BY <1>4, OtherRefusalKeeps
<1>5. CASE WithinLimit(Part.size) /\ BodyFits /\ Part.whole /\ file' = Part /\ GoOn /\ UNCHANGED name
  BY <1>1, <1>5, GoOnKeeps DEF WithinLimit
<1> QED
  BY <1>3, <1>4, <1>5 DEF Copy

LEMMA NamePartAnswers == ASSUME UploadInv, AnswerInv, NamePart PROVE AnswerInv'
<1>1. pc = "next" /\ Open /\ at < Len(asked) /\ Part.kind = "name"
  BY DEF NamePart, NextIs, Open
<1>2. /\ at + 1 \in 1 .. Len(asked) /\ Part = asked[at + 1] /\ DOMAIN asked = 1 .. Len(asked)
      /\ Part.size \in Nat /\ NameMax \in Nat
  BY <1>1, CurrentPart, FormAssumption
<1>3. ASSUME Refuse(413), ~BodyFits PROVE AnswerInv'
  BY <1>1, <1>3, TooLargeSoFar, AnsweredKeeps DEF Refuse, Panicked
<1>4. ASSUME Refuse(400), Malformed(asked) PROVE AnswerInv'
  BY <1>4, AnsweredKeeps DEF Refuse, Panicked
<1>5. CASE name # Nothing /\ Refuse(400)
  <2>1. OnlyOne("name", name)
    BY <1>1 DEF AnswerInv, ReadSoFar
  <2>2. Malformed(asked)
    BY <1>1, <1>5, <2>1, SecondIsMalformed
  <2> QED
    BY <1>4, <1>5, <2>2
<1>6. CASE Part.size > NameMax /\ Refuse(IF NameReadFits THEN 400 ELSE 413)
  <2>1. Malformed(asked)
    BY <1>1, <1>2, <1>6 DEF Malformed
  <2>2. ~NameReadFits => ~BodyFits
    BY <1>1, <1>6, LongNamesFillTheBody
  <2> QED
    BY <1>3, <1>4, <1>6, <2>1, <2>2
<1>7. CASE ~Part.whole /\ Refuse(400)
  <2>1. Malformed(asked)
    BY <1>2, <1>7 DEF Malformed
  <2> QED
    BY <1>4, <1>7, <2>1
<1>8. CASE /\ name = Nothing /\ ~(Part.size > NameMax) /\ BodyFits /\ Part.whole
           /\ name' = Part /\ GoOn /\ UNCHANGED <<file, staging>>
  <2>1. Part.size <= NameMax
    BY <1>2, <1>8
  <2> QED
    BY <1>1, <1>8, <2>1, GoOnKeeps
<1> QED
  BY <1>3, <1>5, <1>6, <1>7, <1>8 DEF NamePart

LEMMA OtherPartAnswers == ASSUME UploadInv, AnswerInv, OtherPart PROVE AnswerInv'
<1>1. pc = "next" /\ Open /\ at < Len(asked) /\ Part.kind = "other"
  BY DEF OtherPart, NextIs, Open
<1>2. at + 1 \in 1 .. Len(asked) /\ Part = asked[at + 1] /\ DOMAIN asked = 1 .. Len(asked)
  BY <1>1, CurrentPart
<1>3. CASE Refuse(413) /\ ~BodyFits
  BY <1>1, <1>3, TooLargeSoFar, AnsweredKeeps DEF Refuse, Panicked
<1>4. CASE ~Part.whole /\ Refuse(400)
  <2>1. Malformed(asked)
    BY <1>2, <1>4 DEF Malformed
  <2> QED
    BY <1>4, <2>1, AnsweredKeeps DEF Refuse, Panicked
<1>5. CASE BodyFits /\ Part.whole /\ GoOn /\ UNCHANGED <<file, name, staging>>
  BY <1>1, <1>5, GoOnKeeps
<1> QED
  BY <1>3, <1>4, <1>5 DEF OtherPart

\* After its last part, a body is as it must be.
LEMMA WholeBody ==
    ASSUME UploadInv, AnswerInv, Open, at = Len(asked), file # Nothing
    PROVE  ~TooLarge(asked) /\ ~Malformed(asked)
<1>1. asked \in Form
  BY DEF UploadInv, RequestUnderWay
<1>2. /\ asked \in Seq({asked[i] : i \in DOMAIN asked}) /\ DOMAIN asked = 1 .. at /\ at \in Nat
      /\ \A i \in 1 .. at : asked[i].size \in Nat
  BY <1>1, PartsOfForms
<1>3. PartsAreRight /\ OnlyOne("file", file) /\ OnlyOne("name", name)
  BY DEF AnswerInv, ReadSoFar
<1>4. MaxUpload \in Nat /\ Slack \in Nat /\ NameMax \in Nat
  BY FormAssumption
<1>5. Size(asked) <= MaxUpload + Slack /\ Size(asked) \in Nat
  <2>1. SubSeq(asked, 1, at) = asked
    BY <1>2
  <2>2. Size(asked) \in Nat
    BY <1>2, SizesGrow
  <2> QED
    BY <1>3, <2>1, <2>2 DEF PartsAreRight
<1>6. ~TooLarge(asked)
  <2>1. ~(Size(asked) > MaxUpload + Slack)
    BY <1>4, <1>5
  <2>2. ASSUME NEW i \in DOMAIN asked, asked[i].kind = "file" PROVE ~(asked[i].size > MaxUpload)
    BY <1>2, <1>3, <1>4, <2>2 DEF PartsAreRight
  <2> QED
    BY <2>1, <2>2 DEF TooLarge
<1> DEFINE parts(kind) == {i \in DOMAIN asked : asked[i].kind = kind}
<1>7. Cardinality(parts("file")) = 1
  <2>1. PICK i \in 1 .. at : asked[i].kind = "file" /\ \A k \in 1 .. at : asked[k].kind = "file" => k = i
    BY <1>3 DEF OnlyOne
  <2>2. parts("file") = {i}
    BY <1>2, <2>1
  <2> HIDE DEF parts
  <2> QED
    BY <2>2, FS_Singleton
<1>8. ~(Cardinality(parts("name")) > 1)
  <2>1. CASE name = Nothing
    <3>1. parts("name") = {}
      BY <1>2, <1>3, <2>1 DEF OnlyOne
    <3>2. Cardinality(parts("name")) = 0
      <4> HIDE DEF parts
      <4> QED
        BY <3>1, FS_EmptySet
    <3>3. \A m : m = 0 => ~(m > 1)
      OBVIOUS
    <3> HIDE DEF parts
    <3> QED
      BY <3>2, <3>3
  <2>2. CASE name # Nothing
    <3>1. PICK i \in 1 .. at : asked[i].kind = "name" /\ \A k \in 1 .. at : asked[k].kind = "name" => k = i
      BY <1>3, <2>2 DEF OnlyOne
    <3>2. parts("name") = {i}
      BY <1>2, <3>1
    <3>3. Cardinality({i}) = 1
      BY FS_Singleton
    <3>4. Cardinality(parts("name")) = 1
      <4> HIDE DEF parts
      <4> QED
        BY <3>2, <3>3
    <3>5. \A m : m = 1 => ~(m > 1)
      OBVIOUS
    <3> HIDE DEF parts
    <3> QED
      BY <3>4, <3>5
  <2> QED
    BY <2>1, <2>2
<1>9. \A i \in parts("name") : ~(asked[i].size > NameMax)
  BY <1>2, <1>3, <1>4 DEF PartsAreRight
<1>10. \A i \in DOMAIN asked : asked[i].whole
  BY <1>2, <1>3 DEF PartsAreRight
<1>11. ~Malformed(asked)
  BY <1>7, <1>8, <1>9, <1>10 DEF Malformed
<1> QED
  BY <1>6, <1>11

\* The file and the name that were kept are parts of the body.
LEMMA KeptAreAsked ==
    ASSUME UploadInv, AnswerInv, Open
    PROVE  /\ file # Nothing => \E i \in 1 .. Len(asked) : file = asked[i] /\ asked[i].kind = "file"
           /\ name # Nothing => \E i \in 1 .. Len(asked) : name = asked[i] /\ asked[i].kind = "name"
<1>1. asked \in Form /\ at \in Nat
  BY DEF UploadInv, RequestUnderWay
<1>2. Len(asked) \in Nat /\ at <= Len(asked) /\ OnlyOne("file", file) /\ OnlyOne("name", name)
  BY <1>1, PartsOfForms DEF AnswerInv, ReadSoFar
<1>3. 1 .. at \subseteq 1 .. Len(asked)
  BY <1>1, <1>2
<1> QED
  BY <1>2, <1>3 DEF OnlyOne

\* The extension of the file that a request brought.
LEMMA FinalIsExtension ==
    ASSUME NEW form \in Form, NEW i \in 1 .. Len(form), form[i].kind = "file"
    PROVE  IsExtension(FinalExtension(form[i]))
<1> DEFINE p == form[i]
<1>1. /\ p.text \in Seq(Range(p.text))
      /\ p.typeExt # "video" =>
            p.typeExt \in Seq(Range(p.typeExt)) /\ NormalizeExtension(p.typeExt) = p.typeExt
  BY PartsOfForms
<1> HIDE DEF p
<1>2. CASE Video(p)
  BY <1>2, KnownExtensions DEF FinalExtension, p
<1>3. CASE ~Video(p)
  <2>1. p.typeExt # "video"
    BY <1>3 DEF Video
  <2>2. p.typeExt = <<>> \/ IsExtension(p.typeExt)
    BY <1>1, <2>1, NormalExtensions
  <2>3. IsExtension(ExtensionFor(p.text, p.typeExt))
    BY <1>1, <2>2, FileExtensions
  <2> QED
    BY <1>3, <2>3 DEF FinalExtension, p
<1> QED
  BY <1>2, <1>3

\* The name that a share gets, or why it gets none.
LEMMA SlugOfUpload ==
    ASSUME UploadInv, AnswerInv, Open, file # Nothing
    PROVE  /\ Slug = Panic => LongNames(asked)
           /\ Slug # Panic => WellNamed(Slug, FinalExtension(file))
<1>1. asked \in Form /\ DOMAIN asked = 1 .. Len(asked)
  BY PartsOfForms DEF UploadInv, RequestUnderWay
<1>2. PICK i \in 1 .. Len(asked) : file = asked[i] /\ asked[i].kind = "file"
  BY KeptAreAsked
<1>3. file.text \in Seq(Range(file.text)) /\ IsExtension(FinalExtension(file))
  BY <1>1, <1>2, PartsOfForms, FinalIsExtension
<1> DEFINE e == FinalExtension(file)
<1>4. ASSUME NEW k \in 1 .. Len(asked), asked[k].kind # "other", LongEnding(asked[k].text)
      PROVE  LongNames(asked)
  <2>1. asked[k].text \in Seq(Range(asked[k].text))
    BY <1>1, PartsOfForms
  <2>2. DOMAIN asked[k].text = 1 .. Len(asked[k].text)
    BY <2>1
  <2> QED
    BY <1>1, <1>4, <2>2 DEF LongNames, LongEnding
<1>5. CASE Slug = GenerateRandomAliasSlug(SanitizeFilename(file.text), e)
  <2> DEFINE f == SanitizeFilename(file.text)
  <2>1. f \in Seq(NameChar) /\ (LongEnding(f) => LongEnding(file.text))
    BY <1>3, SanitizedNames DEF Clean
  <2> HIDE DEF f, e
  <2>2. /\ GenerateRandomAliasSlug(f, e) = Panic => LongEnding(f)
        /\ GenerateRandomAliasSlug(f, e) # Panic => WellNamed(GenerateRandomAliasSlug(f, e), e)
    BY <1>3, <2>1, RandomNames DEF e
  <2> QED
    BY <1>2, <1>4, <1>5, <2>1, <2>2 DEF f, e
<1>6. CASE name # Nothing /\ Slug = NormalizeAliasSlug(name.text, e)
  <2>1. PICK k \in 1 .. Len(asked) : name = asked[k] /\ asked[k].kind = "name"
    BY <1>6, KeptAreAsked
  <2>2. name.text \in Seq(Range(name.text))
    BY <1>1, <2>1, PartsOfForms
  <2> HIDE DEF e
  <2>3. /\ NormalizeAliasSlug(name.text, e) = Panic => LongEnding(name.text)
        /\ NormalizeAliasSlug(name.text, e) # Panic => WellNamed(NormalizeAliasSlug(name.text, e), e)
    BY <1>3, <2>2, TypedNames DEF e
  <2> QED
    BY <1>4, <1>6, <2>1, <2>3 DEF e
<1> QED
  BY <1>5, <1>6 DEF Slug

LEMMA EndOfFormAnswers == ASSUME UploadInv, AnswerInv, EndOfForm PROVE AnswerInv'
<1>1. pc = "next" /\ Open /\ at = Len(asked)
  BY DEF EndOfForm, Open
<1>2. CASE file = Nothing /\ Refuse(400)
  <2>1. asked \in Form /\ OnlyOne("file", file)
    BY <1>1 DEF UploadInv, RequestUnderWay, AnswerInv, ReadSoFar
  <2>2. {i \in DOMAIN asked : asked[i].kind = "file"} = {}
    BY <1>1, <1>2, <2>1, PartsOfForms DEF OnlyOne
  <2>3. Cardinality({}) # 1
    BY FS_EmptySet
  <2>4. Malformed(asked)
    BY <2>2, <2>3 DEF Malformed
  <2> QED
    BY <1>2, <2>4, AnsweredKeeps DEF Refuse, Panicked
<1>3. CASE file # Nothing /\ Slug = Panic /\ End(Panicked)
  BY <1>1, <1>3, SlugOfUpload, AnsweredKeeps DEF End, Panicked
<1>4. CASE file # Nothing /\ Refuse(409)
  BY <1>1, <1>4, WholeBody, AnsweredKeeps DEF Refuse, Panicked
<1>5. CASE Refuse(500)
  BY <1>5, OtherRefusalKeeps
<1>6. CASE file # Nothing /\ Respond(202)
  BY <1>1, <1>6, WholeBody, AnsweredKeeps DEF Panicked
<1> QED
  BY <1>2, <1>3, <1>4, <1>5, <1>6 DEF EndOfForm

LEMMA BeginAnswers ==
    ASSUME UploadInv, AnswerInv, NEW j \in Job, NEW form \in Form, BeginUpload(j, form)
    PROVE  AnswerInv'
<1>1. /\ pc = "idle" /\ pc' = "next" /\ asked' = form /\ answer' = answer /\ answer = 0
      /\ at' = 0 /\ file' = Nothing /\ name' = Nothing
  BY DEF BeginUpload, UploadInv, AnswerInv
<1>2. Len(form) \in Nat /\ Size(SubSeq(form, 1, 0)) = 0
  BY PartsOfForms, SizesGrow
<1>3. MaxUpload + Slack >= 0
  BY FormAssumption
<1>4. 1 .. 0 = {}
  OBVIOUS
<1>5. PartsAreRight'
  BY <1>1, <1>2, <1>3, <1>4 DEF PartsAreRight
<1>6. ReadSoFar'
  BY <1>1, <1>2, <1>4, <1>5 DEF ReadSoFar, OnlyOne
<1>7. AnswersTellWhy' /\ OnlyLongEndingsPanic'
  BY <1>1 DEF AnswersTellWhy, OnlyLongEndingsPanic, Panicked
<1> QED
  BY <1>1, <1>6, <1>7 DEF AnswerInv

LEMMA UploadInitAnswers == UploadInit => AnswerInv
BY DEF UploadInit, AnswerInv, ReadSoFar, Open, AnswersTellWhy, OnlyLongEndingsPanic, Panicked

LEMMA UploadStepAnswers ==
    UploadInv /\ AnswerInv /\ [UploadNext]_uploadVars => AnswerInv'
<1> SUFFICES ASSUME UploadInv, AnswerInv, [UploadNext]_uploadVars PROVE AnswerInv'
  OBVIOUS
<1>1. ASSUME NEW j \in Job, NEW form \in Form, BeginUpload(j, form) PROVE AnswerInv'
  BY <1>1, BeginAnswers
<1>2. CASE UploadStep
  BY <1>2, FilePartAnswers, CopyAnswers, NamePartAnswers, OtherPartAnswers, EndOfFormAnswers
     DEF UploadStep
<1>3. CASE Crash
  BY <1>3, AnsweredKeeps DEF Crash, End, Panicked
<1>4. CASE Forget
  BY <1>4 DEF Forget, AnswerInv, ReadSoFar, Open, AnswersTellWhy, OnlyLongEndingsPanic, Panicked
<1>5. ASSUME NEW v \in Typed, Rename(v) PROVE AnswerInv'
  BY <1>5 DEF Rename, AnswerInv, ReadSoFar, Open, AnswersTellWhy, OnlyLongEndingsPanic, Panicked
<1>6. CASE UNCHANGED uploadVars
  BY <1>6 DEF uploadVars, AnswerInv, ReadSoFar, Open, PartsAreRight, OnlyOne, Part,
              AnswersTellWhy, OnlyLongEndingsPanic
<1> QED
  BY <1>1, <1>2, <1>3, <1>4, <1>5, <1>6 DEF UploadNext

-----------------------------------------------------------------------------
(* Uploads: the names of shares. *)

ShareInv == share # Nothing => \E n, e : WellNamed(n, e) /\ share = [name |-> n, ext |-> e]

LEMMA UploadStepNames ==
    UploadInv /\ AnswerInv /\ ShareInv /\ [UploadNext]_uploadVars => ShareInv'
<1> SUFFICES ASSUME UploadInv, AnswerInv, ShareInv, [UploadNext]_uploadVars PROVE ShareInv'
  OBVIOUS
<1>1. CASE share' = share
  BY <1>1 DEF ShareInv
<1>2. CASE share' = Nothing
  BY <1>2 DEF ShareInv
<1>3. CASE EndOfForm /\ file # Nothing /\ Slug # Panic
           /\ share' = [name |-> Slug, ext |-> FinalExtension(file)]
  <2>1. Open
    BY <1>3 DEF EndOfForm, Open
  <2>2. WellNamed(Slug, FinalExtension(file))
    BY <1>3, <2>1, SlugOfUpload
  <2> QED
    BY <1>3, <2>2 DEF ShareInv
<1>4. ASSUME NEW v \in Typed, Rename(v) PROVE ShareInv'
  <2>1. PICK n, e : WellNamed(n, e) /\ share = [name |-> n, ext |-> e]
    BY <1>4 DEF Rename, ShareInv
  <2>2. Extension(share.name) = e /\ IsExtension(e)
    BY <2>1, ShareNamesAreClean DEF WellNamed
  <2> DEFINE slug == NormalizeAliasSlug(v, e)
  <2>3. slug # Panic /\ share' = [share EXCEPT !.name = slug]
    BY <1>4, <2>2 DEF Rename
  <2>4. v \in Seq(Range(v))
    BY FormAssumption
  <2>5. WellNamed(slug, e)
    BY <2>2, <2>3, <2>4, TypedNames
  <2> HIDE DEF slug
  <2>6. share' = [name |-> slug, ext |-> e]
    BY <2>1, <2>3
  <2> QED
    BY <2>5, <2>6 DEF ShareInv
<1>5. CASE UploadNext
  BY <1>1, <1>2, <1>3, <1>4, <1>5
     DEF UploadNext, UploadStep, BeginUpload, FilePart, Copy, NamePart, OtherPart, EndOfForm,
         Crash, Forget, Refuse, End, GoOn
<1> QED
  BY <1>1, <1>5 DEF uploadVars

\* What is true of the share because its name is made as names are.
LEMMA NamesOfShareInv ==
    ShareInv => NameKeepsExtension /\ LinksLeadBack /\ ShownNameIsStable
<1> SUFFICES ASSUME ShareInv, share # Nothing
             PROVE  NameKeepsExtension /\ LinksLeadBack /\ ShownNameIsStable
  BY DEF NameKeepsExtension, LinksLeadBack, ShownNameIsStable
<1>1. PICK n, e : WellNamed(n, e) /\ share = [name |-> n, ext |-> e]
  BY DEF ShareInv
<1>2. share.name = n /\ share.ext = e
  BY <1>1
<1>3. Clean(n) /\ Extension(n) = e /\ Len(n) <= AliasMax
  BY <1>1, ShareNamesAreClean
<1>4. NameKeepsExtension
  BY <1>2, <1>3 DEF NameKeepsExtension
<1>5. LinksLeadBack
  BY <1>2, <1>3, LinksOfNames DEF LinksLeadBack
<1>6. ShownNameIsStable
  BY <1>1, <1>2, <1>3, ShownNamesStay DEF ShownNameIsStable
<1> QED
  BY <1>4, <1>5, <1>6

-----------------------------------------------------------------------------
(* The broker. *)

\* To LoginSession, a step of the broker is one of its own or none.
LEMMA LoginStep == BrokerNext => [LoginNext]_loginVars
BY DEF BrokerNext, Upload, RenameShare, Handle, NextRequest, SignInOrOut

\* To UploadRequest too.
LEMMA RequestStep == BrokerNext => [UploadNext]_uploadVars
BY PageAssumption
   DEF BrokerNext, Upload, RenameShare, Handle, NextRequest, SignInOrOut, UploadNext

\* Where the token fits, the page and the cookie are of one login, and both name
\* the user who signed in with it.
LEMMA PageShowsThePrincipal ==
    ASSUME LoginInv, NEW t \in Tab, Authorized(t)
    PROVE  page[t].user = Principal(t)
<1>1. BrowserOf[t] \in Browser
  BY LoginAssumption
<1>2. /\ page[t] # None /\ session[BrowserOf[t]] # None
      /\ page[t].id = session[BrowserOf[t]].id
  BY DEF Authorized, Valid, SameToken
<1>3. /\ attempt[page[t].id].user = page[t].user
      /\ attempt[session[BrowserOf[t]].id].user = session[BrowserOf[t]].user
  BY <1>1, <1>2 DEF LoginInv, SessionsAreRightful, Rightful
<1> QED
  BY <1>2, <1>3 DEF Principal

\* A step leaves the last write alone, forgets it or is a new one.
LEMMA WriteStep ==
    LoginInv /\ WritesAreOfThePage /\ [BrokerNext]_brokerVars => WritesAreOfThePage'
<1> SUFFICES ASSUME LoginInv, WritesAreOfThePage, [BrokerNext]_brokerVars
             PROVE  WritesAreOfThePage'
  OBVIOUS
<1>1. ASSUME NEW u \in User, Bearer(u) PROVE WritesAreOfThePage'
  BY <1>1 DEF Bearer, WritesAreOfThePage
<1>2. ASSUME NEW t \in Tab, FromPage(t) PROVE WritesAreOfThePage'
  BY <1>2, PageShowsThePrincipal DEF FromPage, WritesAreOfThePage
<1>3. CASE Upload
  BY <1>1, <1>2, <1>3 DEF Upload
<1>4. CASE RenameShare
  BY <1>1, <1>2, <1>4 DEF RenameShare
<1>5. CASE Handle \/ SignInOrOut \/ UNCHANGED brokerVars
  BY <1>5 DEF Handle, SignInOrOut, brokerVars, WritesAreOfThePage
<1>6. CASE NextRequest
  BY <1>6 DEF NextRequest, WritesAreOfThePage
<1> QED
  BY <1>3, <1>4, <1>5, <1>6 DEF BrokerNext

-----------------------------------------------------------------------------
\* LoginInv holds throughout, whatever is uploaded and renamed meanwhile.
THEOREM LoginInvarianceInBroker == BrokerSpec => []LoginInv
<1>1. BrokerInit => LoginInv
  BY InitKeeps DEF BrokerInit
<1>2. LoginInv /\ [BrokerNext]_brokerVars => LoginInv'
  BY LoginStep, StepKeeps DEF brokerVars
<1> QED
  BY <1>1, <1>2, PTL DEF BrokerSpec

\* What is uploaded or renamed from a page is done in the name of the user it
\* shows (SessionAuthenticator and requireCSRF): a cookie that another tab has
\* replaced does not go with the token that the page was told.
THEOREM WritesKeepToThePage == BrokerSpec => []WritesAreOfThePage
<1>1. BrokerInit => WritesAreOfThePage
  BY DEF BrokerInit, WritesAreOfThePage
<1> QED
  BY <1>1, WriteStep, LoginInvarianceInBroker, PTL DEF BrokerSpec

\* The session of a browser is of a login that was started in it, in the whole
\* broker too (OIDCLogin.Complete, SessionManager.Read).
THEOREM SessionsBelongInBroker == BrokerSpec => []SessionIsOfTheBrowsersLogin
BY RightfulOfLoginInv, LoginInvarianceInBroker, PTL

\* No file stays behind an answer without a job, and no job is without its file,
\* whoever uploads and whatever becomes of the session in the meantime
\* (handleCreateUpload, stageMultipartUpload and stageUpload).
THEOREM FilesBelongInBroker == BrokerSpec => []FilesHaveTheirJobs
<1>1. BrokerInit => UploadInv
  BY UploadInitKeeps DEF BrokerInit
<1>2. UploadInv /\ [BrokerNext]_brokerVars => UploadInv'
  BY RequestStep, UploadStepKeeps DEF brokerVars
<1>3. UploadInv => FilesHaveTheirJobs
  BY DEF UploadInv
<1> QED
  BY <1>1, <1>2, <1>3, PTL DEF BrokerSpec

\* What is known of requests, whoever sends them.
LEMMA RequestInvariance == BrokerSpec => [](UploadInv /\ AnswerInv /\ ShareInv)
<1>1. BrokerInit => UploadInv /\ AnswerInv /\ ShareInv
  <2>1. UploadInit => ShareInv
    BY DEF UploadInit, ShareInv
  <2> QED
    BY <2>1, UploadInitKeeps, UploadInitAnswers DEF BrokerInit
<1>2. /\ UploadInv /\ AnswerInv /\ ShareInv
      /\ [BrokerNext]_brokerVars
      => (UploadInv /\ AnswerInv /\ ShareInv)'
  <2>1. [BrokerNext]_brokerVars => [UploadNext]_uploadVars
    BY RequestStep DEF brokerVars
  <2> QED
    BY <2>1, UploadStepKeeps, UploadStepAnswers, UploadStepNames
<1> QED
  BY <1>1, <1>2, PTL DEF BrokerSpec

\* A form gets to the database only if it has one whole file within the limit and
\* at most one name, and 400 and 413 have their reason in the whole form, although
\* its parts are judged one by one (stageMultipartUpload and stageUpload), for
\* bodies of any number of parts and any limits.
THEOREM AnswersHaveReasons == BrokerSpec => []AnswersTellWhy
<1>1. AnswerInv => AnswersTellWhy
  BY DEF AnswerInv
<1> QED
  BY <1>1, RequestInvariance, PTL

\* A request makes its handler panic only where a name has a dot followed by
\* LongExt characters or more: no other name reaches the slice of SanitizeFilename
\* with less than it takes, through whatever trimming, cleaning and cutting.
THEOREM PanicsAreOfLongEndings == BrokerSpec => []OnlyLongEndingsPanic
<1>1. AnswerInv => OnlyLongEndingsPanic
  BY DEF AnswerInv
<1> QED
  BY <1>1, RequestInvariance, PTL

\* A share's name ends in its file's extension within the limit, whatever is typed
\* and however often it is renamed (NormalizeAliasSlug, GenerateRandomAliasSlug).
THEOREM NamesKeepExtensions == BrokerSpec => []NameKeepsExtension
BY NamesOfShareInv, RequestInvariance, PTL

\* Every link to a share leads back to it and to its variant (SharePageURL and
\* handleShareMediaVariant against sharePathFromPath).
THEOREM LinksLead == BrokerSpec => []LinksLeadBack
BY NamesOfShareInv, RequestInvariance, PTL

\* A name that is shown is one that NormalizeAliasSlug leaves as it is, where
\* SanitizeFilename does not cut it.
THEOREM ShownNamesAreStable == BrokerSpec => []ShownNameIsStable
BY NamesOfShareInv, RequestInvariance, PTL
===============================================================================
