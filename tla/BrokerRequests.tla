---------------------------- MODULE BrokerRequests ----------------------------
(***************************************************************************)
(* The broker as its users meet it: pages signed in by cookies and API     *)
(* clients with bearer tokens (LoginSession) that upload and rename shares *)
(* (UploadRequest).  handleCreateUpload and handleShare in                 *)
(* internal/broker/server.go ask who is there before they look at anything *)
(* else, and act in that name to the end, whatever becomes of the session  *)
(* while a body streams in.                                                *)
(***************************************************************************)
EXTENDS LoginSession, UploadRequest

CONSTANTS
    PageForm,   \* the bodies that pages send
    PageTyped   \* the names that are typed in pages

ASSUME PageAssumption == PageForm \subseteq Form /\ PageTyped \subseteq Typed

VARIABLES
    scene,  \* a bound: who is there in this behaviour, API clients ("clients"),
            \* pages of one browser ("pages"), or several browsers that only sign
            \* in and out ("browsers")
    sender  \* of the last write: the user it was done for, the user its page showed

brokerVars == <<loginVars, uploadVars, scene, sender>>

BrokerInit ==
    /\ LoginInit /\ UploadInit
    /\ scene \in {"clients", "pages", "browsers"}
    /\ sender = None

\* Bounds: pages upload once, in one browser.
OnePageUpload == scene = "pages" => accepted \cup abandoned = {}

OneBrowser ==
    \A a, b \in Attempt :
        /\ attempt[a].opened \subseteq {attempt[a].browser}
        /\ None \notin {attempt[a].browser, attempt[b].browser} =>
               attempt[a].browser = attempt[b].browser

\* BearerAuthenticator; such requests need no CSRF token.
Bearer(u) ==
    /\ scene = "clients"
    /\ Allows(AccessRoles[u])
    /\ sender' = [as |-> u, shown |-> u]

\* SessionAuthenticator and requireCSRF.
FromPage(t) ==
    /\ scene = "pages"
    /\ Authorized(t)
    /\ sender' = [as |-> Principal(t), shown |-> page[t].user]

Upload ==
    /\ OnePageUpload
    /\ \E j \in Job :
          \/ \E u \in User : Bearer(u) /\ \E form \in Form : BeginUpload(j, form)
          \/ \E t \in Tab : FromPage(t) /\ \E form \in PageForm : BeginUpload(j, form)
    /\ UNCHANGED <<loginVars, scene>>

\* RenameAlias finds the share only for its owner.
RenameShare ==
    /\ sender # None
    /\ \/ \E u \in User : Bearer(u) /\ \E v \in Typed : Rename(v)
       \/ \E t \in Tab : FromPage(t) /\ \E v \in PageTyped : Rename(v)
    /\ sender'.as = sender.as
    /\ UNCHANGED <<loginVars, scene>>

Handle ==
    /\ UploadStep \/ Crash
    /\ UNCHANGED <<loginVars, scene, sender>>

NextRequest ==
    /\ Forget
    /\ sender' = None
    /\ UNCHANGED <<loginVars, scene>>

SignInOrOut ==
    /\ scene # "clients"
    /\ LoginNext
    /\ scene = "pages" => OneBrowser'
    /\ UNCHANGED <<uploadVars, scene, sender>>

BrokerNext == Upload \/ RenameShare \/ Handle \/ NextRequest \/ SignInOrOut

BrokerSpec == BrokerInit /\ [][BrokerNext]_brokerVars

-----------------------------------------------------------------------------

\* What is uploaded or renamed from a page is done in the name of the user the
\* page shows, although another tab may have signed in somebody else since, with
\* the cookie that this page now sends (docs/api.md, Browser Sessions and CSRF).
WritesAreOfThePage == sender # None => sender.as = sender.shown
=============================================================================
