------------------------------ MODULE ShareApp ------------------------------
(***************************************************************************)
(* The browser application (internal/broker/web/assets/app.js) and its     *)
(* service worker (sw.js): one window, whose event handlers run to their   *)
(* next await, while requests, timers and the pending slot in IndexedDB    *)
(* answer in any order.  The server is seen through its answers: the job   *)
(* an upload gets and the status of that job.                              *)
(*                                                                         *)
(* Names, the list of shares and its search, and what the page says beside *)
(* the outcome of an upload are left out: no handler of uploads decides on *)
(* them.                                                                   *)
(***************************************************************************)
EXTENDS Naturals, FiniteSets

CONSTANTS
    File, JobId, Null,
    Task,          \* bound: calls of uploadSelectedFile under way at once
    CallsMayFail   \* whether a request, or a call of IndexedDB, may fail or be refused

ASSUME AppAssumption == Null \notin File \cup JobId /\ CallsMayFail \in BOOLEAN

JobStatus == {"absent", "queued", "running", "completed", "failed", "canceled"}

VARIABLES
    status,    \* [JobId -> JobStatus]: the jobs at the server
    signedIn,  \* whether the session cookie is good
    pending,   \* the slot in IndexedDB: a file, "error" or Null
    stored,    \* the service worker stored a shared file and will open /share
    page,      \* state of the window
    timers,    \* jobs with a poll timer running
    upload,    \* [Task -> call of uploadSelectedFile]
    poll,      \* [JobId -> call of pollUploadJob]
    clearing,  \* the clear button waits for IndexedDB
    deletion,  \* [JobId -> Deletion]: deleteShare, for the share of a job
    last,      \* the last job uploaded since a file was set
    shown,     \* jobs whose outcome the window showed
    failed     \* following an upload failed: the page gave up on the job

serverVars == <<status, signedIn>>
controls == <<clearing, deletion>>
ghosts == <<last, shown, failed>>
vars == <<serverVars, pending, stored, page, timers, upload, poll, controls, ghosts>>

\* handle is state.processingPoll: the timer clearProcessingPoll would clear.
Page == [at : {"closed", "login", "session", "pending", "drop", "ready"},
         file : File \cup {Null}, url : JobId \cup {Null}, handle : JobId \cup {Null},
         button : BOOLEAN]
Upload == [pc : {"idle", "post", "accepted", "clear", "list"}, job : JobId \cup {Null}]
Poll == [pc : {"idle", "get", "served", "list"}, answer : JobStatus]

\* "served": the share is gone at the server, the answer is on its way; "gone": it
\* arrived, or never will.
Deletion == {"none", "asked", "served", "gone"}

Loading(at) == [at |-> at, file |-> Null, url |-> Null, handle |-> Null, button |-> FALSE]
NoUpload == [pc |-> "idle", job |-> Null]
NoPoll == [pc |-> "idle", answer |-> "absent"]

Init ==
    /\ status = [j \in JobId |-> "absent"]
    /\ signedIn = FALSE
    /\ pending = Null
    /\ stored = FALSE
    /\ page = Loading("closed")
    /\ timers = {}
    /\ upload = [t \in Task |-> NoUpload]
    /\ poll = [j \in JobId |-> NoPoll]
    /\ clearing = FALSE /\ deletion = [j \in JobId |-> "none"]
    /\ last = Null /\ shown = {} /\ failed = FALSE

Polled == timers \cup {j \in JobId : poll[j].pc # "idle"}
Usable == page.at \in {"pending", "drop", "ready"}

-----------------------------------------------------------------------------
(* Loading the page. *)

\* The window leaves the page: what was under way in it is gone.
Leave(at) ==
    /\ page' = Loading(at)
    /\ timers' = {}
    /\ upload' = [t \in Task |-> NoUpload]
    /\ poll' = [j \in JobId |-> NoPoll]
    /\ clearing' = FALSE
    /\ deletion' = [j \in JobId |->
           CASE deletion[j] = "asked" -> "none" [] deletion[j] = "served" -> "gone"
             [] OTHER -> deletion[j]]
    /\ last' = Null /\ shown' = {} /\ failed' = FALSE

Open ==
    /\ page.at = "closed"
    /\ Leave("session")
    /\ UNCHANGED <<serverVars, pending, stored>>

\* Sharing from another application: the service worker stores the file, or an
\* error in place of several, and then redirects a window to /share.
ShareTarget(f) ==
    /\ ~stored
    /\ pending' = f
    /\ stored' = TRUE
    /\ UNCHANGED <<serverVars, page, timers, upload, poll, controls, ghosts>>

OpenShared ==
    /\ stored
    /\ stored' = FALSE
    /\ Leave("session")
    /\ UNCHANGED <<serverVars, pending>>

RefreshSession ==
    /\ page.at = "session"
    /\ page' = Loading(IF signedIn THEN "pending" ELSE "login")
    /\ UNCHANGED <<serverVars, pending, stored, timers, upload, poll, controls, ghosts>>

\* The sign-in leads back to the page.
SignIn ==
    /\ page.at = "login"
    /\ signedIn' = TRUE
    /\ Leave("session")
    /\ UNCHANGED <<status, pending, stored>>

\* setFile: the timer goes, and with it the result shown so far.
SetFile(at, f) ==
    /\ page' = [at |-> at, file |-> f, url |-> Null, handle |-> Null, button |-> f # Null]
    /\ timers' = timers \ {page.handle}
    /\ last' = Null
    /\ UNCHANGED <<shown, failed>>

LoadPendingShare ==
    /\ page.at = "pending"
    /\ IF pending \in File THEN SetFile("ready", pending)
       ELSE /\ page' = [page EXCEPT !.at = IF pending = "error" THEN "drop" ELSE "ready"]
            /\ UNCHANGED <<timers, ghosts>>
    /\ UNCHANGED <<serverVars, pending, stored, upload, poll, controls>>

DropError ==
    /\ page.at = "drop"
    /\ pending' = Null
    /\ page' = [page EXCEPT !.at = "ready"]
    /\ UNCHANGED <<serverVars, stored, timers, upload, poll, controls, ghosts>>

-----------------------------------------------------------------------------
(* The user. *)

\* One file, or several at once, which sets none.
ChooseFile(f) ==
    /\ Usable
    /\ SetFile(page.at, f)
    /\ UNCHANGED <<serverVars, pending, stored, upload, poll, controls>>

PressClear ==
    /\ Usable /\ ~clearing
    /\ page.file # Null \/ page.url # Null
    /\ clearing' = TRUE
    /\ UNCHANGED <<serverVars, pending, stored, page, timers, upload, poll, deletion, ghosts>>

Cleared ==
    /\ clearing
    /\ clearing' = FALSE
    /\ pending' = Null
    /\ SetFile(page.at, Null)
    /\ UNCHANGED <<serverVars, stored, upload, poll, deletion>>

\* The handler ends where clearPending fails; the file stays.
ClearFailed ==
    /\ CallsMayFail
    /\ clearing
    /\ clearing' = FALSE
    /\ UNCHANGED <<serverVars, pending, stored, page, timers, upload, poll, deletion, ghosts>>

\* render: the upload button is usable whenever there is a file.
Render(p) == [p EXCEPT !.button = p.file # Null]

\* A search or a rename ends with render, or at the sign-in.
RenderAgain ==
    /\ page.at = "ready"
    /\ IF signedIn THEN page' = Render(page) /\ UNCHANGED <<timers, upload, poll, controls, ghosts>>
                   ELSE Leave("login")
    /\ UNCHANGED <<serverVars, pending, stored>>

\* A share on the list is deleted, while the page goes on.
DeleteShare(j) ==
    /\ page.at = "ready"
    /\ status[j] # "absent" /\ deletion[j] = "none"
    /\ deletion' = [deletion EXCEPT ![j] = "asked"]
    /\ UNCHANGED <<serverVars, pending, stored, page, timers, upload, poll, clearing, ghosts>>

\* The job of the share, if unfinished, is canceled.
DeletionServed(j) ==
    /\ signedIn
    /\ deletion[j] = "asked"
    /\ deletion' = [deletion EXCEPT ![j] = "served"]
    /\ status' = [status EXCEPT ![j] = IF @ \in {"queued", "running"} THEN "canceled" ELSE @]
    /\ UNCHANGED <<signedIn, pending, stored, page, timers, upload, poll, clearing, ghosts>>

DeletionAnswered(j) ==
    /\ deletion[j] = "served"
    /\ deletion' = [deletion EXCEPT ![j] = "gone"]
    /\ page' = Render([page EXCEPT !.url = IF @ = j THEN Null ELSE @])
    /\ UNCHANGED <<serverVars, pending, stored, timers, upload, poll, clearing, ghosts>>

\* Refused, or the answer never arrives: a message, and the page as it was.
DeletionFailed(j) ==
    /\ CallsMayFail
    /\ \/ deletion[j] = "asked" /\ deletion' = [deletion EXCEPT ![j] = "none"]
       \/ deletion[j] = "served" /\ deletion' = [deletion EXCEPT ![j] = "gone"]
    /\ UNCHANGED <<serverVars, pending, stored, page, timers, upload, poll, clearing, ghosts>>

-----------------------------------------------------------------------------
(* uploadSelectedFile.  The page is shown only once the user is signed in, so   *)
(* the branch that stores the file and leaves for the sign-in is never taken.  *)

Submit(t) ==
    /\ Usable
    /\ page.file # Null /\ page.button
    /\ upload[t].pc = "idle"
    /\ upload' = [upload EXCEPT ![t] = [NoUpload EXCEPT !.pc = "post"]]
    /\ page' = [page EXCEPT !.button = FALSE]
    /\ UNCHANGED <<serverVars, pending, stored, timers, poll, controls, ghosts>>

UploadAccepted(t, j) ==
    /\ signedIn
    /\ upload[t].pc = "post"
    /\ status[j] = "absent"
    /\ status' = [status EXCEPT ![j] = "queued"]
    /\ upload' = [upload EXCEPT ![t] = [pc |-> "accepted", job |-> j]]
    /\ UNCHANGED <<signedIn, pending, stored, page, timers, poll, controls, ghosts>>

\* Refused by the server, the answer never arrives, or clearPending fails: then the
\* job is at the server, and the page does not ask what becomes of it.
UploadFailed(t) ==
    /\ CallsMayFail
    /\ upload[t].pc \in {"post", "accepted", "clear"}
    /\ upload' = [upload EXCEPT ![t] = NoUpload]
    /\ page' = Render(page)
    /\ failed' = (failed \/ upload[t].pc = "clear")
    /\ UNCHANGED <<serverVars, pending, stored, timers, poll, controls, last, shown>>

UploadAnswered(t) ==
    /\ upload[t].pc = "accepted"
    /\ upload' = [upload EXCEPT ![t].pc = "clear"]
    /\ page' = [page EXCEPT !.url = upload[t].job]
    /\ last' = upload[t].job
    /\ UNCHANGED <<serverVars, pending, stored, timers, poll, controls, shown, failed>>

\* clearPending: whatever file is in the slot by now.
UploadCleared(t) ==
    /\ upload[t].pc = "clear"
    /\ upload' = [upload EXCEPT ![t].pc = "list"]
    /\ pending' = Null
    /\ UNCHANGED <<serverVars, stored, page, timers, poll, controls, ghosts>>

-----------------------------------------------------------------------------
(* pollUploadJob. *)

\* clearProcessingPoll, then the request.  running: the timers left by the caller.
StartPoll(j, running) ==
    /\ timers' = running \ {page.handle}
    /\ poll' = [poll EXCEPT ![j].pc = "get"]

UploadListed(t) ==
    /\ upload[t].pc = "list"
    /\ StartPoll(upload[t].job, timers)
    /\ upload' = [upload EXCEPT ![t] = NoUpload]
    /\ page' = Render([page EXCEPT !.handle = Null])
    /\ UNCHANGED <<serverVars, pending, stored, controls, ghosts>>

\* Mistake: an interval, which the poll does not stop.
IntervalFires(j) ==
    /\ j \in timers
    /\ poll' = [poll EXCEPT ![j].pc = "get"]
    /\ UNCHANGED <<serverVars, pending, stored, page, timers, upload, controls, ghosts>>

TimerFires(j) ==
    /\ j \in timers
    /\ StartPoll(j, timers \ {j})
    /\ page' = [page EXCEPT !.handle = Null]
    /\ UNCHANGED <<serverVars, pending, stored, upload, controls, ghosts>>

PollServed(j) ==
    /\ signedIn
    /\ poll[j].pc = "get"
    /\ poll' = [poll EXCEPT ![j] = [pc |-> "served", answer |-> status[j]]]
    /\ UNCHANGED <<serverVars, pending, stored, page, timers, upload, controls, ghosts>>

\* The outcomes that end the polling; they are shown once the list was loaded.
\* Mistake: a canceled job is polled on.
OutcomeOfProcessing(st) == st \in {"completed", "failed"}
Outcome(st) == st \in {"completed", "failed", "canceled"}

PollEnds(j) ==
    /\ poll[j].pc = "served" /\ Outcome(poll[j].answer)
    /\ poll' = [poll EXCEPT ![j].pc = "list"]
    /\ page' = [page EXCEPT !.url = j]
    /\ UNCHANGED <<serverVars, pending, stored, timers, upload, controls, ghosts>>

PollListed(j) ==
    /\ poll[j].pc = "list"
    /\ poll' = [poll EXCEPT ![j] = NoPoll]
    /\ page' = Render(page)
    /\ shown' = shown \cup {j}
    /\ UNCHANGED <<serverVars, pending, stored, timers, upload, controls, last, failed>>

\* Mistake: the next poll is not scheduled.
PollOnce(j) ==
    /\ poll[j].pc = "served" /\ ~Outcome(poll[j].answer)
    /\ poll' = [poll EXCEPT ![j] = NoPoll]
    /\ page' = Render([page EXCEPT !.url = j])
    /\ UNCHANGED <<serverVars, pending, stored, timers, upload, controls, ghosts>>

PollAgain(j) ==
    /\ poll[j].pc = "served" /\ ~Outcome(poll[j].answer)
    /\ poll' = [poll EXCEPT ![j] = NoPoll]
    /\ timers' = timers \cup {j}
    /\ page' = Render([page EXCEPT !.url = j, !.handle = j])
    /\ UNCHANGED <<serverVars, pending, stored, upload, controls, ghosts>>

\* A request that fails ends the polling.
PollFailed(j) ==
    /\ CallsMayFail
    /\ poll[j].pc \in {"get", "served"}
    /\ poll' = [poll EXCEPT ![j] = NoPoll]
    /\ page' = Render(page)
    /\ failed' = TRUE
    /\ UNCHANGED <<serverVars, pending, stored, timers, upload, controls, last, shown>>

\* A 401 sends the window to the sign-in.
Unauthorized ==
    /\ ~signedIn
    /\ \/ \E t \in Task : upload[t].pc \in {"post", "list"}
       \/ \E j \in JobId : poll[j].pc \in {"get", "list"} \/ deletion[j] = "asked"
    /\ Leave("login")
    /\ UNCHANGED <<serverVars, pending, stored>>

-----------------------------------------------------------------------------
(* The server, meanwhile. *)

JobMoves(j) ==
    /\ \/ status[j] = "queued" /\ status' = [status EXCEPT ![j] = "running"]
       \/ status[j] = "running" /\ \E st \in {"completed", "failed"} :
                                       status' = [status EXCEPT ![j] = st]
    /\ UNCHANGED <<signedIn, pending, stored, page, timers, upload, poll, controls, ghosts>>

SessionExpires ==
    /\ signedIn
    /\ signedIn' = FALSE
    /\ UNCHANGED <<status, pending, stored, page, timers, upload, poll, controls, ghosts>>

\* What the browser does by itself, and the sign-in it leads the user to.
Loads == OpenShared \/ RefreshSession \/ SignIn \/ LoadPendingShare \/ DropError \/ Cleared
Uploading(t) ==
    \/ UploadAnswered(t) \/ UploadCleared(t) \/ UploadListed(t)
    \/ \E j \in JobId : UploadAccepted(t, j)
Deleting(j) == DeletionServed(j) \/ DeletionAnswered(j) \/ DeletionFailed(j)
Polling(j) == TimerFires(j) \/ PollServed(j) \/ PollEnds(j) \/ PollListed(j) \/ PollAgain(j)

User ==
    \/ Open \/ PressClear \/ RenderAgain
    \/ \E f \in File \cup {"error"} : ShareTarget(f)
    \/ \E f \in File \cup {Null} : ChooseFile(f)
    \/ \E t \in Task : Submit(t)
    \/ \E j \in JobId : DeleteShare(j)

Next ==
    \/ Loads \/ User \/ ClearFailed \/ Unauthorized \/ SessionExpires
    \/ \E t \in Task : Uploading(t) \/ UploadFailed(t)
    \/ \E j \in JobId : Polling(j) \/ PollFailed(j) \/ Deleting(j) \/ JobMoves(j)

Spec == Init /\ [][Next]_vars

\* Requests and timers are answered in the end, and jobs are worked on.
Fairness ==
    /\ WF_vars(Unauthorized)
    /\ \A j \in JobId : WF_vars(Polling(j)) /\ WF_vars(JobMoves(j))

FairSpec == Spec /\ Fairness

-----------------------------------------------------------------------------
(* Properties. *)

\* The window only ever holds what its handlers are written for: a file where
\* the upload expects one, never the error that stands for several.
TypeOK ==
    /\ status \in [JobId -> JobStatus]
    /\ pending \in File \cup {Null, "error"}
    /\ page \in Page
    /\ timers \subseteq JobId
    /\ upload \in [Task -> Upload]
    /\ poll \in [JobId -> Poll]
    /\ clearing \in BOOLEAN /\ deletion \in [JobId -> Deletion]
    /\ last \in JobId \cup {Null} /\ shown \subseteq JobId

\* A job is polled by one chain of timers and requests at a time.
OneChainPerJob ==
    \A j \in timers : poll[j].pc = "idle" /\ \A t \in Task : upload[t].job # j

Quiet == /\ page.at = "ready" /\ Polled = {}
         /\ \A t \in Task : upload[t].pc = "idle"

\* The page shows what became of the last upload, unless the user went on to
\* another file or a call failed.
UploadIsFollowed == Quiet /\ ~failed => last \in shown \cup {Null}

\* Polling ends, whatever became of the job.
PollingEnds == \A j \in JobId : j \in Polled ~> j \notin Polled
=============================================================================
