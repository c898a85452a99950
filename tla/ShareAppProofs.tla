--------------------------- MODULE ShareAppProofs ---------------------------
(***************************************************************************)
(* Proofs about ShareApp, for any files, jobs and calls under way at once. *)
(***************************************************************************)
EXTENDS ShareApp, TLAPS

USE DEF controls, Deletion

-----------------------------------------------------------------------------
(* The inductive invariant. *)

\* The job of a call is there from the answer on, and at most one call has it.
UploadsHaveTheirJobs ==
    /\ \A t \in Task : upload[t].pc \in {"accepted", "clear", "list"} <=> upload[t].job # Null
    /\ \A t, u \in Task : upload[t].job = upload[u].job => t = u \/ upload[t].job = Null

\* A job that is still uploaded is not polled yet.
PolledAfterUpload == \A t \in Task : upload[t].job \notin Polled

\* What the page does is about jobs that the server knows.
JobsAreKnown ==
    /\ \A j \in Polled : status[j] # "absent"
    /\ \A t \in Task : upload[t].job # Null => status[upload[t].job] # "absent"

AppInv ==
    /\ TypeOK
    /\ UploadsHaveTheirJobs /\ PolledAfterUpload /\ JobsAreKnown
    /\ OneChainPerJob

-----------------------------------------------------------------------------
(* What the steps have in common. *)

\* What the invariant says beside the types.
Chains == UploadsHaveTheirJobs /\ PolledAfterUpload /\ JobsAreKnown /\ OneChainPerJob

\* A job the server knows is known for good.
Remembers == \A j \in JobId : status[j] # "absent" => status'[j] # "absent"

\* A window that was just loaded follows nothing.
LEMMA LeaveStartsOver ==
    ASSUME NEW at \in {"login", "session"}, Leave(at), TypeOK, Remembers
    PROVE  Chains' /\ page' \in Page /\ timers' = {} /\ upload' \in [Task -> Upload]
           /\ poll' \in [JobId -> Poll] /\ last' = Null /\ shown' = {}
           /\ clearing' \in BOOLEAN /\ deletion' \in [JobId -> Deletion]
<1>1. page' \in Page
  BY DEF Leave, Loading, Page
<1>2. NoUpload \in Upload /\ NoPoll \in Poll
  BY DEF NoUpload, NoPoll, Upload, Poll, JobStatus
<1>3. upload' \in [Task -> Upload] /\ poll' \in [JobId -> Poll]
  BY <1>2 DEF Leave
<1>4. Polled' = {}
  BY DEF Leave, Polled, NoPoll
<1>5. \A t \in Task : upload'[t].job = Null /\ upload'[t].pc = "idle"
  BY DEF Leave, NoUpload
<1>6. Chains'
  BY <1>4, <1>5 DEF Leave, Chains, UploadsHaveTheirJobs, PolledAfterUpload, JobsAreKnown,
                    OneChainPerJob
<1>7. clearing' \in BOOLEAN /\ deletion' \in [JobId -> Deletion]
  BY DEF Leave, TypeOK
<1> QED
  BY <1>1, <1>3, <1>6, <1>7 DEF Leave

\* A step that starts no call and no timer lets every chain go on as it was.
LEMMA ChainsGoOn ==
    ASSUME AppInv, UNCHANGED <<upload, poll>>, timers' \subseteq timers, Remembers
    PROVE  Chains'
<1>1. Polled' \subseteq Polled /\ Polled \subseteq JobId
  BY DEF Polled, AppInv, TypeOK
<1>2. UploadsHaveTheirJobs' /\ PolledAfterUpload' /\ OneChainPerJob'
  BY <1>1 DEF AppInv, UploadsHaveTheirJobs, PolledAfterUpload, OneChainPerJob
<1>3. \A t \in Task : upload[t].job \in JobId \cup {Null}
  BY DEF AppInv, TypeOK, Upload
<1>4. JobsAreKnown'
  BY <1>1, <1>3 DEF AppInv, JobsAreKnown, Remembers
<1> QED
  BY <1>2, <1>4 DEF Chains

\* Rendering a page leaves a page.
LEMMA RenderedPages ==
    ASSUME NEW p \in Page
    PROVE  Render(p) \in Page
BY DEF Render, Page

\* Setting a file starts nothing.
LEMMA SetFilePages ==
    ASSUME TypeOK, NEW f \in File \cup {Null},
           NEW at \in {"closed", "login", "session", "pending", "drop", "ready"},
           SetFile(at, f)
    PROVE  page' \in Page /\ timers' \subseteq timers /\ last' = Null /\ UNCHANGED shown
BY DEF SetFile, Page

-----------------------------------------------------------------------------
(* The steps of an upload and of a poll, one by one. *)

\* A call of uploadSelectedFile ends, whatever it held.
LEMMA UploadEnds ==
    ASSUME AppInv, NEW t \in Task, upload' = [upload EXCEPT ![t] = NoUpload],
           UNCHANGED <<status, timers, poll>>
    PROVE  Chains'
<1>1. \A u \in Task : upload'[u] = IF u = t THEN NoUpload ELSE upload[u]
  BY DEF AppInv, TypeOK
<1>2. UploadsHaveTheirJobs'
  BY <1>1 DEF AppInv, UploadsHaveTheirJobs, NoUpload
<1>3. Polled' = Polled /\ Polled \subseteq JobId /\ Null \notin Polled
  BY AppAssumption DEF Polled, AppInv, TypeOK
<1>4. PolledAfterUpload' /\ JobsAreKnown' /\ OneChainPerJob'
  BY <1>1, <1>3, AppAssumption
     DEF AppInv, TypeOK, PolledAfterUpload, JobsAreKnown, OneChainPerJob, NoUpload
<1> QED
  BY <1>2, <1>4 DEF Chains

\* A call goes on, with the job it has.
LEMMA UploadGoesOn ==
    ASSUME AppInv, NEW t \in Task, NEW to \in {"post", "clear", "list"},
           \/ upload[t].pc = "idle" /\ to = "post"
           \/ upload[t].pc = "accepted" /\ to = "clear"
           \/ upload[t].pc = "clear" /\ to = "list",
           upload' = [upload EXCEPT ![t].pc = to],
           UNCHANGED <<status, timers, poll>>
    PROVE  Chains' /\ upload' \in [Task -> Upload]
<1>1. upload \in [Task -> Upload] /\ to \in {"post", "clear", "list"}
  BY DEF AppInv, TypeOK
<1>2. upload' \in [Task -> Upload]
  BY <1>1 DEF Upload
<1>3. \A u \in Task : upload'[u].job = upload[u].job
                      /\ upload'[u].pc = IF u = t THEN to ELSE upload[u].pc
  BY <1>1 DEF Upload
<1>4. UploadsHaveTheirJobs'
  BY <1>3 DEF AppInv, UploadsHaveTheirJobs
<1>5. PolledAfterUpload' /\ JobsAreKnown' /\ OneChainPerJob'
  BY <1>3 DEF AppInv, PolledAfterUpload, JobsAreKnown, OneChainPerJob, Polled
<1> QED
  BY <1>2, <1>4, <1>5 DEF Chains

LEMMA NewCallGoesOn ==
    ASSUME AppInv, NEW t \in Task, Submit(t)
    PROVE  Chains' /\ upload' \in [Task -> Upload]
<1>1. upload \in [Task -> Upload] /\ upload[t].job = Null
  BY DEF AppInv, TypeOK, UploadsHaveTheirJobs, Submit, Upload
<1>2. upload' = [upload EXCEPT ![t].pc = "post"]
  BY <1>1 DEF Submit, NoUpload, Upload
<1> QED
  BY <1>2, UploadGoesOn DEF Submit, serverVars

\* The job of a new upload is new: nothing on the page knows it yet.
LEMMA AcceptedIsNew ==
    ASSUME AppInv, NEW t \in Task, NEW j \in JobId, UploadAccepted(t, j)
    PROVE  Chains' /\ upload' \in [Task -> Upload] /\ status' \in [JobId -> JobStatus]
<1>1. upload \in [Task -> Upload] /\ status \in [JobId -> JobStatus]
  BY DEF AppInv, TypeOK
<1>2. upload' \in [Task -> Upload] /\ status' \in [JobId -> JobStatus]
  BY <1>1 DEF UploadAccepted, Upload, JobStatus
<1>3. \A u \in Task : upload'[u] = IF u = t THEN [pc |-> "accepted", job |-> j] ELSE upload[u]
  BY <1>1 DEF UploadAccepted
<1>4. \A u \in Task : upload[u].job # j
  BY AppAssumption DEF AppInv, JobsAreKnown, UploadAccepted
<1>5. UploadsHaveTheirJobs'
  BY <1>3, <1>4, AppAssumption DEF AppInv, UploadsHaveTheirJobs
<1>6. Polled' = Polled /\ j \notin Polled
  BY DEF Polled, AppInv, JobsAreKnown, UploadAccepted
<1>7. PolledAfterUpload'
  BY <1>3, <1>6 DEF AppInv, PolledAfterUpload
<1>8. \A k \in JobId : status'[k] = IF k = j THEN "queued" ELSE status[k]
  BY <1>1 DEF UploadAccepted
<1>9. Polled \subseteq JobId
  BY DEF Polled, AppInv, TypeOK
<1>10. \A u \in Task : upload[u].job \in JobId \cup {Null}
  BY <1>1 DEF Upload
<1>11. JobsAreKnown'
  BY <1>3, <1>6, <1>8, <1>9, <1>10 DEF AppInv, JobsAreKnown
<1>12. OneChainPerJob'
  BY <1>3, <1>6 DEF AppInv, OneChainPerJob, UploadAccepted, Polled
<1> QED
  BY <1>2, <1>5, <1>7, <1>11, <1>12 DEF Chains

\* The first poll of a job takes over from its upload.
LEMMA ListedIsPolled ==
    ASSUME AppInv, NEW t \in Task, UploadListed(t)
    PROVE  Chains' /\ upload' \in [Task -> Upload] /\ poll' \in [JobId -> Poll]
           /\ upload[t].job \in JobId /\ timers' \subseteq timers
<1>1. upload \in [Task -> Upload] /\ poll \in [JobId -> Poll]
  BY DEF AppInv, TypeOK
<1> DEFINE j == upload[t].job
<1>2. j \in JobId
  BY <1>1 DEF UploadListed, AppInv, UploadsHaveTheirJobs, Upload
<1>3. upload' \in [Task -> Upload] /\ poll' \in [JobId -> Poll] /\ timers' \subseteq timers
  BY <1>1 DEF UploadListed, StartPoll, NoUpload, Upload, Poll
<1>4. \A u \in Task : upload'[u] = IF u = t THEN NoUpload ELSE upload[u]
  BY <1>1 DEF UploadListed
<1>5. \A k \in JobId : poll'[k].pc = IF k = j THEN "get" ELSE poll[k].pc
  BY <1>1 DEF UploadListed, StartPoll, Poll
<1>6. UploadsHaveTheirJobs'
  BY <1>4 DEF AppInv, UploadsHaveTheirJobs, NoUpload
<1>7. \A u \in Task \ {t} : upload[u].job # j
  BY <1>2, AppAssumption DEF AppInv, UploadsHaveTheirJobs
<1>8. Polled' \subseteq Polled \cup {j} /\ Polled \subseteq JobId
  BY <1>3, <1>5 DEF Polled, AppInv, TypeOK
<1>9. PolledAfterUpload'
  BY <1>2, <1>4, <1>7, <1>8, AppAssumption DEF AppInv, PolledAfterUpload, NoUpload
<1>10. UNCHANGED status /\ status[j] # "absent"
  BY <1>2, AppAssumption DEF AppInv, JobsAreKnown, UploadListed, serverVars
<1>11. JobsAreKnown'
  BY <1>4, <1>8, <1>10 DEF AppInv, JobsAreKnown, NoUpload
<1>12. j \notin timers
  BY DEF AppInv, PolledAfterUpload, Polled
<1>13. OneChainPerJob'
  BY <1>3, <1>4, <1>5, <1>12, AppAssumption
     DEF AppInv, OneChainPerJob, NoUpload, TypeOK
<1> QED
  BY <1>2, <1>3, <1>6, <1>9, <1>11, <1>13 DEF Chains

\* A poll that is under way, or starts from a timer which it takes away, is the
\* only chain of its job.
LEMMA PollGoesOn ==
    ASSUME AppInv, NEW j \in Polled, timers' \subseteq timers,
           poll' \in [JobId -> Poll],
           \A k \in JobId \ {j} : poll'[k] = poll[k],
           j \notin timers' \/ poll'[j].pc = "idle",
           UNCHANGED <<status, upload>>
    PROVE  Chains'
<1>1. Polled' \subseteq Polled /\ Polled \subseteq JobId
  BY DEF Polled, AppInv, TypeOK
<1>2. UploadsHaveTheirJobs' /\ PolledAfterUpload' /\ JobsAreKnown'
  BY <1>1 DEF AppInv, UploadsHaveTheirJobs, PolledAfterUpload, JobsAreKnown
<1>3. OneChainPerJob'
  BY DEF AppInv, OneChainPerJob, TypeOK
<1> QED
  BY <1>2, <1>3 DEF Chains

\* The next poll is scheduled when the one under way has ended.
LEMMA AgainIsLater ==
    ASSUME AppInv, NEW j \in JobId, PollAgain(j)
    PROVE  Chains' /\ poll' \in [JobId -> Poll]
<1>1. poll \in [JobId -> Poll] /\ NoPoll \in Poll
  BY DEF AppInv, TypeOK, NoPoll, Poll, JobStatus
<1>2. poll' \in [JobId -> Poll] /\ \A k \in JobId : poll'[k] = IF k = j THEN NoPoll ELSE poll[k]
  BY <1>1 DEF PollAgain
<1>3. j \in Polled /\ UNCHANGED <<status, upload>> /\ timers' = timers \cup {j}
  BY DEF PollAgain, Polled, serverVars
<1>4. Polled' \subseteq Polled
  BY <1>2, <1>3 DEF Polled, NoPoll
<1>5. UploadsHaveTheirJobs' /\ PolledAfterUpload' /\ JobsAreKnown'
  BY <1>3, <1>4 DEF AppInv, UploadsHaveTheirJobs, PolledAfterUpload, JobsAreKnown
<1>6. OneChainPerJob'
  BY <1>2, <1>3 DEF AppInv, OneChainPerJob, TypeOK, NoPoll, PolledAfterUpload
<1> QED
  BY <1>2, <1>5, <1>6 DEF Chains

-----------------------------------------------------------------------------
(* Every step keeps the invariant. *)

LEMMA AppStarts == Init => AppInv
<1> SUFFICES ASSUME Init PROVE AppInv
  OBVIOUS
<1>1. TypeOK
  BY DEF Init, TypeOK, JobStatus, Page, Upload, Poll, Loading, NoUpload, NoPoll
<1>2. Polled = {} /\ \A t \in Task : upload[t] = NoUpload
  BY DEF Init, Polled, NoPoll
<1>3. UploadsHaveTheirJobs /\ PolledAfterUpload /\ JobsAreKnown /\ OneChainPerJob
  BY <1>2 DEF Init, UploadsHaveTheirJobs, PolledAfterUpload, JobsAreKnown, OneChainPerJob,
              NoUpload
<1> QED
  BY <1>1, <1>3 DEF AppInv

\* Loading, the user's own steps, the sign-in and the server.
LEMMA StepOfTheWindow ==
    ASSUME AppInv, Loads \/ User \/ ClearFailed \/ Unauthorized \/ SessionExpires
                     \/ \E j \in JobId : JobMoves(j)
    PROVE  AppInv'
<1>1. TypeOK /\ page.at \in {"closed", "login", "session", "pending", "drop", "ready"}
  BY DEF AppInv, TypeOK, Page
<1>2. SUFFICES TypeOK' /\ Chains'
  BY DEF AppInv, Chains
<1>3. CASE Open
  BY <1>1, <1>3, LeaveStartsOver DEF Open, Remembers, TypeOK, serverVars
<1>4. CASE OpenShared
  BY <1>1, <1>4, LeaveStartsOver DEF OpenShared, Remembers, TypeOK, serverVars
<1>5. CASE SignIn
  BY <1>1, <1>5, LeaveStartsOver DEF SignIn, Remembers, TypeOK
<1>6. CASE Unauthorized
  BY <1>1, <1>6, LeaveStartsOver DEF Unauthorized, Remembers, TypeOK, serverVars
<1>7. ASSUME NEW f \in File \cup {"error"}, ShareTarget(f) PROVE TypeOK' /\ Chains'
  BY <1>1, <1>7, ChainsGoOn DEF ShareTarget, Remembers, TypeOK, serverVars, ghosts
<1>8. CASE RefreshSession
  <2>1. page' \in Page
    BY <1>8 DEF RefreshSession, Page, Loading
  <2> QED
    BY <1>1, <1>8, <2>1, ChainsGoOn DEF RefreshSession, Remembers, TypeOK, serverVars, ghosts
<1>9. CASE LoadPendingShare
  <2>1. page' \in Page /\ timers' \subseteq timers /\ last' \in {last, Null} /\ UNCHANGED shown
    <3>1. CASE pending \in File
      BY <1>1, <1>9, <3>1, SetFilePages DEF LoadPendingShare
    <3>2. CASE pending \notin File
      BY <1>1, <1>9, <3>2 DEF LoadPendingShare, TypeOK, Page, ghosts
    <3> QED
      BY <3>1, <3>2
  <2> QED
    BY <1>1, <1>9, <2>1, ChainsGoOn DEF LoadPendingShare, Remembers, TypeOK, serverVars
<1>10. CASE DropError
  <2>1. page' \in Page
    BY <1>1, <1>10 DEF DropError, TypeOK, Page
  <2> QED
    BY <1>1, <1>10, <2>1, ChainsGoOn DEF DropError, Remembers, TypeOK, serverVars, ghosts
<1>11. ASSUME NEW f \in File \cup {Null}, ChooseFile(f) PROVE TypeOK' /\ Chains'
  BY <1>1, <1>11, SetFilePages, ChainsGoOn DEF ChooseFile, Remembers, TypeOK, serverVars
<1>12. CASE Cleared
  BY <1>1, <1>12, SetFilePages, ChainsGoOn DEF Cleared, Remembers, TypeOK, serverVars
<1>13. CASE PressClear
  BY <1>1, <1>13, ChainsGoOn DEF PressClear, Remembers, TypeOK, serverVars, ghosts
<1>14. CASE RenderAgain
  <2>1. CASE signedIn
    BY <1>1, <1>14, <2>1, ChainsGoOn, RenderedPages
       DEF RenderAgain, Remembers, TypeOK, serverVars, ghosts
  <2>2. CASE ~signedIn
    BY <1>1, <1>14, <2>2, LeaveStartsOver DEF RenderAgain, Remembers, TypeOK, serverVars
  <2> QED
    BY <2>1, <2>2
<1>15. ASSUME NEW j \in JobId, DeleteShare(j) PROVE TypeOK' /\ Chains'
  BY <1>1, <1>15, ChainsGoOn DEF DeleteShare, Remembers, TypeOK, serverVars, ghosts
<1>16. ASSUME NEW t \in Task, Submit(t) PROVE TypeOK' /\ Chains'
  <2>1. Chains' /\ upload' \in [Task -> Upload]
    BY <1>16, NewCallGoesOn
  <2>2. page' \in Page
    BY <1>1, <1>16 DEF Submit, TypeOK, Page
  <2> QED
    BY <1>1, <1>16, <2>1, <2>2 DEF Submit, TypeOK, serverVars, ghosts
<1>17. ASSUME NEW j \in JobId, JobMoves(j) PROVE TypeOK' /\ Chains'
  <2>1. status' \in [JobId -> JobStatus] /\ Remembers
    BY <1>1, <1>17 DEF JobMoves, TypeOK, JobStatus, Remembers
  <2> QED
    BY <1>1, <1>17, <2>1, ChainsGoOn DEF JobMoves, TypeOK, ghosts
<1>18. CASE SessionExpires
  BY <1>1, <1>18, ChainsGoOn DEF SessionExpires, Remembers, TypeOK, ghosts
<1>19. CASE ClearFailed
  BY <1>1, <1>19, ChainsGoOn DEF ClearFailed, Remembers, TypeOK, serverVars, ghosts
<1> QED
  BY <1>3, <1>4, <1>5, <1>6, <1>7, <1>8, <1>9, <1>10, <1>11, <1>12, <1>13, <1>14, <1>15,
     <1>16, <1>17, <1>18, <1>19 DEF Loads, User

\* A deletion, from its request to the answer.
LEMMA StepOfDeletions ==
    ASSUME AppInv, NEW j \in JobId, Deleting(j)
    PROVE  AppInv'
<1>1. TypeOK
  BY DEF AppInv
<1>2. SUFFICES TypeOK' /\ Chains'
  BY DEF AppInv, Chains
<1>3. CASE DeletionServed(j)
  <2>1. status' \in [JobId -> JobStatus] /\ Remembers
    BY <1>1, <1>3 DEF DeletionServed, TypeOK, JobStatus, Remembers
  <2> QED
    BY <1>1, <1>3, <2>1, ChainsGoOn DEF DeletionServed, TypeOK, ghosts
<1>4. CASE DeletionAnswered(j)
  <2>1. [page EXCEPT !.url = IF @ = j THEN Null ELSE @] \in Page
    BY <1>1 DEF TypeOK, Page
  <2>2. page' \in Page
    BY <1>4, <2>1, RenderedPages DEF DeletionAnswered
  <2> QED
    BY <1>1, <1>4, <2>2, ChainsGoOn DEF DeletionAnswered, Remembers, TypeOK, serverVars, ghosts
<1>5. CASE DeletionFailed(j)
  BY <1>1, <1>5, ChainsGoOn DEF DeletionFailed, Remembers, TypeOK, serverVars, ghosts
<1> QED
  BY <1>3, <1>4, <1>5 DEF Deleting

\* An upload, from the press of the button to its first poll.
LEMMA StepOfUploads ==
    ASSUME AppInv, NEW t \in Task, Uploading(t) \/ UploadFailed(t)
    PROVE  AppInv'
<1>1. TypeOK
  BY DEF AppInv
<1>2. SUFFICES TypeOK' /\ Chains'
  BY DEF AppInv, Chains
<1>3. CASE UploadAnswered(t)
  <2>1. Chains' /\ upload' \in [Task -> Upload]
    BY <1>3, UploadGoesOn DEF UploadAnswered, serverVars
  <2>2. upload[t].job \in JobId
    BY <1>1, <1>3 DEF UploadAnswered, AppInv, UploadsHaveTheirJobs, TypeOK, Upload
  <2>3. page' \in Page
    BY <1>1, <1>3, <2>2 DEF UploadAnswered, TypeOK, Page
  <2> QED
    BY <1>1, <1>3, <2>1, <2>2, <2>3 DEF UploadAnswered, TypeOK, serverVars
<1>4. CASE UploadCleared(t)
  <2>1. Chains' /\ upload' \in [Task -> Upload]
    BY <1>4, UploadGoesOn DEF UploadCleared, serverVars
  <2> QED
    BY <1>1, <1>4, <2>1 DEF UploadCleared, TypeOK, serverVars, ghosts
<1>5. CASE UploadListed(t)
  <2>1. [page EXCEPT !.handle = Null] \in Page
    BY <1>1 DEF TypeOK, Page
  <2>2. page' \in Page
    BY <1>5, <2>1, RenderedPages DEF UploadListed
  <2> QED
    BY <1>1, <1>5, <2>2, ListedIsPolled DEF UploadListed, TypeOK, serverVars, ghosts
<1>6. ASSUME NEW j \in JobId, UploadAccepted(t, j) PROVE TypeOK' /\ Chains'
  BY <1>1, <1>6, AcceptedIsNew DEF UploadAccepted, TypeOK, ghosts
<1>7. CASE UploadFailed(t)
  <2>1. upload' \in [Task -> Upload]
    BY <1>1, <1>7 DEF UploadFailed, TypeOK, NoUpload, Upload
  <2>2. Chains'
    BY <1>7, UploadEnds DEF UploadFailed, serverVars
  <2> QED
    BY <1>1, <1>7, <2>1, <2>2, RenderedPages DEF UploadFailed, TypeOK, serverVars, ghosts
<1> QED
  BY <1>3, <1>4, <1>5, <1>6, <1>7 DEF Uploading

\* A poll, from its timer to the next one or to the outcome.
LEMMA StepOfPolls ==
    ASSUME AppInv, NEW j \in JobId, Polling(j) \/ PollFailed(j)
    PROVE  AppInv'
<1>1. TypeOK /\ poll \in [JobId -> Poll] /\ NoPoll \in Poll
  BY DEF AppInv, TypeOK, NoPoll, Poll, JobStatus
<1>2. SUFFICES TypeOK' /\ Chains'
  BY DEF AppInv, Chains
<1>3. j \in timers => poll[j].pc = "idle"
  BY DEF AppInv, OneChainPerJob
<1>4. CASE TimerFires(j)
  <2>1. poll' \in [JobId -> Poll] /\ \A k \in JobId \ {j} : poll'[k] = poll[k]
    BY <1>1, <1>4 DEF TimerFires, StartPoll, Poll
  <2>2. j \in Polled /\ timers' \subseteq timers /\ j \notin timers' /\ UNCHANGED <<status, upload>>
    BY <1>4 DEF TimerFires, StartPoll, Polled, serverVars
  <2>3. page' \in Page
    BY <1>1, <1>4 DEF TimerFires, TypeOK, Page
  <2>4. Chains'
    BY <2>1, <2>2, PollGoesOn
  <2> QED
    BY <1>1, <1>4, <2>1, <2>2, <2>3, <2>4 DEF TimerFires, TypeOK, serverVars, ghosts
<1>5. CASE PollServed(j)
  <2>1. poll' \in [JobId -> Poll] /\ \A k \in JobId \ {j} : poll'[k] = poll[k]
    BY <1>1, <1>5 DEF PollServed, TypeOK, Poll
  <2>2. j \in Polled /\ UNCHANGED <<status, upload, timers>> /\ j \notin timers
    BY <1>3, <1>5 DEF PollServed, Polled, serverVars
  <2>3. Chains'
    BY <2>1, <2>2, PollGoesOn
  <2> QED
    BY <1>1, <1>5, <2>1, <2>2, <2>3 DEF PollServed, TypeOK, serverVars, ghosts
<1>6. CASE PollEnds(j)
  <2>1. poll' \in [JobId -> Poll] /\ \A k \in JobId \ {j} : poll'[k] = poll[k]
    BY <1>1, <1>6 DEF PollEnds, Poll
  <2>2. j \in Polled /\ UNCHANGED <<status, upload, timers>> /\ j \notin timers
    BY <1>3, <1>6 DEF PollEnds, Polled, serverVars
  <2>3. page' \in Page
    BY <1>1, <1>6 DEF PollEnds, TypeOK, Page
  <2>4. Chains'
    BY <2>1, <2>2, PollGoesOn
  <2> QED
    BY <1>1, <1>6, <2>1, <2>2, <2>3, <2>4 DEF PollEnds, TypeOK, serverVars, ghosts
<1>7. CASE PollListed(j)
  <2>1. poll' \in [JobId -> Poll] /\ \A k \in JobId \ {j} : poll'[k] = poll[k]
    BY <1>1, <1>7 DEF PollListed
  <2>2. j \in Polled /\ UNCHANGED <<status, upload, timers>> /\ j \notin timers
    BY <1>3, <1>7 DEF PollListed, Polled, serverVars
  <2>3. Chains'
    BY <2>1, <2>2, PollGoesOn
  <2> QED
    BY <1>1, <1>7, <2>1, <2>2, <2>3, RenderedPages DEF PollListed, TypeOK, serverVars
<1>8. CASE PollFailed(j)
  <2>1. poll' \in [JobId -> Poll] /\ \A k \in JobId \ {j} : poll'[k] = poll[k]
    BY <1>1, <1>8 DEF PollFailed
  <2>2. j \in Polled /\ UNCHANGED <<status, upload, timers>> /\ j \notin timers
    BY <1>3, <1>8 DEF PollFailed, Polled, serverVars
  <2>3. Chains'
    BY <2>1, <2>2, PollGoesOn
  <2> QED
    BY <1>1, <1>8, <2>1, <2>2, <2>3, RenderedPages DEF PollFailed, TypeOK, serverVars
<1>9. CASE PollAgain(j)
  <2>1. [page EXCEPT !.url = j, !.handle = j] \in Page
    BY <1>1 DEF TypeOK, Page
  <2>2. page' \in Page
    BY <1>9, <2>1, RenderedPages DEF PollAgain
  <2> QED
    BY <1>1, <1>9, <2>2, AgainIsLater DEF PollAgain, TypeOK, serverVars, ghosts
<1> QED
  BY <1>4, <1>5, <1>6, <1>7, <1>8, <1>9 DEF Polling

LEMMA AppSteps == AppInv /\ [Next]_vars => AppInv'
<1> SUFFICES ASSUME AppInv, [Next]_vars PROVE AppInv'
  OBVIOUS
<1>1. CASE Next
  BY <1>1, StepOfTheWindow, StepOfDeletions, StepOfUploads, StepOfPolls DEF Next
<1>2. CASE UNCHANGED vars
  <2>1. TypeOK'
    BY <1>2 DEF AppInv, TypeOK, vars, serverVars, ghosts
  <2>2. Chains'
    BY <1>2, ChainsGoOn DEF Remembers, vars, serverVars
  <2> QED
    BY <2>1, <2>2 DEF AppInv, Chains
<1> QED
  BY <1>1, <1>2

LEMMA AppInvariant == Spec => []AppInv
BY AppStarts, AppSteps, PTL DEF Spec

\* A job is polled by one chain of timers and requests at a time, whatever
\* files, jobs and calls there are.
THEOREM PollsOnce == Spec => []OneChainPerJob
<1>1. AppInv => OneChainPerJob
  BY DEF AppInv
<1> QED
  BY <1>1, AppInvariant, PTL

-----------------------------------------------------------------------------
(* The outcome of an upload is shown, as long as the page is never about two   *)
(* jobs at once: one timer is all that clearProcessingPoll knows of.           *)

UploadsOf(j) == \E t \in Task : upload[t].job = j /\ upload[t].pc \in {"clear", "list"}

\* The jobs that the page works on.
Busy == Polled \cup {j \in JobId : UploadsOf(j)}

OneAtATime == \A j, k \in Busy : j = k

\* The last upload is worked on until its outcome is shown.
LastIsFollowed ==
    ~failed => last \in shown \cup {Null} \cup Busy

\* What a step leaves to be followed, it goes on following.
LEMMA FollowsOn ==
    ASSUME AppInv, LastIsFollowed,
           \/ UNCHANGED last \/ last' = Null,
           shown \subseteq shown', failed => failed',
           last \in Busy => last \in Busy' \cup shown'
    PROVE  LastIsFollowed'
BY DEF LastIsFollowed

\* A step that leaves the calls and the timers alone.
LEMMA BusyAsBefore ==
    ASSUME UNCHANGED <<upload, poll, timers>>
    PROVE  Busy' = Busy
BY DEF Busy, Polled, UploadsOf

LEMMA WindowFollows ==
    ASSUME AppInv, LastIsFollowed, Loads \/ User \/ ClearFailed \/ Unauthorized \/ SessionExpires
                                     \/ \E j \in JobId : JobMoves(j)
    PROVE  LastIsFollowed'
<1>1. CASE \E at \in {"session", "login"} : Leave(at)
  BY <1>1 DEF Leave, LastIsFollowed
<1>2. CASE \E at \in {"closed", "login", "session", "pending", "drop", "ready"},
              f \in File \cup {Null} : SetFile(at, f)
  BY <1>2 DEF SetFile, LastIsFollowed
<1>3. CASE UNCHANGED <<upload, poll, timers, last, shown, failed>>
  BY <1>3, BusyAsBefore, FollowsOn
<1>4. page.at \in {"closed", "login", "session", "pending", "drop", "ready"}
  BY DEF AppInv, TypeOK, Page
<1>5. ASSUME NEW t \in Task, Submit(t) PROVE LastIsFollowed'
  <2>1. \A u \in Task : u # t => upload'[u] = upload[u]
    BY <1>5 DEF Submit, AppInv, TypeOK
  <2>2. Busy \subseteq Busy'
    BY <1>5, <2>1 DEF Submit, Busy, Polled, UploadsOf
  <2> QED
    BY <1>5, <2>2, FollowsOn DEF Submit, ghosts
<1>6. CASE Loads
  BY <1>1, <1>2, <1>3, <1>4, <1>6
     DEF Loads, OpenShared, RefreshSession, SignIn, LoadPendingShare, DropError, Cleared, ghosts
<1>7. CASE User
  BY <1>1, <1>2, <1>3, <1>4, <1>5, <1>7
     DEF User, Open, PressClear, RenderAgain, ShareTarget, ChooseFile, DeleteShare, ghosts
<1> QED
  BY <1>1, <1>3, <1>6, <1>7 DEF ClearFailed, Unauthorized, SessionExpires, JobMoves, ghosts

LEMMA DeletionsFollow ==
    ASSUME AppInv, LastIsFollowed, NEW j \in JobId, Deleting(j)
    PROVE  LastIsFollowed'
BY BusyAsBefore, FollowsOn
   DEF Deleting, DeletionServed, DeletionAnswered, DeletionFailed, ghosts

LEMMA UploadsFollow ==
    ASSUME AppInv, LastIsFollowed, OneAtATime, NEW t \in Task, Uploading(t) \/ UploadFailed(t)
    PROVE  LastIsFollowed'
<1>1. upload \in [Task -> Upload] /\ poll \in [JobId -> Poll]
  BY DEF AppInv, TypeOK
<1>2. \A u \in Task : upload[u].pc \in {"clear", "list"} => upload[u].job \in JobId
  BY <1>1 DEF AppInv, UploadsHaveTheirJobs, Upload
<1>3. CASE UploadAnswered(t)
  <2>1. upload[t].job \in JobId
    BY <1>1, <1>3 DEF UploadAnswered, AppInv, UploadsHaveTheirJobs, Upload
  <2>2. upload'[t].job = upload[t].job /\ upload'[t].pc = "clear"
    BY <1>1, <1>3 DEF UploadAnswered, Upload
  <2>3. last' \in Busy'
    BY <1>3, <2>1, <2>2 DEF UploadAnswered, Busy, UploadsOf
  <2> QED
    BY <2>3 DEF LastIsFollowed
<1>4. CASE UploadCleared(t)
  <2>1. \A u \in Task : upload[u].pc \in {"clear", "list"}
                          => upload'[u].job = upload[u].job /\ upload'[u].pc \in {"clear", "list"}
    BY <1>1, <1>4 DEF UploadCleared, Upload
  <2>2. Busy \subseteq Busy'
    BY <1>4, <2>1 DEF UploadCleared, Busy, Polled, UploadsOf
  <2> QED
    BY <1>4, <2>2, FollowsOn DEF UploadCleared, ghosts
<1>5. CASE UploadListed(t)
  <2> DEFINE j == upload[t].job
  <2>1. j \in JobId /\ j \in Busy
    BY <1>2, <1>5 DEF UploadListed, Busy, UploadsOf
  <2>2. j \in Busy'
    BY <1>1, <1>5, <2>1 DEF UploadListed, StartPoll, Busy, Polled, Poll
  <2>3. last \in Busy => last = j
    BY <2>1 DEF OneAtATime
  <2> QED
    BY <1>5, <2>2, <2>3, FollowsOn DEF UploadListed, ghosts
<1>6. ASSUME NEW j \in JobId, UploadAccepted(t, j) PROVE LastIsFollowed'
  <2>1. \A u \in Task : upload[u].pc \in {"clear", "list"} => upload'[u] = upload[u]
    BY <1>1, <1>6 DEF UploadAccepted
  <2>2. Busy \subseteq Busy'
    BY <1>6, <2>1 DEF UploadAccepted, Busy, Polled, UploadsOf
  <2> QED
    BY <1>6, <2>2, FollowsOn DEF UploadAccepted, ghosts
<1>7. CASE UploadFailed(t)
  <2>1. CASE upload[t].pc = "clear"
    BY <1>7, <2>1 DEF UploadFailed, LastIsFollowed
  <2>2. CASE upload[t].pc # "clear"
    <3>1. \A u \in Task : upload[u].pc \in {"clear", "list"} => upload'[u] = upload[u]
      BY <1>1, <1>7, <2>2 DEF UploadFailed
    <3>2. Busy \subseteq Busy'
      BY <1>7, <3>1 DEF UploadFailed, Busy, Polled, UploadsOf
    <3> QED
      BY <1>7, <3>2, FollowsOn DEF UploadFailed
  <2> QED
    BY <2>1, <2>2
<1> QED
  BY <1>3, <1>4, <1>5, <1>6, <1>7 DEF Uploading

LEMMA PollsFollow ==
    ASSUME AppInv, LastIsFollowed, OneAtATime, NEW j \in JobId, Polling(j) \/ PollFailed(j)
    PROVE  LastIsFollowed'
<1>1. poll \in [JobId -> Poll]
  BY DEF AppInv, TypeOK
<1>2. CASE PollFailed(j)
  BY <1>2 DEF PollFailed, LastIsFollowed
<1>3. j \in Busy
  BY DEF Polling, PollFailed, TimerFires, PollServed, PollEnds, PollListed, PollAgain, Busy, Polled
<1>4. last \in Busy => last = j
  BY <1>3 DEF OneAtATime
<1>5. CASE TimerFires(j)
  <2>1. j \in Busy'
    BY <1>1, <1>5 DEF TimerFires, StartPoll, Busy, Polled, Poll
  <2> QED
    BY <1>4, <1>5, <2>1, FollowsOn DEF TimerFires, ghosts
<1>6. CASE PollServed(j)
  <2>1. j \in Busy'
    BY <1>1, <1>6 DEF PollServed, Busy, Polled
  <2> QED
    BY <1>4, <1>6, <2>1, FollowsOn DEF PollServed, ghosts
<1>7. CASE PollEnds(j)
  <2>1. j \in Busy'
    BY <1>1, <1>7 DEF PollEnds, Busy, Polled, Poll
  <2> QED
    BY <1>4, <1>7, <2>1, FollowsOn DEF PollEnds, ghosts
<1>8. CASE PollListed(j)
  BY <1>4, <1>8, FollowsOn DEF PollListed
<1>9. CASE PollAgain(j)
  <2>1. j \in Busy'
    BY <1>9 DEF PollAgain, Busy, Polled
  <2> QED
    BY <1>4, <1>9, <2>1, FollowsOn DEF PollAgain, ghosts
<1> QED
  BY <1>2, <1>5, <1>6, <1>7, <1>8, <1>9 DEF Polling

\* While the page works on one job at a time, whatever it does with it, the
\* page is never left without the outcome of the last upload and without a way
\* to get it.
THEOREM FollowedOneAtATime == Spec /\ []OneAtATime => []UploadIsFollowed
<1>1. Init => LastIsFollowed
  BY DEF Init, LastIsFollowed
<1>2. AppInv /\ OneAtATime /\ LastIsFollowed /\ [Next]_vars => LastIsFollowed'
  <2> SUFFICES ASSUME AppInv, OneAtATime, LastIsFollowed, [Next]_vars PROVE LastIsFollowed'
    OBVIOUS
  <2>1. CASE Next
    BY <2>1, WindowFollows, DeletionsFollow, UploadsFollow, PollsFollow DEF Next
  <2>2. CASE UNCHANGED vars
    BY <2>2, BusyAsBefore, FollowsOn DEF vars, ghosts
  <2> QED
    BY <2>1, <2>2
<1>3. LastIsFollowed => UploadIsFollowed
  BY DEF LastIsFollowed, UploadIsFollowed, Quiet, Busy, UploadsOf
<1> QED
  BY <1>1, <1>2, <1>3, AppInvariant, PTL DEF Spec
=============================================================================
