---------------------------- MODULE ShareProcessor ----------------------------
(***************************************************************************)
(* The service around the store: upload and delete requests of the API     *)
(* (internal/broker/server.go), the transcoder of the processor            *)
(* (internal/broker/transcoder.go), the staging volume they share and the  *)
(* B2 bucket.  Every call to the database, the bucket or the staging       *)
(* volume is a step of its own, so requests and workers interleave between *)
(* a check and the write that relies on it.                                *)
(*                                                                         *)
(* Faults names the environment faults a behaviour may contain:            *)
(*   "head", "put", "delete"  the bucket call fails                        *)
(*   "db"      a statement of the processor or an insert of the API fails  *)
(*   "commit"  a commit takes effect but is reported as an error           *)
(*   "stop"    the processor gets SIGTERM while it works on a job          *)
(*   "crash"   the API or the processor dies between two steps             *)
(***************************************************************************)
EXTENDS Naturals, FiniteSets, Sequences

CONSTANTS
    Slug, Owner, JobId, Sha, Ext, Upload, Null, RedirectLimit,
    Worker,      \* processor goroutines that claim jobs
    Request,     \* concurrent API requests
    UploadOf,    \* [JobId -> Upload]: the file that upload j carries
    Results,     \* [Upload -> SUBSET Sha]: the digests processing may produce
    VideoExt,    \* ".mp4", the extension of every transcoded video
    ThumbExt,    \* ".jpg", the extension of a thumbnail's key
    Faults

FaultKind == {"head", "put", "delete", "db", "commit", "stop", "crash"}

ASSUME ProcessorAssumption ==
    /\ UploadOf \in [JobId -> Upload]
    /\ Results \in [Upload -> (SUBSET Sha) \ {{}}]
    /\ {VideoExt, ThumbExt} \subseteq Ext
    /\ Faults \subseteq FaultKind

VARIABLES
    aliases, jobs, objects, derivatives, history, now,  \* the database
    bucket,   \* keys of B2 with a visible version: \subseteq Sha \X Ext
    staged,   \* uploads whose file is on the staging volume: \subseteq JobId
    worker,   \* [Worker -> local state of ProcessNext and processJob]
    api       \* [Request -> local state of an upload or delete handler]

DB == INSTANCE ShareMetadata WITH MaxOpens <- 0

ASSUME StoreAssumption == DB!UploadAssumption /\ DB!NullAssumption /\ DB!LimitAssumption

dbVars == <<aliases, jobs, objects, derivatives, history, now>>
vars == <<dbVars, bucket, staged, worker, api>>

\* GenerateObjectKey: digest and extension.
Key == Sha \X Ext
ThumbKey(x) == <<x, ThumbExt>>

WorkerPc == {"idle", "derive", "process", "precheck", "get", "head", "mark", "put",
             "putThumb", "check", "undo", "complete", "cleanup", "abort", "fail"}

WorkerState == [pc : WorkerPc, job : JobId \cup {Null}, reuse : BOOLEAN,
                object : Sha \cup {Null}, ext : Ext \cup {Null}, thumb : BOOLEAN,
                uploaded : BOOLEAN]

Idle == [pc |-> "idle", job |-> Null, reuse |-> FALSE, object |-> Null, ext |-> Null,
         thumb |-> FALSE, uploaded |-> FALSE]

ApiState == [pc : {"idle", "staged", "removing", "purging"}, files : SUBSET JobId,
             keys : Seq(Key)]

NoRequest == [pc |-> "idle", files |-> {}, keys |-> <<>>]

Init ==
    /\ DB!Init
    /\ bucket = {}
    /\ staged = {}
    /\ worker = [w \in Worker |-> Idle]
    /\ api = [r \in Request |-> NoRequest]

-----------------------------------------------------------------------------
(* POST /api/uploads: stage the file, then record share and job. *)

Fresh(j) == ~DB!JobExists(j) /\ j \notin staged /\ \A r \in Request : j \notin api[r].files

StageUpload(r, j) ==
    /\ api[r].pc = "idle"
    /\ Fresh(j)
    /\ staged' = staged \cup {j}
    /\ api' = [api EXCEPT ![r] = [NoRequest EXCEPT !.pc = "staged", !.files = {j}]]
    /\ UNCHANGED <<dbVars, bucket, worker>>

\* Mistake: the handler's clean-up removes the file whatever came of the insert.
AcceptAndRemove(r, o, s) ==
    /\ api[r].pc = "staged"
    /\ \E j \in api[r].files : DB!CreateIngestJob(j, o, s, UploadOf[j])
    /\ staged' = staged \ api[r].files
    /\ api' = [api EXCEPT ![r] = NoRequest]
    /\ UNCHANGED <<bucket, worker>>

AcceptUpload(r, o, s) ==
    /\ api[r].pc = "staged"
    /\ \E j \in api[r].files : DB!CreateIngestJob(j, o, s, UploadOf[j])
    /\ api' = [api EXCEPT ![r] = NoRequest]
    /\ UNCHANGED <<bucket, staged, worker>>

\* The name is taken (ErrAliasExists) or the insert failed: 409 or 500.
\* Mistake: the staged file is forgotten.
RejectOnly(r) ==
    /\ api[r].pc = "staged"
    /\ \E s \in Slug : DB!Present(s)
    /\ api' = [api EXCEPT ![r] = NoRequest]
    /\ UNCHANGED <<dbVars, bucket, staged, worker>>

RejectUpload(r) ==
    /\ api[r].pc = "staged"
    /\ (\E s \in Slug : DB!Present(s)) \/ "db" \in Faults
    /\ staged' = staged \ api[r].files
    /\ api' = [api EXCEPT ![r] = NoRequest]
    /\ UNCHANGED <<dbVars, bucket, worker>>

\* The commit took effect but was reported as failed: the handler removes the
\* staged file of a job that exists.
AcceptUnheard(r, o, s) ==
    /\ "commit" \in Faults
    /\ api[r].pc = "staged"
    /\ \E j \in api[r].files : DB!CreateIngestJob(j, o, s, UploadOf[j])
    /\ staged' = staged \ api[r].files
    /\ api' = [api EXCEPT ![r] = NoRequest]
    /\ UNCHANGED <<bucket, worker>>

(* PATCH /api/shares/{slug}: one transaction. *)
RenameShare(s, o, new) ==
    /\ DB!RenameAlias(s, o, new)
    /\ UNCHANGED <<bucket, staged, worker, api>>

(* DELETE /api/shares/{slug}: the transaction, then the staged files of the
   canceled jobs, then the object's key and its thumbnail's. *)

\* The keys DeleteAlias hands back: none while another share holds the object.
\* Mistake: the thumbnail is forgotten.
FreedObjectKey(s) ==
    IF DB!FreesObject(s) THEN <<<<aliases[s].object, objects[aliases[s].object].ext>>>> ELSE <<>>
FreedKeys(s) ==
    LET x == aliases[s].object IN
    IF ~DB!FreesObject(s) THEN <<>>
    ELSE IF objects[x].thumb THEN <<<<x, objects[x].ext>>, ThumbKey(x)>>
    ELSE <<<<x, objects[x].ext>>>>

Deleting(files, keys) ==
    [pc |-> IF files # {} THEN "removing" ELSE IF keys # <<>> THEN "purging" ELSE "idle",
     files |-> files, keys |-> keys]

DeleteShare(r, s, o) ==
    /\ api[r].pc = "idle"
    /\ DB!DeleteAlias(s, o)
    /\ api' = [api EXCEPT ![r] = Deleting(DB!CanceledBy(s, o), FreedKeys(s))]
    /\ UNCHANGED <<bucket, staged, worker>>

RemoveStaged(r) ==
    /\ api[r].pc = "removing"
    /\ staged' = staged \ api[r].files
    /\ api' = [api EXCEPT ![r] = Deleting({}, @.keys)]
    /\ UNCHANGED <<dbVars, bucket, worker>>

\* A failed deletion is logged and the handler goes on to the next key.
\* Mistake: it stops after the first key.
PurgeOneKey(r) ==
    /\ api[r].pc = "purging"
    /\ bucket' = bucket \ {Head(api[r].keys)}
    /\ api' = [api EXCEPT ![r] = NoRequest]
    /\ UNCHANGED <<dbVars, staged, worker>>

PurgeKey(r) ==
    /\ api[r].pc = "purging"
    /\ bucket' \in {bucket \ {Head(api[r].keys)}} \cup
                   (IF "delete" \in Faults THEN {bucket} ELSE {})
    /\ api' = [api EXCEPT ![r] = Deleting({}, Tail(@.keys))]
    /\ UNCHANGED <<dbVars, staged, worker>>

CrashApi(r) ==
    /\ "crash" \in Faults
    /\ api[r].pc # "idle"
    /\ api' = [api EXCEPT ![r] = NoRequest]
    /\ UNCHANGED <<dbVars, bucket, staged, worker>>

-----------------------------------------------------------------------------
(* ProcessNext and processJob of one worker. *)

IsVideo(w) == jobs[worker[w].job].upload.profile = "mp4-web"

\* The extension processing gives the file that results.
FinalExt(w) == IF IsVideo(w) THEN VideoExt ELSE jobs[worker[w].job].upload.ext

\* processJob after its claim, or after reuseDerivative turned out not to apply.
AtStart(w) == [worker[w] EXCEPT !.pc = "process", !.reuse = FALSE, !.object = Null,
                                !.ext = Null, !.thumb = FALSE]

Step(w, from, to) ==
    /\ worker[w].pc = from
    /\ worker' = [worker EXCEPT ![w].pc = to]

\* The staged file is opened: by ffmpeg, or to hash and upload a file kept as it is.
ReadsStaged(w) ==
    \/ worker[w].pc = "process" /\ IsVideo(w)
    \/ worker[w].pc \in {"get", "put"} /\ ~worker[w].reuse /\ ~IsVideo(w)

HasFile(w) == ReadsStaged(w) => worker[w].job \in staged

FileGone(w) ==
    /\ worker[w].pc \in {"process", "get", "put"}
    /\ ~HasFile(w)
    /\ worker' = [worker EXCEPT ![w].pc = "abort"]
    /\ UNCHANGED <<dbVars, bucket, staged, api>>

Claim(w) ==
    /\ worker[w].pc = "idle"
    /\ \E j \in JobId :
          /\ DB!ClaimNextProcessingJob(j)
          /\ \/ worker' = [worker EXCEPT ![w] = [Idle EXCEPT !.pc = "derive", !.job = j]]
             \/ "commit" \in Faults /\ UNCHANGED worker
    /\ UNCHANGED <<bucket, staged, api>>

\* reuseDerivative asks for the result of an earlier job on the same bytes.
FindDerivative(w) ==
    /\ worker[w].pc = "derive"
    /\ LET u == jobs[worker[w].job].upload IN
       \/ \E x \in Sha :
             /\ DB!Derived(u, x)
             /\ worker' = [worker EXCEPT ![w].pc = "get", ![w].reuse = TRUE, ![w].object = x]
       \/ /\ ~\E x \in Sha : DB!Derived(u, x)
          /\ worker' = [worker EXCEPT ![w].pc = "process"]
    /\ UNCHANGED <<dbVars, bucket, staged, api>>

\* Remux, transcode or keep; a video ffmpeg cannot handle fails the job.
Process(w) ==
    /\ worker[w].pc = "process"
    /\ HasFile(w)
    /\ \/ \E x \in Results[jobs[worker[w].job].upload] :
             worker' = [worker EXCEPT ![w].pc = "precheck", ![w].object = x]
       \/ IsVideo(w) /\ worker' = [worker EXCEPT ![w].pc = "abort"]
    /\ UNCHANGED <<dbVars, bucket, staged, api>>

\* GetProcessingJob: go on while the job runs, stop when it was canceled, fail
\* in any other state.
StatusCheck(w, from, running, canceled) ==
    /\ Step(w, from, IF jobs[worker[w].job].status = "running" THEN running
                     ELSE IF jobs[worker[w].job].status = "canceled" THEN canceled
                     ELSE "abort")
    /\ UNCHANGED <<dbVars, bucket, staged, api>>

CheckBeforeHash(w) == StatusCheck(w, "precheck", "get", "cleanup")

\* The status check just before completion; what this job uploaded is undone.
CheckBeforeCommit(w) ==
    StatusCheck(w, "check", "complete", IF worker[w].uploaded THEN "undo" ELSE "cleanup")

NotReady(w) == IF worker[w].reuse THEN AtStart(w) ELSE [worker[w] EXCEPT !.pc = "put"]

\* readyObject: the row, then HeadObject on its key, then the mark.
GetObject(w) ==
    /\ worker[w].pc = "get"
    /\ HasFile(w)
    /\ LET row == objects[worker[w].object] IN
       worker' = [worker EXCEPT ![w] =
           IF row.status = "ready"
             THEN [worker[w] EXCEPT !.pc = "head", !.ext = row.ext, !.thumb = row.thumb]
             ELSE NotReady(w)]
    /\ UNCHANGED <<dbVars, bucket, staged, api>>

HeadObject(w) ==
    /\ \/ <<worker[w].object, worker[w].ext>> \in bucket /\ Step(w, "head", "check")
       \/ /\ <<worker[w].object, worker[w].ext>> \notin bucket \/ "head" \in Faults
          /\ Step(w, "head", "mark")
    /\ UNCHANGED <<dbVars, bucket, staged, api>>

MarkMissing(w) ==
    /\ worker[w].pc = "mark"
    /\ DB!MarkObjectUnavailable(worker[w].object)
    /\ worker' = [worker EXCEPT ![w] = NotReady(w)]
    /\ UNCHANGED <<bucket, staged, api>>

\* A video may come with a thumbnail to upload.
PutObject(w) ==
    /\ worker[w].pc = "put"
    /\ HasFile(w)
    /\ bucket' = bucket \cup {<<worker[w].object, FinalExt(w)>>}
    /\ \E next \in {"check"} \cup (IF IsVideo(w) THEN {"putThumb"} ELSE {}) :
          worker' = [worker EXCEPT ![w] = [@ EXCEPT !.pc = next, !.ext = FinalExt(w),
                                                    !.thumb = FALSE, !.uploaded = TRUE]]
    /\ UNCHANGED <<dbVars, staged, api>>

\* A failed upload may or may not have left the bytes behind.
\* Mistake: its error is ignored.
PutFailsUnheard(w) ==
    /\ "put" \in Faults
    /\ worker[w].pc = "put"
    /\ worker' = [worker EXCEPT ![w] = [@ EXCEPT !.pc = "check", !.ext = FinalExt(w)]]
    /\ UNCHANGED <<dbVars, bucket, staged, api>>

PutFails(w) ==
    /\ "put" \in Faults
    /\ Step(w, "put", "abort")
    /\ bucket' \in {bucket, bucket \cup {<<worker[w].object, FinalExt(w)>>}}
    /\ UNCHANGED <<dbVars, staged, api>>

\* Without its thumbnail the video is shared all the same.
PutThumbnail(w) ==
    /\ worker[w].pc = "putThumb"
    /\ \/ /\ bucket' = bucket \cup {ThumbKey(worker[w].object)}
          /\ worker' = [worker EXCEPT ![w].pc = "check", ![w].thumb = TRUE]
       \/ /\ "put" \in Faults
          /\ worker' = [worker EXCEPT ![w].pc = "check"]
          /\ bucket' \in {bucket, bucket \cup {ThumbKey(worker[w].object)}}
    /\ UNCHANGED <<dbVars, staged, api>>

\* The object this job uploaded goes; its thumbnail is not touched.
UndoUpload(w) ==
    /\ Step(w, "undo", "cleanup")
    /\ bucket' \in {bucket \ {<<worker[w].object, worker[w].ext>>}} \cup
                   (IF "delete" \in Faults THEN {bucket} ELSE {})
    /\ UNCHANGED <<dbVars, staged, api>>

Complete(w) ==
    /\ \/ Step(w, "complete", "cleanup")
       \/ "commit" \in Faults /\ Step(w, "complete", "abort")
    /\ DB!CompleteProcessingJob(worker[w].job, worker[w].object, worker[w].ext, worker[w].thumb)
    /\ UNCHANGED <<bucket, staged, api>>

\* The job stopped running, or its share is gone, since the status check.
CompleteRefused(w) ==
    /\ Step(w, "complete", "abort")
    /\ LET job == jobs[worker[w].job] IN
       ~(job.status = "running" /\ \E t \in Slug : DB!Resolves(job.alias, t))
    /\ UNCHANGED <<dbVars, bucket, staged, api>>

\* The deferred removal of the staged file, whichever way processJob returned.
\* Mistakes: an error is not reported to the store; success is.
RemoveUnreported(w) ==
    /\ worker[w].pc \in {"cleanup", "abort"}
    /\ worker' = [worker EXCEPT ![w] = Idle]
    /\ staged' = staged \ {worker[w].job}
    /\ UNCHANGED <<dbVars, bucket, api>>
RemoveAndFail(w) ==
    /\ worker[w].pc \in {"cleanup", "abort"}
    /\ worker' = [worker EXCEPT ![w].pc = "fail"]
    /\ staged' = staged \ {worker[w].job}
    /\ UNCHANGED <<dbVars, bucket, api>>

RemoveStagedFile(w) ==
    /\ \/ worker[w].pc = "cleanup" /\ worker' = [worker EXCEPT ![w] = Idle]
       \/ Step(w, "abort", "fail")
    /\ staged' = staged \ {worker[w].job}
    /\ UNCHANGED <<dbVars, bucket, api>>

Fail(w) ==
    /\ worker[w].pc = "fail"
    /\ DB!FailProcessingJob(worker[w].job)
    /\ worker' = [worker EXCEPT ![w] = Idle]
    /\ UNCHANGED <<bucket, staged, api>>

DatabaseError(w) ==
    /\ "db" \in Faults
    /\ \/ /\ worker[w].pc \in {"derive", "precheck", "get", "mark", "check", "complete"}
          /\ worker' = [worker EXCEPT ![w].pc = "abort"]
       \/ worker[w].pc = "fail" /\ worker' = [worker EXCEPT ![w] = Idle]
    /\ UNCHANGED <<dbVars, bucket, staged, api>>

\* SIGTERM cancels the context of every call: processJob returns an error, its
\* deferred removal runs, and FailProcessingJob fails on the same context.
Stop(w) ==
    /\ "stop" \in Faults
    /\ worker[w].pc # "idle"
    /\ staged' = staged \ {worker[w].job}
    /\ worker' = [worker EXCEPT ![w] = Idle]
    /\ UNCHANGED <<dbVars, bucket, api>>

CrashWorker(w) ==
    /\ "crash" \in Faults
    /\ worker[w].pc # "idle"
    /\ worker' = [worker EXCEPT ![w] = Idle]
    /\ UNCHANGED <<dbVars, bucket, staged, api>>

-----------------------------------------------------------------------------

\* What the service does about a job or a request it took on.
WorkerStep(w) ==
    \/ Claim(w) \/ FindDerivative(w) \/ Process(w) \/ FileGone(w)
    \/ CheckBeforeHash(w) \/ GetObject(w) \/ HeadObject(w) \/ MarkMissing(w)
    \/ PutObject(w) \/ PutFails(w) \/ PutThumbnail(w)
    \/ CheckBeforeCommit(w) \/ UndoUpload(w) \/ Complete(w) \/ CompleteRefused(w)
    \/ RemoveStagedFile(w) \/ Fail(w)

ApiStep(r) ==
    \/ \E o \in Owner, s \in Slug : AcceptUpload(r, o, s)
    \/ RejectUpload(r)
    \/ RemoveStaged(r) \/ PurgeKey(r)

WorkerFault(w) == DatabaseError(w) \/ Stop(w) \/ CrashWorker(w)

ApiFault(r) ==
    \/ \E o \in Owner, s \in Slug : AcceptUnheard(r, o, s)
    \/ CrashApi(r)

Next ==
    \/ \E w \in Worker : WorkerStep(w) \/ WorkerFault(w)
    \/ \E r \in Request : ApiStep(r) \/ ApiFault(r)
    \/ \E r \in Request, j \in JobId : StageUpload(r, j)
    \/ \E r \in Request, s \in Slug, o \in Owner : DeleteShare(r, s, o)
    \/ \E s, new \in Slug, o \in Owner : RenameShare(s, o, new)

Spec == Init /\ [][Next]_vars

\* Run polls the queue for as long as the processor lives, and a handler runs to
\* its end: neither waits for anything but its own calls.
Fairness ==
    /\ \A w \in Worker : WF_vars(WorkerStep(w))
    /\ \A r \in Request : WF_vars(ApiStep(r))

FairSpec == Spec /\ Fairness

-----------------------------------------------------------------------------
(* Properties.  Which hold under which faults and for which uploads is said  *)
(* by the runs.                                                              *)

\* Workers and requests hold jobs, digests and keys of their types: the keys a
\* deletion hands back are never empty.
TypeOK ==
    /\ bucket \subseteq Key
    /\ staged \subseteq JobId
    /\ worker \in [Worker -> WorkerState]
    /\ api \in [Request -> ApiState]

\* Whatever workers and requests do in whatever order, the tables change only
\* as the methods of the store, called in an order it expects, change them.
StoreSpec == DB!Spec

Holds(w, j) == worker[w].pc # "idle" /\ worker[w].job = j

\* A job waiting in the queue has its file on the staging volume.
StagedWhileQueued == \A j \in JobId : jobs[j].status = "queued" => j \in staged

\* Two workers never process the same job.
WorkersKeepApart ==
    \A w, v \in Worker : \A j \in JobId : Holds(w, j) /\ Holds(v, j) => w = v

\* A running job is always in some worker's hands: none is left "running" with
\* nobody to finish it.
RunningJobsAreHeld ==
    \A j \in JobId : jobs[j].status = "running" => \E w \in Worker : Holds(w, j)

\* A staged file is waiting for its job or somebody is about to remove it.
NoStagedLeftovers ==
    \A j \in staged : \/ jobs[j].status = "queued"
                      \/ \E w \in Worker : Holds(w, j)
                      \/ \E r \in Request : j \in api[r].files

\* A job that is queued or running still has its upload to work on.
UnfinishedJobKeepsFile ==
    \A j \in JobId : jobs[j].status = "queued"
                     \/ (jobs[j].status = "running" /\ ~\E w \in Worker : Holds(w, j))
                     => j \in staged

\* The bytes and the thumbnail that the row of x names are in the bucket.
Stored(x) == /\ <<x, objects[x].ext>> \in bucket
             /\ objects[x].thumb => ThumbKey(x) \in bucket

ReadyShare(s) == DB!Live(s) /\ aliases[s].status = "ready"

\* A share that is shown as ready can be opened.
ReadyShareHasBytes == \A s \in Slug : ReadyShare(s) => Stored(aliases[s].object)

Quiet == /\ \A w \in Worker : worker[w].pc = "idle"
         /\ \A r \in Request : api[r].pc = "idle"

Referenced(x) == \E s \in Slug : ReadyShare(s) /\ aliases[s].object = x

\* Bytes nobody refers to stay behind only where a share was deleted while its
\* upload was being processed; deleting a ready share leaves none.
OrphansAreOfCanceledJobs ==
    Quiet => \A key \in bucket :
        \/ Referenced(key[1])
        \/ \E j \in JobId : jobs[j].status = "canceled" /\ key[1] \in Results[jobs[j].upload]

\* How a job ended is not rewritten, not even by a worker that was told that its
\* completion failed when it had taken effect.
FinishedJobsStay == DB!FinishedJobsStay

\* Every accepted upload is completed, failed or canceled with its share.
EveryUploadSettles ==
    \A j \in JobId : jobs[j].status = "queued" ~>
                     jobs[j].status \in {"completed", "failed", "canceled"}

\* The bytes of a deleted object leave the bucket, thumbnail included.
DeletedBytesGo ==
    \A x \in Sha : objects[x].status = "deleted" ~>
                   objects[x].status # "deleted" \/ \A e \in Ext : <<x, e>> \notin bucket
=============================================================================
