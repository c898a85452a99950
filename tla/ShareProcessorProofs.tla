------------------------- MODULE ShareProcessorProofs -------------------------
(***************************************************************************)
(* Proofs about ShareProcessor, for any files, digests, workers and        *)
(* requests.  How requests and workers use the store, and the files of     *)
(* queued jobs, are proved for any faults but a commit that took effect    *)
(* and was reported as failed: that makes the API remove the file of a     *)
(* queued job and the processor fail a job it completed.  The invariants   *)
(* after that say on their own which faults they bear.                     *)
(***************************************************************************)
EXTENDS ShareProcessor, TLAPS

Store == INSTANCE ShareMetadataProofs WITH MaxOpens <- 0

CommitsAreHeard == "commit" \notin Faults

-----------------------------------------------------------------------------
(* Store is the DB of ShareProcessor, with what is proved about it. *)

LEMMA StoreAssumed ==
    /\ Store!UploadAssumption /\ Store!NullAssumption
    /\ Store!LimitAssumption /\ Store!OpensAssumption
BY StoreAssumption
   DEF DB!UploadAssumption, Store!UploadAssumption, DB!Profile, Store!Profile,
       DB!NullAssumption, Store!NullAssumption, DB!LimitAssumption, Store!LimitAssumption,
       Store!OpensAssumption

LEMMA SameJobs ==
    ASSUME NEW j
    PROVE  /\ DB!JobExists(j) <=> Store!JobExists(j)
           /\ DB!JobRoot(j) = Store!JobRoot(j)
BY DEF DB!JobExists, Store!JobExists, DB!JobRoot, Store!JobRoot, DB!Root, Store!Root,
       DB!IsRoot, Store!IsRoot

LEMMA SameInit == DB!Init => Store!Init
BY DEF DB!Init, Store!Init, DB!NoAlias, Store!NoAlias, DB!NoJob, Store!NoJob,
       DB!NoObject, Store!NoObject, DB!Profile, Store!Profile

LEMMA SameCreate ==
    ASSUME NEW j, NEW o, NEW s, NEW u, DB!CreateIngestJob(j, o, s, u)
    PROVE  Store!CreateIngestJob(j, o, s, u)
BY DEF DB!CreateIngestJob, Store!CreateIngestJob, DB!NameFree, Store!NameFree,
       DB!Present, Store!Present, DB!PendingAlias, Store!PendingAlias,
       DB!QueuedJob, Store!QueuedJob

LEMMA SameClaim ==
    ASSUME NEW j, DB!ClaimNextProcessingJob(j)
    PROVE  Store!ClaimNextProcessingJob(j)
BY DEF DB!ClaimNextProcessingJob, Store!ClaimNextProcessingJob,
       DB!NextInQueue, Store!NextInQueue

LEMMA SameResolves ==
    ASSUME NEW s, NEW t
    PROVE  DB!Resolves(s, t) <=> Store!Resolves(s, t)
BY DEF DB!Resolves, Store!Resolves, DB!Visible, Store!Visible, DB!IsRoot, Store!IsRoot

LEMMA SameComplete ==
    ASSUME NEW j, NEW x, NEW e, NEW thumb, DB!CompleteProcessingJob(j, x, e, thumb)
    PROVE  Store!CompleteProcessingJob(j, x, e, thumb)
BY SameResolves
   DEF DB!CompleteProcessingJob, Store!CompleteProcessingJob, DB!Completable,
       Store!Completable, DB!Replaced, Store!Replaced

LEMMA SameFail ==
    ASSUME NEW j, DB!Failable(j), DB!FailProcessingJob(j)
    PROVE  Store!Failable(j) /\ Store!FailProcessingJob(j)
BY SameResolves
   DEF DB!Failable, Store!Failable, DB!FailProcessingJob, Store!FailProcessingJob,
       DB!AfterFailure, Store!AfterFailure

LEMMA SameRename ==
    ASSUME NEW s, NEW o, NEW new, DB!RenameAlias(s, o, new)
    PROVE  Store!RenameAlias(s, o, new)
BY DEF DB!RenameAlias, Store!RenameAlias, DB!OwnedCurrent, Store!OwnedCurrent,
       DB!NameFree, Store!NameFree, DB!Present, Store!Present, DB!Visible, Store!Visible,
       DB!IsRoot, Store!IsRoot, DB!RenamedRows, Store!RenamedRows, DB!Family, Store!Family

LEMMA SameDelete ==
    ASSUME NEW s, NEW o, DB!DeleteAlias(s, o)
    PROVE  Store!DeleteAlias(s, o)
BY DEF DB!DeleteAlias, Store!DeleteAlias, DB!OwnedCurrent, Store!OwnedCurrent,
       DB!Visible, Store!Visible, DB!IsRoot, Store!IsRoot, DB!DeletedRows,
       Store!DeletedRows, DB!Family, Store!Family, DB!CanceledBy, Store!CanceledBy,
       DB!FreesObject, Store!FreesObject, DB!OtherReferences, Store!OtherReferences

LEMMA SameMark ==
    ASSUME NEW x, DB!MarkObjectUnavailable(x)
    PROVE  Store!MarkObjectUnavailable(x)
BY DEF DB!MarkObjectUnavailable, Store!MarkObjectUnavailable

-----------------------------------------------------------------------------
(* The inductive invariant. *)

Working == WorkerPc \ {"idle", "cleanup"}
HasObject == {"precheck", "get", "head", "mark", "put", "putThumb", "check", "undo", "complete"}
HasKey == {"head", "putThumb", "check", "undo", "complete"}

\* A worker has a job that was claimed; while it works on it the job runs, or was
\* canceled under it, and once the digest of the result and its key are known
\* they are not empty.
AtWork(w) ==
    /\ worker[w].pc # "idle" => /\ worker[w].job \in JobId
                                /\ jobs[worker[w].job].status \notin {"absent", "queued"}
    /\ worker[w].pc \in Working => jobs[worker[w].job].status \in {"running", "canceled"}
    /\ worker[w].pc \in HasObject => worker[w].object \in Sha
    /\ worker[w].pc \in HasKey => worker[w].ext \in Ext

WorkersAtWork == \A w \in Worker : AtWork(w)

\* The file of an upload waits on the volume for its job; the files of a deletion
\* are of canceled jobs, and its keys last until none is left to purge.
FilesInHand ==
    \A r \in Request :
        /\ api[r].pc \in {"idle", "purging"} => api[r].files = {}
        /\ api[r].pc = "staged" =>
               \A j \in api[r].files : jobs[j].status = "absent" /\ j \in staged
        /\ api[r].pc = "removing" => \A j \in api[r].files : jobs[j].status = "canceled"
        /\ api[r].pc = "purging" => api[r].keys # <<>>

\* Two uploads are two jobs.
UploadsKeepApart ==
    \A r, q \in Request :
        api[r].pc = "staged" /\ api[q].pc = "staged" /\ r # q => api[r].files \cap api[q].files = {}

ServiceInv ==
    /\ Store!IInv /\ Store!ObjectsHaveKeys /\ TypeOK
    /\ WorkersAtWork /\ WorkersKeepApart
    /\ FilesInHand /\ UploadsKeepApart /\ StagedWhileQueued

-----------------------------------------------------------------------------

LEMMA InitServes == Init => ServiceInv
<1> SUFFICES ASSUME Init PROVE ServiceInv
  OBVIOUS
<1>1. Store!IInv /\ Store!ObjectsHaveKeys
  BY StoreAssumed, SameInit, Store!InitEstablishes, Store!InitHasKeys DEF Init
<1>2. TypeOK
  BY DEF Init, TypeOK, WorkerState, WorkerPc, Idle, ApiState, NoRequest
<1>3. WorkersAtWork /\ WorkersKeepApart
  BY DEF Init, Idle, WorkersAtWork, AtWork, Working, HasObject, HasKey, WorkersKeepApart, Holds
<1>4. FilesInHand /\ UploadsKeepApart /\ StagedWhileQueued
  BY DEF Init, NoRequest, FilesInHand, UploadsKeepApart, StagedWhileQueued, DB!Init, DB!NoJob
<1> QED BY <1>1, <1>2, <1>3, <1>4 DEF ServiceInv

\* The store's own invariants, in a step that is one of its methods or none.
LEMMA StoreKeeps ==
    ASSUME ServiceInv, Store!Next \/ UNCHANGED dbVars
    PROVE  Store!IInv' /\ Store!ObjectsHaveKeys'
<1>1. Store!IInv /\ Store!ObjectsHaveKeys /\ [Store!Next]_(Store!vars)
  BY DEF ServiceInv, dbVars, Store!vars
<1> QED BY <1>1, StoreAssumed, Store!NextKeeps, Store!NextHasKeys

LEMMA JobRows ==
    ASSUME ServiceInv
    PROVE  /\ jobs \in [JobId -> Store!JobRow]
           /\ objects \in [Sha -> Store!ObjectRow]
           /\ \A j \in JobId : jobs[j].status # "absent" => jobs[j].upload \in Upload
BY DEF ServiceInv, Store!IInv, Store!TypeOK, Store!SharesAndJobsPair, Store!JobsHaveShares,
       Store!JobExists

\* A worker goes on with its job, or ends it; the file it may remove is its own.
LEMMA WorkerMoves ==
    ASSUME ServiceInv, NEW w \in Worker, NEW new,
           UNCHANGED <<dbVars, api>>,
           worker' = [worker EXCEPT ![w] = new], new \in WorkerState,
           worker[w].pc # "idle",
           new.pc # "idle" => new.job = worker[w].job,
           new.pc \in Working => worker[w].pc \in Working,
           new.pc \in HasObject => new.object \in Sha,
           new.pc \in HasKey => new.ext \in Ext,
           staged' \in {staged, staged \ {worker[w].job}},
           bucket' \subseteq Key
    PROVE  ServiceInv'
<1>a. /\ worker \in [Worker -> WorkerState] /\ api \in [Request -> ApiState]
      /\ staged \subseteq JobId
  BY DEF ServiceInv, TypeOK
<1>b. /\ worker'[w] = new /\ \A v \in Worker \ {w} : worker'[v] = worker[v]
      /\ jobs' = jobs /\ api' = api
  BY <1>a DEF dbVars
<1>c. worker[w].job \in JobId /\ jobs[worker[w].job].status \notin {"absent", "queued"}
  BY <1>a DEF ServiceInv, WorkersAtWork, AtWork, Working, WorkerState
<1>1. TypeOK'
  BY <1>a, <1>b DEF TypeOK
<1>2. WorkersAtWork'
  <2>1. ASSUME NEW v \in Worker, v # w PROVE AtWork(v)'
    BY <1>b, <2>1 DEF ServiceInv, WorkersAtWork, AtWork
  <2>2. AtWork(w)'
    <3>1. worker[w].pc \in Working => jobs[worker[w].job].status \in {"running", "canceled"}
      BY DEF ServiceInv, WorkersAtWork, AtWork
    <3>2. new.pc \in Working => new.job = worker[w].job
      BY DEF Working
    <3> QED BY <1>b, <1>c, <3>1, <3>2 DEF AtWork
  <2> QED BY <2>1, <2>2 DEF WorkersAtWork
<1>3. WorkersKeepApart'
  BY <1>b DEF ServiceInv, WorkersKeepApart, Holds
<1>4. FilesInHand'
  <2>1. ASSUME NEW j \in JobId, jobs[j].status = "absent", j \in staged PROVE j \in staged'
    BY <1>c, <2>1
  <2>2. \A r \in Request : api[r].files \subseteq JobId
    BY <1>a DEF ApiState
  <2> QED BY <1>b, <2>1, <2>2 DEF ServiceInv, FilesInHand
<1>5. UploadsKeepApart' /\ StagedWhileQueued'
  BY <1>b, <1>c DEF ServiceInv, UploadsKeepApart, StagedWhileQueued
<1> QED BY <1>1, <1>2, <1>3, <1>4, <1>5, StoreKeeps DEF ServiceInv

\* Most steps only move the worker on.
LEMMA MovesTo ==
    ASSUME ServiceInv, NEW w \in Worker, NEW to \in WorkerPc,
           UNCHANGED <<dbVars, api>>,
           worker' = [worker EXCEPT ![w].pc = to],
           worker[w].pc # "idle",
           to \in Working => worker[w].pc \in Working,
           to \in HasObject => worker[w].pc \in HasObject,
           to \in HasKey => worker[w].pc \in HasKey,
           staged' \in {staged, staged \ {worker[w].job}},
           bucket' \subseteq Key
    PROVE  ServiceInv'
<1> DEFINE new == [worker[w] EXCEPT !.pc = to]
<1>a. worker \in [Worker -> WorkerState] /\ worker[w] \in WorkerState
  BY DEF ServiceInv, TypeOK
<1>b. worker' = [worker EXCEPT ![w] = new]
  BY <1>a
<1>c. /\ new \in WorkerState /\ new.pc = to /\ new.job = worker[w].job
      /\ new.object = worker[w].object /\ new.ext = worker[w].ext
  BY <1>a DEF WorkerState
<1>d. /\ worker[w].pc \in HasObject => worker[w].object \in Sha
      /\ worker[w].pc \in HasKey => worker[w].ext \in Ext
  BY DEF ServiceInv, WorkersAtWork, AtWork
<1> HIDE DEF new
<1> QED BY <1>b, <1>c, <1>d, WorkerMoves

LEMMA FindDerivativeKeeps ==
    ASSUME ServiceInv, NEW w \in Worker, FindDerivative(w)
    PROVE  ServiceInv'
<1>a. /\ worker \in [Worker -> WorkerState] /\ worker[w] \in WorkerState
      /\ worker[w].pc = "derive" /\ bucket \subseteq Key
      /\ UNCHANGED <<dbVars, bucket, staged, api>>
  BY DEF ServiceInv, TypeOK, FindDerivative
<1>1. ASSUME NEW x \in Sha,
             worker' = [worker EXCEPT ![w].pc = "get", ![w].reuse = TRUE, ![w].object = x]
      PROVE  ServiceInv'
  <2> DEFINE new == [worker[w] EXCEPT !.pc = "get", !.reuse = TRUE, !.object = x]
  <2>1. worker' = [worker EXCEPT ![w] = new]
    BY <1>a, <1>1
  <2>2. /\ new \in WorkerState /\ new.pc = "get" /\ new.job = worker[w].job /\ new.object = x
    BY <1>a DEF WorkerState, WorkerPc
  <2> HIDE DEF new
  <2> QED BY <1>a, <2>1, <2>2, WorkerMoves DEF Working, WorkerPc, HasObject, HasKey
<1>2. CASE worker' = [worker EXCEPT ![w].pc = "process"]
  BY <1>a, <1>2, MovesTo DEF Working, WorkerPc, HasObject, HasKey
<1> QED BY <1>1, <1>2 DEF FindDerivative

LEMMA ProcessKeeps ==
    ASSUME ServiceInv, NEW w \in Worker, Process(w)
    PROVE  ServiceInv'
<1>a. /\ worker \in [Worker -> WorkerState] /\ worker[w] \in WorkerState
      /\ worker[w].pc = "process" /\ bucket \subseteq Key
      /\ UNCHANGED <<dbVars, bucket, staged, api>>
  BY DEF ServiceInv, TypeOK, Process
<1>b. jobs[worker[w].job].upload \in Upload
  <2>1. worker[w].job \in JobId /\ jobs[worker[w].job].status \in {"running", "canceled"}
    BY <1>a DEF ServiceInv, WorkersAtWork, AtWork, Working, WorkerPc
  <2> QED BY <2>1, JobRows
<1>1. ASSUME NEW x \in Results[jobs[worker[w].job].upload],
             worker' = [worker EXCEPT ![w].pc = "precheck", ![w].object = x]
      PROVE  ServiceInv'
  <2> DEFINE new == [worker[w] EXCEPT !.pc = "precheck", !.object = x]
  <2>1. worker' = [worker EXCEPT ![w] = new]
    BY <1>a, <1>1
  <2>2. x \in Sha
    BY <1>b, ProcessorAssumption
  <2>3. /\ new \in WorkerState /\ new.pc = "precheck" /\ new.job = worker[w].job /\ new.object = x
    BY <1>a, <2>2 DEF WorkerState, WorkerPc
  <2> HIDE DEF new
  <2> QED BY <1>a, <2>1, <2>2, <2>3, WorkerMoves DEF Working, WorkerPc, HasObject, HasKey
<1>2. CASE worker' = [worker EXCEPT ![w].pc = "abort"]
  BY <1>a, <1>2, MovesTo DEF Working, WorkerPc, HasObject, HasKey
<1> QED BY <1>1, <1>2 DEF Process

\* What becomes of a job whose object is not ready.
LEMMA NotReadyState ==
    ASSUME ServiceInv, NEW w \in Worker, worker[w].pc \in {"get", "mark"}
    PROVE  /\ NotReady(w) \in WorkerState /\ NotReady(w).pc \in {"process", "put"}
           /\ NotReady(w).job = worker[w].job
           /\ NotReady(w).pc = "put" => NotReady(w).object \in Sha
<1>1. worker[w] \in WorkerState /\ worker[w].object \in Sha
  BY DEF ServiceInv, TypeOK, WorkersAtWork, AtWork, HasObject
<1>2. /\ AtStart(w) \in WorkerState /\ AtStart(w).pc = "process" /\ AtStart(w).job = worker[w].job
  BY <1>1 DEF AtStart, WorkerState, WorkerPc
<1> DEFINE new == [worker[w] EXCEPT !.pc = "put"]
<1>3. /\ new \in WorkerState /\ new.pc = "put" /\ new.job = worker[w].job
      /\ new.object = worker[w].object
  BY <1>1 DEF WorkerState, WorkerPc
<1>4. NotReady(w) = IF worker[w].reuse THEN AtStart(w) ELSE new
  BY DEF NotReady
<1> HIDE DEF new
<1> QED BY <1>1, <1>2, <1>3, <1>4

LEMMA GetObjectKeeps ==
    ASSUME ServiceInv, NEW w \in Worker, GetObject(w)
    PROVE  ServiceInv'
<1> DEFINE row == objects[worker[w].object]
<1>a. /\ worker \in [Worker -> WorkerState] /\ worker[w] \in WorkerState
      /\ worker[w].pc = "get" /\ bucket \subseteq Key /\ worker[w].object \in Sha
      /\ UNCHANGED <<dbVars, bucket, staged, api>>
  BY DEF ServiceInv, TypeOK, GetObject, WorkersAtWork, AtWork, HasObject
<1>1. CASE row.status = "ready"
  <2> DEFINE new == [worker[w] EXCEPT !.pc = "head", !.ext = row.ext, !.thumb = row.thumb]
  <2>1. worker' = [worker EXCEPT ![w] = new]
    BY <1>1 DEF GetObject
  <2>2. row.ext \in Ext /\ row.thumb \in BOOLEAN
    BY <1>a, <1>1, JobRows DEF ServiceInv, Store!ObjectsHaveKeys, Store!ObjectRow
  <2> HIDE DEF row
  <2>3. /\ new \in WorkerState /\ new.pc = "head" /\ new.job = worker[w].job
        /\ new.object = worker[w].object /\ new.ext = row.ext
    BY <1>a, <2>2 DEF WorkerState, WorkerPc
  <2> HIDE DEF new
  <2> QED BY <1>a, <2>1, <2>2, <2>3, WorkerMoves DEF Working, WorkerPc, HasObject, HasKey
<1>2. CASE row.status # "ready"
  <2>1. worker' = [worker EXCEPT ![w] = NotReady(w)]
    BY <1>2 DEF GetObject
  <2> QED BY <1>a, <2>1, NotReadyState, WorkerMoves DEF Working, WorkerPc, HasObject, HasKey
<1> QED BY <1>1, <1>2

\* The extension of a file is one of the extensions.
LEMMA FinalExtIsExt ==
    ASSUME ServiceInv, NEW w \in Worker, worker[w].pc \in Working
    PROVE  FinalExt(w) \in Ext
<1>1. worker[w].job \in JobId /\ jobs[worker[w].job].status \in {"running", "canceled"}
  BY DEF ServiceInv, WorkersAtWork, AtWork, Working
<1>2. jobs[worker[w].job].upload \in Upload
  BY <1>1, JobRows
<1>3. jobs[worker[w].job].upload.ext \in Ext
  BY <1>2, StoreAssumed DEF Store!UploadAssumption
<1> QED BY <1>3, ProcessorAssumption DEF FinalExt

LEMMA PutObjectKeeps ==
    ASSUME ServiceInv, NEW w \in Worker, PutObject(w)
    PROVE  ServiceInv'
<1>a. /\ worker \in [Worker -> WorkerState] /\ worker[w] \in WorkerState
      /\ worker[w].pc = "put" /\ bucket \subseteq Key /\ worker[w].object \in Sha
      /\ bucket' = bucket \cup {<<worker[w].object, FinalExt(w)>>}
      /\ UNCHANGED <<dbVars, staged, api>>
  BY DEF ServiceInv, TypeOK, PutObject, WorkersAtWork, AtWork, HasObject
<1>1. FinalExt(w) \in Ext
  BY <1>a, FinalExtIsExt DEF Working, WorkerPc
<1>2. bucket' \subseteq Key
  BY <1>a, <1>1 DEF Key
<1>3. PICK next \in {"check", "putThumb"} :
          worker' = [worker EXCEPT ![w] = [worker[w] EXCEPT !.pc = next, !.ext = FinalExt(w),
                                                            !.thumb = FALSE, !.uploaded = TRUE]]
  BY <1>a DEF PutObject
<1> DEFINE new == [worker[w] EXCEPT !.pc = next, !.ext = FinalExt(w),
                                    !.thumb = FALSE, !.uploaded = TRUE]
<1>4. /\ new \in WorkerState /\ new.pc = next /\ new.job = worker[w].job
      /\ new.object = worker[w].object /\ new.ext = FinalExt(w)
  <2>1. next \in WorkerPc
    BY DEF WorkerPc
  <2> QED BY <1>a, <1>1, <2>1 DEF WorkerState
<1>5. worker' = [worker EXCEPT ![w] = new]
  BY <1>3
<1> HIDE DEF new
<1> QED BY <1>a, <1>1, <1>2, <1>4, <1>5, WorkerMoves DEF Working, WorkerPc, HasObject, HasKey

LEMMA PutThumbnailKeeps ==
    ASSUME ServiceInv, NEW w \in Worker, PutThumbnail(w)
    PROVE  ServiceInv'
<1>a. /\ worker \in [Worker -> WorkerState] /\ worker[w] \in WorkerState
      /\ worker[w].pc = "putThumb" /\ bucket \subseteq Key
      /\ worker[w].object \in Sha /\ worker[w].ext \in Ext
      /\ UNCHANGED <<dbVars, staged, api>>
  BY DEF ServiceInv, TypeOK, PutThumbnail, WorkersAtWork, AtWork, HasObject, HasKey
<1>1. ASSUME bucket' = bucket \cup {ThumbKey(worker[w].object)},
             worker' = [worker EXCEPT ![w].pc = "check", ![w].thumb = TRUE]
      PROVE  ServiceInv'
  <2> DEFINE new == [worker[w] EXCEPT !.pc = "check", !.thumb = TRUE]
  <2>1. worker' = [worker EXCEPT ![w] = new]
    BY <1>a, <1>1
  <2>2. /\ new \in WorkerState /\ new.pc = "check" /\ new.job = worker[w].job
        /\ new.object = worker[w].object /\ new.ext = worker[w].ext
    BY <1>a DEF WorkerState, WorkerPc
  <2>3. bucket' \subseteq Key
    BY <1>a, <1>1, ProcessorAssumption DEF Key, ThumbKey
  <2> HIDE DEF new
  <2> QED BY <1>a, <2>1, <2>2, <2>3, WorkerMoves DEF Working, WorkerPc, HasObject, HasKey
<1>2. CASE /\ bucket' \in {bucket, bucket \cup {ThumbKey(worker[w].object)}}
           /\ worker' = [worker EXCEPT ![w].pc = "check"]
  <2>1. bucket' \subseteq Key
    BY <1>a, <1>2, ProcessorAssumption DEF Key, ThumbKey
  <2> QED BY <1>a, <1>2, <2>1, MovesTo DEF Working, WorkerPc, HasObject, HasKey
<1> QED BY <1>1, <1>2 DEF PutThumbnail

\* A worker that gives its job up, or dies, leaves it running or canceled.
LEMMA IdleState == Idle \in WorkerState /\ Idle.pc = "idle"
BY DEF Idle, WorkerState, WorkerPc

LEMMA EndsKeep ==
    ASSUME ServiceInv, NEW w \in Worker, worker[w].pc # "idle",
           worker' = [worker EXCEPT ![w] = Idle], UNCHANGED <<dbVars, bucket, api>>,
           staged' \in {staged, staged \ {worker[w].job}}
    PROVE  ServiceInv'
<1>1. bucket' \subseteq Key
  BY DEF ServiceInv, TypeOK
<1> QED BY <1>1, IdleState, WorkerMoves DEF Working, WorkerPc, HasObject, HasKey

LEMMA ChecksKeep ==
    ASSUME ServiceInv, NEW w \in Worker, CheckBeforeHash(w) \/ CheckBeforeCommit(w)
    PROVE  ServiceInv'
<1>a. bucket \subseteq Key /\ UNCHANGED <<dbVars, bucket, staged, api>>
  BY DEF ServiceInv, TypeOK, CheckBeforeHash, CheckBeforeCommit, StatusCheck
<1>1. CASE CheckBeforeHash(w)
  <2>1. PICK to \in {"get", "cleanup", "abort"} :
            worker[w].pc = "precheck" /\ worker' = [worker EXCEPT ![w].pc = to]
    BY <1>1 DEF CheckBeforeHash, StatusCheck, Step
  <2> QED BY <1>a, <2>1, MovesTo DEF Working, WorkerPc, HasObject, HasKey
<1>2. CASE CheckBeforeCommit(w)
  <2>1. PICK to \in {"complete", "undo", "cleanup", "abort"} :
            worker[w].pc = "check" /\ worker' = [worker EXCEPT ![w].pc = to]
    BY <1>2 DEF CheckBeforeCommit, StatusCheck, Step
  <2> QED BY <1>a, <2>1, MovesTo DEF Working, WorkerPc, HasObject, HasKey
<1> QED BY <1>1, <1>2

LEMMA UndoKeeps ==
    ASSUME ServiceInv, NEW w \in Worker, UndoUpload(w)
    PROVE  ServiceInv'
<1>1. bucket' \subseteq Key
  BY DEF ServiceInv, TypeOK, UndoUpload
<1> QED BY <1>1, MovesTo DEF UndoUpload, Step, Working, WorkerPc, HasObject, HasKey

LEMMA PutFailsKeeps ==
    ASSUME ServiceInv, NEW w \in Worker, PutFails(w)
    PROVE  ServiceInv'
<1>1. worker[w].pc = "put" /\ worker[w].object \in Sha /\ bucket \subseteq Key
  BY DEF ServiceInv, TypeOK, PutFails, Step, WorkersAtWork, AtWork, HasObject
<1>2. FinalExt(w) \in Ext
  BY <1>1, FinalExtIsExt DEF Working, WorkerPc
<1>3. bucket' \subseteq Key
  BY <1>1, <1>2 DEF PutFails, Key
<1> QED BY <1>1, <1>3, MovesTo DEF PutFails, Step, Working, WorkerPc, HasObject, HasKey

\* The other steps that only move the worker on, or end its work.
LEMMA LocalStepsKeep ==
    ASSUME ServiceInv, NEW w \in Worker,
           \/ FileGone(w) \/ HeadObject(w) \/ CompleteRefused(w) \/ RemoveStagedFile(w)
           \/ DatabaseError(w) \/ Stop(w) \/ CrashWorker(w)
    PROVE  ServiceInv'
<1>a. bucket' \subseteq Key
  BY DEF ServiceInv, TypeOK, FileGone, HeadObject, CompleteRefused, RemoveStagedFile,
         DatabaseError, Stop, CrashWorker
<1>1. CASE FileGone(w)
  BY <1>1, <1>a, MovesTo DEF FileGone, Working, WorkerPc, HasObject, HasKey
<1>2. CASE HeadObject(w)
  BY <1>2, <1>a, MovesTo DEF HeadObject, Step, Working, WorkerPc, HasObject, HasKey
<1>3. CASE CompleteRefused(w)
  BY <1>3, <1>a, MovesTo DEF CompleteRefused, Step, Working, WorkerPc, HasObject, HasKey
<1>4. CASE RemoveStagedFile(w)
  <2>1. CASE Step(w, "abort", "fail")
    BY <1>4, <2>1, <1>a, MovesTo
       DEF RemoveStagedFile, Step, Working, WorkerPc, HasObject, HasKey
  <2>2. CASE worker[w].pc = "cleanup" /\ worker' = [worker EXCEPT ![w] = Idle]
    BY <1>4, <2>2, EndsKeep DEF RemoveStagedFile
  <2> QED BY <1>4, <2>1, <2>2 DEF RemoveStagedFile
<1>5. CASE DatabaseError(w)
  <2>1. CASE worker[w].pc = "fail"
    BY <1>5, <2>1, EndsKeep DEF DatabaseError
  <2>2. CASE worker[w].pc # "fail"
    BY <1>5, <2>2, <1>a, MovesTo DEF DatabaseError, Working, WorkerPc, HasObject, HasKey
  <2> QED BY <2>1, <2>2
<1>6. CASE Stop(w)
  BY <1>6, EndsKeep DEF Stop
<1>7. CASE CrashWorker(w)
  BY <1>7, EndsKeep DEF CrashWorker
<1> QED BY <1>1, <1>2, <1>3, <1>4, <1>5, <1>6, <1>7

-----------------------------------------------------------------------------
(* The steps that call the store. *)

\* Whatever the store does, its own invariants are kept.
LEMMA SameNext == DB!Next => Store!Next
<1>1. ASSUME NEW j \in JobId, NEW o \in Owner, NEW s \in Slug, NEW u \in Upload,
             DB!CreateIngestJob(j, o, s, u)
      PROVE  Store!Next
  BY <1>1, SameCreate DEF Store!Next
<1>2. ASSUME NEW j \in JobId, DB!ClaimNextProcessingJob(j) PROVE Store!Next
  BY <1>2, SameClaim DEF Store!Next
<1>3. ASSUME NEW j \in JobId, NEW x \in Sha, NEW e \in Ext, NEW thumb \in BOOLEAN,
             DB!CompleteProcessingJob(j, x, e, thumb)
      PROVE  Store!Next
  BY <1>3, SameComplete DEF Store!Next
<1>4. ASSUME NEW j \in JobId, DB!Failable(j), DB!FailProcessingJob(j) PROVE Store!Next
  BY <1>4, SameFail DEF Store!Next
<1>5. ASSUME NEW s \in Slug, NEW new \in Slug, NEW o \in Owner, DB!RenameAlias(s, o, new)
      PROVE  Store!Next
  BY <1>5, SameRename DEF Store!Next
<1>6. ASSUME NEW s \in Slug, NEW o \in Owner, DB!DeleteAlias(s, o) PROVE Store!Next
  BY <1>6, SameDelete DEF Store!Next
<1>7. ASSUME NEW x \in Sha, DB!MarkObjectUnavailable(x) PROVE Store!Next
  BY <1>7, SameMark DEF Store!Next
<1>8. ASSUME NEW s \in Slug, DB!RecordAliasRedirect(s) PROVE Store!Next
  BY <1>8 DEF Store!Next, DB!RecordAliasRedirect, Store!RecordAliasRedirect,
              DB!Present, Store!Present
<1> QED BY <1>1, <1>2, <1>3, <1>4, <1>5, <1>6, <1>7, <1>8 DEF DB!Next

\* A job in hand stays one: it may be canceled, no more.
Stays(j) == \/ jobs'[j] = jobs[j]
            \/ jobs[j].status = "running" /\ jobs'[j].status = "canceled"

LEMMA OthersAtWork ==
    ASSUME ServiceInv, NEW v \in Worker, worker'[v] = worker[v],
           worker[v].pc # "idle" => Stays(worker[v].job)
    PROVE  AtWork(v)'
BY DEF ServiceInv, WorkersAtWork, AtWork, Stays, Working

\* A method of the store that neither adds nor ends a job, called by nobody in
\* particular or by worker w, which goes on with new.
LEMMA TablesChange ==
    ASSUME ServiceInv, DB!Next, jobs' = jobs, UNCHANGED <<bucket, staged, api>>,
           TypeOK', WorkersAtWork',
           \A w \in Worker : worker'[w].pc # "idle" => worker[w].pc # "idle"
                                                      /\ worker'[w].job = worker[w].job
    PROVE  ServiceInv'
<1>1. WorkersKeepApart'
  BY DEF ServiceInv, WorkersKeepApart, Holds
<1>2. FilesInHand' /\ UploadsKeepApart' /\ StagedWhileQueued'
  BY DEF ServiceInv, FilesInHand, UploadsKeepApart, StagedWhileQueued
<1> QED BY <1>1, <1>2, SameNext, StoreKeeps DEF ServiceInv

LEMMA RenameServes ==
    ASSUME ServiceInv, NEW s \in Slug, NEW new \in Slug, NEW o \in Owner, RenameShare(s, o, new)
    PROVE  DB!Next /\ ServiceInv'
<1>1. DB!Next /\ jobs' = jobs /\ UNCHANGED <<bucket, staged, worker, api>>
  BY DEF RenameShare, DB!Next, DB!RenameAlias
<1>2. TypeOK'
  BY <1>1 DEF ServiceInv, TypeOK
<1>3. WorkersAtWork'
  BY <1>1, OthersAtWork DEF WorkersAtWork, Stays
<1> QED BY <1>1, <1>2, <1>3, TablesChange

LEMMA MarkServes ==
    ASSUME ServiceInv, NEW w \in Worker, MarkMissing(w)
    PROVE  DB!Next /\ ServiceInv'
<1>a. /\ worker \in [Worker -> WorkerState] /\ worker[w].pc = "mark" /\ worker[w].object \in Sha
      /\ DB!MarkObjectUnavailable(worker[w].object)
      /\ worker' = [worker EXCEPT ![w] = NotReady(w)]
      /\ UNCHANGED <<bucket, staged, api>>
  BY DEF ServiceInv, TypeOK, WorkersAtWork, AtWork, HasObject, MarkMissing
<1>1. DB!Next /\ jobs' = jobs
  BY <1>a DEF DB!Next, DB!MarkObjectUnavailable
<1>b. /\ NotReady(w) \in WorkerState /\ NotReady(w).pc \in {"process", "put"}
      /\ NotReady(w).job = worker[w].job
      /\ NotReady(w).pc = "put" => NotReady(w).object \in Sha
  BY <1>a, NotReadyState
<1>2. TypeOK'
  BY <1>a, <1>b DEF ServiceInv, TypeOK
<1>3. AtWork(w)'
  <2>1. worker'[w] = NotReady(w)
    BY <1>a
  <2>2. worker[w].job \in JobId /\ jobs[worker[w].job].status \in {"running", "canceled"}
    BY <1>a DEF ServiceInv, WorkersAtWork, AtWork, Working, WorkerPc
  <2> QED BY <1>1, <1>b, <2>1, <2>2 DEF AtWork, HasObject, HasKey
<1>4. \A v \in Worker \ {w} : worker'[v] = worker[v]
  BY <1>a
<1>5. WorkersAtWork'
  BY <1>1, <1>3, <1>4, OthersAtWork DEF WorkersAtWork, Stays
<1>6. \A v \in Worker : worker'[v].pc # "idle" => worker[v].pc # "idle"
                                                 /\ worker'[v].job = worker[v].job
  BY <1>a, <1>b, <1>4
<1> QED BY <1>a, <1>1, <1>2, <1>5, <1>6, TablesChange

\* The worker's own job ends, completed or failed.
LEMMA JobEnds ==
    ASSUME ServiceInv, DB!Next, NEW w \in Worker, NEW new \in WorkerState, NEW row,
           worker[w].pc \in Working, new.pc \in {"idle", "cleanup"},
           new.pc = "cleanup" => new.job = worker[w].job,
           worker' = [worker EXCEPT ![w] = new],
           jobs' = [jobs EXCEPT ![worker[w].job] = row],
           row.status \in {"completed", "failed", "canceled"},
           jobs[worker[w].job].status = "canceled" => row.status = "canceled",
           UNCHANGED <<bucket, staged, api>>
    PROVE  ServiceInv'
<1>a. /\ worker \in [Worker -> WorkerState] /\ worker[w].pc # "idle"
      /\ worker[w].job \in JobId
      /\ jobs[worker[w].job].status \in {"running", "canceled"}
  BY DEF ServiceInv, TypeOK, WorkersAtWork, AtWork, Working
<1>b. /\ worker'[w] = new /\ \A v \in Worker \ {w} : worker'[v] = worker[v]
      /\ jobs \in [JobId -> Store!JobRow]
      /\ jobs'[worker[w].job] = row
      /\ \A j \in JobId \ {worker[w].job} : jobs'[j] = jobs[j]
  BY <1>a, JobRows
<1>1. TypeOK'
  BY <1>a DEF ServiceInv, TypeOK
<1>2. \A v \in Worker \ {w} : worker[v].pc # "idle" =>
          worker[v].job \in JobId \ {worker[w].job}
  BY <1>a DEF ServiceInv, WorkersKeepApart, Holds, WorkersAtWork, AtWork
<1>3. WorkersAtWork'
  <2>1. AtWork(w)'
    BY <1>a, <1>b DEF AtWork, Working, HasObject, HasKey
  <2>2. ASSUME NEW v \in Worker \ {w} PROVE AtWork(v)'
    BY <1>b, <1>2, OthersAtWork DEF Stays
  <2> QED BY <2>1, <2>2 DEF WorkersAtWork
<1>4. WorkersKeepApart'
  BY <1>a, <1>b DEF ServiceInv, WorkersKeepApart, Holds
<1>5. FilesInHand'
  <2>1. \A r \in Request : api[r].files \subseteq JobId
    BY DEF ServiceInv, TypeOK, ApiState
  <2>2. \A j \in JobId : /\ jobs[j].status = "absent" => jobs'[j].status = "absent"
                         /\ jobs[j].status = "canceled" => jobs'[j].status = "canceled"
    BY <1>a, <1>b
  <2> QED BY <2>1, <2>2 DEF ServiceInv, FilesInHand
<1>6. UploadsKeepApart' /\ StagedWhileQueued'
  BY <1>a, <1>b DEF ServiceInv, UploadsKeepApart, StagedWhileQueued
<1> QED BY <1>1, <1>3, <1>4, <1>5, <1>6, SameNext, StoreKeeps DEF ServiceInv

LEMMA CompleteServes ==
    ASSUME CommitsAreHeard, ServiceInv, NEW w \in Worker, Complete(w)
    PROVE  DB!Next /\ ServiceInv'
<1> DEFINE j == worker[w].job
           new == [worker[w] EXCEPT !.pc = "cleanup"]
           row == [jobs[j] EXCEPT !.status = "completed", !.target = worker[w].object]
<1>a. /\ worker[w] \in WorkerState /\ worker[w].pc = "complete"
      /\ worker' = [worker EXCEPT ![w].pc = "cleanup"]
      /\ DB!CompleteProcessingJob(j, worker[w].object, worker[w].ext, worker[w].thumb)
      /\ UNCHANGED <<bucket, staged, api>>
  BY DEF ServiceInv, TypeOK, Complete, Step, CommitsAreHeard
<1>b. j \in JobId /\ worker[w].object \in Sha /\ worker[w].ext \in Ext /\ worker[w].thumb \in BOOLEAN
  BY <1>a DEF ServiceInv, WorkersAtWork, AtWork, HasObject, HasKey, WorkerState
<1>1. DB!Next
  BY <1>a, <1>b DEF DB!Next
<1>2. /\ jobs[j].status = "running"
      /\ jobs' = [jobs EXCEPT ![j] = row]
  BY <1>a DEF DB!CompleteProcessingJob, DB!Completable
<1>3. row.status = "completed"
  BY <1>b, JobRows DEF Store!JobRow
<1>4. worker' = [worker EXCEPT ![w] = new]
  BY <1>a DEF ServiceInv, TypeOK
<1>5. new \in WorkerState /\ new.pc = "cleanup" /\ new.job = j
  BY <1>a DEF WorkerState, WorkerPc
<1> HIDE DEF new, row
<1> QED BY <1>a, <1>1, <1>2, <1>3, <1>4, <1>5, JobEnds DEF Working, WorkerPc

LEMMA FailServes ==
    ASSUME ServiceInv, NEW w \in Worker, Fail(w)
    PROVE  DB!Next /\ ServiceInv'
<1> DEFINE j == worker[w].job
           row == [jobs[j] EXCEPT !.status = DB!AfterFailure(jobs[j].status)]
<1>a. /\ worker[w].pc = "fail" /\ worker' = [worker EXCEPT ![w] = Idle]
      /\ DB!FailProcessingJob(j) /\ UNCHANGED <<bucket, staged, api>>
  BY DEF Fail
<1>b. j \in JobId /\ jobs[j].status \in {"running", "canceled"}
  BY <1>a DEF ServiceInv, WorkersAtWork, AtWork, Working, WorkerPc
<1>1. DB!Next
  BY <1>a, <1>b DEF DB!Next, DB!Failable
<1>2. jobs' = [jobs EXCEPT ![j] = row]
  BY <1>a DEF DB!FailProcessingJob
<1>3. /\ row.status \in {"failed", "canceled"}
      /\ jobs[j].status = "canceled" => row.status = "canceled"
  BY <1>b, JobRows DEF DB!AfterFailure, Store!JobRow
<1> HIDE DEF row
<1> QED BY <1>a, <1>1, <1>2, <1>3, IdleState, JobEnds DEF Working, WorkerPc

\* Nobody holds a job that waits in the queue, so the worker that claims it is
\* alone with it.
LEMMA ClaimServes ==
    ASSUME CommitsAreHeard, ServiceInv, NEW w \in Worker, Claim(w)
    PROVE  DB!Next /\ ServiceInv'
<1>1. PICK j \in JobId :
          /\ DB!ClaimNextProcessingJob(j)
          /\ worker' = [worker EXCEPT ![w] = [Idle EXCEPT !.pc = "derive", !.job = j]]
  BY DEF Claim, CommitsAreHeard
<1> DEFINE new == [Idle EXCEPT !.pc = "derive", !.job = j]
<1>a. /\ worker \in [Worker -> WorkerState] /\ api \in [Request -> ApiState]
      /\ jobs \in [JobId -> Store!JobRow]
      /\ UNCHANGED <<bucket, staged, api>>
  BY JobRows DEF ServiceInv, TypeOK, Claim
<1>b. new \in WorkerState /\ new.pc = "derive" /\ new.job = j
  BY DEF Idle, WorkerState, WorkerPc
<1>2. DB!Next
  BY <1>1 DEF DB!Next
<1>c. /\ jobs[j].status = "queued" /\ jobs'[j].status = "running"
      /\ \A k \in JobId \ {j} : jobs'[k] = jobs[k]
  BY <1>1, <1>a DEF DB!ClaimNextProcessingJob, DB!NextInQueue, Store!JobRow
<1>d. worker'[w] = new /\ \A v \in Worker \ {w} : worker'[v] = worker[v]
  BY <1>1, <1>a
<1> HIDE DEF new
<1>e. \A v \in Worker : worker[v].pc # "idle" => worker[v].job \in JobId \ {j}
  BY <1>c DEF ServiceInv, WorkersAtWork, AtWork
<1>3. TypeOK'
  BY <1>1, <1>a, <1>b DEF ServiceInv, TypeOK, new
<1>4. WorkersAtWork'
  <2>1. AtWork(w)'
    BY <1>b, <1>c, <1>d DEF AtWork, HasObject, HasKey
  <2>2. ASSUME NEW v \in Worker \ {w} PROVE AtWork(v)'
    BY <1>c, <1>d, <1>e, OthersAtWork DEF Stays
  <2> QED BY <2>1, <2>2 DEF WorkersAtWork
<1>5. WorkersKeepApart'
  BY <1>b, <1>d, <1>e DEF ServiceInv, WorkersKeepApart, Holds
<1>6. FilesInHand'
  <2>1. \A r \in Request : api[r].files \subseteq JobId
    BY <1>a DEF ApiState
  <2> QED BY <1>a, <1>c, <2>1 DEF ServiceInv, FilesInHand
<1>7. UploadsKeepApart' /\ StagedWhileQueued'
  BY <1>a, <1>c DEF ServiceInv, UploadsKeepApart, StagedWhileQueued
<1> QED BY <1>2, <1>3, <1>4, <1>5, <1>6, <1>7, SameNext, StoreKeeps DEF ServiceInv

-----------------------------------------------------------------------------
(* The requests of the API. *)

LEMMA WorkersStay ==
    ASSUME ServiceInv, worker' = worker,
           \A j \in JobId : jobs[j].status \notin {"absent", "queued"} => Stays(j)
    PROVE  WorkersAtWork' /\ WorkersKeepApart'
<1>1. WorkersAtWork'
  BY OthersAtWork DEF ServiceInv, WorkersAtWork, AtWork
<1>2. WorkersKeepApart'
  BY DEF ServiceInv, WorkersKeepApart, Holds
<1> QED BY <1>1, <1>2

\* Requests other than r keep what they have; r is left with new.
LEMMA RequestMoves ==
    ASSUME ServiceInv, NEW r \in Request, NEW new \in ApiState,
           UNCHANGED <<dbVars, worker>>, bucket' \subseteq Key, staged' \subseteq JobId,
           api' = [api EXCEPT ![r] = new],
           new.pc \in {"idle", "purging"}, new.files = {},
           new.pc = "purging" => new.keys # <<>>,
           \A j \in JobId : j \in staged /\ j \notin staged' => j \in api[r].files,
           api[r].pc \in {"staged", "removing"} \/ staged' = staged
    PROVE  ServiceInv'
<1>a. /\ api \in [Request -> ApiState] /\ jobs' = jobs
      /\ api'[r] = new /\ \A q \in Request \ {r} : api'[q] = api[q]
      /\ \A q \in Request : api[q].files \subseteq JobId
  BY DEF ServiceInv, TypeOK, dbVars, ApiState
<1>1. TypeOK'
  BY <1>a DEF ServiceInv, TypeOK
<1>2. WorkersAtWork' /\ WorkersKeepApart'
  BY <1>a, WorkersStay DEF Stays
<1>3. \A j \in JobId : j \in staged /\ j \notin staged' =>
          \/ api[r].pc = "staged" /\ j \in api[r].files
          \/ jobs[j].status = "canceled"
  BY DEF ServiceInv, FilesInHand
<1>4. FilesInHand'
  <2>1. ASSUME NEW q \in Request \ {r}, api[q].pc = "staged", NEW j \in api[q].files
        PROVE  jobs[j].status = "absent" /\ j \in staged'
    BY <1>a, <1>3, <2>1 DEF ServiceInv, FilesInHand, UploadsKeepApart
  <2> QED BY <1>a, <2>1 DEF ServiceInv, FilesInHand
<1>5. UploadsKeepApart'
  BY <1>a DEF ServiceInv, UploadsKeepApart
<1>6. StagedWhileQueued'
  BY <1>a, <1>3 DEF ServiceInv, StagedWhileQueued, FilesInHand
<1> QED BY <1>1, <1>2, <1>4, <1>5, <1>6, StoreKeeps DEF ServiceInv

LEMMA RequestEnds == NoRequest \in ApiState /\ NoRequest.pc = "idle" /\ NoRequest.files = {}
BY DEF NoRequest, ApiState

LEMMA RequestStepsKeep ==
    ASSUME ServiceInv, NEW r \in Request,
           RejectUpload(r) \/ RemoveStaged(r) \/ PurgeKey(r) \/ CrashApi(r)
    PROVE  ServiceInv'
<1>a. /\ api \in [Request -> ApiState] /\ api[r] \in ApiState /\ api[r].keys \in Seq(Key)
      /\ bucket \subseteq Key /\ staged \subseteq JobId
  BY DEF ServiceInv, TypeOK, ApiState
<1>b. ASSUME NEW keys \in Seq(Key)
      PROVE  /\ Deleting({}, keys) \in ApiState
             /\ Deleting({}, keys).pc \in {"idle", "purging"} /\ Deleting({}, keys).files = {}
             /\ Deleting({}, keys).pc = "purging" => Deleting({}, keys).keys # <<>>
  BY DEF Deleting, ApiState
<1>1. CASE RejectUpload(r)
  BY <1>1, <1>a, RequestEnds, RequestMoves DEF RejectUpload
<1>2. CASE RemoveStaged(r)
  <2>1. api' = [api EXCEPT ![r] = Deleting({}, api[r].keys)]
    BY <1>2, <1>a DEF RemoveStaged
  <2> QED BY <1>2, <1>a, <1>b, <2>1, RequestMoves DEF RemoveStaged
<1>3. CASE PurgeKey(r)
  <2>1. api' = [api EXCEPT ![r] = Deleting({}, Tail(api[r].keys))]
    BY <1>3, <1>a DEF PurgeKey
  <2>2. api[r].keys # <<>>
    BY <1>3 DEF PurgeKey, ServiceInv, FilesInHand
  <2>3. Tail(api[r].keys) \in Seq(Key)
    BY <1>a, <2>2
  <2>4. bucket' \subseteq Key
    BY <1>3, <1>a DEF PurgeKey
  <2> QED BY <1>3, <1>a, <1>b, <2>1, <2>3, <2>4, RequestMoves DEF PurgeKey
<1>4. CASE CrashApi(r)
  BY <1>4, <1>a, RequestEnds, RequestMoves DEF CrashApi
<1> QED BY <1>1, <1>2, <1>3, <1>4

LEMMA StageServes ==
    ASSUME ServiceInv, NEW r \in Request, NEW j \in JobId, StageUpload(r, j)
    PROVE  ServiceInv'
<1> DEFINE new == [NoRequest EXCEPT !.pc = "staged", !.files = {j}]
<1>a. /\ api \in [Request -> ApiState] /\ jobs' = jobs
      /\ api' = [api EXCEPT ![r] = new] /\ staged' = staged \cup {j}
      /\ jobs[j].status = "absent" /\ \A q \in Request : j \notin api[q].files
      /\ UNCHANGED <<dbVars, bucket, worker>>
  BY DEF ServiceInv, TypeOK, dbVars, StageUpload, Fresh, DB!JobExists
<1>b. new \in ApiState /\ new.pc = "staged" /\ new.files = {j}
  <2>1. {j} \in SUBSET JobId
    OBVIOUS
  <2> QED BY <2>1, RequestEnds DEF ApiState
<1> HIDE DEF new
<1>1. TypeOK'
  BY <1>a, <1>b DEF ServiceInv, TypeOK
<1>2. WorkersAtWork' /\ WorkersKeepApart'
  BY <1>a, WorkersStay DEF Stays
<1>c. api'[r] = new /\ \A q \in Request \ {r} : api'[q] = api[q]
  BY <1>a
<1>3. FilesInHand' /\ UploadsKeepApart' /\ StagedWhileQueued'
  BY <1>a, <1>b, <1>c DEF ServiceInv, FilesInHand, UploadsKeepApart, StagedWhileQueued
<1> QED BY <1>a, <1>1, <1>2, <1>3, StoreKeeps DEF ServiceInv

LEMMA AcceptServes ==
    ASSUME ServiceInv, NEW r \in Request, NEW o \in Owner, NEW s \in Slug, AcceptUpload(r, o, s)
    PROVE  DB!Next /\ ServiceInv'
<1>a. /\ api \in [Request -> ApiState] /\ jobs \in [JobId -> Store!JobRow]
      /\ api[r].pc = "staged" /\ api[r].files \subseteq JobId
      /\ api' = [api EXCEPT ![r] = NoRequest]
      /\ UNCHANGED <<bucket, staged, worker>>
  BY JobRows DEF ServiceInv, TypeOK, ApiState, AcceptUpload
<1>1. PICK j \in api[r].files : DB!CreateIngestJob(j, o, s, UploadOf[j])
  BY DEF AcceptUpload
<1>2. DB!Next
  BY <1>a, <1>1, ProcessorAssumption DEF DB!Next
<1>b. /\ jobs[j].status = "absent" /\ jobs'[j].status = "queued" /\ j \in staged
      /\ \A k \in JobId \ {j} : jobs'[k] = jobs[k]
  BY <1>1, <1>a DEF DB!CreateIngestJob, DB!QueuedJob, ServiceInv, FilesInHand
<1>c. api'[r] = NoRequest /\ \A q \in Request \ {r} : api'[q] = api[q]
  BY <1>a
<1>3. TypeOK'
  BY <1>a, RequestEnds DEF ServiceInv, TypeOK
<1>4. WorkersAtWork' /\ WorkersKeepApart'
  BY <1>a, <1>b, WorkersStay DEF Stays
<1>5. FilesInHand'
  <2>1. ASSUME NEW q \in Request \ {r}, NEW k \in api[q].files, api[q].pc = "staged"
        PROVE  k \in JobId \ {j}
    BY <1>a, <2>1 DEF ServiceInv, TypeOK, ApiState, UploadsKeepApart
  <2>2. ASSUME NEW q \in Request \ {r}, NEW k \in api[q].files, api[q].pc = "removing"
        PROVE  k \in JobId \ {j}
    BY <1>b, <2>2 DEF ServiceInv, TypeOK, ApiState, FilesInHand
  <2> QED BY <1>a, <1>b, <1>c, <2>1, <2>2, RequestEnds DEF ServiceInv, FilesInHand
<1>6. UploadsKeepApart' /\ StagedWhileQueued'
  BY <1>a, <1>b, <1>c, RequestEnds DEF ServiceInv, UploadsKeepApart, StagedWhileQueued
<1> QED BY <1>2, <1>3, <1>4, <1>5, <1>6, SameNext, StoreKeeps DEF ServiceInv

\* What a deletion hands back are keys: an object that goes had one.
LEMMA FreedAreKeys ==
    ASSUME ServiceInv, NEW s \in Slug, DB!Live(s)
    PROVE  FreedKeys(s) \in Seq(Key)
<1> DEFINE x == aliases[s].object
<1>1. CASE ~DB!FreesObject(s)
  BY <1>1 DEF FreedKeys
<1>2. CASE DB!FreesObject(s)
  <2>1. x \in Sha
    BY <1>2 DEF ServiceInv, Store!IInv, Store!TypeOK, Store!AliasRow, DB!FreesObject
  <2>2. objects[x].status \in {"ready", "missing"}
    BY <1>2 DEF ServiceInv, Store!IInv, Store!LiveShareKeepsObject, DB!FreesObject,
                DB!Live, Store!Live, DB!Visible, Store!Visible, DB!IsRoot, Store!IsRoot
  <2>3. objects[x].ext \in Ext
    BY <2>1, <2>2 DEF ServiceInv, Store!ObjectsHaveKeys
  <2>4. <<x, objects[x].ext>> \in Key /\ ThumbKey(x) \in Key
    BY <2>1, <2>3, ProcessorAssumption DEF Key, ThumbKey
  <2> QED BY <1>2, <2>4 DEF FreedKeys
<1> QED BY <1>1, <1>2

LEMMA DeleteServes ==
    ASSUME ServiceInv, NEW r \in Request, NEW s \in Slug, NEW o \in Owner, DeleteShare(r, s, o)
    PROVE  DB!Next /\ ServiceInv'
<1> DEFINE new == Deleting(DB!CanceledBy(s, o), FreedKeys(s))
<1>a. /\ api \in [Request -> ApiState] /\ jobs \in [JobId -> Store!JobRow]
      /\ api' = [api EXCEPT ![r] = new]
      /\ DB!DeleteAlias(s, o) /\ UNCHANGED <<bucket, staged, worker>>
  BY JobRows DEF ServiceInv, TypeOK, DeleteShare
<1>1. DB!Next
  BY <1>a DEF DB!Next
<1>b. \A j \in JobId :
          jobs'[j] = IF j \in DB!CanceledBy(s, o)
                       THEN [jobs[j] EXCEPT !.status = "canceled"] ELSE jobs[j]
  BY <1>a DEF DB!DeleteAlias
<1>c. /\ DB!CanceledBy(s, o) \subseteq JobId
      /\ \A j \in DB!CanceledBy(s, o) : /\ jobs[j].status \in {"queued", "running"}
                                        /\ jobs'[j].status = "canceled"
  BY <1>a, <1>b DEF DB!CanceledBy, Store!JobRow
<1>d. new \in ApiState /\ new.pc \in {"idle", "removing", "purging"}
      /\ new.files = DB!CanceledBy(s, o) /\ (new.pc # "removing" => new.files = {})
  <2>1. FreedKeys(s) \in Seq(Key)
    BY <1>a, FreedAreKeys DEF DB!DeleteAlias, DB!OwnedCurrent, DB!Live
  <2> QED BY <1>c, <2>1 DEF Deleting, ApiState
<1>f. new.pc = "purging" => new.keys # <<>>
  BY DEF Deleting
<1> HIDE DEF new
<1>e. api'[r] = new /\ \A q \in Request \ {r} : api'[q] = api[q]
  BY <1>a
<1>2. TypeOK'
  BY <1>a, <1>d DEF ServiceInv, TypeOK
<1>3. WorkersAtWork' /\ WorkersKeepApart'
  BY <1>a, <1>b, <1>c, WorkersStay DEF Stays
<1>4. FilesInHand'
  <2>1. \A q \in Request : api[q].files \subseteq JobId
    BY <1>a DEF ApiState
  <2>2. \A j \in JobId : /\ jobs[j].status = "absent" => jobs'[j].status = "absent"
                         /\ jobs[j].status = "canceled" => jobs'[j].status = "canceled"
    BY <1>b, <1>c
  <2> QED BY <1>a, <1>c, <1>d, <1>e, <1>f, <2>1, <2>2 DEF ServiceInv, FilesInHand
<1>5. UploadsKeepApart'
  BY <1>a, <1>d, <1>e DEF ServiceInv, UploadsKeepApart
<1>6. StagedWhileQueued'
  BY <1>a, <1>b, <1>c DEF ServiceInv, StagedWhileQueued
<1> QED BY <1>1, <1>2, <1>3, <1>4, <1>5, <1>6, SameNext, StoreKeeps DEF ServiceInv

-----------------------------------------------------------------------------

\* Every step serves: it keeps the invariant, and to the tables it is a method of
\* the store or nothing.
LEMMA StepServes ==
    ASSUME CommitsAreHeard, ServiceInv, [Next]_vars
    PROVE  [DB!Next]_dbVars /\ ServiceInv'
<1>1. ASSUME NEW w \in Worker, WorkerStep(w) \/ WorkerFault(w)
      PROVE  [DB!Next]_dbVars /\ ServiceInv'
  <2>1. CASE FindDerivative(w)
    BY <2>1, FindDerivativeKeeps DEF FindDerivative
  <2>2. CASE Process(w)
    BY <2>2, ProcessKeeps DEF Process
  <2>3. CASE CheckBeforeHash(w) \/ CheckBeforeCommit(w)
    BY <2>3, ChecksKeep DEF CheckBeforeHash, CheckBeforeCommit, StatusCheck
  <2>4. CASE GetObject(w)
    BY <2>4, GetObjectKeeps DEF GetObject
  <2>5. CASE PutObject(w) \/ PutThumbnail(w)
    BY <2>5, PutObjectKeeps, PutThumbnailKeeps DEF PutObject, PutThumbnail
  <2>6. CASE PutFails(w) \/ UndoUpload(w)
    BY <2>6, PutFailsKeeps, UndoKeeps DEF PutFails, UndoUpload
  <2>7. CASE \/ FileGone(w) \/ HeadObject(w) \/ CompleteRefused(w) \/ RemoveStagedFile(w)
             \/ DatabaseError(w) \/ Stop(w) \/ CrashWorker(w)
    BY <2>7, LocalStepsKeep DEF FileGone, HeadObject, CompleteRefused, RemoveStagedFile,
                                DatabaseError, Stop, CrashWorker
  <2>8. CASE Claim(w) \/ MarkMissing(w) \/ Complete(w) \/ Fail(w)
    BY <2>8, ClaimServes, MarkServes, CompleteServes, FailServes
  <2> QED BY <1>1, <2>1, <2>2, <2>3, <2>4, <2>5, <2>6, <2>7, <2>8 DEF WorkerStep, WorkerFault
<1>2. ASSUME NEW r \in Request, ApiStep(r) \/ ApiFault(r)
      PROVE  [DB!Next]_dbVars /\ ServiceInv'
  <2>1. CASE RejectUpload(r) \/ RemoveStaged(r) \/ PurgeKey(r) \/ CrashApi(r)
    BY <2>1, RequestStepsKeep DEF RejectUpload, RemoveStaged, PurgeKey, CrashApi
  <2>2. ASSUME NEW o \in Owner, NEW s \in Slug, AcceptUpload(r, o, s)
        PROVE  [DB!Next]_dbVars /\ ServiceInv'
    BY <2>2, AcceptServes
  <2> QED BY <1>2, <2>1, <2>2 DEF ApiStep, ApiFault, AcceptUnheard, CommitsAreHeard
<1>3. ASSUME NEW r \in Request, NEW j \in JobId, StageUpload(r, j)
      PROVE  [DB!Next]_dbVars /\ ServiceInv'
  BY <1>3, StageServes DEF StageUpload
<1>4. ASSUME NEW r \in Request, NEW s \in Slug, NEW o \in Owner, DeleteShare(r, s, o)
      PROVE  [DB!Next]_dbVars /\ ServiceInv'
  BY <1>4, DeleteServes
<1>5. ASSUME NEW s \in Slug, NEW new \in Slug, NEW o \in Owner, RenameShare(s, o, new)
      PROVE  [DB!Next]_dbVars /\ ServiceInv'
  BY <1>5, RenameServes
<1>6. CASE UNCHANGED vars
  <2>1. UNCHANGED <<dbVars, bucket, staged, worker, api>> /\ jobs' = jobs
    BY <1>6 DEF vars, dbVars
  <2>2. TypeOK' /\ WorkersAtWork' /\ WorkersKeepApart'
    BY <2>1, WorkersStay DEF ServiceInv, TypeOK, Stays
  <2>3. FilesInHand' /\ UploadsKeepApart' /\ StagedWhileQueued'
    BY <2>1 DEF ServiceInv, FilesInHand, UploadsKeepApart, StagedWhileQueued
  <2> QED BY <2>1, <2>2, <2>3, StoreKeeps DEF ServiceInv
<1> QED BY <1>1, <1>2, <1>3, <1>4, <1>5, <1>6 DEF Next

-----------------------------------------------------------------------------
(* Theorems. *)

\* As long as a commit that took effect is known to have, every part of the
\* invariant holds in every behaviour of requests and workers.
THEOREM ServiceInvariance == ASSUME CommitsAreHeard PROVE Spec => []ServiceInv
<1>1. ServiceInv /\ [Next]_vars => ServiceInv'
  BY StepServes
<1> QED BY <1>1, InitServes, PTL DEF Spec

\* Requests and workers together use the store only as its methods allow, with
\* arguments of their types: what is proved of the tables holds in the service.
THEOREM ServiceUsesTheStore == ASSUME CommitsAreHeard PROVE Spec => StoreSpec
<1>1. Init => DB!Init
  BY DEF Init
<1>2. ServiceInv /\ [Next]_vars => [DB!Next]_(DB!vars)
  <2>1. DB!vars = dbVars
    BY DEF DB!vars, dbVars
  <2>2. ASSUME ServiceInv, [Next]_vars PROVE DB!Next \/ UNCHANGED DB!vars
    BY <2>2, StepServes DEF dbVars, DB!vars
  <2> QED BY <2>2
<1> QED BY <1>1, <1>2, ServiceInvariance, PTL DEF Spec, StoreSpec, DB!Spec

\* A queued job finds its file, whatever other requests and workers remove.
THEOREM QueuedJobsFindTheirFiles == ASSUME CommitsAreHeard PROVE Spec => []StagedWhileQueued
<1>1. ServiceInv => StagedWhileQueued
  BY DEF ServiceInv
<1> QED BY <1>1, ServiceInvariance, PTL

-----------------------------------------------------------------------------
(* What does not rest on hearing of commits. *)

\* A table of jobs, whatever its columns hold.
IsRow(row) == row = [status |-> row.status, owner |-> row.owner, alias |-> row.alias,
                     upload |-> row.upload, target |-> row.target, created |-> row.created]
JobTable == jobs = [j \in JobId |-> jobs[j]] /\ \A j \in JobId : IsRow(jobs[j])

\* A step leaves the table of jobs alone or is one of five methods.
JobsStep ==
    \/ UNCHANGED jobs
    \/ \E r \in Request : \E j \in api[r].files, o \in Owner, s \in Slug :
          DB!CreateIngestJob(j, o, s, UploadOf[j])
    \/ \E j \in JobId : DB!ClaimNextProcessingJob(j)
    \/ \E w \in Worker : DB!CompleteProcessingJob(worker[w].job, worker[w].object,
                                                  worker[w].ext, worker[w].thumb)
    \/ \E w \in Worker : DB!FailProcessingJob(worker[w].job)
    \/ \E s \in Slug, o \in Owner : DB!DeleteAlias(s, o)

FinishedStays == \A j \in JobId : jobs[j].status \in {"completed", "failed", "canceled"} =>
                                      jobs'[j] = jobs[j]

LEMMA StepOfJobs == ASSUME [Next]_vars PROVE JobsStep
<1>1. ASSUME NEW w \in Worker, WorkerStep(w) \/ WorkerFault(w) PROVE JobsStep
  <2>1. CASE Claim(w)
    BY <2>1 DEF Claim, JobsStep
  <2>2. CASE Complete(w)
    BY <2>2 DEF Complete, JobsStep
  <2>3. CASE Fail(w)
    BY <2>3 DEF Fail, JobsStep
  <2>4. CASE MarkMissing(w)
    BY <2>4 DEF MarkMissing, DB!MarkObjectUnavailable, JobsStep
  <2>5. CASE ~(Claim(w) \/ Complete(w) \/ Fail(w) \/ MarkMissing(w))
    BY <1>1, <2>5
       DEF WorkerStep, WorkerFault, FindDerivative, Process, FileGone, CheckBeforeHash,
           CheckBeforeCommit, StatusCheck, GetObject, HeadObject, PutObject, PutFails,
           PutThumbnail, UndoUpload, CompleteRefused, RemoveStagedFile, DatabaseError, Stop,
           CrashWorker, dbVars, JobsStep
  <2> QED BY <2>1, <2>2, <2>3, <2>4, <2>5
<1>2. ASSUME NEW r \in Request, ApiStep(r) \/ ApiFault(r) PROVE JobsStep
  BY <1>2 DEF ApiStep, ApiFault, AcceptUpload, AcceptUnheard, RejectUpload, RemoveStaged,
              PurgeKey, CrashApi, dbVars, JobsStep
<1>3. ASSUME NEW r \in Request, NEW j \in JobId, StageUpload(r, j) PROVE JobsStep
  BY <1>3 DEF StageUpload, dbVars, JobsStep
<1>4. ASSUME NEW r \in Request, NEW s \in Slug, NEW o \in Owner, DeleteShare(r, s, o)
      PROVE  JobsStep
  BY <1>4 DEF DeleteShare, JobsStep
<1>5. ASSUME NEW s \in Slug, NEW new \in Slug, NEW o \in Owner, RenameShare(s, o, new)
      PROVE  JobsStep
  BY <1>5 DEF RenameShare, DB!RenameAlias, JobsStep
<1>6. CASE UNCHANGED vars
  BY <1>6 DEF vars, dbVars, JobsStep
<1> QED BY <1>1, <1>2, <1>3, <1>4, <1>5, <1>6 DEF Next

\* One row changes, or its status does.
LEMMA FinishedRowStays ==
    ASSUME JobTable, JobsStep
    PROVE  JobTable' /\ FinishedStays
<1>a. /\ jobs = [j \in JobId |-> jobs[j]]
      /\ \A j \in JobId : IsRow(jobs[j])
  BY DEF JobTable
<1>b. ASSUME NEW row, IsRow(row), NEW status, NEW target, NEW new,
             \/ new = [row EXCEPT !.status = status]
             \/ new = [row EXCEPT !.status = status, !.target = target]
      PROVE  IsRow(new)
  BY <1>b DEF IsRow
<1>d. ASSUME NEW row, IsRow(row), NEW new, new = [row EXCEPT !.status = row.status]
      PROVE  new = row
  BY <1>d DEF IsRow
<1>c. ASSUME NEW j, NEW row, IsRow(row), jobs' = [jobs EXCEPT ![j] = row]
      PROVE  JobTable'
  BY <1>a, <1>c DEF JobTable
<1>1. CASE UNCHANGED jobs
  BY <1>1 DEF JobTable, FinishedStays
<1>2. ASSUME NEW j, NEW o \in Owner, NEW s \in Slug, DB!CreateIngestJob(j, o, s, UploadOf[j])
      PROVE  JobTable' /\ FinishedStays
  <2>1. jobs[j].status = "absent" /\ jobs' = [jobs EXCEPT ![j] = DB!QueuedJob(o, s, UploadOf[j])]
    BY <1>2 DEF DB!CreateIngestJob
  <2>2. FinishedStays
    BY <1>a, <2>1 DEF FinishedStays
  <2>3. IsRow(DB!QueuedJob(o, s, UploadOf[j]))
    BY DEF IsRow, DB!QueuedJob
  <2>4. JobTable'
    BY <1>c, <2>1, <2>3
  <2> QED BY <2>2, <2>4
<1>3. ASSUME NEW j \in JobId, DB!ClaimNextProcessingJob(j)
      PROVE  JobTable' /\ FinishedStays
  <2>1. jobs[j].status = "queued" /\ jobs' = [jobs EXCEPT ![j] = [jobs[j] EXCEPT !.status = "running"]]
    BY <1>3 DEF DB!ClaimNextProcessingJob, DB!NextInQueue
  <2>2. FinishedStays
    BY <1>a, <2>1 DEF FinishedStays
  <2>3. JobTable'
    BY <1>a, <1>b, <1>c, <2>1
  <2> QED BY <2>2, <2>3
<1>4. ASSUME NEW j, NEW x, NEW e, NEW thumb, DB!CompleteProcessingJob(j, x, e, thumb)
      PROVE  JobTable' /\ FinishedStays
  <2>1. /\ jobs[j].status = "running"
        /\ jobs' = [jobs EXCEPT ![j] = [jobs[j] EXCEPT !.status = "completed", !.target = x]]
    BY <1>4 DEF DB!CompleteProcessingJob, DB!Completable
  <2>2. FinishedStays
    BY <1>a, <2>1 DEF FinishedStays
  <2>3. JobTable'
    <3>1. CASE j \in JobId
      BY <1>a, <1>b, <1>c, <2>1, <3>1
    <3>2. CASE j \notin JobId
      BY <1>a, <2>1, <3>2 DEF JobTable
    <3> QED BY <3>1, <3>2
  <2> QED BY <2>2, <2>3
<1>5. ASSUME NEW j, DB!FailProcessingJob(j) PROVE JobTable' /\ FinishedStays
  <2>1. jobs' = [jobs EXCEPT ![j] = [jobs[j] EXCEPT !.status = DB!AfterFailure(jobs[j].status)]]
    BY <1>5 DEF DB!FailProcessingJob
  <2>2. ASSUME NEW k \in JobId, jobs[k].status \in {"completed", "failed", "canceled"}
        PROVE  jobs'[k] = jobs[k]
    <3>1. CASE k = j
      <4>1. DB!AfterFailure(jobs[j].status) = jobs[j].status
        BY <2>2, <3>1 DEF DB!AfterFailure
      <4>2. jobs'[k] = [jobs[k] EXCEPT !.status = jobs[k].status]
        BY <1>a, <2>1, <3>1, <4>1
      <4> QED BY <1>a, <1>d, <4>2
    <3>2. CASE k # j
      BY <1>a, <2>1, <3>2
    <3> QED BY <3>1, <3>2
  <2>3. JobTable'
    <3>1. CASE j \in JobId
      BY <1>a, <1>b, <1>c, <2>1, <3>1
    <3>2. CASE j \notin JobId
      BY <1>a, <2>1, <3>2 DEF JobTable
    <3> QED BY <3>1, <3>2
  <2> QED BY <2>2, <2>3 DEF FinishedStays
<1>6. ASSUME NEW s \in Slug, NEW o \in Owner, DB!DeleteAlias(s, o)
      PROVE  JobTable' /\ FinishedStays
  <2>1. jobs' = [j \in JobId |-> IF j \in DB!CanceledBy(s, o)
                                   THEN [jobs[j] EXCEPT !.status = "canceled"] ELSE jobs[j]]
    BY <1>6 DEF DB!DeleteAlias
  <2>2. \A j \in DB!CanceledBy(s, o) : jobs[j].status \in {"queued", "running"}
    BY DEF DB!CanceledBy
  <2>3. FinishedStays
    BY <1>a, <2>1, <2>2 DEF FinishedStays
  <2>4. JobTable'
    BY <1>a, <1>b, <2>1 DEF JobTable
  <2> QED BY <2>3, <2>4
<1> QED BY <1>1, <1>2, <1>3, <1>4, <1>5, <1>6 DEF JobsStep

\* How a job ended is not rewritten: not by a deletion, and not by a worker that
\* was told its completion had failed when it had not.
THEOREM FinishedJobsStayInService == Spec => FinishedJobsStay
<1>1. Init => JobTable
  BY DEF Init, DB!Init, DB!NoJob, JobTable, IsRow
<1>2. JobTable /\ [Next]_vars => JobTable' /\ [FinishedStays]_(DB!vars)
  BY StepOfJobs, FinishedRowStays
<1>3. Spec => [][FinishedStays]_(DB!vars)
  BY <1>1, <1>2, PTL DEF Spec
<1> QED BY <1>3 DEF FinishedStays, FinishedJobsStay, DB!FinishedJobsStay
-----------------------------------------------------------------------------
(* What is left behind: files and jobs that nobody takes care of. *)

\* A worker does something about the job it has: others are not concerned, and
\* it lets go of the job only after its clean-up, its report of a failure or a
\* fault; jobs other than its own stay as they are.
Onward(w) ==
    LET j == worker[w].job IN
    /\ worker[w].pc # "idle" /\ api' = api
    /\ staged' \in {staged, staged \ {j}}
    /\ \A v \in Worker \ {w} : worker'[v] = worker[v]
    /\ worker'[w].pc # "idle" => worker'[w].job = j
    /\ worker'[w].pc = "fail" => j \notin staged'
    /\ worker'[w].pc \in {"cleanup", "undo"} =>
           worker[w].pc = "undo" \/ jobs'[j].status # "running"
    /\ worker'[w].pc = "idle" =>
           \/ worker[w].pc = "cleanup" /\ j \notin staged' /\ jobs' = jobs
           \/ worker[w].pc = "fail" /\ jobs'[j].status # "running"
           \/ worker[w].pc = "fail" /\ "db" \in Faults
           \/ "stop" \in Faults /\ j \notin staged'
           \/ "crash" \in Faults
    /\ \A k \in JobId \ {j} : jobs'[k] = jobs[k]
    /\ jobs'[j].status = "running" => jobs[j].status = "running"

LEMMA WorkersGoOnward ==
    ASSUME CommitsAreHeard, ServiceInv, NEW w \in Worker,
           WorkerStep(w) \/ WorkerFault(w), ~Claim(w)
    PROVE  Onward(w)
<1> DEFINE j == worker[w].job
<1>a. worker \in [Worker -> WorkerState] /\ worker[w] \in WorkerState
  BY DEF ServiceInv, TypeOK
<1>b. /\ worker[w].pc # "idle" => j \in JobId
      /\ worker[w].pc \in Working => jobs[j].status \in {"running", "canceled"}
      /\ jobs \in [JobId -> Store!JobRow]
  BY JobRows DEF ServiceInv, WorkersAtWork, AtWork
<1>c. ASSUME NEW to, worker' = [worker EXCEPT ![w].pc = to]
      PROVE  /\ \A v \in Worker \ {w} : worker'[v] = worker[v]
             /\ worker'[w].pc = to /\ worker'[w].job = j
  BY <1>a, <1>c DEF WorkerState
<1>d. ASSUME NEW new, worker' = [worker EXCEPT ![w] = new]
      PROVE  /\ \A v \in Worker \ {w} : worker'[v] = worker[v]
             /\ worker'[w] = new
  BY <1>a, <1>d
<1>e. AtStart(w).pc = "process" /\ AtStart(w).job = j
  BY <1>a DEF AtStart, WorkerState
<1>f. NotReady(w).pc \in {"process", "put"} /\ NotReady(w).job = j
  BY <1>a, <1>e DEF NotReady, WorkerState
<1>1. CASE FileGone(w) \/ HeadObject(w) \/ UndoUpload(w) \/ PutFails(w) \/ CompleteRefused(w)
  <2>1. PICK to \in {"abort", "check", "mark", "cleanup"} :
            /\ worker' = [worker EXCEPT ![w].pc = to]
            /\ worker[w].pc # "idle"
            /\ to = "cleanup" => worker[w].pc = "undo"
    BY <1>1 DEF FileGone, HeadObject, UndoUpload, PutFails, CompleteRefused, Step
  <2>2. UNCHANGED <<dbVars, staged, api>>
    BY <1>1 DEF FileGone, HeadObject, UndoUpload, PutFails, CompleteRefused
  <2> QED BY <1>c, <2>1, <2>2 DEF Onward, dbVars
<1>2. CASE CheckBeforeHash(w) \/ CheckBeforeCommit(w)
  <2>1. PICK to \in {"get", "complete", "cleanup", "undo", "abort"} :
            /\ worker' = [worker EXCEPT ![w].pc = to]
            /\ worker[w].pc # "idle"
            /\ to \in {"cleanup", "undo"} => jobs[j].status # "running"
    BY <1>2 DEF CheckBeforeHash, CheckBeforeCommit, StatusCheck, Step
  <2>2. UNCHANGED <<dbVars, staged, api>>
    BY <1>2 DEF CheckBeforeHash, CheckBeforeCommit, StatusCheck
  <2> QED BY <1>c, <2>1, <2>2 DEF Onward, dbVars
<1>3. CASE FindDerivative(w) \/ Process(w)
  <2>1. /\ worker[w].pc \in {"derive", "process"} /\ UNCHANGED <<dbVars, staged, api>>
        /\ \A v \in Worker \ {w} : worker'[v] = worker[v]
        /\ worker'[w].pc \in {"get", "process", "precheck", "abort"}
        /\ worker'[w].job = j
    BY <1>3, <1>a DEF FindDerivative, Process, WorkerState
  <2> QED BY <2>1 DEF Onward, dbVars
<1>4. CASE GetObject(w)
  <2> DEFINE row == objects[worker[w].object]
             new == [worker[w] EXCEPT !.pc = "head", !.ext = row.ext, !.thumb = row.thumb]
  <2>1. new.pc = "head" /\ new.job = j
    BY <1>a DEF WorkerState
  <2>2. /\ worker[w].pc = "get" /\ UNCHANGED <<dbVars, staged, api>>
        /\ worker' = [worker EXCEPT ![w] = IF row.status = "ready" THEN new ELSE NotReady(w)]
    BY <1>4 DEF GetObject
  <2> HIDE DEF new
  <2> QED BY <1>d, <1>f, <2>1, <2>2 DEF Onward, dbVars
<1>5. CASE MarkMissing(w)
  <2>1. /\ worker[w].pc = "mark" /\ jobs' = jobs /\ UNCHANGED <<staged, api>>
        /\ worker' = [worker EXCEPT ![w] = NotReady(w)]
    BY <1>5 DEF MarkMissing, DB!MarkObjectUnavailable
  <2> QED BY <1>d, <1>f, <2>1 DEF Onward
<1>6. CASE PutObject(w)
  <2>1. PICK next \in {"check", "putThumb"} :
            worker' = [worker EXCEPT ![w] = [worker[w] EXCEPT !.pc = next, !.ext = FinalExt(w),
                                                              !.thumb = FALSE, !.uploaded = TRUE]]
    BY <1>6, <1>a DEF PutObject
  <2>2. worker'[w].pc = next /\ worker'[w].job = j
    BY <1>a, <2>1 DEF WorkerState
  <2>3. worker[w].pc = "put" /\ UNCHANGED <<dbVars, staged, api>>
    BY <1>6 DEF PutObject
  <2> QED BY <1>d, <2>1, <2>2, <2>3 DEF Onward, dbVars
<1>7. CASE PutThumbnail(w)
  <2>1. /\ worker[w].pc = "putThumb" /\ UNCHANGED <<dbVars, staged, api>>
        /\ \A v \in Worker \ {w} : worker'[v] = worker[v]
        /\ worker'[w].pc = "check" /\ worker'[w].job = j
    BY <1>7, <1>a DEF PutThumbnail, WorkerState
  <2> QED BY <2>1 DEF Onward, dbVars
<1>8. CASE Complete(w)
  <2>1. /\ worker[w].pc = "complete" /\ UNCHANGED <<staged, api>>
        /\ worker' = [worker EXCEPT ![w].pc = "cleanup"]
        /\ jobs[j].status = "running"
        /\ jobs' = [jobs EXCEPT ![j] = [jobs[j] EXCEPT !.status = "completed",
                                                       !.target = worker[w].object]]
    BY <1>8 DEF Complete, Step, CommitsAreHeard, DB!CompleteProcessingJob, DB!Completable
  <2>2. jobs'[j].status = "completed" /\ \A k \in JobId \ {j} : jobs'[k] = jobs[k]
    BY <1>b, <2>1 DEF Store!JobRow
  <2> QED BY <1>c, <2>1, <2>2 DEF Onward
<1>9. CASE RemoveStagedFile(w)
  <2>1. UNCHANGED <<dbVars, api>> /\ staged' = staged \ {j}
    BY <1>9 DEF RemoveStagedFile
  <2>2. CASE worker[w].pc = "cleanup" /\ worker' = [worker EXCEPT ![w] = Idle]
    BY <1>d, <2>1, <2>2 DEF Onward, dbVars, Idle
  <2>3. CASE worker[w].pc = "abort" /\ worker' = [worker EXCEPT ![w].pc = "fail"]
    BY <1>c, <2>1, <2>3 DEF Onward, dbVars
  <2> QED BY <1>9, <2>2, <2>3 DEF RemoveStagedFile, Step
<1>10. CASE Fail(w)
  <2>1. /\ worker[w].pc = "fail" /\ UNCHANGED <<staged, api>>
        /\ worker' = [worker EXCEPT ![w] = Idle]
        /\ jobs' = [jobs EXCEPT ![j].status = DB!AfterFailure(jobs[j].status)]
    BY <1>10, <1>b DEF Fail, DB!FailProcessingJob, Working, WorkerPc
  <2>2. jobs'[j].status # "running" /\ \A k \in JobId \ {j} : jobs'[k] = jobs[k]
    BY <1>b, <2>1 DEF Store!JobRow, DB!AfterFailure, Working, WorkerPc
  <2> QED BY <1>d, <2>1, <2>2 DEF Onward, Idle
<1>11. CASE DatabaseError(w)
  <2>1. "db" \in Faults /\ UNCHANGED <<dbVars, staged, api>>
    BY <1>11 DEF DatabaseError
  <2>2. CASE worker[w].pc = "fail" /\ worker' = [worker EXCEPT ![w] = Idle]
    <3>1. worker'[w].pc = "idle" /\ \A v \in Worker \ {w} : worker'[v] = worker[v]
      BY <1>d, <2>2 DEF Idle
    <3> QED BY <2>1, <2>2, <3>1 DEF Onward, dbVars
  <2>3. CASE worker[w].pc \notin {"idle", "fail"} /\ worker' = [worker EXCEPT ![w].pc = "abort"]
    BY <1>c, <2>1, <2>3 DEF Onward, dbVars
  <2> QED BY <1>11, <2>2, <2>3 DEF DatabaseError
<1>12. CASE Stop(w) \/ CrashWorker(w)
  BY <1>d, <1>12 DEF Stop, CrashWorker, Onward, dbVars, Idle
<1> QED
  BY <1>1, <1>2, <1>3, <1>4, <1>5, <1>6, <1>7, <1>8, <1>9, <1>10, <1>11, <1>12
     DEF WorkerStep, WorkerFault

\* What the other steps are: a claim, or one of a request, that leaves workers as
\* they are.
LEMMA StepIsOf ==
    ASSUME [Next]_vars
    PROVE  \/ \E w \in Worker : (WorkerStep(w) \/ WorkerFault(w)) /\ ~Claim(w)
           \/ \E w \in Worker : Claim(w)
           \/ \E r \in Request : ApiStep(r) \/ ApiFault(r)
           \/ \E r \in Request, j \in JobId : StageUpload(r, j)
           \/ \E r \in Request, s \in Slug, o \in Owner : DeleteShare(r, s, o)
           \/ \E s \in Slug, new \in Slug, o \in Owner : RenameShare(s, o, new)
           \/ UNCHANGED vars
BY DEF Next

\* A failure is reported after the file is removed, and an upload is one file.
RemovedBeforeFailing == \A w \in Worker : worker[w].pc = "fail" => worker[w].job \notin staged
OneFileEach == \A r \in Request : api[r].pc = "staged" => \A j, k \in api[r].files : j = k

TidyInv == NoStagedLeftovers /\ RemovedBeforeFailing /\ OneFileEach

NobodyDies == {"crash", "commit"} \cap Faults = {}

LEMMA OnwardIsTidy ==
    ASSUME NobodyDies, ServiceInv, TidyInv, NEW w \in Worker, Onward(w)
    PROVE  TidyInv'
<1> DEFINE j == worker[w].job
<1>a. /\ j \in JobId /\ jobs[j].status # "queued" /\ api' = api /\ staged \subseteq JobId
      /\ \A v \in Worker \ {w} : worker'[v] = worker[v]
      /\ staged' \in {staged, staged \ {j}}
  BY DEF ServiceInv, TypeOK, WorkersAtWork, AtWork, Onward
<1>1. worker'[w].pc = "idle" => j \notin staged'
  BY DEF Onward, NobodyDies, TidyInv, RemovedBeforeFailing
<1>2. NoStagedLeftovers'
  <2> SUFFICES ASSUME NEW k \in staged'
               PROVE  \/ jobs'[k].status = "queued"
                      \/ \E v \in Worker : worker'[v].pc # "idle" /\ worker'[v].job = k
                      \/ \E r \in Request : k \in api'[r].files
    BY DEF NoStagedLeftovers, Holds
  <2>1. CASE k = j
    BY <1>1, <2>1 DEF Onward
  <2>2. CASE k # j
    <3>1. k \in JobId /\ jobs'[k] = jobs[k] /\ k \in staged
      BY <1>a, <2>2 DEF Onward
    <3> QED BY <1>a, <2>2, <3>1 DEF TidyInv, NoStagedLeftovers, Holds
  <2> QED BY <2>1, <2>2
<1>3. RemovedBeforeFailing'
  BY <1>a DEF Onward, TidyInv, RemovedBeforeFailing
<1>4. OneFileEach'
  BY <1>a DEF TidyInv, OneFileEach
<1> QED BY <1>2, <1>3, <1>4 DEF TidyInv

LEMMA ClaimIsTidy ==
    ASSUME NobodyDies, ServiceInv, TidyInv, NEW w \in Worker, Claim(w)
    PROVE  TidyInv'
<1>1. PICK j \in JobId :
          /\ DB!ClaimNextProcessingJob(j)
          /\ worker' = [worker EXCEPT ![w] = [Idle EXCEPT !.pc = "derive", !.job = j]]
  BY DEF Claim, NobodyDies
<1>2. /\ worker \in [Worker -> WorkerState] /\ jobs \in [JobId -> Store!JobRow]
      /\ worker[w].pc = "idle" /\ UNCHANGED <<staged, api>> /\ staged \subseteq JobId
  BY JobRows DEF ServiceInv, TypeOK, Claim
<1>3. /\ worker'[w].pc = "derive" /\ worker'[w].job = j
      /\ \A v \in Worker \ {w} : worker'[v] = worker[v]
      /\ \A k \in JobId \ {j} : jobs'[k] = jobs[k]
  BY <1>1, <1>2 DEF Idle, DB!ClaimNextProcessingJob
<1> QED BY <1>2, <1>3
        DEF TidyInv, NoStagedLeftovers, Holds, RemovedBeforeFailing, OneFileEach

LEMMA RequestsAreTidy ==
    ASSUME NobodyDies, ServiceInv, TidyInv, NEW r \in Request, ApiStep(r) \/ ApiFault(r)
    PROVE  TidyInv'
<1>a. /\ api \in [Request -> ApiState] /\ staged \subseteq JobId
      /\ api[r].files \subseteq JobId /\ NoRequest.files = {} /\ NoRequest.pc = "idle"
      /\ jobs \in [JobId -> Store!JobRow]
  BY JobRows DEF ServiceInv, TypeOK, ApiState, NoRequest
\* The request is over, or goes on without files: none of its files stays that
\* is not waiting for its job now.
<1>1. ASSUME worker' = worker, staged' \subseteq staged, NEW new,
             api' = [api EXCEPT ![r] = new], new.files = {}, new.pc # "staged",
             \A j \in JobId : jobs[j].status = "queued" => jobs'[j].status = "queued",
             \A j \in api[r].files : j \in staged' => jobs'[j].status = "queued"
      PROVE  TidyInv'
  <2>1. api'[r] = new /\ \A q \in Request \ {r} : api'[q] = api[q]
    BY <1>a, <1>1
  <2>2. NoStagedLeftovers'
    BY <1>a, <1>1, <2>1 DEF TidyInv, NoStagedLeftovers, Holds
  <2>3. RemovedBeforeFailing' /\ OneFileEach'
    BY <1>1, <2>1 DEF TidyInv, RemovedBeforeFailing, OneFileEach
  <2> QED BY <2>2, <2>3 DEF TidyInv
<1>2. CASE RejectUpload(r)
  BY <1>1, <1>2, <1>a DEF RejectUpload, dbVars
<1>3. CASE RemoveStaged(r)
  <2>1. /\ api' = [api EXCEPT ![r] = Deleting({}, api[r].keys)]
        /\ staged' = staged \ api[r].files /\ jobs' = jobs /\ worker' = worker
    BY <1>3, <1>a DEF RemoveStaged, dbVars
  <2>2. Deleting({}, api[r].keys).files = {} /\ Deleting({}, api[r].keys).pc # "staged"
    BY DEF Deleting
  <2>3. staged' \subseteq staged /\ \A j \in api[r].files : j \notin staged'
    BY <2>1
  <2> QED BY <1>1, <2>1, <2>2, <2>3
<1>4. CASE PurgeKey(r)
  <2>1. /\ api' = [api EXCEPT ![r] = Deleting({}, Tail(api[r].keys))]
        /\ staged' = staged /\ jobs' = jobs /\ worker' = worker /\ api[r].files = {}
    BY <1>4, <1>a DEF PurgeKey, dbVars, ServiceInv, FilesInHand
  <2>2. /\ Deleting({}, Tail(api[r].keys)).files = {}
        /\ Deleting({}, Tail(api[r].keys)).pc # "staged"
    BY DEF Deleting
  <2> QED BY <1>1, <2>1, <2>2
<1>5. ASSUME NEW o \in Owner, NEW s \in Slug, AcceptUpload(r, o, s)
      PROVE  TidyInv'
  <2>1. PICK j \in api[r].files : DB!CreateIngestJob(j, o, s, UploadOf[j])
    BY <1>5 DEF AcceptUpload
  <2>2. /\ jobs'[j].status = "queued" /\ \A k \in JobId \ {j} : jobs'[k] = jobs[k]
    BY <2>1, <1>a DEF DB!CreateIngestJob, DB!QueuedJob
  <2>3. \A k \in api[r].files : k = j
    BY <1>5, <2>1 DEF AcceptUpload, TidyInv, OneFileEach
  <2> QED BY <1>1, <1>5, <1>a, <2>2, <2>3 DEF AcceptUpload
<1> QED BY <1>2, <1>3, <1>4, <1>5
        DEF ApiStep, ApiFault, AcceptUnheard, CrashApi, NobodyDies

LEMMA DeletionIsTidy ==
    ASSUME ServiceInv, TidyInv, NEW r \in Request, NEW s \in Slug, NEW o \in Owner,
           DeleteShare(r, s, o)
    PROVE  TidyInv'
<1> DEFINE new == Deleting(DB!CanceledBy(s, o), FreedKeys(s))
<1>1. /\ api \in [Request -> ApiState] /\ staged \subseteq JobId /\ api[r].files = {}
      /\ api' = [api EXCEPT ![r] = new] /\ UNCHANGED <<staged, worker>>
      /\ \A j \in JobId : j \notin DB!CanceledBy(s, o) => jobs'[j] = jobs[j]
  BY DEF ServiceInv, TypeOK, FilesInHand, DeleteShare, DB!DeleteAlias
<1>2. new.files = DB!CanceledBy(s, o) /\ new.pc # "staged"
  BY DEF Deleting
<1> HIDE DEF new
<1>3. api'[r] = new /\ \A q \in Request \ {r} : api'[q] = api[q]
  BY <1>1
<1>4. NoStagedLeftovers'
  BY <1>1, <1>2, <1>3 DEF TidyInv, NoStagedLeftovers, Holds
<1> QED BY <1>1, <1>2, <1>3, <1>4 DEF TidyInv, RemovedBeforeFailing, OneFileEach

LEMMA StagingIsTidy ==
    ASSUME ServiceInv, TidyInv, NEW r \in Request, NEW j \in JobId, StageUpload(r, j)
    PROVE  TidyInv'
<1> DEFINE new == [NoRequest EXCEPT !.pc = "staged", !.files = {j}]
<1>1. /\ api \in [Request -> ApiState] /\ staged' = staged \cup {j} /\ api[r].files = {}
      /\ api' = [api EXCEPT ![r] = new] /\ worker' = worker /\ jobs' = jobs
      /\ jobs[j].status = "absent"
  BY DEF ServiceInv, TypeOK, FilesInHand, StageUpload, dbVars, Fresh, DB!JobExists
<1>2. new.files = {j}
  BY DEF NoRequest
<1> HIDE DEF new
<1>3. api'[r] = new /\ \A q \in Request \ {r} : api'[q] = api[q]
  BY <1>1
<1>4. NoStagedLeftovers'
  BY <1>1, <1>2, <1>3 DEF TidyInv, NoStagedLeftovers, Holds
<1>5. RemovedBeforeFailing'
  BY <1>1 DEF TidyInv, RemovedBeforeFailing, ServiceInv, WorkersAtWork, AtWork
<1> QED BY <1>1, <1>2, <1>3, <1>4, <1>5 DEF TidyInv, OneFileEach

LEMMA StepsAreTidy ==
    ASSUME NobodyDies, ServiceInv, TidyInv, [Next]_vars
    PROVE  TidyInv'
<1>1. CommitsAreHeard
  BY DEF NobodyDies, CommitsAreHeard
<1>2. CASE \E w \in Worker : (WorkerStep(w) \/ WorkerFault(w)) /\ ~Claim(w)
  BY <1>1, <1>2, WorkersGoOnward, OnwardIsTidy
<1>3. CASE \E r \in Request : ApiStep(r) \/ ApiFault(r)
  BY <1>3, RequestsAreTidy
<1>4. CASE (\E s \in Slug, new \in Slug, o \in Owner : RenameShare(s, o, new)) \/ UNCHANGED vars
  <2>1. jobs' = jobs /\ UNCHANGED <<staged, worker, api>>
    BY <1>4 DEF RenameShare, DB!RenameAlias, vars, dbVars
  <2> QED BY <2>1 DEF TidyInv, NoStagedLeftovers, Holds, RemovedBeforeFailing, OneFileEach
<1> QED BY <1>2, <1>3, <1>4, StepIsOf, ClaimIsTidy, DeletionIsTidy, StagingIsTidy

\* As long as neither API nor processor dies between two steps, no file stays on
\* the staging volume that nobody will remove, whatever else fails: bucket,
\* database, or a processor that is told to stop.
THEOREM NothingIsLeftStaged == ASSUME NobodyDies PROVE Spec => []NoStagedLeftovers
<1>1. CommitsAreHeard
  BY DEF NobodyDies, CommitsAreHeard
<1>2. Init => TidyInv
  BY DEF Init, Idle, NoRequest, TidyInv, NoStagedLeftovers, RemovedBeforeFailing, OneFileEach
<1>3. ServiceInv /\ TidyInv /\ [Next]_vars => TidyInv'
  BY StepsAreTidy
<1>4. TidyInv => NoStagedLeftovers
  BY DEF TidyInv
<1> QED BY <1>1, <1>2, <1>3, <1>4, ServiceInvariance, PTL DEF Spec

\* A worker cleans up after a job that is over; only then, or after a report that
\* ends it, is the job out of its hands.
DoneBeforeCleanup ==
    \A w \in Worker : worker[w].pc \in {"cleanup", "undo"} => jobs[worker[w].job].status # "running"

HeldInv == RunningJobsAreHeld /\ DoneBeforeCleanup

CallsAnswer == {"crash", "stop", "db", "commit"} \cap Faults = {}

LEMMA OnwardHolds ==
    ASSUME CallsAnswer, ServiceInv, HeldInv, NEW w \in Worker, Onward(w)
    PROVE  HeldInv'
<1> DEFINE j == worker[w].job
<1>a. /\ j \in JobId /\ worker[w].pc # "idle"
      /\ \A v \in Worker \ {w} : worker'[v] = worker[v]
      /\ \A v \in Worker \ {w} : worker[v].pc # "idle" => worker[v].job \in JobId \ {j}
      /\ \A k \in JobId \ {j} : jobs'[k] = jobs[k]
  BY DEF ServiceInv, WorkersAtWork, AtWork, WorkersKeepApart, Holds, Onward
<1>1. worker'[w].pc = "idle" => jobs'[j].status # "running"
  BY DEF Onward, CallsAnswer, HeldInv, DoneBeforeCleanup
<1>2. RunningJobsAreHeld'
  <2> SUFFICES ASSUME NEW k \in JobId, jobs'[k].status = "running"
               PROVE  \E v \in Worker : worker'[v].pc # "idle" /\ worker'[v].job = k
    BY DEF RunningJobsAreHeld, Holds
  <2>1. CASE k = j
    BY <1>1, <2>1 DEF Onward
  <2>2. CASE k # j
    <3>1. PICK v \in Worker : worker[v].pc # "idle" /\ worker[v].job = k
      BY <1>a, <2>2 DEF HeldInv, RunningJobsAreHeld, Holds
    <3> QED BY <1>a, <2>2, <3>1
  <2> QED BY <2>1, <2>2
<1>3. DoneBeforeCleanup'
  <2>1. worker'[w].pc \in {"cleanup", "undo"} => /\ worker'[w].job = j
                                                 /\ jobs'[j].status # "running"
    BY DEF Onward, HeldInv, DoneBeforeCleanup
  <2>2. \A v \in Worker \ {w} : worker'[v].pc \in {"cleanup", "undo"} =>
            jobs'[worker'[v].job].status # "running"
    BY <1>a DEF HeldInv, DoneBeforeCleanup
  <2> QED BY <2>1, <2>2 DEF DoneBeforeCleanup
<1> QED BY <1>2, <1>3 DEF HeldInv

\* Requests take no job out of a worker's hands and set none running.
LEMMA RequestsHold ==
    ASSUME ServiceInv, HeldInv, worker' = worker,
           \A j \in JobId : jobs'[j].status = "running" => jobs[j].status = "running"
    PROVE  HeldInv'
BY DEF ServiceInv, WorkersAtWork, AtWork, HeldInv, RunningJobsAreHeld, Holds, DoneBeforeCleanup

LEMMA StepsHold ==
    ASSUME CallsAnswer, ServiceInv, HeldInv, [Next]_vars
    PROVE  HeldInv'
<1>a. CommitsAreHeard /\ jobs \in [JobId -> Store!JobRow]
  BY JobRows DEF CallsAnswer, CommitsAreHeard
<1>1. CASE \E w \in Worker : (WorkerStep(w) \/ WorkerFault(w)) /\ ~Claim(w)
  BY <1>a, <1>1, WorkersGoOnward, OnwardHolds
<1>2. ASSUME NEW w \in Worker, Claim(w) PROVE HeldInv'
  <2>1. PICK j \in JobId :
            /\ DB!ClaimNextProcessingJob(j)
            /\ worker' = [worker EXCEPT ![w] = [Idle EXCEPT !.pc = "derive", !.job = j]]
    BY <1>2 DEF Claim, CallsAnswer
  <2>2. worker \in [Worker -> WorkerState] /\ worker[w].pc = "idle" /\ jobs[j].status = "queued"
    BY <1>2, <2>1 DEF ServiceInv, TypeOK, Claim, DB!ClaimNextProcessingJob, DB!NextInQueue
  <2>3. /\ worker'[w].pc = "derive" /\ worker'[w].job = j
        /\ \A v \in Worker \ {w} : worker'[v] = worker[v]
        /\ \A k \in JobId \ {j} : jobs'[k] = jobs[k]
        /\ \A v \in Worker : worker[v].pc # "idle" => worker[v].job \in JobId \ {j}
    BY <1>a, <2>1, <2>2 DEF Idle, DB!ClaimNextProcessingJob, ServiceInv, WorkersAtWork, AtWork
  <2> QED BY <2>2, <2>3 DEF HeldInv, RunningJobsAreHeld, Holds, DoneBeforeCleanup
<1>3. ASSUME NEW r \in Request, ApiStep(r) \/ ApiFault(r) PROVE HeldInv'
  <2>1. ASSUME NEW o \in Owner, NEW s \in Slug, AcceptUpload(r, o, s) PROVE HeldInv'
    <3>1. PICK j \in api[r].files : DB!CreateIngestJob(j, o, s, UploadOf[j])
      BY <2>1 DEF AcceptUpload
    <3>2. \A k \in JobId : jobs'[k].status = "running" => jobs[k].status = "running"
      BY <1>a, <3>1 DEF DB!CreateIngestJob, DB!QueuedJob
    <3> QED BY <2>1, <3>2, RequestsHold DEF AcceptUpload
  <2>2. CASE RejectUpload(r) \/ RemoveStaged(r) \/ PurgeKey(r)
    BY <2>2, RequestsHold DEF RejectUpload, RemoveStaged, PurgeKey, dbVars
  <2> QED BY <1>3, <2>1, <2>2 DEF ApiStep, ApiFault, AcceptUnheard, CrashApi, CallsAnswer
<1>4. ASSUME NEW r \in Request, NEW s \in Slug, NEW o \in Owner, DeleteShare(r, s, o)
      PROVE  HeldInv'
  <2>1. \A k \in JobId : jobs'[k].status = "running" => jobs[k].status = "running"
    BY <1>4, <1>a DEF DeleteShare, DB!DeleteAlias, Store!JobRow
  <2> QED BY <1>4, <2>1, RequestsHold DEF DeleteShare
<1>5. CASE \/ \E r \in Request, j \in JobId : StageUpload(r, j)
           \/ \E s \in Slug, new \in Slug, o \in Owner : RenameShare(s, o, new)
           \/ UNCHANGED vars
  BY <1>5, RequestsHold DEF StageUpload, RenameShare, DB!RenameAlias, vars, dbVars
<1> QED BY <1>1, <1>2, <1>3, <1>4, <1>5, StepIsOf

\* As long as the database answers and the processor is neither stopped nor dies,
\* no job is left "running" with nobody to finish it, whatever the bucket does and
\* however often the share is renamed or deleted under the worker.
THEOREM RunningJobsStayHeld == ASSUME CallsAnswer PROVE Spec => []RunningJobsAreHeld
<1>1. CommitsAreHeard
  BY DEF CallsAnswer, CommitsAreHeard
<1>2. Init => HeldInv
  BY DEF Init, DB!Init, DB!NoJob, Idle, HeldInv, RunningJobsAreHeld, DoneBeforeCleanup
<1>3. ServiceInv /\ HeldInv /\ [Next]_vars => HeldInv'
  BY StepsHold
<1>4. HeldInv => RunningJobsAreHeld
  BY DEF HeldInv
<1> QED BY <1>1, <1>2, <1>3, <1>4, ServiceInvariance, PTL DEF Spec

-----------------------------------------------------------------------------
(* What holds under any faults, lost commits included: the tables keep their *)
(* types, and every worker has a claimed job of its own.                     *)

Tables ==
    /\ aliases \in [Slug -> Store!AliasRow] /\ jobs \in [JobId -> Store!JobRow]
    /\ objects \in [Sha -> Store!ObjectRow]
    /\ derivatives \in [Sha \X Store!Profile -> Sha \cup {Null}] /\ now \in Nat

\* The object of a share has a row and a key; a job carries the upload it was
\* made for.
RowsKnown ==
    /\ \A s \in Slug : aliases[s].object # Null => objects[aliases[s].object].status # "absent"
    /\ \A x \in Sha : objects[x].status # "absent" => objects[x].ext \in Ext
    /\ \A j \in JobId : jobs[j].status # "absent" => jobs[j].upload = UploadOf[j]

TablesInv == Tables /\ RowsKnown

\* A claimed job is never queued again.
ClaimedStays ==
    \A j \in JobId : jobs[j].status \notin {"absent", "queued"} =>
                         jobs'[j].status \notin {"absent", "queued"}

LEMMA CreateKeepsTables ==
    ASSUME TablesInv, NEW j \in JobId, NEW o \in Owner, NEW s \in Slug,
           DB!CreateIngestJob(j, o, s, UploadOf[j])
    PROVE  TablesInv' /\ ClaimedStays
<1>a. /\ jobs[j].status = "absent"
      /\ aliases' = [aliases EXCEPT ![s] = DB!PendingAlias(o)]
      /\ jobs' = [jobs EXCEPT ![j] = DB!QueuedJob(o, s, UploadOf[j])]
      /\ now' = now + 1 /\ UNCHANGED <<objects, derivatives>>
  BY DEF DB!CreateIngestJob
<1>b. /\ DB!PendingAlias(o) \in Store!AliasRow
      /\ DB!QueuedJob(o, s, UploadOf[j]) \in Store!JobRow
  BY ProcessorAssumption DEF DB!PendingAlias, DB!QueuedJob, TablesInv, Tables,
     Store!AliasRow, Store!JobRow, Store!Visibility, Store!AliasStatus, Store!JobStatus
<1>1. Tables'
  BY <1>a, <1>b DEF TablesInv, Tables
<1>2. RowsKnown'
  BY <1>a DEF TablesInv, Tables, RowsKnown, DB!PendingAlias, DB!QueuedJob
<1>3. ClaimedStays
  BY <1>a DEF TablesInv, Tables, ClaimedStays
<1> QED BY <1>1, <1>2, <1>3 DEF TablesInv

LEMMA ClaimKeepsTables ==
    ASSUME TablesInv, NEW j \in JobId, DB!ClaimNextProcessingJob(j)
    PROVE  TablesInv' /\ ClaimedStays
<1>a. /\ jobs[j].status = "queued" /\ jobs' = [jobs EXCEPT ![j].status = "running"]
      /\ UNCHANGED <<aliases, objects, derivatives, now>>
  BY DEF DB!ClaimNextProcessingJob, DB!NextInQueue
<1>1. Tables'
  BY <1>a DEF TablesInv, Tables, Store!JobRow, Store!JobStatus
<1>2. RowsKnown' /\ ClaimedStays
  BY <1>a DEF TablesInv, Tables, RowsKnown, ClaimedStays, Store!JobRow
<1> QED BY <1>1, <1>2 DEF TablesInv

LEMMA CompleteKeepsTables ==
    ASSUME TablesInv, NEW j \in JobId, NEW x \in Sha, NEW e \in Ext, NEW thumb \in BOOLEAN,
           DB!CompleteProcessingJob(j, x, e, thumb)
    PROVE  TablesInv' /\ ClaimedStays
<1> DEFINE object == [status |-> "ready", ext |-> e, thumb |-> thumb]
<1>1. PICK t \in Slug :
          aliases' = [aliases EXCEPT ![t] = [aliases[t] EXCEPT !.object = x, !.status = "ready"]]
  BY DEF DB!CompleteProcessingJob, TablesInv, Tables
<1>a. /\ objects' = [objects EXCEPT ![x] = object] /\ object \in Store!ObjectRow
      /\ object.status = "ready" /\ object.ext = e
      /\ derivatives' = [derivatives EXCEPT
                             ![<<jobs[j].upload.source, jobs[j].upload.profile>>] = x]
      /\ jobs' = [jobs EXCEPT ![j] = [jobs[j] EXCEPT !.status = "completed", !.target = x]]
      /\ now' = now /\ jobs[j].status = "running"
  BY DEF DB!CompleteProcessingJob, DB!Completable, Store!ObjectRow, Store!ObjectStatus
<1> HIDE DEF object
<1>2. Tables'
  <2>1. [aliases[t] EXCEPT !.object = x, !.status = "ready"] \in Store!AliasRow
    BY DEF TablesInv, Tables, Store!AliasRow, Store!AliasStatus
  <2>2. [jobs[j] EXCEPT !.status = "completed", !.target = x] \in Store!JobRow
    BY DEF TablesInv, Tables, Store!JobRow, Store!JobStatus
  <2> QED BY <1>1, <1>a, <2>1, <2>2 DEF TablesInv, Tables
<1>3. RowsKnown'
  <2>1. \A s \in Slug : aliases'[s].object \in {aliases[s].object, x}
    BY <1>1 DEF TablesInv, Tables, Store!AliasRow
  <2>2. \A y \in Sha : objects'[y] = IF y = x THEN object ELSE objects[y]
    BY <1>a DEF TablesInv, Tables
  <2>3. \A s \in Slug : aliases[s].object \in Sha \cup {Null}
    BY DEF TablesInv, Tables, Store!AliasRow
  <2>4. \A k \in JobId : jobs'[k].upload = jobs[k].upload
                         /\ (jobs[k].status = "absent" => jobs'[k].status = "absent")
    BY <1>a DEF TablesInv, Tables, Store!JobRow
  <2> QED BY <1>a, <2>1, <2>2, <2>3, <2>4 DEF TablesInv, RowsKnown
<1>4. ClaimedStays
  BY <1>a DEF TablesInv, Tables, ClaimedStays, Store!JobRow
<1> QED BY <1>2, <1>3, <1>4 DEF TablesInv

LEMMA FailKeepsTables ==
    ASSUME TablesInv, NEW j \in JobId, DB!FailProcessingJob(j)
    PROVE  TablesInv' /\ ClaimedStays
<1>a. /\ jobs' = [jobs EXCEPT ![j].status = DB!AfterFailure(jobs[j].status)]
      /\ aliases' = [s \in Slug |-> IF DB!Resolves(jobs[j].alias, s)
                                      THEN [aliases[s] EXCEPT !.status = "failed"]
                                      ELSE aliases[s]]
      /\ UNCHANGED <<objects, derivatives, now>> /\ jobs[j].status # "absent"
  BY DEF DB!FailProcessingJob
<1>b. /\ DB!AfterFailure(jobs[j].status) \in Store!JobStatus
      /\ jobs[j].status # "queued" => DB!AfterFailure(jobs[j].status) # "queued"
      /\ DB!AfterFailure(jobs[j].status) # "absent"
  BY <1>a DEF DB!AfterFailure, TablesInv, Tables, Store!JobRow, Store!JobStatus
<1>1. Tables'
  <2>1. aliases' \in [Slug -> Store!AliasRow]
    BY <1>a DEF TablesInv, Tables, Store!AliasRow, Store!AliasStatus
  <2>2. jobs' \in [JobId -> Store!JobRow]
    BY <1>a, <1>b DEF TablesInv, Tables, Store!JobRow
  <2> QED BY <1>a, <2>1, <2>2 DEF TablesInv, Tables
<1>2. RowsKnown' /\ ClaimedStays
  BY <1>a, <1>b DEF TablesInv, Tables, RowsKnown, ClaimedStays, Store!AliasRow, Store!JobRow
<1> QED BY <1>1, <1>2 DEF TablesInv

LEMMA RenameKeepsTables ==
    ASSUME TablesInv, NEW s \in Slug, NEW new \in Slug, NEW o \in Owner, DB!RenameAlias(s, o, new)
    PROVE  TablesInv' /\ ClaimedStays
<1>a. /\ aliases' = [t \in Slug |-> IF t = new THEN aliases[s]
                                    ELSE IF t \in DB!Family(s, o)
                                      THEN [aliases[t] EXCEPT !.redirectTo = new]
                                    ELSE aliases[t]]
      /\ UNCHANGED <<jobs, objects, derivatives, now>>
  BY DEF DB!RenameAlias, DB!RenamedRows
<1>1. Tables'
  BY <1>a DEF TablesInv, Tables, Store!AliasRow
<1>2. \A t \in Slug : aliases'[t].object \in {aliases[t].object, aliases[s].object}
  BY <1>a DEF TablesInv, Tables, Store!AliasRow
<1>3. RowsKnown' /\ ClaimedStays
  BY <1>a, <1>2 DEF TablesInv, RowsKnown, ClaimedStays
<1> QED BY <1>1, <1>3 DEF TablesInv

LEMMA DeleteKeepsTables ==
    ASSUME TablesInv, NEW s \in Slug, NEW o \in Owner, DB!DeleteAlias(s, o)
    PROVE  TablesInv' /\ ClaimedStays
<1>a. /\ aliases' = [t \in Slug |-> IF t \in DB!Family(s, o)
                                      THEN [aliases[t] EXCEPT !.visibility = "deleted"]
                                      ELSE aliases[t]]
      /\ jobs' = [j \in JobId |-> IF j \in DB!CanceledBy(s, o)
                                    THEN [jobs[j] EXCEPT !.status = "canceled"] ELSE jobs[j]]
      /\ objects' = [x \in Sha |-> IF DB!FreesObject(s) /\ x = aliases[s].object
                                     THEN [objects[x] EXCEPT !.status = "deleted"]
                                     ELSE objects[x]]
      /\ UNCHANGED <<derivatives, now>>
  BY DEF DB!DeleteAlias, DB!DeletedRows
<1>1. Tables'
  <2>1. aliases' \in [Slug -> Store!AliasRow]
    BY <1>a DEF TablesInv, Tables, Store!AliasRow, Store!Visibility
  <2>2. jobs' \in [JobId -> Store!JobRow]
    <3>1. \A j \in JobId : [jobs[j] EXCEPT !.status = "canceled"] \in Store!JobRow
      BY DEF TablesInv, Tables, Store!JobRow, Store!JobStatus
    <3> QED BY <1>a, <3>1 DEF TablesInv, Tables
  <2>3. objects' \in [Sha -> Store!ObjectRow]
    BY <1>a DEF TablesInv, Tables, Store!ObjectRow, Store!ObjectStatus
  <2> QED BY <1>a, <2>1, <2>2, <2>3 DEF TablesInv, Tables
<1>2. /\ \A t \in Slug : aliases'[t].object = aliases[t].object
      /\ \A t \in Slug : aliases[t].object \in Sha \cup {Null}
  BY <1>a DEF TablesInv, Tables, Store!AliasRow
<1>3. \A x \in Sha : /\ objects'[x].ext = objects[x].ext
                     /\ objects'[x].status # "absent" <=> objects[x].status # "absent"
  BY <1>a, <1>2 DEF TablesInv, Tables, RowsKnown, Store!ObjectRow, DB!FreesObject
<1>4. \A j \in JobId : /\ jobs'[j].upload = jobs[j].upload
                       /\ jobs[j].status = "absent" => jobs'[j].status = "absent"
                       /\ jobs'[j].status \in {jobs[j].status, "canceled"}
  BY <1>a DEF TablesInv, Tables, Store!JobRow, DB!CanceledBy
<1>5. RowsKnown' /\ ClaimedStays
  BY <1>2, <1>3, <1>4 DEF TablesInv, RowsKnown, ClaimedStays
<1> QED BY <1>1, <1>5 DEF TablesInv

LEMMA MarkKeepsTables ==
    ASSUME TablesInv, NEW x \in Sha, DB!MarkObjectUnavailable(x)
    PROVE  TablesInv' /\ ClaimedStays
<1>a. /\ objects' = [objects EXCEPT ![x].status = "missing"] /\ objects[x].status # "absent"
      /\ UNCHANGED <<aliases, jobs, derivatives, now>>
  BY DEF DB!MarkObjectUnavailable
<1>1. Tables'
  BY <1>a DEF TablesInv, Tables, Store!ObjectRow, Store!ObjectStatus
<1>2. \A y \in Sha : /\ objects'[y].ext = objects[y].ext
                     /\ objects'[y].status # "absent" <=> objects[y].status # "absent"
  BY <1>a DEF TablesInv, Tables, Store!ObjectRow
<1>3. \A t \in Slug : aliases[t].object \in Sha \cup {Null}
  BY DEF TablesInv, Tables, Store!AliasRow
<1>4. RowsKnown' /\ ClaimedStays
  BY <1>a, <1>2, <1>3 DEF TablesInv, RowsKnown, ClaimedStays
<1> QED BY <1>1, <1>4 DEF TablesInv

LEMMA NothingKeepsTables ==
    ASSUME TablesInv, UNCHANGED dbVars
    PROVE  TablesInv' /\ ClaimedStays
BY DEF dbVars, TablesInv, Tables, RowsKnown, ClaimedStays

\* While it is busy, a worker means to complete its job.
Busy == WorkerPc \ {"idle", "undo", "cleanup", "abort", "fail"}

InHand(w) ==
    /\ worker[w].pc # "idle" => /\ worker[w].job \in JobId
                                /\ jobs[worker[w].job].status \notin {"absent", "queued"}
    /\ worker[w].pc \in HasObject => worker[w].object \in Sha
    /\ worker[w].pc \in HasKey => worker[w].ext \in Ext

PurgesKeys == \A r \in Request : api[r].pc = "purging" => api[r].keys # <<>>

AnyFaultInv ==
    /\ TablesInv /\ TypeOK /\ WorkersKeepApart /\ PurgesKeys
    /\ \A w \in Worker : InHand(w)

\* How a worker goes on, with new, after a step that is no claim: the object is
\* the one it had, the result of its processing or that of an earlier job; the key
\* is the one it had, that of the bytes it just uploaded or that of a ready object.
MovesOn(w, new) ==
    LET me == worker[w]
        upload == jobs[me.job].upload
    IN
    /\ new \in WorkerState /\ me.pc # "idle"
    /\ new.pc # "idle" => new.job = me.job
    /\ new.pc \in Busy => me.pc \in Busy
    /\ new.pc = "undo" => me.pc \in Busy /\ jobs[me.job].status = "canceled"
    /\ me.pc = "complete" => new.pc \in {"cleanup", "abort", "idle"}
    /\ new.reuse => me.reuse \/ (me.pc = "derive" /\ DB!Derived(upload, new.object))
    /\ new.pc \in HasObject =>
           \/ me.pc \in HasObject /\ new.object = me.object
           \/ me.pc = "process" /\ new.object \in Results[upload]
           \/ me.pc = "derive" /\ DB!Derived(upload, new.object)
    /\ new.pc \in HasKey =>
           \/ /\ me.pc \in HasKey /\ new.ext = me.ext
              /\ new.thumb => me.thumb \/ ThumbKey(new.object) \in bucket'
           \/ me.pc = "put" /\ ~new.thumb /\ new.ext \in Ext /\ <<new.object, new.ext>> \in bucket'
           \/ me.pc = "get" /\ objects[me.object].status = "ready" /\ new.ext \in Ext

\* What it does meanwhile to the bucket and the tables.
Affects(w) ==
    LET me == worker[w] IN
    /\ api' = api /\ staged' \subseteq staged /\ bucket' \subseteq Key
    /\ bucket \subseteq bucket' \/ (me.pc = "undo" /\ bucket \ {<<me.object, me.ext>>} \subseteq bucket')
    /\ \/ UNCHANGED dbVars
       \/ me.pc = "complete" /\ DB!CompleteProcessingJob(me.job, me.object, me.ext, me.thumb)
       \/ me.pc = "fail" /\ DB!FailProcessingJob(me.job)
       \/ me.pc = "mark" /\ DB!MarkObjectUnavailable(me.object)

LEMMA InHandFacts ==
    ASSUME AnyFaultInv, NEW w \in Worker
    PROVE  /\ worker \in [Worker -> WorkerState] /\ worker[w] \in WorkerState
           /\ worker[w].pc # "idle" =>
                  /\ worker[w].job \in JobId
                  /\ jobs[worker[w].job].status \notin {"absent", "queued"}
                  /\ jobs[worker[w].job].upload = UploadOf[worker[w].job]
                  /\ jobs[worker[w].job].upload \in Upload
                  /\ FinalExt(w) \in Ext
           /\ worker[w].pc \in HasObject => worker[w].object \in Sha
           /\ worker[w].pc \in HasKey => worker[w].ext \in Ext
<1>1. /\ worker \in [Worker -> WorkerState] /\ InHand(w)
  BY DEF AnyFaultInv, TypeOK
<1>2. ASSUME worker[w].pc # "idle"
      PROVE  /\ jobs[worker[w].job].upload = UploadOf[worker[w].job]
             /\ jobs[worker[w].job].upload \in Upload
             /\ FinalExt(w) \in Ext
  <2>1. jobs[worker[w].job].upload = UploadOf[worker[w].job] /\ worker[w].job \in JobId
    BY <1>1, <1>2 DEF InHand, AnyFaultInv, TablesInv, RowsKnown
  <2>2. jobs[worker[w].job].upload \in Upload
    BY <2>1, ProcessorAssumption
  <2>3. jobs[worker[w].job].upload.ext \in Ext
    BY <2>2, StoreAssumed DEF Store!UploadAssumption
  <2> QED BY <2>1, <2>2, <2>3, ProcessorAssumption DEF FinalExt
<1> QED BY <1>1, <1>2 DEF InHand

LEMMA WorkersMoveOn ==
    ASSUME AnyFaultInv, NEW w \in Worker, WorkerStep(w) \/ WorkerFault(w), ~Claim(w)
    PROVE  \E new : worker' = [worker EXCEPT ![w] = new] /\ MovesOn(w, new)
<1> DEFINE me == worker[w]
           Moved == \E new : worker' = [worker EXCEPT ![w] = new] /\ MovesOn(w, new)
<1>a. /\ worker \in [Worker -> WorkerState] /\ me \in WorkerState
      /\ me.pc # "idle" => me.job \in JobId /\ jobs[me.job].upload \in Upload /\ FinalExt(w) \in Ext
      /\ me.pc \in HasObject => me.object \in Sha
      /\ me.pc \in HasKey => me.ext \in Ext
  BY InHandFacts
\* Most steps only change where it is.
<1>b. ASSUME NEW to \in WorkerPc, worker' = [worker EXCEPT ![w].pc = to], me.pc # "idle",
             to \in Busy => me.pc \in Busy,
             to \in HasObject => me.pc \in HasObject, to \in HasKey => me.pc \in HasKey,
             to = "undo" => me.pc \in Busy /\ jobs[me.job].status = "canceled",
             me.pc = "complete" => to \in {"cleanup", "abort"}
      PROVE  Moved
  <2> DEFINE new == [me EXCEPT !.pc = to]
  <2>1. worker' = [worker EXCEPT ![w] = new]
    BY <1>a, <1>b
  <2>2. /\ new \in WorkerState /\ new.pc = to /\ new.job = me.job /\ new.reuse = me.reuse
        /\ new.object = me.object /\ new.ext = me.ext /\ new.thumb = me.thumb
    BY <1>a DEF WorkerState
  <2> HIDE DEF new
  <2>3. MovesOn(w, new)
    BY <1>a, <1>b, <2>2 DEF MovesOn
  <2> QED BY <2>1, <2>3
<1>c. ASSUME worker' = [worker EXCEPT ![w] = Idle], me.pc # "idle" PROVE Moved
  <2>1. MovesOn(w, Idle)
    BY <1>c, IdleState DEF MovesOn, Idle, HasObject, HasKey, Busy
  <2> QED BY <1>c, <2>1
<1>d. /\ AtStart(w) \in WorkerState /\ AtStart(w).pc = "process" /\ AtStart(w).job = me.job
      /\ AtStart(w).reuse = FALSE
  BY <1>a DEF AtStart, WorkerState, WorkerPc
<1>e. ASSUME worker' = [worker EXCEPT ![w] = NotReady(w)], me.pc \in {"get", "mark"}
      PROVE  Moved
  <2>1. CASE me.reuse
    <3>1. MovesOn(w, AtStart(w))
      BY <1>d, <1>e DEF MovesOn, HasObject, HasKey, Busy, WorkerPc
    <3> QED BY <1>e, <2>1, <3>1 DEF NotReady
  <2>2. CASE ~me.reuse
    <3>1. worker' = [worker EXCEPT ![w].pc = "put"]
      BY <1>a, <1>e, <2>2 DEF NotReady
    <3> QED BY <1>b, <1>e, <3>1 DEF Busy, WorkerPc, HasObject, HasKey
  <2> QED BY <2>1, <2>2
<1>1. CASE \/ FileGone(w) \/ HeadObject(w) \/ UndoUpload(w) \/ PutFails(w) \/ CompleteRefused(w)
           \/ CheckBeforeHash(w) \/ CheckBeforeCommit(w)
  <2>1. PICK to \in {"abort", "check", "mark", "cleanup", "get", "complete", "undo"} :
            /\ worker' = [worker EXCEPT ![w].pc = to]
            /\ me.pc # "idle"
            /\ to = "check" => me.pc = "head"
            /\ to = "mark" => me.pc = "head"
            /\ to = "get" => me.pc = "precheck"
            /\ to = "complete" => me.pc = "check"
            /\ to = "undo" => me.pc = "check" /\ jobs[me.job].status = "canceled"
            /\ me.pc = "complete" => to = "abort"
    BY <1>1 DEF FileGone, HeadObject, UndoUpload, PutFails, CompleteRefused, CheckBeforeHash,
                CheckBeforeCommit, StatusCheck, Step
  <2> QED BY <1>b, <2>1 DEF Busy, WorkerPc, HasObject, HasKey
<1>2. CASE FindDerivative(w)
  <2>1. CASE worker' = [worker EXCEPT ![w].pc = "process"]
    BY <1>2, <1>b, <2>1 DEF FindDerivative, Busy, WorkerPc, HasObject, HasKey
  <2>2. ASSUME NEW x \in Sha, DB!Derived(jobs[me.job].upload, x),
               worker' = [worker EXCEPT ![w].pc = "get", ![w].reuse = TRUE, ![w].object = x]
        PROVE  Moved
    <3> DEFINE new == [me EXCEPT !.pc = "get", !.reuse = TRUE, !.object = x]
    <3>1. worker' = [worker EXCEPT ![w] = new]
      BY <1>a, <2>2
    <3>2. /\ new \in WorkerState /\ new.pc = "get" /\ new.job = me.job /\ new.reuse = TRUE
          /\ new.object = x
      BY <1>a DEF WorkerState, WorkerPc
    <3> HIDE DEF new
    <3>3. me.pc = "derive"
      BY <1>2 DEF FindDerivative
    <3>4. MovesOn(w, new)
      BY <2>2, <3>2, <3>3 DEF MovesOn, HasKey, Busy, WorkerPc
    <3> QED BY <3>1, <3>4
  <2> QED BY <1>2, <2>1, <2>2 DEF FindDerivative
<1>3. CASE Process(w)
  <2>1. CASE worker' = [worker EXCEPT ![w].pc = "abort"]
    BY <1>3, <1>b, <2>1 DEF Process, Busy, WorkerPc, HasObject, HasKey
  <2>2. ASSUME NEW x \in Results[jobs[me.job].upload],
               worker' = [worker EXCEPT ![w].pc = "precheck", ![w].object = x]
        PROVE  Moved
    <3> DEFINE new == [me EXCEPT !.pc = "precheck", !.object = x]
    <3>1. worker' = [worker EXCEPT ![w] = new]
      BY <1>a, <2>2
    <3>2. me.pc = "process"
      BY <1>3 DEF Process
    <3>3. x \in Sha
      BY <1>a, <3>2, ProcessorAssumption
    <3>4. /\ new \in WorkerState /\ new.pc = "precheck" /\ new.job = me.job
          /\ new.reuse = me.reuse /\ new.object = x
      BY <1>a, <3>3 DEF WorkerState, WorkerPc
    <3> HIDE DEF new
    <3>5. MovesOn(w, new)
      BY <2>2, <3>2, <3>4 DEF MovesOn, HasKey, Busy, WorkerPc
    <3> QED BY <3>1, <3>5
  <2> QED BY <1>3, <2>1, <2>2 DEF Process
<1>4. CASE GetObject(w)
  <2> DEFINE row == objects[me.object]
             new == [me EXCEPT !.pc = "head", !.ext = row.ext, !.thumb = row.thumb]
  <2>1. me.pc = "get" /\ me.object \in Sha
    BY <1>4, <1>a DEF GetObject, HasObject
  <2>2. CASE row.status # "ready"
    BY <1>4, <1>e, <2>1, <2>2 DEF GetObject
  <2>3. CASE row.status = "ready"
    <3>1. row.ext \in Ext /\ row.thumb \in BOOLEAN
      BY <2>1, <2>3 DEF AnyFaultInv, TablesInv, RowsKnown, Tables, Store!ObjectRow
    <3>2. worker' = [worker EXCEPT ![w] = new]
      BY <1>4, <2>3 DEF GetObject
    <3> HIDE DEF row
    <3>3. /\ new \in WorkerState /\ new.pc = "head" /\ new.job = me.job
          /\ new.reuse = me.reuse /\ new.object = me.object /\ new.ext = row.ext
      BY <1>a, <3>1 DEF WorkerState, WorkerPc
    <3> HIDE DEF new
    <3>4. MovesOn(w, new)
      BY <2>1, <2>3, <3>1, <3>3 DEF MovesOn, HasObject, Busy, WorkerPc, row
    <3> QED BY <3>2, <3>4
  <2> QED BY <2>2, <2>3
<1>5. CASE MarkMissing(w)
  BY <1>5, <1>e DEF MarkMissing
<1>6. CASE PutObject(w)
  <2>1. PICK next \in {"check", "putThumb"} :
            worker' = [worker EXCEPT ![w] = [me EXCEPT !.pc = next, !.ext = FinalExt(w),
                                                       !.thumb = FALSE, !.uploaded = TRUE]]
    BY <1>6, <1>a DEF PutObject
  <2> DEFINE new == [me EXCEPT !.pc = next, !.ext = FinalExt(w), !.thumb = FALSE,
                               !.uploaded = TRUE]
  <2>2. me.pc = "put" /\ bucket' = bucket \cup {<<me.object, FinalExt(w)>>}
    BY <1>6 DEF PutObject
  <2>3. next \in WorkerPc /\ FinalExt(w) \in Ext
    BY <1>a, <2>2 DEF WorkerPc
  <2>4. /\ new \in WorkerState /\ new.pc = next /\ new.job = me.job /\ new.reuse = me.reuse
        /\ new.object = me.object /\ new.ext = FinalExt(w) /\ new.thumb = FALSE
    BY <1>a, <2>3 DEF WorkerState
  <2>5. worker' = [worker EXCEPT ![w] = new]
    BY <2>1
  <2> HIDE DEF new
  <2>6. MovesOn(w, new)
    BY <2>2, <2>3, <2>4 DEF MovesOn, HasObject, Busy, WorkerPc
  <2> QED BY <2>5, <2>6
<1>7. CASE PutThumbnail(w)
  <2>1. CASE worker' = [worker EXCEPT ![w].pc = "check"]
    BY <1>7, <1>b, <2>1 DEF PutThumbnail, Busy, WorkerPc, HasObject, HasKey
  <2>2. ASSUME bucket' = bucket \cup {ThumbKey(me.object)},
               worker' = [worker EXCEPT ![w].pc = "check", ![w].thumb = TRUE]
        PROVE  Moved
    <3> DEFINE new == [me EXCEPT !.pc = "check", !.thumb = TRUE]
    <3>1. worker' = [worker EXCEPT ![w] = new]
      BY <1>a, <2>2
    <3>2. /\ new \in WorkerState /\ new.pc = "check" /\ new.job = me.job
          /\ new.reuse = me.reuse /\ new.object = me.object /\ new.ext = me.ext
      BY <1>a DEF WorkerState, WorkerPc
    <3>3. me.pc = "putThumb" /\ ThumbKey(new.object) \in bucket'
      BY <1>7, <2>2, <3>2 DEF PutThumbnail
    <3> HIDE DEF new
    <3>4. MovesOn(w, new)
      BY <3>2, <3>3 DEF MovesOn, HasObject, HasKey, Busy, WorkerPc
    <3> QED BY <3>1, <3>4
  <2> QED BY <1>7, <2>1, <2>2 DEF PutThumbnail
<1>8. CASE Complete(w)
  <2>1. PICK to \in {"cleanup", "abort"} :
            me.pc = "complete" /\ worker' = [worker EXCEPT ![w].pc = to]
    BY <1>8 DEF Complete, Step
  <2> QED BY <1>b, <2>1 DEF Busy, WorkerPc, HasObject, HasKey
<1>9. CASE RemoveStagedFile(w)
  <2>1. CASE me.pc = "cleanup" /\ worker' = [worker EXCEPT ![w] = Idle]
    BY <1>c, <2>1
  <2>2. CASE me.pc = "abort" /\ worker' = [worker EXCEPT ![w].pc = "fail"]
    BY <1>b, <2>2 DEF Busy, WorkerPc, HasObject, HasKey
  <2> QED BY <1>9, <2>1, <2>2 DEF RemoveStagedFile, Step
<1>10. CASE DatabaseError(w)
  <2>1. CASE me.pc = "fail" /\ worker' = [worker EXCEPT ![w] = Idle]
    BY <1>c, <2>1
  <2>2. CASE me.pc # "idle" /\ worker' = [worker EXCEPT ![w].pc = "abort"]
    BY <1>b, <2>2 DEF Busy, WorkerPc, HasObject, HasKey
  <2> QED BY <1>10, <2>1, <2>2 DEF DatabaseError
<1>11. CASE Fail(w) \/ Stop(w) \/ CrashWorker(w)
  <2>1. me.pc # "idle" /\ worker' = [worker EXCEPT ![w] = Idle]
    BY <1>11 DEF Fail, Stop, CrashWorker
  <2> QED BY <1>c, <2>1
<1> HIDE DEF Moved
<1> QED
  BY <1>1, <1>2, <1>3, <1>4, <1>5, <1>6, <1>7, <1>8, <1>9, <1>10, <1>11
     DEF WorkerStep, WorkerFault, Moved

LEMMA WorkersAffect ==
    ASSUME AnyFaultInv, NEW w \in Worker, WorkerStep(w) \/ WorkerFault(w), ~Claim(w)
    PROVE  Affects(w)
<1> DEFINE me == worker[w]
<1>a. /\ bucket \subseteq Key
      /\ me.pc # "idle" => FinalExt(w) \in Ext
      /\ me.pc \in HasObject => me.object \in Sha
      /\ me.pc \in HasKey => me.ext \in Ext
  BY InHandFacts DEF AnyFaultInv, TypeOK
<1>1. CASE PutObject(w) \/ PutFails(w)
  <2>1. me.pc = "put" /\ UNCHANGED <<dbVars, staged, api>>
        /\ bucket' \in {bucket, bucket \cup {<<me.object, FinalExt(w)>>}}
    BY <1>1 DEF PutObject, PutFails, Step
  <2>2. <<me.object, FinalExt(w)>> \in Key
    BY <1>a, <2>1 DEF Key, HasObject
  <2> QED BY <1>a, <2>1, <2>2 DEF Affects
<1>2. CASE PutThumbnail(w)
  <2>1. me.pc = "putThumb" /\ UNCHANGED <<dbVars, staged, api>>
        /\ bucket' \in {bucket, bucket \cup {ThumbKey(me.object)}}
    BY <1>2 DEF PutThumbnail
  <2>2. ThumbKey(me.object) \in Key
    BY <1>a, <2>1, ProcessorAssumption DEF Key, ThumbKey, HasObject
  <2> QED BY <1>a, <2>1, <2>2 DEF Affects
<1>3. CASE UndoUpload(w)
  BY <1>3, <1>a DEF UndoUpload, Step, Affects
<1>4. CASE Complete(w) \/ Fail(w) \/ MarkMissing(w)
  BY <1>4, <1>a DEF Complete, Step, Fail, MarkMissing, Affects
<1>5. CASE RemoveStagedFile(w) \/ Stop(w)
  BY <1>5, <1>a DEF RemoveStagedFile, Stop, Affects
<1>6. CASE \/ FindDerivative(w) \/ Process(w) \/ FileGone(w) \/ CheckBeforeHash(w)
           \/ GetObject(w) \/ HeadObject(w) \/ CheckBeforeCommit(w) \/ CompleteRefused(w)
           \/ DatabaseError(w) \/ CrashWorker(w)
  <2>1. UNCHANGED <<dbVars, bucket, staged, api>>
    BY <1>6 DEF FindDerivative, Process, FileGone, CheckBeforeHash, CheckBeforeCommit,
                StatusCheck, GetObject, HeadObject, CompleteRefused, DatabaseError, CrashWorker
  <2> QED BY <1>a, <2>1 DEF Affects
<1> QED BY <1>1, <1>2, <1>3, <1>4, <1>5, <1>6 DEF WorkerStep, WorkerFault

LEMMA WorkerKeepsHands ==
    ASSUME AnyFaultInv, NEW w \in Worker, WorkerStep(w) \/ WorkerFault(w), ~Claim(w)
    PROVE  AnyFaultInv'
<1>1. PICK new : worker' = [worker EXCEPT ![w] = new] /\ MovesOn(w, new)
  BY WorkersMoveOn
<1>2. Affects(w)
  BY WorkersAffect
<1>a. /\ worker \in [Worker -> WorkerState] /\ worker[w] \in WorkerState
      /\ worker[w].pc # "idle" => /\ worker[w].job \in JobId
                                  /\ jobs[worker[w].job].status \notin {"absent", "queued"}
                                  /\ jobs[worker[w].job].upload \in Upload
      /\ worker[w].pc \in HasObject => worker[w].object \in Sha
      /\ worker[w].pc \in HasKey => worker[w].ext \in Ext
  BY InHandFacts
<1>b. /\ new \in WorkerState /\ worker[w].pc # "idle"
      /\ new.pc # "idle" => new.job = worker[w].job
      /\ new.pc \in HasKey => new.ext \in Ext
  BY <1>1, <1>a DEF MovesOn
<1>c. new.pc \in HasObject => new.object \in Sha
  <2>1. Results[jobs[worker[w].job].upload] \subseteq Sha
    BY <1>a, <1>b, ProcessorAssumption
  <2>2. new.object # Null => new.object \in Sha
    BY <1>b DEF WorkerState
  <2> QED BY <1>1, <1>a, <2>1, <2>2 DEF MovesOn, DB!Derived
<1>d. worker'[w] = new /\ \A v \in Worker \ {w} : worker'[v] = worker[v]
  BY <1>1, <1>a
<1>3. TablesInv' /\ ClaimedStays
  <2>1. CASE UNCHANGED dbVars
    BY <2>1, NothingKeepsTables DEF AnyFaultInv
  <2>2. CASE /\ worker[w].pc = "complete"
             /\ DB!CompleteProcessingJob(worker[w].job, worker[w].object, worker[w].ext,
                                         worker[w].thumb)
    BY <1>a, <2>2, CompleteKeepsTables DEF AnyFaultInv, HasObject, HasKey, WorkerState
  <2>3. CASE worker[w].pc = "fail" /\ DB!FailProcessingJob(worker[w].job)
    BY <1>a, <2>3, FailKeepsTables DEF AnyFaultInv
  <2>4. CASE worker[w].pc = "mark" /\ DB!MarkObjectUnavailable(worker[w].object)
    BY <1>a, <2>4, MarkKeepsTables DEF AnyFaultInv, HasObject
  <2> QED BY <1>2, <2>1, <2>2, <2>3, <2>4 DEF Affects
<1>4. TypeOK'
  BY <1>1, <1>2, <1>b DEF AnyFaultInv, TypeOK, Affects
<1>5. InHand(w)'
  BY <1>3, <1>a, <1>b, <1>c, <1>d DEF InHand, ClaimedStays
<1>6. \A v \in Worker \ {w} : InHand(v)'
  BY <1>3, <1>d DEF AnyFaultInv, InHand, ClaimedStays
<1>7. WorkersKeepApart' /\ PurgesKeys'
  BY <1>2, <1>b, <1>d DEF AnyFaultInv, WorkersKeepApart, Holds, PurgesKeys, Affects
<1> QED BY <1>3, <1>4, <1>5, <1>6, <1>7 DEF AnyFaultInv

\* Nobody holds a queued job, so whoever claims it is alone with it; if the commit
\* of the claim is not heard of, nobody is.
LEMMA ClaimKeepsHands ==
    ASSUME AnyFaultInv, NEW w \in Worker, Claim(w)
    PROVE  AnyFaultInv'
<1>1. PICK j \in JobId :
          /\ DB!ClaimNextProcessingJob(j)
          /\ \/ worker' = [worker EXCEPT ![w] = [Idle EXCEPT !.pc = "derive", !.job = j]]
             \/ worker' = worker
  BY DEF Claim
<1>2. TablesInv' /\ ClaimedStays
  BY <1>1, ClaimKeepsTables DEF AnyFaultInv
<1>3. UNCHANGED <<bucket, staged, api>> /\ worker \in [Worker -> WorkerState]
  BY DEF Claim, AnyFaultInv, TypeOK
<1>4. CASE worker' = worker
  <2>1. \A v \in Worker : InHand(v)'
    BY <1>2, <1>4 DEF AnyFaultInv, InHand, ClaimedStays
  <2> QED BY <1>2, <1>3, <1>4, <2>1 DEF AnyFaultInv, TypeOK, WorkersKeepApart, Holds, PurgesKeys
<1>5. CASE worker' = [worker EXCEPT ![w] = [Idle EXCEPT !.pc = "derive", !.job = j]]
  <2> DEFINE new == [Idle EXCEPT !.pc = "derive", !.job = j]
  <2>1. new \in WorkerState /\ new.pc = "derive" /\ new.job = j
    BY DEF Idle, WorkerState, WorkerPc
  <2>2. jobs[j].status = "queued" /\ jobs'[j].status = "running"
    BY <1>1 DEF DB!ClaimNextProcessingJob, DB!NextInQueue, AnyFaultInv, TablesInv, Tables,
                Store!JobRow
  <2>3. worker'[w] = new /\ \A v \in Worker \ {w} : worker'[v] = worker[v]
    BY <1>3, <1>5
  <2> HIDE DEF new
  <2>4. TypeOK'
    BY <1>3, <1>5, <2>1 DEF AnyFaultInv, TypeOK, new
  <2>5. \A v \in Worker : worker[v].pc # "idle" => worker[v].job \in JobId \ {j}
    BY <2>2 DEF AnyFaultInv, InHand
  <2>6. WorkersKeepApart'
    BY <2>1, <2>3, <2>5 DEF AnyFaultInv, WorkersKeepApart, Holds
  <2>7. InHand(w)'
    BY <2>1, <2>2, <2>3 DEF InHand, HasObject, HasKey
  <2>8. \A v \in Worker \ {w} : InHand(v)'
    BY <1>2, <2>3 DEF AnyFaultInv, InHand, ClaimedStays
  <2> QED BY <1>2, <1>3, <2>4, <2>6, <2>7, <2>8 DEF AnyFaultInv, PurgesKeys
<1> QED BY <1>1, <1>4, <1>5

\* What a deletion hands back are keys: an object that goes has one.
LEMMA FreedHaveKeys ==
    ASSUME AnyFaultInv, NEW s \in Slug
    PROVE  FreedKeys(s) \in Seq(Key)
<1> DEFINE x == aliases[s].object
<1>1. CASE ~DB!FreesObject(s)
  BY <1>1 DEF FreedKeys
<1>2. CASE DB!FreesObject(s)
  <2>1. x \in Sha /\ objects[x].ext \in Ext
    BY <1>2 DEF AnyFaultInv, TablesInv, Tables, RowsKnown, Store!AliasRow, DB!FreesObject
  <2>2. <<x, objects[x].ext>> \in Key /\ ThumbKey(x) \in Key
    BY <2>1, ProcessorAssumption DEF Key, ThumbKey
  <2> QED BY <1>2, <2>2 DEF FreedKeys
<1> QED BY <1>1, <1>2

\* A request leaves the workers' jobs claimed; it goes on with new or is over.
LEMMA RequestKeepsHands ==
    ASSUME AnyFaultInv, TablesInv', ClaimedStays, worker' = worker,
           bucket' \subseteq Key, staged' \subseteq JobId,
           \/ api' = api
           \/ \E r \in Request, new \in ApiState :
                 api' = [api EXCEPT ![r] = new] /\ (new.pc = "purging" => new.keys # <<>>)
    PROVE  AnyFaultInv'
<1>1. TypeOK' /\ PurgesKeys'
  BY DEF AnyFaultInv, TypeOK, PurgesKeys
<1>2. WorkersKeepApart' /\ \A v \in Worker : InHand(v)'
  BY DEF AnyFaultInv, WorkersKeepApart, Holds, InHand, ClaimedStays
<1> QED BY <1>1, <1>2 DEF AnyFaultInv

LEMMA DeletingState ==
    ASSUME NEW files \in SUBSET JobId, NEW keys \in Seq(Key)
    PROVE  /\ Deleting(files, keys) \in ApiState
           /\ Deleting(files, keys).pc = "purging" => Deleting(files, keys).keys # <<>>
           /\ Deleting(files, keys).keys = keys
BY DEF Deleting, ApiState

LEMMA RequestsKeepHands ==
    ASSUME AnyFaultInv, NEW r \in Request, ApiStep(r) \/ ApiFault(r)
    PROVE  AnyFaultInv'
<1>a. /\ api \in [Request -> ApiState] /\ api[r].files \subseteq JobId
      /\ api[r].keys \in Seq(Key) /\ bucket \subseteq Key /\ staged \subseteq JobId
      /\ NoRequest \in ApiState /\ NoRequest.pc = "idle"
  BY RequestEnds DEF AnyFaultInv, TypeOK, ApiState
<1>b. UNCHANGED dbVars => TablesInv' /\ ClaimedStays
  BY NothingKeepsTables DEF AnyFaultInv
<1>c. ASSUME NEW keys \in Seq(Key), api' = [api EXCEPT ![r] = Deleting({}, keys)]
      PROVE  \E q \in Request, new \in ApiState :
                 api' = [api EXCEPT ![q] = new] /\ (new.pc = "purging" => new.keys # <<>>)
  <2>1. {} \in SUBSET JobId
    OBVIOUS
  <2> QED BY <1>c, <2>1, DeletingState
<1>1. CASE RejectUpload(r) \/ CrashApi(r)
  BY <1>1, <1>a, <1>b, RequestKeepsHands DEF RejectUpload, CrashApi
<1>2. CASE RemoveStaged(r)
  <2>1. api' = [api EXCEPT ![r] = Deleting({}, api[r].keys)]
    BY <1>2, <1>a DEF RemoveStaged
  <2> QED BY <1>2, <1>a, <1>b, <1>c, <2>1, RequestKeepsHands DEF RemoveStaged
<1>3. CASE PurgeKey(r)
  <2>1. api' = [api EXCEPT ![r] = Deleting({}, Tail(api[r].keys))]
    BY <1>3, <1>a DEF PurgeKey
  <2>2. Tail(api[r].keys) \in Seq(Key)
    BY <1>3, <1>a DEF PurgeKey, AnyFaultInv, PurgesKeys
  <2>3. bucket' \subseteq Key
    BY <1>3, <1>a DEF PurgeKey
  <2> QED BY <1>3, <1>a, <1>b, <1>c, <2>1, <2>2, <2>3, RequestKeepsHands DEF PurgeKey
<1>4. ASSUME NEW o \in Owner, NEW s \in Slug, AcceptUpload(r, o, s) \/ AcceptUnheard(r, o, s)
      PROVE  AnyFaultInv'
  <2>1. PICK j \in api[r].files : DB!CreateIngestJob(j, o, s, UploadOf[j])
    BY <1>4 DEF AcceptUpload, AcceptUnheard
  <2>2. TablesInv' /\ ClaimedStays
    BY <1>a, <2>1, CreateKeepsTables DEF AnyFaultInv
  <2> QED BY <1>4, <1>a, <2>2, RequestKeepsHands DEF AcceptUpload, AcceptUnheard
<1> QED BY <1>1, <1>2, <1>3, <1>4 DEF ApiStep, ApiFault

LEMMA StepsKeepHands == AnyFaultInv /\ [Next]_vars => AnyFaultInv'
<1> SUFFICES ASSUME AnyFaultInv, [Next]_vars PROVE AnyFaultInv'
  OBVIOUS
<1>a. /\ api \in [Request -> ApiState] /\ bucket \subseteq Key /\ staged \subseteq JobId
      /\ NoRequest \in ApiState
  BY RequestEnds DEF AnyFaultInv, TypeOK
<1>1. CASE \E r \in Request, j \in JobId : StageUpload(r, j)
  <2>1. PICK r \in Request, j \in JobId : StageUpload(r, j)
    BY <1>1
  <2> DEFINE new == [NoRequest EXCEPT !.pc = "staged", !.files = {j}]
  <2>2. new \in ApiState /\ new.pc = "staged"
    <3>1. {j} \in SUBSET JobId
      OBVIOUS
    <3> QED BY <3>1, <1>a DEF ApiState
  <2>3. api' = [api EXCEPT ![r] = new] /\ staged' \subseteq JobId
        /\ UNCHANGED <<dbVars, bucket, worker>>
    BY <1>a, <2>1 DEF StageUpload
  <2> HIDE DEF new
  <2>4. \E q \in Request, n \in ApiState :
            api' = [api EXCEPT ![q] = n] /\ (n.pc = "purging" => n.keys # <<>>)
    BY <2>2, <2>3
  <2> QED BY <1>a, <2>3, <2>4, NothingKeepsTables, RequestKeepsHands DEF AnyFaultInv
<1>2. CASE \E r \in Request, s \in Slug, o \in Owner : DeleteShare(r, s, o)
  <2>1. PICK r \in Request, s \in Slug, o \in Owner : DeleteShare(r, s, o)
    BY <1>2
  <2>2. /\ DB!CanceledBy(s, o) \in SUBSET JobId
        /\ api' = [api EXCEPT ![r] = Deleting(DB!CanceledBy(s, o), FreedKeys(s))]
        /\ DB!DeleteAlias(s, o) /\ UNCHANGED <<bucket, staged, worker>>
    BY <2>1 DEF DeleteShare, DB!CanceledBy
  <2> QED BY <1>a, <2>2, FreedHaveKeys, DeletingState, DeleteKeepsTables, RequestKeepsHands
          DEF AnyFaultInv
<1>3. CASE \E s \in Slug, new \in Slug, o \in Owner : RenameShare(s, o, new)
  BY <1>3, <1>a, RenameKeepsTables, RequestKeepsHands DEF RenameShare, AnyFaultInv
<1>4. CASE UNCHANGED vars
  BY <1>4, <1>a, NothingKeepsTables, RequestKeepsHands DEF vars, AnyFaultInv
<1> QED BY <1>1, <1>2, <1>3, <1>4, StepIsOf, WorkerKeepsHands, ClaimKeepsHands, RequestsKeepHands

LEMMA InitHasHands == Init => AnyFaultInv
<1> SUFFICES ASSUME Init PROVE AnyFaultInv
  OBVIOUS
<1>1. TablesInv
  BY StoreAssumed
     DEF Init, DB!Init, DB!NoAlias, DB!NoJob, DB!NoObject, DB!Profile, TablesInv, Tables,
         RowsKnown, Store!AliasRow, Store!JobRow, Store!ObjectRow, Store!Profile,
         Store!Visibility, Store!AliasStatus, Store!JobStatus, Store!ObjectStatus
<1>2. TypeOK
  BY DEF Init, TypeOK, WorkerState, WorkerPc, Idle, ApiState, NoRequest
<1>3. /\ WorkersKeepApart /\ PurgesKeys
      /\ \A w \in Worker : InHand(w)
  BY DEF Init, Idle, NoRequest, WorkersKeepApart, Holds, PurgesKeys, InHand, HasObject, HasKey
<1> QED BY <1>1, <1>2, <1>3 DEF AnyFaultInv

\* Whatever fails, and whatever commit goes unheard, what a worker or a deletion has
\* in hand is of its type, and what a worker has in hand is the job it claimed.
THEOREM HandsInvariance == Spec => []AnyFaultInv
BY InitHasHands, StepsKeepHands, PTL DEF Spec

\* Requests and workers only ever hold values of their types, and the keys that a
\* deletion purges are never empty, whatever fails and whatever is not heard of.
THEOREM ServiceTypesCorrect == Spec => []TypeOK
<1>1. AnyFaultInv => TypeOK
  BY DEF AnyFaultInv
<1> QED BY <1>1, HandsInvariance, PTL

\* No two workers process one job, whoever is stopped or crashes on the way and
\* whatever commit goes unheard: a claim takes a queued job, and none is ever queued
\* again.
THEOREM WorkersAlwaysKeepApart == Spec => []WorkersKeepApart
<1>1. AnyFaultInv => WorkersKeepApart
  BY DEF AnyFaultInv
<1> QED BY <1>1, HandsInvariance, PTL

-----------------------------------------------------------------------------
(* Ready shares have their bytes, under any faults, when no two uploads have *)
(* bytes in common.                                                          *)

DistinctContents ==
    \A j, k \in JobId : j # k =>
        /\ Results[UploadOf[j]] \cap Results[UploadOf[k]] = {}
        /\ UploadOf[j].source # UploadOf[k].source \/ UploadOf[j].profile # UploadOf[k].profile

CompletedWith(x) == \E j \in JobId : jobs[j].status = "completed" /\ x \in Results[UploadOf[j]]

\* Only a completed job leaves rows behind.
RowsAreOfCompleted ==
    /\ \A x \in Sha : objects[x].status # "absent" => CompletedWith(x)
    /\ \A y \in Sha, p \in Store!Profile : derivatives[<<y, p>>] # Null =>
           \E j \in JobId : /\ jobs[j].status = "completed"
                            /\ UploadOf[j].source = y /\ UploadOf[j].profile = p

\* The object of a worker is a result of its own job, which is not over, and the
\* bytes it will complete with, or take back, are in the bucket.
Own(w) ==
    LET me == worker[w] IN
    /\ me.pc \in Busy => jobs[me.job].status \in {"running", "canceled"}
    /\ me.pc = "undo" => jobs[me.job].status = "canceled"
    /\ ~me.reuse
    /\ me.pc \in HasObject => me.object \in Results[UploadOf[me.job]]
    /\ me.pc \in HasKey => /\ <<me.object, me.ext>> \in bucket
                           /\ me.thumb => ThumbKey(me.object) \in bucket

\* What a deletion purges was an object, and no ready share refers to it.
PurgesUnused ==
    \A r \in Request : \A i \in 1 .. Len(api[r].keys) :
        /\ objects[api[r].keys[i][1]].status # "absent"
        /\ ~Referenced(api[r].keys[i][1])

ReadyHaveObjects == \A s \in Slug : aliases[s].status = "ready" => aliases[s].object # Null

BytesInv ==
    /\ RowsAreOfCompleted /\ PurgesUnused /\ ReadyHaveObjects /\ ReadyShareHasBytes
    /\ \A w \in Worker : Own(w)

\* A ready share's object has a row.
LEMMA ReferencedHasRow ==
    ASSUME AnyFaultInv, ReadyHaveObjects, NEW x, Referenced(x)
    PROVE  x \in Sha /\ objects[x].status # "absent"
BY DEF AnyFaultInv, TablesInv, Tables, RowsKnown, ReadyHaveObjects, Referenced, ReadyShare,
       Store!AliasRow

\* The object that a worker has is no row's yet, and no other worker's.
LEMMA OwnObjectIsUnseen ==
    ASSUME DistinctContents, AnyFaultInv, BytesInv, NEW w \in Worker, worker[w].pc \in HasObject
    PROVE  /\ worker[w].object \in Sha /\ objects[worker[w].object].status = "absent"
           /\ \A v \in Worker \ {w} : worker[v].pc \in HasObject =>
                  worker[v].object # worker[w].object
<1>a. /\ worker[w].object \in Sha /\ worker[w].job \in JobId
      /\ worker[w].object \in Results[UploadOf[worker[w].job]]
      /\ jobs[worker[w].job].status # "completed"
  BY DEF AnyFaultInv, InHand, BytesInv, Own, HasObject, Busy, WorkerPc
<1>1. objects[worker[w].object].status = "absent"
  BY <1>a DEF BytesInv, RowsAreOfCompleted, CompletedWith, DistinctContents
<1>2. ASSUME NEW v \in Worker \ {w}, worker[v].pc \in HasObject
      PROVE  worker[v].object # worker[w].object
  <2>1. /\ worker[v].job \in JobId /\ worker[v].object \in Results[UploadOf[worker[v].job]]
        /\ worker[v].job # worker[w].job
    BY <1>2 DEF AnyFaultInv, InHand, BytesInv, Own, WorkersKeepApart, Holds, HasObject
  <2> QED BY <1>a, <2>1 DEF DistinctContents
<1> QED BY <1>a, <1>1, <1>2

\* No job with an upload of its own finds the result of an earlier one.
LEMMA NothingToReuse ==
    ASSUME DistinctContents, AnyFaultInv, BytesInv, NEW w \in Worker, worker[w].pc = "derive",
           NEW x
    PROVE  ~DB!Derived(jobs[worker[w].job].upload, x)
<1> DEFINE j == worker[w].job
<1>1. /\ j \in JobId /\ jobs[j].upload = UploadOf[j] /\ jobs[j].upload \in Upload
      /\ jobs[j].status # "completed"
  BY InHandFacts DEF BytesInv, Own, Busy, WorkerPc
<1>2. UploadOf[j].source \in Sha /\ UploadOf[j].profile \in Store!Profile
  BY <1>1, StoreAssumed DEF Store!UploadAssumption
<1> QED BY <1>1, <1>2 DEF DB!Derived, BytesInv, RowsAreOfCompleted, DistinctContents

\* A step that leads no ready share to an object it did not lead to before, and
\* changes no key.
KeepsReferences ==
    /\ \A x \in Sha : Referenced(x)' => Referenced(x)
    /\ \A x \in Sha : /\ objects'[x].ext = objects[x].ext /\ objects'[x].thumb = objects[x].thumb
                      /\ objects'[x].status # "absent" <=> objects[x].status # "absent"
    /\ derivatives' = derivatives
    /\ ReadyHaveObjects'

LEMMA NothingKeepsReferences ==
    ASSUME ReadyHaveObjects, aliases' = aliases, objects' = objects, derivatives' = derivatives
    PROVE  KeepsReferences
BY DEF KeepsReferences, Referenced, ReadyShare, DB!Live, DB!Visible, DB!IsRoot, ReadyHaveObjects

LEMMA CreateKeepsReferences ==
    ASSUME AnyFaultInv, ReadyHaveObjects, NEW j, NEW o, NEW s \in Slug, NEW u,
           DB!CreateIngestJob(j, o, s, u)
    PROVE  KeepsReferences
<1>1. /\ aliases' = [aliases EXCEPT ![s] = DB!PendingAlias(o)]
      /\ DB!PendingAlias(o).status = "pending" /\ UNCHANGED <<objects, derivatives>>
  BY DEF DB!CreateIngestJob, DB!PendingAlias
<1>2. /\ aliases'[s].status = "pending"
      /\ \A t \in Slug \ {s} : aliases'[t] = aliases[t]
  BY <1>1 DEF AnyFaultInv, TablesInv, Tables
<1> QED BY <1>1, <1>2
        DEF KeepsReferences, Referenced, ReadyShare, DB!Live, DB!Visible, DB!IsRoot,
            ReadyHaveObjects

LEMMA FailKeepsReferences ==
    ASSUME AnyFaultInv, ReadyHaveObjects, NEW j, DB!FailProcessingJob(j)
    PROVE  KeepsReferences
<1>1. /\ aliases' = [s \in Slug |-> IF DB!Resolves(jobs[j].alias, s)
                                      THEN [aliases[s] EXCEPT !.status = "failed"]
                                      ELSE aliases[s]]
      /\ UNCHANGED <<objects, derivatives>>
  BY DEF DB!FailProcessingJob
<1>2. \A s \in Slug : aliases'[s] = aliases[s] \/ aliases'[s].status = "failed"
  BY <1>1 DEF AnyFaultInv, TablesInv, Tables, Store!AliasRow
<1> QED BY <1>1, <1>2
        DEF KeepsReferences, Referenced, ReadyShare, DB!Live, DB!Visible, DB!IsRoot,
            ReadyHaveObjects

LEMMA RenameKeepsReferences ==
    ASSUME AnyFaultInv, ReadyHaveObjects, NEW s \in Slug, NEW new \in Slug, NEW o,
           DB!RenameAlias(s, o, new)
    PROVE  KeepsReferences
<1>1. /\ aliases' = [t \in Slug |-> IF t = new THEN aliases[s]
                                    ELSE IF t \in DB!Family(s, o)
                                      THEN [aliases[t] EXCEPT !.redirectTo = new]
                                    ELSE aliases[t]]
      /\ DB!Live(s) /\ UNCHANGED <<objects, derivatives>>
  BY DEF DB!RenameAlias, DB!RenamedRows, DB!OwnedCurrent, DB!Live
<1>2. ASSUME NEW t \in Slug
      PROVE  \/ aliases'[t] \in {aliases[s], aliases[t]}
             \/ /\ aliases'[t].redirectTo # Null
                /\ aliases'[t].status = aliases[t].status
                /\ aliases'[t].object = aliases[t].object
  <2>1. new # Null
    BY StoreAssumed DEF Store!NullAssumption
  <2>2. aliases[t] \in Store!AliasRow
    BY DEF AnyFaultInv, TablesInv, Tables
  <2>3. CASE t # new /\ t \in DB!Family(s, o)
    <3>1. aliases'[t] = [aliases[t] EXCEPT !.redirectTo = new]
      BY <1>1, <2>3
    <3> QED BY <2>1, <2>2, <3>1 DEF Store!AliasRow
  <2>4. CASE ~(t # new /\ t \in DB!Family(s, o))
    BY <1>1, <2>4
  <2> QED BY <2>3, <2>4
<1>3. ASSUME NEW x \in Sha, Referenced(x)' PROVE Referenced(x)
  <2>1. PICK t \in Slug : /\ aliases'[t].visibility = "public" /\ aliases'[t].redirectTo = Null
                          /\ aliases'[t].status = "ready" /\ aliases'[t].object = x
    BY <1>3 DEF Referenced, ReadyShare, DB!Live, DB!Visible, DB!IsRoot
  <2>2. aliases'[t] \in {aliases[s], aliases[t]}
    BY <1>2, <2>1
  <2> QED BY <2>1, <2>2 DEF Referenced, ReadyShare, DB!Live, DB!Visible, DB!IsRoot
<1>4. ReadyHaveObjects'
  BY <1>2 DEF ReadyHaveObjects
<1> QED BY <1>1, <1>3, <1>4 DEF KeepsReferences

LEMMA DeleteKeepsReferences ==
    ASSUME AnyFaultInv, ReadyHaveObjects, NEW s \in Slug, NEW o, DB!DeleteAlias(s, o)
    PROVE  /\ KeepsReferences
           /\ DB!FreesObject(s) => \A y \in Sha : y = aliases[s].object => ~Referenced(y)'
<1>1. /\ aliases' = [t \in Slug |-> IF t \in DB!Family(s, o)
                                      THEN [aliases[t] EXCEPT !.visibility = "deleted"]
                                      ELSE aliases[t]]
      /\ objects' = [x \in Sha |-> IF DB!FreesObject(s) /\ x = aliases[s].object
                                     THEN [objects[x] EXCEPT !.status = "deleted"]
                                     ELSE objects[x]]
      /\ derivatives' = derivatives /\ s \in DB!Family(s, o)
  BY DEF DB!DeleteAlias, DB!DeletedRows, DB!OwnedCurrent, DB!Family, DB!Visible
<1>2. /\ \A t \in Slug : /\ aliases'[t].object = aliases[t].object
                         /\ aliases'[t].status = aliases[t].status
                         /\ aliases'[t].redirectTo = aliases[t].redirectTo
                         /\ aliases'[t].visibility \in {aliases[t].visibility, "deleted"}
      /\ aliases'[s].visibility = "deleted"
  BY <1>1 DEF AnyFaultInv, TablesInv, Tables, Store!AliasRow
<1>3. \A x \in Sha : /\ objects'[x].ext = objects[x].ext /\ objects'[x].thumb = objects[x].thumb
                     /\ objects'[x].status # "absent" <=> objects[x].status # "absent"
  BY <1>1 DEF AnyFaultInv, TablesInv, Tables, RowsKnown, Store!ObjectRow, DB!FreesObject
<1>4. KeepsReferences
  BY <1>1, <1>2, <1>3 DEF KeepsReferences, Referenced, ReadyShare, DB!Live, DB!Visible,
                          DB!IsRoot, ReadyHaveObjects
<1>5. ASSUME DB!FreesObject(s), NEW t \in Slug, aliases'[t].visibility = "public",
             aliases'[t].redirectTo = Null, aliases'[t].object = aliases[s].object
      PROVE  FALSE
  BY <1>2, <1>5 DEF DB!FreesObject, DB!OtherReferences, DB!Visible, DB!IsRoot
<1>6. DB!FreesObject(s) => ~\E t \in Slug : /\ aliases'[t].visibility = "public"
                                            /\ aliases'[t].redirectTo = Null
                                            /\ aliases'[t].object = aliases[s].object
  BY <1>5
<1>7. ASSUME DB!FreesObject(s), NEW y \in Sha, y = aliases[s].object PROVE ~Referenced(y)'
  BY <1>2, <1>6, <1>7 DEF Referenced, ReadyShare, DB!Live, DB!Visible, DB!IsRoot
<1> QED BY <1>4, <1>7

\* A job in progress goes on, or is canceled.
GoesOn(j) == /\ jobs[j].status = "running" => jobs'[j].status \in {"running", "canceled"}
             /\ jobs[j].status = "canceled" => jobs'[j].status = "canceled"

LEMMA OthersStayOwn ==
    ASSUME NEW v \in Worker, Own(v), worker'[v] = worker[v],
           worker[v].pc # "idle" => GoesOn(worker[v].job),
           worker[v].pc \in HasKey =>
               \A e \in Ext : <<worker[v].object, e>> \in bucket => <<worker[v].object, e>> \in bucket',
           worker[v].pc \in HasKey => worker[v].ext \in Ext
    PROVE  Own(v)'
<1>1. worker[v].pc \in Busy \cup {"undo"} => worker[v].pc # "idle"
  BY DEF Busy
<1>2. ThumbExt \in Ext
  BY ProcessorAssumption
<1> QED BY <1>1, <1>2 DEF Own, GoesOn, ThumbKey

\* The parts about rows and shares, in a step that keeps references: keys may leave
\* the bucket that no ready share needs.
LEMMA RowsAndSharesKept ==
    ASSUME AnyFaultInv, AnyFaultInv', BytesInv, KeepsReferences, FinishedStays,
           \A x \in Sha, e \in Ext : Referenced(x) /\ <<x, e>> \in bucket => <<x, e>> \in bucket'
    PROVE  RowsAreOfCompleted' /\ ReadyHaveObjects' /\ ReadyShareHasBytes'
<1>1. \A j \in JobId : jobs[j].status = "completed" => jobs'[j].status = "completed"
  BY DEF FinishedStays
<1>2. RowsAreOfCompleted'
  BY <1>1 DEF BytesInv, RowsAreOfCompleted, CompletedWith, KeepsReferences
<1>3. ReadyShareHasBytes'
  <2> SUFFICES ASSUME NEW s \in Slug, ReadyShare(s)'
               PROVE  Stored(aliases[s].object)'
    BY DEF ReadyShareHasBytes
  <2>1. PICK x \in Sha : x = aliases'[s].object
    BY DEF KeepsReferences, ReadyHaveObjects, ReadyShare, AnyFaultInv, TablesInv, Tables,
           Store!AliasRow
  <2>2. Referenced(x)
    BY <2>1 DEF Referenced, KeepsReferences
  <2>3. Stored(x) /\ objects[x].ext \in Ext
    BY <2>1, <2>2, ReferencedHasRow
       DEF BytesInv, ReadyShareHasBytes, Referenced, AnyFaultInv, TablesInv, RowsKnown
  <2>4. objects'[x].ext = objects[x].ext /\ objects'[x].thumb = objects[x].thumb
    BY <2>1 DEF KeepsReferences
  <2>5. Stored(x)'
    BY <2>1, <2>2, <2>3, <2>4, ProcessorAssumption DEF Stored, ThumbKey
  <2> QED BY <2>1, <2>5 DEF Stored, ThumbKey
<1> QED BY <1>2, <1>3 DEF KeepsReferences

LEMMA FinishedStay ==
    ASSUME AnyFaultInv, [Next]_vars
    PROVE  FinishedStays
<1>1. jobs \in [JobId -> Store!JobRow]
  BY DEF AnyFaultInv, TablesInv, Tables
<1>2. \A j \in JobId : IsRow(jobs[j])
  BY <1>1 DEF Store!JobRow, IsRow
<1>3. JobTable
  BY <1>1, <1>2 DEF JobTable
<1> QED BY <1>3, StepOfJobs, FinishedRowStays

\* The object of a completion had no row: no other share is led to it, and what the
\* worker uploaded is what the row then says.
LEMMA CompletionKeepsBytes ==
    ASSUME DistinctContents, AnyFaultInv, AnyFaultInv', BytesInv, FinishedStays,
           NEW w \in Worker, worker[w].pc = "complete", bucket \subseteq bucket',
           DB!CompleteProcessingJob(worker[w].job, worker[w].object, worker[w].ext, worker[w].thumb)
    PROVE  /\ RowsAreOfCompleted' /\ ReadyHaveObjects' /\ ReadyShareHasBytes'
           /\ \A y \in Sha \ {worker[w].object} :
                  /\ objects'[y] = objects[y]
                  /\ Referenced(y)' => Referenced(y)
<1> DEFINE j == worker[w].job
           x == worker[w].object
           e == worker[w].ext
           th == worker[w].thumb
<1>a. /\ j \in JobId /\ x \in Sha /\ e \in Ext /\ th \in BOOLEAN
      /\ jobs[j].upload = UploadOf[j] /\ x \in Results[UploadOf[j]]
      /\ <<x, e>> \in bucket /\ (th => ThumbKey(x) \in bucket)
      /\ objects[x].status = "absent"
  BY InHandFacts, OwnObjectIsUnseen DEF BytesInv, Own, HasObject, HasKey, WorkerState
<1>b. /\ jobs \in [JobId -> Store!JobRow] /\ objects \in [Sha -> Store!ObjectRow]
      /\ aliases \in [Slug -> Store!AliasRow]
      /\ derivatives \in [Sha \X Store!Profile -> Sha \cup {Null}]
  BY DEF AnyFaultInv, TablesInv, Tables
<1>1. PICK t \in Slug :
          aliases' = [aliases EXCEPT ![t] = [aliases[t] EXCEPT !.object = x, !.status = "ready"]]
  BY <1>b DEF DB!CompleteProcessingJob
<1>2. /\ objects' = [objects EXCEPT ![x] = [status |-> "ready", ext |-> e, thumb |-> th]]
      /\ derivatives' = [derivatives EXCEPT
                             ![<<jobs[j].upload.source, jobs[j].upload.profile>>] = x]
      /\ jobs' = [jobs EXCEPT ![j] = [jobs[j] EXCEPT !.status = "completed", !.target = x]]
  BY DEF DB!CompleteProcessingJob
<1>3. /\ aliases'[t].object = x /\ aliases'[t].status = "ready"
      /\ aliases'[t].visibility = aliases[t].visibility
      /\ aliases'[t].redirectTo = aliases[t].redirectTo
      /\ \A s \in Slug \ {t} : aliases'[s] = aliases[s]
  BY <1>1, <1>b DEF Store!AliasRow
<1>4. jobs'[j].status = "completed"
  BY <1>2, <1>a, <1>b DEF Store!JobRow
<1>c. \A y \in Sha \ {x} : objects'[y] = objects[y]
  BY <1>2, <1>b
<1>d. \A k \in JobId : jobs[k].status = "completed" => jobs'[k].status = "completed"
  BY DEF FinishedStays
<1>5. RowsAreOfCompleted'
  <2>1. \A y \in Sha : objects'[y].status # "absent" => CompletedWith(y)'
    BY <1>a, <1>4, <1>c, <1>d DEF BytesInv, RowsAreOfCompleted, CompletedWith
  <2>2. ASSUME NEW y \in Sha, NEW p \in Store!Profile, derivatives'[<<y, p>>] # Null
        PROVE  \E k \in JobId : /\ jobs'[k].status = "completed"
                                /\ UploadOf[k].source = y /\ UploadOf[k].profile = p
    <3>1. CASE <<y, p>> = <<UploadOf[j].source, UploadOf[j].profile>>
      BY <1>a, <1>4, <3>1
    <3>2. CASE <<y, p>> # <<UploadOf[j].source, UploadOf[j].profile>>
      <4>1. derivatives'[<<y, p>>] = derivatives[<<y, p>>]
        BY <1>2, <1>a, <1>b, <3>2
      <4> QED BY <1>d, <2>2, <4>1 DEF BytesInv, RowsAreOfCompleted
    <3> QED BY <3>1, <3>2
  <2> QED BY <2>1, <2>2 DEF RowsAreOfCompleted
<1>6. ReadyHaveObjects'
  BY <1>3, <1>a, StoreAssumed DEF BytesInv, ReadyHaveObjects, Store!NullAssumption
<1>7. ReadyShareHasBytes'
  <2> SUFFICES ASSUME NEW s \in Slug, ReadyShare(s)'
               PROVE  Stored(aliases[s].object)'
    BY DEF ReadyShareHasBytes
  <2>1. CASE s = t
    <3>1. objects'[x].ext = e /\ objects'[x].thumb = th
      BY <1>2, <1>a, <1>b
    <3> QED BY <1>3, <1>a, <2>1, <3>1 DEF Stored, ThumbKey
  <2>2. CASE s # t
    <3>1. ReadyShare(s) /\ aliases'[s] = aliases[s]
      BY <1>3, <2>2 DEF ReadyShare, DB!Live, DB!Visible, DB!IsRoot
    <3>2. aliases[s].object \in Sha \ {x}
      BY <1>a, <3>1, ReferencedHasRow DEF BytesInv, Referenced
    <3>3. objects'[aliases[s].object] = objects[aliases[s].object]
      BY <1>c, <3>2
    <3> QED BY <3>1, <3>3 DEF BytesInv, ReadyShareHasBytes, Stored, ThumbKey
  <2> QED BY <2>1, <2>2
<1>8. ASSUME NEW y \in Sha \ {x}, Referenced(y)' PROVE Referenced(y)
  BY <1>3, <1>8 DEF Referenced, ReadyShare, DB!Live, DB!Visible, DB!IsRoot
<1> QED BY <1>5, <1>6, <1>7, <1>8, <1>c

LEMMA WorkerKeepsBytes ==
    ASSUME DistinctContents, AnyFaultInv, AnyFaultInv', BytesInv, FinishedStays,
           NEW w \in Worker, WorkerStep(w) \/ WorkerFault(w), ~Claim(w)
    PROVE  BytesInv'
<1> DEFINE me == worker[w]
<1>1. PICK new : worker' = [worker EXCEPT ![w] = new] /\ MovesOn(w, new)
  BY WorkersMoveOn
<1>2. Affects(w)
  BY WorkersAffect
<1>a. /\ worker' [w] = new /\ \A v \in Worker \ {w} : worker'[v] = worker[v]
      /\ me.pc # "idle" /\ (new.pc # "idle" => new.job = me.job)
      /\ me.job \in JobId /\ jobs[me.job].upload = UploadOf[me.job]
      /\ jobs \in [JobId -> Store!JobRow] /\ api' = api
  BY <1>1, <1>2, InHandFacts DEF MovesOn, Affects, AnyFaultInv, TablesInv, Tables
<1>b. \A k \in JobId \ {me.job} : jobs'[k] = jobs[k]
  BY <1>2, <1>a DEF Affects, dbVars, DB!CompleteProcessingJob, DB!FailProcessingJob,
                    DB!MarkObjectUnavailable
<1>c. me.pc \notin {"complete", "fail"} => jobs' = jobs
  BY <1>2 DEF Affects, dbVars, DB!MarkObjectUnavailable
<1>d. \/ bucket \subseteq bucket'
      \/ /\ me.pc = "undo" /\ bucket \ {<<me.object, me.ext>>} \subseteq bucket'
         /\ objects[me.object].status = "absent"
  BY <1>2, OwnObjectIsUnseen DEF Affects, HasObject
<1>3. ASSUME NEW v \in Worker \ {w} PROVE Own(v)'
  <2>1. worker[v].pc # "idle" => worker[v].job \in JobId \ {me.job}
    BY <1>a DEF AnyFaultInv, InHand, WorkersKeepApart, Holds
  <2>2. worker[v].pc # "idle" => GoesOn(worker[v].job)
    BY <1>b, <2>1 DEF GoesOn
  <2>3. worker[v].pc \in HasKey /\ me.pc = "undo" => worker[v].object # me.object
    BY OwnObjectIsUnseen DEF HasKey, HasObject
  <2>4. worker[v].pc \in HasKey => worker[v].ext \in Ext
    BY DEF AnyFaultInv, InHand
  <2>5. Own(v) /\ worker'[v] = worker[v]
    BY <1>a DEF BytesInv
  <2> QED BY <1>d, <2>2, <2>3, <2>4, <2>5, OthersStayOwn
<1>4. Own(w)'
  <2>1. Own(w)
    BY DEF BytesInv
  <2>2. new.pc \in Busy \cup {"undo"} => jobs' = jobs /\ me.pc \in Busy
    BY <1>1, <1>c DEF MovesOn, Busy
  <2>3. ~new.reuse
    BY <1>1, <2>1, NothingToReuse DEF MovesOn, Own
  <2>4. new.pc \in HasObject => new.object \in Results[UploadOf[new.job]]
    <3>1. ~(me.pc = "derive" /\ DB!Derived(jobs[me.job].upload, new.object))
      BY NothingToReuse
    <3>2. new.pc \in HasObject => new.pc # "idle"
      BY DEF HasObject
    <3> QED BY <1>1, <1>a, <2>1, <3>1, <3>2 DEF MovesOn, Own
  <2>5. ASSUME new.pc \in HasKey
        PROVE  <<new.object, new.ext>> \in bucket' /\ (new.thumb => ThumbKey(new.object) \in bucket')
    <3>1. me.pc \in Busy /\ new.pc \in HasObject
      BY <2>2, <2>5 DEF HasKey, HasObject, Busy, WorkerPc
    <3>2. bucket \subseteq bucket'
      BY <1>d, <3>1 DEF Busy
    <3>3. CASE me.pc = "put" /\ ~new.thumb /\ <<new.object, new.ext>> \in bucket'
      BY <3>3
    <3>4. CASE /\ me.pc \in HasKey /\ new.ext = me.ext
               /\ new.thumb => me.thumb \/ ThumbKey(new.object) \in bucket'
      <4>1. new.object = me.object
        BY <1>1, <3>1, <3>4 DEF MovesOn, HasKey
      <4> QED BY <2>1, <3>2, <3>4, <4>1 DEF Own
    <3>5. ~(me.pc = "get" /\ objects[me.object].status = "ready")
      BY OwnObjectIsUnseen DEF HasObject
    <3> QED BY <1>1, <2>5, <3>3, <3>4, <3>5 DEF MovesOn
  <2>6. /\ new.pc \in Busy => jobs'[new.job].status \in {"running", "canceled"}
        /\ new.pc = "undo" => jobs'[new.job].status = "canceled"
    <3>1. new.pc \in Busy \cup {"undo"} => new.pc # "idle"
      BY DEF Busy
    <3> QED BY <1>1, <1>a, <2>1, <2>2, <3>1 DEF MovesOn, Own
  <2> QED BY <1>a, <2>3, <2>4, <2>5, <2>6 DEF Own
<1>e. \A r \in Request : \A i \in 1 .. Len(api[r].keys) : api[r].keys[i][1] \in Sha
  BY DEF AnyFaultInv, TypeOK, ApiState, Key
<1>5. PurgesUnused' /\ RowsAreOfCompleted' /\ ReadyHaveObjects' /\ ReadyShareHasBytes'
  <2>1. CASE /\ me.pc = "complete"
             /\ DB!CompleteProcessingJob(me.job, me.object, me.ext, me.thumb)
    <3>1. bucket \subseteq bucket'
      BY <1>d, <2>1
    <3>2. objects[me.object].status = "absent"
      BY <2>1, OwnObjectIsUnseen DEF HasObject
    <3>3. PurgesUnused'
      BY <1>a, <1>e, <2>1, <3>1, <3>2, CompletionKeepsBytes DEF BytesInv, PurgesUnused
    <3> QED BY <2>1, <3>1, <3>3, CompletionKeepsBytes
  <2>2. CASE ~(/\ me.pc = "complete"
               /\ DB!CompleteProcessingJob(me.job, me.object, me.ext, me.thumb))
    <3>1. KeepsReferences
      <4>1. CASE UNCHANGED dbVars
        BY <4>1, NothingKeepsReferences DEF dbVars, BytesInv
      <4>2. CASE DB!FailProcessingJob(me.job)
        BY <4>2, FailKeepsReferences DEF BytesInv
      <4>3. CASE me.pc = "mark" /\ DB!MarkObjectUnavailable(me.object)
        BY <4>3, OwnObjectIsUnseen DEF HasObject, DB!MarkObjectUnavailable
      <4> QED BY <1>2, <2>2, <4>1, <4>2, <4>3 DEF Affects
    <3>2. \A y \in Sha, e \in Ext :
              Referenced(y) /\ <<y, e>> \in bucket => <<y, e>> \in bucket'
      BY <1>d, ReferencedHasRow DEF BytesInv
    <3>3. PurgesUnused'
      BY <1>a, <1>e, <3>1 DEF BytesInv, PurgesUnused, KeepsReferences
    <3> QED BY <3>1, <3>2, <3>3, RowsAndSharesKept
  <2> QED BY <2>1, <2>2
<1> QED BY <1>3, <1>4, <1>5 DEF BytesInv

\* A claim gives a worker a job that nobody has, and no object yet.
LEMMA ClaimKeepsBytes ==
    ASSUME DistinctContents, AnyFaultInv, AnyFaultInv', BytesInv, FinishedStays,
           NEW w \in Worker, Claim(w)
    PROVE  BytesInv'
<1>1. PICK j \in JobId :
          /\ DB!ClaimNextProcessingJob(j)
          /\ \/ worker' = [worker EXCEPT ![w] = [Idle EXCEPT !.pc = "derive", !.job = j]]
             \/ worker' = worker
  BY DEF Claim
<1>2. /\ jobs[j].status = "queued" /\ jobs' = [jobs EXCEPT ![j].status = "running"]
      /\ UNCHANGED <<aliases, objects, derivatives, bucket, api>>
  BY <1>1 DEF DB!ClaimNextProcessingJob, DB!NextInQueue, Claim
<1>3. KeepsReferences
  BY <1>2, NothingKeepsReferences DEF BytesInv
<1>4. RowsAreOfCompleted' /\ ReadyHaveObjects' /\ ReadyShareHasBytes'
  BY <1>2, <1>3, RowsAndSharesKept
<1>5. PurgesUnused'
  <2>1. \A r \in Request : \A i \in 1 .. Len(api[r].keys) : api[r].keys[i][1] \in Sha
    BY DEF AnyFaultInv, TypeOK, ApiState, Key
  <2> QED BY <1>2, <1>3, <2>1 DEF BytesInv, PurgesUnused, KeepsReferences
<1>6. /\ worker \in [Worker -> WorkerState] /\ jobs \in [JobId -> Store!JobRow]
      /\ worker[w].pc = "idle"
  BY DEF Claim, AnyFaultInv, TypeOK, TablesInv, Tables
<1>7. ASSUME NEW v \in Worker, worker'[v] = worker[v] PROVE Own(v)'
  <2>1. worker[v].pc # "idle" => worker[v].job \in JobId \ {j}
    BY <1>2 DEF AnyFaultInv, InHand
  <2>2. worker[v].pc # "idle" => GoesOn(worker[v].job)
    BY <1>2, <1>6, <2>1 DEF GoesOn
  <2>3. worker[v].pc \in HasKey => worker[v].ext \in Ext
    BY DEF AnyFaultInv, InHand
  <2> QED BY <1>2, <1>7, <2>2, <2>3, OthersStayOwn DEF BytesInv
<1>8. CASE worker' = [worker EXCEPT ![w] = [Idle EXCEPT !.pc = "derive", !.job = j]]
  <2>1. /\ worker'[w].pc = "derive" /\ worker'[w].job = j /\ worker'[w].reuse = FALSE
        /\ jobs'[j].status = "running"
        /\ \A v \in Worker \ {w} : worker'[v] = worker[v]
    BY <1>2, <1>6, <1>8 DEF Idle, Store!JobRow
  <2>2. Own(w)'
    BY <2>1 DEF Own, HasObject, HasKey
  <2> QED BY <1>4, <1>5, <1>7, <2>1, <2>2 DEF BytesInv
<1> QED BY <1>1, <1>4, <1>5, <1>7, <1>8 DEF BytesInv

\* The objects that had a row and that no ready share leads to after the step.
UnusedThen == {y \in Sha : objects[y].status # "absent" /\ ~Referenced(y)'}

\* A request leaves the workers alone, and deletes no key that a ready share or a
\* worker needs.
LEMMA RequestKeepsBytes ==
    ASSUME DistinctContents, AnyFaultInv, AnyFaultInv', BytesInv, FinishedStays,
           KeepsReferences, worker' = worker, \A j \in JobId : jobs[j].status # "absent" => GoesOn(j),
           \A x \in Sha, e \in Ext :
               /\ <<x, e>> \in bucket
               /\ Referenced(x) \/ objects[x].status = "absent"
               => <<x, e>> \in bucket',
           \/ api' = api
           \/ \E r \in Request, new \in ApiState :
                 /\ api' = [api EXCEPT ![r] = new]
                 /\ \A i \in 1 .. Len(new.keys) : new.keys[i][1] \in UnusedThen
    PROVE  BytesInv'
<1>1. RowsAreOfCompleted' /\ ReadyHaveObjects' /\ ReadyShareHasBytes'
  BY RowsAndSharesKept
<1>2. ASSUME NEW v \in Worker PROVE Own(v)'
  <2>1. worker[v].pc # "idle" => GoesOn(worker[v].job)
    BY DEF AnyFaultInv, InHand
  <2>2. worker[v].pc \in HasKey => worker[v].ext \in Ext
    BY DEF AnyFaultInv, InHand
  <2>3. worker[v].pc \in HasKey =>
            worker[v].object \in Sha /\ objects[worker[v].object].status = "absent"
    BY OwnObjectIsUnseen DEF HasKey, HasObject
  <2> QED BY <2>1, <2>2, <2>3, OthersStayOwn DEF BytesInv
<1>3. ASSUME NEW q \in Request, NEW i \in 1 .. Len(api'[q].keys)
      PROVE  objects'[api'[q].keys[i][1]].status # "absent" /\ ~Referenced(api[q].keys[i][1])'
  <2>1. PICK y \in Sha : y = api'[q].keys[i][1]
    BY DEF AnyFaultInv, TypeOK, ApiState, Key
  <2>2. objects[y].status # "absent" /\ ~Referenced(y)'
    <3>1. CASE api'[q] = api[q]
      BY <2>1, <3>1 DEF BytesInv, PurgesUnused, KeepsReferences
    <3>2. CASE api'[q] # api[q]
      <4>1. PICK r \in Request, new \in ApiState :
                /\ api' = [api EXCEPT ![r] = new]
                /\ \A k \in 1 .. Len(new.keys) : new.keys[k][1] \in UnusedThen
        BY <3>2
      <4>2. api'[q] = new
        BY <3>2, <4>1 DEF AnyFaultInv, TypeOK
      <4>3. y = new.keys[i][1] /\ i \in 1 .. Len(new.keys)
        BY <2>1, <4>2
      <4> QED BY <4>1, <4>3 DEF UnusedThen
    <3> QED BY <3>1, <3>2
  <2>3. objects'[y].status # "absent"
    BY <2>2 DEF KeepsReferences
  <2> QED BY <2>1, <2>2, <2>3 DEF Referenced
<1>4. PurgesUnused'
  BY <1>3 DEF PurgesUnused
<1> QED BY <1>1, <1>2, <1>4 DEF BytesInv

\* The keys of a deletion are of an object that had a row and that no ready share
\* leads to any more.
LEMMA FreedAreUnused ==
    ASSUME AnyFaultInv, BytesInv, NEW s \in Slug, NEW o, DB!DeleteAlias(s, o)
    PROVE  \A i \in 1 .. Len(FreedKeys(s)) : FreedKeys(s)[i][1] \in UnusedThen
<1> DEFINE x == aliases[s].object
<1>1. CASE ~DB!FreesObject(s)
  BY <1>1 DEF FreedKeys
<1>2. CASE DB!FreesObject(s)
  <2>1. x \in Sha /\ objects[x].status # "absent"
    BY <1>2 DEF AnyFaultInv, TablesInv, Tables, RowsKnown, Store!AliasRow, DB!FreesObject
  <2>2. \A y \in Sha : y = x => ~Referenced(y)'
    BY <1>2, DeleteKeepsReferences DEF BytesInv
  <2>3. \A i \in 1 .. Len(FreedKeys(s)) : FreedKeys(s)[i][1] = x
    BY <1>2 DEF FreedKeys, ThumbKey
  <2> QED BY <2>1, <2>2, <2>3 DEF UnusedThen
<1> QED BY <1>1, <1>2

LEMMA RequestsKeepBytes ==
    ASSUME DistinctContents, AnyFaultInv, AnyFaultInv', BytesInv, FinishedStays,
           NEW r \in Request, ApiStep(r) \/ ApiFault(r)
    PROVE  BytesInv'
<1>a. /\ api \in [Request -> ApiState] /\ api[r].files \subseteq JobId
      /\ api[r].keys \in Seq(Key) /\ jobs \in [JobId -> Store!JobRow]
      /\ NoRequest \in ApiState /\ NoRequest.keys = <<>>
  BY DEF AnyFaultInv, TypeOK, ApiState, NoRequest, TablesInv, Tables
<1>b. UNCHANGED dbVars => KeepsReferences /\ \A j \in JobId : GoesOn(j)
  BY NothingKeepsReferences DEF BytesInv, dbVars, GoesOn
<1>c. \A i \in 1 .. Len(api[r].keys) :
          /\ objects[api[r].keys[i][1]].status # "absent" /\ ~Referenced(api[r].keys[i][1])
          /\ KeepsReferences => api[r].keys[i][1] \in UnusedThen
  <2>1. \A i \in 1 .. Len(api[r].keys) : api[r].keys[i][1] \in Sha
    BY <1>a DEF Key
  <2> QED BY <2>1 DEF BytesInv, PurgesUnused, KeepsReferences, UnusedThen
<1>1. CASE RejectUpload(r) \/ CrashApi(r)
  BY <1>1, <1>a, <1>b, RequestKeepsBytes DEF RejectUpload, CrashApi
<1>2. CASE RemoveStaged(r)
  <2> DEFINE new == Deleting({}, api[r].keys)
  <2>1. api' = [api EXCEPT ![r] = new] /\ UNCHANGED <<dbVars, bucket, worker>>
    BY <1>2, <1>a DEF RemoveStaged
  <2>2. new \in ApiState /\ new.keys = api[r].keys
    BY <1>a, DeletingState
  <2> HIDE DEF new
  <2>3. \A i \in 1 .. Len(new.keys) : new.keys[i][1] \in UnusedThen
    BY <1>b, <1>c, <2>1, <2>2
  <2> QED BY <1>b, <2>1, <2>2, <2>3, RequestKeepsBytes
<1>3. CASE PurgeKey(r)
  <2> DEFINE new == Deleting({}, Tail(api[r].keys))
             key == Head(api[r].keys)
  <2>1. /\ api' = [api EXCEPT ![r] = new] /\ UNCHANGED <<dbVars, worker>>
        /\ bucket \ {key} \subseteq bucket' /\ api[r].keys # <<>>
    BY <1>3, <1>a DEF PurgeKey, AnyFaultInv, PurgesKeys
  <2>2. new \in ApiState /\ new.keys = Tail(api[r].keys)
    <3>1. Tail(api[r].keys) \in Seq(Key) /\ {} \in SUBSET JobId
      BY <1>a, <2>1
    <3> QED BY <3>1, DeletingState
  <2>3. /\ 1 \in 1 .. Len(api[r].keys) /\ key = api[r].keys[1]
        /\ \A i \in 1 .. Len(Tail(api[r].keys)) :
               /\ i + 1 \in 1 .. Len(api[r].keys)
               /\ Tail(api[r].keys)[i] = api[r].keys[i + 1]
    BY <1>a, <2>1
  <2> HIDE DEF new, key
  <2>4. \A i \in 1 .. Len(new.keys) : new.keys[i][1] \in UnusedThen
    BY <1>b, <1>c, <2>1, <2>2, <2>3
  <2>5. objects[key[1]].status # "absent" /\ ~Referenced(key[1])
    BY <1>c, <2>3
  <2>6. \A x \in Sha, e \in Ext :
            <<x, e>> \in bucket /\ (Referenced(x) \/ objects[x].status = "absent")
            => <<x, e>> \in bucket'
    BY <2>1, <2>5
  <2> QED BY <1>b, <2>1, <2>2, <2>4, <2>6, RequestKeepsBytes
<1>4. ASSUME NEW o \in Owner, NEW s \in Slug, AcceptUpload(r, o, s) \/ AcceptUnheard(r, o, s)
      PROVE  BytesInv'
  <2>1. PICK j \in api[r].files : DB!CreateIngestJob(j, o, s, UploadOf[j])
    BY <1>4 DEF AcceptUpload, AcceptUnheard
  <2>2. KeepsReferences
    BY <2>1, CreateKeepsReferences DEF BytesInv
  <2>3. \A k \in JobId : jobs[k].status # "absent" => GoesOn(k)
    BY <1>a, <2>1 DEF DB!CreateIngestJob, GoesOn
  <2> QED BY <1>4, <1>a, <2>2, <2>3, RequestKeepsBytes DEF AcceptUpload, AcceptUnheard
<1> QED BY <1>1, <1>2, <1>3, <1>4 DEF ApiStep, ApiFault

LEMMA StepsKeepBytes ==
    ASSUME DistinctContents, AnyFaultInv, AnyFaultInv', BytesInv, [Next]_vars
    PROVE  BytesInv'
<1>a. /\ FinishedStays /\ jobs \in [JobId -> Store!JobRow]
      /\ api \in [Request -> ApiState] /\ NoRequest \in ApiState /\ NoRequest.keys = <<>>
  BY FinishedStay, RequestEnds DEF AnyFaultInv, TypeOK, TablesInv, Tables, NoRequest
<1>b. UNCHANGED dbVars => KeepsReferences /\ \A j \in JobId : GoesOn(j)
  BY NothingKeepsReferences DEF BytesInv, dbVars, GoesOn
<1>1. CASE \E r \in Request, j \in JobId : StageUpload(r, j)
  <2>1. PICK r \in Request, j \in JobId : StageUpload(r, j)
    BY <1>1
  <2> DEFINE new == [NoRequest EXCEPT !.pc = "staged", !.files = {j}]
  <2>2. new \in ApiState /\ new.keys = <<>>
    <3>1. {j} \in SUBSET JobId
      OBVIOUS
    <3> QED BY <3>1, <1>a DEF ApiState
  <2>3. api' = [api EXCEPT ![r] = new] /\ UNCHANGED <<dbVars, bucket, worker>>
    BY <1>a, <2>1 DEF StageUpload
  <2> HIDE DEF new
  <2>4. \E q \in Request, n \in ApiState :
            api' = [api EXCEPT ![q] = n] /\ \A i \in 1 .. Len(n.keys) : n.keys[i][1] \in UnusedThen
    <3>1. Len(new.keys) = 0
      BY <2>2
    <3>2. \A i \in 1 .. Len(new.keys) : new.keys[i][1] \in UnusedThen
      BY <3>1
    <3> QED BY <2>2, <2>3, <3>2
  <2> QED BY <1>a, <1>b, <2>3, <2>4, RequestKeepsBytes
<1>2. CASE \E r \in Request, s \in Slug, o \in Owner : DeleteShare(r, s, o)
  <2>1. PICK r \in Request, s \in Slug, o \in Owner : DeleteShare(r, s, o)
    BY <1>2
  <2> DEFINE keys == FreedKeys(s)
             new == Deleting(DB!CanceledBy(s, o), keys)
  <2>2. /\ api' = [api EXCEPT ![r] = new]
        /\ DB!DeleteAlias(s, o) /\ UNCHANGED <<bucket, worker>>
    BY <2>1 DEF DeleteShare
  <2>3. /\ KeepsReferences
        /\ \A i \in 1 .. Len(keys) : keys[i][1] \in UnusedThen
    BY <2>2, DeleteKeepsReferences, FreedAreUnused DEF BytesInv
  <2>4. new \in ApiState /\ new.keys = keys
    <3>1. DB!CanceledBy(s, o) \in SUBSET JobId
      BY DEF DB!CanceledBy
    <3> QED BY <3>1, FreedHaveKeys, DeletingState
  <2>5. \A j \in JobId : GoesOn(j)
    BY <1>a, <2>2 DEF DB!DeleteAlias, GoesOn, Store!JobRow
  <2> HIDE DEF new, keys
  <2> QED BY <1>a, <2>2, <2>3, <2>4, <2>5, RequestKeepsBytes
<1>3. ASSUME NEW s \in Slug, NEW new \in Slug, NEW o \in Owner, RenameShare(s, o, new)
      PROVE  BytesInv'
  <2>1. KeepsReferences /\ \A j \in JobId : GoesOn(j)
    BY <1>3, RenameKeepsReferences DEF RenameShare, BytesInv, DB!RenameAlias, GoesOn
  <2> QED BY <1>3, <1>a, <2>1, RequestKeepsBytes DEF RenameShare
<1>4. CASE UNCHANGED vars
  BY <1>4, <1>a, <1>b, RequestKeepsBytes DEF vars
<1> QED BY <1>1, <1>2, <1>3, <1>4, <1>a, StepIsOf, WorkerKeepsBytes, ClaimKeepsBytes, RequestsKeepBytes

LEMMA InitHasBytes == Init => BytesInv
<1> SUFFICES ASSUME Init PROVE BytesInv
  OBVIOUS
<1>1. RowsAreOfCompleted /\ ReadyHaveObjects
  BY DEF Init, DB!Init, DB!NoAlias, DB!NoObject, DB!Profile, Store!Profile,
         RowsAreOfCompleted, ReadyHaveObjects
<1>2. ReadyShareHasBytes
  BY DEF Init, DB!Init, DB!NoAlias, ReadyShareHasBytes, ReadyShare
<1>3. PurgesUnused /\ \A w \in Worker : Own(w)
  BY DEF Init, Idle, NoRequest, PurgesUnused, Own, Busy, HasObject, HasKey
<1> QED BY <1>1, <1>2, <1>3 DEF BytesInv

\* A share that is shown as ready can be opened, and its video has its thumbnail,
\* whatever call fails, is not heard of or is cut short by a crash, when no two
\* uploads have bytes or results in common.  Where two have, one upload's worker can
\* take bytes back that the other's share leads to.
THEOREM ReadySharesHaveBytes == ASSUME DistinctContents PROVE Spec => []ReadyShareHasBytes
<1>1. Init => AnyFaultInv /\ BytesInv
  BY InitHasHands, InitHasBytes
<1>2. AnyFaultInv /\ BytesInv /\ [Next]_vars => (AnyFaultInv /\ BytesInv)'
  BY StepsKeepHands, StepsKeepBytes
<1>3. AnyFaultInv /\ BytesInv => ReadyShareHasBytes
  BY DEF BytesInv
<1> QED BY <1>1, <1>2, <1>3, PTL DEF Spec

-----------------------------------------------------------------------------
(* Bytes nobody refers to, when every write is carried out and heard of and no *)
(* two uploads have bytes in common.                                          *)

\* A failing HeadObject does no harm: it is only asked about objects of others.
OnlyHeadsFail == Faults \subseteq {"head"}

\* The keys of an object, by its extension and whether it has a thumbnail.
IsKeyOf(key, x, e, thumb) == key[1] = x /\ (key[2] = e \/ (thumb /\ key[2] = ThumbExt))

HasUploaded == {"putThumb", "check", "undo", "complete"}
KeyInHand(me, key) == me.pc \in HasUploaded /\ IsKeyOf(key, me.object, me.ext, me.thumb)

Referred(key) ==
    Referenced(key[1]) /\ IsKeyOf(key, key[1], objects[key[1]].ext, objects[key[1]].thumb)
OfCanceled(key) == \E j \in JobId : jobs[j].status = "canceled" /\ key[1] \in Results[UploadOf[j]]
ToPurge(key) == \E r \in Request : \E i \in 1 .. Len(api[r].keys) : api[r].keys[i] = key

\* Every key is there for somebody, or was left behind by a canceled job.
KeysExplained ==
    \A key \in bucket : \/ Referred(key) \/ OfCanceled(key) \/ ToPurge(key)
                        \/ \E w \in Worker : KeyInHand(worker[w], key)

\* A request has keys only while it purges them.
KeysBetween == \A r \in Request : api[r].pc \in {"idle", "staged"} => api[r].keys = <<>>

OrphanInv == KeysExplained /\ KeysBetween

\* A job in a worker's hands has no ready share yet.
LEMMA UnfinishedIsPending ==
    ASSUME ServiceInv, NEW j \in JobId, jobs[j].status \in {"running", "canceled"},
           NEW t \in Slug, DB!Resolves(jobs[j].alias, t)
    PROVE  aliases[t].status = "pending"
<1>1. /\ Store!TypeOK /\ Store!RedirectsFlat /\ Store!SharesAndJobsPair /\ Store!StatusesAgree
      /\ Store!JobExists(j)
  BY DEF ServiceInv, Store!IInv, Store!JobExists
<1>2. jobs[j].alias \in Slug
  BY <1>1 DEF Store!SharesAndJobsPair, Store!JobsHaveShares
<1>3. t = Store!JobRoot(j) /\ aliases[t].visibility = "public"
  BY <1>1, <1>2, SameResolves, StoreAssumed, Store!ResolvesToRoot DEF Store!JobRoot, Store!Visible
<1> QED BY <1>1, <1>3 DEF Store!StatusesAgree

\* A running job has a share to be completed with.
LEMMA RunningResolves ==
    ASSUME ServiceInv, NEW j \in JobId, jobs[j].status = "running"
    PROVE  \E t \in Slug : DB!Resolves(jobs[j].alias, t)
<1>1. /\ Store!TypeOK /\ Store!RedirectsFlat /\ Store!SharesAndJobsPair /\ Store!StatusesAgree
      /\ Store!JobExists(j)
  BY DEF ServiceInv, Store!IInv, Store!JobExists
<1>2. /\ jobs[j].alias \in Slug /\ Store!Present(jobs[j].alias)
      /\ Store!JobRoot(j) \in Slug /\ Store!Visible(Store!JobRoot(j))
  BY <1>1, StoreAssumed, Store!JobHasShare DEF Store!StatusesAgree, Store!Visible
<1>3. Store!Resolves(jobs[j].alias, Store!JobRoot(j))
  BY <1>1, <1>2, StoreAssumed, Store!RootIsResolved DEF Store!JobRoot
<1> QED BY <1>2, <1>3, SameResolves

\* A current name with an object is ready.
LEMMA ShownIsReady ==
    ASSUME ServiceInv, NEW s \in Slug, DB!Visible(s), DB!IsRoot(s), aliases[s].object # Null
    PROVE  aliases[s].status = "ready"
<1>1. Store!Present(s) /\ Store!Root(s) = s
  BY DEF DB!Visible, DB!IsRoot, Store!Present, Store!Root, Store!IsRoot
<1>2. PICK j \in JobId : Store!JobExists(j) /\ Store!JobRoot(j) = s
  BY <1>1 DEF ServiceInv, Store!IInv, Store!SharesAndJobsPair, Store!SharesHaveJobs
<1>3. jobs[j].status \in {"queued", "running", "completed", "failed", "canceled"}
  BY <1>2, JobRows DEF Store!JobRow, Store!JobStatus, Store!JobExists
<1> QED BY <1>2, <1>3 DEF ServiceInv, Store!IInv, Store!StatusesAgree

\* What a worker has uploaded stays in its hands until its job is completed, or
\* was canceled.
LEMMA UploadsStayInHand ==
    ASSUME OnlyHeadsFail, AnyFaultInv, BytesInv, NEW w \in Worker,
           WorkerStep(w) \/ WorkerFault(w), ~Claim(w)
    PROVE  LET me == worker[w] IN
           \E new \in WorkerState :
              /\ worker' = [worker EXCEPT ![w] = new]
              /\ \A key \in Key :
                    /\ key \in bucket' => key \in bucket \/ KeyInHand(new, key)
                    /\ KeyInHand(me, key) =>
                          \/ KeyInHand(new, key)
                          \/ jobs[me.job].status = "canceled"
                          \/ /\ me.pc = "complete"
                             /\ \/ DB!CompleteProcessingJob(me.job, me.object, me.ext, me.thumb)
                                \/ ~\E t \in Slug : DB!Resolves(jobs[me.job].alias, t)
<1> DEFINE me == worker[w]
           Gone == \/ jobs[me.job].status = "canceled"
                   \/ /\ me.pc = "complete"
                      /\ \/ DB!CompleteProcessingJob(me.job, me.object, me.ext, me.thumb)
                         \/ ~\E t \in Slug : DB!Resolves(jobs[me.job].alias, t)
           Kept(new) == \A key \in Key :
                            /\ key \in bucket' => key \in bucket \/ KeyInHand(new, key)
                            /\ KeyInHand(me, key) => KeyInHand(new, key) \/ Gone
<1>a. /\ worker \in [Worker -> WorkerState] /\ me \in WorkerState
      /\ me.pc = "put" => FinalExt(w) \in Ext
      /\ me.pc \in Busy => jobs[me.job].status \in {"running", "canceled"}
      /\ me.pc = "undo" => jobs[me.job].status = "canceled"
  BY InHandFacts DEF BytesInv, Own
<1>m. PICK new : worker' = [worker EXCEPT ![w] = new] /\ MovesOn(w, new)
  BY WorkersMoveOn
<1>n. new = worker'[w] /\ new \in WorkerState
  BY <1>a, <1>m DEF MovesOn
<1>1. CASE PutObject(w)
  <2>1. /\ me.pc = "put" /\ bucket' = bucket \cup {<<me.object, FinalExt(w)>>}
        /\ new.pc \in HasUploaded /\ new.object = me.object /\ new.ext = FinalExt(w)
    BY <1>1, <1>a, <1>n DEF PutObject, HasUploaded, WorkerState
  <2>2. Kept(new)
    BY <2>1 DEF KeyInHand, IsKeyOf, HasUploaded
  <2> QED BY <1>m, <1>n, <2>2
<1>2. CASE PutThumbnail(w)
  <2>1. /\ me.pc = "putThumb" /\ bucket' = bucket \cup {ThumbKey(me.object)}
        /\ new.pc = "check" /\ new.object = me.object /\ new.ext = me.ext /\ new.thumb = TRUE
    BY <1>2, <1>a, <1>n DEF PutThumbnail, WorkerState, OnlyHeadsFail
  <2>2. Kept(new)
    BY <2>1 DEF KeyInHand, IsKeyOf, HasUploaded, ThumbKey
  <2> QED BY <1>m, <1>n, <2>2
<1>3. CASE CheckBeforeCommit(w)
  <2>1. /\ me.pc = "check" /\ bucket' = bucket
        /\ \/ jobs[me.job].status = "canceled"
           \/ new = [me EXCEPT !.pc = "complete"]
    BY <1>3, <1>a, <1>n DEF CheckBeforeCommit, StatusCheck, Step, Busy, WorkerPc
  <2>2. CASE jobs[me.job].status = "canceled"
    BY <1>m, <1>n, <2>1, <2>2
  <2>3. CASE new = [me EXCEPT !.pc = "complete"]
    <3>1. /\ new.pc = "complete" /\ new.object = me.object /\ new.ext = me.ext
          /\ new.thumb = me.thumb
      BY <1>a, <2>3 DEF WorkerState
    <3>2. Kept(new)
      BY <2>1, <3>1 DEF KeyInHand, HasUploaded
    <3> QED BY <1>m, <1>n, <3>2
  <2> QED BY <2>1, <2>2, <2>3
<1>4. CASE UndoUpload(w)
  BY <1>4, <1>a, <1>m, <1>n DEF UndoUpload, Step
<1>5. CASE Complete(w)
  BY <1>5, <1>m, <1>n DEF Complete, Step
<1>6. CASE CompleteRefused(w)
  <2>1. me.pc = "complete" /\ bucket' = bucket /\ Gone
    BY <1>6, <1>a DEF CompleteRefused, Step, Busy, WorkerPc
  <2> QED BY <1>m, <1>n, <2>1
<1>7. CASE \/ FindDerivative(w) \/ Process(w) \/ FileGone(w) \/ CheckBeforeHash(w) \/ GetObject(w)
           \/ HeadObject(w) \/ MarkMissing(w) \/ RemoveStagedFile(w) \/ Fail(w)
  <2>1. bucket' = bucket /\ me.pc \notin HasUploaded
    BY <1>7 DEF FindDerivative, Process, FileGone, CheckBeforeHash, StatusCheck, GetObject,
                HeadObject, MarkMissing, RemoveStagedFile, Fail, Step, HasUploaded
  <2> QED BY <1>m, <1>n, <2>1 DEF KeyInHand
<1>8. ~(PutFails(w) \/ WorkerFault(w))
  BY DEF PutFails, WorkerFault, DatabaseError, Stop, CrashWorker, OnlyHeadsFail
<1> QED BY <1>1, <1>2, <1>3, <1>4, <1>5, <1>6, <1>7, <1>8 DEF WorkerStep

\* A completion leads its share to the keys that were in the worker's hands.
LEMMA CompletionExplains ==
    ASSUME DistinctContents, ServiceInv, AnyFaultInv, BytesInv,
           NEW w \in Worker, worker[w].pc = "complete",
           DB!CompleteProcessingJob(worker[w].job, worker[w].object, worker[w].ext, worker[w].thumb),
           NEW key \in Key
    PROVE  /\ Referred(key) => Referred(key)'
           /\ KeyInHand(worker[w], key) => Referred(key)'
<1> DEFINE j == worker[w].job
           x == worker[w].object
           e == worker[w].ext
           th == worker[w].thumb
<1>a. /\ j \in JobId /\ x \in Sha /\ e \in Ext /\ th \in BOOLEAN
      /\ objects[x].status = "absent" /\ jobs[j].status = "running"
  BY InHandFacts, OwnObjectIsUnseen
     DEF HasObject, HasKey, WorkerState, DB!CompleteProcessingJob, DB!Completable
<1>b. /\ objects \in [Sha -> Store!ObjectRow] /\ aliases \in [Slug -> Store!AliasRow]
      /\ key[1] \in Sha
  BY DEF AnyFaultInv, TablesInv, Tables, Key
<1>1. PICK t \in Slug :
          /\ DB!Resolves(jobs[j].alias, t)
          /\ aliases' = [aliases EXCEPT ![t] = [aliases[t] EXCEPT !.object = x, !.status = "ready"]]
  BY <1>b DEF DB!CompleteProcessingJob
<1>2. objects' = [objects EXCEPT ![x] = [status |-> "ready", ext |-> e, thumb |-> th]]
  BY DEF DB!CompleteProcessingJob
<1>3. /\ aliases'[t].object = x /\ aliases'[t].status = "ready"
      /\ aliases'[t].visibility = "public" /\ aliases'[t].redirectTo = Null
      /\ \A s \in Slug \ {t} : aliases'[s] = aliases[s]
      /\ aliases[t].status = "pending"
  BY <1>1, <1>a, <1>b, UnfinishedIsPending
     DEF Store!AliasRow, DB!Resolves, DB!Visible, DB!IsRoot
<1>4. /\ objects'[x].ext = e /\ objects'[x].thumb = th
      /\ \A y \in Sha \ {x} : objects'[y] = objects[y]
  BY <1>2, <1>a, <1>b
<1>5. ASSUME Referred(key) PROVE Referred(key)'
  <2>1. PICK s \in Slug : ReadyShare(s) /\ aliases[s].object = key[1]
    BY <1>5 DEF Referred, Referenced
  <2>2. key[1] # x
    BY <1>5, <1>a, ReferencedHasRow DEF Referred, BytesInv
  <2>3. s # t
    BY <2>1, <1>3 DEF ReadyShare
  <2>4. Referenced(key[1])'
    BY <1>3, <2>1, <2>3 DEF Referenced, ReadyShare, DB!Live, DB!Visible, DB!IsRoot
  <2> QED BY <1>4, <1>5, <1>b, <2>2, <2>4 DEF Referred, IsKeyOf
<1>6. ASSUME KeyInHand(worker[w], key) PROVE Referred(key)'
  <2>1. key[1] = x
    BY <1>6 DEF KeyInHand, IsKeyOf
  <2>2. Referenced(key[1])'
    BY <1>3, <2>1 DEF Referenced, ReadyShare, DB!Live, DB!Visible, DB!IsRoot
  <2> QED BY <1>4, <1>6, <2>1, <2>2 DEF Referred, KeyInHand, IsKeyOf
<1> QED BY <1>5, <1>6

\* A worker changes rows of its own job's share only.
LEMMA WorkersKeepReferred ==
    ASSUME DistinctContents, ServiceInv, AnyFaultInv, BytesInv, NEW w \in Worker, Affects(w),
           worker[w].pc # "idle", NEW key \in Key, Referred(key)
    PROVE  Referred(key)'
<1> DEFINE me == worker[w]
<1>b. /\ objects \in [Sha -> Store!ObjectRow] /\ aliases \in [Slug -> Store!AliasRow]
      /\ key[1] \in Sha /\ me.job \in JobId
  BY InHandFacts DEF AnyFaultInv, TablesInv, Tables, Key
<1>1. CASE UNCHANGED dbVars
  BY <1>1 DEF dbVars, Referred, Referenced, ReadyShare, DB!Live, DB!Visible, DB!IsRoot
<1>2. CASE me.pc = "complete" /\ DB!CompleteProcessingJob(me.job, me.object, me.ext, me.thumb)
  BY <1>2, CompletionExplains
<1>3. CASE me.pc = "fail" /\ DB!FailProcessingJob(me.job)
  <2>1. jobs[me.job].status \in {"running", "canceled"}
    BY <1>3 DEF ServiceInv, WorkersAtWork, AtWork, Working, WorkerPc
  <2>2. \A s \in Slug : ReadyShare(s) => aliases'[s] = aliases[s]
    BY <1>3, <1>b, <2>1, UnfinishedIsPending DEF DB!FailProcessingJob, ReadyShare
  <2>3. Referenced(key[1])'
    BY <2>2 DEF Referred, Referenced, ReadyShare, DB!Live, DB!Visible, DB!IsRoot
  <2> QED BY <1>3, <2>3 DEF DB!FailProcessingJob, Referred
<1>4. CASE me.pc = "mark" /\ DB!MarkObjectUnavailable(me.object)
  BY <1>4, OwnObjectIsUnseen DEF HasObject, DB!MarkObjectUnavailable
<1> QED BY <1>1, <1>2, <1>3, <1>4 DEF Affects

LEMMA WorkerExplains ==
    ASSUME DistinctContents, OnlyHeadsFail, ServiceInv, AnyFaultInv, BytesInv, OrphanInv,
           FinishedStays, bucket' \subseteq Key,
           NEW w \in Worker, WorkerStep(w) \/ WorkerFault(w), ~Claim(w)
    PROVE  OrphanInv'
<1> DEFINE me == worker[w]
<1>1. PICK new \in WorkerState :
          /\ worker' = [worker EXCEPT ![w] = new]
          /\ \A key \in Key :
                /\ key \in bucket' => key \in bucket \/ KeyInHand(new, key)
                /\ KeyInHand(me, key) =>
                      \/ KeyInHand(new, key)
                      \/ jobs[me.job].status = "canceled"
                      \/ /\ me.pc = "complete"
                         /\ \/ DB!CompleteProcessingJob(me.job, me.object, me.ext, me.thumb)
                            \/ ~\E t \in Slug : DB!Resolves(jobs[me.job].alias, t)
  BY UploadsStayInHand
<1>2. PICK n : worker' = [worker EXCEPT ![w] = n] /\ MovesOn(w, n)
  BY WorkersMoveOn
<1>3. Affects(w) /\ me.pc # "idle" /\ api' = api
  BY <1>2, WorkersAffect DEF MovesOn, Affects
<1>a. /\ worker \in [Worker -> WorkerState] /\ me.job \in JobId
      /\ worker'[w] = new /\ \A v \in Worker \ {w} : worker'[v] = worker[v]
  BY <1>1, <1>3, InHandFacts
<1>b. \A key : OfCanceled(key) => OfCanceled(key)'
  BY DEF OfCanceled, FinishedStays
<1>4. ASSUME NEW key \in Key, KeyInHand(me, key), ~KeyInHand(new, key)
      PROVE  Referred(key)' \/ OfCanceled(key)'
  <2>1. CASE jobs[me.job].status = "canceled"
    <3>1. key[1] \in Results[UploadOf[me.job]]
      BY <1>4 DEF KeyInHand, IsKeyOf, HasUploaded, BytesInv, Own, HasObject
    <3> QED BY <1>a, <1>b, <2>1, <3>1 DEF OfCanceled
  <2>2. CASE me.pc = "complete" /\ DB!CompleteProcessingJob(me.job, me.object, me.ext, me.thumb)
    BY <1>4, <2>2, CompletionExplains
  <2>3. CASE /\ me.pc = "complete" /\ jobs[me.job].status # "canceled"
             /\ ~\E t \in Slug : DB!Resolves(jobs[me.job].alias, t)
    BY <1>a, <2>3, RunningResolves DEF BytesInv, Own, Busy, WorkerPc
  <2> QED BY <1>1, <1>4, <2>1, <2>2, <2>3
<1>5. ASSUME NEW key \in bucket'
      PROVE  \/ Referred(key)' \/ OfCanceled(key)' \/ ToPurge(key)'
             \/ \E v \in Worker : KeyInHand(worker'[v], key)
  <2>1. key \in Key /\ (key \in bucket \/ KeyInHand(new, key))
    BY <1>1
  <2>2. CASE KeyInHand(new, key)
    BY <1>a, <2>2
  <2>3. CASE key \in bucket /\ ~KeyInHand(new, key)
    <3>1. CASE Referred(key)
      BY <1>3, <2>1, <3>1, WorkersKeepReferred
    <3>2. CASE OfCanceled(key)
      BY <1>b, <3>2
    <3>3. CASE ToPurge(key)
      BY <1>3, <3>3 DEF ToPurge
    <3>4. ASSUME NEW v \in Worker \ {w}, KeyInHand(worker[v], key)
          PROVE  \E u \in Worker : KeyInHand(worker'[u], key)
      BY <1>a, <3>4
    <3>5. CASE KeyInHand(me, key)
      BY <1>4, <2>1, <2>3, <3>5
    <3> QED BY <2>3, <3>1, <3>2, <3>3, <3>4, <3>5 DEF OrphanInv, KeysExplained
  <2> QED BY <2>1, <2>2, <2>3
<1>6. KeysExplained'
  BY <1>5 DEF KeysExplained, KeyInHand
<1>7. KeysBetween'
  BY <1>3 DEF OrphanInv, KeysBetween
<1> QED BY <1>6, <1>7 DEF OrphanInv

\* A claim takes an idle worker, which has no keys in hand.
LEMMA ClaimExplains ==
    ASSUME AnyFaultInv, OrphanInv, FinishedStays, NEW w \in Worker, Claim(w)
    PROVE  OrphanInv'
<1>1. /\ UNCHANGED <<aliases, objects, bucket, api>> /\ worker[w].pc = "idle"
      /\ worker \in [Worker -> WorkerState]
  BY DEF Claim, DB!ClaimNextProcessingJob, AnyFaultInv, TypeOK
<1>2. \A v \in Worker : worker'[v] = worker[v] \/ worker[v].pc = "idle"
  BY <1>1 DEF Claim
<1>3. \A v \in Worker : \A key : KeyInHand(worker[v], key) => worker'[v] = worker[v]
  BY <1>2 DEF KeyInHand, HasUploaded
<1>4. \A key : OfCanceled(key) => OfCanceled(key)'
  BY DEF OfCanceled, FinishedStays
<1>5. \A key : /\ Referred(key) => Referred(key)'
               /\ ToPurge(key) => ToPurge(key)'
  BY <1>1 DEF Referred, Referenced, ReadyShare, DB!Live, DB!Visible, DB!IsRoot, ToPurge
<1>6. KeysBetween'
  BY <1>1 DEF OrphanInv, KeysBetween
<1>7. ASSUME NEW key \in bucket'
      PROVE  \/ Referred(key)' \/ OfCanceled(key)' \/ ToPurge(key)'
             \/ \E v \in Worker : KeyInHand(worker'[v], key)
  BY <1>1, <1>3, <1>4, <1>5 DEF OrphanInv, KeysExplained
<1> QED BY <1>6, <1>7 DEF OrphanInv, KeysExplained, KeyInHand

\* A request leaves the workers alone, brings no keys, and what it leaves unreferred
\* it purges.
LEMMA RequestExplains ==
    ASSUME OrphanInv, FinishedStays, worker' = worker, KeysBetween', bucket' \subseteq bucket,
           \A key \in bucket' : /\ Referred(key) => Referred(key)' \/ ToPurge(key)'
                                /\ ToPurge(key) => ToPurge(key)'
    PROVE  OrphanInv'
<1>1. \A key : OfCanceled(key) => OfCanceled(key)'
  BY DEF OfCanceled, FinishedStays
<1>2. ASSUME NEW key \in bucket'
      PROVE  \/ Referred(key)' \/ OfCanceled(key)' \/ ToPurge(key)'
             \/ \E v \in Worker : KeyInHand(worker'[v], key)
  BY <1>1 DEF OrphanInv, KeysExplained
<1> QED BY <1>2 DEF OrphanInv, KeysExplained, KeyInHand

\* What happens to a request's keys.
LEMMA KeysGoOn ==
    ASSUME AnyFaultInv, KeysBetween, NEW r \in Request, NEW new,
           api' = [api EXCEPT ![r] = new], new.pc \in {"idle", "staged"} => new.keys = <<>>
    PROVE  /\ KeysBetween'
           /\ \A key : ToPurge(key) /\ ~ToPurge(key)' =>
                  \E i \in 1 .. Len(api[r].keys) :
                      api[r].keys[i] = key /\ ~\E k \in 1 .. Len(new.keys) : new.keys[k] = key
           /\ \A k \in 1 .. Len(new.keys) : \A key : new.keys[k] = key => ToPurge(key)'
<1>1. api'[r] = new /\ \A q \in Request \ {r} : api'[q] = api[q]
  BY DEF AnyFaultInv, TypeOK
<1>2. KeysBetween'
  BY <1>1 DEF KeysBetween
<1>3. \A k \in 1 .. Len(new.keys) : \A key : new.keys[k] = key => ToPurge(key)'
  BY <1>1 DEF ToPurge
<1>4. \A key : ToPurge(key) /\ ~ToPurge(key)' =>
          \E i \in 1 .. Len(api[r].keys) :
              api[r].keys[i] = key /\ ~\E k \in 1 .. Len(new.keys) : new.keys[k] = key
  BY <1>1 DEF ToPurge
<1> QED BY <1>2, <1>3, <1>4

\* Deleting a share purges every key of its object, or leaves it to another share.
LEMMA DeletionExplains ==
    ASSUME ServiceInv, AnyFaultInv, BytesInv, NEW s \in Slug, NEW o, DB!DeleteAlias(s, o),
           NEW key \in Key, Referred(key)
    PROVE  Referred(key)' \/ \E i \in 1 .. Len(FreedKeys(s)) : FreedKeys(s)[i] = key
<1> DEFINE y == key[1]
<1>a. /\ aliases' = [t \in Slug |-> IF t \in DB!Family(s, o)
                                      THEN [aliases[t] EXCEPT !.visibility = "deleted"]
                                      ELSE aliases[t]]
      /\ key = <<y, key[2]>> /\ y \in Sha /\ y # Null
  BY StoreAssumed DEF DB!DeleteAlias, DB!DeletedRows, Key, Store!NullAssumption
<1>b. objects'[y].ext = objects[y].ext /\ objects'[y].thumb = objects[y].thumb
  BY <1>a, DeleteKeepsReferences DEF KeepsReferences, BytesInv
<1>c. \A t \in Slug \ {s} : DB!IsRoot(t) => aliases'[t] = aliases[t]
  <2>1. s # Null
    BY StoreAssumed DEF Store!NullAssumption
  <2> QED BY <1>a, <2>1 DEF DB!Family, DB!IsRoot
<1>1. PICK t \in Slug : ReadyShare(t) /\ aliases[t].object = y
  BY DEF Referred, Referenced
<1>2. ASSUME NEW u \in Slug \ {s}, ReadyShare(u), aliases[u].object = y
      PROVE  Referred(key)'
  <2>1. aliases'[u] = aliases[u]
    BY <1>2, <1>c DEF ReadyShare, DB!Live
  <2>2. Referenced(y)'
    BY <1>2, <2>1 DEF Referenced, ReadyShare, DB!Live, DB!Visible, DB!IsRoot
  <2> QED BY <1>b, <2>2 DEF Referred, IsKeyOf
<1>3. CASE t # s
  BY <1>1, <1>2, <1>3
<1>4. CASE t = s /\ ~DB!FreesObject(s)
  <2>1. PICK u \in Slug \ {s} : aliases[u].object = y /\ DB!Visible(u) /\ DB!IsRoot(u)
    BY <1>a, <1>1, <1>4 DEF DB!FreesObject, DB!OtherReferences
  <2>2. ReadyShare(u)
    BY <1>a, <2>1, ShownIsReady DEF ReadyShare, DB!Live
  <2> QED BY <1>2, <2>1, <2>2
<1>5. CASE t = s /\ DB!FreesObject(s)
  <2>1. /\ aliases[s].object = y
        /\ key[2] = objects[y].ext \/ (objects[y].thumb /\ key[2] = ThumbExt)
    BY <1>1, <1>5 DEF Referred, IsKeyOf
  <2>2. CASE objects[y].thumb
    <3>1. FreedKeys(s) = <<<<y, objects[y].ext>>, <<y, ThumbExt>>>>
      BY <1>5, <2>1, <2>2 DEF FreedKeys, ThumbKey
    <3>2. /\ Len(FreedKeys(s)) = 2 /\ FreedKeys(s)[1] = <<y, objects[y].ext>>
          /\ FreedKeys(s)[2] = <<y, ThumbExt>>
      BY <3>1
    <3> QED BY <1>a, <2>1, <3>2
  <2>3. CASE ~objects[y].thumb
    <3>1. FreedKeys(s) = <<<<y, objects[y].ext>>>>
      BY <1>5, <2>1, <2>3 DEF FreedKeys
    <3>2. Len(FreedKeys(s)) = 1 /\ FreedKeys(s)[1] = <<y, objects[y].ext>>
      BY <3>1
    <3> QED BY <1>a, <2>1, <2>3, <3>2
  <2> QED BY <2>2, <2>3
<1> QED BY <1>3, <1>4, <1>5

LEMMA DeletingGoesOn ==
    ASSUME NEW files, NEW keys
    PROVE  LET new == Deleting(files, keys) IN
           new.keys = keys /\ (new.pc \in {"idle", "staged"} => new.keys = <<>>)
BY DEF Deleting

LEMMA RequestsExplain ==
    ASSUME OnlyHeadsFail, ServiceInv, AnyFaultInv, BytesInv, OrphanInv, FinishedStays,
           NEW r \in Request, ApiStep(r) \/ ApiFault(r)
    PROVE  OrphanInv'
<1>a. /\ api \in [Request -> ApiState] /\ api[r].files \subseteq JobId
      /\ api[r].keys \in Seq(Key) /\ bucket \subseteq Key
      /\ NoRequest.keys = <<>> /\ KeysBetween
      /\ api[r].pc = "staged" => api[r].keys = <<>>
  BY DEF AnyFaultInv, TypeOK, ApiState, NoRequest, OrphanInv, KeysBetween
<1>b. UNCHANGED dbVars => \A key \in Key : Referred(key) => Referred(key)'
  BY DEF dbVars, Referred, Referenced, ReadyShare, DB!Live, DB!Visible, DB!IsRoot
<1>c. ASSUME api[r].pc = "staged", api' = [api EXCEPT ![r] = NoRequest],
             \A key \in Key : Referred(key) => Referred(key)', bucket' = bucket, worker' = worker
      PROVE  OrphanInv'
  <2>1. Len(api[r].keys) = 0
    BY <1>a, <1>c
  <2>2. KeysBetween' /\ \A key : ToPurge(key) => ToPurge(key)'
    BY <1>a, <1>c, <2>1, KeysGoOn DEF ToPurge, KeysBetween
  <2> QED BY <1>a, <1>c, <2>2, RequestExplains
<1>1. CASE RejectUpload(r)
  BY <1>1, <1>b, <1>c DEF RejectUpload
<1>2. CASE RemoveStaged(r)
  <2> DEFINE new == Deleting({}, api[r].keys)
  <2>1. /\ api' = [api EXCEPT ![r] = new] /\ UNCHANGED <<dbVars, bucket, worker>>
        /\ new.keys = api[r].keys /\ (new.pc \in {"idle", "staged"} => new.keys = <<>>)
    BY <1>2, <1>a, DeletingGoesOn DEF RemoveStaged
  <2> HIDE DEF new
  <2>2. KeysBetween' /\ \A key : ToPurge(key) => ToPurge(key)'
    BY <1>a, <2>1, KeysGoOn DEF ToPurge, KeysBetween
  <2> QED BY <1>a, <1>b, <2>1, <2>2, RequestExplains
<1>3. CASE PurgeKey(r)
  <2> DEFINE keys == api[r].keys
             new == Deleting({}, Tail(keys))
  <2>1. /\ api' = [api EXCEPT ![r] = new] /\ UNCHANGED <<dbVars, worker>>
        /\ new.keys = Tail(keys) /\ (new.pc \in {"idle", "staged"} => new.keys = <<>>)
        /\ bucket' = bucket \ {Head(keys)} /\ keys # <<>>
    BY <1>3, <1>a, DeletingGoesOn DEF PurgeKey, OnlyHeadsFail, AnyFaultInv, PurgesKeys
  <2>2. \A i \in 1 .. Len(keys) :
            keys[i] = Head(keys) \/ (i - 1 \in 1 .. Len(Tail(keys)) /\ Tail(keys)[i - 1] = keys[i])
    BY <1>a, <2>1
  <2> HIDE DEF new, keys
  <2>3. KeysBetween' /\ \A key \in bucket' : ToPurge(key) => ToPurge(key)'
    <3>1. /\ KeysBetween'
          /\ \A key : ToPurge(key) /\ ~ToPurge(key)' =>
                 \E i \in 1 .. Len(keys) :
                     keys[i] = key /\ ~\E k \in 1 .. Len(new.keys) : new.keys[k] = key
      <4>1. /\ api' = [api EXCEPT ![r] = new] /\ api[r].keys = keys
            /\ new.pc \in {"idle", "staged"} => new.keys = <<>>
        BY <2>1 DEF keys
      <4> QED BY <1>a, <4>1, KeysGoOn DEF ToPurge, KeysBetween
    <3>2. \A key \in bucket', i \in 1 .. Len(keys) :
              keys[i] = key => \E k \in 1 .. Len(new.keys) : new.keys[k] = key
      BY <2>1, <2>2
    <3> QED BY <3>1, <3>2
  <2> QED BY <1>a, <1>b, <2>1, <2>3, RequestExplains
<1>4. ASSUME NEW o \in Owner, NEW s \in Slug, AcceptUpload(r, o, s) PROVE OrphanInv'
  <2>1. PICK j \in api[r].files : DB!CreateIngestJob(j, o, s, UploadOf[j])
    BY <1>4 DEF AcceptUpload
  <2>2. /\ ~DB!Present(s) /\ \A t \in Slug \ {s} : aliases'[t] = aliases[t]
        /\ objects' = objects
    BY <2>1 DEF DB!CreateIngestJob, DB!NameFree, AnyFaultInv, TablesInv, Tables
  <2>3. \A t \in Slug : ReadyShare(t) => aliases'[t] = aliases[t]
    BY <2>2 DEF ReadyShare, DB!Live, DB!Visible, DB!Present
  <2>4. \A key \in Key : Referred(key) => Referred(key)'
    BY <2>2, <2>3 DEF Referred, Referenced, ReadyShare, DB!Live, DB!Visible, DB!IsRoot
  <2> QED BY <1>4, <1>c, <2>4 DEF AcceptUpload
<1> QED BY <1>1, <1>2, <1>3, <1>4 DEF ApiStep, ApiFault, AcceptUnheard, CrashApi, OnlyHeadsFail

LEMMA StepsExplain ==
    ASSUME DistinctContents, OnlyHeadsFail, ServiceInv, AnyFaultInv, AnyFaultInv', BytesInv,
           OrphanInv, [Next]_vars
    PROVE  OrphanInv'
<1>a. /\ FinishedStays /\ KeysBetween /\ bucket' \subseteq Key /\ bucket \subseteq Key
      /\ api \in [Request -> ApiState]
  BY FinishedStay DEF AnyFaultInv, TypeOK, OrphanInv
<1>1. ASSUME NEW r \in Request, NEW j \in JobId, StageUpload(r, j) PROVE OrphanInv'
  <2> DEFINE new == [NoRequest EXCEPT !.pc = "staged", !.files = {j}]
  <2>1. /\ api' = [api EXCEPT ![r] = new] /\ UNCHANGED <<dbVars, bucket, worker>>
        /\ new.keys = <<>> /\ api[r].pc = "idle"
    BY <1>1 DEF StageUpload, NoRequest
  <2> HIDE DEF new
  <2>2. Len(api[r].keys) = 0
    BY <1>a, <2>1 DEF KeysBetween
  <2>3. KeysBetween' /\ \A key : ToPurge(key) => ToPurge(key)'
    BY <1>a, <2>1, <2>2, KeysGoOn DEF ToPurge, KeysBetween
  <2>4. \A key \in Key : Referred(key) => Referred(key)'
    BY <2>1 DEF dbVars, Referred, Referenced, ReadyShare, DB!Live, DB!Visible, DB!IsRoot
  <2> QED BY <1>a, <2>1, <2>3, <2>4, RequestExplains
<1>2. ASSUME NEW r \in Request, NEW s \in Slug, NEW o \in Owner, DeleteShare(r, s, o)
      PROVE  OrphanInv'
  <2> DEFINE keys == FreedKeys(s)
             new == Deleting(DB!CanceledBy(s, o), keys)
  <2>1. /\ api' = [api EXCEPT ![r] = new] /\ UNCHANGED <<bucket, worker>>
        /\ new.keys = keys /\ (new.pc \in {"idle", "staged"} => new.keys = <<>>)
        /\ DB!DeleteAlias(s, o) /\ api[r].pc = "idle"
    BY <1>2, DeletingGoesOn DEF DeleteShare
  <2> HIDE DEF new
  <2>2. Len(api[r].keys) = 0
    BY <1>a, <2>1 DEF KeysBetween
  <2>3. /\ KeysBetween' /\ \A key : ToPurge(key) => ToPurge(key)'
        /\ \A k \in 1 .. Len(new.keys) : \A key : new.keys[k] = key => ToPurge(key)'
    BY <1>a, <2>1, <2>2, KeysGoOn DEF ToPurge, KeysBetween
  <2>4. \A key \in Key : Referred(key) => Referred(key)' \/ ToPurge(key)'
    BY <2>1, <2>3, DeletionExplains
  <2> QED BY <1>a, <2>1, <2>3, <2>4, RequestExplains
<1>3. ASSUME NEW s \in Slug, NEW new \in Slug, NEW o \in Owner, RenameShare(s, o, new)
      PROVE  OrphanInv'
  <2>1. /\ DB!RenameAlias(s, o, new) /\ UNCHANGED <<bucket, worker, api>>
        /\ ~DB!Present(new) /\ objects' = objects /\ s # new
        /\ \A t \in Slug : aliases'[t] = IF t = new THEN aliases[s]
                                         ELSE IF t \in DB!Family(s, o)
                                           THEN [aliases[t] EXCEPT !.redirectTo = new]
                                         ELSE aliases[t]
    BY <1>3 DEF RenameShare, DB!RenameAlias, DB!RenamedRows, DB!NameFree, DB!OwnedCurrent,
                DB!Visible, DB!Present
  <2>2. s # Null
    BY StoreAssumed DEF Store!NullAssumption
  <2>3. \A t \in Slug : ReadyShare(t) => \E u \in Slug : aliases'[u] = aliases[t]
    BY <2>1, <2>2 DEF ReadyShare, DB!Live, DB!Visible, DB!IsRoot, DB!Present, DB!Family
  <2>4. \A key \in Key : Referred(key) => Referred(key)'
    BY <2>1, <2>3 DEF Referred, Referenced, ReadyShare, DB!Live, DB!Visible, DB!IsRoot
  <2>5. KeysBetween' /\ \A key : ToPurge(key) => ToPurge(key)'
    BY <1>a, <2>1 DEF KeysBetween, ToPurge
  <2> QED BY <1>a, <2>1, <2>4, <2>5, RequestExplains
<1>4. CASE UNCHANGED vars
  <2>1. KeysBetween' /\ \A key : ToPurge(key) => ToPurge(key)'
    BY <1>4, <1>a DEF vars, KeysBetween, ToPurge
  <2>2. \A key \in Key : Referred(key) => Referred(key)'
    BY <1>4 DEF vars, dbVars, Referred, Referenced, ReadyShare, DB!Live, DB!Visible, DB!IsRoot
  <2> QED BY <1>4, <1>a, <2>1, <2>2, RequestExplains DEF vars
<1> QED BY <1>1, <1>2, <1>3, <1>4, <1>a, StepIsOf, WorkerExplains, ClaimExplains, RequestsExplain

\* When no write fails or goes unheard and no two uploads have bytes in common, then
\* as soon as nobody is at work every key in the bucket is one that a ready share
\* leads to, or of a job whose share was deleted while it was processed: deletions
\* of ready shares, however they meet with renames and other deletions, leave nothing.
THEOREM OrphansComeOfCancellation ==
    ASSUME DistinctContents, OnlyHeadsFail
    PROVE  Spec => []OrphansAreOfCanceledJobs
<1>1. CommitsAreHeard
  BY DEF OnlyHeadsFail, CommitsAreHeard
<1>2. Init => AnyFaultInv /\ BytesInv /\ OrphanInv
  <2>1. Init => OrphanInv
    BY DEF Init, NoRequest, OrphanInv, KeysExplained, KeysBetween
  <2> QED BY <2>1, InitHasHands, InitHasBytes
<1>3. ServiceInv /\ AnyFaultInv /\ BytesInv /\ OrphanInv /\ [Next]_vars
      => (AnyFaultInv /\ BytesInv /\ OrphanInv)'
  BY StepsKeepHands, StepsKeepBytes, StepsExplain
<1>4. AnyFaultInv /\ OrphanInv => OrphansAreOfCanceledJobs
  <2> SUFFICES ASSUME AnyFaultInv, OrphanInv, Quiet, NEW key \in bucket
               PROVE  \/ Referenced(key[1])
                      \/ \E j \in JobId : /\ jobs[j].status = "canceled"
                                          /\ key[1] \in Results[jobs[j].upload]
    BY DEF OrphansAreOfCanceledJobs
  <2>1. ~ToPurge(key)
    <3>1. \A r \in Request : Len(api[r].keys) = 0
      BY DEF OrphanInv, KeysBetween, Quiet
    <3> QED BY <3>1 DEF ToPurge
  <2>2. \A w \in Worker : ~KeyInHand(worker[w], key)
    BY DEF Quiet, KeyInHand, HasUploaded
  <2>3. Referred(key) \/ OfCanceled(key)
    BY <2>1, <2>2 DEF OrphanInv, KeysExplained
  <2>4. \A j \in JobId : jobs[j].status = "canceled" => jobs[j].upload = UploadOf[j]
    BY DEF AnyFaultInv, TablesInv, RowsKnown
  <2> QED BY <2>3, <2>4 DEF Referred, OfCanceled
<1> QED BY <1>1, <1>2, <1>3, <1>4, ServiceInvariance, PTL DEF Spec
=============================================================================
