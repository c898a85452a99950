---------------------------- MODULE ShareMetadata ----------------------------
(***************************************************************************)
(* The PostgreSQL store that the API and the processor share               *)
(* (internal/broker/metadata.go): the tables aliases, processing_jobs,     *)
(* objects, object_derivatives and alias_history, and the methods of       *)
(* MetadataStore that change them.                                         *)
(*                                                                         *)
(* Each method runs in one transaction, or is one statement, and locks the *)
(* rows it decides on: here it is one action.  The processor and the API   *)
(* handlers that call the methods are in ShareProcessor.                   *)
(*                                                                         *)
(* A table is a total function; a row that was never inserted has status   *)
(* or visibility "absent".  Rows are never removed: deleting a share only  *)
(* marks them.                                                             *)
(***************************************************************************)
EXTENDS Naturals, FiniteSets

CONSTANTS
    Slug,           \* share names (primary key of aliases)
    Owner,          \* OIDC subjects
    JobId,          \* ids of ingest jobs, one per accepted upload
    Sha,            \* SHA-256 digests of file contents
    Ext,            \* file extensions, part of an object's key
    Upload,         \* what may be uploaded: source digest, profile, extension
    Null,           \* the empty string or NULL of a column
    RedirectLimit,  \* redirects a job's name is followed through; 100 in the code
    MaxOpens        \* bound on redirect_count; the column is a bigint

Profile == {"upload-finalize", "mp4-web"}
Visibility == {"absent", "public", "deleted"}
AliasStatus == {"pending", "ready", "failed"}
JobStatus == {"absent", "queued", "running", "completed", "failed", "canceled"}
ObjectStatus == {"absent", "ready", "missing", "deleted"}

ASSUME UploadAssumption == Upload \subseteq [source : Sha, profile : Profile, ext : Ext]
ASSUME NullAssumption == Null \notin Slug \cup Owner \cup Sha \cup Ext \cup Upload
ASSUME LimitAssumption == RedirectLimit \in Nat /\ RedirectLimit > 1
ASSUME OpensAssumption == MaxOpens \in Nat

VARIABLES
    aliases,      \* [Slug -> row]
    jobs,         \* [JobId -> row]
    objects,      \* [Sha -> row]
    derivatives,  \* [Sha \X Profile -> target digest or Null]
    history,      \* alias_history: <<slug, previous digest, new digest>>
    now           \* the database clock, as far as created_at needs it

vars == <<aliases, jobs, objects, derivatives, history, now>>

AliasRow == [redirectTo : Slug \cup {Null}, object : Sha \cup {Null},
             owner : Owner \cup {Null}, visibility : Visibility,
             status : AliasStatus, opens : Nat]

JobRow == [status : JobStatus, owner : Owner \cup {Null}, alias : Slug \cup {Null},
           upload : Upload \cup {Null}, target : Sha \cup {Null}, created : Nat]

ObjectRow == [status : ObjectStatus, ext : Ext \cup {Null}, thumb : BOOLEAN]

NoAlias == [redirectTo |-> Null, object |-> Null, owner |-> Null,
            visibility |-> "absent", status |-> "pending", opens |-> 0]

NoJob == [status |-> "absent", owner |-> Null, alias |-> Null,
          upload |-> Null, target |-> Null, created |-> 0]

NoObject == [status |-> "absent", ext |-> Null, thumb |-> FALSE]

Init ==
    /\ aliases = [s \in Slug |-> NoAlias]
    /\ jobs = [j \in JobId |-> NoJob]
    /\ objects = [x \in Sha |-> NoObject]
    /\ derivatives = [d \in Sha \X Profile |-> Null]
    /\ history = {}
    /\ now = 0

-----------------------------------------------------------------------------
(* Rows as the queries select them. *)

Present(s) == aliases[s].visibility # "absent"
Visible(s) == aliases[s].visibility = "public"
IsRoot(s) == aliases[s].redirectTo = Null

\* ON CONFLICT (slug) DO NOTHING: only a name that no row ever had can be inserted.
\* Mistakes: the names of deleted shares are given out again, or those that a
\* rename left behind.
NameFreeOnceDeleted(s) == ~Visible(s)
NameFreeOnceRetired(s) == ~Present(s) \/ ~IsRoot(s)
NameFree(s) == ~Present(s)

\* currentOwnedAliasForUpdateTx: the row a user may rename or delete.
OwnedCurrent(s, o) == Visible(s) /\ aliases[s].owner = o /\ IsRoot(s)

\* The rows that rename and delete update: the name and the names retired to it.
Family(s, o) == {t \in Slug : /\ Visible(t)
                              /\ aliases[t].owner = o
                              /\ (t = s \/ aliases[t].redirectTo = s)}

\* currentProcessingAliasForUpdateTx: s leads through visible redirects to the
\* visible name t that is current.
Resolves(s, t) ==
    /\ Visible(t) /\ IsRoot(t)
    /\ \E n \in 0 .. RedirectLimit - 1 : \E path \in [0 .. n -> Slug] :
          /\ path[0] = s
          /\ path[n] = t
          /\ \A i \in 0 .. n - 1 : /\ Visible(path[i])
                                   /\ aliases[path[i]].redirectTo = path[i + 1]

\* The oldest queued job (ORDER BY created_at LIMIT 1).
\* Mistake: the claim does not leave running jobs out.
NextUnfinished(j) ==
    /\ jobs[j].status \in {"queued", "running"}
    /\ \A k \in JobId : jobs[k].status = "queued" => jobs[j].created <= jobs[k].created
NextInQueue(j) ==
    /\ jobs[j].status = "queued"
    /\ \A k \in JobId : jobs[k].status = "queued" => jobs[j].created <= jobs[k].created

\* getProcessingJobTx, keyed by owner: what the upload status page may see.
OwnedJob(j, o) == jobs[j].status # "absent" /\ jobs[j].owner = o

\* GetDerivedObject: the ready result of an earlier job on the same source.
Derived(u, x) ==
    /\ derivatives[<<u.source, u.profile>>] = x
    /\ x # Null
    /\ objects[x].status = "ready"

-----------------------------------------------------------------------------
(* The methods. *)

\* The row createAliasTx inserts, and the job's.
PendingAlias(o) == [redirectTo |-> Null, object |-> Null, owner |-> o,
                    visibility |-> "public", status |-> "pending", opens |-> 0]
QueuedJob(o, s, u) == [status |-> "queued", owner |-> o, alias |-> s, upload |-> u,
                       target |-> Null, created |-> now + 1]

\* An upload's share and its job appear together, or not at all when the name
\* was ever taken, by a deleted or renamed share too.
CreateIngestJob(j, o, s, u) ==
    /\ jobs[j].status = "absent"
    /\ NameFree(s)
    /\ aliases' = [aliases EXCEPT ![s] = PendingAlias(o)]
    /\ jobs' = [jobs EXCEPT ![j] = QueuedJob(o, s, u)]
    /\ now' = now + 1
    /\ UNCHANGED <<objects, derivatives, history>>

ClaimNextProcessingJob(j) ==
    /\ NextInQueue(j)
    /\ jobs' = [jobs EXCEPT ![j].status = "running"]
    /\ UNCHANGED <<aliases, objects, derivatives, history, now>>

\* upsertAliasTx: a row of alias_history when a name's object is replaced.
Replaced(t, x) ==
    IF aliases[t].object \in {Null, x} THEN {} ELSE {<<t, aliases[t].object, x>>}

\* Mistake: the status of the job is not asked again at completion.
EverClaimed(j) == jobs[j].status \in JobStatus \ {"absent", "queued"}
Completable(j) == jobs[j].status = "running"

\* The job's share becomes ready with object x under whatever name is current.
\* A job that is not running, or whose share is gone, makes the method fail
\* and the transaction roll back.
CompleteProcessingJob(j, x, e, thumb) ==
    /\ Completable(j)
    /\ \E t \in Slug :
          /\ Resolves(jobs[j].alias, t)
          /\ aliases' = [aliases EXCEPT ![t] = [@ EXCEPT !.object = x, !.status = "ready"]]
          /\ history' = history \cup Replaced(t, x)
    /\ objects' = [objects EXCEPT ![x] = [status |-> "ready", ext |-> e, thumb |-> thumb]]
    /\ derivatives' = [derivatives EXCEPT ![<<jobs[j].upload.source, jobs[j].upload.profile>>] = x]
    /\ jobs' = [jobs EXCEPT ![j] = [@ EXCEPT !.status = "completed", !.target = x]]
    /\ UNCHANGED now

\* Mistake: a late failure report overwrites how the job ended.
AfterFailureAlways(status) == "failed"
AfterFailure(status) == IF status \in {"queued", "running"} THEN "failed" ELSE status

\* The job moves only from queued or running; its share's row whatever its state.
FailProcessingJob(j) ==
    /\ jobs[j].status # "absent"
    /\ jobs' = [jobs EXCEPT ![j].status = AfterFailure(@)]
    /\ aliases' = [s \in Slug |-> IF Resolves(jobs[j].alias, s)
                                    THEN [aliases[s] EXCEPT !.status = "failed"]
                                    ELSE aliases[s]]
    /\ UNCHANGED <<objects, derivatives, history, now>>

\* The new name takes over the row, counters included; the old name and every
\* name already retired to it now redirect to the new one, in one hop.
\* Mistakes: names retired before keep pointing at the old name; the row moves
\* to its new name and leaves the old one free; the new row counts from zero.
RenamedOnce(s, o, new) ==
    [aliases EXCEPT ![new] = aliases[s], ![s].redirectTo = new]
RenamedInPlace(s, o, new) ==
    [aliases EXCEPT ![new] = aliases[s], ![s] = NoAlias]
RenamedFromZero(s, o, new) ==
    [t \in Slug |-> IF t = new THEN [aliases[s] EXCEPT !.opens = 0]
                    ELSE IF t \in Family(s, o) THEN [aliases[t] EXCEPT !.redirectTo = new]
                    ELSE aliases[t]]
RenamedRows(s, o, new) ==
    [t \in Slug |-> IF t = new THEN aliases[s]
                    ELSE IF t \in Family(s, o) THEN [aliases[t] EXCEPT !.redirectTo = new]
                    ELSE aliases[t]]

RenameAlias(s, o, new) ==
    /\ OwnedCurrent(s, o)
    /\ NameFree(new)
    /\ aliases' = RenamedRows(s, o, new)
    /\ UNCHANGED <<jobs, objects, derivatives, history, now>>

DeletedRows(s, o) ==
    [t \in Slug |-> IF t \in Family(s, o) THEN [aliases[t] EXCEPT !.visibility = "deleted"]
                    ELSE aliases[t]]

\* The unfinished jobs of the share: recorded under its name or a retired one.
\* Mistake: jobs of a renamed share are missed.
CanceledByName(s, o) ==
    {j \in JobId : jobs[j].owner = o /\ jobs[j].status \in {"queued", "running"} /\ jobs[j].alias = s}
CanceledBy(s, o) ==
    {j \in JobId : /\ jobs[j].owner = o
                   /\ jobs[j].status \in {"queued", "running"}
                   /\ \/ jobs[j].alias = s
                      \/ \E t \in Slug : /\ jobs[j].alias = t
                                         /\ aliases[t].owner = o
                                         /\ aliases[t].redirectTo = s}

\* Current names, other than s, that still hold the object of s.
OtherReferences(s) == {t \in Slug \ {s} : /\ aliases[t].object = aliases[s].object
                                          /\ Visible(t)
                                          /\ IsRoot(t)}

\* Deleting s lets the object go with it.
\* Mistake: other shares of the same bytes are not counted.
FreesObjectAlways(s) == aliases[s].object # Null
FreesObject(s) == aliases[s].object # Null /\ OtherReferences(s) = {}

DeleteAlias(s, o) ==
    /\ OwnedCurrent(s, o)
    /\ aliases' = DeletedRows(s, o)
    /\ jobs' = [j \in JobId |-> IF j \in CanceledBy(s, o)
                                  THEN [jobs[j] EXCEPT !.status = "canceled"] ELSE jobs[j]]
    /\ objects' = [x \in Sha |-> IF FreesObject(s) /\ x = aliases[s].object
                                   THEN [objects[x] EXCEPT !.status = "deleted"] ELSE objects[x]]
    /\ UNCHANGED <<derivatives, history, now>>

MarkObjectUnavailable(x) ==
    /\ objects[x].status # "absent"
    /\ objects' = [objects EXCEPT ![x].status = "missing"]
    /\ UNCHANGED <<aliases, jobs, derivatives, history, now>>

\* One open of a public link is counted on the row of the name that was asked for.
RecordAliasRedirect(s) ==
    /\ Present(s)
    /\ aliases[s].opens < MaxOpens
    /\ aliases' = [aliases EXCEPT ![s].opens = @ + 1]
    /\ UNCHANGED <<jobs, objects, derivatives, history, now>>

\* The processor reports a failure for a job that it claimed and did not
\* complete: it still runs, or its share was deleted meanwhile.
Failable(j) == jobs[j].status \in {"running", "canceled"}

Next ==
    \/ \E j \in JobId, o \in Owner, s \in Slug, u \in Upload : CreateIngestJob(j, o, s, u)
    \/ \E j \in JobId : ClaimNextProcessingJob(j)
    \/ \E j \in JobId, x \in Sha, e \in Ext, thumb \in BOOLEAN :
          CompleteProcessingJob(j, x, e, thumb)
    \/ \E j \in JobId : Failable(j) /\ FailProcessingJob(j)
    \/ \E s, new \in Slug, o \in Owner : RenameAlias(s, o, new)
    \/ \E s \in Slug, o \in Owner : DeleteAlias(s, o)
    \/ \E x \in Sha : MarkObjectUnavailable(x)
    \/ \E s \in Slug : RecordAliasRedirect(s)

Spec == Init /\ [][Next]_vars

-----------------------------------------------------------------------------
(* What the tables promise. *)

\* The share a name belongs to is identified by its current name.
Root(s) == IF IsRoot(s) THEN s ELSE aliases[s].redirectTo

JobExists(j) == jobs[j].status # "absent"
JobRoot(j) == Root(jobs[j].alias)
Live(s) == Visible(s) /\ IsRoot(s)

\* Every column holds a value of its type.
TypeOK ==
    /\ aliases \in [Slug -> AliasRow]
    /\ jobs \in [JobId -> JobRow]
    /\ objects \in [Sha -> ObjectRow]
    /\ derivatives \in [Sha \X Profile -> Sha \cup {Null}]
    /\ history \in SUBSET (Slug \X Sha \X Sha)
    /\ now \in Nat

\* However often a share was renamed, each of its old names redirects straight
\* to the current one, belongs to the same user and is deleted exactly when it
\* is (metadata.go follows one hop in getProcessingJobTx and handlePublicShare).
RedirectsFlat ==
    \A s \in Slug : ~IsRoot(s) =>
        LET t == aliases[s].redirectTo IN
        /\ Present(s) /\ Present(t) /\ IsRoot(t)
        /\ aliases[t].owner = aliases[s].owner
        /\ aliases[t].visibility = aliases[s].visibility

\* A job's name is in the table, and its user's.
JobsHaveShares ==
    \A j \in JobId : JobExists(j) =>
        /\ jobs[j].alias \in Slug /\ jobs[j].upload \in Upload
        /\ Present(jobs[j].alias)
        /\ aliases[jobs[j].alias].owner = jobs[j].owner

\* The current names that the jobs' names lead to are distinct.
JobsKeepApart ==
    \A j, k \in JobId : JobExists(j) /\ JobExists(k) /\ JobRoot(j) = JobRoot(k) => j = k

\* Every name in the table leads to some upload.
SharesHaveJobs ==
    \A s \in Slug : Present(s) => \E j \in JobId : JobExists(j) /\ JobRoot(j) = Root(s)

\* Jobs remember the name their share had at upload, and shares are renamed and
\* deleted: still uploads never end up behind each other's names, and no share
\* is left without the one job that can settle it.
SharesAndJobsPair == JobsHaveShares /\ JobsKeepApart /\ SharesHaveJobs

\* What the share's row says is what became of its upload, across renames and
\* deletions between claim and completion.
StatusesAgree ==
    \A j \in JobId : JobExists(j) =>
        LET row == aliases[JobRoot(j)] IN
        /\ jobs[j].status \in {"queued", "running"} =>
               row.visibility = "public" /\ row.status = "pending" /\ row.object = Null
        /\ jobs[j].status = "completed" =>
               row.status = "ready" /\ row.object = jobs[j].target /\ row.object # Null
        /\ jobs[j].status = "failed" => row.status = "failed" /\ row.object = Null
        /\ jobs[j].status = "canceled" => row.visibility = "deleted" /\ row.object = Null

\* Deleting one of several shares of the same bytes never marks the object
\* deleted under the others (the reference count of DeleteAlias).
LiveShareKeepsObject ==
    \A s \in Slug : Live(s) /\ aliases[s].object # Null =>
        objects[aliases[s].object].status \in {"ready", "missing"}

\* A name is never pointed at other bytes: alias_history stays empty.
NoRebinding == history = {}

\* A name, once given out, leads to the same share of the same user for good:
\* renames carry every old name along, deletion frees none.
NamesKeepTheirShare ==
    [][\A j \in JobId, s \in Slug :
          JobExists(j) /\ Present(s) /\ Root(s) = JobRoot(j) =>
              /\ Present(s)'
              /\ Root(s)' = JobRoot(j)'
              /\ aliases'[s].owner = aliases[s].owner]_vars

\* A share never loses counted opens, nor its content, through a rename.
SharesKeepCountAndContent ==
    [][\A s \in Slug : Present(s) =>
          /\ aliases'[Root(s)'].opens >= aliases[Root(s)].opens
          /\ aliases[Root(s)].object # Null =>
                 aliases'[Root(s)'].object = aliases[Root(s)].object]_vars

\* A finished job stays as it finished: a late failure report or a deletion
\* does not rewrite it.
FinishedJobsStay ==
    [][\A j \in JobId : jobs[j].status \in {"completed", "failed", "canceled"} =>
          jobs'[j] = jobs[j]]_vars

-----------------------------------------------------------------------------
(* The tables implement the life cycle of shares; a share is named by its job. *)

Leads(s, j) == Present(s) /\ JobExists(j) /\ JobRoot(j) = Root(s)
ShareOf(s) == IF \E j \in JobId : Leads(s, j) THEN CHOOSE j \in JobId : Leads(s, j) ELSE Null

ShareRecord(j) ==
    IF ~JobExists(j)
      THEN [state |-> "none", owner |-> Null, name |-> Null, content |-> Null]
      ELSE [state |-> IF Visible(JobRoot(j)) THEN aliases[JobRoot(j)].status ELSE "removed",
            owner |-> jobs[j].owner, name |-> JobRoot(j), content |-> aliases[JobRoot(j)].object]

Lifecycle == INSTANCE ShareLifecycle WITH
    Share <- JobId, Name <- Slug, Content <- Sha, None <- Null,
    shares <- [j \in JobId |-> ShareRecord(j)],
    leadsTo <- [s \in Slug |-> ShareOf(s)]

\* The store is an implementation of the life cycle a user is promised.
LifecycleSpec == Lifecycle!Spec
=============================================================================
