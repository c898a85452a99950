------------------------- MODULE ShareMetadataProofs -------------------------
(***************************************************************************)
(* Proofs about ShareMetadata, for every number of names, users, jobs and  *)
(* digests and for every bound on redirects and opens.                     *)
(*                                                                         *)
(* The inductive invariant is the conjunction of the invariants that the   *)
(* model checker examines: none of them is inductive alone.  That a        *)
(* completing job finds its own share (StatusesAgree) needs redirects to   *)
(* be flat and jobs to be kept apart; that deleting a share cancels its    *)
(* job needs names, jobs and redirects to have one owner.                  *)
(*                                                                         *)
(* The last part shows that ShareMetadata implements ShareLifecycle: every *)
(* method of the store is a step of the life cycle a user is promised, or  *)
(* is not seen by the user.                                                *)
(***************************************************************************)
EXTENDS ShareMetadata, TLAPS

IInv ==
    /\ TypeOK
    /\ RedirectsFlat
    /\ SharesAndJobsPair
    /\ StatusesAgree
    /\ LiveShareKeepsObject
    /\ NoRebinding

-----------------------------------------------------------------------------
(* Names and their current names. *)

\* The current name of a name in the table is in the table, visible exactly
\* when the name is, and of the same owner.
LEMMA RootIsCurrent ==
    ASSUME TypeOK, RedirectsFlat, NEW s \in Slug, Present(s)
    PROVE  /\ Root(s) \in Slug
           /\ Present(Root(s))
           /\ IsRoot(Root(s))
           /\ aliases[Root(s)].owner = aliases[s].owner
           /\ aliases[Root(s)].visibility = aliases[s].visibility
<1>1. aliases[s].redirectTo \in Slug \cup {Null}
  BY DEF TypeOK, AliasRow
<1>2. CASE IsRoot(s)
  BY <1>2 DEF Root, Present
<1>3. CASE ~IsRoot(s)
  BY <1>1, <1>3 DEF Root, IsRoot, RedirectsFlat, Present
<1> QED BY <1>2, <1>3

\* A name nobody holds is not the target of a redirect, and redirects nowhere.
LEMMA FreeNameIsUnused ==
    ASSUME TypeOK, RedirectsFlat, NEW s \in Slug, ~Present(s)
    PROVE  /\ IsRoot(s)
           /\ \A t \in Slug : aliases[t].redirectTo # s
BY NullAssumption DEF RedirectsFlat, IsRoot

\* Following redirects from a name ends at its current name and nowhere else.
LEMMA ResolvesToRoot ==
    ASSUME TypeOK, RedirectsFlat, NEW s \in Slug, NEW t \in Slug, Resolves(s, t)
    PROVE  t = Root(s) /\ Visible(Root(s))
<1>1. PICK n \in 0 .. RedirectLimit - 1 : \E path \in [0 .. n -> Slug] :
          /\ path[0] = s
          /\ path[n] = t
          /\ \A i \in 0 .. n - 1 : /\ Visible(path[i])
                                   /\ aliases[path[i]].redirectTo = path[i + 1]
  BY DEF Resolves
<1>2. PICK path \in [0 .. n -> Slug] :
          /\ path[0] = s
          /\ path[n] = t
          /\ \A i \in 0 .. n - 1 : /\ Visible(path[i])
                                   /\ aliases[path[i]].redirectTo = path[i + 1]
  BY <1>1
<1>3. n \in Nat /\ Visible(t) /\ IsRoot(t)
  BY LimitAssumption DEF Resolves
<1>4. CASE n = 0
  BY <1>2, <1>3, <1>4 DEF Root
<1>5. CASE n = 1
  <2>1. aliases[s].redirectTo = t
    BY <1>2, <1>5
  <2>2. t # Null
    BY NullAssumption
  <2> QED BY <1>3, <2>1, <2>2 DEF Root, IsRoot
<1>6. CASE n > 1
  <2>1. 0 \in 0 .. n - 1 /\ 1 \in 0 .. n - 1 /\ 1 \in 0 .. n /\ 2 \in 0 .. n
    BY <1>3, <1>6
  <2>2. aliases[s].redirectTo = path[1] /\ aliases[path[1]].redirectTo = path[2]
    BY <1>2, <2>1
  <2>3. path[1] \in Slug /\ path[2] \in Slug
    BY <2>1
  <2>4. path[1] # Null /\ path[2] # Null
    BY <2>3, NullAssumption
  <2> QED BY <2>2, <2>3, <2>4 DEF RedirectsFlat, IsRoot
<1> QED BY <1>3, <1>4, <1>5, <1>6

\* And it does get there, as long as the share is not deleted.
LEMMA RootIsResolved ==
    ASSUME TypeOK, RedirectsFlat, NEW s \in Slug, Visible(Root(s)), Present(s)
    PROVE  Resolves(s, Root(s))
<1>1. Root(s) \in Slug /\ IsRoot(Root(s)) /\ Visible(s)
  BY RootIsCurrent DEF Visible
<1>2. CASE IsRoot(s)
  <2> DEFINE path == [i \in 0 .. 0 |-> s]
  <2>1. Root(s) = s
    BY <1>2 DEF Root
  <2>2. path \in [0 .. 0 -> Slug] /\ path[0] = s /\ 0 .. 0 - 1 = {}
    OBVIOUS
  <2>3. 0 \in 0 .. RedirectLimit - 1
    BY LimitAssumption
  <2> QED BY <1>1, <2>1, <2>2, <2>3 DEF Resolves
<1>3. CASE ~IsRoot(s)
  <2> DEFINE path == [i \in 0 .. 1 |-> IF i = 0 THEN s ELSE Root(s)]
  <2>1. aliases[s].redirectTo = Root(s)
    BY <1>3 DEF Root
  <2>2. path \in [0 .. 1 -> Slug] /\ path[0] = s /\ path[1] = Root(s)
    BY <1>1
  <2>3. 1 \in 0 .. RedirectLimit - 1
    BY LimitAssumption
  <2>4. \A i \in 0 .. 1 - 1 : /\ Visible(path[i])
                              /\ aliases[path[i]].redirectTo = path[i + 1]
    BY <1>1, <2>1, <2>2
  <2> QED BY <1>1, <2>2, <2>3, <2>4 DEF Resolves
<1> QED BY <1>2, <1>3

\* A job and its share, taken out of the invariants.
LEMMA JobHasShare ==
    ASSUME TypeOK, RedirectsFlat, SharesAndJobsPair, NEW j \in JobId, JobExists(j)
    PROVE  /\ jobs[j].alias \in Slug
           /\ jobs[j].upload \in Upload
           /\ Present(jobs[j].alias)
           /\ JobRoot(j) \in Slug
           /\ Present(JobRoot(j))
           /\ IsRoot(JobRoot(j))
           /\ aliases[JobRoot(j)].owner = jobs[j].owner
           /\ aliases[JobRoot(j)].visibility = aliases[jobs[j].alias].visibility
<1>1. /\ jobs[j].alias \in Slug
      /\ jobs[j].upload \in Upload
      /\ Present(jobs[j].alias)
      /\ aliases[jobs[j].alias].owner = jobs[j].owner
  BY DEF SharesAndJobsPair, JobsHaveShares
<1> QED BY <1>1, RootIsCurrent DEF JobRoot

-----------------------------------------------------------------------------
(* Steps that change no redirect, owner or visibility move no name. *)

LEMMA ShapeKept ==
    ASSUME TypeOK, RedirectsFlat,
           \A t \in Slug : /\ aliases'[t].redirectTo = aliases[t].redirectTo
                           /\ aliases'[t].owner = aliases[t].owner
                           /\ aliases'[t].visibility = aliases[t].visibility
    PROVE  /\ RedirectsFlat'
           /\ \A t \in Slug : /\ Root(t)' = Root(t)
                              /\ IsRoot(t)' = IsRoot(t)
                              /\ Present(t)' = Present(t)
                              /\ Visible(t)' = Visible(t)
<1>1. \A t \in Slug : /\ Root(t)' = Root(t)
                      /\ IsRoot(t)' = IsRoot(t)
                      /\ Present(t)' = Present(t)
                      /\ Visible(t)' = Visible(t)
  BY DEF Root, IsRoot, Present, Visible
<1>2. \A t \in Slug : aliases[t].redirectTo \in Slug \cup {Null}
  BY DEF TypeOK, AliasRow
<1>3. RedirectsFlat'
  BY <1>1, <1>2 DEF RedirectsFlat, IsRoot
<1> QED BY <1>1, <1>3

\* If no job appears or changes hands either, shares and jobs stay paired.
LEMMA PairKept ==
    ASSUME TypeOK, RedirectsFlat, SharesAndJobsPair,
           \A t \in Slug : /\ aliases'[t].redirectTo = aliases[t].redirectTo
                           /\ aliases'[t].owner = aliases[t].owner
                           /\ Present(t)' = Present(t),
           \A j \in JobId : /\ JobExists(j)' = JobExists(j)
                            /\ jobs'[j].alias = jobs[j].alias
                            /\ jobs'[j].owner = jobs[j].owner
                            /\ jobs'[j].upload = jobs[j].upload
    PROVE  /\ SharesAndJobsPair'
           /\ \A j \in JobId : JobExists(j) => JobRoot(j)' = JobRoot(j)
<1>1. \A t \in Slug : Root(t)' = Root(t)
  BY DEF Root, IsRoot
<1>2. \A j \in JobId : JobExists(j) => JobRoot(j)' = JobRoot(j)
  BY <1>1, JobHasShare DEF JobRoot
<1>3. JobsHaveShares'
  BY DEF SharesAndJobsPair, JobsHaveShares
<1>4. JobsKeepApart'
  BY <1>2 DEF SharesAndJobsPair, JobsKeepApart
<1>5. SharesHaveJobs'
  BY <1>1, <1>2 DEF SharesAndJobsPair, SharesHaveJobs
<1> QED BY <1>2, <1>3, <1>4, <1>5 DEF SharesAndJobsPair

-----------------------------------------------------------------------------
(* Every method keeps the inductive invariant. *)

LEMMA InitEstablishes == Init => IInv
<1> SUFFICES ASSUME Init PROVE IInv
  OBVIOUS
<1>1. TypeOK
  BY DEF Init, TypeOK, AliasRow, JobRow, ObjectRow, NoAlias, NoJob, NoObject,
         Visibility, AliasStatus, JobStatus, ObjectStatus
<1>2. \A s \in Slug : ~Present(s) /\ IsRoot(s) /\ ~Visible(s)
  BY DEF Init, Present, IsRoot, Visible, NoAlias
<1>3. \A j \in JobId : ~JobExists(j)
  BY DEF Init, JobExists, NoJob
<1> QED
  BY <1>1, <1>2, <1>3
  DEF IInv, RedirectsFlat, SharesAndJobsPair, JobsHaveShares, JobsKeepApart, SharesHaveJobs,
      StatusesAgree, LiveShareKeepsObject, Live, NoRebinding, Init

LEMMA CreateKeeps ==
    ASSUME IInv, NEW j \in JobId, NEW o \in Owner, NEW s \in Slug, NEW u \in Upload,
           CreateIngestJob(j, o, s, u)
    PROVE  IInv'
<1> USE DEF IInv
<1> DEFINE row == PendingAlias(o)
           job == QueuedJob(o, s, u)
<1>1. /\ aliases' = [aliases EXCEPT ![s] = row]
      /\ jobs' = [jobs EXCEPT ![j] = job]
  BY DEF CreateIngestJob
<1>2. /\ ~Present(s) /\ ~JobExists(j)
      /\ UNCHANGED <<objects, derivatives, history>> /\ now' = now + 1
  BY DEF CreateIngestJob, NameFree, JobExists
<1>3. row \in AliasRow /\ (TypeOK => job \in JobRow)
  BY DEF PendingAlias, QueuedJob, AliasRow, JobRow, Visibility, AliasStatus, JobStatus, TypeOK
<1>4. TypeOK'
  BY <1>1, <1>2, <1>3 DEF TypeOK
<1>5. /\ aliases'[s] = row /\ jobs'[j] = job
      /\ \A t \in Slug \ {s} : aliases'[t] = aliases[t]
      /\ \A k \in JobId \ {j} : jobs'[k] = jobs[k]
  BY <1>1 DEF TypeOK
<1> HIDE DEF row, job
<1>6. /\ row.redirectTo = Null /\ row.object = Null /\ row.owner = o
      /\ row.visibility = "public" /\ row.status = "pending"
      /\ job.status = "queued" /\ job.owner = o /\ job.alias = s /\ job.upload = u
  BY DEF row, job, PendingAlias, QueuedJob
<1>7. IsRoot(s) /\ \A t \in Slug : aliases[t].redirectTo # s
  BY <1>2, FreeNameIsUnused
<1>8. /\ Root(s)' = s /\ Present(s)' /\ IsRoot(s)'
      /\ \A t \in Slug \ {s} : /\ Root(t)' = Root(t)
                               /\ Present(t)' = Present(t)
                               /\ IsRoot(t)' = IsRoot(t)
                               /\ Visible(t)' = Visible(t)
  BY <1>5, <1>6 DEF Root, IsRoot, Present, Visible
<1>9. \A t \in Slug : aliases[t].redirectTo \in Slug \cup {Null}
  BY DEF TypeOK, AliasRow
<1>10. RedirectsFlat'
  <2> SUFFICES ASSUME NEW t \in Slug, ~IsRoot(t)'
               PROVE  /\ Present(t)'
                      /\ Present(aliases[t].redirectTo)'
                      /\ IsRoot(aliases[t].redirectTo)'
                      /\ aliases'[aliases'[t].redirectTo].owner = aliases'[t].owner
                      /\ aliases'[aliases'[t].redirectTo].visibility = aliases'[t].visibility
    BY DEF RedirectsFlat
  <2>1. t # s
    BY <1>8
  <2>2. aliases'[t] = aliases[t] /\ ~IsRoot(t)
    BY <1>5, <1>8, <2>1
  <2>3. aliases[t].redirectTo \in Slug \ {s}
    BY <1>7, <1>9, <2>2 DEF IsRoot
  <2> QED BY <1>5, <1>8, <2>1, <2>2, <2>3 DEF RedirectsFlat
<1>11. \A t \in Slug : Present(t) => t # s /\ Root(t) \in Slug \ {s}
  BY <1>2, RootIsCurrent
<1>12. /\ JobRoot(j)' = s /\ JobExists(j)'
       /\ \A k \in JobId \ {j} : /\ JobExists(k)' = JobExists(k)
                                 /\ JobExists(k) => /\ JobRoot(k)' = JobRoot(k)
                                                    /\ JobRoot(k) \in Slug \ {s}
                                                    /\ jobs[k].alias \in Slug \ {s}
  <2>1. JobRoot(j)' = s /\ JobExists(j)'
    BY <1>5, <1>6, <1>8 DEF JobRoot, JobExists
  <2> QED BY <1>5, <1>8, <1>11, <2>1, JobHasShare DEF JobRoot, JobExists
<1>13. SharesAndJobsPair'
  <2>1. JobsHaveShares'
    BY <1>5, <1>6, <1>8, <1>12 DEF SharesAndJobsPair, JobsHaveShares
  <2>2. JobsKeepApart'
    BY <1>12 DEF SharesAndJobsPair, JobsKeepApart
  <2>3. SharesHaveJobs'
    <3> SUFFICES ASSUME NEW t \in Slug, Present(t)'
                 PROVE  \E k \in JobId : JobExists(k)' /\ JobRoot(k)' = Root(t)'
      BY DEF SharesHaveJobs
    <3>1. CASE t = s
      BY <3>1, <1>8, <1>12
    <3>2. CASE t # s
      <4>1. PICK k \in JobId : JobExists(k) /\ JobRoot(k) = Root(t)
        BY <1>8, <3>2 DEF SharesAndJobsPair, SharesHaveJobs
      <4>2. k # j
        BY <1>2, <4>1
      <4> QED BY <1>8, <1>12, <3>2, <4>1, <4>2
    <3> QED BY <3>1, <3>2
  <2> QED BY <2>1, <2>2, <2>3 DEF SharesAndJobsPair
<1>14. StatusesAgree'
  BY <1>5, <1>6, <1>12 DEF StatusesAgree
<1>15. LiveShareKeepsObject'
  BY <1>2, <1>5, <1>6, <1>8 DEF LiveShareKeepsObject, Live
<1>16. NoRebinding'
  BY <1>2 DEF NoRebinding
<1> QED BY <1>4, <1>10, <1>13, <1>14, <1>15, <1>16

\* A claim, of whichever queued job: which one it is matters to nothing below.
ClaimAny(j) ==
    /\ jobs[j].status = "queued"
    /\ jobs' = [jobs EXCEPT ![j].status = "running"]
    /\ UNCHANGED <<aliases, objects, derivatives, history, now>>

LEMMA ClaimAnyKeeps ==
    ASSUME IInv, NEW j \in JobId, ClaimAny(j)
    PROVE  IInv'
<1> USE DEF IInv
<1>1. /\ jobs[j].status = "queued"
      /\ jobs' = [jobs EXCEPT ![j].status = "running"]
      /\ UNCHANGED <<aliases, objects, derivatives, history, now>>
  BY DEF ClaimAny
<1>2. TypeOK'
  BY <1>1 DEF TypeOK, JobRow, JobStatus
<1>3. \A k \in JobId : /\ JobExists(k)' = JobExists(k)
                       /\ jobs'[k].alias = jobs[k].alias
                       /\ jobs'[k].owner = jobs[k].owner
                       /\ jobs'[k].upload = jobs[k].upload
                       /\ jobs'[k].target = jobs[k].target
                       /\ jobs'[k].status = IF k = j THEN "running" ELSE jobs[k].status
  BY <1>1 DEF TypeOK, JobRow, JobExists
<1>4. RedirectsFlat' /\ \A t \in Slug : Present(t)' = Present(t) /\ Live(t)' = Live(t)
  BY <1>1 DEF RedirectsFlat, IsRoot, Present, Live, Visible
<1>5. SharesAndJobsPair' /\ \A k \in JobId : JobExists(k) => JobRoot(k)' = JobRoot(k)
  BY <1>1, <1>3, <1>4, PairKept
<1>6. StatusesAgree'
  BY <1>1, <1>3, <1>5 DEF StatusesAgree
<1>7. LiveShareKeepsObject' /\ NoRebinding'
  BY <1>1, <1>4 DEF LiveShareKeepsObject, NoRebinding
<1> QED BY <1>2, <1>4, <1>5, <1>6, <1>7

LEMMA ClaimKeeps ==
    ASSUME IInv, NEW j \in JobId, ClaimNextProcessingJob(j)
    PROVE  IInv'
BY ClaimAnyKeeps DEF ClaimAny, ClaimNextProcessingJob, NextInQueue

\* The share a running job completes is its own, still pending and without an
\* object: that is why nothing is replaced.
LEMMA CompleteKeeps ==
    ASSUME IInv, NEW j \in JobId, NEW x \in Sha, NEW e \in Ext, NEW thumb \in BOOLEAN,
           CompleteProcessingJob(j, x, e, thumb)
    PROVE  IInv'
<1> USE DEF IInv
<1>1. jobs[j].status = "running" /\ JobExists(j)
  BY DEF CompleteProcessingJob, Completable, JobExists
<1>2. PICK t \in Slug :
          /\ Resolves(jobs[j].alias, t)
          /\ aliases' = [aliases EXCEPT ![t] = [@ EXCEPT !.object = x, !.status = "ready"]]
          /\ history' = history \cup Replaced(t, x)
  BY DEF CompleteProcessingJob
<1>3. /\ jobs[j].alias \in Slug /\ jobs[j].upload \in Upload
      /\ Present(jobs[j].alias)
  BY <1>1, JobHasShare
<1>4. t = JobRoot(j)
  BY <1>2, <1>3, ResolvesToRoot DEF JobRoot
<1>5. aliases[t].object = Null
  BY <1>1, <1>4 DEF StatusesAgree
<1>6. history' = {}
  BY <1>2, <1>5 DEF Replaced, NoRebinding
<1>7. /\ objects' = [objects EXCEPT ![x] = [status |-> "ready", ext |-> e, thumb |-> thumb]]
      /\ derivatives' = [derivatives EXCEPT ![<<jobs[j].upload.source, jobs[j].upload.profile>>] = x]
      /\ jobs' = [jobs EXCEPT ![j] = [@ EXCEPT !.status = "completed", !.target = x]]
      /\ now' = now
  BY DEF CompleteProcessingJob
<1>8. TypeOK'
  <2>1. aliases' \in [Slug -> AliasRow]
    <3>1. [aliases[t] EXCEPT !.object = x, !.status = "ready"] \in AliasRow
      BY DEF TypeOK, AliasRow, AliasStatus
    <3> QED BY <1>2, <3>1 DEF TypeOK
  <2>2. jobs' \in [JobId -> JobRow]
    <3>1. [jobs[j] EXCEPT !.status = "completed", !.target = x] \in JobRow
      BY DEF TypeOK, JobRow, JobStatus
    <3> QED BY <1>7, <3>1 DEF TypeOK
  <2>3. objects' \in [Sha -> ObjectRow]
    BY <1>7 DEF TypeOK, ObjectRow, ObjectStatus
  <2>4. derivatives' \in [Sha \X Profile -> Sha \cup {Null}]
    BY <1>7 DEF TypeOK
  <2> QED BY <1>6, <1>7, <2>1, <2>2, <2>3, <2>4 DEF TypeOK
<1>9. \A s \in Slug :
          /\ aliases'[s].redirectTo = aliases[s].redirectTo
          /\ aliases'[s].owner = aliases[s].owner
          /\ aliases'[s].visibility = aliases[s].visibility
          /\ s = t => aliases'[s].object = x /\ aliases'[s].status = "ready"
          /\ s # t => aliases'[s] = aliases[s]
  BY <1>2 DEF TypeOK, AliasRow
<1>10. RedirectsFlat' /\ \A s \in Slug : /\ Present(s)' = Present(s)
                                         /\ Live(s)' = Live(s)
  BY <1>9, ShapeKept DEF Live
<1>11. \A k \in JobId : /\ JobExists(k)' = JobExists(k)
                        /\ jobs'[k].alias = jobs[k].alias
                        /\ jobs'[k].owner = jobs[k].owner
                        /\ jobs'[k].upload = jobs[k].upload
                        /\ k = j => jobs'[k].status = "completed" /\ jobs'[k].target = x
                        /\ k # j => jobs'[k] = jobs[k]
  BY <1>1, <1>7 DEF TypeOK, JobRow, JobExists
<1>12. SharesAndJobsPair' /\ \A k \in JobId : JobExists(k) => JobRoot(k)' = JobRoot(k)
  BY <1>9, <1>10, <1>11, PairKept
<1>13. \A k \in JobId \ {j} : JobExists(k) => JobRoot(k) \in Slug \ {t}
  BY <1>1, <1>4, JobHasShare DEF SharesAndJobsPair, JobsKeepApart
<1>14. StatusesAgree'
  <2> SUFFICES ASSUME NEW k \in JobId, JobExists(k)
               PROVE  /\ jobs'[k].status \in {"queued", "running"} =>
                            /\ aliases'[JobRoot(k)].visibility = "public"
                            /\ aliases'[JobRoot(k)].status = "pending"
                            /\ aliases'[JobRoot(k)].object = Null
                      /\ jobs'[k].status = "completed" =>
                            /\ aliases'[JobRoot(k)].status = "ready"
                            /\ aliases'[JobRoot(k)].object = jobs'[k].target
                            /\ aliases'[JobRoot(k)].object # Null
                      /\ jobs'[k].status = "failed" =>
                            /\ aliases'[JobRoot(k)].status = "failed"
                            /\ aliases'[JobRoot(k)].object = Null
                      /\ jobs'[k].status = "canceled" =>
                            /\ aliases'[JobRoot(k)].visibility = "deleted"
                            /\ aliases'[JobRoot(k)].object = Null
    BY <1>11, <1>12 DEF StatusesAgree
  <2>1. CASE k = j
    BY <2>1, <1>4, <1>9, <1>11, NullAssumption
  <2>2. CASE k # j
    BY <2>2, <1>9, <1>11, <1>13 DEF StatusesAgree
  <2> QED BY <2>1, <2>2
<1>15. LiveShareKeepsObject'
  <2> SUFFICES ASSUME NEW s \in Slug, Live(s), aliases'[s].object # Null
               PROVE  objects'[aliases'[s].object].status \in {"ready", "missing"}
    BY <1>10 DEF LiveShareKeepsObject
  <2>1. \A y \in Sha : objects'[y].status = IF y = x THEN "ready" ELSE objects[y].status
    BY <1>7 DEF TypeOK, ObjectRow
  <2>2. aliases[s].object \in Sha \cup {Null}
    BY DEF TypeOK, AliasRow
  <2> QED BY <1>9, <2>1, <2>2 DEF LiveShareKeepsObject
<1>16. NoRebinding'
  BY <1>6 DEF NoRebinding
<1> QED BY <1>8, <1>10, <1>12, <1>14, <1>15, <1>16

\* A failure settles the share of a running job; of a canceled one it finds
\* nothing visible to settle.
LEMMA FailKeeps ==
    ASSUME IInv, NEW j \in JobId, Failable(j), FailProcessingJob(j)
    PROVE  IInv'
<1> USE DEF IInv
<1>1. /\ jobs[j].status \in {"running", "canceled"} /\ JobExists(j)
      /\ jobs' = [jobs EXCEPT ![j].status = AfterFailure(@)]
      /\ aliases' = [s \in Slug |-> IF Resolves(jobs[j].alias, s)
                                      THEN [aliases[s] EXCEPT !.status = "failed"]
                                      ELSE aliases[s]]
      /\ UNCHANGED <<objects, derivatives, history, now>>
  BY DEF FailProcessingJob, Failable, JobExists
<1>2. /\ jobs[j].alias \in Slug /\ Present(jobs[j].alias)
      /\ JobRoot(j) \in Slug
  BY <1>1, JobHasShare
<1>3. \A s \in Slug : Resolves(jobs[j].alias, s) => s = JobRoot(j) /\ Visible(JobRoot(j))
  BY <1>2, ResolvesToRoot DEF JobRoot
<1>4. \A s \in Slug : /\ aliases'[s].redirectTo = aliases[s].redirectTo
                      /\ aliases'[s].owner = aliases[s].owner
                      /\ aliases'[s].visibility = aliases[s].visibility
                      /\ aliases'[s].object = aliases[s].object
                      /\ Resolves(jobs[j].alias, s) => aliases'[s].status = "failed"
                      /\ ~Resolves(jobs[j].alias, s) => aliases'[s] = aliases[s]
  BY <1>1 DEF TypeOK, AliasRow
<1>5. \A k \in JobId : /\ JobExists(k)' = JobExists(k)
                       /\ jobs'[k].alias = jobs[k].alias
                       /\ jobs'[k].owner = jobs[k].owner
                       /\ jobs'[k].upload = jobs[k].upload
                       /\ jobs'[k].target = jobs[k].target
                       /\ k # j => jobs'[k].status = jobs[k].status
                       /\ k = j => jobs'[k].status = AfterFailure(jobs[j].status)
  <2>1. AfterFailure(jobs[j].status) \in {"failed", "canceled"}
    BY <1>1 DEF AfterFailure
  <2> QED BY <1>1, <2>1 DEF TypeOK, JobRow, JobExists
<1>6. TypeOK'
  <2>1. aliases' \in [Slug -> AliasRow]
    BY <1>1 DEF TypeOK, AliasRow, AliasStatus
  <2>2. AfterFailure(jobs[j].status) \in JobStatus
    BY <1>1 DEF AfterFailure, JobStatus
  <2>3. jobs' \in [JobId -> JobRow]
    BY <1>1, <2>2 DEF TypeOK, JobRow
  <2> QED BY <1>1, <2>1, <2>3 DEF TypeOK
<1>7. RedirectsFlat' /\ \A s \in Slug : Present(s)' = Present(s) /\ Live(s)' = Live(s)
  BY <1>4, ShapeKept DEF Live
<1>8. SharesAndJobsPair' /\ \A k \in JobId : JobExists(k) => JobRoot(k)' = JobRoot(k)
  BY <1>4, <1>5, <1>7, PairKept
<1>9. \A k \in JobId \ {j} : JobExists(k) => /\ JobRoot(k) \in Slug
                                             /\ aliases'[JobRoot(k)] = aliases[JobRoot(k)]
  <2>1. \A k \in JobId \ {j} : JobExists(k) => JobRoot(k) \in Slug \ {JobRoot(j)}
    BY <1>1, JobHasShare DEF SharesAndJobsPair, JobsKeepApart
  <2> QED BY <1>3, <1>4, <2>1
<1>10. StatusesAgree'
  <2> SUFFICES ASSUME NEW k \in JobId, JobExists(k)
               PROVE  /\ jobs'[k].status \in {"queued", "running"} =>
                            /\ aliases'[JobRoot(k)].visibility = "public"
                            /\ aliases'[JobRoot(k)].status = "pending"
                            /\ aliases'[JobRoot(k)].object = Null
                      /\ jobs'[k].status = "completed" =>
                            /\ aliases'[JobRoot(k)].status = "ready"
                            /\ aliases'[JobRoot(k)].object = jobs'[k].target
                            /\ aliases'[JobRoot(k)].object # Null
                      /\ jobs'[k].status = "failed" =>
                            /\ aliases'[JobRoot(k)].status = "failed"
                            /\ aliases'[JobRoot(k)].object = Null
                      /\ jobs'[k].status = "canceled" =>
                            /\ aliases'[JobRoot(k)].visibility = "deleted"
                            /\ aliases'[JobRoot(k)].object = Null
    BY <1>5, <1>8 DEF StatusesAgree
  <2>1. CASE k # j
    BY <2>1, <1>5, <1>9 DEF StatusesAgree
  <2>2. CASE k = j /\ jobs[j].status = "running"
    <3>1. /\ aliases[JobRoot(j)].visibility = "public" /\ aliases[JobRoot(j)].object = Null
      BY <1>1, <2>2 DEF StatusesAgree
    <3>2. Resolves(jobs[j].alias, JobRoot(j))
      BY <1>2, <3>1, RootIsResolved DEF JobRoot, Visible
    <3> QED BY <1>2, <1>4, <1>5, <2>2, <3>1, <3>2 DEF AfterFailure
  <2>3. CASE k = j /\ jobs[j].status = "canceled"
    <3>1. /\ aliases[JobRoot(j)].visibility = "deleted" /\ aliases[JobRoot(j)].object = Null
      BY <1>1, <2>3 DEF StatusesAgree
    <3> QED BY <1>2, <1>4, <1>5, <2>3, <3>1 DEF AfterFailure
  <2> QED BY <1>1, <2>1, <2>2, <2>3
<1>11. LiveShareKeepsObject' /\ NoRebinding'
  BY <1>1, <1>4, <1>7 DEF LiveShareKeepsObject, NoRebinding
<1> QED BY <1>6, <1>7, <1>8, <1>10, <1>11

\* Renaming moves every name whose current name was s to the new name, in one
\* hop, and no other.
LEMMA RenameMovesNames ==
    ASSUME TypeOK, RedirectsFlat, NEW s \in Slug, NEW o \in Owner, NEW new \in Slug,
           RenameAlias(s, o, new)
    PROVE  /\ aliases \in [Slug -> AliasRow] /\ s # new /\ ~Present(new)
           /\ Visible(s) /\ IsRoot(s) /\ aliases[s].owner = o
           /\ aliases'[new] = aliases[s] /\ Root(new)' = new
           /\ \A t \in Slug \ {new} :
                 /\ aliases'[t].redirectTo = IF Present(t) /\ Root(t) = s
                                               THEN new ELSE aliases[t].redirectTo
                 /\ aliases'[t].object = aliases[t].object
                 /\ aliases'[t].owner = aliases[t].owner
                 /\ aliases'[t].visibility = aliases[t].visibility
                 /\ aliases'[t].status = aliases[t].status
                 /\ aliases'[t].opens = aliases[t].opens
                 /\ Present(t) => Root(t)' = IF Root(t) = s THEN new ELSE Root(t)
<1>1. /\ Visible(s) /\ IsRoot(s) /\ aliases[s].owner = o
      /\ ~Present(new)
      /\ aliases' = RenamedRows(s, o, new)
      /\ aliases \in [Slug -> AliasRow]
  BY DEF RenameAlias, OwnedCurrent, NameFree, TypeOK
<1>2. s # new
  BY <1>1 DEF Present, Visible
<1>3. \A t \in Slug : t \in Family(s, o) <=> Present(t) /\ Root(t) = s
  <2> SUFFICES ASSUME NEW t \in Slug
               PROVE  t \in Family(s, o) <=> Present(t) /\ Root(t) = s
    OBVIOUS
  <2>1. CASE t = s
    BY <2>1, <1>1 DEF Family, Present, Visible, Root
  <2>2. CASE t # s /\ IsRoot(t)
    BY <2>2, NullAssumption DEF Family, Root, IsRoot
  <2>3. CASE t # s /\ ~IsRoot(t)
    BY <2>3, <1>1 DEF Family, Present, Visible, Root, RedirectsFlat
  <2> QED BY <2>1, <2>2, <2>3
<1>4. aliases'[new] = aliases[s]
  BY <1>1 DEF RenamedRows
<1>5. \A t \in Slug \ {new} :
          /\ Present(t) /\ Root(t) = s => aliases'[t] = [aliases[t] EXCEPT !.redirectTo = new]
          /\ ~(Present(t) /\ Root(t) = s) => aliases'[t] = aliases[t]
  BY <1>1, <1>3 DEF RenamedRows
<1>6. \A t \in Slug \ {new} :
                 /\ aliases'[t].redirectTo = IF Present(t) /\ Root(t) = s
                                               THEN new ELSE aliases[t].redirectTo
                 /\ aliases'[t].object = aliases[t].object
                 /\ aliases'[t].owner = aliases[t].owner
                 /\ aliases'[t].visibility = aliases[t].visibility
                 /\ aliases'[t].status = aliases[t].status
                 /\ aliases'[t].opens = aliases[t].opens
  BY <1>1, <1>5 DEF AliasRow
<1>7. Root(new)' = new
  BY <1>1, <1>4 DEF Root, IsRoot
<1>8. new # Null
  BY NullAssumption
<1>9. \A t \in Slug \ {new} : Present(t) => Root(t)' = IF Root(t) = s THEN new ELSE Root(t)
  BY <1>6, <1>8 DEF Root, IsRoot
<1> QED BY <1>1, <1>2, <1>4, <1>6, <1>7, <1>9

LEMMA RenameKeeps ==
    ASSUME IInv, NEW s \in Slug, NEW o \in Owner, NEW new \in Slug, RenameAlias(s, o, new)
    PROVE  IInv'
<1> USE DEF IInv
<1>1. /\ aliases \in [Slug -> AliasRow] /\ s # new /\ ~Present(new)
      /\ Visible(s) /\ IsRoot(s) /\ aliases[s].owner = o
      /\ aliases'[new] = aliases[s] /\ Root(new)' = new
  BY RenameMovesNames
<1>2. \A t \in Slug \ {new} :
          /\ aliases'[t].redirectTo = IF Present(t) /\ Root(t) = s
                                        THEN new ELSE aliases[t].redirectTo
          /\ aliases'[t].object = aliases[t].object
          /\ aliases'[t].owner = aliases[t].owner
          /\ aliases'[t].visibility = aliases[t].visibility
          /\ aliases'[t].status = aliases[t].status
          /\ Present(t) => Root(t)' = IF Root(t) = s THEN new ELSE Root(t)
  BY RenameMovesNames
<1>3. UNCHANGED <<jobs, objects, derivatives, history, now>>
  BY DEF RenameAlias
<1>4. TypeOK'
  <2>1. aliases' = RenamedRows(s, o, new)
    BY DEF RenameAlias
  <2>2. aliases' \in [Slug -> AliasRow]
    BY <1>1, <2>1 DEF RenamedRows, AliasRow
  <2> QED BY <1>3, <2>2 DEF TypeOK
<1>5. /\ Present(new)' /\ IsRoot(new)'
      /\ \A t \in Slug \ {new} : Present(t)' = Present(t) /\ Visible(t)' = Visible(t)
  BY <1>1, <1>2 DEF Present, Visible, IsRoot
<1>6. IsRoot(new) /\ \A t \in Slug : aliases[t].redirectTo # new
  BY <1>1, FreeNameIsUnused
<1>7. \A t \in Slug \ {new} : IsRoot(t)' <=> IsRoot(t) /\ t # s
  <2> SUFFICES ASSUME NEW t \in Slug \ {new}
               PROVE  IsRoot(t)' <=> IsRoot(t) /\ t # s
    OBVIOUS
  <2>1. new # Null
    BY NullAssumption
  <2>2. Present(s) /\ Root(s) = s
    BY <1>1 DEF Present, Visible, Root
  <2>3. IsRoot(t) /\ t # s => Root(t) # s
    BY DEF Root
  <2> QED BY <1>2, <2>1, <2>2, <2>3 DEF IsRoot
<1>8. RedirectsFlat'
  <2> SUFFICES ASSUME NEW t \in Slug, ~IsRoot(t)'
               PROVE  /\ Present(t)'
                      /\ Present(aliases[t].redirectTo)'
                      /\ IsRoot(aliases[t].redirectTo)'
                      /\ aliases'[aliases'[t].redirectTo].owner = aliases'[t].owner
                      /\ aliases'[aliases'[t].redirectTo].visibility = aliases'[t].visibility
    BY DEF RedirectsFlat
  <2>1. t # new
    BY <1>5
  <2>2. Present(t)
    BY <1>1, <1>7, <2>1 DEF RedirectsFlat, Present, Visible
  <2>3. CASE Root(t) = s
    <3>1. aliases'[t].redirectTo = new
      BY <1>2, <2>1, <2>2, <2>3
    <3>2. aliases[t].owner = aliases[s].owner /\ aliases[t].visibility = aliases[s].visibility
      BY <2>2, <2>3, RootIsCurrent
    <3> QED BY <1>1, <1>2, <1>5, <2>1, <2>2, <3>1, <3>2
  <2>4. CASE Root(t) # s
    <3>1. aliases'[t].redirectTo = aliases[t].redirectTo
      BY <1>2, <2>1, <2>2, <2>4
    <3>2. ~IsRoot(t) /\ Root(t) = aliases[t].redirectTo
      BY <3>1 DEF IsRoot, Root
    <3>3. Root(t) \in Slug \ {s, new} /\ Present(Root(t)) /\ IsRoot(Root(t))
      BY <1>1, <2>2, <2>4, RootIsCurrent
    <3>4. /\ aliases[Root(t)].owner = aliases[t].owner
          /\ aliases[Root(t)].visibility = aliases[t].visibility
      BY <2>2, RootIsCurrent
    <3> QED BY <1>2, <1>5, <1>7, <2>1, <2>2, <3>1, <3>2, <3>3, <3>4
  <2> QED BY <2>3, <2>4
<1>9. \A k \in JobId : /\ JobExists(k)' = JobExists(k)
                       /\ JobExists(k) => /\ jobs[k].alias \in Slug \ {new}
                                          /\ JobRoot(k) \in Slug \ {new}
                                          /\ JobRoot(k)' = IF JobRoot(k) = s THEN new ELSE JobRoot(k)
  <2>1. \A k \in JobId : JobExists(k) =>
            /\ jobs[k].alias \in Slug \ {new}
            /\ JobRoot(k) \in Slug \ {new}
            /\ Present(jobs[k].alias)
    BY <1>1, JobHasShare
  <2>2. \A k \in JobId : JobExists(k)' = JobExists(k) /\ jobs'[k] = jobs[k]
    BY <1>3 DEF JobExists
  <2> QED BY <1>2, <2>1, <2>2 DEF JobRoot
<1>10. SharesAndJobsPair'
  <2>1. JobsHaveShares'
    BY <1>2, <1>3, <1>5, <1>9 DEF SharesAndJobsPair, JobsHaveShares
  <2>2. JobsKeepApart'
    BY <1>9 DEF SharesAndJobsPair, JobsKeepApart
  <2>3. SharesHaveJobs'
    <3> SUFFICES ASSUME NEW t \in Slug, Present(t)'
                 PROVE  \E k \in JobId : JobExists(k)' /\ JobRoot(k)' = Root(t)'
      BY DEF SharesHaveJobs
    <3>1. CASE t = new
      <4>1. Present(s) /\ Root(s) = s
        BY <1>1 DEF Present, Visible, Root
      <4>2. PICK k \in JobId : JobExists(k) /\ JobRoot(k) = s
        BY <4>1 DEF SharesAndJobsPair, SharesHaveJobs
      <4> QED BY <1>1, <1>9, <3>1, <4>2
    <3>2. CASE t # new
      <4>1. PICK k \in JobId : JobExists(k) /\ JobRoot(k) = Root(t)
        BY <1>5, <3>2 DEF SharesAndJobsPair, SharesHaveJobs
      <4> QED BY <1>2, <1>5, <1>9, <3>2, <4>1
    <3> QED BY <3>1, <3>2
  <2> QED BY <2>1, <2>2, <2>3 DEF SharesAndJobsPair
<1>11. \A k \in JobId : JobExists(k) =>
           /\ aliases'[JobRoot(k)'].visibility = aliases[JobRoot(k)].visibility
           /\ aliases'[JobRoot(k)'].status = aliases[JobRoot(k)].status
           /\ aliases'[JobRoot(k)'].object = aliases[JobRoot(k)].object
  BY <1>1, <1>2, <1>9
<1>12. StatusesAgree'
  BY <1>3, <1>9, <1>11 DEF StatusesAgree
<1>13. LiveShareKeepsObject'
  <2> SUFFICES ASSUME NEW t \in Slug, Live(t)', aliases'[t].object # Null
               PROVE  objects'[aliases'[t].object].status \in {"ready", "missing"}
    BY DEF LiveShareKeepsObject
  <2>1. CASE t = new
    BY <2>1, <1>1, <1>3 DEF LiveShareKeepsObject, Live
  <2>2. CASE t # new
    BY <2>2, <1>2, <1>3, <1>5, <1>7 DEF LiveShareKeepsObject, Live
  <2> QED BY <2>1, <2>2
<1>14. NoRebinding'
  BY <1>3 DEF NoRebinding
<1> QED BY <1>4, <1>8, <1>10, <1>12, <1>13, <1>14

\* Deleting a share reaches exactly the names that lead to it and, because a
\* job has the owner of its share, exactly its unfinished job.
LEMMA DeleteReaches ==
    ASSUME IInv, NEW s \in Slug, NEW o \in Owner, DeleteAlias(s, o)
    PROVE  /\ Live(s) /\ Present(s) /\ Root(s) = s
           /\ \A t \in Slug :
                 /\ aliases'[t].redirectTo = aliases[t].redirectTo
                 /\ aliases'[t].object = aliases[t].object
                 /\ aliases'[t].owner = aliases[t].owner
                 /\ aliases'[t].status = aliases[t].status
                 /\ aliases'[t].opens = aliases[t].opens
                 /\ aliases'[t].visibility = IF Present(t) /\ Root(t) = s
                                               THEN "deleted" ELSE aliases[t].visibility
           /\ \A j \in JobId :
                 j \in CanceledBy(s, o) <=>
                     JobExists(j) /\ jobs[j].status \in {"queued", "running"} /\ JobRoot(j) = s
<1> USE DEF IInv
<1>1. /\ Visible(s) /\ IsRoot(s) /\ aliases[s].owner = o
      /\ aliases' = DeletedRows(s, o)
      /\ aliases \in [Slug -> AliasRow]
  BY DEF DeleteAlias, OwnedCurrent, TypeOK
<1>2. Live(s) /\ Present(s) /\ Root(s) = s
  BY <1>1 DEF Live, Present, Visible, Root
<1>3. s # Null
  BY NullAssumption
<1>4. \A t \in Slug : t \in Family(s, o) <=> Present(t) /\ Root(t) = s
  <2> SUFFICES ASSUME NEW t \in Slug
               PROVE  t \in Family(s, o) <=> Present(t) /\ Root(t) = s
    OBVIOUS
  <2>1. CASE t = s
    BY <2>1, <1>1, <1>2 DEF Family
  <2>2. CASE t # s /\ IsRoot(t)
    BY <2>2, <1>3 DEF Family, Root, IsRoot
  <2>3. CASE t # s /\ ~IsRoot(t)
    BY <2>3, <1>1 DEF Family, Present, Visible, Root, RedirectsFlat
  <2> QED BY <2>1, <2>2, <2>3
<1>5. \A t \in Slug :
          /\ Present(t) /\ Root(t) = s => aliases'[t] = [aliases[t] EXCEPT !.visibility = "deleted"]
          /\ ~(Present(t) /\ Root(t) = s) => aliases'[t] = aliases[t]
  BY <1>1, <1>4 DEF DeletedRows
<1>6. \A t \in Slug :
                 /\ aliases'[t].redirectTo = aliases[t].redirectTo
                 /\ aliases'[t].object = aliases[t].object
                 /\ aliases'[t].owner = aliases[t].owner
                 /\ aliases'[t].status = aliases[t].status
                 /\ aliases'[t].opens = aliases[t].opens
                 /\ aliases'[t].visibility = IF Present(t) /\ Root(t) = s
                                               THEN "deleted" ELSE aliases[t].visibility
  BY <1>1, <1>5 DEF AliasRow
<1>7. \A j \in JobId :
          j \in CanceledBy(s, o) <=>
              JobExists(j) /\ jobs[j].status \in {"queued", "running"} /\ JobRoot(j) = s
  <2> SUFFICES ASSUME NEW j \in JobId, jobs[j].status \in {"queued", "running"}
               PROVE  j \in CanceledBy(s, o) <=> JobRoot(j) = s
    BY DEF CanceledBy, JobExists
  <2>1. JobExists(j)
    BY DEF JobExists
  <2>2. /\ jobs[j].alias \in Slug
        /\ aliases[jobs[j].alias].owner = jobs[j].owner
        /\ aliases[JobRoot(j)].owner = jobs[j].owner
    BY <2>1, JobHasShare DEF SharesAndJobsPair, JobsHaveShares
  <2>3. JobRoot(j) = s <=> jobs[j].alias = s \/ aliases[jobs[j].alias].redirectTo = s
    BY <1>1, <1>2, <1>3, <2>2 DEF JobRoot, Root, IsRoot
  <2>4. JobRoot(j) = s => jobs[j].owner = o
    BY <1>1, <2>2
  <2>5. CASE JobRoot(j) = s
    BY <2>2, <2>3, <2>4, <2>5 DEF CanceledBy
  <2>6. CASE JobRoot(j) # s
    BY <2>3, <2>6 DEF CanceledBy
  <2> QED BY <2>5, <2>6
<1> QED BY <1>2, <1>6, <1>7

LEMMA DeleteKeeps ==
    ASSUME IInv, NEW s \in Slug, NEW o \in Owner, DeleteAlias(s, o)
    PROVE  IInv'
<1> USE DEF IInv
<1>1. /\ Live(s) /\ Present(s) /\ Root(s) = s
      /\ \A t \in Slug :
             /\ aliases'[t].redirectTo = aliases[t].redirectTo
             /\ aliases'[t].object = aliases[t].object
             /\ aliases'[t].owner = aliases[t].owner
             /\ aliases'[t].status = aliases[t].status
             /\ aliases'[t].visibility = IF Present(t) /\ Root(t) = s
                                           THEN "deleted" ELSE aliases[t].visibility
  BY DeleteReaches
<1>2. \A j \in JobId :
          j \in CanceledBy(s, o) <=>
              JobExists(j) /\ jobs[j].status \in {"queued", "running"} /\ JobRoot(j) = s
  BY DeleteReaches
<1>3. /\ aliases' = DeletedRows(s, o)
      /\ jobs' = [j \in JobId |-> IF j \in CanceledBy(s, o)
                                    THEN [jobs[j] EXCEPT !.status = "canceled"] ELSE jobs[j]]
      /\ objects' = [x \in Sha |-> IF FreesObject(s) /\ x = aliases[s].object
                                     THEN [objects[x] EXCEPT !.status = "deleted"] ELSE objects[x]]
      /\ UNCHANGED <<derivatives, history, now>>
  BY DEF DeleteAlias
<1>4. TypeOK'
  <2>1. aliases' \in [Slug -> AliasRow]
    BY <1>3 DEF DeletedRows, TypeOK, AliasRow, Visibility
  <2>2. jobs' \in [JobId -> JobRow]
    <3>1. \A j \in JobId : jobs[j] \in JobRow
      BY DEF TypeOK
    <3>2. \A row \in JobRow : [row EXCEPT !.status = "canceled"] \in JobRow
      BY DEF JobRow, JobStatus
    <3> QED BY <1>3, <3>1, <3>2
  <2>3. objects' \in [Sha -> ObjectRow]
    <3>1. \A x \in Sha : objects[x] \in ObjectRow
      BY DEF TypeOK
    <3>2. \A row \in ObjectRow : [row EXCEPT !.status = "deleted"] \in ObjectRow
      BY DEF ObjectRow, ObjectStatus
    <3> QED BY <1>3, <3>1, <3>2
  <2> QED BY <1>3, <2>1, <2>2, <2>3 DEF TypeOK
<1>5. \A t \in Slug : /\ Present(t)' = Present(t) /\ IsRoot(t)' = IsRoot(t)
                      /\ Root(t)' = Root(t)
  BY <1>1 DEF Present, IsRoot, Root
<1>6. \A t \in Slug : Live(t)' => Live(t) /\ t # s
  BY <1>1, <1>5 DEF Live, Visible
<1>7. RedirectsFlat'
  <2> SUFFICES ASSUME NEW t \in Slug, ~IsRoot(t)
               PROVE  /\ Present(t)
                      /\ Present(aliases[t].redirectTo)'
                      /\ IsRoot(aliases[t].redirectTo)'
                      /\ aliases'[aliases[t].redirectTo].owner = aliases'[t].owner
                      /\ aliases'[aliases[t].redirectTo].visibility = aliases'[t].visibility
    BY <1>1, <1>5 DEF RedirectsFlat
  <2>1. aliases[t].redirectTo \in Slug
    BY DEF TypeOK, AliasRow, IsRoot
  <2>2. Root(t) = aliases[t].redirectTo /\ Root(Root(t)) = Root(t)
    BY DEF Root, RedirectsFlat
  <2> QED BY <1>1, <1>5, <2>1, <2>2 DEF RedirectsFlat
<1>8. \A k \in JobId :
          /\ JobExists(k)' = JobExists(k)
          /\ jobs'[k].alias = jobs[k].alias
          /\ jobs'[k].owner = jobs[k].owner
          /\ jobs'[k].upload = jobs[k].upload
          /\ jobs'[k].target = jobs[k].target
          /\ jobs'[k].status = IF k \in CanceledBy(s, o) THEN "canceled" ELSE jobs[k].status
  BY <1>2, <1>3 DEF TypeOK, JobRow, JobExists
<1>9. SharesAndJobsPair' /\ \A k \in JobId : JobExists(k) => JobRoot(k)' = JobRoot(k)
  BY <1>1, <1>5, <1>8, PairKept
<1>10. \A k \in JobId : JobExists(k) =>
           /\ JobRoot(k) \in Slug /\ Present(JobRoot(k)) /\ Root(JobRoot(k)) = JobRoot(k)
  BY JobHasShare DEF Root
<1>11. StatusesAgree'
  <2> SUFFICES ASSUME NEW k \in JobId, JobExists(k)
               PROVE  /\ jobs'[k].status \in {"queued", "running"} =>
                            /\ aliases'[JobRoot(k)].visibility = "public"
                            /\ aliases'[JobRoot(k)].status = "pending"
                            /\ aliases'[JobRoot(k)].object = Null
                      /\ jobs'[k].status = "completed" =>
                            /\ aliases'[JobRoot(k)].status = "ready"
                            /\ aliases'[JobRoot(k)].object = jobs'[k].target
                            /\ aliases'[JobRoot(k)].object # Null
                      /\ jobs'[k].status = "failed" =>
                            /\ aliases'[JobRoot(k)].status = "failed"
                            /\ aliases'[JobRoot(k)].object = Null
                      /\ jobs'[k].status = "canceled" =>
                            /\ aliases'[JobRoot(k)].visibility = "deleted"
                            /\ aliases'[JobRoot(k)].object = Null
    BY <1>8, <1>9 DEF StatusesAgree
  <2>1. CASE k \in CanceledBy(s, o)
    BY <2>1, <1>1, <1>2, <1>8, <1>10 DEF StatusesAgree
  <2>2. CASE k \notin CanceledBy(s, o)
    BY <2>2, <1>1, <1>2, <1>8, <1>10 DEF StatusesAgree
  <2> QED BY <2>1, <2>2
<1>12. LiveShareKeepsObject'
  <2> SUFFICES ASSUME NEW t \in Slug, Live(t)', aliases'[t].object # Null
               PROVE  objects'[aliases'[t].object].status \in {"ready", "missing"}
    BY DEF LiveShareKeepsObject
  <2>1. /\ t # s /\ Live(t) /\ aliases[t].object \in Sha
        /\ objects[aliases[t].object].status \in {"ready", "missing"}
    BY <1>1, <1>6 DEF LiveShareKeepsObject, TypeOK, AliasRow
  <2>2. FreesObject(s) => aliases[t].object # aliases[s].object
    BY <2>1 DEF FreesObject, OtherReferences, Live
  <2> QED BY <1>1, <1>3, <2>1, <2>2
<1>13. NoRebinding'
  BY <1>3 DEF NoRebinding
<1> QED BY <1>4, <1>7, <1>9, <1>11, <1>12, <1>13

LEMMA MarkKeeps ==
    ASSUME IInv, NEW x \in Sha, MarkObjectUnavailable(x)
    PROVE  IInv'
<1> USE DEF IInv
<1>1. /\ objects' = [objects EXCEPT ![x].status = "missing"]
      /\ UNCHANGED <<aliases, jobs, derivatives, history, now>>
  BY DEF MarkObjectUnavailable
<1>2. TypeOK'
  BY <1>1 DEF TypeOK, ObjectRow, ObjectStatus
<1>3. LiveShareKeepsObject'
  BY <1>1 DEF LiveShareKeepsObject, Live, Visible, IsRoot, TypeOK, ObjectRow, AliasRow
<1>4. RedirectsFlat' /\ \A t \in Slug : Present(t)' = Present(t)
  BY <1>1 DEF RedirectsFlat, IsRoot, Present
<1>5. SharesAndJobsPair' /\ \A k \in JobId : JobExists(k) => JobRoot(k)' = JobRoot(k)
  BY <1>1, <1>4, PairKept DEF JobExists
<1>6. StatusesAgree' /\ NoRebinding'
  BY <1>1, <1>5 DEF StatusesAgree, NoRebinding, JobExists
<1> QED BY <1>2, <1>3, <1>4, <1>5, <1>6

LEMMA RecordKeeps ==
    ASSUME IInv, NEW s \in Slug, RecordAliasRedirect(s)
    PROVE  IInv'
<1> USE DEF IInv
<1>1. /\ aliases' = [aliases EXCEPT ![s].opens = @ + 1]
      /\ UNCHANGED <<jobs, objects, derivatives, history, now>>
  BY DEF RecordAliasRedirect
<1>2. \A t \in Slug : /\ aliases'[t].redirectTo = aliases[t].redirectTo
                      /\ aliases'[t].owner = aliases[t].owner
                      /\ aliases'[t].visibility = aliases[t].visibility
                      /\ aliases'[t].object = aliases[t].object
                      /\ aliases'[t].status = aliases[t].status
  BY <1>1 DEF TypeOK, AliasRow
<1>3. TypeOK'
  BY <1>1 DEF TypeOK, AliasRow
<1>4. RedirectsFlat' /\ \A t \in Slug : Present(t)' = Present(t) /\ Live(t)' = Live(t)
  BY <1>2, ShapeKept DEF Live
<1>5. /\ SharesAndJobsPair'
      /\ \A k \in JobId : JobExists(k)' = JobExists(k)
      /\ \A k \in JobId : JobExists(k) => JobRoot(k)' = JobRoot(k)
  BY <1>1, <1>2, <1>4, PairKept DEF JobExists
<1>6. StatusesAgree'
  BY <1>1, <1>2, <1>5, JobHasShare DEF StatusesAgree
<1>7. LiveShareKeepsObject' /\ NoRebinding'
  BY <1>1, <1>2, <1>4 DEF LiveShareKeepsObject, NoRebinding
<1> QED BY <1>3, <1>4, <1>5, <1>6, <1>7

\* A step that changes no table.
LEMMA StutterKeeps ==
    ASSUME IInv, UNCHANGED vars
    PROVE  IInv'
<1>1. UNCHANGED <<aliases, jobs, objects, derivatives, history, now>>
  BY DEF vars
<1>2. TypeOK'
  BY <1>1 DEF IInv, TypeOK
<1>3. RedirectsFlat'
  BY <1>1 DEF IInv, RedirectsFlat, IsRoot, Present
<1>4. SharesAndJobsPair'
  BY <1>1 DEF IInv, SharesAndJobsPair, JobsHaveShares, JobsKeepApart, SharesHaveJobs,
              Present, IsRoot, Root, JobRoot, JobExists
<1>5. StatusesAgree'
  BY <1>1 DEF IInv, StatusesAgree, JobRoot, JobExists, Root, IsRoot
<1>6. LiveShareKeepsObject' /\ NoRebinding'
  BY <1>1 DEF IInv, LiveShareKeepsObject, NoRebinding, Live, Visible, IsRoot
<1> QED BY <1>2, <1>3, <1>4, <1>5, <1>6 DEF IInv

LEMMA NextKeeps == IInv /\ [Next]_vars => IInv'
<1> SUFFICES ASSUME IInv, [Next]_vars PROVE IInv'
  OBVIOUS
<1>1. ASSUME NEW j \in JobId, NEW o \in Owner, NEW s \in Slug, NEW u \in Upload,
             CreateIngestJob(j, o, s, u)
      PROVE  IInv'
  BY <1>1, CreateKeeps
<1>2. ASSUME NEW j \in JobId, ClaimNextProcessingJob(j) PROVE IInv'
  BY <1>2, ClaimKeeps
<1>3. ASSUME NEW j \in JobId, NEW x \in Sha, NEW e \in Ext, NEW thumb \in BOOLEAN,
             CompleteProcessingJob(j, x, e, thumb)
      PROVE  IInv'
  BY <1>3, CompleteKeeps
<1>4. ASSUME NEW j \in JobId, Failable(j), FailProcessingJob(j) PROVE IInv'
  BY <1>4, FailKeeps
<1>5. ASSUME NEW s \in Slug, NEW new \in Slug, NEW o \in Owner, RenameAlias(s, o, new)
      PROVE  IInv'
  BY <1>5, RenameKeeps
<1>6. ASSUME NEW s \in Slug, NEW o \in Owner, DeleteAlias(s, o) PROVE IInv'
  BY <1>6, DeleteKeeps
<1>7. ASSUME NEW x \in Sha, MarkObjectUnavailable(x) PROVE IInv'
  BY <1>7, MarkKeeps
<1>8. ASSUME NEW s \in Slug, RecordAliasRedirect(s) PROVE IInv'
  BY <1>8, RecordKeeps
<1>9. CASE UNCHANGED vars
  BY <1>9, StutterKeeps
<1> QED BY <1>1, <1>2, <1>3, <1>4, <1>5, <1>6, <1>7, <1>8, <1>9 DEF Next

-----------------------------------------------------------------------------
(* What holds of every behaviour of the store. *)

\* The inductive invariant holds throughout: the strengthening that the other
\* theorems are read off.
THEOREM Invariance == Spec => []IInv
BY InitEstablishes, NextKeeps, PTL DEF Spec

\* Every column always holds a value of its type.
THEOREM TypeCorrect == Spec => []TypeOK
<1>1. IInv => TypeOK
  BY DEF IInv
<1> QED BY <1>1, Invariance, PTL

\* Old names always redirect to the current one in a single hop, however long
\* the chain of renames (RenameAlias).
THEOREM RedirectsStayFlat == Spec => []RedirectsFlat
<1>1. IInv => RedirectsFlat
  BY DEF IInv
<1> QED BY <1>1, Invariance, PTL

\* No two uploads ever share a name, and no share loses its upload.
THEOREM SharesAndJobsStayPaired == Spec => []SharesAndJobsPair
<1>1. IInv => SharesAndJobsPair
  BY DEF IInv
<1> QED BY <1>1, Invariance, PTL

\* A share is pending, ready, failed or deleted as its job has it, whatever
\* renames and deletions came between claim and completion.
THEOREM StatusesAlwaysAgree == Spec => []StatusesAgree
<1>1. IInv => StatusesAgree
  BY DEF IInv
<1> QED BY <1>1, Invariance, PTL

\* No deletion marks an object deleted that another share still shows.
THEOREM LiveSharesKeepObjects == Spec => []LiveShareKeepsObject
<1>1. IInv => LiveShareKeepsObject
  BY DEF IInv
<1> QED BY <1>1, Invariance, PTL

\* No name is ever pointed at other bytes: alias_history stays empty.
THEOREM NothingIsRebound == Spec => []NoRebinding
<1>1. IInv => NoRebinding
  BY DEF IInv
<1> QED BY <1>1, Invariance, PTL

-----------------------------------------------------------------------------
(* What no step ever does. *)

\* A finished job is never running again, so no method touches its row.
LEMMA FinishedStay ==
    ASSUME IInv, [Next]_vars, NEW j \in JobId,
           jobs[j].status \in {"completed", "failed", "canceled"}
    PROVE  jobs'[j] = jobs[j]
<1> USE DEF IInv
<1>1. jobs \in [JobId -> JobRow]
  BY DEF TypeOK
<1>2. ASSUME NEW k \in JobId, NEW o \in Owner, NEW s \in Slug, NEW u \in Upload,
             CreateIngestJob(k, o, s, u)
      PROVE  jobs'[j] = jobs[j]
  BY <1>1, <1>2 DEF CreateIngestJob
<1>3. ASSUME NEW k \in JobId, ClaimNextProcessingJob(k) PROVE jobs'[j] = jobs[j]
  BY <1>1, <1>3 DEF ClaimNextProcessingJob, NextInQueue
<1>4. ASSUME NEW k \in JobId, NEW x \in Sha, NEW e \in Ext, NEW thumb \in BOOLEAN,
             CompleteProcessingJob(k, x, e, thumb)
      PROVE  jobs'[j] = jobs[j]
  <2>1. k # j
    BY <1>4 DEF CompleteProcessingJob, Completable
  <2> QED BY <1>1, <1>4, <2>1 DEF CompleteProcessingJob
<1>5. ASSUME NEW k \in JobId, Failable(k), FailProcessingJob(k) PROVE jobs'[j] = jobs[j]
  <2>1. jobs' = [jobs EXCEPT ![k].status = AfterFailure(@)]
    BY <1>5 DEF FailProcessingJob
  <2>2. CASE k # j
    BY <1>1, <2>1, <2>2
  <2>3. CASE k = j
    <3>1. AfterFailure(jobs[j].status) = jobs[j].status
      BY DEF AfterFailure
    <3>2. [jobs[j] EXCEPT !.status = jobs[j].status] = jobs[j]
      BY <1>1 DEF JobRow
    <3> QED BY <1>1, <2>1, <2>3, <3>1, <3>2
  <2> QED BY <2>2, <2>3
<1>6. ASSUME NEW s \in Slug, NEW o \in Owner, DeleteAlias(s, o) PROVE jobs'[j] = jobs[j]
  BY <1>6 DEF DeleteAlias, CanceledBy
<1>7. CASE UNCHANGED jobs
  BY <1>7
<1> QED BY <1>2, <1>3, <1>4, <1>5, <1>6, <1>7
        DEF Next, vars, RenameAlias, MarkObjectUnavailable, RecordAliasRedirect

\* A job that completed, failed or was canceled keeps its row for good: neither
\* a late failure report nor a deletion rewrites it.
THEOREM FinishedJobsNeverChange == Spec => FinishedJobsStay
<1>1. IInv /\ [Next]_vars => [\A j \in JobId : jobs[j].status \in {"completed", "failed", "canceled"} =>
                                  jobs'[j] = jobs[j]]_vars
  BY FinishedStay
<1> QED BY <1>1, Invariance, PTL DEF Spec, FinishedJobsStay

\* What every step carries along: each name stays in the table with its owner,
\* its share keeps its content and loses no count, names of one share stay
\* together, and a job stays with the name it was given.
Carried ==
    /\ \A s \in Slug : Present(s) =>
          /\ Present(s)'
          /\ aliases'[s].owner = aliases[s].owner
          /\ aliases'[Root(s)'].opens >= aliases[Root(s)].opens
          /\ aliases[Root(s)].object # Null => aliases'[Root(s)'].object = aliases[Root(s)].object
    /\ \A s, t \in Slug : Present(s) /\ Present(t) /\ Root(s) = Root(t) => Root(s)' = Root(t)'
    /\ \A j \in JobId : JobExists(j) => JobExists(j)' /\ jobs'[j].alias = jobs[j].alias

\* A step that moves no row carries everything along if no row loses any of it.
LEMMA RowsCarried ==
    ASSUME TypeOK, RedirectsFlat,
           \A t \in Slug : Present(t) =>
               /\ Present(t)'
               /\ aliases'[t].redirectTo = aliases[t].redirectTo
               /\ aliases'[t].owner = aliases[t].owner
               /\ aliases'[t].opens >= aliases[t].opens
               /\ aliases[t].object # Null => aliases'[t].object = aliases[t].object,
           \A j \in JobId : JobExists(j) => JobExists(j)' /\ jobs'[j].alias = jobs[j].alias
    PROVE  Carried
<1>1. \A t \in Slug : Present(t) => Root(t)' = Root(t)
  BY DEF Root, IsRoot
<1>2. \A t \in Slug : Present(t) => Root(t) \in Slug /\ Present(Root(t))
  BY RootIsCurrent
<1> QED BY <1>1, <1>2 DEF Carried

LEMMA CreateCarries ==
    ASSUME IInv, NEW j \in JobId, NEW o \in Owner, NEW s \in Slug, NEW u \in Upload,
           CreateIngestJob(j, o, s, u)
    PROVE  Carried
<1> USE DEF IInv
<1>1. /\ jobs[j].status = "absent" /\ ~Present(s)
      /\ aliases' = [aliases EXCEPT ![s] = PendingAlias(o)]
      /\ jobs' = [jobs EXCEPT ![j] = QueuedJob(o, s, u)]
  BY DEF CreateIngestJob, NameFree
<1>2. \A t \in Slug : Present(t) => aliases'[t] = aliases[t] /\ aliases[t].opens \in Nat
  BY <1>1 DEF TypeOK, AliasRow
<1>3. \A k \in JobId : JobExists(k) => jobs'[k] = jobs[k]
  BY <1>1 DEF TypeOK, JobExists
<1> QED BY <1>2, <1>3, RowsCarried DEF Present, JobExists

\* Completion gives an object to a share that had none.
LEMMA CompleteCarries ==
    ASSUME IInv, NEW j \in JobId, NEW x \in Sha, NEW e \in Ext, NEW thumb \in BOOLEAN,
           CompleteProcessingJob(j, x, e, thumb)
    PROVE  Carried
<1> USE DEF IInv
<1>1. jobs[j].status = "running" /\ JobExists(j)
  BY DEF CompleteProcessingJob, Completable, JobExists
<1>2. PICK t \in Slug :
          /\ Resolves(jobs[j].alias, t)
          /\ aliases' = [aliases EXCEPT ![t] = [@ EXCEPT !.object = x, !.status = "ready"]]
  BY DEF CompleteProcessingJob
<1>3. t = JobRoot(j)
  BY <1>1, <1>2, JobHasShare, ResolvesToRoot DEF JobRoot
<1>4. aliases[t].object = Null
  BY <1>1, <1>3 DEF StatusesAgree
<1>5. jobs' = [jobs EXCEPT ![j] = [@ EXCEPT !.status = "completed", !.target = x]]
  BY DEF CompleteProcessingJob
<1>6. \A s \in Slug : /\ aliases'[s].visibility = aliases[s].visibility
                      /\ aliases'[s].redirectTo = aliases[s].redirectTo
                      /\ aliases'[s].owner = aliases[s].owner
                      /\ aliases'[s].opens = aliases[s].opens
                      /\ aliases[s].opens \in Nat
                      /\ s # t => aliases'[s].object = aliases[s].object
  BY <1>2 DEF TypeOK, AliasRow
<1>7. \A k \in JobId : JobExists(k) => JobExists(k)' /\ jobs'[k].alias = jobs[k].alias
  BY <1>5 DEF TypeOK, JobRow, JobExists
<1> QED BY <1>4, <1>6, <1>7, RowsCarried DEF Present

LEMMA FailCarries ==
    ASSUME IInv, NEW j \in JobId, Failable(j), FailProcessingJob(j)
    PROVE  Carried
<1> USE DEF IInv
<1>1. /\ jobs[j].status \in {"running", "canceled"}
      /\ jobs' = [jobs EXCEPT ![j].status = AfterFailure(@)]
      /\ aliases' = [s \in Slug |-> IF Resolves(jobs[j].alias, s)
                                      THEN [aliases[s] EXCEPT !.status = "failed"]
                                      ELSE aliases[s]]
  BY DEF FailProcessingJob, Failable
<1>2. \A s \in Slug : /\ aliases'[s].visibility = aliases[s].visibility
                      /\ aliases'[s].redirectTo = aliases[s].redirectTo
                      /\ aliases'[s].owner = aliases[s].owner
                      /\ aliases'[s].opens = aliases[s].opens
                      /\ aliases[s].opens \in Nat
                      /\ aliases'[s].object = aliases[s].object
  BY <1>1 DEF TypeOK, AliasRow
<1>3. \A k \in JobId : JobExists(k) => JobExists(k)' /\ jobs'[k].alias = jobs[k].alias
  BY <1>1 DEF TypeOK, JobRow, JobExists, AfterFailure
<1> QED BY <1>2, <1>3, RowsCarried DEF Present

\* The row moves to the new name with its counter and content, and every name
\* of the share comes along.
LEMMA RenameCarries ==
    ASSUME IInv, NEW s \in Slug, NEW o \in Owner, NEW new \in Slug, RenameAlias(s, o, new)
    PROVE  Carried
<1> USE DEF IInv
<1>1. /\ aliases \in [Slug -> AliasRow] /\ s # new /\ ~Present(new)
      /\ aliases'[new] = aliases[s] /\ Root(new)' = new
      /\ \A t \in Slug \ {new} :
             /\ aliases'[t].object = aliases[t].object
             /\ aliases'[t].owner = aliases[t].owner
             /\ aliases'[t].visibility = aliases[t].visibility
             /\ aliases'[t].opens = aliases[t].opens
             /\ Present(t) => Root(t)' = IF Root(t) = s THEN new ELSE Root(t)
  BY RenameMovesNames
<1>2. \A t \in Slug : Present(t) => t # new /\ Root(t) \in Slug \ {new} /\ Present(Root(t))
  BY <1>1, RootIsCurrent
<1>3. \A t \in Slug : aliases[t].opens \in Nat
  BY <1>1 DEF AliasRow
<1>4. \A t \in Slug : Present(t) =>
          /\ Present(t)'
          /\ aliases'[t].owner = aliases[t].owner
          /\ aliases'[Root(t)'].opens >= aliases[Root(t)].opens
          /\ aliases'[Root(t)'].object = aliases[Root(t)].object
  <2> SUFFICES ASSUME NEW t \in Slug, Present(t)
               PROVE  /\ Present(t)'
                      /\ aliases'[t].owner = aliases[t].owner
                      /\ aliases'[Root(t)'].opens >= aliases[Root(t)].opens
                      /\ aliases'[Root(t)'].object = aliases[Root(t)].object
    OBVIOUS
  <2>1. CASE Root(t) = s
    BY <2>1, <1>1, <1>2, <1>3 DEF Present
  <2>2. CASE Root(t) # s
    BY <2>2, <1>1, <1>2, <1>3 DEF Present
  <2> QED BY <2>1, <2>2
<1>5. \A t, q \in Slug : Present(t) /\ Present(q) /\ Root(t) = Root(q) => Root(t)' = Root(q)'
  BY <1>1, <1>2
<1>6. \A j \in JobId : JobExists(j) => JobExists(j)' /\ jobs'[j].alias = jobs[j].alias
  BY DEF RenameAlias, JobExists
<1> QED BY <1>4, <1>5, <1>6 DEF Carried

LEMMA DeleteCarries ==
    ASSUME IInv, NEW s \in Slug, NEW o \in Owner, DeleteAlias(s, o)
    PROVE  Carried
<1> USE DEF IInv
<1>1. \A t \in Slug : /\ aliases'[t].redirectTo = aliases[t].redirectTo
                      /\ aliases'[t].object = aliases[t].object
                      /\ aliases'[t].owner = aliases[t].owner
                      /\ aliases'[t].opens = aliases[t].opens
                      /\ aliases[t].opens \in Nat
                      /\ Present(t) => Present(t)'
  BY DeleteReaches DEF TypeOK, AliasRow, Present
<1>2. jobs' = [j \in JobId |-> IF j \in CanceledBy(s, o)
                                 THEN [jobs[j] EXCEPT !.status = "canceled"] ELSE jobs[j]]
  BY DEF DeleteAlias
<1>3. \A k \in JobId : JobExists(k) => JobExists(k)' /\ jobs'[k].alias = jobs[k].alias
  BY <1>2 DEF TypeOK, JobRow, JobExists
<1> QED BY <1>1, <1>3, RowsCarried

LEMMA RecordCarries ==
    ASSUME IInv, NEW s \in Slug, RecordAliasRedirect(s)
    PROVE  Carried
<1> USE DEF IInv
<1>1. aliases' = [aliases EXCEPT ![s].opens = @ + 1] /\ UNCHANGED jobs
  BY DEF RecordAliasRedirect
<1>2. \A t \in Slug : /\ aliases'[t].visibility = aliases[t].visibility
                      /\ aliases'[t].redirectTo = aliases[t].redirectTo
                      /\ aliases'[t].owner = aliases[t].owner
                      /\ aliases'[t].opens >= aliases[t].opens
                      /\ aliases'[t].object = aliases[t].object
  BY <1>1 DEF TypeOK, AliasRow
<1> QED BY <1>1, <1>2, RowsCarried DEF Present, JobExists

\* Claims and marks leave names alone, as does a step of nobody.
LEMMA NamesUntouched ==
    ASSUME IInv, UNCHANGED aliases,
           \A j \in JobId : JobExists(j) => JobExists(j)' /\ jobs'[j].alias = jobs[j].alias
    PROVE  Carried
<1>1. \A t \in Slug : aliases[t].opens \in Nat
  BY DEF IInv, TypeOK, AliasRow
<1> QED BY <1>1, RowsCarried DEF IInv, Present

LEMMA NextCarries == IInv /\ [Next]_vars => Carried
<1> SUFFICES ASSUME IInv, [Next]_vars PROVE Carried
  OBVIOUS
<1>1. ASSUME NEW j \in JobId, NEW o \in Owner, NEW s \in Slug, NEW u \in Upload,
             CreateIngestJob(j, o, s, u)
      PROVE  Carried
  BY <1>1, CreateCarries
<1>2. ASSUME NEW j \in JobId, ClaimNextProcessingJob(j) PROVE Carried
  <2>1. UNCHANGED aliases /\ jobs' = [jobs EXCEPT ![j].status = "running"]
    BY <1>2 DEF ClaimNextProcessingJob
  <2>2. \A k \in JobId : JobExists(k) => JobExists(k)' /\ jobs'[k].alias = jobs[k].alias
    BY <2>1 DEF IInv, TypeOK, JobRow, JobExists
  <2> QED BY <2>1, <2>2, NamesUntouched
<1>3. ASSUME NEW j \in JobId, NEW x \in Sha, NEW e \in Ext, NEW thumb \in BOOLEAN,
             CompleteProcessingJob(j, x, e, thumb)
      PROVE  Carried
  BY <1>3, CompleteCarries
<1>4. ASSUME NEW j \in JobId, Failable(j), FailProcessingJob(j) PROVE Carried
  BY <1>4, FailCarries
<1>5. ASSUME NEW s \in Slug, NEW new \in Slug, NEW o \in Owner, RenameAlias(s, o, new)
      PROVE  Carried
  BY <1>5, RenameCarries
<1>6. ASSUME NEW s \in Slug, NEW o \in Owner, DeleteAlias(s, o) PROVE Carried
  BY <1>6, DeleteCarries
<1>7. ASSUME NEW x \in Sha, MarkObjectUnavailable(x) PROVE Carried
  BY <1>7, NamesUntouched DEF MarkObjectUnavailable, JobExists
<1>8. ASSUME NEW s \in Slug, RecordAliasRedirect(s) PROVE Carried
  BY <1>8, RecordCarries
<1>9. CASE UNCHANGED vars
  BY <1>9, NamesUntouched DEF vars, JobExists
<1> QED BY <1>1, <1>2, <1>3, <1>4, <1>5, <1>6, <1>7, <1>8, <1>9 DEF Next

\* A name leads to one share of one user for good: renames carry old names
\* along, and neither they nor deletions free any.
THEOREM NamesStayWithTheirShare == Spec => NamesKeepTheirShare
<1>1. ASSUME IInv, [Next]_vars, NEW j \in JobId, NEW s \in Slug,
             JobExists(j), Present(s), Root(s) = JobRoot(j)
      PROVE  Present(s)' /\ Root(s)' = JobRoot(j)' /\ aliases'[s].owner = aliases[s].owner
  <2>1. Carried
    BY <1>1, NextCarries
  <2>2. jobs[j].alias \in Slug /\ Present(jobs[j].alias)
    BY <1>1, JobHasShare DEF IInv
  <2> QED BY <1>1, <2>1, <2>2 DEF Carried, JobRoot
<1>2. IInv /\ [Next]_vars =>
          [\A j \in JobId, s \in Slug :
              JobExists(j) /\ Present(s) /\ Root(s) = JobRoot(j) =>
                  /\ Present(s)'
                  /\ Root(s)' = JobRoot(j)'
                  /\ aliases'[s].owner = aliases[s].owner]_vars
  BY <1>1
<1> QED BY <1>2, Invariance, PTL DEF Spec, NamesKeepTheirShare

\* No rename, or anything else, loses a counted open or the content of a share.
THEOREM CountsAndContentStay == Spec => SharesKeepCountAndContent
<1>1. ASSUME IInv, [Next]_vars, NEW s \in Slug, Present(s)
      PROVE  /\ aliases'[Root(s)'].opens >= aliases[Root(s)].opens
             /\ aliases[Root(s)].object # Null =>
                    aliases'[Root(s)'].object = aliases[Root(s)].object
  BY <1>1, NextCarries DEF Carried
<1>2. IInv /\ [Next]_vars =>
          [\A s \in Slug : Present(s) =>
              /\ aliases'[Root(s)'].opens >= aliases[Root(s)].opens
              /\ aliases[Root(s)].object # Null =>
                     aliases'[Root(s)'].object = aliases[Root(s)].object]_vars
  BY <1>1
<1> QED BY <1>2, Invariance, PTL DEF Spec, SharesKeepCountAndContent

-----------------------------------------------------------------------------
(* What the modules around the store rely on as well. *)

\* A retired name is never a current one again.
LEMMA RetiredStays ==
    ASSUME IInv, [Next]_vars, NEW s \in Slug, ~IsRoot(s)
    PROVE  ~IsRoot(s)'
<1>a. Present(s) /\ aliases \in [Slug -> AliasRow]
  BY DEF IInv, TypeOK, RedirectsFlat
<1> SUFFICES aliases'[s].redirectTo = aliases[s].redirectTo
             \/ \E new \in Slug : aliases'[s].redirectTo = new
  BY NullAssumption DEF IsRoot
<1>1. ASSUME NEW j \in JobId, NEW o \in Owner, NEW t \in Slug, NEW u \in Upload,
             CreateIngestJob(j, o, t, u)
      PROVE  aliases'[s] = aliases[s]
  BY <1>1, <1>a DEF CreateIngestJob, NameFree
<1>2. ASSUME NEW j \in JobId, NEW x \in Sha, NEW e \in Ext, NEW thumb \in BOOLEAN,
             CompleteProcessingJob(j, x, e, thumb)
      PROVE  aliases'[s].redirectTo = aliases[s].redirectTo
  <2>1. PICK t \in Slug :
            aliases' = [aliases EXCEPT ![t] = [@ EXCEPT !.object = x, !.status = "ready"]]
    BY <1>2 DEF CompleteProcessingJob
  <2> QED BY <1>a, <2>1 DEF AliasRow
<1>3. ASSUME NEW j \in JobId, FailProcessingJob(j)
      PROVE  aliases'[s].redirectTo = aliases[s].redirectTo
  BY <1>3, <1>a DEF FailProcessingJob, AliasRow
<1>4. ASSUME NEW t \in Slug, NEW new \in Slug, NEW o \in Owner, RenameAlias(t, o, new)
      PROVE  aliases'[s].redirectTo \in {aliases[s].redirectTo, new}
  <2>1. s # new
    BY <1>4, <1>a DEF RenameAlias, NameFree
  <2>2. aliases'[s] = IF s \in Family(t, o) THEN [aliases[s] EXCEPT !.redirectTo = new]
                      ELSE aliases[s]
    BY <1>4, <2>1 DEF RenameAlias, RenamedRows
  <2>3. aliases[s] \in AliasRow
    BY <1>a
  <2> QED BY <2>2, <2>3 DEF AliasRow
<1>5. ASSUME NEW t \in Slug, NEW o \in Owner, DeleteAlias(t, o)
      PROVE  aliases'[s].redirectTo = aliases[s].redirectTo
  BY <1>5, <1>a DEF DeleteAlias, DeletedRows, AliasRow
<1>6. ASSUME NEW t \in Slug, RecordAliasRedirect(t)
      PROVE  aliases'[s].redirectTo = aliases[s].redirectTo
  BY <1>6, <1>a DEF RecordAliasRedirect, AliasRow
<1>7. ASSUME UNCHANGED aliases PROVE aliases'[s] = aliases[s]
  BY <1>7
<1>8. (\E j \in JobId : ClaimNextProcessingJob(j)) \/ (\E x \in Sha : MarkObjectUnavailable(x))
      \/ UNCHANGED vars => UNCHANGED aliases
  BY DEF ClaimNextProcessingJob, MarkObjectUnavailable, vars
<1> QED BY <1>1, <1>2, <1>3, <1>4, <1>5, <1>6, <1>7, <1>8 DEF Next

\* The row of an object has its key.
ObjectsHaveKeys == \A x \in Sha : objects[x].status # "absent" => objects[x].ext \in Ext

LEMMA InitHasKeys == Init => ObjectsHaveKeys
BY DEF Init, NoObject, ObjectsHaveKeys

LEMMA NextHasKeys == IInv /\ ObjectsHaveKeys /\ [Next]_vars => ObjectsHaveKeys'
<1> SUFFICES ASSUME IInv, ObjectsHaveKeys, [Next]_vars, NEW x \in Sha,
                    objects'[x].status # "absent"
             PROVE  objects'[x].ext \in Ext
  BY DEF ObjectsHaveKeys
<1>a. objects \in [Sha -> ObjectRow]
  BY DEF IInv, TypeOK
<1>b. objects[x].status # "absent" => objects[x].ext \in Ext
  BY DEF ObjectsHaveKeys
<1>1. ASSUME NEW j \in JobId, NEW y \in Sha, NEW e \in Ext, NEW thumb \in BOOLEAN,
             CompleteProcessingJob(j, y, e, thumb)
      PROVE  objects'[x].ext \in Ext
  BY <1>1, <1>a, <1>b DEF CompleteProcessingJob
<1>2. ASSUME NEW s \in Slug, NEW o \in Owner, DeleteAlias(s, o)
      PROVE  objects'[x].ext \in Ext
  <2>1. objects[x].status # "absent"
    <3>1. FreesObject(s) /\ x = aliases[s].object => objects[x].status \in {"ready", "missing"}
      BY <1>2 DEF DeleteAlias, OwnedCurrent, IInv, LiveShareKeepsObject, Live, FreesObject
    <3> QED BY <1>2, <1>a, <3>1 DEF DeleteAlias
  <2> QED BY <1>2, <1>a, <1>b, <2>1 DEF DeleteAlias, ObjectRow
<1>3. ASSUME NEW y \in Sha, MarkObjectUnavailable(y) PROVE objects'[x].ext \in Ext
  BY <1>3, <1>a, <1>b DEF MarkObjectUnavailable, ObjectRow
<1>4. ASSUME UNCHANGED objects PROVE objects'[x].ext \in Ext
  BY <1>4, <1>b
<1>5. \/ \E j \in JobId, o \in Owner, s \in Slug, u \in Upload : CreateIngestJob(j, o, s, u)
      \/ \E j \in JobId : ClaimNextProcessingJob(j)
      \/ \E j \in JobId : FailProcessingJob(j)
      \/ \E s, new \in Slug, o \in Owner : RenameAlias(s, o, new)
      \/ \E s \in Slug : RecordAliasRedirect(s)
      \/ UNCHANGED vars
      => UNCHANGED objects
  BY DEF CreateIngestJob, ClaimNextProcessingJob, FailProcessingJob, RenameAlias,
         RecordAliasRedirect, vars
<1> QED BY <1>1, <1>2, <1>3, <1>4, <1>5 DEF Next

\* No step but an open changes the count of a share.
OpensKept(j) ==
    JobExists(j) => JobExists(j)' /\ aliases'[JobRoot(j)'].opens = aliases[JobRoot(j)].opens

LEMMA RowsKeepOpens ==
    ASSUME IInv, NEW j \in JobId,
           \A t \in Slug : Present(t) => /\ aliases'[t].redirectTo = aliases[t].redirectTo
                                         /\ aliases'[t].opens = aliases[t].opens,
           JobExists(j) => JobExists(j)' /\ jobs'[j].alias = jobs[j].alias
    PROVE  OpensKept(j)
<1> SUFFICES ASSUME JobExists(j) PROVE aliases'[JobRoot(j)'].opens = aliases[JobRoot(j)].opens
  BY DEF OpensKept
<1>1. jobs[j].alias \in Slug /\ Present(jobs[j].alias) /\ jobs'[j].alias = jobs[j].alias
  BY JobHasShare DEF IInv
<1>2. JobRoot(j)' = JobRoot(j)
  BY <1>1 DEF JobRoot, Root, IsRoot
<1>3. JobRoot(j) \in Slug /\ Present(JobRoot(j))
  BY <1>1, RootIsCurrent DEF IInv, JobRoot
<1> QED BY <1>2, <1>3

\* A step of Next other than RecordAliasRedirect.
NoOpen ==
    \/ \E j \in JobId, o \in Owner, s \in Slug, u \in Upload : CreateIngestJob(j, o, s, u)
    \/ \E j \in JobId : ClaimNextProcessingJob(j)
    \/ \E j \in JobId, x \in Sha, e \in Ext, thumb \in BOOLEAN :
          CompleteProcessingJob(j, x, e, thumb)
    \/ \E j \in JobId : Failable(j) /\ FailProcessingJob(j)
    \/ \E s, new \in Slug, o \in Owner : RenameAlias(s, o, new)
    \/ \E s \in Slug, o \in Owner : DeleteAlias(s, o)
    \/ \E x \in Sha : MarkObjectUnavailable(x)

LEMMA CountsStay ==
    ASSUME IInv, [NoOpen]_vars, NEW j \in JobId
    PROVE  OpensKept(j)
<1>a. aliases \in [Slug -> AliasRow] /\ jobs \in [JobId -> JobRow]
  BY DEF IInv, TypeOK
<1>1. ASSUME NEW k \in JobId, NEW o \in Owner, NEW s \in Slug, NEW u \in Upload,
             CreateIngestJob(k, o, s, u)
      PROVE  OpensKept(j)
  <2>1. /\ ~JobExists(k) /\ ~Present(s)
        /\ aliases' = [aliases EXCEPT ![s] = PendingAlias(o)]
        /\ jobs' = [jobs EXCEPT ![k] = QueuedJob(o, s, u)]
    BY <1>1 DEF CreateIngestJob, NameFree, JobExists
  <2>2. \A t \in Slug : Present(t) => aliases'[t] = aliases[t]
    BY <1>a, <2>1
  <2>3. JobExists(j) => jobs'[j] = jobs[j] /\ JobExists(j)'
    BY <1>a, <2>1 DEF JobExists
  <2> QED BY <2>2, <2>3, RowsKeepOpens
<1>2. ASSUME NEW k \in JobId, NEW x \in Sha, NEW e \in Ext, NEW thumb \in BOOLEAN,
             CompleteProcessingJob(k, x, e, thumb)
      PROVE  OpensKept(j)
  <2>1. PICK t \in Slug :
            aliases' = [aliases EXCEPT ![t] = [@ EXCEPT !.object = x, !.status = "ready"]]
    BY <1>2 DEF CompleteProcessingJob
  <2>2. jobs' = [jobs EXCEPT ![k] = [@ EXCEPT !.status = "completed", !.target = x]]
    BY <1>2 DEF CompleteProcessingJob
  <2>3. \A q \in Slug : /\ aliases'[q].redirectTo = aliases[q].redirectTo
                        /\ aliases'[q].opens = aliases[q].opens
    BY <1>a, <2>1 DEF AliasRow
  <2>4. JobExists(j) => JobExists(j)' /\ jobs'[j].alias = jobs[j].alias
    BY <1>a, <2>2 DEF JobRow, JobExists
  <2> QED BY <2>3, <2>4, RowsKeepOpens
<1>3. ASSUME NEW k \in JobId, Failable(k), FailProcessingJob(k) PROVE OpensKept(j)
  <2>1. \A q \in Slug : /\ aliases'[q].redirectTo = aliases[q].redirectTo
                        /\ aliases'[q].opens = aliases[q].opens
    BY <1>3, <1>a DEF FailProcessingJob, AliasRow
  <2>2. JobExists(j) => JobExists(j)' /\ jobs'[j].alias = jobs[j].alias
    BY <1>3, <1>a DEF FailProcessingJob, Failable, AfterFailure, JobRow, JobExists
  <2> QED BY <2>1, <2>2, RowsKeepOpens
<1>4. ASSUME NEW s \in Slug, NEW new \in Slug, NEW o \in Owner, RenameAlias(s, o, new)
      PROVE  OpensKept(j)
  <2> SUFFICES ASSUME JobExists(j)
               PROVE  aliases'[JobRoot(j)'].opens = aliases[JobRoot(j)].opens
    BY <1>4 DEF OpensKept, RenameAlias, JobExists
  <2>1. /\ ~Present(new) /\ aliases'[new] = aliases[s]
        /\ \A t \in Slug \ {new} :
               /\ aliases'[t].opens = aliases[t].opens
               /\ Present(t) => Root(t)' = IF Root(t) = s THEN new ELSE Root(t)
    BY <1>4, RenameMovesNames DEF IInv
  <2>2. jobs[j].alias \in Slug /\ Present(jobs[j].alias) /\ jobs' = jobs
    BY <1>4, JobHasShare DEF IInv, RenameAlias
  <2>3. JobRoot(j) \in Slug /\ Present(JobRoot(j))
    BY <2>2, RootIsCurrent DEF IInv, JobRoot
  <2>4. JobRoot(j)' = IF JobRoot(j) = s THEN new ELSE JobRoot(j)
    BY <2>1, <2>2 DEF JobRoot
  <2> QED BY <2>1, <2>3, <2>4
<1>5. ASSUME NEW s \in Slug, NEW o \in Owner, DeleteAlias(s, o) PROVE OpensKept(j)
  <2>1. \A q \in Slug : /\ aliases'[q].redirectTo = aliases[q].redirectTo
                        /\ aliases'[q].opens = aliases[q].opens
    BY <1>5, <1>a DEF DeleteAlias, DeletedRows, AliasRow
  <2>2. JobExists(j) => JobExists(j)' /\ jobs'[j].alias = jobs[j].alias
    BY <1>5, <1>a DEF DeleteAlias, JobRow, JobExists
  <2> QED BY <2>1, <2>2, RowsKeepOpens
<1>6. ASSUME NEW k \in JobId, ClaimNextProcessingJob(k) PROVE OpensKept(j)
  <2>1. JobExists(j) => JobExists(j)' /\ jobs'[j].alias = jobs[j].alias
    BY <1>6, <1>a DEF ClaimNextProcessingJob, JobRow, JobExists
  <2> QED BY <1>6, <2>1, RowsKeepOpens DEF ClaimNextProcessingJob
<1>7. CASE UNCHANGED <<aliases, jobs>>
  BY <1>7, RowsKeepOpens DEF JobExists
<1>8. (\E x \in Sha : MarkObjectUnavailable(x)) \/ UNCHANGED vars => UNCHANGED <<aliases, jobs>>
  BY DEF MarkObjectUnavailable, vars
<1> QED BY <1>1, <1>2, <1>3, <1>4, <1>5, <1>6, <1>7, <1>8 DEF NoOpen

\* The share of a job that a step adds was never opened.
LEMMA NewShareIsUncounted ==
    ASSUME IInv, [Next]_vars, NEW j \in JobId, ~JobExists(j), JobExists(j)'
    PROVE  aliases'[JobRoot(j)'].opens = 0
<1>a. aliases \in [Slug -> AliasRow] /\ jobs \in [JobId -> JobRow]
  BY DEF IInv, TypeOK
<1>1. PICK o \in Owner, s \in Slug, u \in Upload : CreateIngestJob(j, o, s, u)
  BY <1>a DEF Next, CreateIngestJob, ClaimNextProcessingJob, NextInQueue,
     CompleteProcessingJob, Completable, Failable, FailProcessingJob, RenameAlias, DeleteAlias,
     CanceledBy, MarkObjectUnavailable, RecordAliasRedirect, vars, JobExists
<1>2. jobs'[j].alias = s /\ aliases'[s] = PendingAlias(o)
  BY <1>1, <1>a DEF CreateIngestJob, QueuedJob
<1> QED BY <1>2 DEF JobRoot, Root, IsRoot, PendingAlias

-----------------------------------------------------------------------------
(* What a transaction may rely on that holds a name's row and looks at others: *)
(* the methods of others, and claims in any order, take names and jobs away    *)
(* from its share but add none.                                                *)

StoreStep == [Next]_vars \/ \E j \in JobId : ClaimAny(j)

LEMMA StoreStepKeeps == ASSUME IInv, StoreStep PROVE IInv'
BY NextKeeps, ClaimAnyKeeps DEF StoreStep

LEMMA StoreStepCarries == ASSUME IInv, StoreStep PROVE Carried
<1>1. ASSUME NEW j \in JobId, ClaimAny(j) PROVE Carried
  <2>1. UNCHANGED aliases /\ jobs' = [jobs EXCEPT ![j].status = "running"]
    BY <1>1 DEF ClaimAny
  <2>2. \A k \in JobId : JobExists(k) => JobExists(k)' /\ jobs'[k].alias = jobs[k].alias
    BY <2>1 DEF IInv, TypeOK, JobRow, JobExists
  <2> QED BY <2>1, <2>2, NamesUntouched
<1> QED BY <1>1, NextCarries DEF StoreStep

LEMMA StoreStepFinishes ==
    ASSUME IInv, StoreStep, NEW j \in JobId,
           jobs[j].status \in {"completed", "failed", "canceled"}
    PROVE  jobs'[j] = jobs[j]
<1>1. ASSUME NEW k \in JobId, ClaimAny(k) PROVE jobs'[j] = jobs[j]
  BY <1>1 DEF IInv, TypeOK, ClaimAny
<1> QED BY <1>1, FinishedStay DEF StoreStep

\* A deleted name stays deleted, and a new name is a current one.
NamesLast ==
    \A s \in Slug :
        /\ Present(s) /\ ~Visible(s) => ~Visible(s)'
        /\ ~Present(s) => IsRoot(s)'

\* A row that keeps its name's target and visibility, or was just inserted.
LEMMA RowsLast ==
    ASSUME IInv,
           \A s \in Slug : \/ /\ aliases'[s].redirectTo = aliases[s].redirectTo
                              /\ aliases'[s].visibility \in {aliases[s].visibility, "deleted"}
                           \/ ~Present(s) /\ aliases'[s].redirectTo = Null
                           \/ Present(s) /\ aliases'[s].visibility = aliases[s].visibility
    PROVE  NamesLast
<1>1. \A s \in Slug : ~Present(s) => IsRoot(s)
  BY FreeNameIsUnused DEF IInv
<1> QED BY <1>1 DEF NamesLast, Present, Visible, IsRoot

LEMMA NamesDoLast == ASSUME IInv, StoreStep PROVE NamesLast
<1>a. aliases \in [Slug -> AliasRow]
  BY DEF IInv, TypeOK
<1>1. ASSUME NEW j \in JobId, NEW o \in Owner, NEW s \in Slug, NEW u \in Upload,
             CreateIngestJob(j, o, s, u)
      PROVE  NamesLast
  <2>1. ~Present(s) /\ aliases' = [aliases EXCEPT ![s] = PendingAlias(o)]
    BY <1>1 DEF CreateIngestJob, NameFree
  <2> QED BY <1>a, <2>1, RowsLast DEF PendingAlias
<1>2. ASSUME NEW j \in JobId, NEW x \in Sha, NEW e \in Ext, NEW thumb \in BOOLEAN,
             CompleteProcessingJob(j, x, e, thumb)
      PROVE  NamesLast
  <2>1. PICK t \in Slug :
            aliases' = [aliases EXCEPT ![t] = [@ EXCEPT !.object = x, !.status = "ready"]]
    BY <1>2 DEF CompleteProcessingJob
  <2>2. \A s \in Slug : /\ aliases'[s].redirectTo = aliases[s].redirectTo
                        /\ aliases'[s].visibility = aliases[s].visibility
    BY <1>a, <2>1 DEF AliasRow
  <2> QED BY <2>2, RowsLast
<1>3. ASSUME NEW j \in JobId, FailProcessingJob(j) PROVE NamesLast
  <2>1. \A s \in Slug : /\ aliases'[s].redirectTo = aliases[s].redirectTo
                        /\ aliases'[s].visibility = aliases[s].visibility
    BY <1>a, <1>3 DEF FailProcessingJob, AliasRow
  <2> QED BY <2>1, RowsLast
<1>4. ASSUME NEW t \in Slug, NEW new \in Slug, NEW o \in Owner, RenameAlias(t, o, new)
      PROVE  NamesLast
  <2>1. /\ ~Present(new) /\ IsRoot(t)
        /\ aliases' = RenamedRows(t, o, new)
    BY <1>4 DEF RenameAlias, NameFree, OwnedCurrent
  <2>2. aliases'[new].redirectTo = Null
    BY <2>1 DEF RenamedRows, IsRoot
  <2>3. \A s \in Slug \ {new} : \/ aliases'[s] = aliases[s]
                                \/ Present(s) /\ aliases'[s].visibility = aliases[s].visibility
    BY <1>a, <2>1 DEF RenamedRows, Family, Visible, Present, AliasRow
  <2> QED BY <2>1, <2>2, <2>3, RowsLast
<1>5. ASSUME NEW t \in Slug, NEW o \in Owner, DeleteAlias(t, o) PROVE NamesLast
  <2>1. \A s \in Slug : /\ aliases'[s].redirectTo = aliases[s].redirectTo
                        /\ aliases'[s].visibility \in {aliases[s].visibility, "deleted"}
    BY <1>a, <1>5 DEF DeleteAlias, DeletedRows, AliasRow
  <2> QED BY <2>1, RowsLast
<1>6. ASSUME NEW t \in Slug, RecordAliasRedirect(t) PROVE NamesLast
  <2>1. \A s \in Slug : /\ aliases'[s].redirectTo = aliases[s].redirectTo
                        /\ aliases'[s].visibility = aliases[s].visibility
    BY <1>a, <1>6 DEF RecordAliasRedirect, AliasRow
  <2> QED BY <2>1, RowsLast
<1>7. ASSUME UNCHANGED aliases PROVE NamesLast
  BY <1>7, RowsLast
<1>8. (\E j \in JobId : ClaimNextProcessingJob(j) \/ ClaimAny(j))
      \/ (\E x \in Sha : MarkObjectUnavailable(x)) \/ UNCHANGED vars => UNCHANGED aliases
  BY DEF ClaimNextProcessingJob, ClaimAny, MarkObjectUnavailable, vars
<1> QED BY <1>1, <1>2, <1>3, <1>4, <1>5, <1>6, <1>7, <1>8 DEF StoreStep, Next

\* Names that come together were together.
LEMMA NamesStayApart ==
    ASSUME IInv, StoreStep, NEW s \in Slug, NEW t \in Slug, Present(s), Present(t),
           Root(s)' = Root(t)'
    PROVE  Root(s) = Root(t)
<1>1. IInv' /\ Carried
  BY StoreStepKeeps, StoreStepCarries
<1>2. PICK j \in JobId : JobExists(j) /\ JobRoot(j) = Root(s)
  BY DEF IInv, SharesAndJobsPair, SharesHaveJobs
<1>3. PICK k \in JobId : JobExists(k) /\ JobRoot(k) = Root(t)
  BY DEF IInv, SharesAndJobsPair, SharesHaveJobs
<1>4. /\ jobs[j].alias \in Slug /\ Present(jobs[j].alias)
      /\ jobs[k].alias \in Slug /\ Present(jobs[k].alias)
  BY <1>2, <1>3, JobHasShare DEF IInv
<1>5. JobExists(j)' /\ JobRoot(j)' = Root(s)' /\ JobExists(k)' /\ JobRoot(k)' = Root(t)'
  BY <1>1, <1>2, <1>3, <1>4 DEF Carried, JobRoot
<1>6. j = k
  BY <1>1, <1>5 DEF IInv, SharesAndJobsPair, JobsKeepApart
<1> QED BY <1>2, <1>3, <1>6

\* While its row stays as it is, no name joins the ones that lead to a current name.
LEMMA FamilyOnlyShrinks ==
    ASSUME IInv, StoreStep, NEW s \in Slug, NEW o, OwnedCurrent(s, o), aliases'[s] = aliases[s]
    PROVE  \A t \in Slug : t \in Family(s, o)' => t \in Family(s, o)
<1>1. Carried /\ NamesLast
  BY StoreStepCarries, NamesDoLast
<1>2. Present(s) /\ Root(s) = s /\ Root(s)' = s /\ Visible(s) /\ aliases[s].owner = o
  BY DEF OwnedCurrent, Present, Visible, Root, IsRoot
<1>3. SUFFICES ASSUME NEW t \in Slug, t \in Family(s, o)', t # s PROVE t \in Family(s, o)
  BY <1>2 DEF Family
<1>4. Visible(t)' /\ aliases'[t].owner = o /\ aliases'[t].redirectTo = s
  BY <1>3 DEF Family
<1>5. Present(t) /\ Root(t)' = s
  BY <1>1, <1>4, NullAssumption DEF NamesLast, IsRoot, Root
<1>6. Root(t) = s
  BY <1>2, <1>5, NamesStayApart
<1>7. aliases[t].redirectTo = s
  BY <1>3, <1>6 DEF Root
<1>8. Visible(t) /\ aliases[t].owner = o
  BY <1>1, <1>4, <1>5 DEF NamesLast, Carried
<1> QED BY <1>7, <1>8 DEF Family

\* The jobs a deletion cancels are the unfinished ones of the share.
LEMMA CanceledAreTheShares ==
    ASSUME IInv, NEW s \in Slug, NEW o, OwnedCurrent(s, o), NEW j \in JobId
    PROVE  j \in CanceledBy(s, o) <=> jobs[j].status \in {"queued", "running"} /\ JobRoot(j) = s
<1>1. Visible(s) /\ IsRoot(s) /\ aliases[s].owner = o /\ s # Null
  BY NullAssumption DEF OwnedCurrent
<1>2. CASE jobs[j].status \notin {"queued", "running"}
  BY <1>2 DEF CanceledBy
<1>3. CASE jobs[j].status \in {"queued", "running"}
  <2>1. JobExists(j)
    BY <1>3 DEF JobExists
  <2>2. /\ jobs[j].alias \in Slug /\ aliases[JobRoot(j)].owner = jobs[j].owner
        /\ aliases[jobs[j].alias].owner = jobs[j].owner
    BY <2>1, JobHasShare DEF IInv, SharesAndJobsPair, JobsHaveShares
  <2>3. CASE IsRoot(jobs[j].alias)
    BY <1>1, <1>3, <2>2, <2>3 DEF CanceledBy, JobRoot, Root, IsRoot
  <2>4. CASE ~IsRoot(jobs[j].alias)
    <3>1. JobRoot(j) = aliases[jobs[j].alias].redirectTo /\ jobs[j].alias # s
      BY <1>1, <2>4 DEF JobRoot, Root
    <3> QED BY <1>1, <1>3, <2>2, <3>1 DEF CanceledBy
  <2> QED BY <2>3, <2>4
<1> QED BY <1>2, <1>3

\* A new job is of a new name.
LEMMA NewJobsAreOfNewNames ==
    ASSUME IInv, StoreStep, NEW j \in JobId, ~JobExists(j), JobExists(j)'
    PROVE  \E s \in Slug : /\ jobs'[j].alias = s /\ ~Present(s)
                           /\ aliases'[s].redirectTo = Null
<1>a. jobs \in [JobId -> JobRow] /\ aliases \in [Slug -> AliasRow]
  BY DEF IInv, TypeOK
<1>b. jobs[j].status = "absent" /\ jobs'[j].status # "absent"
  BY DEF JobExists
<1>1. ASSUME NEW k \in JobId, NEW o \in Owner, NEW s \in Slug, NEW u \in Upload,
             CreateIngestJob(k, o, s, u)
      PROVE  /\ jobs'[j].alias = s /\ ~Present(s)
             /\ aliases'[s].redirectTo = Null
  <2>1. /\ ~Present(s) /\ aliases' = [aliases EXCEPT ![s] = PendingAlias(o)]
        /\ jobs' = [jobs EXCEPT ![k] = QueuedJob(o, s, u)]
    BY <1>1 DEF CreateIngestJob, NameFree
  <2>2. j = k
    BY <1>a, <1>b, <2>1
  <2> QED BY <1>a, <2>1, <2>2 DEF PendingAlias, QueuedJob
<1>2. ASSUME NEW k \in JobId, NEW x \in Sha, NEW e \in Ext, NEW thumb \in BOOLEAN,
             CompleteProcessingJob(k, x, e, thumb)
      PROVE  FALSE
  <2>1. k # j /\ jobs' = [jobs EXCEPT ![k] = [@ EXCEPT !.status = "completed", !.target = x]]
    BY <1>2, <1>b DEF CompleteProcessingJob, Completable
  <2> QED BY <1>a, <1>b, <2>1
<1>3. ASSUME NEW k \in JobId, Failable(k), FailProcessingJob(k) PROVE FALSE
  <2>1. k # j /\ jobs' = [jobs EXCEPT ![k].status = AfterFailure(@)]
    BY <1>3, <1>b DEF FailProcessingJob
  <2> QED BY <1>a, <1>b, <2>1
<1>4. ASSUME NEW s \in Slug, NEW o \in Owner, DeleteAlias(s, o) PROVE FALSE
  BY <1>4, <1>b DEF DeleteAlias, CanceledBy
<1>5. ASSUME NEW k \in JobId, ClaimAny(k) PROVE FALSE
  <2>1. k # j /\ jobs' = [jobs EXCEPT ![k].status = "running"]
    BY <1>5, <1>b DEF ClaimAny
  <2> QED BY <1>a, <1>b, <2>1
<1>6. ASSUME NEW k \in JobId, ClaimNextProcessingJob(k) PROVE FALSE
  BY <1>5, <1>6 DEF ClaimAny, ClaimNextProcessingJob, NextInQueue
<1>7. ~UNCHANGED jobs
  BY <1>b
<1> QED BY <1>1, <1>2, <1>3, <1>4, <1>5, <1>6, <1>7
        DEF StoreStep, Next, vars, RenameAlias, MarkObjectUnavailable, RecordAliasRedirect

\* While the row of a current name stays as it is, no job joins those that its
\* deletion cancels.
LEMMA CanceledOnlyShrink ==
    ASSUME IInv, StoreStep, NEW s \in Slug, NEW o, OwnedCurrent(s, o), aliases'[s] = aliases[s]
    PROVE  \A j \in JobId : j \in CanceledBy(s, o)' => j \in CanceledBy(s, o)
<1>1. Carried
  BY StoreStepCarries
<1>2. /\ Present(s) /\ Root(s) = s /\ aliases'[s].redirectTo = Null /\ s # Null
  BY NullAssumption DEF OwnedCurrent, Present, Visible, Root, IsRoot
<1>3. SUFFICES ASSUME NEW j \in JobId, j \in CanceledBy(s, o)' PROVE j \in CanceledBy(s, o)
  OBVIOUS
<1>4. /\ jobs'[j].status \in {"queued", "running"} /\ JobExists(j)'
      /\ jobs'[j].alias = s \/ aliases'[jobs'[j].alias].redirectTo = s
  BY <1>3 DEF CanceledBy, JobExists
<1>5. JobExists(j)
  BY <1>2, <1>4, NewJobsAreOfNewNames
<1>6. /\ jobs'[j].alias = jobs[j].alias /\ jobs[j].alias \in Slug /\ Present(jobs[j].alias)
  BY <1>1, <1>5, JobHasShare DEF Carried, IInv
<1>7. Root(jobs[j].alias) = s
  <2>1. PICK t \in Slug : t = jobs[j].alias
    BY <1>6
  <2>2. Root(t)' = s /\ Root(s)' = s
    BY <1>2, <1>4, <1>6, <2>1 DEF Root, IsRoot
  <2>3. Root(t) = Root(s)
    BY <1>2, <1>6, <2>1, <2>2, NamesStayApart
  <2> QED BY <1>2, <2>1, <2>3
<1>8. jobs[j].status \in {"queued", "running"}
  <2>1. jobs[j].status \in {"queued", "running", "completed", "failed", "canceled"}
    BY <1>5 DEF IInv, TypeOK, JobRow, JobStatus, JobExists
  <2> QED BY <1>4, <2>1, StoreStepFinishes
<1> QED BY <1>7, <1>8, CanceledAreTheShares DEF JobRoot

-----------------------------------------------------------------------------
(* ShareMetadata implements ShareLifecycle.  A share stands for the job of its *)
(* upload.  Which job a name leads to is well defined because names and jobs   *)
(* pair (SharesAndJobsPair), and does not change under a step because names    *)
(* stay together (Carried).                                                    *)

\* Each name in the table leads to one job, and that is its share.
LEMMA ShareIsJob ==
    IInv => \A s \in Slug, j \in JobId : Leads(s, j) => ShareOf(s) = j
<1> SUFFICES ASSUME IInv, NEW s \in Slug, NEW j \in JobId, Leads(s, j)
             PROVE  ShareOf(s) = j
  OBVIOUS
<1>1. \A k \in JobId : Leads(s, k) => k = j
  BY DEF IInv, SharesAndJobsPair, JobsKeepApart, Leads
<1>2. (CHOOSE k \in JobId : Leads(s, k)) \in JobId /\ Leads(s, CHOOSE k \in JobId : Leads(s, k))
  OBVIOUS
<1> QED BY <1>1, <1>2 DEF ShareOf

\* The same in the next state.
LEMMA ShareIsJobNext ==
    (IInv => \A s \in Slug, j \in JobId : Leads(s, j) => ShareOf(s) = j)'
BY ShareIsJob, PTL

\* A name that is not in the table belongs to no share.
LEMMA FreeNameLeadsNowhere ==
    ASSUME NEW s \in Slug
    PROVE  /\ ~Present(s) => ShareOf(s) = Null
           /\ ~Present(s)' => ShareOf(s)' = Null
BY DEF ShareOf, Leads

\* No step moves a name from one share to another.
LEMMA NameLeadsOn ==
    ASSUME IInv, IInv', Carried, NEW s \in Slug, Present(s)
    PROVE  ShareOf(s)' = ShareOf(s)
<1>1. PICK j \in JobId : Leads(s, j)
  BY DEF IInv, SharesAndJobsPair, SharesHaveJobs, Leads
<1>2. jobs[j].alias \in Slug /\ Present(jobs[j].alias) /\ Root(jobs[j].alias) = Root(s)
  BY <1>1, JobHasShare DEF IInv, Leads, JobRoot
<1>3. Leads(s, j)'
  BY <1>1, <1>2 DEF Carried, Leads, JobRoot
<1> QED BY <1>1, <1>3, ShareIsJob, ShareIsJobNext

\* What a user sees of a share is its row under its current name.
LEMMA SeenAlike ==
    ASSUME NEW j \in JobId,
           JobExists(j)' = JobExists(j),
           JobExists(j) => /\ JobRoot(j)' = JobRoot(j)
                           /\ jobs'[j].owner = jobs[j].owner
                           /\ aliases'[JobRoot(j)].visibility = aliases[JobRoot(j)].visibility
                           /\ aliases'[JobRoot(j)].status = aliases[JobRoot(j)].status
                           /\ aliases'[JobRoot(j)].object = aliases[JobRoot(j)].object
    PROVE  ShareRecord(j)' = ShareRecord(j)
BY DEF ShareRecord, Visible

\* What it takes to change one thing a user sees of a share.
LEMMA StateChanged ==
    ASSUME NEW r, NEW a, NEW o, NEW n, NEW c, NEW x,
           r = [state |-> a, owner |-> o, name |-> n, content |-> c]
    PROVE  [r EXCEPT !.state = x] = [state |-> x, owner |-> o, name |-> n, content |-> c]
<1>1. [[state |-> a, owner |-> o, name |-> n, content |-> c] EXCEPT !.state = x]
        = [state |-> x, owner |-> o, name |-> n, content |-> c]
  BY SMTT(30)
<1> QED BY <1>1, Zenon

LEMMA NameChanged ==
    ASSUME NEW r, NEW a, NEW o, NEW n, NEW c, NEW x,
           r = [state |-> a, owner |-> o, name |-> n, content |-> c]
    PROVE  [r EXCEPT !.name = x] = [state |-> a, owner |-> o, name |-> x, content |-> c]
<1>1. [[state |-> a, owner |-> o, name |-> n, content |-> c] EXCEPT !.name = x]
        = [state |-> a, owner |-> o, name |-> x, content |-> c]
  BY SMTT(30)
<1> QED BY <1>1, Zenon

\* The steps of the life cycle, by what they do to each share and each name.
LEMMA Published ==
    ASSUME NEW j \in JobId, NEW o \in Owner, NEW s \in Slug,
           ~JobExists(j), ShareOf(s) = Null,
           \A k \in JobId : ShareRecord(k)' =
               IF k = j THEN [state |-> "pending", owner |-> o, name |-> s, content |-> Null]
                        ELSE ShareRecord(k),
           \A t \in Slug : ShareOf(t)' = IF t = s THEN j ELSE ShareOf(t)
    PROVE  Lifecycle!Publish(j, o, s)
BY DEF Lifecycle!Publish, ShareRecord

LEMMA SettledAs ==
    ASSUME NEW j \in JobId, NEW x \in Sha, JobExists(j),
           ShareRecord(j).state = "pending",
           ShareRecord(j)' = [state |-> "ready", owner |-> ShareRecord(j).owner,
                              name |-> ShareRecord(j).name, content |-> x],
           \A k \in JobId \ {j} : ShareRecord(k)' = ShareRecord(k),
           \A t \in Slug : ShareOf(t)' = ShareOf(t)
    PROVE  Lifecycle!Settle(j, x)
BY DEF Lifecycle!Settle

LEMMA GivenUp ==
    ASSUME NEW j \in JobId, JobExists(j),
           ShareRecord(j).state = "pending",
           ShareRecord(j)' = [ShareRecord(j) EXCEPT !.state = "failed"],
           \A k \in JobId \ {j} : ShareRecord(k)' = ShareRecord(k),
           \A t \in Slug : ShareOf(t)' = ShareOf(t)
    PROVE  Lifecycle!GiveUp(j)
BY DEF Lifecycle!GiveUp

LEMMA RenamedTo ==
    ASSUME NEW j \in JobId, NEW o \in Owner, NEW s \in Slug,
           ShareRecord(j).state \in AliasStatus, ShareRecord(j).owner = o,
           ShareOf(s) = Null,
           ShareRecord(j)' = [ShareRecord(j) EXCEPT !.name = s],
           \A k \in JobId \ {j} : ShareRecord(k)' = ShareRecord(k),
           \A t \in Slug : ShareOf(t)' = IF t = s THEN j ELSE ShareOf(t)
    PROVE  Lifecycle!Rename(j, o, s)
BY DEF Lifecycle!Rename, Lifecycle!LiveState, AliasStatus

LEMMA RemovedBy ==
    ASSUME NEW j \in JobId, NEW o \in Owner,
           ShareRecord(j).state \in AliasStatus, ShareRecord(j).owner = o,
           ShareRecord(j)' = [ShareRecord(j) EXCEPT !.state = "removed"],
           \A k \in JobId \ {j} : ShareRecord(k)' = ShareRecord(k),
           \A t \in Slug : ShareOf(t)' = ShareOf(t)
    PROVE  Lifecycle!Remove(j, o)
BY DEF Lifecycle!Remove, Lifecycle!LiveState, AliasStatus

LEMMA Unseen ==
    ASSUME \A k \in JobId : ShareRecord(k)' = ShareRecord(k),
           \A t \in Slug : ShareOf(t)' = ShareOf(t)
    PROVE  UNCHANGED Lifecycle!lifecycleVars
BY DEF Lifecycle!lifecycleVars

-----------------------------------------------------------------------------
(* Each method of the store is a step of the life cycle. *)

\* An accepted upload publishes a share.
LEMMA CreatePublishes ==
    ASSUME IInv, IInv', Carried,
           NEW j \in JobId, NEW o \in Owner, NEW s \in Slug, NEW u \in Upload,
           CreateIngestJob(j, o, s, u)
    PROVE  Lifecycle!Publish(j, o, s)
<1> USE DEF IInv
<1>1. /\ ~JobExists(j) /\ ~Present(s)
      /\ aliases' = [aliases EXCEPT ![s] = PendingAlias(o)]
      /\ jobs' = [jobs EXCEPT ![j] = QueuedJob(o, s, u)]
      /\ aliases \in [Slug -> AliasRow] /\ jobs \in [JobId -> JobRow]
  BY DEF CreateIngestJob, NameFree, JobExists, TypeOK
<1>2. aliases'[s] = PendingAlias(o) /\ jobs'[j] = QueuedJob(o, s, u)
  BY <1>1
<1>3. /\ JobExists(j)' /\ JobRoot(j)' = s /\ Present(s)' /\ Visible(s)'
      /\ jobs'[j].owner = o /\ aliases'[s].status = "pending" /\ aliases'[s].object = Null
  BY <1>2 DEF JobExists, JobRoot, Root, IsRoot, Present, Visible, PendingAlias, QueuedJob
<1>4. ShareRecord(j)' = [state |-> "pending", owner |-> o, name |-> s, content |-> Null]
  BY <1>3 DEF ShareRecord, Visible
<1>5. ASSUME NEW k \in JobId, k # j PROVE ShareRecord(k)' = ShareRecord(k)
  <2>1. jobs'[k] = jobs[k]
    BY <1>1, <1>5
  <2>2. JobExists(k)' = JobExists(k)
    BY <2>1 DEF JobExists
  <2>3. CASE JobExists(k)
    <3>1. /\ jobs[k].alias \in Slug /\ Present(jobs[k].alias)
          /\ JobRoot(k) \in Slug /\ Present(JobRoot(k))
      BY <2>3, JobHasShare
    <3>2. aliases'[jobs[k].alias] = aliases[jobs[k].alias] /\ aliases'[JobRoot(k)] = aliases[JobRoot(k)]
      BY <1>1, <3>1
    <3>3. JobRoot(k)' = JobRoot(k)
      BY <2>1, <3>2 DEF JobRoot, Root, IsRoot
    <3> QED BY <2>1, <2>2, <3>2, <3>3, SeenAlike
  <2> QED BY <2>2, <2>3, SeenAlike
<1>6. ASSUME NEW t \in Slug PROVE ShareOf(t)' = IF t = s THEN j ELSE ShareOf(t)
  <2>1. CASE t = s
    <3>1. Leads(s, j)'
      BY <1>2, <1>3 DEF Leads, JobRoot, QueuedJob
    <3> QED BY <2>1, <3>1, ShareIsJobNext
  <2>2. CASE t # s /\ Present(t)
    BY <2>2, NameLeadsOn
  <2>3. CASE t # s /\ ~Present(t)
    <3>1. ~Present(t)'
      BY <1>1, <2>3 DEF Present
    <3> QED BY <2>3, <3>1, FreeNameLeadsNowhere
  <2> QED BY <2>1, <2>2, <2>3
<1>7. ShareOf(s) = Null
  BY <1>1, FreeNameLeadsNowhere
<1> QED BY <1>1, <1>4, <1>5, <1>6, <1>7, Published

\* A step that adds no name moves none.
LEMMA NamesLeadOn ==
    ASSUME IInv, IInv', Carried, \A t \in Slug : Present(t)' => Present(t)
    PROVE  \A t \in Slug : ShareOf(t)' = ShareOf(t)
<1> SUFFICES ASSUME NEW t \in Slug PROVE ShareOf(t)' = ShareOf(t)
  OBVIOUS
<1>1. CASE Present(t)
  BY <1>1, NameLeadsOn
<1>2. CASE ~Present(t)
  BY <1>2, FreeNameLeadsNowhere
<1> QED BY <1>1, <1>2

\* A step that moves no name and changes nothing but the rows of some names is
\* seen by nobody but the users of the shares under those names.
LEMMA OthersSeenAlike ==
    ASSUME IInv, NEW changed \in SUBSET Slug,
           \A t \in Slug : /\ aliases'[t].redirectTo = aliases[t].redirectTo
                           /\ t \notin changed =>
                                 /\ aliases'[t].visibility = aliases[t].visibility
                                 /\ aliases'[t].status = aliases[t].status
                                 /\ aliases'[t].object = aliases[t].object,
           \A k \in JobId : /\ JobExists(k)' = JobExists(k)
                            /\ jobs'[k].alias = jobs[k].alias
                            /\ jobs'[k].owner = jobs[k].owner
    PROVE  \A k \in JobId : /\ JobExists(k) => JobRoot(k)' = JobRoot(k)
                            /\ ~JobExists(k) \/ JobRoot(k) \notin changed =>
                                  ShareRecord(k)' = ShareRecord(k)
<1> SUFFICES ASSUME NEW k \in JobId
             PROVE  /\ JobExists(k) => JobRoot(k)' = JobRoot(k)
                    /\ ~JobExists(k) \/ JobRoot(k) \notin changed =>
                          ShareRecord(k)' = ShareRecord(k)
  OBVIOUS
<1>1. CASE JobExists(k)
  <2>1. jobs[k].alias \in Slug /\ JobRoot(k) \in Slug
    BY <1>1, JobHasShare DEF IInv
  <2>2. JobRoot(k)' = JobRoot(k)
    BY <2>1 DEF JobRoot, Root, IsRoot
  <2> QED BY <1>1, <2>1, <2>2, SeenAlike
<1>2. CASE ~JobExists(k)
  BY <1>2, SeenAlike
<1> QED BY <1>1, <1>2

\* A completed job settles the share that its upload published, whatever the
\* share is called by then.
LEMMA CompleteSettles ==
    ASSUME IInv, IInv', Carried,
           NEW j \in JobId, NEW x \in Sha, NEW e \in Ext, NEW thumb \in BOOLEAN,
           CompleteProcessingJob(j, x, e, thumb)
    PROVE  Lifecycle!Settle(j, x)
<1> USE DEF IInv
<1>1. jobs[j].status = "running" /\ JobExists(j)
  BY DEF CompleteProcessingJob, Completable, JobExists
<1>2. PICK t \in Slug :
          /\ Resolves(jobs[j].alias, t)
          /\ aliases' = [aliases EXCEPT ![t] = [@ EXCEPT !.object = x, !.status = "ready"]]
  BY DEF CompleteProcessingJob
<1>3. /\ jobs' = [jobs EXCEPT ![j] = [@ EXCEPT !.status = "completed", !.target = x]]
      /\ aliases \in [Slug -> AliasRow] /\ jobs \in [JobId -> JobRow]
  BY DEF CompleteProcessingJob, TypeOK
<1>4. t = JobRoot(j)
  BY <1>1, <1>2, JobHasShare, ResolvesToRoot DEF JobRoot
<1>5. /\ \A r \in Slug : /\ aliases'[r].redirectTo = aliases[r].redirectTo
                         /\ aliases'[r].visibility = aliases[r].visibility
                         /\ r \notin {t} => /\ aliases'[r].status = aliases[r].status
                                            /\ aliases'[r].object = aliases[r].object
      /\ aliases'[t].status = "ready" /\ aliases'[t].object = x
  BY <1>2, <1>3 DEF AliasRow
<1>6. \A k \in JobId : /\ JobExists(k)' = JobExists(k)
                       /\ jobs'[k].alias = jobs[k].alias
                       /\ jobs'[k].owner = jobs[k].owner
  BY <1>1, <1>3 DEF JobRow, JobExists
<1>7. \A k \in JobId : /\ JobExists(k) => JobRoot(k)' = JobRoot(k)
                       /\ ~JobExists(k) \/ JobRoot(k) \notin {t} =>
                             ShareRecord(k)' = ShareRecord(k)
  BY <1>5, <1>6, OthersSeenAlike
<1>8. \A k \in JobId \ {j} : ~JobExists(k) \/ JobRoot(k) # t
  BY <1>1, <1>4 DEF SharesAndJobsPair, JobsKeepApart
<1>9. Visible(t) /\ aliases[t].status = "pending"
  BY <1>1, <1>4 DEF StatusesAgree, Visible
<1>10. /\ ShareRecord(j).state = "pending"
       /\ ShareRecord(j)' = [state |-> "ready", owner |-> ShareRecord(j).owner,
                             name |-> ShareRecord(j).name, content |-> x]
  <2>1. ShareRecord(j) = [state |-> "pending", owner |-> jobs[j].owner, name |-> t,
                          content |-> aliases[t].object]
    BY <1>1, <1>4, <1>9 DEF ShareRecord
  <2>2. JobExists(j)' /\ JobRoot(j)' = t /\ Visible(t)' /\ jobs'[j].owner = jobs[j].owner
    BY <1>1, <1>4, <1>5, <1>6, <1>7, <1>9 DEF Visible
  <2>3. ShareRecord(j)' = [state |-> "ready", owner |-> jobs[j].owner, name |-> t,
                           content |-> x]
    BY <1>5, <2>2 DEF ShareRecord, Visible
  <2> QED BY <2>1, <2>3
<1>11. \A r \in Slug : Present(r)' => Present(r)
  BY <1>5 DEF Present
<1>12. \A r \in Slug : ShareOf(r)' = ShareOf(r)
  BY <1>11, NamesLeadOn
<1> QED BY <1>1, <1>7, <1>8, <1>10, <1>12, SettledAs

\* A failure report gives up the share of a running job; of a job canceled with
\* its share nothing is left to change.
LEMMA FailGivesUp ==
    ASSUME IInv, IInv', Carried, NEW j \in JobId, Failable(j), FailProcessingJob(j)
    PROVE  Lifecycle!GiveUp(j) \/ UNCHANGED Lifecycle!lifecycleVars
<1> USE DEF IInv
<1>1. /\ jobs[j].status \in {"running", "canceled"} /\ JobExists(j)
      /\ jobs' = [jobs EXCEPT ![j].status = AfterFailure(@)]
      /\ aliases' = [s \in Slug |-> IF Resolves(jobs[j].alias, s)
                                      THEN [aliases[s] EXCEPT !.status = "failed"]
                                      ELSE aliases[s]]
      /\ aliases \in [Slug -> AliasRow] /\ jobs \in [JobId -> JobRow]
  BY DEF FailProcessingJob, Failable, JobExists, TypeOK
<1>2. \A k \in JobId : /\ JobExists(k)' = JobExists(k)
                       /\ jobs'[k].alias = jobs[k].alias
                       /\ jobs'[k].owner = jobs[k].owner
  BY <1>1 DEF JobRow, JobExists, AfterFailure
<1> DEFINE t == JobRoot(j)
<1>3. t \in Slug /\ jobs[j].alias \in Slug /\ Present(jobs[j].alias)
  BY <1>1, JobHasShare
<1>4. \A r \in Slug : /\ aliases'[r].redirectTo = aliases[r].redirectTo
                      /\ aliases'[r].visibility = aliases[r].visibility
                      /\ aliases'[r].object = aliases[r].object
                      /\ r # t => aliases'[r].status = aliases[r].status
                      /\ ~Visible(t) => aliases'[r].status = aliases[r].status
  <2> SUFFICES ASSUME NEW r \in Slug
               PROVE  /\ aliases'[r].redirectTo = aliases[r].redirectTo
                      /\ aliases'[r].visibility = aliases[r].visibility
                      /\ aliases'[r].object = aliases[r].object
                      /\ r # t => aliases'[r].status = aliases[r].status
                      /\ ~Visible(t) => aliases'[r].status = aliases[r].status
    OBVIOUS
  <2>1. Resolves(jobs[j].alias, r) => r = t /\ Visible(t)
    BY <1>3, ResolvesToRoot DEF JobRoot
  <2>2. CASE Resolves(jobs[j].alias, r)
    <3>1. aliases'[r] = [aliases[r] EXCEPT !.status = "failed"]
      BY <1>1, <2>2
    <3> QED BY <1>1, <2>1, <2>2, <3>1 DEF AliasRow
  <2>3. CASE ~Resolves(jobs[j].alias, r)
    BY <1>1, <2>3
  <2> QED BY <2>2, <2>3
<1>5. \A r \in Slug : ShareOf(r)' = ShareOf(r)
  <2>1. \A r \in Slug : Present(r)' => Present(r)
    BY <1>4 DEF Present
  <2> QED BY <2>1, NamesLeadOn
<1>6. CASE jobs[j].status = "running"
  <2>1. Visible(t) /\ aliases[t].status = "pending" /\ aliases[t].object = Null
    BY <1>1, <1>6 DEF StatusesAgree, Visible
  <2>2. Resolves(jobs[j].alias, t)
    BY <1>3, <2>1, RootIsResolved DEF JobRoot
  <2>3. aliases'[t].status = "failed"
    BY <1>1, <1>3, <2>2 DEF AliasRow
  <2>4. \A k \in JobId : /\ JobExists(k) => JobRoot(k)' = JobRoot(k)
                         /\ ~JobExists(k) \/ JobRoot(k) \notin {t} =>
                               ShareRecord(k)' = ShareRecord(k)
    <3>1. {t} \in SUBSET Slug
      BY <1>3
    <3>2. \A r \in Slug : r \notin {t} => /\ aliases'[r].visibility = aliases[r].visibility
                                          /\ aliases'[r].status = aliases[r].status
                                          /\ aliases'[r].object = aliases[r].object
      BY <1>4
    <3> QED BY <1>2, <1>4, <3>1, <3>2, OthersSeenAlike
  <2>5. \A k \in JobId \ {j} : ~JobExists(k) \/ JobRoot(k) # t
    BY <1>1 DEF SharesAndJobsPair, JobsKeepApart
  <2>6. ShareRecord(j) = [state |-> "pending", owner |-> jobs[j].owner, name |-> t,
                          content |-> Null]
    BY <1>1, <2>1 DEF ShareRecord
  <2>7. /\ JobExists(j)' /\ JobRoot(j)' = t /\ Visible(t)' /\ aliases'[t].object = Null
        /\ jobs'[j].owner = jobs[j].owner
    BY <1>1, <1>2, <1>3, <1>4, <2>1, <2>4 DEF Visible
  <2>8. ShareRecord(j)' = [state |-> "failed", owner |-> jobs[j].owner, name |-> t,
                           content |-> Null]
    BY <2>3, <2>7 DEF ShareRecord, Visible
  <2>9. ShareRecord(j)' = [ShareRecord(j) EXCEPT !.state = "failed"]
    BY <2>6, <2>8, StateChanged
  <2> QED BY <1>1, <1>5, <2>4, <2>5, <2>6, <2>9, GivenUp
<1>7. CASE jobs[j].status = "canceled"
  <2>1. ~Visible(t)
    BY <1>1, <1>7 DEF StatusesAgree, Visible
  <2>2. \A k \in JobId : ShareRecord(k)' = ShareRecord(k)
    <3>1. \A r \in Slug : r \notin {} => /\ aliases'[r].visibility = aliases[r].visibility
                                         /\ aliases'[r].status = aliases[r].status
                                         /\ aliases'[r].object = aliases[r].object
      BY <1>4, <2>1
    <3>2. {} \in SUBSET Slug /\ \A r \in Slug : r \notin {}
      OBVIOUS
    <3> QED BY <1>2, <1>4, <3>1, <3>2, OthersSeenAlike
  <2> QED BY <1>5, <2>2, Unseen
<1> QED BY <1>1, <1>6, <1>7

\* A rename gives the share its next name; the others lead on.
LEMMA RenameRenames ==
    ASSUME IInv, IInv', Carried,
           NEW s \in Slug, NEW o \in Owner, NEW new \in Slug, RenameAlias(s, o, new)
    PROVE  \E j \in JobId : Lifecycle!Rename(j, o, new)
<1> USE DEF IInv
<1>1. /\ aliases \in [Slug -> AliasRow] /\ s # new /\ ~Present(new)
      /\ Visible(s) /\ IsRoot(s) /\ aliases[s].owner = o
      /\ aliases'[new] = aliases[s] /\ Root(new)' = new
      /\ \A t \in Slug \ {new} :
             /\ aliases'[t].object = aliases[t].object
             /\ aliases'[t].owner = aliases[t].owner
             /\ aliases'[t].visibility = aliases[t].visibility
             /\ aliases'[t].status = aliases[t].status
             /\ Present(t) => Root(t)' = IF Root(t) = s THEN new ELSE Root(t)
  BY RenameMovesNames
<1>2. UNCHANGED jobs
  BY DEF RenameAlias
<1>3. Present(s) /\ Root(s) = s
  BY <1>1 DEF Present, Visible, Root
<1>4. PICK j \in JobId : JobExists(j) /\ JobRoot(j) = s
  BY <1>3 DEF SharesAndJobsPair, SharesHaveJobs
<1>5. \A k \in JobId : JobExists(k)' = JobExists(k) /\ jobs'[k].owner = jobs[k].owner
  BY <1>2 DEF JobExists
<1>6. \A k \in JobId : JobExists(k) =>
          /\ JobRoot(k) \in Slug /\ JobRoot(k) # new
          /\ JobRoot(k)' = IF JobRoot(k) = s THEN new ELSE JobRoot(k)
  <2> SUFFICES ASSUME NEW k \in JobId, JobExists(k)
               PROVE  /\ JobRoot(k) \in Slug /\ JobRoot(k) # new
                      /\ JobRoot(k)' = IF JobRoot(k) = s THEN new ELSE JobRoot(k)
    OBVIOUS
  <2>1. /\ jobs[k].alias \in Slug /\ Present(jobs[k].alias)
        /\ JobRoot(k) \in Slug /\ Present(JobRoot(k))
    BY JobHasShare
  <2>2. jobs[k].alias # new /\ jobs'[k].alias = jobs[k].alias
    BY <1>1, <1>2, <2>1
  <2> QED BY <1>1, <2>1, <2>2 DEF JobRoot
<1>7. ASSUME NEW k \in JobId \ {j} PROVE ShareRecord(k)' = ShareRecord(k)
  <2>1. JobExists(k) => JobRoot(k) # s
    BY <1>4 DEF SharesAndJobsPair, JobsKeepApart
  <2>2. JobExists(k) => JobRoot(k)' = JobRoot(k) /\ JobRoot(k) \in Slug \ {new}
    BY <1>6, <2>1
  <2> QED BY <1>1, <1>5, <2>2, SeenAlike
<1>8. ShareRecord(j) = [state |-> aliases[s].status, owner |-> jobs[j].owner, name |-> s,
                        content |-> aliases[s].object]
  BY <1>1, <1>4 DEF ShareRecord
<1>9. ShareRecord(j)' = [state |-> aliases[s].status, owner |-> jobs[j].owner, name |-> new,
                         content |-> aliases[s].object]
  <2>1. /\ JobExists(j)' /\ JobRoot(j)' = new /\ Visible(new)' /\ jobs'[j].owner = jobs[j].owner
        /\ aliases'[new].status = aliases[s].status /\ aliases'[new].object = aliases[s].object
    BY <1>1, <1>4, <1>5, <1>6 DEF Visible
  <2> QED BY <2>1 DEF ShareRecord, Visible
<1>10. ShareRecord(j)' = [ShareRecord(j) EXCEPT !.name = new]
  BY <1>8, <1>9, NameChanged
<1>11. ShareRecord(j).state \in AliasStatus /\ ShareRecord(j).owner = o
  <2>1. jobs[j].owner = o /\ aliases[s].status \in AliasStatus
    BY <1>1, <1>4, JobHasShare DEF AliasRow
  <2> QED BY <1>8, <2>1
<1>12. ShareOf(new) = Null
  BY <1>1, FreeNameLeadsNowhere
<1>13. ASSUME NEW t \in Slug PROVE ShareOf(t)' = IF t = new THEN j ELSE ShareOf(t)
  <2>1. CASE t = new
    <3>1. Leads(new, j)'
      BY <1>1, <1>4, <1>5, <1>6 DEF Leads, Present, Visible
    <3> QED BY <2>1, <3>1, ShareIsJobNext
  <2>2. CASE t # new /\ Present(t)
    BY <2>2, NameLeadsOn
  <2>3. CASE t # new /\ ~Present(t)
    <3>1. ~Present(t)'
      BY <1>1, <2>3 DEF Present
    <3> QED BY <2>3, <3>1, FreeNameLeadsNowhere
  <2> QED BY <2>1, <2>2, <2>3
<1>14. Lifecycle!Rename(j, o, new)
  BY <1>7, <1>10, <1>11, <1>12, <1>13, RenamedTo
<1> QED BY <1>14

\* A deletion removes the one share that the name belongs to.
LEMMA DeleteRemoves ==
    ASSUME IInv, IInv', Carried, NEW s \in Slug, NEW o \in Owner, DeleteAlias(s, o)
    PROVE  \E j \in JobId : Lifecycle!Remove(j, o)
<1> USE DEF IInv
<1>1. /\ Live(s) /\ Present(s) /\ Root(s) = s
      /\ \A t \in Slug :
             /\ aliases'[t].redirectTo = aliases[t].redirectTo
             /\ aliases'[t].object = aliases[t].object
             /\ aliases'[t].status = aliases[t].status
             /\ aliases'[t].visibility = IF Present(t) /\ Root(t) = s
                                           THEN "deleted" ELSE aliases[t].visibility
  BY DeleteReaches
<1>2. /\ aliases[s].owner = o /\ aliases \in [Slug -> AliasRow] /\ jobs \in [JobId -> JobRow]
      /\ jobs' = [k \in JobId |-> IF k \in CanceledBy(s, o)
                                    THEN [jobs[k] EXCEPT !.status = "canceled"] ELSE jobs[k]]
  BY DEF DeleteAlias, OwnedCurrent, TypeOK
<1>3. PICK j \in JobId : JobExists(j) /\ JobRoot(j) = s
  BY <1>1 DEF SharesAndJobsPair, SharesHaveJobs
<1>4. \A k \in JobId : /\ JobExists(k)' = JobExists(k)
                       /\ jobs'[k].alias = jobs[k].alias
                       /\ jobs'[k].owner = jobs[k].owner
  <2> SUFFICES ASSUME NEW k \in JobId
               PROVE  /\ JobExists(k)' = JobExists(k)
                      /\ jobs'[k].alias = jobs[k].alias
                      /\ jobs'[k].owner = jobs[k].owner
    OBVIOUS
  <2>1. CASE k \in CanceledBy(s, o)
    <3>1. jobs'[k] = [jobs[k] EXCEPT !.status = "canceled"]
      BY <1>2, <2>1
    <3>2. jobs[k].status \in {"queued", "running"} /\ jobs[k] \in JobRow
      BY <1>2, <2>1 DEF CanceledBy
    <3> QED BY <3>1, <3>2 DEF JobRow, JobExists
  <2>2. CASE k \notin CanceledBy(s, o)
    <3>1. jobs'[k] = jobs[k]
      BY <1>2, <2>2
    <3> QED BY <3>1 DEF JobExists
  <2> QED BY <2>1, <2>2
<1> DEFINE family == {t \in Slug : Present(t) /\ Root(t) = s}
<1>5. \A k \in JobId : /\ JobExists(k) => JobRoot(k)' = JobRoot(k)
                       /\ ~JobExists(k) \/ JobRoot(k) \notin family =>
                             ShareRecord(k)' = ShareRecord(k)
  <2>1. family \in SUBSET Slug
    OBVIOUS
  <2>2. \A t \in Slug : t \notin family => /\ aliases'[t].visibility = aliases[t].visibility
                                           /\ aliases'[t].status = aliases[t].status
                                           /\ aliases'[t].object = aliases[t].object
    BY <1>1
  <2>3. \A t \in Slug : aliases'[t].redirectTo = aliases[t].redirectTo
    BY <1>1
  <2> HIDE DEF family
  <2> QED BY <1>4, <2>1, <2>2, <2>3, OthersSeenAlike
<1>6. ASSUME NEW k \in JobId \ {j} PROVE ShareRecord(k)' = ShareRecord(k)
  <2>1. CASE JobExists(k)
    <3>1. JobRoot(k) # s /\ JobRoot(k) \in Slug /\ IsRoot(JobRoot(k))
      BY <1>3, <2>1, JobHasShare DEF SharesAndJobsPair, JobsKeepApart
    <3>2. JobRoot(k) \notin family
      BY <3>1 DEF Root
    <3> QED BY <1>5, <3>2
  <2>2. CASE ~JobExists(k)
    BY <1>5, <2>2
  <2> QED BY <2>1, <2>2
<1>7. ShareRecord(j) = [state |-> aliases[s].status, owner |-> jobs[j].owner, name |-> s,
                        content |-> aliases[s].object]
  BY <1>1, <1>3 DEF ShareRecord, Live
<1>8. ShareRecord(j)' = [state |-> "removed", owner |-> jobs[j].owner, name |-> s,
                         content |-> aliases[s].object]
  <2>1. /\ JobExists(j)' /\ JobRoot(j)' = s /\ ~Visible(s)' /\ jobs'[j].owner = jobs[j].owner
        /\ aliases'[s].object = aliases[s].object
    BY <1>1, <1>3, <1>4, <1>5 DEF Visible
  <2> QED BY <2>1 DEF ShareRecord, Visible
<1>9. ShareRecord(j)' = [ShareRecord(j) EXCEPT !.state = "removed"]
  BY <1>7, <1>8, StateChanged
<1>10. ShareRecord(j).state \in AliasStatus /\ ShareRecord(j).owner = o
  <2>1. jobs[j].owner = o /\ aliases[s].status \in AliasStatus
    BY <1>2, <1>3, JobHasShare DEF AliasRow
  <2> QED BY <1>7, <2>1
<1>11. \A t \in Slug : ShareOf(t)' = ShareOf(t)
  <2>1. \A t \in Slug : Present(t)' => Present(t)
    BY <1>1 DEF Present
  <2> QED BY <2>1, NamesLeadOn
<1>12. Lifecycle!Remove(j, o)
  BY <1>6, <1>9, <1>10, <1>11, RemovedBy
<1> QED BY <1>12

\* Claims, marks and counted opens are not seen by the users of a share.
LEMMA NothingSeen ==
    ASSUME IInv, IInv', Carried,
           \A t \in Slug : /\ aliases'[t].redirectTo = aliases[t].redirectTo
                           /\ aliases'[t].visibility = aliases[t].visibility
                           /\ aliases'[t].status = aliases[t].status
                           /\ aliases'[t].object = aliases[t].object,
           \A k \in JobId : /\ JobExists(k)' = JobExists(k)
                            /\ jobs'[k].alias = jobs[k].alias
                            /\ jobs'[k].owner = jobs[k].owner
    PROVE  UNCHANGED Lifecycle!lifecycleVars
<1>1. {} \in SUBSET Slug /\ \A t \in Slug : t \notin {}
  OBVIOUS
<1>2. \A k \in JobId : ShareRecord(k)' = ShareRecord(k)
  BY <1>1, OthersSeenAlike
<1>3. \A t \in Slug : Present(t)' => Present(t)
  BY DEF Present
<1> QED BY <1>2, <1>3, NamesLeadOn, Unseen

-----------------------------------------------------------------------------

\* Empty tables: no share is published and no name given out.
LEMMA InitImplements == Init => Lifecycle!Init
<1> SUFFICES ASSUME Init PROVE Lifecycle!Init
  OBVIOUS
<1>1. \A j \in JobId : ~JobExists(j)
  BY DEF Init, NoJob, JobExists
<1>2. \A s \in Slug : ShareOf(s) = Null
  BY <1>1 DEF ShareOf, Leads
<1> QED BY <1>1, <1>2 DEF Lifecycle!Init, Lifecycle!Unpublished, ShareRecord

\* Every step of the store is a step of the life cycle or a stutter.
LEMMA NextImplements ==
    IInv /\ IInv' /\ Carried /\ [Next]_vars => [Lifecycle!Next]_(Lifecycle!lifecycleVars)
<1> SUFFICES ASSUME IInv, IInv', Carried, [Next]_vars
             PROVE  Lifecycle!Next \/ UNCHANGED Lifecycle!lifecycleVars
  OBVIOUS
<1>1. ASSUME NEW j \in JobId, NEW o \in Owner, NEW s \in Slug, NEW u \in Upload,
             CreateIngestJob(j, o, s, u)
      PROVE  Lifecycle!Next
  BY <1>1, CreatePublishes DEF Lifecycle!Next
<1>2. ASSUME NEW j \in JobId, ClaimNextProcessingJob(j)
      PROVE  UNCHANGED Lifecycle!lifecycleVars
  <2>1. /\ UNCHANGED aliases
        /\ jobs[j].status = "queued"
        /\ jobs' = [jobs EXCEPT ![j].status = "running"]
        /\ jobs \in [JobId -> JobRow]
    BY <1>2 DEF ClaimNextProcessingJob, NextInQueue, IInv, TypeOK
  <2>2. \A k \in JobId : /\ JobExists(k)' = JobExists(k)
                         /\ jobs'[k].alias = jobs[k].alias
                         /\ jobs'[k].owner = jobs[k].owner
    BY <2>1 DEF JobRow, JobExists
  <2> QED BY <2>1, <2>2, NothingSeen
<1>3. ASSUME NEW j \in JobId, NEW x \in Sha, NEW e \in Ext, NEW thumb \in BOOLEAN,
             CompleteProcessingJob(j, x, e, thumb)
      PROVE  Lifecycle!Next
  BY <1>3, CompleteSettles DEF Lifecycle!Next
<1>4. ASSUME NEW j \in JobId, Failable(j), FailProcessingJob(j)
      PROVE  Lifecycle!Next \/ UNCHANGED Lifecycle!lifecycleVars
  BY <1>4, FailGivesUp DEF Lifecycle!Next
<1>5. ASSUME NEW s \in Slug, NEW new \in Slug, NEW o \in Owner, RenameAlias(s, o, new)
      PROVE  Lifecycle!Next
  BY <1>5, RenameRenames DEF Lifecycle!Next
<1>6. ASSUME NEW s \in Slug, NEW o \in Owner, DeleteAlias(s, o)
      PROVE  Lifecycle!Next
  BY <1>6, DeleteRemoves DEF Lifecycle!Next
<1>7. ASSUME NEW x \in Sha, MarkObjectUnavailable(x)
      PROVE  UNCHANGED Lifecycle!lifecycleVars
  BY <1>7, NothingSeen DEF MarkObjectUnavailable, JobExists
<1>8. ASSUME NEW s \in Slug, RecordAliasRedirect(s)
      PROVE  UNCHANGED Lifecycle!lifecycleVars
  <2>1. /\ aliases' = [aliases EXCEPT ![s].opens = @ + 1] /\ UNCHANGED jobs
        /\ aliases \in [Slug -> AliasRow]
    BY <1>8 DEF RecordAliasRedirect, IInv, TypeOK
  <2>2. \A t \in Slug : /\ aliases'[t].redirectTo = aliases[t].redirectTo
                        /\ aliases'[t].visibility = aliases[t].visibility
                        /\ aliases'[t].status = aliases[t].status
                        /\ aliases'[t].object = aliases[t].object
    BY <2>1 DEF AliasRow
  <2> QED BY <2>1, <2>2, NothingSeen DEF JobExists
<1>9. CASE UNCHANGED vars
  BY <1>9, NothingSeen DEF vars, JobExists
<1> QED BY <1>1, <1>2, <1>3, <1>4, <1>5, <1>6, <1>7, <1>8, <1>9 DEF Next

\* The store keeps the promise: whatever users, the processor and visitors do in
\* whatever order, its tables show a behaviour of ShareLifecycle.
THEOREM StoreImplementsLifecycle == Spec => LifecycleSpec
<1>1. IInv /\ [Next]_vars => IInv' /\ Carried
  BY NextKeeps, NextCarries
<1>2. IInv /\ [Next]_vars => [Lifecycle!Next]_(Lifecycle!lifecycleVars)
  BY <1>1, NextImplements
<1> QED BY <1>2, InitImplements, Invariance, PTL DEF Spec, LifecycleSpec, Lifecycle!Spec
=============================================================================
