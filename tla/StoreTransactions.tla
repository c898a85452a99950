-------------------------- MODULE StoreTransactions --------------------------
(***************************************************************************)
(* The methods of internal/broker/metadata.go that decide on more than one *)
(* row, statement by statement, as PostgreSQL runs them under READ         *)
(* COMMITTED: every statement sees what is committed when it starts,       *)
(* SELECT ... FOR UPDATE, UPDATE and INSERT lock the rows they name until  *)
(* the transaction ends and wait for rows that another one has locked, and *)
(* a cycle of waits is resolved by failing one of the transactions.        *)
(*                                                                         *)
(* aliases, jobs and objects are the committed tables.  What a transaction *)
(* has written nobody else sees, so it is kept in its record until Commit. *)
(* ShareMetadata has the same methods as one step each.                    *)
(***************************************************************************)
EXTENDS Naturals, Sequences, FiniteSets

CONSTANTS Slug, Owner, JobId, Sha, Ext, Upload, Null,
          Tx,       \* transactions that may be open at once
          Asked,    \* the uploads, in their order: <<job, name>>
          Renamed,  \* the renames that are asked for: <<name, new name>>
          Reported  \* what workers report: <<"complete" or "fail", job>>

ASSUME InputAssumption ==
    /\ Asked \in Seq(JobId \X Slug) /\ Renamed \subseteq Slug \X Slug
    /\ Reported \subseteq {"complete", "fail"} \X JobId

VARIABLES
    aliases, jobs, objects, derivatives, history, now,  \* as in ShareMetadata
    lock,    \* [row -> the transaction that has it locked, or Null]
    tx,      \* [Tx -> what it is doing]
    ideal,   \* the objects if every transaction ran alone when it committed
    raced    \* objects on which a deletion met another transaction

dbVars == <<aliases, jobs, ideal, derivatives, history, now>>
vars == <<dbVars, objects, lock, tx, raced>>

DB == INSTANCE ShareMetadata WITH objects <- ideal, RedirectLimit <- 2, MaxOpens <- 0

ASSUME StoreAssumption == DB!UploadAssumption /\ DB!NullAssumption
ASSUME LockAssumption == Null \notin Tx \cup JobId

Row == Slug \cup JobId \cup Sha

NoTx == [method |-> "none", at |-> "", job |-> Null, slug |-> Null, owner |-> Null,
         new |-> Null, keyed |-> FALSE, frees |-> FALSE, met |-> {}]

Init ==
    /\ DB!Init
    /\ objects = ideal
    /\ lock = [r \in Row |-> Null]
    /\ tx = [t \in Tx |-> NoTx]
    /\ raced = {}

-----------------------------------------------------------------------------
(* Locks and the ends of transactions. *)

\* Mistake: rows are read without FOR UPDATE.
FreeUnlocked(t, r) == TRUE
Free(t, r) == lock[r] \in {Null, t}

Take(t, r) == lock' = [lock EXCEPT ![r] = t]

\* Commit and the deferred Rollback release what the transaction locked.
\* Mistake: the rollback is forgotten.
KeptOnError(t) == lock
Released(t) == [r \in Row |-> IF lock[r] = t THEN Null ELSE lock[r]]

Active(t) == tx[t].method # "none"
At(t, step) == tx[t].at = step
Method(t, m) == tx[t].method = m

\* tx[t] continues as entry; no table changes.
Continue(t, entry) ==
    /\ tx' = [tx EXCEPT ![t] = entry]
    /\ UNCHANGED <<dbVars, objects, raced>>

\* A statement fails, a row is not there, the program dies.
Rollback(t) ==
    /\ Active(t)
    /\ lock' = Released(t)
    /\ Continue(t, NoTx)

\* The object that a transaction is about.
ObjectOf(t) == IF Method(t, "complete") THEN jobs[tx[t].job].upload.source
               ELSE aliases[tx[t].slug].object

\* The end of a transaction that touched these objects.
Committed(t, touched) ==
    /\ lock' = [r \in Row |-> IF lock[r] = t THEN Null ELSE lock[r]]
    /\ tx' = [u \in Tx |-> IF u = t THEN NoTx
                           ELSE IF Active(u) THEN [tx[u] EXCEPT !.met = @ \cup touched]
                           ELSE tx[u]]

-----------------------------------------------------------------------------
(* Methods that lock no row before the one they write: one step. *)

CreateIngestJob(j, o, s, u) ==
    /\ Free(Null, s)
    /\ DB!CreateIngestJob(j, o, s, u)
    /\ UNCHANGED <<objects, lock, tx, raced>>

\* FOR UPDATE SKIP LOCKED: the oldest queued job that nobody has locked.
ClaimNextProcessingJob(j) ==
    /\ jobs[j].status = "queued" /\ Free(Null, j)
    /\ \A k \in JobId : jobs[k].status = "queued" /\ Free(Null, k) =>
           jobs[j].created <= jobs[k].created
    /\ jobs' = [jobs EXCEPT ![j].status = "running"]
    /\ UNCHANGED <<aliases, ideal, derivatives, history, now, objects, lock, tx, raced>>

-----------------------------------------------------------------------------
(* CompleteProcessingJob and FailProcessingJob. *)

\* The worker that claimed j calls it; nobody else does.
CallForJob(t, m, j) ==
    /\ ~Active(t)
    /\ jobs[j].status \in {"running", "canceled"}
    /\ \A u \in Tx : tx[u].job # j
    /\ Continue(t, [NoTx EXCEPT !.method = m, !.at = "job", !.job = j, !.slug = jobs[j].alias])
    /\ UNCHANGED lock

LockJob(t) ==
    LET j == tx[t].job IN
    /\ At(t, "job") /\ Free(t, j)
    /\ IF Method(t, "complete") /\ jobs[j].status # "running" THEN Rollback(t)
       ELSE /\ Take(t, j)
            /\ Continue(t, [tx[t] EXCEPT !.at = IF Method(t, "complete") THEN "upsert" ELSE "resolve"])

UpsertObject(t) ==
    /\ At(t, "upsert") /\ Free(t, ObjectOf(t))
    /\ Take(t, ObjectOf(t))
    /\ Continue(t, [tx[t] EXCEPT !.at = "resolve"])

\* The share is gone: completion fails, a failure is recorded for the job alone.
NotFound(t) ==
    IF Method(t, "complete") THEN Rollback(t)
    ELSE Continue(t, [tx[t] EXCEPT !.at = "commit", !.slug = Null]) /\ UNCHANGED lock

\* currentProcessingAliasForUpdateTx: read the name, follow a redirect, ...
Resolve(t) ==
    LET s == tx[t].slug IN
    /\ At(t, "resolve")
    /\ IF ~DB!Visible(s) THEN NotFound(t)
       ELSE /\ Continue(t, IF DB!IsRoot(s) THEN [tx[t] EXCEPT !.at = "lock"]
                           ELSE [tx[t] EXCEPT !.slug = aliases[s].redirectTo])
            /\ UNCHANGED lock

\* ... then lock it and look again: it may have been renamed or deleted meanwhile.
\* Mistake: it is not looked at again.
CurrentAsRead(s) == TRUE
CurrentAsLocked(s) == DB!IsRoot(s)
LockShare(t) ==
    LET s == tx[t].slug IN
    /\ At(t, "lock") /\ Free(t, s)
    /\ IF ~DB!Visible(s) THEN NotFound(t)
       ELSE /\ Take(t, s)
            /\ Continue(t, IF CurrentAsLocked(s) THEN [tx[t] EXCEPT !.at = "commit"]
                           ELSE [tx[t] EXCEPT !.at = "resolve", !.slug = aliases[s].redirectTo])

CommitComplete(t) ==
    LET j == tx[t].job
        s == tx[t].slug
        x == ObjectOf(t)
        stored == [status |-> "ready", ext |-> jobs[j].upload.ext, thumb |-> FALSE]
    IN /\ Method(t, "complete") /\ At(t, "commit")
       /\ aliases' = [aliases EXCEPT ![s] = [@ EXCEPT !.object = x, !.status = "ready"]]
       /\ history' = history \cup DB!Replaced(s, x)
       /\ objects' = [objects EXCEPT ![x] = stored]
       /\ ideal' = [ideal EXCEPT ![x] = stored]
       /\ derivatives' = [derivatives EXCEPT ![<<jobs[j].upload.source, jobs[j].upload.profile>>] = x]
       /\ jobs' = [jobs EXCEPT ![j] = [@ EXCEPT !.status = "completed", !.target = x]]
       /\ raced' = raced \ {x}
       /\ Committed(t, {x})
       /\ UNCHANGED now

CommitFail(t) ==
    /\ Method(t, "fail") /\ At(t, "commit")
    /\ jobs' = [jobs EXCEPT ![tx[t].job].status = DB!AfterFailure(@)]
    /\ aliases' = IF tx[t].slug = Null THEN aliases
                  ELSE [aliases EXCEPT ![tx[t].slug].status = "failed"]
    /\ Committed(t, {})
    /\ UNCHANGED <<ideal, objects, derivatives, history, now, raced>>

-----------------------------------------------------------------------------
(* RenameAlias and DeleteAlias. *)

CallForShare(t, m, s, o, new) ==
    /\ ~Active(t)
    /\ DB!Visible(s)
    /\ Continue(t, [NoTx EXCEPT !.method = m, !.at = "select", !.slug = s, !.owner = o, !.new = new])
    /\ UNCHANGED lock

\* currentOwnedAliasForUpdateTx.  A statement that has to wait reads the locked
\* row again when it gets it, but not the row of objects that it joined before:
\* keyed says whether that join found the share's object.
Wait(t) ==
    LET s == tx[t].slug IN
    /\ At(t, "select") /\ ~Free(t, s)
    /\ IF ~(DB!Visible(s) /\ aliases[s].owner = tx[t].owner) THEN Rollback(t)
       ELSE /\ Continue(t, [tx[t] EXCEPT !.at = "wait", !.keyed = aliases[s].object # Null])
            /\ UNCHANGED lock

SelectOwned(t) ==
    LET s == tx[t].slug IN
    /\ tx[t].at \in {"select", "wait"} /\ Free(t, s)
    /\ IF ~DB!OwnedCurrent(s, tx[t].owner) THEN Rollback(t)
       ELSE /\ Take(t, s)
            /\ Continue(t, [tx[t] EXCEPT
                   !.at = IF Method(t, "rename") THEN "insert" ELSE "rows",
                   !.keyed = IF At(t, "wait") THEN @ ELSE aliases[s].object # Null])

\* INSERT ... ON CONFLICT DO NOTHING: waits for an insertion of the same name
\* that is not committed, and fails for one that is.
Insert(t) ==
    /\ At(t, "insert")
    /\ IF ~DB!NameFree(tx[t].new) THEN Rollback(t)
       ELSE /\ Free(t, tx[t].new)
            /\ Take(t, tx[t].new)
            /\ Continue(t, [tx[t] EXCEPT !.at = "rows"])

Family(t) == DB!Family(tx[t].slug, tx[t].owner)
JobsOf(t) == DB!CanceledBy(tx[t].slug, tx[t].owner)

\* An UPDATE of several rows locks them one after the other.
LockEach(t, rows, next) ==
    LET left == {r \in rows : lock[r] # t} IN
    IF left = {} THEN Continue(t, [tx[t] EXCEPT !.at = next]) /\ UNCHANGED lock
    ELSE /\ \E r \in left : Free(t, r) /\ Take(t, r)
         /\ UNCHANGED <<dbVars, objects, tx, raced>>

UpdateNames(t) ==
    /\ At(t, "rows")
    /\ LockEach(t, Family(t), IF Method(t, "rename") THEN "commit" ELSE "jobs")

CancelJobs(t) == At(t, "jobs") /\ LockEach(t, JobsOf(t), "count")

\* The share holds an object that no other current name holds, as far as is
\* committed; the transaction does not count the names it has deleted itself.
\* Mistake: names of deleted shares count.
CountsDeleted(t) == {r \in Slug \ Family(t) : aliases[r].object = ObjectOf(t)} = {}
Unreferenced(t) == DB!OtherReferences(tx[t].slug) = {}
Count(t) ==
    /\ At(t, "count")
    /\ Continue(t, IF tx[t].keyed /\ Unreferenced(t) THEN [tx[t] EXCEPT !.at = "free", !.frees = TRUE]
                   ELSE [tx[t] EXCEPT !.at = "commit"])
    /\ UNCHANGED lock

FreeObject(t) ==
    /\ At(t, "free") /\ Free(t, ObjectOf(t))
    /\ Take(t, ObjectOf(t))
    /\ Continue(t, [tx[t] EXCEPT !.at = "commit"])

CommitRename(t) ==
    LET s == tx[t].slug
        new == tx[t].new
    IN /\ Method(t, "rename") /\ At(t, "commit")
       /\ aliases' = [r \in Slug |-> IF r = new THEN aliases[s]
                                     ELSE IF r \in Family(t) THEN [aliases[r] EXCEPT !.redirectTo = new]
                                     ELSE aliases[r]]
       /\ Committed(t, {})
       /\ UNCHANGED <<jobs, ideal, objects, derivatives, history, now, raced>>

Deleted(table, x) == [table EXCEPT ![x].status = "deleted"]

CommitDelete(t) ==
    LET s == tx[t].slug
        x == ObjectOf(t)
    IN /\ Method(t, "delete") /\ At(t, "commit")
       /\ aliases' = [r \in Slug |-> IF r \in Family(t)
                                       THEN [aliases[r] EXCEPT !.visibility = "deleted"]
                                       ELSE aliases[r]]
       /\ jobs' = [j \in JobId |-> IF j \in JobsOf(t)
                                     THEN [jobs[j] EXCEPT !.status = "canceled"] ELSE jobs[j]]
       /\ objects' = IF tx[t].frees THEN Deleted(objects, x) ELSE objects
       /\ ideal' = IF DB!FreesObject(s) THEN Deleted(ideal, x) ELSE ideal
       /\ raced' = raced \cup (tx[t].met \cap {x})
       /\ Committed(t, {x} \ {Null})
       /\ UNCHANGED <<derivatives, history, now>>

-----------------------------------------------------------------------------

\* The rows that the next statement has to lock.
Wanted(t) ==
    CASE At(t, "job") -> {tx[t].job}
      [] At(t, "upsert") \/ At(t, "free") -> {ObjectOf(t)}
      [] At(t, "lock") \/ At(t, "wait") -> {tx[t].slug}
      [] At(t, "insert") -> {tx[t].new}
      [] At(t, "rows") -> {r \in Family(t) : lock[r] # t}
      [] At(t, "jobs") -> {j \in JobsOf(t) : lock[j] # t}
      [] OTHER -> {}

Blocked(t) == Wanted(t) # {} /\ \A r \in Wanted(t) : ~Free(t, r)

\* PostgreSQL fails one of several transactions that wait for each other.
Deadlock(t) ==
    /\ \E cycle \in SUBSET {u \in Tx : Active(u)} :
          /\ t \in cycle
          /\ \A u \in cycle : Blocked(u) /\ {lock[r] : r \in Wanted(u)} \subseteq cycle
    /\ Rollback(t)

Statement(t) ==
    \/ LockJob(t) \/ UpsertObject(t) \/ Resolve(t) \/ LockShare(t)
    \/ CommitComplete(t) \/ CommitFail(t)
    \/ Wait(t) \/ SelectOwned(t) \/ Insert(t) \/ UpdateNames(t) \/ CommitRename(t)
    \/ CancelJobs(t) \/ Count(t) \/ FreeObject(t) \/ CommitDelete(t)
    \/ Deadlock(t)

Call(t) ==
    \/ \E r \in Reported : CallForJob(t, r[1], r[2])
    \/ \E s \in Slug, o \in Owner : CallForShare(t, "delete", s, o, Null)
    \/ \E r \in Renamed, o \in Owner : CallForShare(t, "rename", r[1], o, r[2])

Next ==
    \/ \E o \in Owner, u \in Upload :
          now < Len(Asked) /\ CreateIngestJob(Asked[now + 1][1], o, Asked[now + 1][2], u)
    \/ \E j \in JobId : ClaimNextProcessingJob(j)
    \/ \E t \in Tx : Call(t) \/ Statement(t) \/ Rollback(t)

Spec == Init /\ [][Next]_vars

FairSpec == Spec /\ \A t \in Tx : SF_vars(Statement(t))

-----------------------------------------------------------------------------

\* A claim may pass over an older job whose row is locked.
OutOfTurn ==
    /\ \E j \in JobId : jobs[j].status = "queued" /\ jobs' = [jobs EXCEPT ![j].status = "running"]
    /\ UNCHANGED <<aliases, ideal, derivatives, history, now>>

\* What any interleaving of the statements commits, one transaction at a time,
\* the store's methods would have done in one step each, in the order of the
\* commits: names, jobs and their shares never see half a transaction, or one
\* that decided on rows that have changed since.  Of objects this is only so in
\* ideal, and claims may leave the order of the queue.
CommitsAreAtomic == DB!Init /\ [][DB!Next \/ OutOfTurn]_dbVars

\* Deletions count references in one statement and free the object in another.
\* That goes wrong only for an object that another deletion or completion
\* touched while a deletion of one of its shares was open, and only until the
\* same bytes are uploaded again.
ObjectsAgreeUnlessRaced ==
    \A x \in Sha \ raced : objects[x].status = ideal[x].status

\* No method waits forever: the rows are locked in different orders by deletions
\* and by the processor, yet every transaction commits or fails.
EveryMethodEnds == \A t \in Tx : Active(t) ~> ~Active(t)
=============================================================================
