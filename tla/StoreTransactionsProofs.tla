------------------------ MODULE StoreTransactionsProofs ------------------------
(***************************************************************************)
(* Proofs about StoreTransactions, for any number of transactions, names,  *)
(* jobs and uploads: whatever order the statements of open transactions    *)
(* run in, what they commit the methods of ShareMetadata could have done   *)
(* one after the other.                                                    *)
(***************************************************************************)
EXTENDS StoreTransactions, TLAPS

Store == INSTANCE ShareMetadataProofs WITH objects <- ideal, RedirectLimit <- 2, MaxOpens <- 0

-----------------------------------------------------------------------------
(* Store is the DB of StoreTransactions, with what is proved about it. *)

LEMMA StoreAssumed ==
    /\ Store!UploadAssumption /\ Store!NullAssumption
    /\ Store!LimitAssumption /\ Store!OpensAssumption
BY StoreAssumption
   DEF DB!UploadAssumption, Store!UploadAssumption, DB!Profile, Store!Profile,
       DB!NullAssumption, Store!NullAssumption, Store!LimitAssumption, Store!OpensAssumption

LEMMA SameRows ==
    ASSUME NEW s, NEW o
    PROVE  /\ DB!Visible(s) <=> Store!Visible(s)
           /\ DB!IsRoot(s) <=> Store!IsRoot(s)
           /\ DB!NameFree(s) <=> ~Store!Present(s)
           /\ DB!OwnedCurrent(s, o) <=> Store!OwnedCurrent(s, o)
           /\ DB!Family(s, o) = Store!Family(s, o)
           /\ DB!CanceledBy(s, o) = Store!CanceledBy(s, o)
           /\ DB!OtherReferences(s) = Store!OtherReferences(s)
BY DEF DB!Visible, Store!Visible, DB!IsRoot, Store!IsRoot, DB!NameFree, DB!Present,
       Store!Present, DB!OwnedCurrent, Store!OwnedCurrent, DB!Family, Store!Family,
       DB!CanceledBy, Store!CanceledBy, DB!OtherReferences, Store!OtherReferences

LEMMA SameInit == DB!Init => Store!Init
BY DEF DB!Init, Store!Init, DB!NoAlias, Store!NoAlias, DB!NoJob, Store!NoJob,
       DB!NoObject, Store!NoObject, DB!Profile, Store!Profile

LEMMA SameCreate ==
    ASSUME NEW j, NEW o, NEW s, NEW u, DB!CreateIngestJob(j, o, s, u)
    PROVE  Store!CreateIngestJob(j, o, s, u)
BY DEF DB!CreateIngestJob, Store!CreateIngestJob, DB!NameFree, Store!NameFree,
       DB!Present, Store!Present, DB!PendingAlias, Store!PendingAlias,
       DB!QueuedJob, Store!QueuedJob

LEMMA SameResolves ==
    ASSUME NEW s, NEW t
    PROVE  DB!Resolves(s, t) <=> Store!Resolves(s, t)
BY DEF DB!Resolves, Store!Resolves, DB!Visible, Store!Visible, DB!IsRoot, Store!IsRoot

LEMMA SameComplete ==
    ASSUME NEW j, NEW x, NEW e, NEW thumb, DB!CompleteProcessingJob(j, x, e, thumb)
    PROVE  Store!CompleteProcessingJob(j, x, e, thumb)
BY SameResolves
   DEF DB!CompleteProcessingJob, Store!CompleteProcessingJob, DB!Completable,
       Store!Completable, DB!Replaced, Store!Replaced

LEMMA SameFail ==
    ASSUME NEW j, DB!Failable(j), DB!FailProcessingJob(j)
    PROVE  Store!Failable(j) /\ Store!FailProcessingJob(j)
BY SameResolves
   DEF DB!Failable, Store!Failable, DB!FailProcessingJob, Store!FailProcessingJob,
       DB!AfterFailure, Store!AfterFailure

LEMMA SameRename ==
    ASSUME NEW s, NEW o, NEW new, DB!RenameAlias(s, o, new)
    PROVE  Store!RenameAlias(s, o, new)
BY DEF DB!RenameAlias, Store!RenameAlias, DB!OwnedCurrent, Store!OwnedCurrent,
       DB!NameFree, Store!NameFree, DB!Present, Store!Present, DB!Visible, Store!Visible,
       DB!IsRoot, Store!IsRoot, DB!RenamedRows, Store!RenamedRows, DB!Family, Store!Family

LEMMA SameDelete ==
    ASSUME NEW s, NEW o, DB!DeleteAlias(s, o)
    PROVE  Store!DeleteAlias(s, o)
BY DEF DB!DeleteAlias, Store!DeleteAlias, DB!OwnedCurrent, Store!OwnedCurrent,
       DB!Visible, Store!Visible, DB!IsRoot, Store!IsRoot, DB!DeletedRows,
       Store!DeletedRows, DB!Family, Store!Family, DB!CanceledBy, Store!CanceledBy,
       DB!FreesObject, Store!FreesObject, DB!OtherReferences, Store!OtherReferences

-----------------------------------------------------------------------------
(* The inductive invariant. *)

Entry == [method : {"none", "complete", "fail", "rename", "delete"},
          at : {"", "job", "upsert", "resolve", "lock", "select", "wait", "insert", "rows",
                "jobs", "count", "free", "commit"},
          job : JobId \cup {Null}, slug : Slug \cup {Null}, owner : Owner \cup {Null},
          new : Slug \cup {Null}, keyed : BOOLEAN, frees : BOOLEAN, met : SUBSET Sha]

\* No two transactions settle one job.
OneCallPerJob ==
    \A t, u \in Tx : tx[t].job # Null /\ tx[t].job = tx[u].job => t = u

\* A completion or failure report holds its job's row from its first statement on.
\* The name it looks for is one of the share's, whatever it was renamed to since,
\* and the row it writes is its current name, held; a failure report that found
\* none is of a share that is deleted for good.
Settles(t) ==
    LET j == tx[t].job
        s == tx[t].slug
    IN
    /\ j \in JobId /\ jobs[j].status \in {"running", "canceled"}
    /\ tx[t].at \in {"job", "upsert", "resolve", "lock", "commit"}
    /\ tx[t].at # "job" =>
           lock[j] = t /\ (tx[t].method = "complete" => jobs[j].status = "running")
    /\ s = Null => tx[t].method = "fail" /\ tx[t].at = "commit" /\ ~Store!Visible(jobs[j].alias)
    /\ s # Null => Store!Present(s) /\ Store!Root(s) = Store!JobRoot(j)
    /\ tx[t].at = "commit" /\ s # Null => lock[s] = t /\ Store!Live(s)

Selected == {"insert", "rows", "jobs", "count", "free", "commit"}

\* A rename or deletion holds the row of the name it selected, which stays current;
\* a rename the new name, which nobody else can take; and once all rows are
\* updated, those of the names and jobs of the share, which nobody has added to.
Edits(t) ==
    LET s == tx[t].slug
        o == tx[t].owner
        new == tx[t].new
    IN
    /\ s \in Slug /\ o \in Owner
    /\ tx[t].method = "rename" => /\ tx[t].at \in {"select", "wait", "insert", "rows", "commit"}
                                  /\ new \in Slug
    /\ tx[t].method = "delete" => tx[t].at \in {"select", "wait"} \cup (Selected \ {"insert"})
    /\ tx[t].at \in Selected => lock[s] = t /\ Store!OwnedCurrent(s, o)
    /\ tx[t].method = "rename" /\ tx[t].at \in {"rows", "commit"} =>
           lock[new] = t /\ ~Store!Present(new)
    /\ tx[t].at \in {"jobs", "count", "free", "commit"} =>
           \A r \in Slug : r \in Store!Family(s, o) => lock[r] = t
    /\ tx[t].method = "delete" /\ tx[t].at \in {"count", "free", "commit"} =>
           \A j \in JobId : j \in Store!CanceledBy(s, o) => lock[j] = t

Settling(t) == tx[t].method \in {"complete", "fail"}
Editing(t) == tx[t].method \in {"rename", "delete"}
Resting(t) == tx[t].method = "none"
Mine(t) ==
    /\ Settling(t) => Settles(t)
    /\ Editing(t) => Edits(t)
    /\ Resting(t) => tx[t].at = ""

Typed ==
    /\ lock \in [Row -> Tx \cup {Null}]
    /\ tx \in [Tx -> Entry]

TxInv == Typed /\ OneCallPerJob /\ \A t \in Tx : Mine(t)

LEMMA InitKeeps == Init => TxInv
<1> SUFFICES ASSUME Init PROVE TxInv
  OBVIOUS
<1>1. NoTx \in Entry /\ NoTx.method = "none" /\ NoTx.job = Null /\ NoTx.at = ""
  BY DEF NoTx, Entry
<1> HIDE DEF NoTx
<1>2. /\ \A t \in Tx : tx[t] = NoTx
      /\ tx \in [Tx -> Entry]
      /\ lock \in [Row -> Tx \cup {Null}]
  BY <1>1 DEF Init
<1>3. OneCallPerJob
  BY <1>1, <1>2 DEF OneCallPerJob
<1>4. \A t \in Tx : Mine(t)
  BY <1>1, <1>2 DEF Mine, Settling, Editing, Resting
<1> QED BY <1>2, <1>3, <1>4 DEF TxInv, Typed

-----------------------------------------------------------------------------
(* What a step of one transaction leaves of the others. *)

\* The locks of others stay theirs.
LocksOf(a) ==
    /\ lock' \in [Row -> Tx \cup {Null}]
    /\ \A r \in Row : lock'[r] = lock[r] \/ (lock[r] \in {Null, a} /\ lock'[r] \in {Null, a})

SameCall(t) ==
    /\ tx'[t].method = tx[t].method /\ tx'[t].at = tx[t].at
    /\ tx'[t].job = tx[t].job /\ tx'[t].slug = tx[t].slug /\ tx'[t].owner = tx[t].owner
    /\ tx'[t].new = tx[t].new /\ tx'[t].keyed = tx[t].keyed /\ tx'[t].frees = tx[t].frees

\* a, a transaction or Null for the methods of one step, changes the rows that it
\* has locked; of jobs that are claimed, only its own or those it cancels.
OthersOf(a) ==
    /\ LocksOf(a)
    /\ \A t \in Tx \ {a} : SameCall(t)
    /\ \A r \in Slug : aliases'[r] = aliases[r] \/ lock[r] = a
    /\ \A j \in JobId : \/ jobs'[j] = jobs[j]
                        \/ jobs[j].status = "absent"
                        \/ lock[j] = a /\ \/ jobs[j].status = "queued"
                                          \/ jobs'[j].status = "canceled"
                                          \/ a \in Tx /\ j = tx[a].job

LEMMA OthersSettle ==
    ASSUME Store!IInv, Store!StoreStep, TxInv, NEW a \in Tx \cup {Null}, OthersOf(a),
           NEW t \in Tx \ {a}, Settling(t)
    PROVE  Settles(t)'
<1>1. Store!Carried /\ Store!NamesLast
  BY StoreAssumed, Store!StoreStepCarries, Store!NamesDoLast
<1>2. SameCall(t) /\ Settles(t)
  BY DEF OthersOf, TxInv, Mine
<1>3. PICK j \in JobId : j = tx[t].job
  BY <1>2 DEF Settles
<1>4. PICK s \in Slug \cup {Null} : s = tx[t].slug
  BY DEF TxInv, Typed, Entry
<1>5. jobs[j].status \in {"running", "canceled"} /\ Store!JobExists(j)
  BY <1>2, <1>3 DEF Settles, Store!JobExists
<1>6. PICK r \in Slug : r = jobs[j].alias /\ Store!Present(r)
  BY <1>5, StoreAssumed, Store!JobHasShare DEF Store!IInv
<1>7. jobs'[j].alias = r
  BY <1>1, <1>5, <1>6 DEF Store!Carried
<1>8. \A q \in Row : lock[q] = t => lock'[q] = t
  BY LockAssumption DEF OthersOf, LocksOf
<1>9. ~(a \in Tx /\ j = tx[a].job)
  BY <1>3, LockAssumption DEF TxInv, OneCallPerJob
<1>10. jobs'[j].status \in {"running", "canceled"}
  BY <1>5, <1>9 DEF OthersOf
<1>11. lock[j] = t => jobs'[j] = jobs[j]
  BY <1>5 DEF OthersOf
<1>12. s = Null => ~Store!Visible(r)'
  <2>1. s = Null => ~Store!Visible(r)
    BY <1>2, <1>3, <1>4, <1>6 DEF Settles
  <2> QED BY <1>1, <1>6, <2>1 DEF Store!NamesLast
<1>13. s # Null => Store!Present(s)' /\ Store!Root(s)' = Store!Root(r)'
  <2>1. CASE s # Null
    <3>1. Store!Root(s) = Store!Root(r) /\ Store!Present(s)
      BY <1>2, <1>3, <1>4, <1>6, <2>1 DEF Settles, Store!JobRoot
    <3> QED BY <1>1, <1>4, <1>6, <2>1, <3>1 DEF Store!Carried
  <2> QED BY <2>1
<1>14. lock[s] = t /\ s \in Slug => aliases'[s] = aliases[s]
  BY DEF OthersOf
<1>15. tx[t].at = "commit" /\ s # Null => lock'[s] = t /\ Store!Live(s)'
  BY <1>2, <1>4, <1>8, <1>14 DEF Settles, Row, Store!Live, Store!Visible, Store!IsRoot
<1>16. tx[t].at # "job" => lock'[j] = t /\ (tx[t].method = "complete" => jobs'[j].status = "running")
  BY <1>2, <1>3, <1>8, <1>11 DEF Settles, Row
<1>17. /\ tx'[t].job = j /\ tx'[t].slug = s
       /\ tx'[t].at = tx[t].at /\ tx'[t].method = tx[t].method
  BY <1>2, <1>3, <1>4 DEF SameCall
<1>18. Store!JobRoot(j)' = Store!Root(r)' /\ (~Store!Visible(jobs[j].alias)' <=> ~Store!Visible(r)')
  BY <1>7 DEF Store!JobRoot, Store!Visible, Store!Root, Store!IsRoot
<1> QED
  <2>1. /\ tx[t].at \in {"job", "upsert", "resolve", "lock", "commit"}
        /\ s = Null => tx[t].method = "fail" /\ tx[t].at = "commit"
    BY <1>2, <1>4 DEF Settles
  <2>2. s # Null => Store!Present(s)' /\ Store!Root(s)' = Store!JobRoot(j)'
    BY <1>13, <1>18
  <2>3. Store!Present(tx[t].slug)' <=> Store!Present(s)'
    BY <1>17 DEF Store!Present
  <2>4. Store!Root(tx[t].slug)' = Store!Root(s)' /\ Store!JobRoot(tx[t].job)' = Store!JobRoot(j)'
    BY <1>17 DEF Store!Root, Store!IsRoot, Store!JobRoot
  <2>5. Store!Live(tx[t].slug)' <=> Store!Live(s)'
    BY <1>17 DEF Store!Live, Store!Visible, Store!IsRoot
  <2>6. Store!Visible(jobs[tx[t].job].alias)' <=> Store!Visible(r)'
    BY <1>7, <1>17 DEF Store!Visible
  <2> QED BY <1>10, <1>12, <1>15, <1>16, <1>17, <2>1, <2>2, <2>3, <2>4, <2>5, <2>6 DEF Settles

LEMMA OthersEdit ==
    ASSUME Store!IInv, Store!StoreStep, TxInv, NEW a \in Tx \cup {Null}, OthersOf(a),
           NEW t \in Tx \ {a}, Editing(t)
    PROVE  Edits(t)'
<1>1. SameCall(t) /\ Edits(t)
  BY DEF OthersOf, TxInv, Mine
<1>2. \A r \in Row : lock[r] = t => lock'[r] = t
  BY LockAssumption DEF OthersOf, LocksOf
<1>3. \A r \in Slug : lock[r] = t => lock'[r] = t /\ aliases'[r] = aliases[r]
  BY <1>2 DEF OthersOf, Row
<1>4. PICK s \in Slug : s = tx[t].slug
  BY <1>1 DEF Edits
<1>5. PICK o \in Owner : o = tx[t].owner
  BY <1>1 DEF Edits
<1>6. PICK new \in Slug \cup {Null} : new = tx[t].new
  BY DEF TxInv, Typed, Entry
<1>7. tx[t].at \in Selected => /\ lock[s] = t /\ Store!OwnedCurrent(s, o) /\ lock'[s] = t
                               /\ aliases'[s] = aliases[s]
  BY <1>1, <1>3, <1>4, <1>5 DEF Edits
<1>8. tx[t].at \in Selected => Store!OwnedCurrent(s, o)'
  BY <1>7 DEF Store!OwnedCurrent, Store!Visible, Store!IsRoot
<1>9. tx[t].method = "rename" /\ tx[t].at \in {"rows", "commit"} =>
           lock'[new] = t /\ ~Store!Present(new)'
  BY <1>1, <1>3, <1>6 DEF Edits, Store!Present
<1>10. tx[t].at \in Selected => \A r \in Slug : r \in Store!Family(s, o)' => r \in Store!Family(s, o)
  BY <1>7, StoreAssumed, Store!FamilyOnlyShrinks
<1>11. tx[t].at \in Selected => \A j \in JobId : j \in Store!CanceledBy(s, o)' => j \in Store!CanceledBy(s, o)
  BY <1>7, StoreAssumed, Store!CanceledOnlyShrink
<1>12. /\ tx'[t].slug = s /\ tx'[t].owner = o /\ tx'[t].new = new
       /\ tx'[t].at = tx[t].at /\ tx'[t].method = tx[t].method
  BY <1>1, <1>4, <1>5, <1>6 DEF SameCall
<1>13. tx[t].at \in {"jobs", "count", "free", "commit"} =>
           \A r \in Slug : r \in Store!Family(s, o)' => lock'[r] = t
  BY <1>1, <1>3, <1>4, <1>5, <1>10 DEF Edits, Selected
<1>14. tx[t].method = "delete" /\ tx[t].at \in {"count", "free", "commit"} =>
           \A j \in JobId : j \in Store!CanceledBy(s, o)' => lock'[j] = t
  BY <1>1, <1>2, <1>4, <1>5, <1>11 DEF Edits, Selected, Row
<1>15. Store!OwnedCurrent(tx[t].slug, tx[t].owner)' <=> Store!OwnedCurrent(s, o)'
  BY <1>12 DEF Store!OwnedCurrent, Store!Visible, Store!IsRoot
<1>16. /\ Store!Family(tx[t].slug, tx[t].owner)' = Store!Family(s, o)'
       /\ Store!CanceledBy(tx[t].slug, tx[t].owner)' = Store!CanceledBy(s, o)'
  BY <1>12 DEF Store!Family, Store!CanceledBy
<1>17. Store!Present(tx[t].new)' <=> Store!Present(new)'
  BY <1>12 DEF Store!Present
<1>18. /\ tx[t].method = "rename" => /\ tx[t].at \in {"select", "wait", "insert", "rows", "commit"}
                                     /\ new \in Slug
       /\ tx[t].method = "delete" => tx[t].at \in {"select", "wait"} \cup (Selected \ {"insert"})
  BY <1>1, <1>6 DEF Edits
<1> QED
  BY <1>7, <1>8, <1>9, <1>12, <1>13, <1>14, <1>15, <1>16, <1>17, <1>18 DEF Edits

-----------------------------------------------------------------------------
(* Statements that commit nothing. *)

\* t goes on as e, which settles the job it did, or one nobody settles, or none.
Moves(t, e) ==
    /\ UNCHANGED dbVars
    /\ tx' = [tx EXCEPT ![t] = e]
    /\ e \in Entry
    /\ e.job \in {Null, tx[t].job} \/ \A u \in Tx : tx[u].job # e.job
    /\ LocksOf(t)

LEMMA TakeLocks ==
    ASSUME Typed, NEW t \in Tx, NEW r, Free(t, r), Take(t, r)
    PROVE  /\ LocksOf(t)
           /\ \A q \in Row : lock[q] = t \/ q = r => lock'[q] = t
BY DEF Typed, Free, Take, LocksOf

LEMMA ReleaseLocks ==
    ASSUME Typed, NEW t \in Tx, lock' = Released(t)
    PROVE  LocksOf(t)
BY DEF Typed, Released, LocksOf

LEMMA SameLocks ==
    ASSUME Typed, NEW t \in Tx, UNCHANGED lock
    PROVE  LocksOf(t)
BY DEF Typed, LocksOf

LEMMA MovesKeep ==
    ASSUME Store!IInv, TxInv, NEW t \in Tx, NEW e, Moves(t, e), Mine(t)'
    PROVE  TxInv'
<1>1. Typed /\ OneCallPerJob
  BY DEF TxInv
<1>2. Typed'
  BY <1>1 DEF Typed, Moves, LocksOf
<1>3. tx'[t] = e /\ \A u \in Tx \ {t} : tx'[u] = tx[u]
  BY <1>1 DEF Typed, Moves
<1>4. OneCallPerJob'
  BY <1>1, <1>3 DEF OneCallPerJob, Moves
<1>5. Store!StoreStep
  BY DEF Moves, dbVars, Store!StoreStep, Store!vars
<1>6. OthersOf(t)
  <2>1. \A u \in Tx \ {t} : SameCall(u)
    BY <1>3 DEF SameCall
  <2>2. aliases' = aliases /\ jobs' = jobs /\ LocksOf(t)
    BY DEF Moves, dbVars
  <2> QED BY <2>1, <2>2 DEF OthersOf
<1>7. ASSUME NEW u \in Tx \ {t} PROVE Mine(u)'
  <2>1. Settling(u)' => Settling(u)
    BY <1>3 DEF Settling
  <2>2. Editing(u)' => Editing(u)
    BY <1>3 DEF Editing
  <2>3. Resting(u)' => tx'[u].at = ""
    BY <1>3 DEF TxInv, Mine, Resting
  <2> QED BY <1>5, <1>6, <2>1, <2>2, <2>3, OthersSettle, OthersEdit DEF Mine
<1> QED BY <1>2, <1>4, <1>7 DEF TxInv

\* Rollback, whoever asks for it.
LEMMA RollbackKeeps ==
    ASSUME Store!IInv, TxInv, NEW t \in Tx, Rollback(t)
    PROVE  TxInv'
<1>1. NoTx \in Entry /\ NoTx.method = "none" /\ NoTx.job = Null /\ NoTx.at = ""
  BY DEF NoTx, Entry
<1> HIDE DEF NoTx
<1>2. Moves(t, NoTx)
  BY <1>1, ReleaseLocks DEF TxInv, Rollback, Continue, Moves
<1>3. Mine(t)'
  BY <1>1, <1>2 DEF TxInv, Typed, Moves, Mine, Settling, Editing, Resting
<1> QED BY <1>2, <1>3, MovesKeep

\* In the tables nothing changes, nor in what is read from them.
LEMMA SameTables ==
    ASSUME UNCHANGED dbVars, NEW s, NEW o, NEW j
    PROVE  /\ Store!Visible(s)' = Store!Visible(s) /\ Store!IsRoot(s)' = Store!IsRoot(s)
           /\ Store!Present(s)' = Store!Present(s) /\ Store!Live(s)' = Store!Live(s)
           /\ Store!Root(s)' = Store!Root(s)
           /\ Store!OwnedCurrent(s, o)' = Store!OwnedCurrent(s, o)
           /\ Store!Family(s, o)' = Store!Family(s, o)
           /\ Store!CanceledBy(s, o)' = Store!CanceledBy(s, o)
           /\ Store!JobRoot(j)' = Store!JobRoot(j)
           /\ jobs'[j] = jobs[j]
BY DEF dbVars, Store!Visible, Store!IsRoot, Store!Present, Store!Live, Store!Root,
       Store!OwnedCurrent, Store!Family, Store!CanceledBy, Store!JobRoot

\* The invariant of t where it goes on as e holding what l says, for tables as
\* they are.
SettlesAs(t, e, l) ==
    /\ e.job \in JobId /\ jobs[e.job].status \in {"running", "canceled"}
    /\ e.at \in {"job", "upsert", "resolve", "lock", "commit"}
    /\ e.at # "job" =>
           l[e.job] = t /\ (e.method = "complete" => jobs[e.job].status = "running")
    /\ e.slug = Null => e.method = "fail" /\ e.at = "commit" /\ ~Store!Visible(jobs[e.job].alias)
    /\ e.slug # Null => Store!Present(e.slug) /\ Store!Root(e.slug) = Store!JobRoot(e.job)
    /\ e.at = "commit" /\ e.slug # Null => l[e.slug] = t /\ Store!Live(e.slug)

EditsAs(t, e, l) ==
    /\ e.slug \in Slug /\ e.owner \in Owner
    /\ e.method = "rename" => /\ e.at \in {"select", "wait", "insert", "rows", "commit"}
                              /\ e.new \in Slug
    /\ e.method = "delete" => e.at \in {"select", "wait"} \cup (Selected \ {"insert"})
    /\ e.at \in Selected => l[e.slug] = t /\ Store!OwnedCurrent(e.slug, e.owner)
    /\ e.method = "rename" /\ e.at \in {"rows", "commit"} =>
           l[e.new] = t /\ ~Store!Present(e.new)
    /\ e.at \in {"jobs", "count", "free", "commit"} =>
           \A r \in Slug : r \in Store!Family(e.slug, e.owner) => l[r] = t
    /\ e.method = "delete" /\ e.at \in {"count", "free", "commit"} =>
           \A j \in JobId : j \in Store!CanceledBy(e.slug, e.owner) => l[j] = t

LEMMA GoesOn ==
    ASSUME Store!IInv, TxInv, NEW t \in Tx, NEW e, Moves(t, e),
           e.method \in {"complete", "fail"} => SettlesAs(t, e, lock'),
           e.method \in {"rename", "delete"} => EditsAs(t, e, lock'),
           e.method = "none" => e.at = ""
    PROVE  TxInv'
<1>1. /\ tx'[t] = e /\ UNCHANGED dbVars /\ aliases' = aliases /\ jobs' = jobs
  BY DEF TxInv, Typed, Moves, dbVars
<1>2. /\ Store!Present(tx[t].slug)' <=> Store!Present(e.slug)
      /\ Store!Root(tx[t].slug)' = Store!Root(e.slug)
      /\ Store!Live(tx[t].slug)' <=> Store!Live(e.slug)
      /\ Store!JobRoot(tx[t].job)' = Store!JobRoot(e.job)
      /\ Store!Visible(jobs[tx[t].job].alias)' <=> Store!Visible(jobs[e.job].alias)
  BY <1>1 DEF Store!Present, Store!Root, Store!IsRoot, Store!Live, Store!Visible, Store!JobRoot
<1>3. /\ Store!Present(tx[t].new)' <=> Store!Present(e.new)
      /\ Store!OwnedCurrent(tx[t].slug, tx[t].owner)' <=> Store!OwnedCurrent(e.slug, e.owner)
      /\ Store!Family(tx[t].slug, tx[t].owner)' = Store!Family(e.slug, e.owner)
      /\ Store!CanceledBy(tx[t].slug, tx[t].owner)' = Store!CanceledBy(e.slug, e.owner)
  BY <1>1 DEF Store!Present, Store!OwnedCurrent, Store!IsRoot, Store!Visible, Store!Family,
              Store!CanceledBy
<1>4. e.method \in {"complete", "fail"} => Settles(t)'
  BY <1>1, <1>2 DEF SettlesAs, Settles
<1>5. e.method \in {"rename", "delete"} => Edits(t)'
  BY <1>1, <1>2, <1>3 DEF EditsAs, Edits
<1>6. Mine(t)'
  BY <1>1, <1>4, <1>5 DEF Mine, Settling, Editing, Resting
<1> QED BY <1>6, MovesKeep

\* What the invariant says of t at a statement.
LEMMA IsMine ==
    ASSUME TxInv, NEW t \in Tx
    PROVE  /\ Settling(t) => SettlesAs(t, tx[t], lock) /\ tx[t].method # "none"
           /\ Editing(t) => EditsAs(t, tx[t], lock) /\ tx[t].method # "none"
           /\ tx[t] \in Entry
BY DEF TxInv, Typed, Mine, Settles, SettlesAs, Edits, EditsAs, Settling, Editing

\* Only calls for jobs are at these statements, only renames and deletions at those.
LEMMA WhereTheyAre ==
    ASSUME TxInv, NEW t \in Tx
    PROVE  /\ tx[t].at \in {"job", "upsert", "resolve", "lock"} => Settling(t)
           /\ tx[t].at \in {"select", "wait", "insert", "rows", "jobs", "count", "free"}
                  => Editing(t)
           /\ tx[t].at \in {"jobs", "count", "free"} => tx[t].method = "delete"
           /\ tx[t].at = "insert" => tx[t].method = "rename"
BY DEF TxInv, Typed, Entry, Mine, Settling, Editing, Settles, Edits, Selected, Resting

-----------------------------------------------------------------------------
(* CompleteProcessingJob and FailProcessingJob, up to their commit. *)

LEMMA CallForJobKeeps ==
    ASSUME Store!IInv, TxInv, NEW t \in Tx, NEW m \in {"complete", "fail"}, NEW j \in JobId,
           CallForJob(t, m, j)
    PROVE  TxInv'
<1> DEFINE e == [NoTx EXCEPT !.method = m, !.at = "job", !.job = j, !.slug = jobs[j].alias]
<1>1. /\ jobs[j].status \in {"running", "canceled"} /\ \A u \in Tx : tx[u].job # j
      /\ tx' = [tx EXCEPT ![t] = e] /\ UNCHANGED dbVars /\ UNCHANGED lock
  BY DEF CallForJob, Continue
<1>2. Store!JobExists(j)
  BY <1>1 DEF Store!JobExists
<1>3. jobs[j].alias \in Slug /\ Store!Present(jobs[j].alias) /\ jobs[j].alias # Null
  BY <1>2, StoreAssumed, Store!JobHasShare DEF Store!IInv, Store!NullAssumption
<1>4. e \in Entry /\ e.method = m /\ e.at = "job" /\ e.job = j /\ e.slug = jobs[j].alias
  BY <1>3 DEF Entry, NoTx
<1>5. LocksOf(t)
  BY <1>1, SameLocks DEF TxInv
<1>6. PICK f \in Entry : f = e
  BY <1>4
<1> HIDE DEF e
<1>7. Moves(t, f)
  BY <1>1, <1>4, <1>5, <1>6 DEF Moves
<1>8. SettlesAs(t, f, lock')
  BY <1>1, <1>3, <1>4, <1>6 DEF SettlesAs, Store!JobRoot
<1> QED BY <1>4, <1>6, <1>7, <1>8, GoesOn

LEMMA LockJobKeeps ==
    ASSUME Store!IInv, TxInv, NEW t \in Tx, LockJob(t)
    PROVE  TxInv'
<1>1. CASE Rollback(t)
  BY <1>1, RollbackKeeps
<1>2. CASE ~Rollback(t)
  <2> DEFINE j == tx[t].job
             e == [tx[t] EXCEPT !.at = IF Method(t, "complete") THEN "upsert" ELSE "resolve"]
  <2>1. /\ tx[t].at = "job" /\ Free(t, j) /\ Take(t, j)
        /\ tx[t].method = "complete" => jobs[j].status = "running"
        /\ tx' = [tx EXCEPT ![t] = e] /\ UNCHANGED dbVars
    BY <1>2 DEF LockJob, Continue, At, Method
  <2>2. Settling(t) /\ SettlesAs(t, tx[t], lock) /\ tx[t] \in Entry
    BY <2>1, IsMine, WhereTheyAre
  <2>3. /\ e \in Entry /\ e.method = tx[t].method /\ e.at \in {"upsert", "resolve"}
        /\ e.job = j /\ e.slug = tx[t].slug
    BY <2>2 DEF Entry
  <2>4. j \in JobId /\ LocksOf(t) /\ lock'[j] = t
    BY <2>1, <2>2, TakeLocks DEF TxInv, SettlesAs, Row
  <2>5. PICK f \in Entry : f = e
    BY <2>3
  <2> HIDE DEF e
  <2>6. Moves(t, f)
    BY <2>1, <2>3, <2>4, <2>5 DEF Moves
  <2>7. SettlesAs(t, f, lock')
    BY <2>1, <2>2, <2>3, <2>4, <2>5 DEF SettlesAs
  <2> QED BY <2>2, <2>3, <2>5, <2>6, <2>7, GoesOn DEF Settling
<1> QED BY <1>1, <1>2

LEMMA UpsertObjectKeeps ==
    ASSUME Store!IInv, TxInv, NEW t \in Tx, UpsertObject(t)
    PROVE  TxInv'
<1> DEFINE e == [tx[t] EXCEPT !.at = "resolve"]
<1>1. /\ tx[t].at = "upsert" /\ Free(t, ObjectOf(t)) /\ Take(t, ObjectOf(t))
      /\ tx' = [tx EXCEPT ![t] = e] /\ UNCHANGED dbVars
  BY DEF UpsertObject, Continue, At
<1>2. Settling(t) /\ SettlesAs(t, tx[t], lock) /\ tx[t] \in Entry
  BY <1>1, IsMine, WhereTheyAre
<1>3. /\ e \in Entry /\ e.method = tx[t].method /\ e.at = "resolve"
      /\ e.job = tx[t].job /\ e.slug = tx[t].slug
  BY <1>2 DEF Entry
<1>4. LocksOf(t) /\ (lock[tx[t].job] = t => lock'[tx[t].job] = t)
  BY <1>1, <1>2, TakeLocks DEF TxInv, SettlesAs, Row
<1>5. PICK f \in Entry : f = e
  BY <1>3
<1> HIDE DEF e
<1>6. Moves(t, f)
  BY <1>1, <1>3, <1>4, <1>5 DEF Moves
<1>7. SettlesAs(t, f, lock')
  BY <1>1, <1>2, <1>3, <1>4, <1>5 DEF SettlesAs
<1> QED BY <1>2, <1>3, <1>5, <1>6, <1>7, GoesOn DEF Settling

\* A name of the share that is not visible: the share is deleted.
LEMMA NotFoundKeeps ==
    ASSUME Store!IInv, TxInv, NEW t \in Tx, tx[t].at \in {"resolve", "lock"}, NotFound(t),
           tx[t].slug # Null, ~Store!Visible(tx[t].slug)
    PROVE  TxInv'
<1>1. CASE Method(t, "complete")
  BY <1>1, RollbackKeeps DEF NotFound
<1>2. CASE ~Method(t, "complete")
  <2> DEFINE e == [tx[t] EXCEPT !.at = "commit", !.slug = Null]
  <2>1. tx' = [tx EXCEPT ![t] = e] /\ UNCHANGED <<dbVars, lock>>
    BY <1>2 DEF NotFound, Continue
  <2>2. Settling(t) /\ SettlesAs(t, tx[t], lock) /\ tx[t] \in Entry
    BY IsMine, WhereTheyAre
  <2>3. tx[t].method = "fail"
    BY <1>2, <2>2 DEF Method, Settling
  <2>4. e \in Entry /\ e.method = "fail" /\ e.at = "commit" /\ e.job = tx[t].job /\ e.slug = Null
    BY <2>2, <2>3 DEF Entry
  <2>5. ~Store!Visible(jobs[tx[t].job].alias)
    <3>1. PICK j \in JobId : j = tx[t].job
      BY <2>2 DEF SettlesAs
    <3>2. PICK s \in Slug : s = tx[t].slug
      BY <2>2 DEF Entry
    <3>3. /\ Store!JobExists(j) /\ Store!Present(s) /\ ~Store!Visible(s)
          /\ Store!Root(s) = Store!JobRoot(j)
      BY <2>2, <3>1, <3>2 DEF SettlesAs, Store!JobExists
    <3>4. aliases[Store!JobRoot(j)].visibility = aliases[jobs[j].alias].visibility
      BY <3>3, StoreAssumed, Store!JobHasShare DEF Store!IInv
    <3>5. aliases[Store!Root(s)].visibility = aliases[s].visibility
      BY <3>3, StoreAssumed, Store!RootIsCurrent DEF Store!IInv
    <3> QED BY <3>1, <3>3, <3>4, <3>5 DEF Store!Visible
  <2>6. LocksOf(t)
    BY <2>1, SameLocks DEF TxInv
  <2>7. PICK f \in Entry : f = e
    BY <2>4
  <2> HIDE DEF e
  <2>8. Moves(t, f)
    BY <2>1, <2>4, <2>6, <2>7 DEF Moves
  <2>9. SettlesAs(t, f, lock')
    BY <2>1, <2>2, <2>4, <2>5, <2>7 DEF SettlesAs
  <2> QED BY <2>4, <2>7, <2>8, <2>9, GoesOn
<1> QED BY <1>1, <1>2

\* The name a retired name of the share leads to is one of it as well.
LEMMA NextNameIsTheShares ==
    ASSUME Store!IInv, NEW s \in Slug, Store!Present(s), ~Store!IsRoot(s)
    PROVE  /\ aliases[s].redirectTo \in Slug /\ aliases[s].redirectTo # Null
           /\ Store!Present(aliases[s].redirectTo)
           /\ Store!Root(aliases[s].redirectTo) = Store!Root(s)
<1>1. Store!Root(s) = aliases[s].redirectTo
  BY DEF Store!Root
<1>2. Store!Root(s) \in Slug /\ Store!Present(Store!Root(s)) /\ Store!IsRoot(Store!Root(s))
  BY StoreAssumed, Store!RootIsCurrent DEF Store!IInv
<1> QED BY <1>1, <1>2, StoreAssumed DEF Store!NullAssumption, Store!Root

LEMMA ResolveKeeps ==
    ASSUME Store!IInv, TxInv, NEW t \in Tx, Resolve(t)
    PROVE  TxInv'
<1> DEFINE s == tx[t].slug
           e == IF DB!IsRoot(s) THEN [tx[t] EXCEPT !.at = "lock"]
                ELSE [tx[t] EXCEPT !.slug = aliases[s].redirectTo]
<1>1. tx[t].at = "resolve" /\ Settling(t) /\ SettlesAs(t, tx[t], lock) /\ tx[t] \in Entry
  BY IsMine, WhereTheyAre DEF Resolve, At
<1>2. s \in Slug /\ s # Null /\ Store!Present(s)
  BY <1>1 DEF SettlesAs, Entry
<1>3. CASE ~DB!Visible(s)
  BY <1>1, <1>2, <1>3, NotFoundKeeps, SameRows DEF Resolve
<1>4. CASE DB!Visible(s)
  <2>1. tx' = [tx EXCEPT ![t] = e] /\ UNCHANGED <<dbVars, lock>>
    BY <1>4 DEF Resolve, Continue
  <2>2. DB!IsRoot(s) <=> Store!IsRoot(s)
    BY SameRows
  <2>3. ~Store!IsRoot(s) => /\ aliases[s].redirectTo \in Slug /\ aliases[s].redirectTo # Null
                            /\ Store!Present(aliases[s].redirectTo)
                            /\ Store!Root(aliases[s].redirectTo) = Store!Root(s)
    BY <1>2, NextNameIsTheShares
  <2>4. /\ e \in Entry /\ e.method = tx[t].method /\ e.at \in {"lock", "resolve"}
        /\ e.job = tx[t].job /\ e.slug # Null
        /\ Store!Present(e.slug) /\ Store!Root(e.slug) = Store!Root(s)
    <3>1. CASE Store!IsRoot(s)
      BY <1>1, <1>2, <2>2, <3>1 DEF Entry
    <3>2. CASE ~Store!IsRoot(s)
      <4>1. e = [tx[t] EXCEPT !.slug = aliases[s].redirectTo]
        BY <2>2, <3>2
      <4>2. /\ e \in Entry /\ e.method = tx[t].method /\ e.at = "resolve"
            /\ e.job = tx[t].job /\ e.slug = aliases[s].redirectTo
        BY <1>1, <2>3, <3>2, <4>1 DEF Entry
      <4> QED BY <2>3, <3>2, <4>2
    <3> QED BY <3>1, <3>2
  <2>5. LocksOf(t)
    BY <2>1, SameLocks DEF TxInv
  <2>6. PICK f \in Entry : f = e
    BY <2>4
  <2> HIDE DEF e
  <2>7. Moves(t, f)
    BY <2>1, <2>4, <2>5, <2>6 DEF Moves
  <2>8. SettlesAs(t, f, lock')
    BY <1>1, <2>1, <2>4, <2>6 DEF SettlesAs
  <2> QED BY <1>1, <2>4, <2>6, <2>7, <2>8, GoesOn DEF Settling
<1> QED BY <1>3, <1>4

LEMMA LockShareKeeps ==
    ASSUME Store!IInv, TxInv, NEW t \in Tx, LockShare(t)
    PROVE  TxInv'
<1> DEFINE s == tx[t].slug
           e == IF CurrentAsLocked(s) THEN [tx[t] EXCEPT !.at = "commit"]
                ELSE [tx[t] EXCEPT !.at = "resolve", !.slug = aliases[s].redirectTo]
<1>1. tx[t].at = "lock" /\ Settling(t) /\ SettlesAs(t, tx[t], lock) /\ tx[t] \in Entry
  BY IsMine, WhereTheyAre DEF LockShare, At
<1>2. s \in Slug /\ s # Null /\ Store!Present(s)
  BY <1>1 DEF SettlesAs, Entry
<1>3. CASE ~DB!Visible(s)
  BY <1>1, <1>2, <1>3, NotFoundKeeps, SameRows DEF LockShare
<1>4. CASE DB!Visible(s)
  <2>1. tx' = [tx EXCEPT ![t] = e] /\ UNCHANGED dbVars /\ Free(t, s) /\ Take(t, s)
    BY <1>4 DEF LockShare, Continue
  <2>2. (CurrentAsLocked(s) <=> Store!IsRoot(s)) /\ Store!Visible(s)
    BY <1>4, SameRows DEF CurrentAsLocked
  <2>3. ~Store!IsRoot(s) => /\ aliases[s].redirectTo \in Slug /\ aliases[s].redirectTo # Null
                            /\ Store!Present(aliases[s].redirectTo)
                            /\ Store!Root(aliases[s].redirectTo) = Store!Root(s)
    BY <1>2, NextNameIsTheShares
  <2>4. LocksOf(t) /\ lock'[s] = t /\ (lock[tx[t].job] = t => lock'[tx[t].job] = t)
    BY <1>1, <1>2, <2>1, TakeLocks DEF TxInv, SettlesAs, Row
  <2>5. /\ e \in Entry /\ e.method = tx[t].method /\ e.job = tx[t].job /\ e.slug # Null
        /\ Store!Present(e.slug) /\ Store!Root(e.slug) = Store!Root(s)
        /\ \/ e.at = "resolve"
           \/ e.at = "commit" /\ e.slug = s /\ Store!IsRoot(s)
    <3>1. CASE Store!IsRoot(s)
      BY <1>1, <1>2, <2>2, <3>1 DEF Entry
    <3>2. CASE ~Store!IsRoot(s)
      <4>1. e = [tx[t] EXCEPT !.at = "resolve", !.slug = aliases[s].redirectTo]
        BY <2>2, <3>2
      <4>2. /\ e \in Entry /\ e.method = tx[t].method /\ e.at = "resolve"
            /\ e.job = tx[t].job /\ e.slug = aliases[s].redirectTo
        BY <1>1, <2>3, <3>2, <4>1 DEF Entry
      <4> QED BY <2>3, <3>2, <4>2
    <3> QED BY <3>1, <3>2
  <2>6. PICK f \in Entry : f = e
    BY <2>5
  <2> HIDE DEF e
  <2>7. Moves(t, f)
    BY <2>1, <2>4, <2>5, <2>6 DEF Moves
  <2>8. SettlesAs(t, f, lock')
    BY <1>1, <2>1, <2>2, <2>4, <2>5, <2>6 DEF SettlesAs, Store!Live
  <2> QED BY <1>1, <2>5, <2>6, <2>7, <2>8, GoesOn DEF Settling
<1> QED BY <1>3, <1>4

-----------------------------------------------------------------------------
(* RenameAlias and DeleteAlias, up to their commit. *)

LEMMA CallForShareKeeps ==
    ASSUME Store!IInv, TxInv, NEW t \in Tx, NEW m \in {"rename", "delete"}, NEW s \in Slug,
           NEW o \in Owner, NEW new \in Slug \cup {Null}, m = "rename" => new \in Slug,
           CallForShare(t, m, s, o, new)
    PROVE  TxInv'
<1> DEFINE e == [NoTx EXCEPT !.method = m, !.at = "select", !.slug = s, !.owner = o, !.new = new]
<1>1. tx' = [tx EXCEPT ![t] = e] /\ UNCHANGED dbVars /\ UNCHANGED lock
  BY DEF CallForShare, Continue
<1>2. /\ e \in Entry /\ e.method = m /\ e.at = "select" /\ e.job = Null /\ e.slug = s
      /\ e.owner = o /\ e.new = new
  BY DEF Entry, NoTx
<1>3. LocksOf(t)
  BY <1>1, SameLocks DEF TxInv
<1>4. PICK f \in Entry : f = e
  BY <1>2
<1> HIDE DEF e
<1>5. Moves(t, f)
  BY <1>1, <1>2, <1>3, <1>4 DEF Moves
<1>6. EditsAs(t, f, lock')
  BY <1>2, <1>4 DEF EditsAs, Selected
<1> QED BY <1>2, <1>4, <1>5, <1>6, GoesOn

LEMMA WaitKeeps ==
    ASSUME Store!IInv, TxInv, NEW t \in Tx, Wait(t)
    PROVE  TxInv'
<1>1. CASE Rollback(t)
  BY <1>1, RollbackKeeps
<1>2. CASE ~Rollback(t)
  <2> DEFINE e == [tx[t] EXCEPT !.at = "wait", !.keyed = aliases[tx[t].slug].object # Null]
  <2>1. tx[t].at = "select" /\ tx' = [tx EXCEPT ![t] = e] /\ UNCHANGED dbVars /\ UNCHANGED lock
    BY <1>2 DEF Wait, Continue, At
  <2>2. Editing(t) /\ EditsAs(t, tx[t], lock) /\ tx[t] \in Entry
    BY <2>1, IsMine, WhereTheyAre
  <2>3. /\ e \in Entry /\ e.method = tx[t].method /\ e.at = "wait" /\ e.job = tx[t].job
        /\ e.slug = tx[t].slug /\ e.owner = tx[t].owner /\ e.new = tx[t].new
    BY <2>2 DEF Entry
  <2>4. LocksOf(t)
    BY <2>1, SameLocks DEF TxInv
  <2>5. PICK f \in Entry : f = e
    BY <2>3
  <2> HIDE DEF e
  <2>6. Moves(t, f)
    BY <2>1, <2>3, <2>4, <2>5 DEF Moves
  <2>7. EditsAs(t, f, lock')
    BY <2>2, <2>3, <2>5 DEF EditsAs, Selected
  <2> QED BY <2>2, <2>3, <2>5, <2>6, <2>7, GoesOn DEF Editing
<1> QED BY <1>1, <1>2

LEMMA SelectOwnedKeeps ==
    ASSUME Store!IInv, TxInv, NEW t \in Tx, SelectOwned(t)
    PROVE  TxInv'
<1>1. CASE Rollback(t)
  BY <1>1, RollbackKeeps
<1>2. CASE ~Rollback(t)
  <2> DEFINE s == tx[t].slug
             e == [tx[t] EXCEPT
                     !.at = IF Method(t, "rename") THEN "insert" ELSE "rows",
                     !.keyed = IF At(t, "wait") THEN @ ELSE aliases[s].object # Null]
  <2>1. /\ tx[t].at \in {"select", "wait"} /\ tx' = [tx EXCEPT ![t] = e] /\ UNCHANGED dbVars
        /\ Free(t, s) /\ Take(t, s) /\ DB!OwnedCurrent(s, tx[t].owner)
    BY <1>2 DEF SelectOwned, Continue
  <2>2. Editing(t) /\ EditsAs(t, tx[t], lock) /\ tx[t] \in Entry
    BY <2>1, IsMine, WhereTheyAre
  <2>3. /\ e \in Entry /\ e.method = tx[t].method /\ e.job = tx[t].job
        /\ e.at = IF tx[t].method = "rename" THEN "insert" ELSE "rows"
        /\ e.slug = s /\ e.owner = tx[t].owner /\ e.new = tx[t].new
    BY <2>2 DEF Entry, Method
  <2>4. s \in Slug /\ LocksOf(t) /\ lock'[s] = t
    BY <2>1, <2>2, TakeLocks DEF TxInv, EditsAs, Row
  <2>5. Store!OwnedCurrent(s, tx[t].owner)
    BY <2>1, SameRows
  <2>6. PICK f \in Entry : f = e
    BY <2>3
  <2> HIDE DEF e
  <2>7. Moves(t, f)
    BY <2>1, <2>3, <2>4, <2>6 DEF Moves
  <2>8. EditsAs(t, f, lock')
    BY <2>2, <2>3, <2>4, <2>5, <2>6 DEF EditsAs, Selected, Editing
  <2> QED BY <2>2, <2>3, <2>6, <2>7, <2>8, GoesOn DEF Editing
<1> QED BY <1>1, <1>2

LEMMA InsertKeeps ==
    ASSUME Store!IInv, TxInv, NEW t \in Tx, Insert(t)
    PROVE  TxInv'
<1>1. CASE Rollback(t)
  BY <1>1, RollbackKeeps
<1>2. CASE ~Rollback(t)
  <2> DEFINE e == [tx[t] EXCEPT !.at = "rows"]
  <2>1. /\ tx[t].at = "insert" /\ tx' = [tx EXCEPT ![t] = e] /\ UNCHANGED dbVars
        /\ Free(t, tx[t].new) /\ Take(t, tx[t].new) /\ DB!NameFree(tx[t].new)
    BY <1>2 DEF Insert, Continue, At
  <2>2. /\ tx[t].method = "rename" /\ EditsAs(t, tx[t], lock) /\ tx[t] \in Entry
    BY <2>1, IsMine, WhereTheyAre DEF Editing
  <2>3. /\ e \in Entry /\ e.method = "rename" /\ e.job = tx[t].job /\ e.at = "rows"
        /\ e.slug = tx[t].slug /\ e.owner = tx[t].owner /\ e.new = tx[t].new
    BY <2>2 DEF Entry
  <2>4. /\ tx[t].new \in Slug /\ tx[t].slug \in Slug /\ LocksOf(t)
        /\ lock'[tx[t].new] = t /\ (lock[tx[t].slug] = t => lock'[tx[t].slug] = t)
    BY <2>1, <2>2, TakeLocks DEF TxInv, EditsAs, Row
  <2>5. ~Store!Present(tx[t].new)
    BY <2>1, SameRows
  <2>6. PICK f \in Entry : f = e
    BY <2>3
  <2> HIDE DEF e
  <2>7. Moves(t, f)
    BY <2>1, <2>3, <2>4, <2>6 DEF Moves
  <2>8. EditsAs(t, f, lock')
    BY <2>1, <2>2, <2>3, <2>4, <2>5, <2>6 DEF EditsAs, Selected
  <2> QED BY <2>3, <2>6, <2>7, <2>8, GoesOn
<1> QED BY <1>1, <1>2

\* While rows are locked one after the other, nothing else moves.
LEMMA LockOneKeeps ==
    ASSUME Store!IInv, TxInv, NEW t \in Tx, NEW r, Free(t, r), Take(t, r), Editing(t),
           UNCHANGED <<dbVars, tx>>
    PROVE  TxInv'
<1>1. EditsAs(t, tx[t], lock) /\ tx[t] \in Entry
  BY IsMine
<1>2. LocksOf(t) /\ \A q \in Row : lock[q] = t => lock'[q] = t
  BY TakeLocks DEF TxInv
<1>3. PICK f \in Entry : f = tx[t]
  BY <1>1
<1>4. Moves(t, f)
  BY <1>2, <1>3 DEF Moves, TxInv, Typed
<1>5. EditsAs(t, f, lock')
  BY <1>1, <1>2, <1>3 DEF EditsAs, Row
<1> QED BY <1>3, <1>4, <1>5, GoesOn DEF Editing

LEMMA UpdateNamesKeeps ==
    ASSUME Store!IInv, TxInv, NEW t \in Tx, UpdateNames(t)
    PROVE  TxInv'
<1> DEFINE next == IF Method(t, "rename") THEN "commit" ELSE "jobs"
           e == [tx[t] EXCEPT !.at = next]
<1>1. tx[t].at = "rows" /\ LockEach(t, Family(t), next)
  BY DEF UpdateNames, At
<1>2. Editing(t) /\ EditsAs(t, tx[t], lock) /\ tx[t] \in Entry
  BY <1>1, IsMine, WhereTheyAre
<1>3. CASE \E r \in Family(t) : lock[r] # t
  BY <1>1, <1>2, <1>3, LockOneKeeps DEF LockEach
<1>4. CASE ~\E r \in Family(t) : lock[r] # t
  <2>1. tx' = [tx EXCEPT ![t] = e] /\ UNCHANGED dbVars /\ UNCHANGED lock
    BY <1>1, <1>4 DEF LockEach, Continue
  <2>2. /\ e \in Entry /\ e.method = tx[t].method /\ e.job = tx[t].job
        /\ e.at = IF tx[t].method = "rename" THEN "commit" ELSE "jobs"
        /\ e.slug = tx[t].slug /\ e.owner = tx[t].owner /\ e.new = tx[t].new
    BY <1>2 DEF Entry, Method
  <2>3. LocksOf(t)
    BY <2>1, SameLocks DEF TxInv
  <2>4. \A r \in Slug : r \in Store!Family(tx[t].slug, tx[t].owner) => lock[r] = t
    BY <1>4, SameRows DEF Family
  <2>5. PICK f \in Entry : f = e
    BY <2>2
  <2> HIDE DEF e
  <2>6. Moves(t, f)
    BY <2>1, <2>2, <2>3, <2>5 DEF Moves
  <2>7. EditsAs(t, f, lock')
    BY <1>1, <1>2, <2>1, <2>2, <2>4, <2>5 DEF EditsAs, Selected, Editing
  <2> QED BY <1>2, <2>2, <2>5, <2>6, <2>7, GoesOn DEF Editing
<1> QED BY <1>3, <1>4

LEMMA CancelJobsKeeps ==
    ASSUME Store!IInv, TxInv, NEW t \in Tx, CancelJobs(t)
    PROVE  TxInv'
<1> DEFINE e == [tx[t] EXCEPT !.at = "count"]
<1>1. tx[t].at = "jobs" /\ LockEach(t, JobsOf(t), "count")
  BY DEF CancelJobs, At
<1>2. /\ tx[t].method = "delete" /\ Editing(t) /\ EditsAs(t, tx[t], lock) /\ tx[t] \in Entry
  BY <1>1, IsMine, WhereTheyAre
<1>3. CASE \E r \in JobsOf(t) : lock[r] # t
  BY <1>1, <1>2, <1>3, LockOneKeeps DEF LockEach
<1>4. CASE ~\E r \in JobsOf(t) : lock[r] # t
  <2>1. tx' = [tx EXCEPT ![t] = e] /\ UNCHANGED dbVars /\ UNCHANGED lock
    BY <1>1, <1>4 DEF LockEach, Continue
  <2>2. /\ e \in Entry /\ e.method = "delete" /\ e.job = tx[t].job /\ e.at = "count"
        /\ e.slug = tx[t].slug /\ e.owner = tx[t].owner /\ e.new = tx[t].new
    BY <1>2 DEF Entry
  <2>3. LocksOf(t)
    BY <2>1, SameLocks DEF TxInv
  <2>4. \A j \in JobId : j \in Store!CanceledBy(tx[t].slug, tx[t].owner) => lock[j] = t
    BY <1>4, SameRows DEF JobsOf
  <2>5. PICK f \in Entry : f = e
    BY <2>2
  <2> HIDE DEF e
  <2>6. Moves(t, f)
    BY <2>1, <2>2, <2>3, <2>5 DEF Moves
  <2>7. EditsAs(t, f, lock')
    BY <1>1, <1>2, <2>1, <2>2, <2>4, <2>5 DEF EditsAs, Selected
  <2> QED BY <2>2, <2>5, <2>6, <2>7, GoesOn
<1> QED BY <1>3, <1>4

LEMMA CountKeeps ==
    ASSUME Store!IInv, TxInv, NEW t \in Tx, Count(t)
    PROVE  TxInv'
<1> DEFINE e == IF tx[t].keyed /\ Unreferenced(t) THEN [tx[t] EXCEPT !.at = "free", !.frees = TRUE]
                ELSE [tx[t] EXCEPT !.at = "commit"]
<1>1. tx[t].at = "count" /\ tx' = [tx EXCEPT ![t] = e] /\ UNCHANGED dbVars /\ UNCHANGED lock
  BY DEF Count, Continue, At
<1>2. /\ tx[t].method = "delete" /\ EditsAs(t, tx[t], lock) /\ tx[t] \in Entry
  BY <1>1, IsMine, WhereTheyAre DEF Editing
<1>3. /\ e \in Entry /\ e.method = "delete" /\ e.job = tx[t].job /\ e.at \in {"free", "commit"}
      /\ e.slug = tx[t].slug /\ e.owner = tx[t].owner /\ e.new = tx[t].new
  BY <1>2 DEF Entry
<1>4. LocksOf(t)
  BY <1>1, SameLocks DEF TxInv
<1>5. PICK f \in Entry : f = e
  BY <1>3
<1> HIDE DEF e
<1>6. Moves(t, f)
  BY <1>1, <1>3, <1>4, <1>5 DEF Moves
<1>7. EditsAs(t, f, lock')
  BY <1>1, <1>2, <1>3, <1>5 DEF EditsAs, Selected
<1> QED BY <1>3, <1>5, <1>6, <1>7, GoesOn

LEMMA FreeObjectKeeps ==
    ASSUME Store!IInv, TxInv, NEW t \in Tx, FreeObject(t)
    PROVE  TxInv'
<1> DEFINE e == [tx[t] EXCEPT !.at = "commit"]
<1>1. /\ tx[t].at = "free" /\ tx' = [tx EXCEPT ![t] = e] /\ UNCHANGED dbVars
      /\ Free(t, ObjectOf(t)) /\ Take(t, ObjectOf(t))
  BY DEF FreeObject, Continue, At
<1>2. /\ tx[t].method = "delete" /\ EditsAs(t, tx[t], lock) /\ tx[t] \in Entry
  BY <1>1, IsMine, WhereTheyAre DEF Editing
<1>3. /\ e \in Entry /\ e.method = "delete" /\ e.job = tx[t].job /\ e.at = "commit"
      /\ e.slug = tx[t].slug /\ e.owner = tx[t].owner /\ e.new = tx[t].new
  BY <1>2 DEF Entry
<1>4. LocksOf(t) /\ \A q \in Row : lock[q] = t => lock'[q] = t
  BY <1>1, TakeLocks DEF TxInv
<1>5. PICK f \in Entry : f = e
  BY <1>3
<1> HIDE DEF e
<1>6. Moves(t, f)
  BY <1>1, <1>3, <1>4, <1>5 DEF Moves
<1>7. EditsAs(t, f, lock')
  BY <1>1, <1>2, <1>3, <1>4, <1>5 DEF EditsAs, Selected, Row
<1> QED BY <1>3, <1>5, <1>6, <1>7, GoesOn

-----------------------------------------------------------------------------
(* Commits: each is a step of the store, on rows that the transaction holds. *)

LEMMA CommittedKeeps ==
    ASSUME Store!IInv, Store!StoreStep, TxInv, NEW t \in Tx, NEW touched \in SUBSET Sha,
           Committed(t, touched),
           \A r \in Slug : aliases'[r] = aliases[r] \/ lock[r] = t,
           \A j \in JobId : \/ jobs'[j] = jobs[j]
                            \/ lock[j] = t /\ (jobs'[j].status = "canceled" \/ j = tx[t].job)
    PROVE  TxInv'
<1>1. NoTx \in Entry /\ NoTx.method = "none" /\ NoTx.job = Null /\ NoTx.at = ""
  BY DEF NoTx, Entry
<1> HIDE DEF NoTx
<1>2. Typed /\ OneCallPerJob
  BY DEF TxInv
<1>3. LocksOf(t)
  BY <1>2 DEF Typed, Committed, LocksOf
<1>4. tx' \in [Tx -> Entry] /\ tx'[t] = NoTx /\ \A u \in Tx \ {t} : SameCall(u)
  <2>1. ASSUME NEW u \in Tx \ {t} PROVE tx'[u] \in Entry /\ SameCall(u)
    <3>1. tx'[u] = IF Active(u) THEN [tx[u] EXCEPT !.met = tx[u].met \cup touched] ELSE tx[u]
      BY DEF Committed
    <3>2. tx[u] \in Entry
      BY <1>2 DEF Typed
    <3>3. PICK m \in SUBSET Sha : m = tx[u].met \cup touched
      BY <3>2 DEF Entry
    <3>4. CASE Active(u)
      <4>1. tx'[u] = [tx[u] EXCEPT !.met = m]
        BY <3>1, <3>3, <3>4
      <4> QED BY <3>2, <4>1 DEF Entry, SameCall
    <3>5. CASE ~Active(u)
      BY <3>1, <3>2, <3>5 DEF SameCall
    <3> QED BY <3>4, <3>5
  <2>2. tx'[t] = NoTx
    BY DEF Committed
  <2>3. tx' = [u \in Tx |-> tx'[u]]
    BY DEF Committed
  <2> QED BY <1>1, <2>1, <2>2, <2>3
<1>5. OneCallPerJob'
  <2>1. \A u \in Tx : tx'[u].job = IF u = t THEN Null ELSE tx[u].job
    BY <1>1, <1>4 DEF SameCall
  <2> QED BY <1>2, <2>1 DEF OneCallPerJob
<1>6. OthersOf(t)
  BY <1>3, <1>4 DEF OthersOf
<1>7. ASSUME NEW u \in Tx \ {t} PROVE Mine(u)'
  <2>1. SameCall(u)
    BY <1>4
  <2>2. (Settling(u)' => Settling(u)) /\ (Editing(u)' => Editing(u))
    BY <2>1 DEF SameCall, Settling, Editing
  <2>3. Resting(u)' => tx'[u].at = ""
    BY <2>1 DEF TxInv, Mine, Resting, SameCall
  <2> QED BY <1>6, <2>2, <2>3, OthersSettle, OthersEdit DEF Mine
<1>8. Mine(t)'
  BY <1>1, <1>4 DEF Mine, Settling, Editing, Resting
<1> QED BY <1>3, <1>4, <1>5, <1>7, <1>8 DEF TxInv, Typed, LocksOf

\* A transaction about to complete or fail its job.
LEMMA AtItsEnd ==
    ASSUME Store!IInv, TxInv, NEW t \in Tx, Settling(t), tx[t].at = "commit"
    PROVE  /\ tx[t].job \in JobId /\ lock[tx[t].job] = t
           /\ jobs[tx[t].job].status \in {"running", "canceled"}
           /\ jobs[tx[t].job].alias \in Slug
           /\ jobs[tx[t].job].upload \in Upload
           /\ tx[t].slug # Null => /\ tx[t].slug \in Slug /\ lock[tx[t].slug] = t
                                   /\ Store!Resolves(jobs[tx[t].job].alias, tx[t].slug)
           /\ \A s \in Slug : Store!Resolves(jobs[tx[t].job].alias, s) => s = tx[t].slug
<1>1. SettlesAs(t, tx[t], lock) /\ tx[t] \in Entry
  BY IsMine
<1>2. PICK j \in JobId : j = tx[t].job
  BY <1>1 DEF SettlesAs
<1>3. /\ jobs[j].status \in {"running", "canceled"} /\ lock[j] = t /\ Store!JobExists(j)
  BY <1>1, <1>2 DEF SettlesAs, Store!JobExists
<1>4. jobs[j].upload \in Upload
  BY <1>3, StoreAssumed, Store!JobHasShare DEF Store!IInv
<1>5. PICK r \in Slug : r = jobs[j].alias /\ Store!Present(r)
  BY <1>3, StoreAssumed, Store!JobHasShare DEF Store!IInv
<1>6. CASE tx[t].slug = Null
  <2>1. ~Store!Visible(r)
    BY <1>1, <1>2, <1>5, <1>6 DEF SettlesAs
  <2>2. \A s \in Slug : ~Store!Resolves(r, s)
    <3>1. SUFFICES ASSUME NEW s \in Slug, Store!Resolves(r, s) PROVE FALSE
      OBVIOUS
    <3>2. Store!Visible(Store!Root(r))
      BY <3>1, StoreAssumed, Store!ResolvesToRoot DEF Store!IInv
    <3>3. aliases[Store!Root(r)].visibility = aliases[r].visibility
      BY <1>5, StoreAssumed, Store!RootIsCurrent DEF Store!IInv
    <3> QED BY <2>1, <3>2, <3>3 DEF Store!Visible
  <2> QED BY <1>2, <1>3, <1>4, <1>5, <1>6, <2>2
<1>7. CASE tx[t].slug # Null
  <2>1. PICK s \in Slug : s = tx[t].slug
    BY <1>1, <1>7 DEF Entry
  <2>2. lock[s] = t /\ Store!Live(s) /\ Store!Root(s) = Store!Root(r)
    BY <1>1, <1>2, <1>5, <1>7, <2>1 DEF SettlesAs, Store!JobRoot
  <2>3. Store!Root(r) = s /\ Store!Visible(Store!Root(r))
    BY <2>2 DEF Store!Live, Store!Root
  <2>4. Store!Resolves(r, s)
    BY <1>5, <2>3, StoreAssumed, Store!RootIsResolved DEF Store!IInv
  <2>5. \A q \in Slug : Store!Resolves(r, q) => q = s
    BY <2>3, StoreAssumed, Store!ResolvesToRoot DEF Store!IInv
  <2> QED BY <1>2, <1>3, <1>4, <1>5, <2>1, <2>2, <2>4, <2>5
<1> QED BY <1>6, <1>7

LEMMA CompletionIsOne ==
    ASSUME Store!IInv, TxInv, NEW t \in Tx, CommitComplete(t)
    PROVE  /\ \E e \in Ext : DB!CompleteProcessingJob(tx[t].job, ObjectOf(t), e, FALSE)
           /\ tx[t].job \in JobId /\ ObjectOf(t) \in Sha
<1> DEFINE j == tx[t].job
           s == tx[t].slug
           x == ObjectOf(t)
<1>1. tx[t].method = "complete" /\ tx[t].at = "commit" /\ Settling(t)
  BY DEF CommitComplete, Method, At, Settling
<1>2. /\ j \in JobId /\ jobs[j].upload \in Upload
      /\ s # Null => s \in Slug /\ Store!Resolves(jobs[j].alias, s)
  BY <1>1, AtItsEnd
<1>3. s # Null /\ jobs[j].status = "running"
  BY <1>1, IsMine DEF SettlesAs
<1>4. x \in Sha /\ jobs[j].upload.ext \in Ext /\ x = jobs[j].upload.source
  BY <1>1, <1>2, StoreAssumed DEF ObjectOf, Method, Store!UploadAssumption
<1>5. DB!Resolves(jobs[j].alias, s)
  BY <1>2, <1>3, SameResolves
<1>6. DB!CompleteProcessingJob(j, x, jobs[j].upload.ext, FALSE)
  <2>1. DB!Completable(j)
    BY <1>3 DEF DB!Completable
  <2>2. /\ aliases' = [aliases EXCEPT ![s] = [@ EXCEPT !.object = x, !.status = "ready"]]
        /\ history' = history \cup DB!Replaced(s, x)
    BY DEF CommitComplete
  <2>3. /\ ideal' = [ideal EXCEPT ![x] = [status |-> "ready", ext |-> jobs[j].upload.ext, thumb |-> FALSE]]
        /\ derivatives' = [derivatives EXCEPT ![<<jobs[j].upload.source, jobs[j].upload.profile>>] = x]
        /\ jobs' = [jobs EXCEPT ![j] = [@ EXCEPT !.status = "completed", !.target = x]]
        /\ UNCHANGED now
    BY DEF CommitComplete
  <2> HIDE DEF x, s, j
  <2> QED BY <1>2, <1>3, <1>5, <2>1, <2>2, <2>3 DEF DB!CompleteProcessingJob
<1> QED BY <1>2, <1>4, <1>6

LEMMA FailureIsOne ==
    ASSUME Store!IInv, TxInv, NEW t \in Tx, CommitFail(t)
    PROVE  /\ DB!Failable(tx[t].job) /\ DB!FailProcessingJob(tx[t].job)
           /\ tx[t].job \in JobId
<1> DEFINE j == tx[t].job
           s == tx[t].slug
<1>1. tx[t].method = "fail" /\ tx[t].at = "commit" /\ Settling(t)
  BY DEF CommitFail, Method, At, Settling
<1>2. /\ j \in JobId /\ jobs[j].status \in {"running", "canceled"}
      /\ s # Null => s \in Slug /\ Store!Resolves(jobs[j].alias, s)
      /\ \A q \in Slug : Store!Resolves(jobs[j].alias, q) => q = s
  BY <1>1, AtItsEnd
<1>3. \A q \in Slug : DB!Resolves(jobs[j].alias, q) <=> q = s
  BY <1>2, StoreAssumed, SameResolves DEF Store!NullAssumption
<1>4. /\ jobs' = [jobs EXCEPT ![j].status = DB!AfterFailure(@)]
      /\ aliases' = IF s = Null THEN aliases ELSE [aliases EXCEPT ![s].status = "failed"]
      /\ UNCHANGED <<ideal, derivatives, history, now>>
  BY DEF CommitFail
<1>5. aliases' = [q \in Slug |-> IF DB!Resolves(jobs[j].alias, q)
                                   THEN [aliases[q] EXCEPT !.status = "failed"] ELSE aliases[q]]
  <2>1. aliases \in [Slug -> Store!AliasRow]
    BY DEF Store!IInv, Store!TypeOK
  <2>2. Null \notin Slug
    BY StoreAssumed DEF Store!NullAssumption
  <2> HIDE DEF s, j
  <2> QED BY <1>2, <1>3, <1>4, <2>1, <2>2
<1> QED BY <1>2, <1>4, <1>5 DEF DB!Failable, DB!FailProcessingJob

LEMMA CommitCompleteKeeps ==
    ASSUME Store!IInv, TxInv, NEW t \in Tx, CommitComplete(t), Store!StoreStep
    PROVE  TxInv'
<1>1. tx[t].at = "commit" /\ Settling(t)
  BY DEF CommitComplete, Method, At, Settling
<1>2. /\ tx[t].job \in JobId /\ lock[tx[t].job] = t
      /\ tx[t].slug \in Slug => lock[tx[t].slug] = t
  BY <1>1, AtItsEnd, StoreAssumed DEF Store!NullAssumption
<1>3. ObjectOf(t) \in Sha
  BY CompletionIsOne
<1>4. /\ Committed(t, {ObjectOf(t)})
      /\ aliases' = [aliases EXCEPT ![tx[t].slug] = [@ EXCEPT !.object = ObjectOf(t), !.status = "ready"]]
      /\ jobs' = [jobs EXCEPT ![tx[t].job] = [@ EXCEPT !.status = "completed", !.target = ObjectOf(t)]]
  BY DEF CommitComplete
<1>5. aliases \in [Slug -> Store!AliasRow] /\ jobs \in [JobId -> Store!JobRow]
  BY DEF Store!IInv, Store!TypeOK
<1>6. \A r \in Slug : aliases'[r] = aliases[r] \/ lock[r] = t
  BY <1>2, <1>4, <1>5
<1>7. \A j \in JobId : jobs'[j] = jobs[j] \/ (lock[j] = t /\ j = tx[t].job)
  BY <1>2, <1>4, <1>5
<1>8. {ObjectOf(t)} \in SUBSET Sha
  BY <1>3
<1> QED BY <1>4, <1>6, <1>7, <1>8, CommittedKeeps

LEMMA CommitFailKeeps ==
    ASSUME Store!IInv, TxInv, NEW t \in Tx, CommitFail(t), Store!StoreStep
    PROVE  TxInv'
<1>1. tx[t].at = "commit" /\ Settling(t)
  BY DEF CommitFail, Method, At, Settling
<1>2. /\ tx[t].job \in JobId /\ lock[tx[t].job] = t
      /\ tx[t].slug # Null => lock[tx[t].slug] = t
  BY <1>1, AtItsEnd
<1>4. /\ Committed(t, {})
      /\ aliases' = IF tx[t].slug = Null THEN aliases ELSE [aliases EXCEPT ![tx[t].slug].status = "failed"]
      /\ jobs' = [jobs EXCEPT ![tx[t].job].status = DB!AfterFailure(@)]
  BY DEF CommitFail
<1>5. aliases \in [Slug -> Store!AliasRow] /\ jobs \in [JobId -> Store!JobRow]
  BY DEF Store!IInv, Store!TypeOK
<1>6. \A r \in Slug : aliases'[r] = aliases[r] \/ lock[r] = t
  BY <1>2, <1>4, <1>5
<1>7. \A j \in JobId : jobs'[j] = jobs[j] \/ (lock[j] = t /\ j = tx[t].job)
  BY <1>2, <1>4, <1>5
<1>8. {} \in SUBSET Sha
  OBVIOUS
<1> QED BY <1>4, <1>6, <1>7, <1>8, CommittedKeeps

LEMMA RenameIsOne ==
    ASSUME Store!IInv, TxInv, NEW t \in Tx, CommitRename(t)
    PROVE  /\ DB!RenameAlias(tx[t].slug, tx[t].owner, tx[t].new)
           /\ tx[t].slug \in Slug /\ tx[t].owner \in Owner /\ tx[t].new \in Slug
<1>1. tx[t].method = "rename" /\ tx[t].at = "commit" /\ Editing(t)
  BY DEF CommitRename, Method, At, Editing
<1>2. /\ tx[t].slug \in Slug /\ tx[t].owner \in Owner /\ tx[t].new \in Slug
      /\ Store!OwnedCurrent(tx[t].slug, tx[t].owner) /\ ~Store!Present(tx[t].new)
  BY <1>1, IsMine DEF EditsAs, Selected
<1>3. DB!OwnedCurrent(tx[t].slug, tx[t].owner) /\ DB!NameFree(tx[t].new)
  BY <1>2, SameRows
<1>4. aliases' = DB!RenamedRows(tx[t].slug, tx[t].owner, tx[t].new)
  BY DEF CommitRename, DB!RenamedRows, Family
<1> QED BY <1>2, <1>3, <1>4 DEF CommitRename, DB!RenameAlias

LEMMA DeletionIsOne ==
    ASSUME Store!IInv, TxInv, NEW t \in Tx, CommitDelete(t)
    PROVE  /\ DB!DeleteAlias(tx[t].slug, tx[t].owner)
           /\ tx[t].slug \in Slug /\ tx[t].owner \in Owner
<1>1. tx[t].method = "delete" /\ tx[t].at = "commit" /\ Editing(t)
  BY DEF CommitDelete, Method, At, Editing
<1>2. /\ tx[t].slug \in Slug /\ tx[t].owner \in Owner
      /\ Store!OwnedCurrent(tx[t].slug, tx[t].owner)
  BY <1>1, IsMine DEF EditsAs, Selected
<1>3. DB!OwnedCurrent(tx[t].slug, tx[t].owner)
  BY <1>2, SameRows
<1>4. /\ aliases' = DB!DeletedRows(tx[t].slug, tx[t].owner)
      /\ jobs' = [j \in JobId |-> IF j \in DB!CanceledBy(tx[t].slug, tx[t].owner)
                                    THEN [jobs[j] EXCEPT !.status = "canceled"] ELSE jobs[j]]
      /\ UNCHANGED <<derivatives, history, now>>
  BY DEF CommitDelete, DB!DeletedRows, Family, JobsOf
<1>5. ObjectOf(t) = aliases[tx[t].slug].object
  BY <1>1 DEF ObjectOf, Method
<1>6. ideal' = IF DB!FreesObject(tx[t].slug) THEN Deleted(ideal, aliases[tx[t].slug].object) ELSE ideal
  BY <1>5 DEF CommitDelete
<1>7. ideal \in [Sha -> Store!ObjectRow]
  BY DEF Store!IInv, Store!TypeOK
<1>8. ideal' = [x \in Sha |-> IF DB!FreesObject(tx[t].slug) /\ x = aliases[tx[t].slug].object
                                THEN [ideal[x] EXCEPT !.status = "deleted"] ELSE ideal[x]]
  BY <1>6, <1>7 DEF Deleted
<1> QED BY <1>2, <1>3, <1>4, <1>8 DEF DB!DeleteAlias

LEMMA CommitRenameKeeps ==
    ASSUME Store!IInv, TxInv, NEW t \in Tx, CommitRename(t), Store!StoreStep
    PROVE  TxInv'
<1>1. tx[t].method = "rename" /\ tx[t].at = "commit" /\ EditsAs(t, tx[t], lock)
  BY IsMine DEF CommitRename, Method, At, Editing
<1>2. /\ lock[tx[t].new] = t
      /\ \A r \in Slug : r \in Family(t) => lock[r] = t
  BY <1>1, SameRows DEF EditsAs, Family
<1>3. Committed(t, {}) /\ jobs' = jobs
  BY DEF CommitRename
<1>4. \A r \in Slug : aliases'[r] = aliases[r] \/ lock[r] = t
  BY <1>2 DEF CommitRename
<1>5. {} \in SUBSET Sha
  OBVIOUS
<1> QED BY <1>3, <1>4, <1>5, CommittedKeeps

LEMMA CommitDeleteKeeps ==
    ASSUME Store!IInv, TxInv, NEW t \in Tx, CommitDelete(t), Store!StoreStep
    PROVE  TxInv'
<1>1. tx[t].method = "delete" /\ tx[t].at = "commit" /\ EditsAs(t, tx[t], lock)
  BY IsMine DEF CommitDelete, Method, At, Editing
<1>2. /\ \A r \in Slug : r \in Family(t) => lock[r] = t
      /\ \A j \in JobId : j \in JobsOf(t) => lock[j] = t
  BY <1>1, SameRows DEF EditsAs, Family, JobsOf
<1>3. Committed(t, {ObjectOf(t)} \ {Null})
  BY DEF CommitDelete
<1>4. \A r \in Slug : aliases'[r] = aliases[r] \/ lock[r] = t
  BY <1>2 DEF CommitDelete
<1>5. \A j \in JobId : jobs'[j] = jobs[j] \/ (lock[j] = t /\ jobs'[j].status = "canceled")
  <2>1. \A j \in JobId : jobs[j] \in Store!JobRow
    BY DEF Store!IInv, Store!TypeOK
  <2> QED BY <1>2, <2>1 DEF CommitDelete, Store!JobRow
<1>6. {ObjectOf(t)} \ {Null} \in SUBSET Sha
  BY <1>1 DEF ObjectOf, Method, EditsAs, Store!IInv, Store!TypeOK, Store!AliasRow
<1> QED BY <1>3, <1>4, <1>5, <1>6, CommittedKeeps

-----------------------------------------------------------------------------
(* Methods of one step. *)

LEMMA OneStepKeeps ==
    ASSUME Store!IInv, Store!StoreStep, TxInv, OthersOf(Null), UNCHANGED <<lock, tx>>
    PROVE  TxInv'
<1>1. Typed' /\ OneCallPerJob'
  BY DEF TxInv, Typed, OneCallPerJob
<1>2. ASSUME NEW t \in Tx PROVE Mine(t)'
  <2>1. t \in Tx \ {Null}
    BY LockAssumption
  <2>2. (Settling(t)' => Settling(t)) /\ (Editing(t)' => Editing(t))
    BY DEF Settling, Editing
  <2>3. Resting(t)' => tx'[t].at = ""
    BY DEF TxInv, Mine, Resting
  <2> QED BY <2>1, <2>2, <2>3, OthersSettle, OthersEdit DEF Mine
<1> QED BY <1>1, <1>2 DEF TxInv

LEMMA CreateKeeps ==
    ASSUME Store!IInv, Store!StoreStep, TxInv, NEW j \in JobId, NEW o, NEW s \in Slug, NEW u,
           CreateIngestJob(j, o, s, u)
    PROVE  TxInv'
<1>1. /\ Free(Null, s) /\ UNCHANGED <<lock, tx>> /\ jobs[j].status = "absent"
      /\ aliases' = [aliases EXCEPT ![s] = DB!PendingAlias(o)]
      /\ jobs' = [jobs EXCEPT ![j] = DB!QueuedJob(o, s, u)]
  BY DEF CreateIngestJob, DB!CreateIngestJob
<1>2. aliases \in [Slug -> Store!AliasRow] /\ jobs \in [JobId -> Store!JobRow]
  BY DEF Store!IInv, Store!TypeOK
<1>3. OthersOf(Null)
  <2>1. LocksOf(Null) /\ \A t \in Tx : SameCall(t)
    BY <1>1 DEF TxInv, Typed, LocksOf, SameCall
  <2>2. \A r \in Slug : aliases'[r] = aliases[r] \/ lock[r] = Null
    BY <1>1, <1>2 DEF Free
  <2>3. \A k \in JobId : jobs'[k] = jobs[k] \/ jobs[k].status = "absent"
    BY <1>1, <1>2
  <2> QED BY <2>1, <2>2, <2>3 DEF OthersOf
<1> QED BY <1>1, <1>3, OneStepKeeps

LEMMA ClaimKeeps ==
    ASSUME Store!IInv, Store!StoreStep, TxInv, NEW j \in JobId, ClaimNextProcessingJob(j)
    PROVE  TxInv'
<1>1. /\ jobs[j].status = "queued" /\ Free(Null, j) /\ UNCHANGED <<lock, tx, aliases>>
      /\ jobs' = [jobs EXCEPT ![j].status = "running"]
  BY DEF ClaimNextProcessingJob
<1>2. jobs \in [JobId -> Store!JobRow]
  BY DEF Store!IInv, Store!TypeOK
<1>3. OthersOf(Null)
  <2>1. LocksOf(Null) /\ \A t \in Tx : SameCall(t)
    BY <1>1 DEF TxInv, Typed, LocksOf, SameCall
  <2>2. \A k \in JobId : jobs'[k] = jobs[k] \/ (lock[k] = Null /\ jobs[k].status = "queued")
    BY <1>1, <1>2 DEF Free
  <2> QED BY <1>1, <2>1, <2>2 DEF OthersOf
<1> QED BY <1>1, <1>3, OneStepKeeps

-----------------------------------------------------------------------------
(* Every step. *)

\* A statement that commits is a method of the store; the others change no table.
Committing(t) == CommitComplete(t) \/ CommitFail(t) \/ CommitRename(t) \/ CommitDelete(t)

LEMMA CommitIsOne ==
    ASSUME Store!IInv, TxInv, NEW t \in Tx, Committing(t)
    PROVE  DB!Next
<1>1. CASE CommitComplete(t)
  BY <1>1, CompletionIsOne DEF DB!Next
<1>2. CASE CommitFail(t)
  BY <1>2, FailureIsOne DEF DB!Next
<1>3. CASE CommitRename(t)
  BY <1>3, RenameIsOne DEF DB!Next
<1>4. CASE CommitDelete(t)
  BY <1>4, DeletionIsOne DEF DB!Next
<1> QED BY <1>1, <1>2, <1>3, <1>4 DEF Committing

LEMMA ReadsChangeNothing ==
    ASSUME NEW t \in Tx, Call(t) \/ Statement(t) \/ Rollback(t), ~Committing(t)
    PROVE  UNCHANGED dbVars
BY DEF Call, Statement, Committing, CallForJob, CallForShare, LockJob, UpsertObject, Resolve,
       LockShare, NotFound, Wait, SelectOwned, Insert, UpdateNames, CancelJobs, LockEach,
       Count, FreeObject, Deadlock, Rollback, Continue

\* Uploads as they are asked for.
LEMMA AskedIsTyped ==
    ASSUME Store!IInv, now < Len(Asked)
    PROVE  Asked[now + 1][1] \in JobId /\ Asked[now + 1][2] \in Slug
<1>1. now \in Nat
  BY DEF Store!IInv, Store!TypeOK
<1>2. Asked[now + 1] \in JobId \X Slug
  BY <1>1, InputAssumption
<1> QED BY <1>2

LEMMA SameStep ==
    ASSUME DB!Next \/ OutOfTurn \/ UNCHANGED dbVars
    PROVE  Store!StoreStep
<1>1. ASSUME NEW j \in JobId, NEW o \in Owner, NEW s \in Slug, NEW u \in Upload,
             DB!CreateIngestJob(j, o, s, u)
      PROVE  Store!Next
  BY <1>1, SameCreate DEF Store!Next
<1>2. ASSUME NEW j \in JobId, DB!ClaimNextProcessingJob(j) PROVE Store!Next
  <2>1. Store!ClaimNextProcessingJob(j)
    BY <1>2 DEF DB!ClaimNextProcessingJob, Store!ClaimNextProcessingJob, DB!NextInQueue,
                Store!NextInQueue
  <2> QED BY <2>1 DEF Store!Next
<1>3. ASSUME NEW j \in JobId, NEW x \in Sha, NEW e \in Ext, NEW thumb \in BOOLEAN,
             DB!CompleteProcessingJob(j, x, e, thumb)
      PROVE  Store!Next
  BY <1>3, SameComplete DEF Store!Next
<1>4. ASSUME NEW j \in JobId, DB!Failable(j), DB!FailProcessingJob(j) PROVE Store!Next
  BY <1>4, SameFail DEF Store!Next
<1>5. ASSUME NEW s \in Slug, NEW new \in Slug, NEW o \in Owner, DB!RenameAlias(s, o, new)
      PROVE  Store!Next
  BY <1>5, SameRename DEF Store!Next
<1>6. ASSUME NEW s \in Slug, NEW o \in Owner, DB!DeleteAlias(s, o) PROVE Store!Next
  BY <1>6, SameDelete DEF Store!Next
<1>7. ASSUME NEW x \in Sha, DB!MarkObjectUnavailable(x) PROVE Store!Next
  <2>1. Store!MarkObjectUnavailable(x)
    BY <1>7 DEF DB!MarkObjectUnavailable, Store!MarkObjectUnavailable
  <2> QED BY <2>1 DEF Store!Next
<1>8. ASSUME NEW s \in Slug, DB!RecordAliasRedirect(s) PROVE Store!Next
  <2>1. Store!RecordAliasRedirect(s)
    BY <1>8 DEF DB!RecordAliasRedirect, Store!RecordAliasRedirect, DB!Present, Store!Present
  <2> QED BY <2>1 DEF Store!Next
<1>9. DB!Next => Store!StoreStep
  BY <1>1, <1>2, <1>3, <1>4, <1>5, <1>6, <1>7, <1>8 DEF DB!Next, Store!StoreStep
<1>10. OutOfTurn => Store!StoreStep
  BY DEF OutOfTurn, Store!StoreStep, Store!ClaimAny
<1>11. UNCHANGED dbVars => Store!StoreStep
  BY DEF dbVars, Store!StoreStep, Store!vars
<1> QED BY <1>9, <1>10, <1>11

\* The steps of Next, one by one.
LEMMA StepIsOf ==
    ASSUME [Next]_vars, Store!IInv
    PROVE  \/ \E j \in JobId, s \in Slug, o \in Owner, u \in Upload : CreateIngestJob(j, o, s, u)
           \/ \E j \in JobId : ClaimNextProcessingJob(j)
           \/ \E t \in Tx : Call(t) \/ Statement(t) \/ Rollback(t)
           \/ UNCHANGED vars
BY AskedIsTyped DEF Next

\* What any step does to the tables a method of the store does, or a claim out of
\* its turn.
LEMMA StepIsOne ==
    ASSUME Store!IInv, TxInv, [Next]_vars
    PROVE  DB!Next \/ OutOfTurn \/ UNCHANGED dbVars
<1>1. ASSUME NEW j \in JobId, NEW o \in Owner, NEW s \in Slug, NEW u \in Upload,
             CreateIngestJob(j, o, s, u)
      PROVE  DB!Next
  BY <1>1 DEF CreateIngestJob, DB!Next
<1>2. ASSUME NEW j \in JobId, ClaimNextProcessingJob(j) PROVE OutOfTurn
  BY <1>2 DEF ClaimNextProcessingJob, OutOfTurn
<1>3. ASSUME NEW t \in Tx, Call(t) \/ Statement(t) \/ Rollback(t)
      PROVE  DB!Next \/ UNCHANGED dbVars
  BY <1>3, CommitIsOne, ReadsChangeNothing
<1>4. UNCHANGED vars => UNCHANGED dbVars
  BY DEF vars
<1> QED BY <1>1, <1>2, <1>3, <1>4, StepIsOf

LEMMA CallKeeps ==
    ASSUME Store!IInv, TxInv, NEW t \in Tx, Call(t)
    PROVE  TxInv'
<1>1. ASSUME NEW r \in Reported, CallForJob(t, r[1], r[2]) PROVE TxInv'
  <2>1. r[1] \in {"complete", "fail"} /\ r[2] \in JobId
    BY InputAssumption
  <2> QED BY <1>1, <2>1, CallForJobKeeps
<1>2. ASSUME NEW s \in Slug, NEW o \in Owner, CallForShare(t, "delete", s, o, Null) PROVE TxInv'
  BY <1>2, CallForShareKeeps
<1>3. ASSUME NEW r \in Renamed, NEW o \in Owner, CallForShare(t, "rename", r[1], o, r[2])
      PROVE  TxInv'
  <2>1. r[1] \in Slug /\ r[2] \in Slug
    BY InputAssumption
  <2> QED BY <1>3, <2>1, CallForShareKeeps
<1> QED BY <1>1, <1>2, <1>3 DEF Call

LEMMA StepKeeps ==
    ASSUME Store!IInv, TxInv, [Next]_vars
    PROVE  Store!IInv' /\ TxInv'
<1>1. Store!StoreStep
  BY StepIsOne, SameStep
<1>2. Store!IInv'
  BY <1>1, StoreAssumed, Store!StoreStepKeeps
<1>3. ASSUME NEW t \in Tx, Statement(t) PROVE TxInv'
  BY <1>1, <1>3, LockJobKeeps, UpsertObjectKeeps, ResolveKeeps, LockShareKeeps,
     CommitCompleteKeeps, CommitFailKeeps, WaitKeeps, SelectOwnedKeeps, InsertKeeps,
     UpdateNamesKeeps, CommitRenameKeeps, CancelJobsKeeps, CountKeeps, FreeObjectKeeps,
     CommitDeleteKeeps, RollbackKeeps
     DEF Statement, Deadlock
<1>4. CASE UNCHANGED vars
  <2>1. UNCHANGED <<lock, tx>> /\ aliases' = aliases /\ jobs' = jobs
    BY <1>4 DEF vars, dbVars
  <2>2. OthersOf(Null)
    BY <2>1 DEF TxInv, Typed, OthersOf, LocksOf, SameCall
  <2> QED BY <1>1, <1>2, <2>1, <2>2, OneStepKeeps
<1> QED BY <1>1, <1>2, <1>3, <1>4, StepIsOf, CreateKeeps, ClaimKeeps, CallKeeps, RollbackKeeps

\* Behind both theorems: the rows that an open transaction of metadata.go has
\* locked, and what it has read of them, are still what it decided on.
THEOREM TransactionsInvariant == Spec => [](Store!IInv /\ TxInv)
<1>1. Init => Store!IInv /\ TxInv
  BY SameInit, StoreAssumed, Store!InitEstablishes, InitKeeps DEF Init
<1>2. (Store!IInv /\ TxInv) /\ [Next]_vars => (Store!IInv /\ TxInv)'
  BY StepKeeps
<1> QED BY <1>1, <1>2, PTL DEF Spec

\* CompleteProcessingJob, FailProcessingJob, RenameAlias and DeleteAlias decide on
\* rows they read in several statements under READ COMMITTED; in whatever order the
\* statements of open transactions run, what each of them commits is what the method
\* does in one step to the tables as they are at the commit, but for the objects.
THEOREM TransactionsAreAtomic == Spec => CommitsAreAtomic
<1>1. Init => DB!Init
  BY DEF Init
<1>2. (Store!IInv /\ TxInv) /\ [Next]_vars => [DB!Next \/ OutOfTurn]_dbVars
  BY StepIsOne
<1> QED BY <1>1, <1>2, TransactionsInvariant, PTL DEF Spec, CommitsAreAtomic

-----------------------------------------------------------------------------
(* The reference count of a deletion, read in one statement, used in later ones. *)

\* What a deletion e knows of its share's object, unless another transaction
\* touched that object since: before it counted it frees nothing; its first
\* statement saw whether there is one; and what it decided at the count is what
\* it would decide now.
Counts(e) ==
    LET s == e.slug
        x == aliases[s].object
    IN
    /\ e.at \notin {"free", "commit"} => ~e.frees
    /\ e.at \in {"wait"} \cup Selected => /\ Store!Present(s)
                                          /\ e.keyed => x # Null
                                          /\ x # Null /\ x \notin e.met => e.keyed
    /\ e.frees => x # Null
    /\ e.at \in {"free", "commit"} /\ x \notin e.met => (e.frees <=> Store!FreesObject(s))

CountInv == \A t \in Tx : tx[t].method = "delete" => Counts(tx[t])

\* Objects are given to names that have none, and unless they are touched, being
\* the last one to hold an object is not changed by what happens to other shares.
ObjectsMove(touched) ==
    /\ \A r \in Slug : Store!Present(r) =>
           \/ aliases'[r].object = aliases[r].object
           \/ aliases[r].object = Null /\ aliases'[r].object \in touched
    /\ \A s \in Slug : /\ Store!Live(s) /\ Store!Live(s)'
                       /\ aliases[s].object \notin touched \cup {Null}
                       /\ aliases'[s].object = aliases[s].object
           => (Store!OtherReferences(s)' = {} <=> Store!OtherReferences(s) = {})

LEMMA OthersCount ==
    ASSUME Store!IInv, Store!StoreStep, TxInv, TxInv', NEW touched \in SUBSET Sha,
           ObjectsMove(touched), NEW t \in Tx, tx[t].method = "delete", Counts(tx[t]),
           SameCall(t), tx'[t].met = tx[t].met \cup touched
    PROVE  Counts(tx[t])'
<1>1. EditsAs(t, tx[t], lock) /\ Edits(t)' /\ tx[t] \in Entry
  <2>1. EditsAs(t, tx[t], lock) /\ tx[t] \in Entry
    BY IsMine DEF Editing
  <2>2. Editing(t)'
    BY DEF Editing, SameCall
  <2>3. Mine(t)'
    BY DEF TxInv
  <2> QED BY <2>1, <2>2, <2>3 DEF Mine
<1>2. PICK s \in Slug : s = tx[t].slug
  BY <1>1 DEF EditsAs
<1>3. PICK x \in Sha \cup {Null} : x = aliases[s].object
  BY DEF Store!IInv, Store!TypeOK, Store!AliasRow
<1>4. PICK m \in SUBSET Sha : m = tx[t].met
  BY <1>1 DEF Entry
<1>5. /\ tx'[t].slug = s /\ tx'[t].at = tx[t].at /\ tx'[t].keyed = tx[t].keyed
      /\ tx'[t].frees = tx[t].frees /\ tx'[t].met = m \cup touched
      /\ tx'[t].method = "delete" /\ tx'[t].owner = tx[t].owner
  BY <1>2, <1>4 DEF SameCall
<1>6. tx[t].at \in {"wait"} \cup Selected => Store!Present(s) /\ Store!Present(s)'
  <2>1. Store!Carried
    BY StoreAssumed, Store!StoreStepCarries
  <2> QED BY <1>2, <2>1 DEF Counts, Store!Carried
<1>7. tx[t].at \in Selected => Store!Live(s) /\ Store!Live(s)'
  <2>1. tx[t].at \in Selected => Store!Live(s)
    BY <1>1, <1>2 DEF EditsAs, Store!OwnedCurrent, Store!Live
  <2>2. tx[t].at \in Selected => Store!OwnedCurrent(tx[t].slug, tx[t].owner)'
    BY <1>1, <1>5 DEF Edits
  <2>3. tx[t].at \in Selected => Store!Live(s)'
    BY <1>5, <2>2 DEF Store!OwnedCurrent, Store!Live, Store!IsRoot, Store!Visible
  <2> QED BY <2>1, <2>3
<1>8. tx[t].at \in {"wait"} \cup Selected =>
          aliases'[s].object = x \/ (x = Null /\ aliases'[s].object \in touched)
  BY <1>3, <1>6 DEF ObjectsMove
<1>10. Null \notin Sha
  BY StoreAssumed DEF Store!NullAssumption
<1>11. tx[t].frees => tx[t].at \in {"free", "commit"} /\ x # Null
  BY <1>2, <1>3 DEF Counts
<1>12. ASSUME tx[t].at \in {"free", "commit"}, aliases'[s].object \notin m \cup touched
       PROVE  tx[t].frees <=> Store!FreesObject(s)'
  <2>1. Store!Live(s) /\ Store!Live(s)' /\ aliases'[s].object = x
    BY <1>7, <1>8, <1>12 DEF Selected
  <2>2. tx[t].frees <=> Store!FreesObject(s)
    BY <1>2, <1>3, <1>4, <1>12, <2>1 DEF Counts
  <2>3. CASE x = Null
    BY <1>3, <2>1, <2>2, <2>3 DEF Store!FreesObject
  <2>4. CASE x # Null
    <3>1. Store!OtherReferences(s)' = {} <=> Store!OtherReferences(s) = {}
      BY <1>3, <1>12, <2>1, <2>4 DEF ObjectsMove
    <3> QED BY <1>3, <2>1, <2>2, <2>4, <3>1 DEF Store!FreesObject
  <2> QED BY <2>3, <2>4
<1>13. /\ Store!Present(tx[t].slug)' <=> Store!Present(s)'
       /\ Store!FreesObject(tx[t].slug)' <=> Store!FreesObject(s)'
  BY <1>5 DEF Store!Present, Store!FreesObject, Store!OtherReferences, Store!Visible, Store!IsRoot
<1>14. tx[t].at \in {"wait"} \cup Selected =>
          /\ tx[t].keyed => x # Null
          /\ x # Null /\ x \notin m => tx[t].keyed
  BY <1>2, <1>3, <1>4 DEF Counts
<1>15. tx[t].at \in {"wait"} \cup Selected =>
          /\ tx[t].keyed => aliases'[s].object # Null
          /\ aliases'[s].object # Null /\ aliases'[s].object \notin m \cup touched => tx[t].keyed
  BY <1>8, <1>10, <1>14
<1>16. tx[t].frees => aliases'[s].object # Null
  BY <1>8, <1>11 DEF Selected
<1> QED BY <1>5, <1>6, <1>11, <1>12, <1>13, <1>15, <1>16 DEF Counts

\* Statements that commit nothing: t goes on as e.
LEMMA CountsGoOn ==
    ASSUME CountInv, NEW t \in Tx, NEW e, UNCHANGED dbVars,
           tx'[t] = e, \A u \in Tx \ {t} : tx'[u] = tx[u],
           e.method = "delete" => Counts(e)
    PROVE  CountInv'
<1> SUFFICES ASSUME NEW u \in Tx, tx'[u].method = "delete" PROVE Counts(tx[u])'
  BY DEF CountInv
<1>1. PICK f : f = IF u = t THEN e ELSE tx[u]
  OBVIOUS
<1>2. f.method = "delete" /\ tx'[u] = f /\ Counts(f)
  BY <1>1 DEF CountInv
<1>3. aliases' = aliases
  BY DEF dbVars
<1>4. /\ Store!Present(tx[u].slug)' <=> Store!Present(f.slug)
      /\ Store!FreesObject(tx[u].slug)' <=> Store!FreesObject(f.slug)
  BY <1>2, <1>3 DEF Store!Present, Store!FreesObject, Store!OtherReferences, Store!Visible,
                    Store!IsRoot
<1> QED BY <1>2, <1>3, <1>4 DEF Counts

LEMMA RollbackCounts ==
    ASSUME TxInv, CountInv, NEW t \in Tx, Rollback(t)
    PROVE  CountInv'
<1>1. NoTx.method = "none"
  BY DEF NoTx
<1>2. PICK f : f = NoTx
  OBVIOUS
<1> HIDE DEF NoTx
<1>3. UNCHANGED dbVars /\ tx'[t] = f /\ \A u \in Tx \ {t} : tx'[u] = tx[u]
  BY <1>2 DEF Rollback, Continue, TxInv, Typed
<1> QED BY <1>1, <1>2, <1>3, CountsGoOn

\* Reports are no deletions, and stay what they are.
LEMMA ReportCounts ==
    ASSUME TxInv, CountInv, NEW t \in Tx,
           LockJob(t) \/ UpsertObject(t) \/ Resolve(t) \/ LockShare(t)
    PROVE  CountInv'
<1>1. CASE Rollback(t)
  BY <1>1, RollbackCounts
<1>2. CASE ~Rollback(t)
  <2>1. Settling(t) /\ tx[t] \in Entry
    BY IsMine, WhereTheyAre DEF LockJob, UpsertObject, Resolve, LockShare, At
  <2>2. tx \in [Tx -> Entry]
    BY DEF TxInv, Typed
  <2>3. ASSUME NEW e, e.method = tx[t].method, tx' = [tx EXCEPT ![t] = e], UNCHANGED dbVars
        PROVE  CountInv'
    <3>1. tx'[t] = e /\ \A u \in Tx \ {t} : tx'[u] = tx[u]
      BY <2>2, <2>3
    <3>2. e.method # "delete"
      BY <2>1, <2>3 DEF Settling
    <3> QED BY <2>3, <3>1, <3>2, CountsGoOn
  <2>4. ASSUME NEW r, tx' = [tx EXCEPT ![t] = [tx[t] EXCEPT !.at = r]], UNCHANGED dbVars
        PROVE  CountInv'
    <3>1. [tx[t] EXCEPT !.at = r].method = tx[t].method
      BY <2>1 DEF Entry
    <3> QED BY <2>3, <2>4, <3>1
  <2>5. ASSUME NEW r, NEW s, tx' = [tx EXCEPT ![t] = [tx[t] EXCEPT !.at = r, !.slug = s]],
               UNCHANGED dbVars
        PROVE  CountInv'
    <3>1. [tx[t] EXCEPT !.at = r, !.slug = s].method = tx[t].method
      BY <2>1 DEF Entry
    <3> QED BY <2>3, <2>5, <3>1
  <2>6. ASSUME NEW s, tx' = [tx EXCEPT ![t] = [tx[t] EXCEPT !.slug = s]], UNCHANGED dbVars
        PROVE  CountInv'
    <3>1. [tx[t] EXCEPT !.slug = s].method = tx[t].method
      BY <2>1 DEF Entry
    <3> QED BY <2>3, <2>6, <3>1
  <2> HIDE DEF Rollback
  <2>7. CASE LockJob(t)
    BY <1>2, <2>4, <2>7 DEF LockJob, Continue
  <2>8. CASE UpsertObject(t)
    BY <2>4, <2>8 DEF UpsertObject, Continue
  <2>9. NotFound(t) => CountInv'
    BY <1>2, <2>5 DEF NotFound, Continue
  <2>10. CASE Resolve(t)
    BY <2>4, <2>6, <2>9, <2>10 DEF Resolve, Continue
  <2>11. CASE LockShare(t)
    BY <2>4, <2>5, <2>9, <2>11 DEF LockShare, Continue
  <2> QED BY <2>7, <2>8, <2>10, <2>11
<1> QED BY <1>1, <1>2

LEMMA CallCounts ==
    ASSUME TxInv, CountInv, NEW t \in Tx, Call(t)
    PROVE  CountInv'
<1>1. ASSUME NEW m, NEW j, CallForJob(t, m, j), m \in {"complete", "fail"} PROVE CountInv'
  <2> DEFINE e == [NoTx EXCEPT !.method = m, !.at = "job", !.job = j, !.slug = jobs[j].alias]
  <2>1. UNCHANGED dbVars /\ tx' = [tx EXCEPT ![t] = e]
    BY <1>1 DEF CallForJob, Continue
  <2>2. e.method # "delete"
    BY <1>1 DEF NoTx
  <2>3. PICK f : f = e
    OBVIOUS
  <2> HIDE DEF e
  <2>4. tx'[t] = f /\ \A u \in Tx \ {t} : tx'[u] = tx[u]
    BY <2>1, <2>3 DEF TxInv, Typed
  <2> QED BY <2>1, <2>2, <2>3, <2>4, CountsGoOn
<1>2. ASSUME NEW m, NEW s, NEW o, NEW new, CallForShare(t, m, s, o, new) PROVE CountInv'
  <2> DEFINE e == [NoTx EXCEPT !.method = m, !.at = "select", !.slug = s, !.owner = o, !.new = new]
  <2>1. UNCHANGED dbVars /\ tx' = [tx EXCEPT ![t] = e]
    BY <1>2 DEF CallForShare, Continue
  <2>2. e.at = "select" /\ e.frees = FALSE
    BY DEF NoTx
  <2>3. PICK f : f = e
    OBVIOUS
  <2> HIDE DEF e
  <2>4. tx'[t] = f /\ \A u \in Tx \ {t} : tx'[u] = tx[u]
    BY <2>1, <2>3 DEF TxInv, Typed
  <2>5. Counts(f)
    BY <2>2, <2>3 DEF Counts, Selected
  <2> QED BY <2>1, <2>4, <2>5, CountsGoOn
<1>3. \A r \in Reported : r[1] \in {"complete", "fail"}
  BY InputAssumption
<1> QED BY <1>1, <1>2, <1>3 DEF Call

\* A deletion that goes on at another statement, knowing what it knew.
LEMMA SelectionCounts ==
    ASSUME Store!IInv, TxInv, CountInv, NEW t \in Tx, Wait(t) \/ SelectOwned(t)
    PROVE  CountInv'
<1>1. CASE Rollback(t)
  BY <1>1, RollbackCounts
<1>2. CASE Wait(t) /\ ~Rollback(t)
  <2> DEFINE e == [tx[t] EXCEPT !.at = "wait", !.keyed = aliases[tx[t].slug].object # Null]
  <2>1. /\ tx[t].at = "select" /\ tx' = [tx EXCEPT ![t] = e] /\ UNCHANGED dbVars
        /\ DB!Visible(tx[t].slug)
    BY <1>2 DEF Wait, Continue, At
  <2>2. tx[t] \in Entry
    BY IsMine
  <2>3. /\ e.method = tx[t].method /\ e.at = "wait" /\ e.slug = tx[t].slug
        /\ e.frees = tx[t].frees /\ e.keyed = (aliases[tx[t].slug].object # Null)
    BY <2>2 DEF Entry
  <2>4. PICK f : f = e
    OBVIOUS
  <2> HIDE DEF e
  <2>5. tx'[t] = f /\ \A u \in Tx \ {t} : tx'[u] = tx[u]
    BY <2>1, <2>4 DEF TxInv, Typed
  <2>6. Store!Present(tx[t].slug)
    BY <2>1, SameRows DEF Store!Visible, Store!Present
  <2>7. tx[t].method = "delete" => Counts(f)
    BY <2>1, <2>3, <2>4, <2>6 DEF CountInv, Counts
  <2> QED BY <2>1, <2>3, <2>4, <2>5, <2>7, CountsGoOn
<1>3. CASE SelectOwned(t) /\ ~Rollback(t)
  <2> DEFINE s == tx[t].slug
             e == [tx[t] EXCEPT
                     !.at = IF Method(t, "rename") THEN "insert" ELSE "rows",
                     !.keyed = IF At(t, "wait") THEN @ ELSE aliases[s].object # Null]
  <2>1. /\ tx[t].at \in {"select", "wait"} /\ tx' = [tx EXCEPT ![t] = e] /\ UNCHANGED dbVars
        /\ DB!OwnedCurrent(s, tx[t].owner)
    BY <1>3 DEF SelectOwned, Continue
  <2>2. tx[t] \in Entry
    BY IsMine
  <2>3. /\ e.method = tx[t].method /\ e.at \in {"insert", "rows"} /\ e.slug = s
        /\ e.frees = tx[t].frees /\ e.met = tx[t].met
        /\ e.keyed = IF tx[t].at = "wait" THEN tx[t].keyed ELSE aliases[s].object # Null
    BY <2>2 DEF Entry, At
  <2>4. PICK f : f = e
    OBVIOUS
  <2> HIDE DEF e
  <2>5. tx'[t] = f /\ \A u \in Tx \ {t} : tx'[u] = tx[u]
    BY <2>1, <2>4 DEF TxInv, Typed
  <2>6. Store!Present(tx[t].slug)
    BY <2>1, SameRows DEF Store!OwnedCurrent, Store!Visible, Store!Present
  <2>7. tx[t].method = "delete" => Counts(f)
    BY <2>1, <2>3, <2>4, <2>6 DEF CountInv, Counts
  <2> QED BY <2>1, <2>3, <2>4, <2>5, <2>7, CountsGoOn
<1> QED BY <1>1, <1>2, <1>3

\* A statement from at on to next, with the same knowledge.
LEMMA NextCounts ==
    ASSUME TxInv, CountInv, NEW t \in Tx, NEW next, UNCHANGED dbVars,
           tx' = [tx EXCEPT ![t] = [tx[t] EXCEPT !.at = next]],
           tx[t].method = "delete" =>
               \/ tx[t].at \in {"rows", "jobs"} /\ next \in {"jobs", "count"}
               \/ tx[t].at = "free" /\ next = "commit"
    PROVE  CountInv'
<1> DEFINE e == [tx[t] EXCEPT !.at = next]
<1>1. tx[t] \in Entry
  BY IsMine
<1>2. /\ e.method = tx[t].method /\ e.at = next /\ e.slug = tx[t].slug
      /\ e.keyed = tx[t].keyed /\ e.frees = tx[t].frees /\ e.met = tx[t].met
  BY <1>1 DEF Entry
<1>3. PICK f : f = e /\ tx' = [tx EXCEPT ![t] = f]
  OBVIOUS
<1> HIDE DEF e
<1>4. tx'[t] = f /\ \A u \in Tx \ {t} : tx'[u] = tx[u]
  BY <1>3 DEF TxInv, Typed
<1>5. ASSUME tx[t].method = "delete" PROVE Counts(f)
  <2>1. Counts(tx[t])
    BY <1>5 DEF CountInv
  <2>2. /\ f.at = next /\ f.slug = tx[t].slug
        /\ f.keyed = tx[t].keyed /\ f.frees = tx[t].frees /\ f.met = tx[t].met
    BY <1>2, <1>3
  <2>3. CASE tx[t].at \in {"rows", "jobs"} /\ next \in {"jobs", "count"}
    BY <2>1, <2>2, <2>3 DEF Counts, Selected
  <2>4. CASE tx[t].at = "free" /\ next = "commit"
    BY <2>1, <2>2, <2>4 DEF Counts, Selected
  <2> QED BY <1>5, <2>3, <2>4
<1> QED BY <1>2, <1>3, <1>4, <1>5, CountsGoOn

LEMMA RowsCount ==
    ASSUME Store!IInv, TxInv, CountInv, NEW t \in Tx,
           Insert(t) \/ UpdateNames(t) \/ CancelJobs(t) \/ FreeObject(t)
    PROVE  CountInv'
<1>1. CASE Insert(t)
  <2>1. CASE Rollback(t)
    BY <2>1, RollbackCounts
  <2>2. CASE ~Rollback(t)
    <3>1. /\ UNCHANGED dbVars /\ tx[t].at = "insert"
          /\ tx' = [tx EXCEPT ![t] = [tx[t] EXCEPT !.at = "rows"]]
      BY <1>1, <2>2 DEF Insert, Continue, At
    <3>2. tx[t].method = "rename"
      BY <3>1, WhereTheyAre
    <3> QED BY <3>1, <3>2, NextCounts
  <2> QED BY <2>1, <2>2
<1>2. ASSUME UNCHANGED <<dbVars, tx>> PROVE CountInv'
  <2>1. PICK e : e = tx[t]
    OBVIOUS
  <2>2. tx'[t] = e /\ \A u \in Tx \ {t} : tx'[u] = tx[u]
    BY <1>2, <2>1
  <2>3. e.method = "delete" => Counts(e)
    BY <2>1 DEF CountInv
  <2> QED BY <1>2, <2>2, <2>3, CountsGoOn
<1>3. ASSUME NEW rows, NEW next, LockEach(t, rows, next), ~(UNCHANGED <<dbVars, tx>>)
      PROVE  UNCHANGED dbVars /\ tx' = [tx EXCEPT ![t] = [tx[t] EXCEPT !.at = next]]
  BY <1>3 DEF LockEach, Continue
<1>4. CASE UpdateNames(t)
  <2>1. PICK next : /\ next = IF tx[t].method = "rename" THEN "commit" ELSE "jobs"
                    /\ LockEach(t, Family(t), next) /\ tx[t].at = "rows"
    BY <1>4 DEF UpdateNames, At, Method
  <2> QED BY <1>2, <1>3, <2>1, NextCounts
<1>5. CASE CancelJobs(t)
  <2>1. tx[t].at = "jobs" /\ LockEach(t, JobsOf(t), "count")
    BY <1>5 DEF CancelJobs, At
  <2> QED BY <1>2, <1>3, <2>1, NextCounts
<1>6. CASE FreeObject(t)
  <2>1. /\ UNCHANGED dbVars /\ tx[t].at = "free"
        /\ tx' = [tx EXCEPT ![t] = [tx[t] EXCEPT !.at = "commit"]]
    BY <1>6 DEF FreeObject, At, Continue
  <2> QED BY <2>1, NextCounts
<1> QED BY <1>1, <1>4, <1>5, <1>6

\* The count itself decides as DeleteAlias would, unless the object was touched
\* between the first statement and the lock on its name.
LEMMA CountCounts ==
    ASSUME Store!IInv, TxInv, CountInv, NEW t \in Tx, Count(t)
    PROVE  CountInv'
<1> DEFINE s == tx[t].slug
           frees == tx[t].keyed /\ Unreferenced(t)
           e == IF frees THEN [tx[t] EXCEPT !.at = "free", !.frees = TRUE]
                ELSE [tx[t] EXCEPT !.at = "commit"]
<1>1. tx[t].at = "count" /\ tx' = [tx EXCEPT ![t] = e] /\ UNCHANGED dbVars
  BY DEF Count, Continue, At
<1>2. /\ tx[t].method = "delete" /\ tx[t] \in Entry
  BY <1>1, IsMine, WhereTheyAre
<1>3. Counts(tx[t]) /\ ~tx[t].frees
  BY <1>1, <1>2 DEF CountInv, Counts
<1>4. /\ e.at \in {"free", "commit"} /\ e.slug = s /\ e.keyed = tx[t].keyed
      /\ e.met = tx[t].met /\ (e.frees <=> frees)
  BY <1>2, <1>3 DEF Entry
<1>5. Unreferenced(t) <=> Store!OtherReferences(s) = {}
  BY SameRows DEF Unreferenced
<1>6. PICK f : f = e
  OBVIOUS
<1> HIDE DEF e
<1>7. tx'[t] = f /\ \A u \in Tx \ {t} : tx'[u] = tx[u]
  BY <1>1, <1>6 DEF TxInv, Typed
<1>8. Counts(f)
  <2>1. /\ Store!Present(s) /\ (tx[t].keyed => aliases[s].object # Null)
        /\ aliases[s].object # Null /\ aliases[s].object \notin tx[t].met => tx[t].keyed
    BY <1>1, <1>3 DEF Counts, Selected
  <2>2. Store!FreesObject(s) <=> aliases[s].object # Null /\ Store!OtherReferences(s) = {}
    BY DEF Store!FreesObject
  <2> HIDE DEF s
  <2> QED BY <1>4, <1>5, <1>6, <2>1, <2>2 DEF Counts, Selected
<1> QED BY <1>1, <1>7, <1>8, CountsGoOn

LEMMA ReadsCount ==
    ASSUME Store!IInv, TxInv, CountInv, NEW t \in Tx, Call(t) \/ Statement(t) \/ Rollback(t),
           ~Committing(t)
    PROVE  CountInv'
<1>1. Call(t) => CountInv'
  BY CallCounts
<1>2. Rollback(t) => CountInv'
  BY RollbackCounts
<1>3. Statement(t) => CountInv'
  BY <1>2, ReportCounts, SelectionCounts, RowsCount, CountCounts DEF Statement, Deadlock, Committing
<1> QED BY <1>1, <1>2, <1>3

\* Commits move objects as ObjectsMove says.
LEMMA RowsMove ==
    ASSUME NEW touched,
           \A r \in Slug : /\ aliases'[r].visibility = aliases[r].visibility
                           /\ aliases'[r].redirectTo = aliases[r].redirectTo
                           /\ \/ aliases'[r].object = aliases[r].object
                              \/ aliases[r].object = Null /\ aliases'[r].object \in touched
    PROVE  ObjectsMove(touched)
<1> SUFFICES ASSUME NEW s \in Slug, aliases[s].object \notin touched \cup {Null},
                    aliases'[s].object = aliases[s].object
             PROVE  Store!OtherReferences(s)' = Store!OtherReferences(s)
  BY DEF ObjectsMove
<1>1. \A r \in Slug : aliases'[r].object = aliases'[s].object
                          <=> aliases[r].object = aliases[s].object
  OBVIOUS
<1> QED BY <1>1 DEF Store!OtherReferences, Store!Visible, Store!IsRoot

LEMMA CreationMoves ==
    ASSUME Store!IInv, NEW j, NEW o, NEW q \in Slug, NEW u, DB!CreateIngestJob(j, o, q, u)
    PROVE  ObjectsMove({})
<1>1. PICK row : /\ row = Store!PendingAlias(o) /\ aliases' = [aliases EXCEPT ![q] = row]
                 /\ ~Store!Present(q)
  BY SameCreate DEF Store!CreateIngestJob, Store!NameFree
<1>2. row.object = Null
  BY <1>1 DEF Store!PendingAlias
<1>3. aliases'[q] = row /\ \A r \in Slug \ {q} : aliases'[r] = aliases[r]
  BY <1>1 DEF Store!IInv, Store!TypeOK
<1>4. \A r \in Slug : Store!Present(r) => aliases'[r] = aliases[r]
  BY <1>1, <1>3
<1>5. ASSUME NEW s \in Slug, Store!Live(s), aliases[s].object # Null,
             aliases'[s].object = aliases[s].object
      PROVE  Store!OtherReferences(s)' = Store!OtherReferences(s)
  <2>1. s # q /\ aliases'[s] = aliases[s]
    BY <1>1, <1>3, <1>5 DEF Store!Live, Store!Visible, Store!Present
  <2>2. \A r \in Slug : r \in Store!OtherReferences(s)' <=> r \in Store!OtherReferences(s)
    <3>1. q \notin Store!OtherReferences(s)' /\ q \notin Store!OtherReferences(s)
      BY <1>1, <1>2, <1>3, <1>5, <2>1
         DEF Store!OtherReferences, Store!Visible, Store!Present
    <3>2. \A r \in Slug \ {q} : r \in Store!OtherReferences(s)' <=> r \in Store!OtherReferences(s)
      BY <1>3, <2>1 DEF Store!OtherReferences, Store!Visible, Store!IsRoot
    <3> QED BY <3>1, <3>2
  <2> QED BY <2>2 DEF Store!OtherReferences
<1> QED BY <1>4, <1>5 DEF ObjectsMove

LEMMA CompletionMoves ==
    ASSUME Store!IInv, TxInv, NEW t \in Tx, CommitComplete(t)
    PROVE  ObjectsMove({ObjectOf(t)})
<1>1. PICK x \in Sha : x = ObjectOf(t)
  BY CompletionIsOne
<1>2. PICK s \in Slug : s = tx[t].slug
  BY AtItsEnd, IsMine DEF CommitComplete, Method, At, Settling, SettlesAs
<1>3. PICK j \in JobId : j = tx[t].job
  BY CompletionIsOne
<1>4. aliases[s].object = Null
  <2>1. SettlesAs(t, tx[t], lock) /\ tx[t].method = "complete" /\ tx[t].at = "commit"
    BY IsMine DEF CommitComplete, Method, At, Settling
  <2>2. Store!Live(s) /\ Store!Root(s) = Store!JobRoot(j) /\ jobs[j].status = "running"
    BY <1>2, <1>3, <2>1, StoreAssumed DEF SettlesAs, Store!NullAssumption
  <2>3. Store!JobRoot(j) = s /\ Store!JobExists(j)
    BY <2>2 DEF Store!Live, Store!Root, Store!JobExists
  <2> QED BY <2>2, <2>3 DEF Store!IInv, Store!StatusesAgree
<1>5. aliases' = [aliases EXCEPT ![s] = [@ EXCEPT !.object = x, !.status = "ready"]]
  BY <1>1, <1>2 DEF CommitComplete
<1>6. aliases \in [Slug -> Store!AliasRow]
  BY DEF Store!IInv, Store!TypeOK
<1>7. \A r \in Slug : /\ aliases'[r].visibility = aliases[r].visibility
                      /\ aliases'[r].redirectTo = aliases[r].redirectTo
                      /\ aliases'[r].object = IF r = s THEN x ELSE aliases[r].object
  BY <1>5, <1>6 DEF Store!AliasRow
<1> QED BY <1>1, <1>4, <1>7, RowsMove

LEMMA FailureMoves ==
    ASSUME Store!IInv, NEW t \in Tx, CommitFail(t)
    PROVE  ObjectsMove({})
<1>1. aliases' = IF tx[t].slug = Null THEN aliases
                 ELSE [aliases EXCEPT ![tx[t].slug].status = "failed"]
  BY DEF CommitFail
<1>2. aliases \in [Slug -> Store!AliasRow]
  BY DEF Store!IInv, Store!TypeOK
<1>3. \A r \in Slug : /\ aliases'[r].visibility = aliases[r].visibility
                      /\ aliases'[r].redirectTo = aliases[r].redirectTo
                      /\ aliases'[r].object = aliases[r].object
  BY <1>1, <1>2 DEF Store!AliasRow
<1> QED BY <1>3, RowsMove

\* The new name holds the object for the old one, so others count as many.
LEMMA RenameMoves ==
    ASSUME Store!IInv, TxInv, NEW t \in Tx, CommitRename(t)
    PROVE  ObjectsMove({})
<1>1. PICK q \in Slug, o \in Owner, new \in Slug : q = tx[t].slug /\ o = tx[t].owner /\ new = tx[t].new
  BY RenameIsOne
<1>2. Store!RenameAlias(q, o, new)
  BY <1>1, RenameIsOne, SameRename
<1>3. /\ Store!Live(q) /\ Store!Present(q) /\ ~Store!Present(new) /\ new # q
      /\ q \in Store!Family(q, o)
  BY <1>2 DEF Store!RenameAlias, Store!OwnedCurrent, Store!NameFree, Store!Live, Store!Present,
              Store!Visible, Store!Family
<1>4. aliases' = [r \in Slug |-> IF r = new THEN aliases[q]
                                 ELSE IF r \in Store!Family(q, o)
                                   THEN [aliases[r] EXCEPT !.redirectTo = new] ELSE aliases[r]]
  BY <1>2 DEF Store!RenameAlias, Store!RenamedRows
<1>5. /\ aliases'[new] = aliases[q]
      /\ \A r \in Slug \ {new} :
             /\ aliases'[r].object = aliases[r].object
             /\ aliases'[r].visibility = aliases[r].visibility
             /\ aliases'[r].redirectTo = IF r \in Store!Family(q, o) THEN new ELSE aliases[r].redirectTo
  <2>1. aliases \in [Slug -> Store!AliasRow]
    BY DEF Store!IInv, Store!TypeOK
  <2> QED BY <1>4, <2>1 DEF Store!AliasRow
<1>6. new # Null /\ q # Null
  BY StoreAssumed DEF Store!NullAssumption
<1>7. \A r \in Slug : Store!Live(r) => r # new /\ (r \in Store!Family(q, o) <=> r = q)
  BY <1>3, <1>6 DEF Store!Live, Store!Visible, Store!IsRoot, Store!Present, Store!Family
<1>8. \A r \in Slug : Store!Live(r)' <=> r = new \/ (Store!Live(r) /\ r # q)
  BY <1>3, <1>5, <1>6, <1>7 DEF Store!Live, Store!Visible, Store!IsRoot
<1>9. ASSUME NEW s \in Slug, Store!Live(s), Store!Live(s)'
      PROVE  Store!OtherReferences(s)' = {} <=> Store!OtherReferences(s) = {}
  <2>1. s # q /\ s # new
    BY <1>7, <1>8, <1>9
  <2>2. \A r \in Slug : r \in Store!OtherReferences(s) <=>
            r # s /\ Store!Live(r) /\ aliases[r].object = aliases[s].object
    BY DEF Store!OtherReferences, Store!Live
  <2>3. \A r \in Slug : r \in Store!OtherReferences(s)' <=>
            r # s /\ Store!Live(r)' /\ aliases'[r].object = aliases'[s].object
    BY DEF Store!OtherReferences, Store!Live
  <2>4. aliases'[s].object = aliases[s].object
    BY <1>5, <2>1
  <2>5. q \in Store!OtherReferences(s) <=> new \in Store!OtherReferences(s)'
    BY <1>3, <1>5, <1>8, <2>1, <2>2, <2>3, <2>4
  <2>6. \A r \in Slug \ {q, new} : r \in Store!OtherReferences(s) <=> r \in Store!OtherReferences(s)'
    BY <1>5, <1>8, <2>2, <2>3, <2>4
  <2>7. new \notin Store!OtherReferences(s) /\ q \notin Store!OtherReferences(s)'
    BY <1>3, <1>7, <1>8, <2>2, <2>3
  <2>8. Store!OtherReferences(s) \subseteq Slug /\ Store!OtherReferences(s)' \subseteq Slug
    BY DEF Store!OtherReferences
  <2> QED BY <2>5, <2>6, <2>7, <2>8
<1>10. \A r \in Slug : Store!Present(r) => aliases'[r].object = aliases[r].object
  BY <1>3, <1>5
<1> QED BY <1>9, <1>10 DEF ObjectsMove

\* Only names of the deleted share stop to count, and they hold its object.
LEMMA DeletionMoves ==
    ASSUME Store!IInv, TxInv, NEW t \in Tx, CommitDelete(t)
    PROVE  ObjectsMove({ObjectOf(t)} \ {Null})
<1>1. PICK q \in Slug, o \in Owner : q = tx[t].slug /\ o = tx[t].owner
  BY DeletionIsOne
<1>2. Store!DeleteAlias(q, o) /\ ObjectOf(t) = aliases[q].object
  BY <1>1, DeletionIsOne, SameDelete DEF ObjectOf, CommitDelete, Method
<1>3. \A r \in Slug : /\ aliases'[r].object = aliases[r].object
                      /\ aliases'[r].redirectTo = aliases[r].redirectTo
                      /\ aliases'[r].visibility = IF r \in Store!Family(q, o) THEN "deleted"
                                                  ELSE aliases[r].visibility
  <2>1. aliases \in [Slug -> Store!AliasRow]
    BY DEF Store!IInv, Store!TypeOK
  <2>2. aliases' = [r \in Slug |-> IF r \in Store!Family(q, o)
                                     THEN [aliases[r] EXCEPT !.visibility = "deleted"]
                                     ELSE aliases[r]]
    BY <1>2 DEF Store!DeleteAlias, Store!DeletedRows
  <2> QED BY <2>1, <2>2 DEF Store!AliasRow
<1>4. q # Null
  BY StoreAssumed DEF Store!NullAssumption
<1>5. \A r \in Slug : Store!Live(r) /\ r # q => Store!Live(r)'
  BY <1>3, <1>4 DEF Store!Live, Store!Visible, Store!IsRoot, Store!Family
<1>6. \A r \in Slug : Store!Live(r)' => Store!Live(r)
  BY <1>3 DEF Store!Live, Store!Visible, Store!IsRoot
<1>7. ASSUME NEW s \in Slug, aliases[s].object # aliases[q].object
      PROVE  Store!OtherReferences(s)' = Store!OtherReferences(s)
  <2>1. \A r \in Slug : r \in Store!OtherReferences(s) <=>
            r # s /\ Store!Live(r) /\ aliases[r].object = aliases[s].object
    BY DEF Store!OtherReferences, Store!Live
  <2>2. \A r \in Slug : r \in Store!OtherReferences(s)' <=>
            r # s /\ Store!Live(r)' /\ aliases'[r].object = aliases'[s].object
    BY DEF Store!OtherReferences, Store!Live
  <2>3. \A r \in Slug : r \in Store!OtherReferences(s) <=> r \in Store!OtherReferences(s)'
    BY <1>3, <1>5, <1>6, <1>7, <2>1, <2>2
  <2>4. Store!OtherReferences(s) \subseteq Slug /\ Store!OtherReferences(s)' \subseteq Slug
    BY DEF Store!OtherReferences
  <2> QED BY <2>3, <2>4
<1>8. ASSUME NEW s \in Slug, aliases[s].object \notin ({ObjectOf(t)} \ {Null}) \cup {Null}
      PROVE  Store!OtherReferences(s)' = Store!OtherReferences(s)
  BY <1>2, <1>7, <1>8
<1> QED BY <1>3, <1>8 DEF ObjectsMove

LEMMA CommittedCounts ==
    ASSUME Store!IInv, Store!StoreStep, TxInv, TxInv', CountInv, NEW t \in Tx,
           NEW touched \in SUBSET Sha, Committed(t, touched), ObjectsMove(touched)
    PROVE  CountInv'
<1> SUFFICES ASSUME NEW u \in Tx, tx'[u].method = "delete" PROVE Counts(tx[u])'
  BY DEF CountInv
<1>1. NoTx.method = "none"
  BY DEF NoTx
<1>2. u # t
  BY <1>1 DEF Committed
<1>3. tx'[u] = IF Active(u) THEN [tx[u] EXCEPT !.met = tx[u].met \cup touched] ELSE tx[u]
  BY <1>2 DEF Committed
<1>4. tx[u] \in Entry
  BY IsMine
<1>5. Active(u)
  BY <1>3 DEF Active
<1>6. PICK m : m = tx[u].met \cup touched
  OBVIOUS
<1>7. tx'[u] = [tx[u] EXCEPT !.met = m]
  BY <1>3, <1>5, <1>6
<1>8. SameCall(u) /\ tx'[u].met = m
  BY <1>4, <1>7 DEF Entry, SameCall
<1>9. tx[u].method = "delete" /\ Counts(tx[u])
  BY <1>8 DEF SameCall, CountInv
<1> QED BY <1>6, <1>8, <1>9, OthersCount

\* Steps that are of no transaction.
LEMMA OneStepCounts ==
    ASSUME Store!IInv, Store!StoreStep, TxInv, TxInv', CountInv, UNCHANGED tx, ObjectsMove({})
    PROVE  CountInv'
<1> SUFFICES ASSUME NEW u \in Tx, tx'[u].method = "delete" PROVE Counts(tx[u])'
  BY DEF CountInv
<1>1. tx[u] \in Entry
  BY IsMine
<1>2. SameCall(u) /\ tx'[u].met = tx[u].met \cup {}
  BY <1>1 DEF SameCall
<1>3. tx[u].method = "delete" /\ Counts(tx[u])
  BY DEF CountInv
<1> QED BY <1>2, <1>3, OthersCount

LEMMA StepCounts ==
    ASSUME Store!IInv, TxInv, CountInv, [Next]_vars
    PROVE  CountInv'
<1>1. Store!StoreStep /\ TxInv'
  BY StepIsOne, SameStep, StepKeeps
<1>2. ASSUME NEW j \in JobId, NEW s \in Slug, NEW o \in Owner, NEW u \in Upload,
             CreateIngestJob(j, o, s, u)
      PROVE  CountInv'
  BY <1>1, <1>2, CreationMoves, OneStepCounts DEF CreateIngestJob
<1>3. ASSUME NEW j \in JobId, ClaimNextProcessingJob(j) PROVE CountInv'
  BY <1>1, <1>3, RowsMove, OneStepCounts DEF ClaimNextProcessingJob
<1>4. ASSUME NEW t \in Tx, CommitComplete(t) PROVE CountInv'
  <2>1. {ObjectOf(t)} \in SUBSET Sha
    BY <1>4, CompletionIsOne
  <2>2. Committed(t, {ObjectOf(t)})
    BY <1>4 DEF CommitComplete
  <2> QED BY <1>1, <1>4, <2>1, <2>2, CompletionMoves, CommittedCounts
<1>5. ASSUME NEW t \in Tx, CommitFail(t) PROVE CountInv'
  <2>1. Committed(t, {})
    BY <1>5 DEF CommitFail
  <2> QED BY <1>1, <1>5, <2>1, FailureMoves, CommittedCounts
<1>6. ASSUME NEW t \in Tx, CommitRename(t) PROVE CountInv'
  <2>1. Committed(t, {})
    BY <1>6 DEF CommitRename
  <2> QED BY <1>1, <1>6, <2>1, RenameMoves, CommittedCounts
<1>7. ASSUME NEW t \in Tx, CommitDelete(t) PROVE CountInv'
  <2>1. Committed(t, {ObjectOf(t)} \ {Null})
    BY <1>7 DEF CommitDelete
  <2>2. ObjectOf(t) = aliases[tx[t].slug].object /\ tx[t].slug \in Slug
    BY <1>7, DeletionIsOne DEF CommitDelete, Method, ObjectOf
  <2>3. {ObjectOf(t)} \ {Null} \in SUBSET Sha
    BY <2>2 DEF Store!IInv, Store!TypeOK, Store!AliasRow
  <2> QED BY <1>1, <1>7, <2>1, <2>3, DeletionMoves, CommittedCounts
<1>8. CASE UNCHANGED vars
  <2>1. UNCHANGED <<aliases, tx>>
    BY <1>8 DEF vars, dbVars
  <2> QED BY <1>1, <2>1, RowsMove, OneStepCounts
<1> QED BY <1>2, <1>3, <1>4, <1>5, <1>6, <1>7, <1>8, ReadsCount, StepIsOf DEF Committing

-----------------------------------------------------------------------------
(* The objects as committed, and as they would be one transaction at a time. *)

ObjectInv == objects \in [Sha -> Store!ObjectRow] /\ ObjectsAgreeUnlessRaced

LEMMA CompletionAgrees ==
    ASSUME Store!IInv, TxInv, ObjectInv, NEW t \in Tx, CommitComplete(t)
    PROVE  ObjectInv'
<1> DEFINE row == [status |-> "ready", ext |-> jobs[tx[t].job].upload.ext, thumb |-> FALSE]
<1>1. PICK x \in Sha : x = ObjectOf(t)
  BY CompletionIsOne
<1>2. row \in Store!ObjectRow
  <2>1. tx[t].job \in JobId /\ jobs[tx[t].job].upload \in Upload
    BY AtItsEnd DEF CommitComplete, Method, At, Settling
  <2>2. PICK e \in Ext : e = jobs[tx[t].job].upload.ext
    BY <2>1, StoreAssumed DEF Store!UploadAssumption
  <2> QED BY <2>2 DEF Store!ObjectRow, Store!ObjectStatus
<1>3. /\ objects' = [objects EXCEPT ![x] = row] /\ ideal' = [ideal EXCEPT ![x] = row]
      /\ raced' = raced \ {x}
  BY <1>1 DEF CommitComplete
<1> HIDE DEF row
<1>4. ideal \in [Sha -> Store!ObjectRow]
  BY DEF Store!IInv, Store!TypeOK
<1> QED BY <1>2, <1>3, <1>4 DEF ObjectInv, ObjectsAgreeUnlessRaced

LEMMA DeletionAgrees ==
    ASSUME Store!IInv, TxInv, CountInv, ObjectInv, NEW t \in Tx, CommitDelete(t)
    PROVE  ObjectInv'
<1>1. PICK s \in Slug : s = tx[t].slug
  BY DeletionIsOne
<1>2. PICK x \in Sha \cup {Null} : x = aliases[s].object
  BY DEF Store!IInv, Store!TypeOK, Store!AliasRow
<1>3. tx[t].method = "delete" /\ tx[t].at = "commit" /\ ObjectOf(t) = x
  BY <1>1, <1>2 DEF CommitDelete, Method, At, ObjectOf
<1>4. /\ tx[t].frees => x # Null
      /\ x \notin tx[t].met => (tx[t].frees <=> Store!FreesObject(s))
  BY <1>1, <1>2, <1>3 DEF CountInv, Counts
<1>5. DB!FreesObject(s) <=> Store!FreesObject(s)
  BY SameRows DEF DB!FreesObject, Store!FreesObject
<1>6. Store!FreesObject(s) => x # Null
  BY <1>2 DEF Store!FreesObject
<1>7. /\ objects' = IF tx[t].frees THEN [objects EXCEPT ![x].status = "deleted"] ELSE objects
      /\ ideal' = IF Store!FreesObject(s) THEN [ideal EXCEPT ![x].status = "deleted"] ELSE ideal
      /\ raced' = raced \cup (tx[t].met \cap {x})
  BY <1>1, <1>3, <1>5 DEF CommitDelete, Deleted
<1>8. ideal \in [Sha -> Store!ObjectRow] /\ objects \in [Sha -> Store!ObjectRow]
  BY DEF Store!IInv, Store!TypeOK, ObjectInv
<1>9. objects' \in [Sha -> Store!ObjectRow]
  BY <1>4, <1>7, <1>8 DEF Store!ObjectRow, Store!ObjectStatus
<1>10. ASSUME NEW y \in Sha, y \notin raced' PROVE objects'[y].status = ideal'[y].status
  <2>1. objects[y].status = ideal[y].status
    BY <1>7, <1>10 DEF ObjectInv, ObjectsAgreeUnlessRaced
  <2>2. CASE y # x
    BY <1>7, <1>8, <2>1, <2>2
  <2>3. CASE y = x
    <3>1. tx[t].frees <=> Store!FreesObject(s)
      BY <1>4, <1>7, <1>10, <2>3
    <3> QED BY <1>7, <1>8, <2>1, <2>3, <3>1 DEF Store!ObjectRow
  <2> QED BY <2>2, <2>3
<1> QED BY <1>9, <1>10 DEF ObjectInv, ObjectsAgreeUnlessRaced

LEMMA StepAgrees ==
    ASSUME Store!IInv, TxInv, CountInv, ObjectInv, [Next]_vars
    PROVE  ObjectInv'
<1>1. ASSUME UNCHANGED <<objects, ideal, raced>> PROVE ObjectInv'
  BY <1>1 DEF ObjectInv, ObjectsAgreeUnlessRaced
<1>2. ASSUME NEW j \in JobId, NEW s \in Slug, NEW o \in Owner, NEW u \in Upload,
             CreateIngestJob(j, o, s, u)
      PROVE  ObjectInv'
  BY <1>1, <1>2 DEF CreateIngestJob, DB!CreateIngestJob
<1>3. ASSUME NEW j \in JobId, ClaimNextProcessingJob(j) PROVE ObjectInv'
  BY <1>1, <1>3 DEF ClaimNextProcessingJob
<1>4. ASSUME NEW t \in Tx, CommitFail(t) \/ CommitRename(t) PROVE ObjectInv'
  BY <1>1, <1>4 DEF CommitFail, CommitRename
<1>5. ASSUME NEW t \in Tx, Call(t) \/ Statement(t) \/ Rollback(t), ~Committing(t)
      PROVE  ObjectInv'
  <2>1. UNCHANGED <<objects, raced>>
    BY <1>5 DEF Call, Statement, Committing, CallForJob, CallForShare, LockJob, UpsertObject,
                Resolve, LockShare, NotFound, Wait, SelectOwned, Insert, UpdateNames,
                CancelJobs, LockEach, Count, FreeObject, Deadlock, Rollback, Continue
  <2> QED BY <1>1, <1>5, <2>1, ReadsChangeNothing DEF dbVars
<1>6. CASE UNCHANGED vars
  BY <1>1, <1>6 DEF vars, dbVars
<1> QED BY <1>2, <1>3, <1>4, <1>5, <1>6, CompletionAgrees, DeletionAgrees, StepIsOf DEF Committing

\* DeleteAlias counts the names that hold its object in one statement and marks
\* the object deleted in a later one, while CompleteProcessingJob and other
\* deletions run: for any number of them and any order of their statements, an
\* object ends as the methods would have left it one at a time, unless another
\* deletion or completion touched it while a deletion of one of its shares was open.
THEOREM ObjectsAgreeInTheEnd == Spec => []ObjectsAgreeUnlessRaced
<1> DEFINE Inv == Store!IInv /\ TxInv /\ CountInv /\ ObjectInv
<1>1. Init => Inv
  <2> SUFFICES ASSUME Init PROVE Inv
    OBVIOUS
  <2>1. Store!IInv /\ TxInv
    BY SameInit, StoreAssumed, Store!InitEstablishes, InitKeeps DEF Init
  <2>2. CountInv
    <3>1. NoTx.method = "none"
      BY DEF NoTx
    <3> QED BY <3>1 DEF Init, CountInv
  <2>3. objects = ideal /\ ideal \in [Sha -> Store!ObjectRow]
    BY <2>1 DEF Init, Store!IInv, Store!TypeOK
  <2> QED BY <2>1, <2>2, <2>3 DEF ObjectInv, ObjectsAgreeUnlessRaced
<1>2. Inv /\ [Next]_vars => Inv'
  BY StepKeeps, StepCounts, StepAgrees
<1>3. Inv => ObjectsAgreeUnlessRaced
  BY DEF ObjectInv
<1> HIDE DEF Inv
<1> QED BY <1>1, <1>2, <1>3, PTL DEF Spec
=============================================================================
