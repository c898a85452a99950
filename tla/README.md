# Verification of b2-share-broker

b2-share-broker publishes files from a Backblaze B2 bucket under names that its
users choose and change.  This directory holds TLA+ models of the parts of it
where several things happen at once, the TLC instances that check them, and
TLAPS proofs of the safety properties that the instances check, all of them, some
under assumptions named in section 4.

Paths such as `metadata.go:386` are relative to `src/internal/broker/`.


## 1. The system

The API and a processor share a PostgreSQL database, a staging volume and a B2
bucket.  `cmd/b2-share-broker` runs the API with the browser's login,
`cmd/b2-share-processor` a second API together with one worker,
`cmd/b2-share-transcoder` one worker alone; each may run in several replicas.

```
 browser  -- app.js, sw.js -->  API (server.go)  --- MetadataStore ---+
 visitor  -- /s/{name} ------>      |    \                            |
                                 staging  \                       PostgreSQL
                                 volume    B2 bucket              (metadata.go)
                                    |      /                          |
                                Processor (transcoder.go) ------------+
```

| Component | State it keeps | Operations | Correct when |
|---|---|---|---|
| Metadata store (`metadata.go`) | tables `aliases`, `processing_jobs`, `objects`, `object_derivatives`, `alias_history` | create, claim, complete and fail a job; rename and delete a share; count an open; mark an object unavailable; lookups | a name leads to one share for good; a share's row says what became of its upload; an object is not dropped under a share that shows it |
| Processing worker (`transcoder.go`) | one job at a time, a work directory | claim, reuse an earlier result, transcode, upload object and thumbnail, complete or fail, clean up | every job is settled, by one worker; a ready share has its bytes; nothing is left behind |
| Share-name API (`server.go`: uploads, `handleShare`) | staged files | upload, rename, delete, status, list | a queued job has its file; deletion removes what only the deleted share showed |
| Public links (`handlePublicShare`) | what browsers remember of permanent redirects | open, media, thumbnail, unfurl | a link shows its own share; redirects stay right and end; opens are counted |
| Object store (`store.go`) | keys, their versions and hide markers | head, put, delete every version | a deleted key has no bytes left |
| Names and keys (`key.go`) | none | digests, object keys, slugs, extensions, file names | a name keeps its extension through renames; a link leads back to its share |
| Login and sessions (`auth.go`) | none in the server; a browser's cookies hold the login under way and the session | start, callback, logout, authenticate, CSRF | one login's answer is not taken for another's; a write is done for the user whose page sent it |
| Web application (`web/assets/app.js`, `web/sw.js`) | the page, a pending slot in IndexedDB, one poll timer | share target, choose, upload, poll, list, rename, delete | an upload is followed to its end; the outcome is shown |
| Configuration and entry points (`config.go`, `cmd/`) | none after start | read, validate, run until SIGTERM | |
| Page templates, chart | none | | |

How they meet:

- The API and any number of processors never talk to each other.  They meet in
  the rows of `processing_jobs` (claimed with `FOR UPDATE SKIP LOCKED`,
  `metadata.go:639`), in the files of the staging volume, and in the keys of
  the bucket.  Every database method is one transaction; what a handler or a
  worker does between two of them is exposed to everybody else, and so is, under
  READ COMMITTED, what a transaction does between two statements on rows that it
  has not locked.
- A job remembers the name its share had at upload; the share may be renamed
  any number of times, or deleted, before the job ends (`metadata.go:544`).
- Two uploads of the same bytes share one row of `objects` and one key in the
  bucket; deletion counts references (`metadata.go:489`).
- The page hears of its jobs by polling with one timer handle
  (`app.js:589-632`).
- All tabs of a browser send the same two cookies, and the answer to any of them
  may replace one; a page keeps the user and the CSRF token it was told
  (`auth.go:409`).
- A rename knows the file's extension only from the name before it
  (`server.go:464`).

What makes it hard: transactions that are atomic but compositions that are
not; deferred clean-up that runs before the outcome is recorded; SIGTERM, which
cancels the context of the very calls that would record it; commits whose
answer is lost; permanent redirects that browsers keep; awaits in the page;
request bodies that end, grow too large or turn out malformed when half of the
work is done; one cookie for many tabs.
`PROJECT.json` lists each hazard at its line with the properties that look for
it.


## 2. The models

```
 ShareLifecycle          what a user is promised of a share (abstract)
       ^  implemented by (LifecycleSpec)
 ShareMetadata           the tables and the methods that change them, one step each
       ^                 ^                  ^
       |                 |                  |  implemented by (CommitsAreAtomic)
       |                 |            StoreTransactions    the methods, by statements
       |                 |  implemented by (StoreSpec)
       |           ShareProcessor     requests, workers, bucket and staging volume
 PublicShare             visitors of links

 ShareNames              names, file names, links: pure functions
       ^  extended by
 UploadRequest           one request from its body to its answer, and renames
       ^  extended by
 BrokerRequests  ------> LoginSession       cookies, tabs, the identity provider

 ObjectVersions          the bucket's versions and DeleteObject, on its own
 ShareApp                the browser application, on its own
 *Proofs                 the theorems about the module they are named after
                         (those about ShareLifecycle are in ShareMetadataProofs,
                         about LoginSession and UploadRequest in BrokerRequestsProofs)
 MC*                     small instances for TLC
```

### ShareMetadata

One action per method of `MetadataStore` that writes, the whole transaction in
one step.  How far that is justified is the subject of `StoreTransactions`.
A table is a total function whose never-inserted rows are
`"absent"`; rows are never removed in the code either, deletion marks them.

| Action | Code |
|---|---|
| `CreateIngestJob` | `metadata.go:579`, `createAliasTx` |
| `ClaimNextProcessingJob` | `metadata.go:628` |
| `CompleteProcessingJob` | `metadata.go:663`, with `upsertObjectTx`, `upsertAliasTx` |
| `FailProcessingJob` | `metadata.go:728` |
| `RenameAlias`, `DeleteAlias` | `metadata.go:386`, `:444` |
| `MarkObjectUnavailable`, `RecordAliasRedirect` | `metadata.go:308`, `:340` |

`FailProcessingJob` sets its share to `failed` whatever state the share is in.
`Next` calls it only for a job that runs or was canceled (`Failable`); that the
worker obeys this is checked in `ShareProcessor` (`StoreSpec`), not assumed.
`now` stands for `created_at`, which orders the queue.  `alias_history` is kept
as the set of replacements, which is what a property asks about.

### ShareLifecycle

The contract, without tables: a name is given out once; a share is pending until
it is settled once; content does not change; only the owner renames and removes.
`ShareMetadata!LifecycleSpec` is this specification under the mapping that
identifies a share with its job and reads its name and state from the row its
job's name leads to.

### ShareProcessor

Upload and delete requests and `ProcessNext`/`processJob` with each call to
the database, the bucket and the staging volume as a step.  A worker's `pc` is
the call it is about to make:

| `pc` | Next call |
|---|---|
| `derive` | `GetDerivedObject` (`reuseDerivative`) |
| `process` | ffmpeg: remux, transcode, or keep a file that is no video |
| `precheck`, `check` | `GetProcessingJob`: does the job still run? |
| `get`, `head`, `mark` | `readyObject`: row, `HeadObject`, `MarkObjectUnavailable` |
| `put`, `putThumb` | `PutObject` of the file, of the thumbnail |
| `undo` | removal of an object uploaded for a job that was canceled |
| `complete` | `CompleteProcessingJob` |
| `cleanup`, `abort` | the deferred removal of the staged file, after success or with an error |
| `fail` | `FailProcessingJob` |

An API request is a record of the staged files and the bucket keys it still has
to remove.  The store is `DB == INSTANCE ShareMetadata`; its actions are called,
none is restated.  The constant `Faults` names what may go wrong: bucket calls
(`head`, `put`, `delete`), database statements (`db`), commits that take effect
but are reported as failed (`commit`), SIGTERM during a job (`stop`), and the
death of either program (`crash`).  ffmpeg is a nondeterministic choice of
result (`Results`) or failure, with or without a thumbnail.  A key is a digest
and an extension, as `GenerateObjectKey` makes it; two contents never have the
same digest.

### PublicShare

A visit of `/s/{name}`: `GetAlias`, then a permanent redirect (which a browser
may remember and follow unasked, or ask for again), a page that turns the
visitor away, or the counting of the open followed by the redirect to B2.
Shares are uploaded, renamed, deleted and completed between any two of these
steps.  `visits` counts what the documentation calls opens.

### ShareApp

One window of the browser application and its service worker, event handlers cut
at their awaits.  `upload[t]` and `poll[j]` are calls of `uploadSelectedFile` and
`pollUploadJob` under way, `deletion[j]` a call of `deleteShare` for the share of
job `j`; `timers` the timers that run, `page.handle` the one the page could
cancel.  With `CallsMayFail`, requests are refused or lose their answer, and
IndexedDB refuses to empty the slot: after an accepted upload the page then stops
without polling the job, and `failed` keeps `UploadIsFollowed` from asking for
its outcome.  The server is seen through what it answers.  Left out:
the list of shares with its search and rename forms (no handler of uploads
decides on them), names, and layout.

### StoreTransactions

The same methods statement by statement, as PostgreSQL runs them under READ
COMMITTED.  A statement sees what is committed when it starts; `SELECT ... FOR
UPDATE`, `UPDATE` and `INSERT` lock the rows they name, wait for rows that
another transaction has locked, and look at them again when they get them.
What a transaction has written is not seen by others, so it is put together in
its record `tx[t]` and takes effect at its commit.  `lock` maps rows to their
holders.  A program may die and a statement fail at any point (`Rollback`);
transactions that wait for each other are resolved by failing one
(`Deadlock`).  `Asked`, `Renamed` and `Reported` bound what is called.

`DB == INSTANCE ShareMetadata WITH objects <- ideal`, where `ideal` is what
the objects would be if every transaction ran alone at its commit, and
`objects` what the statements make of them; `raced` collects the objects on which
they may differ, as a deletion of one of their shares met another deletion or
completion.  `CommitsAreAtomic` says that everything else changes as in
`ShareMetadata`.  Three ways in which the code's statements differ from one step:

- Deletion counts references in one statement and frees the object in a later
  one.  Two deletions of shares of one object may each count the other's name,
  and neither frees the bytes; a deletion that counted none may wait for the
  object's row and free it although a completion of the same bytes has committed
  in between.
- A deletion that had to wait for a completion reads the share's row again but
  keeps the object row it had joined before: it knows no key and frees nothing.
- A claim passes over a locked row (`SKIP LOCKED`), so the queue may be left out
  of order (`OutOfTurn`).

Completion locks job, object and name, deletion name, jobs and object: they can
deadlock, and PostgreSQL fails one of them.

### ShareNames

The functions of `key.go` and the reading of paths, on sequences of characters.
A word that a link or an extension consists of counts as one character; the
lengths the code limits are constants, so that small ones can be explored.
`Panic` is the result of a slice out of bounds.

### UploadRequest

`POST /api/uploads` from the first part of the body: `pc` is `next`
(`NextPart`) or `copy` (the copy into the temporary file).  The body is a
sequence of file, name and other parts, any of which may be too large or torn.
Each exit gives an answer and what it removes (`Refuse`); a panic or a crash
(`End`) removes nothing.  What the database says (accepted, name taken, error) is
a choice here.  `share` is the share of the last upload, which `Rename`
(`PATCH`) gives other names.  Requests have ids of their own and share nothing
before `CreateIngestJob`, so one at a time is followed.

Two things that the code does and no property forbids: a typed name that
cannot be cut (160 characters or more, an ending longer than 32) panics after
the file was staged (`server.go:315`), and nothing removes it (`abandoned`); and a
file part that ends early is answered with 500 where `docs/api.md:145` has 400
for bodies that cannot be parsed.

### LoginSession

A browser has one cookie for the login under way and one for the session; `tab`
is where a tab is (on a page, at the provider, at the callback, or with the answer
on its way), `page` the session it was told.  A login is named by what is drawn for it
(state, nonce, verifier), a session by its login.  Callback addresses may be
opened again, later, in another tab or browser; answers arrive in any order;
`Tick` lets logins and sessions expire.  The provider's error answer leaves the
cookie as it is, every other answer of the callback clears whatever cookie is
there when it arrives.  Signatures and the provider are trusted; `return_to` is
left out.

### BrokerRequests

The composition: writes are those of `UploadRequest`, in the name that
`LoginSession` finds for the request: a bearer token's user, or the
session's if the page's token is its own.  `scene` bounds who is there in a
behaviour; see Bounds.

### ObjectVersions

An entry of the bucket is a version or a hide marker with the number of its
writing.  A listing has the keys in order and the newest entry of a key first, and
comes in pages of one to `PageLimit` entries; the next page starts below the last
entry of the one before, in the bucket as it is by then.  `DeleteObject` (`walk`)
removes a page's versions, then its markers, one call each; a call that fails
ends it, and may have removed its entry all the same.  The program writes no
markers: `Hide` is another tool's deletion by key alone, for whose sake
`DeleteObject` is what it is.  `ShareProcessor` takes a deletion as one step, which
`GoneMeansRemoved` justifies up to uploads of the same key meanwhile, and those
may come after the deletion there too.  A deletion that fails halfway leaves the
older versions, the newest of which is then what links show; since keys are
digests, its bytes are the same.

### Mistakes

Definitions introduced by "Mistake:" in a comment are not part of a model.  They
are plausible errors in the definition they precede (a rename that updates only
one row, a claim that does not leave running jobs out); each property of a
passing run is known to fail when one of them takes that definition's place.
`PROJECT.json` pairs them.


## 3. What is checked

### Runs in which everything holds

| Run | Question | Answer |
|---|---|---|
| `metadata` | Do the tables stay consistent, whatever order the methods run in? | Retired names redirect in one hop (`RedirectsFlat`), uploads never get behind each other's names and no share loses its job (`SharesAndJobsPair`), rows say what became of uploads (`StatusesAgree`), shared objects survive deletions (`LiveShareKeepsObject`), no name is re-pointed (`NoRebinding`, `NamesKeepTheirShare`), counts and content survive renames, and the tables implement `ShareLifecycle`. |
| `processor_progress` | Without faults, does the work get done? | Every upload settles; running jobs are always in a worker's hands; staged files go; the bytes of a deleted ready share go, thumbnail included; what is left in the bucket belongs to a canceled job. |
| `processor_interrupted` | With failing calls, SIGTERM and crashes, and the same bytes uploaded twice? | Two workers never hold one job, a queued job has its file, and the store's methods are only called in states they were written for. |
| `processor_lost_commits` | And when commits are reported as failed? | A finished job keeps its result; unless two uploads carry the same bytes, a ready share has its bytes and thumbnail in the bucket. |
| `public_share` | Does a link show its own share? | By whatever old name, and through whatever remembered redirects: yes.  Redirects never lead in a circle.  No open is counted that should not be. |
| `share_app` | Is one upload followed to its end? | It is polled by one chain, polling ends for every outcome, and the outcome is shown, unless a request fails or the user goes on to another file. |
| `broker_requests` | Are users and uploads kept apart, and does every request end as it should? | A session comes from a login of that browser (`SessionIsOfTheBrowsersLogin`); only another login spoils a login that comes back in time (`UndisturbedLoginSucceeds`); a write is done for the user its page shows (`WritesAreOfThePage`).  Whatever is wrong with a body, in whatever order its parts come, no file stays behind without a job (`FilesHaveTheirJobs`) and the answer tells why (`AnswersTellWhy`); names can only panic for a long ending (`OnlyLongEndingsPanic`).  Over chains of renames a name keeps its file's extension (`NameKeepsExtension`) and can be typed again as shown (`ShownNameIsStable`); links lead back (`LinksLeadBack`). |
| `store_transactions` | Is it right to take the store's methods as one step each? | For names, jobs and their shares: yes, in the order of the commits (`CommitsAreAtomic`).  For objects: unless deletions of one object meet (`ObjectsAgreeUnlessRaced`).  No method waits forever (`EveryMethodEnds`). |
| `object_versions` | Does deletion remove every version, as `DeleteObject` says? | What was there when it began, yes, while uploads and another deletion change the listing between its pages (`GoneMeansRemoved`); without showing hidden bytes again, unless the listing has a further page (`OnlyLongListsUncover`); and it ends (`DeletionsEnd`). |

### Runs that show where code and documentation differ

Each has the smallest instance that shows it, and no faults unless named.

| Run | Documentation | What the code does |
|---|---|---|
| `bytes_of_duplicates` | operations.md:202: bytes are removed "only when no active current alias references the object" | References are counted in the transaction, bytes removed after it.  A worker that had found the object ready completes a second share with it in between; the share is shown as ready and has no bytes. |
| `interrupted_job` | operations.md:76: uploads "remain there until completed, failed, or deleted" | On SIGTERM the deferred removal deletes the staged file, and the failure cannot be recorded on the canceled context: the job stays `running` without its file. |
| `upload_unfollowed` | user-guide.md:16: "The page polls the processing job and updates its status" | The page keeps one timer handle.  With two jobs polled, the later handle overwrites the earlier; when the earlier timer fires it clears the later job's, whose outcome is never shown. |

Five more such places are no runs.  A share deleted while its video is processed
leaves the thumbnail (the undo removes the object alone, `transcoder.go:350`), or
all of it when the deletion falls between the last status check and completion
(README.md:57: "Complete deletion removes every B2 object version ...");
`OrphansAreOfCanceledJobs` says that nothing else leaves bytes as long as no
call fails and no two uploads have bytes in common.  An open that is counted
while its share is renamed is counted on the retired row, after the counter was
copied (`server.go:164`; docs/api.md:282: "Regular ready requests count as opens").  And
under READ COMMITTED, two deletions of shares of one object may leave its bytes
behind (README.md:57), or a deletion may free bytes that a completion has just
referred to (docs/operations.md:202); `ObjectsAgreeUnlessRaced` holds precisely
because `raced` names those cases.  In the page, an answered rename empties the
state of its form and draws the page only when the list was loaded
(`app.js:437`): a form that is open until then, perhaps another share's, can be
saved, and asks for the name `share` (user-guide.md:76: "enter the replacement,
and save it").  And the list is the answer that arrives last (`app.js:161`): one
that was served before a deletion brings the deleted share back until the next
load (user-guide.md:67: "contains only current names").

### Bounds

- *Three names* are a chain of two renames: the shortest in which a name retired
  first must be carried along by a second rename.  With two uploads they are
  also two shares, one of them renamed.  `processor_progress` and the violations
  found in `ShareProcessor` use two: a share and its next name, or two shares.
- *Two jobs, two owners, two digests* (three where a video becomes another
  file): every property relates at most two shares; a third of the same object
  changes no reference count from "some" to "none".
- *`RedirectLimit`* is 100 in the code and 3 or 2 here.  Redirects are flat
  (`RedirectsFlat`, proved for every number of names), so one hop is all that is
  ever followed, and 2 suffices.
- *`MaxOpens` = 1* tells counted from lost.  `ShareProcessor` counts none: no
  step of it reads the counter.
- *Two workers and two requests*; each property names at most two actors, and a
  third of either kind adds no step another does not have.  One worker and one or
  two requests are enough for the violations.
- *One visitor*: visits meet only in the counter, which is one atomic update,
  and in the remembered redirects, which outlive a visit.  Two jobs and three
  names let a name be asked for before, during and after its rename.
- *One job, two files, two calls of `uploadSelectedFile`* in `share_app`; two
  jobs in `upload_unfollowed`.
- *Two open transactions* in `store_transactions`, on two uploads of the same
  bytes and three names: each race and each deadlock of these methods is between
  two.  A rename to a new name and one to a taken name, completions of both jobs
  and a failure of one, deletions of any share.  Nothing is bounded in how often
  a transaction is begun, rolled back and begun again.
- *Three scenes* in `broker_requests`.  API clients upload any body and rename to
  anything; nobody signs in, as bearer tokens need no session.  Pages of one
  browser, two tabs and two logins, sign in and out and upload once (`OneBrowser`,
  `OnePageUpload`).  Tabs of two browsers sign in and out and open each other's
  callback addresses, without uploads.  What a body does to an upload does not
  depend on who sent it, nor cookies on uploads, so no case lies between the
  scenes.
- *Bodies* have up to three parts out of nine kinds that include every defect and
  both sides of every limit; longer bodies repeat a part that was refused or
  skipped.  *Names* are all of up to three characters over a letter, a dot and a
  dash, of length seven (one more than a sanitized name may have) over a letter
  and a dot, and pairs with separators and dropped characters; the limits are
  small in the code's proportions (an ending that may be kept is shorter than the
  limit at which it no longer is, and so on, `NamesAssumption`).
- *Two keys, one the beginning of the other, two deletions, three writes and pages
  of two* in `object_versions`: a key with an entry on a second page, a page
  full of another key's entries, and a hidden version are all among them.
- *Time* is 0 or 1 with lifetimes of 0: a login or a session is valid or has
  expired.
- *Equal and different contents*: `UploadOf` is the same video for every job in
  `processor_interrupted` and `bytes_of_duplicates`, a video and a plain file in
  the others.
- *Symmetry* permutes names, workers, requests and (with equal uploads) jobs, and
  is not used in runs with liveness properties.  Deadlock is not checked: the
  system stops when names and jobs, which are never used again, run out.

### Fairness

`ShareProcessor!FairSpec` has weak fairness of each worker's next step and of
each request's.  `Run` polls the queue for as long as the program lives, and
a handler runs to its end; neither waits for anything but its own calls.  What
is assumed is that a call to the database, the bucket or ffmpeg returns; the code
bounds none of them in time.  Fairness is used only without faults: with SIGTERM
or a crash the code makes no promise (a job left running stays so, as
docs/operations.md says).  Users are never forced to act.

`StoreTransactions!FairSpec` has strong fairness of each transaction's next
statement: PostgreSQL queues those that wait for a row, so one that can get it
again and again gets it, and it resolves deadlocks.  That a method is called is not
assumed.

`ObjectVersions!FairSpec` has weak fairness of each deletion's next page or
removal: what it asks of B2 is answered, unless it fails.

`ShareApp!FairSpec` has weak fairness of the steps of polling, of the answer to
an expired session, and of the server's progress on jobs, which is what
`EveryUploadSettles` shows of it.  Nothing is asked of the user, of uploads or
of failures.


## 4. What is proved

The theorems hold for every value of the constants.  They rest on the named
assumptions of the modules, which TLC evaluates on the instances:

- the store (`ShareMetadata`, repeated as `StoreAssumption` where it is
  instantiated): an upload is a digest, a profile and an extension
  (`UploadAssumption`), `Null` is no name, user, digest, extension or upload
  (`NullAssumption`: `''` and `NULL` are none of these), `RedirectLimit` is a
  number above 1 (`LimitAssumption`), `MaxOpens` a number (`OpensAssumption`);
- `ShareNames`: the words that links and defaults are made of are letters,
  separators are not, and the limits stand to each other as the code's do
  (`NamesAssumption`);
- `UploadRequest`: a form's texts and typed names are sequences, and the extension
  that a content type gives is one that `normalizeExtension` made, as
  `ExtensionFor` has it (`key.go:99-125`), or the video's (`FormAssumption`);
- `StoreTransactions` and `ShareApp`: `Null` is no transaction, file or job
  (`LockAssumption`, `AppAssumption`), and what is asked for is of the right type
  (`InputAssumption`);
- types of the constants (`LoginAssumption`, `PageAssumption`,
  `ProcessorAssumption`, `KeyAssumption`: keys are numbered in listing order, and
  a key begins with itself; `PageAssumption` of `ObjectVersions`);
- finitely many visitors (`VisitorAssumption`), as opens are counted.

| Theorem | Property |
|---|---|
| `Invariance` | `IInv`, the conjunction of the invariants below |
| `TypeCorrect` | `TypeOK`, which no run checks |
| `RedirectsStayFlat` | `RedirectsFlat` |
| `SharesAndJobsStayPaired` | `SharesAndJobsPair` |
| `StatusesAlwaysAgree` | `StatusesAgree` |
| `LiveSharesKeepObjects` | `LiveShareKeepsObject` |
| `NothingIsRebound` | `NoRebinding` |
| `NamesStayWithTheirShare` | `NamesKeepTheirShare` |
| `CountsAndContentStay` | `SharesKeepCountAndContent` |
| `FinishedJobsNeverChange` | `FinishedJobsStay`, which a run checks in `ShareProcessor` |
| `StoreImplementsLifecycle` | `LifecycleSpec`: `ShareMetadata` implements `ShareLifecycle` |
| `ServiceUsesTheStore` | `StoreSpec`: `ShareProcessor` implements `ShareMetadata` |
| `WorkersAlwaysKeepApart` | `WorkersKeepApart` |
| `QueuedJobsFindTheirFiles` | `StagedWhileQueued` |
| `ServiceTypesCorrect` | `ShareProcessor!TypeOK`, which no run checks |
| `FinishedJobsStayInService` | `ShareProcessor!FinishedJobsStay` |
| `NothingIsLeftStaged` | `NoStagedLeftovers`, if neither program dies |
| `RunningJobsStayHeld` | `RunningJobsAreHeld`, if the processor is not stopped and the database answers |
| `ReadySharesHaveBytes` | `ReadyShareHasBytes`, if no two uploads have bytes in common |
| `OrphansComeOfCancellation` | `OrphansAreOfCanceledJobs`, if writes are answered and no two uploads have bytes in common |
| `TransactionsInvariant` | `TxInv` of `StoreTransactionsProofs` |
| `TransactionsAreAtomic` | `CommitsAreAtomic`: `StoreTransactions` implements `ShareMetadata` but for objects |
| `ObjectsAgreeInTheEnd` | `ObjectsAgreeUnlessRaced` |
| `LinksShowTheirShares` | `LinkShowsItsShare` |
| `RedirectsStayRight`, `RedirectsComeToAnEnd` | `RedirectsArePermanent`, `RedirectsEnd` |
| `CountsAreHonest` | `CountIsHonest` |
| `LinkTypesCorrect` | `PublicShare!TypeOK`, which no run checks |
| `SessionsBelongToTheBrowsersLogin` | `SessionIsOfTheBrowsersLogin` |
| `UndisturbedLoginsSucceed` | `UndisturbedLoginSucceeds` |
| `LoginTypeCorrect` | `LoginTypeOK`, which no run checks |
| `FilesBelong` | `FilesHaveTheirJobs` |
| `WritesKeepToThePage`, `SessionsBelongInBroker`, `FilesBelongInBroker` | `WritesAreOfThePage`, and the two above, in `BrokerRequests` |
| `AnswersHaveReasons` | `AnswersTellWhy` |
| `PanicsAreOfLongEndings` | `OnlyLongEndingsPanic` |
| `NamesKeepExtensions` | `NameKeepsExtension` |
| `LinksLead` | `LinksLeadBack` |
| `ShownNamesAreStable` | `ShownNameIsStable` |
| `PollsOnce` | `OneChainPerJob` |
| `FollowedOneAtATime` | `UploadIsFollowed`, while the page works on one job at a time |
| `VersionsInvariant` | `IInv` of `ObjectVersionsProofs` |
| `GoneKeysAreRemoved` | `GoneMeansRemoved` |
| `PrefixCostsNoOther` | `OthersAreKept`, which no run checks |
| `MarkersGoLast` | `OnlyLongListsUncover` |

### The store

None of the invariants is inductive alone; together they are, with nothing
added.  The argument, in the order of the file:

1. *Current names.*  By `RedirectsFlat` a name in the table leads in at most one
   hop to its current name, of the same owner and visibility (`RootIsCurrent`),
   `Resolves` finds that one and no other (`ResolvesToRoot`), and a free name is
   nobody's target (`FreeNameIsUnused`).  So a new row disturbs no old one.
2. *Rename and delete* act on the family of a name: exactly the names whose
   current name it is.  Its job is in the family by `SharesAndJobsPair`, which is
   why `CanceledBy` finds it under whatever name it is recorded.
3. *Completion* settles the share its job pairs with, and by `StatusesAgree` a
   running job's share is visible, pending and without object: nothing is replaced,
   so `NoRebinding`.
4. Each action has a lemma that it keeps `IInv`, one step per conjunct.
5. The action properties follow from `Carried`, which says what any step does
   to a name and its current name, shown for each action from `IInv`.
6. *Refinement.*  The mapping chooses a name's job; by `SharesAndJobsPair` there
   is exactly one (`ShareIsJob`), and by `Carried` it stays the same
   (`NameLeadsOn`).  Then each method is matched with a step of `ShareLifecycle`:
   claims, marks and counted opens with a stutter, a failure report with
   `GiveUp` for a running job and with a stutter for a canceled one, whose share
   `Resolves` no longer finds.

### Its methods as transactions

`TransactionsAreAtomic` shows that what a transaction read in earlier statements
is still so when it commits, although other transactions have committed since.
`Mine(t)` says what it holds and knows at each statement:

- A completion or failure has locked its job's row, and the name it works on is one
  of that job's share.  Which name is current may change under it until it has
  locked that one as well; that the names of a share stay together, whoever renames
  it, is `Carried` of the store.
- A rename or deletion has locked the name it selected, which therefore stays
  current, then the new name, the family, and the jobs to cancel.  Families and
  jobs to cancel can only shrink under it (`FamilyOnlyShrinks`,
  `CanceledOnlyShrink`): others add names to their own shares alone
  (`NamesStayApart`).  So whatever is in the family at the commit was locked.

`OthersOf(t)` is what a step of `t` leaves to every other transaction: its locks,
its record and the rows it has locked.  A statement that commits nothing is a
stutter of the store, one that commits is one method, and for each the store's own
lemmas say that its invariants hold afterwards.

`ObjectsAgreeInTheEnd` adds `CountInv`: what a deletion knows of its object
(whether it has one, whether to free it) is what `DeleteAlias` would decide now,
unless the object is in `met`.  `ObjectsMove` says which objects a commit can touch
for others: those it gives to a name, takes from one, or frees.

### The service around it

`ServiceUsesTheStore` and `QueuedJobsFindTheirFiles` assume `CommitsAreHeard`
(`"commit" \notin Faults`).  Without it they are false: an upload whose commit
is reported as failed loses its file while its job waits, and a worker reports
the failure of a job it has completed.  `FinishedJobsStayInService` needs no such
assumption; it follows from the methods alone (`JobsStep`), because a failure report
leaves finished jobs alone.  All other faults are allowed.

`ServiceInv` adds three parts to the store's invariants and the proved ones:

- `WorkersAtWork`: a worker's job was claimed, and still runs or was canceled
  while it works on it.  With `WorkersKeepApart` it follows that the job a worker
  completes or fails is in a state in which the store expects that, which is what
  makes a step of the service one of `ShareMetadata!Next`.
- `FilesInHand`: a request that staged a file has a job id nobody else knows and
  the file is there; what a deletion removes belongs to canceled jobs.
- `UploadsKeepApart`: two requests under way have different ids.  With it, no
  request removes the file another one is about to queue (`StagedWhileQueued`).

A step is local to a worker (`WorkerMoves`), local to a request (`RequestMoves`),
or calls the store; those have a lemma each.  The keys of a deletion are never
empty by `ObjectsHaveKeys` and `LiveShareKeepsObject` of the store
(`FreedAreKeys`).

The other theorems about the service each have the weakest assumption on faults
that TLC found them to hold under:

- `NothingIsLeftStaged` (`TidyInv`) assumes that nobody dies: a process that does
  leaves the file it was about to remove, and a claim whose commit goes unheard
  leaves a running job with its file and no worker.  A worker has removed the file
  before it reports a failure (`RemovedBeforeFailing`), so the file of a job that
  is over is in the hands of its worker or of the request that staged it.
- `RunningJobsStayHeld` (`HeldInv`) assumes that the processor is neither stopped
  nor killed and that its calls to the database are answered: a claim whose answer
  is lost, or a failure that cannot be recorded, leaves a job running for good.
  `DoneBeforeCleanup` says a worker cleans up only what is over.
- `WorkersAlwaysKeepApart` and `ServiceTypesCorrect` (`AnyFaultInv`) assume
  nothing about faults.  `StoreSpec` is not available then, so `AnyFaultInv` has
  its own account of a worker's step (`MovesOn`) and of the rows it may meet.
- `ReadySharesHaveBytes` (`BytesInv`) bears every fault but assumes that no two
  uploads turn into the same bytes (`DistinctContents`); the run
  `bytes_of_duplicates` shows that it is false otherwise.  A row of an object is
  left by one completed job (`RowsAreOfCompleted`), whose worker uploaded its key
  before; nobody else works on these bytes, so nobody takes them back, and what a
  deletion purges no share refers to any more (`PurgesUnused`).
- `OrphansComeOfCancellation` (`OrphanInv`) assumes that as well, and that every
  write is carried out and heard of; `HeadObject` may fail.  Each key in the bucket
  is referred to, of a canceled job, about to be purged, or in a worker's hands
  (`KeysExplained`).  When nobody is at work, the first two are left.

### Visitors

`LinkInv` relates a visit, which looks at the tables now and then, to what they
are by now: the name asked for stays one of the share's (`VisitsStay`), what was
found is the share's content whatever it is called (`FoundIsContent`), and
redirects that are remembered are of retired names of one share
(`RememberedRetired`).  All three survive the steps of others by `Carried`, the
lemma about what any step of the store leaves in place.  Redirects end because a
new one leads to a current name, from which no remembered one leads: those lead
from retired names, which stay retired (`RetiredStays`).  `CountInv` counts, for
each share, the visits that are counted and not yet answered.

### The page

`AppInv`: the job of an upload under way is known to the server, and to no other
upload, timer or request of the page, until polling starts; so a job gets one chain
of timers and requests (`PollsOnce`), whatever else the page does.  That the
outcome is shown needs more: `clearProcessingPoll` clears the one timer whose
handle the page has, and only if the page works on one job at a time
(`OneAtATime`) is that the timer of the job it is about.  Then the last upload is
worked on until its outcome is shown (`LastIsFollowed`).  The run
`upload_unfollowed` shows that the assumption is needed, and that it can fail: the
code does nothing to ensure it.  In `share_app` it holds, as there is one job.

### Names and uploads

The library's induction theorems cannot be used with the installed provers, so
`ShareNamesProofs` has its own: a set that has 0 and with each number below `n`
the next has all of them (`UpTo`), since a set of numbers has a least one
(`LeastNumber`), since finite sets are well-founded under inclusion
(`MinimalFinite`).  By it each fold has the
function that the library's recursive definition chooses (`Iterates`), and
`JoinsOneByOne`, `KeptOneByOne` and `PutOneByOne` give the folds of `ShareNames`
as loops that take one character at a time.  What a loop keeps is then shown
from one character to the next:

- Sanitized names are clean (`Clean`): allowed characters, no run of dashes and
  underscores.  Cutting and trimming keep that (`CleanPieces`), and cleaning leaves
  clean names alone; from that, shown names are stable.
- No dot gets more characters behind it than a dot had before (`EndsNoLonger`),
  by any of the steps of `SanitizeFilename`.  So an ending too long to be kept was
  in the name that came with the request.
- A share's name is a clean part without separators at its edges and an extension,
  within the limit (`WellNamed`).  Uploads make such names, and renames keep them
  and their extension.  They contain no slash, so links lead back.

In `UploadRequest`, `AnswerInv` says of a form read so far that its parts are
right, the file and name kept are the only ones, and what was read is not too
large; an answer gives away what was wrong with the next part.

### Requests and logins

`UploadInv`: at each call of the handler, exactly the temporary or the final
file of its job is on the volume.  `LoginInv`: the invariant needs the past of a
login, since the server keeps none.  That its code was spent ends it
(`SpentEnds`), an ended login cannot be answered again (`EndsOnce`: its code, its
time or its cookie is gone), one that lost its cookie lost it to another
(`LostToAnother`), and an answer that will clear a cookie ended its own login
(`ClearsAnEndedLogin`), so when it clears a newer login's, it is the older one that
disturbed it.  The composition is a step of one of the two at a time
(`LoginStep`), so both invariants hold in it, and a write is authorized in the
very step that takes its user from the cookie.

### The bucket

A deletion covers what was there before it (`Covers`): each such entry is on the
page at hand or below the last one listed, with more pages to come.  A page is the
beginning of what is left of the listing, so what it leaves out lies below its
last entry; uploads come above all that is looked for, and other deletions only
remove.  `Deep` says the same of what lies below an entry of the page, which is
why on a last page no version is left when its marker goes.  `KeyAssumption` is
used for the order to be transitive and for a key to be found under itself.


## 5. What stays with TLC, and what is not modelled

Only model-checked: liveness (`EveryUploadSettles`, `DeletedBytesGo`,
`PollingEnds`, `EveryMethodEnds`, `DeletionsEnd`), as proofs under fairness need
`ENABLED`, which is beyond the prover.

Not modelled:

- `UpsertAlias`, which nothing calls; the list query's order and limit; the
  migrations.
- The same bytes uploaded under different extensions: the row of the object is
  overwritten and the older key stays in the bucket (`metadata.go:770`).
- In the page, the list of shares with its search, and the form that renames one.
- `return_to`, signatures, the provider's own state; configuration, CORS and
  layout; the chart and the templates.


## 6. Plan

In order:

1. The same bytes under different extensions, which needs `UploadRequest`'s
   extensions in `ShareProcessor`.
2. The list of shares in `ShareApp`, with answers out of order, and the rename
   form.
3. A weaker assumption for `FollowedOneAtATime`: only some orders of two jobs'
   answers lose an outcome.
