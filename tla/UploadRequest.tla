---------------------------- MODULE UploadRequest ----------------------------
(***************************************************************************)
(* POST /api/uploads from its multipart body to its answer, and the share  *)
(* it made under the names it is given afterwards (PATCH /api/shares/):    *)
(* handleCreateUpload, stageMultipartUpload, stageUpload and handleShare   *)
(* in internal/broker/server.go, with the names of ShareNames.             *)
(*                                                                         *)
(* Requests share nothing before CreateIngestJob, every one having an id   *)
(* of its own, so one at a time is followed; pc is the call its handler is *)
(* about to make.  The body is a sequence of parts; a part's size is what  *)
(* arrives of it, and whole says whether the body goes on after that.      *)
(* What becomes of a staged file once its job is in the database is in     *)
(* ShareProcessor.                                                         *)
(***************************************************************************)
EXTENDS ShareNames, FiniteSets

CONSTANTS
    Job,        \* job ids
    Form,       \* request bodies: sequences of parts
    Typed,      \* names that are typed to rename a share
    VideoExt,   \* last parts of file names that looksLikeVideo knows
    MaxUpload,  \* MAX_UPLOAD_BYTES
    Slack,      \* what a body may have beyond it; 16 MiB in the code
    NameMax,    \* 4096: length of a typed name
    Nothing

Kind == {"file", "name", "other"}

\* In place of an answer, after a panic.
Panicked == 1

\* text is a file's name or a typed name, typeExt what the content type says
\* of a file: an extension, or "video".
ASSUME FormAssumption ==
    /\ \A form \in Form : form \in Seq({form[i] : i \in DOMAIN form})
    /\ \A form \in Form : \A i \in DOMAIN form :
          /\ form[i].kind \in Kind /\ form[i].size \in Nat
          /\ form[i].whole \in BOOLEAN
          /\ form[i].kind = "name" => form[i].size = Len(form[i].text)
          /\ form[i].text \in Seq(Range(form[i].text))
          /\ form[i].kind = "file" /\ form[i].typeExt # "video" =>
                /\ form[i].typeExt \in Seq(Range(form[i].typeExt))
                /\ NormalizeExtension(form[i].typeExt) = form[i].typeExt
    /\ \A v \in Typed : v \in Seq(Range(v))
    /\ Nothing \notin UNION {{form[i] : i \in DOMAIN form} : form \in Form}
    /\ MaxUpload \in Nat /\ Slack \in Nat /\ NameMax \in Nat

VARIABLES
    pc,        \* "idle", "next" (NextPart), "copy" (io.Copy into the temporary file), "done"
    asked,     \* the body of the request
    at,        \* how many of its parts were read
    job,       \* its id
    file,      \* the part that was staged
    name,      \* the name part
    answer,    \* the status of the answer; 0 before it or without one
    staging,   \* the staging volume: <<job, "temp">> and <<job, "staged">>
    accepted,  \* jobs in the database
    abandoned, \* jobs whose handler ended without an answer
    share      \* the share of the last upload: its name, its file's extension

uploadVars == <<pc, asked, at, job, file, name, answer, staging, accepted, abandoned, share>>

UploadInit ==
    /\ pc = "idle" /\ asked = <<>> /\ at = 0 /\ job = Nothing
    /\ file = Nothing /\ name = Nothing /\ answer = 0
    /\ staging = {} /\ accepted = {} /\ abandoned = {} /\ share = Nothing

-----------------------------------------------------------------------------

Part == asked[at + 1]

Size(parts) == FoldLeft(LAMBDA n, p : n + p.size, 0, parts)

\* http.MaxBytesReader: the body up to the end of this part.
BodyFits == Size(SubSeq(asked, 1, at + 1)) <= MaxUpload + Slack

\* As much of a name as is read, one byte more than it may have.
NameReadFits == Size(SubSeq(asked, 1, at)) + NameMax + 1 <= MaxUpload + Slack

\* limitedWriter.
\* Mistake: the last byte of the limit is refused.
BelowLimit(size) == size < MaxUpload
WithinLimit(size) == size <= MaxUpload

Video(p) ==
    \/ p.typeExt = "video"
    \/ \E e \in VideoExt : IsSuffix(<<".", e>>, SanitizeFilename(p.text))
FinalExtension(p) == IF Video(p) THEN Mp4 ELSE ExtensionFor(p.text, p.typeExt)

\* The share's name; a blank one is replaced by a random name.
Slug ==
    IF name = Nothing \/ Trim(IF name = Nothing THEN <<>> ELSE name.text, {Blank}) = <<>>
      THEN GenerateRandomAliasSlug(SanitizeFilename(file.text), FinalExtension(file))
      ELSE NormalizeAliasSlug(name.text, FinalExtension(file))

-----------------------------------------------------------------------------

Respond(status) ==
    /\ pc' = "done" /\ answer' = status
    /\ at' = 0 /\ file' = Nothing /\ name' = Nothing
    /\ UNCHANGED <<asked, job>>

\* An error answer; what was staged is removed.
\* Mistake: it is left to whoever finds it.
RefuseOnly(status) ==
    /\ Respond(status)
    /\ UNCHANGED <<staging, accepted, abandoned, share>>
Refuse(status) ==
    /\ Respond(status)
    /\ staging' = staging \ {<<job, "temp">>, <<job, "staged">>}
    /\ UNCHANGED <<accepted, abandoned, share>>

\* The handler ends in the middle, by a panic or with the program: what it
\* staged stays.
End(status) ==
    /\ Respond(status)
    /\ abandoned' = IF \E f \in staging : f[1] = job THEN abandoned \cup {job} ELSE abandoned
    /\ UNCHANGED <<staging, accepted, share>>

BeginUpload(j, form) ==
    /\ pc = "idle"
    /\ j \notin accepted \cup abandoned
    /\ pc' = "next" /\ asked' = form /\ job' = j
    /\ UNCHANGED <<at, file, name, answer, staging, accepted, abandoned, share>>

GoOn ==
    /\ pc' = "next" /\ at' = at + 1
    /\ UNCHANGED <<asked, job, answer, accepted, abandoned, share>>

NextIs(kind) == pc = "next" /\ at < Len(asked) /\ Part.kind = kind

\* case "file": a second one is refused; otherwise MkdirAll and OpenFile.
FilePart ==
    /\ NextIs("file")
    /\ IF file # Nothing THEN Refuse(400)
       ELSE IF SanitizeFilename(Part.text) = Panic THEN End(Panicked)
       ELSE \/ /\ pc' = "copy"
               /\ staging' = staging \cup {<<job, "temp">>}
               /\ UNCHANGED <<asked, at, job, file, name, answer, accepted, abandoned, share>>
            \/ Refuse(500)

\* The copy ends with the part or at the first limit or error; then the file
\* gets its final name.
Copy ==
    /\ pc = "copy"
    /\ \/ ~(WithinLimit(Part.size) /\ BodyFits) /\ Refuse(413)
       \/ Refuse(500)
       \/ /\ WithinLimit(Part.size) /\ BodyFits /\ Part.whole
          /\ staging' = (staging \ {<<job, "temp">>}) \cup {<<job, "staged">>}
          /\ file' = Part
          /\ GoOn /\ UNCHANGED name

\* case "name": a name that is too long is known by its first NameMax + 1 bytes.
NamePart ==
    /\ NextIs("name")
    /\ IF name # Nothing THEN Refuse(400)
       ELSE IF Part.size > NameMax THEN Refuse(IF NameReadFits THEN 400 ELSE 413)
       ELSE IF ~BodyFits THEN Refuse(413)
       ELSE IF ~Part.whole THEN Refuse(400)
       ELSE name' = Part /\ GoOn /\ UNCHANGED <<file, staging>>

OtherPart ==
    /\ NextIs("other")
    /\ IF ~BodyFits THEN Refuse(413)
       ELSE IF ~Part.whole THEN Refuse(400)
       ELSE GoOn /\ UNCHANGED <<file, name, staging>>

\* After the last part: the share's name, CreateIngestJob and its answer.
\* The database may know the name, or fail.
EndOfForm ==
    /\ pc = "next" /\ at = Len(asked)
    /\ IF file = Nothing THEN Refuse(400)
       ELSE IF Slug = Panic THEN End(Panicked)
       ELSE \/ Refuse(409)
            \/ Refuse(500)
            \/ /\ Respond(202)
               /\ accepted' = accepted \cup {job}
               /\ share' = [name |-> Slug, ext |-> FinalExtension(file)]
               /\ UNCHANGED <<staging, abandoned>>

Crash == pc \in {"next", "copy"} /\ End(0)

\* The next request will be looked at.
Forget ==
    /\ pc = "done" /\ pc' = "idle"
    /\ asked' = <<>> /\ job' = Nothing /\ answer' = 0 /\ share' = Nothing
    /\ UNCHANGED <<at, file, name, staging, accepted, abandoned>>

\* PATCH; one that is refused, or panics, changes nothing here.
Rename(v) ==
    /\ pc = "done" /\ share # Nothing
    /\ Trim(v, {Blank}) # <<>>
    /\ LET slug == NormalizeAliasSlug(v, Extension(share.name)) IN
          slug # Panic /\ share' = [share EXCEPT !.name = slug]
    /\ asked' = <<>> /\ answer' = 200
    /\ UNCHANGED <<pc, at, job, file, name, staging, accepted, abandoned>>

UploadStep == FilePart \/ Copy \/ NamePart \/ OtherPart \/ EndOfForm

UploadNext ==
    \/ \E j \in Job, form \in Form : BeginUpload(j, form)
    \/ UploadStep
    \/ Crash
    \/ Forget
    \/ \E v \in Typed : Rename(v)

UploadSpec == UploadInit /\ [][UploadNext]_uploadVars

-----------------------------------------------------------------------------
(* What an upload promises. *)

Staged(j) == {f \in staging : f[1] = j}

UploadTypeOK ==
    /\ pc \in {"idle", "next", "copy", "done"}
    /\ at \in 0 .. Len(asked)
    /\ job \in Job \cup {Nothing}
    /\ answer \in {0, Panicked, 200, 202, 400, 409, 413, 500}
    /\ staging \subseteq Job \X {"temp", "staged"}
    /\ accepted \subseteq Job /\ abandoned \subseteq Job

\* Whatever is wrong with a body, and wherever it ends, no file stays behind an
\* answer without a job that will use it, and no job is accepted without its file:
\* every file belongs to an accepted job, to the request under way, or to one
\* whose handler did not live to answer (the cleanups of stageMultipartUpload,
\* stageUpload and handleCreateUpload).
FilesHaveTheirJobs ==
    /\ \A f \in staging : f[1] \in accepted \cup abandoned \/ (pc \in {"next", "copy"} /\ f[1] = job)
    /\ \A j \in accepted : Staged(j) = {<<j, "staged">>}

TooLarge(form) ==
    \/ \E i \in DOMAIN form : form[i].kind = "file" /\ form[i].size > MaxUpload
    \/ Size(form) > MaxUpload + Slack

Malformed(form) ==
    LET parts(kind) == {i \in DOMAIN form : form[i].kind = kind} IN
    \/ Cardinality(parts("file")) # 1
    \/ Cardinality(parts("name")) > 1
    \/ \E i \in parts("name") : form[i].size > NameMax
    \/ \E i \in DOMAIN form : ~form[i].whole

\* The parts are judged one by one while they stream in, in any order, yet the
\* answer is about the whole form: only a form with one whole file within the
\* limit and at most one name gets to the database, a file of exactly the limit
\* is never too large, and 400 and 413 have their reason (docs/api.md, POST
\* /api/uploads).
AnswersTellWhy ==
    /\ answer \in {202, 409} => ~TooLarge(asked) /\ ~Malformed(asked)
    /\ answer = 413 => TooLarge(asked)
    /\ answer = 400 => Malformed(asked)

\* An upload makes its handler panic only where a name has a dot followed by
\* LongExt characters or more (the slice base[:limit] of SanitizeFilename).
OnlyLongEndingsPanic ==
    answer = Panicked =>
        \E i \in DOMAIN asked :
            /\ asked[i].kind # "other"
            /\ \E k \in DOMAIN asked[i].text :
                  asked[i].text[k] = "." /\ Len(asked[i].text) - k >= LongExt

\* A share's name ends in the extension of its processed file, whatever is typed
\* at upload and in renames, each of which knows the extension only from the name
\* before it (PATCH passes path.Ext of the current name to NormalizeAliasSlug).
NameKeepsExtension ==
    share # Nothing => Extension(share.name) = share.ext /\ Len(share.name) <= AliasMax

\* Every link the service hands out leads back to the share and the variant it
\* was made for, and the API finds the share under the name it shows
\* (SharePageURL and handleShareMediaVariant against sharePathFromPath).
LinksLeadBack ==
    share # Nothing =>
        LET slug == share.name IN
        /\ ReadLink(SharePage(slug)) = <<slug, "page">>
        /\ ReadLink(slug) = <<slug, "page">>
        /\ \A variant \in {"media", "thumbnail"} :
              ReadLink(VariantLink(slug, variant)) = <<slug, variant>>
        /\ ReadShareName(slug) = slug

\* Renaming a share to the name it is shown with changes nothing: normalizing is
\* idempotent on names that SanitizeFilename does not cut.
ShownNameIsStable ==
    share # Nothing /\ Len(share.name) <= SanitizedMax =>
        NormalizeAliasSlug(share.name, Extension(share.name)) = share.name
=============================================================================
