----------------------------- MODULE PublicShare -----------------------------
(***************************************************************************)
(* Public links (handlePublicShare in internal/broker/server.go): a        *)
(* visitor opens /s/{name} while the owner renames and deletes shares and  *)
(* the processor completes them.  A visit reads the name's row in one      *)
(* statement, counts the open in another and answers with a redirect to    *)
(* B2; a name that was renamed answers with a permanent redirect to the    *)
(* current one, which the visitor's browser may remember for good.         *)
(***************************************************************************)
EXTENDS Naturals, FiniteSets

CONSTANTS
    Slug, Owner, JobId, Sha, Ext, Upload, Null, RedirectLimit, MaxOpens,
    Visitor,
    CountMayFail   \* whether RecordAliasRedirect may return an error

ASSUME VisitorAssumption == IsFiniteSet(Visitor) /\ CountMayFail \in BOOLEAN

VARIABLES
    aliases, jobs, objects, derivatives, history, now,  \* the database
    visitor,      \* [Visitor -> the visit under way]
    remembered,   \* 308 answers browsers have seen: <<old name, new name>>
    visits        \* [JobId -> Nat]: answers that should count as opens, per share

DB == INSTANCE ShareMetadata

ASSUME StoreAssumption ==
    DB!UploadAssumption /\ DB!NullAssumption /\ DB!LimitAssumption /\ DB!OpensAssumption

dbVars == <<aliases, jobs, objects, derivatives, history, now>>
vars == <<dbVars, visitor, remembered, visits>>

\* What is asked for: the link or its /media by a person or an embed, the link by
\* an unfurl agent, or its /thumbnail.
Kind == {"open", "unfurl", "thumbnail"}

\* first is the name on the link, name the one asked for now, object what the
\* row that was read shows.
Visit == [pc : {"idle", "lookup", "record", "answer"}, kind : Kind,
          first : Slug \cup {Null}, name : Slug \cup {Null}, object : Sha \cup {Null}]

NoVisit == [pc |-> "idle", kind |-> "open", first |-> Null, name |-> Null, object |-> Null]

Init ==
    /\ DB!Init
    /\ visitor = [v \in Visitor |-> NoVisit]
    /\ remembered = {}
    /\ visits = [j \in JobId |-> 0]

Shares(s) == {j \in JobId : DB!JobExists(j) /\ DB!JobRoot(j) = DB!Root(s)}

\* What the docs call an open: link redirects and embed fetches.
IsOpen(k) == k = "open"

-----------------------------------------------------------------------------

\* Bound: MaxOpens visits that count per share.
FollowLink(v, s, k) ==
    /\ visitor[v].pc = "idle"
    /\ \A j \in Shares(s) : visits[j] < MaxOpens
    /\ visitor' = [visitor EXCEPT ![v] = [NoVisit EXCEPT !.pc = "lookup", !.kind = k,
                                                         !.first = s, !.name = s]]
    /\ UNCHANGED <<dbVars, remembered, visits>>

\* A browser that remembers a permanent redirect may follow it without asking
\* again; one that forgot it, or another one, asks.
FollowRemembered(v, t) ==
    /\ visitor[v].pc = "lookup"
    /\ <<visitor[v].name, t>> \in remembered
    /\ visitor' = [visitor EXCEPT ![v].name = t]
    /\ UNCHANGED <<dbVars, remembered, visits>>

Asks(v) == visitor[v].pc = "lookup"

\* GetAlias found a retired name.
Redirected(v) ==
    /\ Asks(v)
    /\ LET s == visitor[v].name IN
       /\ DB!Visible(s) /\ ~DB!IsRoot(s)
       /\ visitor' = [visitor EXCEPT ![v].name = aliases[s].redirectTo]
       /\ remembered' = remembered \cup {<<s, aliases[s].redirectTo>>}
    /\ UNCHANGED <<dbVars, visits>>

\* The share is there to be shown: a thumbnail only where there is one.
Showable(s, k) ==
    /\ DB!Live(s)
    /\ aliases[s].status = "ready" /\ aliases[s].object # Null
    /\ k = "thumbnail" => objects[aliases[s].object].thumb

\* 404, 202 "being prepared" or 503 "could not be prepared"; an unfurl agent
\* gets a page of its own and no bytes.
TurnedAway(v) ==
    /\ Asks(v)
    /\ LET s == visitor[v].name IN
       /\ ~(DB!Visible(s) /\ ~DB!IsRoot(s))
       /\ Showable(s, visitor[v].kind) => visitor[v].kind = "unfurl"
    /\ visitor' = [visitor EXCEPT ![v] = NoVisit]
    /\ UNCHANGED <<dbVars, remembered, visits>>

\* Fetches by people and by embeds count; a thumbnail belongs to a counted unfurl.
\* Mistake: thumbnails count too.
CountsAll(k) == k \in Kind
Counts(k) == k # "thumbnail"

Found(v) ==
    /\ Asks(v)
    /\ visitor[v].kind # "unfurl"
    /\ LET s == visitor[v].name  k == visitor[v].kind IN
       /\ Showable(s, k)
       /\ visitor' = [visitor EXCEPT ![v].pc = IF Counts(k) THEN "record" ELSE "answer",
                                     ![v].object = aliases[s].object]
    /\ UNCHANGED <<dbVars, remembered, visits>>

\* RecordAliasRedirect, on the name that was read; an error is only logged.
Record(v) ==
    /\ visitor[v].pc = "record"
    /\ \/ DB!RecordAliasRedirect(visitor[v].name)
       \/ CountMayFail /\ UNCHANGED dbVars
    /\ visitor' = [visitor EXCEPT ![v].pc = "answer"]
    /\ UNCHANGED <<remembered, visits>>

\* writeShareRedirect: the visitor is sent to the object.
Answer(v) ==
    /\ visitor[v].pc = "answer"
    /\ visits' = [j \in JobId |->
           IF IsOpen(visitor[v].kind) /\ j \in Shares(visitor[v].first)
             THEN visits[j] + 1 ELSE visits[j]]
    /\ visitor' = [visitor EXCEPT ![v] = NoVisit]
    /\ UNCHANGED <<dbVars, remembered>>

\* What happens to the shares meanwhile.
Manage ==
    /\ \/ \E j \in JobId, o \in Owner, s \in Slug, u \in Upload : DB!CreateIngestJob(j, o, s, u)
       \/ \E j \in JobId : DB!ClaimNextProcessingJob(j)
       \/ \E j \in JobId, x \in Sha, e \in Ext, thumb \in BOOLEAN :
             DB!CompleteProcessingJob(j, x, e, thumb)
       \/ \E j \in JobId : DB!Failable(j) /\ DB!FailProcessingJob(j)
       \/ \E s, new \in Slug, o \in Owner : DB!RenameAlias(s, o, new)
       \/ \E s \in Slug, o \in Owner : DB!DeleteAlias(s, o)
    /\ UNCHANGED <<visitor, remembered, visits>>

Serve(v) ==
    \/ \E t \in Slug : FollowRemembered(v, t)
    \/ Redirected(v) \/ TurnedAway(v) \/ Found(v) \/ Record(v) \/ Answer(v)

Next ==
    \/ \E v \in Visitor, s \in Slug, k \in Kind : FollowLink(v, s, k)
    \/ \E v \in Visitor : Serve(v)
    \/ Manage

Spec == Init /\ [][Next]_vars

-----------------------------------------------------------------------------
(* Properties. *)

\* A visit is always at a name: no redirect leads to the empty one.
TypeOK ==
    /\ visitor \in [Visitor -> Visit]
    /\ remembered \subseteq Slug \X Slug
    /\ visits \in [JobId -> Nat]

\* A link shows the bytes its share was completed with, whatever was renamed,
\* deleted or uploaded between the click and the answer, and by whatever old
\* names and remembered redirects the visit went.
LinkShowsItsShare ==
    \A v \in Visitor : visitor[v].pc \in {"record", "answer"} =>
        \E j \in Shares(visitor[v].first) : jobs[j].target = visitor[v].object

\* The permanent redirects given out stay right: both names are the same share's.
RedirectsArePermanent ==
    \A r \in remembered : DB!Root(r[1]) = DB!Root(r[2])

\* The count a share shows, carried from name to name, never exceeds the visits
\* that should count.
CountIsHonest ==
    \A j \in JobId : DB!JobExists(j) =>
        aliases[DB!JobRoot(j)].opens <=
            visits[j] + Cardinality({v \in Visitor : /\ visitor[v].pc = "answer"
                                                     /\ IsOpen(visitor[v].kind)
                                                     /\ j \in Shares(visitor[v].first)})

\* Redirects, fresh or remembered by a browser, never lead in a circle.
RedirectsEnd ==
    \A names \in SUBSET Slug : names # {} =>
        \E s \in names : \A t \in names : <<s, t>> \notin remembered
=============================================================================
