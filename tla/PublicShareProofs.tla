-------------------------- MODULE PublicShareProofs --------------------------
(***************************************************************************)
(* Proofs about PublicShare, for any names, shares and visitors: what the  *)
(* tables promise at every moment (ShareMetadataProofs) is carried over to *)
(* visits and remembered redirects, which look at them now and then.       *)
(***************************************************************************)
EXTENDS PublicShare, FiniteSetTheorems, TLAPS

Store == INSTANCE ShareMetadataProofs

-----------------------------------------------------------------------------
(* Store is the DB of PublicShare, with what is proved about it. *)

LEMMA StoreAssumed ==
    /\ Store!UploadAssumption /\ Store!NullAssumption
    /\ Store!LimitAssumption /\ Store!OpensAssumption
BY StoreAssumption
   DEF DB!UploadAssumption, Store!UploadAssumption, DB!Profile, Store!Profile,
       DB!NullAssumption, Store!NullAssumption, DB!LimitAssumption, Store!LimitAssumption,
       DB!OpensAssumption, Store!OpensAssumption

LEMMA SameRows ==
    ASSUME NEW s
    PROVE  /\ DB!Present(s) <=> Store!Present(s)
           /\ DB!Visible(s) <=> Store!Visible(s)
           /\ DB!IsRoot(s) <=> Store!IsRoot(s)
           /\ DB!Live(s) <=> Store!Live(s)
           /\ DB!Root(s) = Store!Root(s)
BY DEF DB!Present, Store!Present, DB!Visible, Store!Visible, DB!IsRoot, Store!IsRoot,
       DB!Live, Store!Live, DB!Root, Store!Root

LEMMA SameJobs ==
    ASSUME NEW j
    PROVE  /\ DB!JobExists(j) <=> Store!JobExists(j)
           /\ DB!JobRoot(j) = Store!JobRoot(j)
BY DEF DB!JobExists, Store!JobExists, DB!JobRoot, Store!JobRoot, DB!Root, Store!Root,
       DB!IsRoot, Store!IsRoot

LEMMA SameInit == DB!Init => Store!Init
BY DEF DB!Init, Store!Init, DB!NoAlias, Store!NoAlias, DB!NoJob, Store!NoJob,
       DB!NoObject, Store!NoObject, DB!Profile, Store!Profile

LEMMA SameCreate ==
    ASSUME NEW j, NEW o, NEW s, NEW u, DB!CreateIngestJob(j, o, s, u)
    PROVE  Store!CreateIngestJob(j, o, s, u)
BY DEF DB!CreateIngestJob, Store!CreateIngestJob, DB!NameFree, Store!NameFree,
       DB!Present, Store!Present, DB!PendingAlias, Store!PendingAlias,
       DB!QueuedJob, Store!QueuedJob

LEMMA SameClaim ==
    ASSUME NEW j, DB!ClaimNextProcessingJob(j)
    PROVE  Store!ClaimNextProcessingJob(j)
BY DEF DB!ClaimNextProcessingJob, Store!ClaimNextProcessingJob,
       DB!NextInQueue, Store!NextInQueue

LEMMA SameResolves ==
    ASSUME NEW s, NEW t
    PROVE  DB!Resolves(s, t) <=> Store!Resolves(s, t)
BY DEF DB!Resolves, Store!Resolves, DB!Visible, Store!Visible, DB!IsRoot, Store!IsRoot

LEMMA SameComplete ==
    ASSUME NEW j, NEW x, NEW e, NEW thumb, DB!CompleteProcessingJob(j, x, e, thumb)
    PROVE  Store!CompleteProcessingJob(j, x, e, thumb)
BY SameResolves
   DEF DB!CompleteProcessingJob, Store!CompleteProcessingJob, DB!Completable,
       Store!Completable, DB!Replaced, Store!Replaced

LEMMA SameFail ==
    ASSUME NEW j, DB!Failable(j), DB!FailProcessingJob(j)
    PROVE  Store!Failable(j) /\ Store!FailProcessingJob(j)
BY SameResolves
   DEF DB!Failable, Store!Failable, DB!FailProcessingJob, Store!FailProcessingJob,
       DB!AfterFailure, Store!AfterFailure

LEMMA SameRename ==
    ASSUME NEW s, NEW o, NEW new, DB!RenameAlias(s, o, new)
    PROVE  Store!RenameAlias(s, o, new)
BY DEF DB!RenameAlias, Store!RenameAlias, DB!OwnedCurrent, Store!OwnedCurrent,
       DB!NameFree, Store!NameFree, DB!Present, Store!Present, DB!Visible, Store!Visible,
       DB!IsRoot, Store!IsRoot, DB!RenamedRows, Store!RenamedRows, DB!Family, Store!Family

LEMMA SameDelete ==
    ASSUME NEW s, NEW o, DB!DeleteAlias(s, o)
    PROVE  Store!DeleteAlias(s, o)
BY DEF DB!DeleteAlias, Store!DeleteAlias, DB!OwnedCurrent, Store!OwnedCurrent,
       DB!Visible, Store!Visible, DB!IsRoot, Store!IsRoot, DB!DeletedRows,
       Store!DeletedRows, DB!Family, Store!Family, DB!CanceledBy, Store!CanceledBy,
       DB!FreesObject, Store!FreesObject, DB!OtherReferences, Store!OtherReferences

LEMMA SameRecord ==
    ASSUME NEW s, DB!RecordAliasRedirect(s)
    PROVE  Store!RecordAliasRedirect(s)
BY DEF DB!RecordAliasRedirect, Store!RecordAliasRedirect, DB!Present, Store!Present

-----------------------------------------------------------------------------
(* The inductive invariant. *)

\* Two names of one share, or one name.
Together(s, t) ==
    \/ s = t
    \/ Store!Present(s) /\ Store!Present(t) /\ Store!Root(s) = Store!Root(t)

\* A visit stays with the share of its link.
VisitsStay ==
    \A v \in Visitor : visitor[v].pc # "idle" =>
        /\ visitor[v].first \in Slug /\ visitor[v].name \in Slug
        /\ Together(visitor[v].first, visitor[v].name)

\* What a visit has found is the content of the share, whatever its name is now.
FoundIsContent ==
    \A v \in Visitor : visitor[v].pc \in {"record", "answer"} =>
        /\ Store!Present(visitor[v].name)
        /\ visitor[v].object # Null
        /\ aliases[Store!Root(visitor[v].name)].object = visitor[v].object

\* Only retired names are remembered, with another name of their share.
RememberedRetired ==
    \A r \in remembered : r[1] \in Slug /\ r[2] \in Slug /\ ~Store!IsRoot(r[1])
                           /\ Together(r[1], r[2])

LinkInv ==
    /\ Store!IInv /\ TypeOK
    /\ VisitsStay /\ FoundIsContent /\ RememberedRetired /\ RedirectsEnd

-----------------------------------------------------------------------------

LEMMA InitLinks == Init => LinkInv
<1> SUFFICES ASSUME Init PROVE LinkInv
  OBVIOUS
<1>1. Store!IInv
  BY StoreAssumed, SameInit, Store!InitEstablishes DEF Init
<1>2. TypeOK
  BY DEF Init, TypeOK, Visit, NoVisit, Kind
<1>3. VisitsStay /\ FoundIsContent /\ RememberedRetired
  BY DEF Init, NoVisit, VisitsStay, FoundIsContent, RememberedRetired
<1>4. RedirectsEnd
  BY DEF Init, RedirectsEnd
<1> QED BY <1>1, <1>2, <1>3, <1>4 DEF LinkInv

\* To the store, a step is one of its own or none.
LEMMA StoreStep == LinkInv /\ [Next]_vars => [Store!Next]_(Store!vars)
<1> SUFFICES ASSUME LinkInv, [Next]_vars, ~UNCHANGED dbVars PROVE Store!Next
  BY DEF dbVars, Store!vars
<1>1. CASE Manage
  BY <1>1, SameCreate, SameClaim, SameComplete, SameFail, SameRename, SameDelete
     DEF Manage, Store!Next
<1>2. ASSUME NEW v \in Visitor, Record(v) PROVE Store!Next
  <2>1. visitor[v].name \in Slug /\ DB!RecordAliasRedirect(visitor[v].name)
    BY <1>2 DEF Record, LinkInv, VisitsStay
  <2> QED BY <2>1, SameRecord DEF Store!Next
<1> QED BY <1>1, <1>2 DEF Next, Serve, FollowLink, FollowRemembered, Redirected, TurnedAway,
                          Found, Answer, vars

LEMMA TogetherStay ==
    ASSUME Store!Carried, NEW s \in Slug, NEW t \in Slug, Together(s, t)
    PROVE  Together(s, t)'
BY DEF Together, Store!Carried

\* What the tables carry through every step.
LEMMA TablesCarry ==
    ASSUME LinkInv, [Next]_vars
    PROVE  /\ Store!IInv' /\ Store!Carried
           /\ \A s \in Slug : ~Store!IsRoot(s) => ~Store!IsRoot(s)'
<1>1. Store!IInv /\ [Store!Next]_(Store!vars)
  BY StoreStep DEF LinkInv
<1> QED BY <1>1, StoreAssumed, Store!NextKeeps, Store!NextCarries, Store!RetiredStays

\* v's visit is where its share and its content are.
InPlace(v) ==
    /\ visitor[v].pc # "idle" =>
           /\ visitor[v].first \in Slug /\ visitor[v].name \in Slug
           /\ Together(visitor[v].first, visitor[v].name)
    /\ visitor[v].pc \in {"record", "answer"} =>
           /\ Store!Present(visitor[v].name)
           /\ visitor[v].object # Null
           /\ aliases[Store!Root(visitor[v].name)].object = visitor[v].object

LEMMA VisitGoesOn ==
    ASSUME LinkInv, Store!Carried, NEW v \in Visitor,
           visitor'[v].pc = "idle" \/ visitor[v].pc # "idle",
           visitor'[v].first = visitor[v].first \/ visitor'[v].pc = "idle",
           visitor'[v].name = visitor[v].name \/ visitor'[v].pc = "idle",
           visitor'[v].pc \in {"record", "answer"} =>
               visitor[v].pc \in {"record", "answer"} /\ visitor'[v].object = visitor[v].object
    PROVE  InPlace(v)'
<1>1. CASE visitor'[v].pc = "idle"
  BY <1>1 DEF InPlace
<1>2. CASE visitor'[v].pc # "idle"
  <2>1. /\ visitor[v].first \in Slug /\ visitor[v].name \in Slug
        /\ Together(visitor[v].first, visitor[v].name)
    BY <1>2 DEF LinkInv, VisitsStay
  <2>2. Together(visitor[v].first, visitor[v].name)'
    BY <1>2, <2>1 DEF Together, Store!Carried
  <2>3. visitor'[v].pc \in {"record", "answer"} =>
            /\ visitor'[v].object # Null
            /\ aliases[Store!Root(visitor[v].name)].object = visitor'[v].object
            /\ Store!Present(visitor[v].name)
    BY DEF LinkInv, FoundIsContent
  <2>4. visitor'[v].pc \in {"record", "answer"} =>
            /\ Store!Present(visitor[v].name)'
            /\ aliases'[Store!Root(visitor[v].name)'].object = visitor'[v].object
    BY <2>1, <2>3 DEF Store!Carried
  <2> QED BY <1>2, <2>1, <2>2, <2>3, <2>4 DEF InPlace
<1> QED BY <1>1, <1>2

\* A redirect leads from a retired name to the current one of its share.
LEMMA RedirectIsTogether ==
    ASSUME LinkInv, NEW s \in Slug, DB!Visible(s), ~DB!IsRoot(s)
    PROVE  /\ aliases[s].redirectTo \in Slug
           /\ Store!IsRoot(aliases[s].redirectTo)
           /\ Together(s, aliases[s].redirectTo)
<1>1. Store!Present(s) /\ ~Store!IsRoot(s)
  BY SameRows DEF Store!Visible, Store!Present
<1>2. Store!TypeOK /\ Store!RedirectsFlat
  BY DEF LinkInv, Store!IInv
<1>3. /\ Store!Root(s) \in Slug /\ Store!Present(Store!Root(s)) /\ Store!IsRoot(Store!Root(s))
  BY <1>1, <1>2, StoreAssumed, Store!RootIsCurrent
<1>4. Store!Root(s) = aliases[s].redirectTo
  BY <1>1 DEF Store!Root
<1>5. Store!Root(Store!Root(s)) = Store!Root(s)
  BY <1>3 DEF Store!Root
<1> QED BY <1>1, <1>3, <1>4, <1>5 DEF Together

LEMMA VisitsKeep ==
    ASSUME LinkInv, [Next]_vars, Store!Carried
    PROVE  VisitsStay' /\ FoundIsContent'
<1> SUFFICES ASSUME NEW v \in Visitor PROVE InPlace(v)'
  BY DEF InPlace, VisitsStay, FoundIsContent
<1>a. visitor \in [Visitor -> Visit] /\ visitor[v] \in Visit
  BY DEF LinkInv, TypeOK
<1>1. CASE visitor'[v] = visitor[v]
  BY <1>1, VisitGoesOn DEF InPlace
<1>2. ASSUME NEW s \in Slug, NEW k \in Kind, FollowLink(v, s, k) PROVE InPlace(v)'
  <2>1. visitor'[v] = [NoVisit EXCEPT !.pc = "lookup", !.kind = k, !.first = s, !.name = s]
    BY <1>2, <1>a DEF FollowLink
  <2> QED BY <2>1 DEF NoVisit, InPlace, Together
<1>3. ASSUME NEW t \in Slug, FollowRemembered(v, t) PROVE InPlace(v)'
  <2>1. /\ visitor[v].pc = "lookup" /\ <<visitor[v].name, t>> \in remembered
        /\ visitor'[v] = [visitor[v] EXCEPT !.name = t] /\ aliases' = aliases
    BY <1>3, <1>a DEF FollowRemembered, dbVars
  <2>2. Together(visitor[v].name, t) /\ Together(visitor[v].first, visitor[v].name)
        /\ visitor[v].first \in Slug
    BY <2>1 DEF LinkInv, VisitsStay, RememberedRetired
  <2>3. Together(visitor[v].first, t)'
    BY <2>1, <2>2 DEF Together, Store!Present, Store!Root, Store!IsRoot
  <2> QED BY <1>a, <2>1, <2>2, <2>3 DEF InPlace, Visit
<1>4. CASE Redirected(v)
  <2>1. /\ visitor[v].pc = "lookup" /\ aliases' = aliases
        /\ DB!Visible(visitor[v].name) /\ ~DB!IsRoot(visitor[v].name)
        /\ visitor'[v] = [visitor[v] EXCEPT !.name = aliases[visitor[v].name].redirectTo]
    BY <1>4, <1>a DEF Redirected, Asks, dbVars
  <2>2. /\ visitor[v].first \in Slug /\ visitor[v].name \in Slug
        /\ Together(visitor[v].first, visitor[v].name)
    BY <2>1 DEF LinkInv, VisitsStay
  <2>3. /\ aliases[visitor[v].name].redirectTo \in Slug
        /\ Together(visitor[v].name, aliases[visitor[v].name].redirectTo)
    BY <2>1, <2>2, RedirectIsTogether
  <2> DEFINE f == visitor[v].first
  <2> DEFINE t == aliases[visitor[v].name].redirectTo
  <2>4. /\ f \in Slug /\ t \in Slug /\ Together(f, t)
        /\ visitor'[v] = [visitor[v] EXCEPT !.name = t]
    BY <2>1, <2>2, <2>3 DEF Together
  <2>5. visitor[v].first = f
    OBVIOUS
  <2> HIDE DEF f, t
  <2>6. visitor'[v].first = f /\ visitor'[v].name = t /\ visitor'[v].pc = "lookup"
    BY <1>a, <2>1, <2>4, <2>5 DEF Visit
  <2> QED BY <2>1, <2>4, <2>6 DEF InPlace, Together, Store!Present, Store!Root, Store!IsRoot
<1>5. CASE TurnedAway(v) \/ Answer(v)
  <2>1. visitor'[v].pc = "idle"
    BY <1>5, <1>a DEF TurnedAway, Answer, NoVisit
  <2> QED BY <2>1 DEF InPlace
<1>6. CASE Found(v)
  <2> DEFINE s == visitor[v].name
  <2>1. /\ visitor[v].pc = "lookup" /\ aliases' = aliases
        /\ DB!Live(s) /\ aliases[s].object # Null
        /\ visitor'[v].first = visitor[v].first /\ visitor'[v].name = s
        /\ visitor'[v].object = aliases[s].object
    BY <1>6, <1>a DEF Found, Asks, Showable, dbVars, Visit
  <2>2. visitor[v].first \in Slug /\ s \in Slug /\ Together(visitor[v].first, s)
    BY <2>1 DEF LinkInv, VisitsStay
  <2>3. Store!Present(s) /\ Store!Root(s) = s
    BY <2>1, SameRows DEF Store!Live, Store!Visible, Store!Present, Store!Root
  <2> QED BY <2>1, <2>2, <2>3 DEF InPlace, Together, Store!Present, Store!Root, Store!IsRoot
<1>7. CASE Record(v)
  <2>1. /\ visitor[v].pc = "record"
        /\ visitor'[v].first = visitor[v].first /\ visitor'[v].name = visitor[v].name
        /\ visitor'[v].object = visitor[v].object
    BY <1>7, <1>a DEF Record, Visit
  <2> QED BY <2>1, VisitGoesOn
<1>8. visitor'[v] = visitor[v]
      \/ (\E s \in Slug, k \in Kind : FollowLink(v, s, k))
      \/ (\E t \in Slug : FollowRemembered(v, t))
      \/ Redirected(v) \/ TurnedAway(v) \/ Found(v) \/ Record(v) \/ Answer(v)
  <2>1. ASSUME NEW w \in Visitor, w # v,
               (\E s \in Slug, k \in Kind : FollowLink(w, s, k)) \/ Serve(w)
        PROVE  visitor'[v] = visitor[v]
    BY <2>1, <1>a DEF Serve, FollowLink, FollowRemembered, Redirected, TurnedAway, Found,
                      Record, Answer
  <2>2. ASSUME Manage \/ UNCHANGED vars PROVE visitor'[v] = visitor[v]
    BY <2>2 DEF Manage, vars
  <2> QED BY <2>1, <2>2 DEF Next, Serve
<1> QED BY <1>1, <1>2, <1>3, <1>4, <1>5, <1>6, <1>7, <1>8

LEMMA RememberedKeep ==
    ASSUME LinkInv, [Next]_vars, Store!Carried,
           \A s \in Slug : ~Store!IsRoot(s) => ~Store!IsRoot(s)'
    PROVE  RememberedRetired' /\ RedirectsEnd'
<1>1. CASE remembered' = remembered
  <2>1. RedirectsEnd'
    BY <1>1 DEF LinkInv, RedirectsEnd
  <2>2. RememberedRetired'
    BY <1>1, TogetherStay DEF LinkInv, RememberedRetired
  <2> QED BY <2>1, <2>2
<1>2. ASSUME NEW v \in Visitor, Redirected(v) PROVE RememberedRetired' /\ RedirectsEnd'
  <2> DEFINE s == visitor[v].name
  <2> DEFINE t == aliases[s].redirectTo
  <2>1. /\ s \in Slug /\ DB!Visible(s) /\ ~DB!IsRoot(s) /\ aliases' = aliases
        /\ remembered' = remembered \cup {<<s, t>>}
    BY <1>2 DEF Redirected, Asks, dbVars, LinkInv, VisitsStay
  <2>2. t \in Slug /\ Store!IsRoot(t) /\ Together(s, t) /\ ~Store!IsRoot(s)
    BY <2>1, RedirectIsTogether, SameRows
  <2> HIDE DEF s, t
  <2>3. RememberedRetired'
    BY <2>1, <2>2, TogetherStay DEF LinkInv, RememberedRetired
  <2>4. ASSUME NEW names \in SUBSET Slug, names # {}
        PROVE  \E a \in names : \A b \in names : <<a, b>> \notin remembered'
    <3>1. PICK a \in names : \A b \in names : <<a, b>> \notin remembered
      BY <2>4 DEF LinkInv, RedirectsEnd
    <3>2. CASE a # s \/ t \notin names
      BY <2>1, <3>1, <3>2
    <3>3. CASE a = s /\ t \in names
      <4>1. \A b : <<t, b>> \notin remembered
        BY <2>2 DEF LinkInv, RememberedRetired
      <4> QED BY <2>1, <2>2, <3>3, <4>1
    <3> QED BY <3>2, <3>3
  <2> QED BY <2>3, <2>4 DEF RedirectsEnd
<1>3. remembered' = remembered \/ \E v \in Visitor : Redirected(v)
  BY DEF Next, Serve, FollowLink, FollowRemembered, TurnedAway, Found, Record, Answer,
         Manage, vars
<1> QED BY <1>1, <1>2, <1>3

LEMMA TypesKeep == ASSUME LinkInv, [Next]_vars PROVE TypeOK'
<1>a. /\ visitor \in [Visitor -> Visit] /\ remembered \subseteq Slug \X Slug
      /\ visits \in [JobId -> Nat]
  BY DEF LinkInv, TypeOK
<1>b. Store!TypeOK
  BY DEF LinkInv, Store!IInv
<1>1. ASSUME NEW v \in Visitor, NEW s \in Slug, NEW k \in Kind, FollowLink(v, s, k)
      PROVE  TypeOK'
  <2>1. [NoVisit EXCEPT !.pc = "lookup", !.kind = k, !.first = s, !.name = s] \in Visit
    BY DEF NoVisit, Visit
  <2> QED BY <1>1, <1>a, <2>1 DEF FollowLink, TypeOK
<1>2. ASSUME NEW v \in Visitor, NEW t \in Slug, FollowRemembered(v, t) PROVE TypeOK'
  <2>1. [visitor[v] EXCEPT !.name = t] \in Visit
    BY <1>a DEF Visit
  <2> QED BY <1>2, <1>a, <2>1 DEF FollowRemembered, TypeOK
<1>3. ASSUME NEW v \in Visitor, Redirected(v) PROVE TypeOK'
  <2> DEFINE s == visitor[v].name
  <2> DEFINE t == aliases[s].redirectTo
  <2>1. /\ s \in Slug /\ DB!Visible(s) /\ ~DB!IsRoot(s)
        /\ visitor' = [visitor EXCEPT ![v].name = t]
        /\ remembered' = remembered \cup {<<s, t>>} /\ visits' = visits
    BY <1>3 DEF Redirected, Asks, LinkInv, VisitsStay
  <2>2. t \in Slug
    BY <2>1, RedirectIsTogether
  <2>3. [visitor[v] EXCEPT !.name = t] \in Visit
    BY <1>a, <2>2 DEF Visit
  <2> QED BY <1>a, <2>1, <2>2, <2>3 DEF TypeOK
<1>4. ASSUME NEW v \in Visitor, TurnedAway(v) PROVE TypeOK'
  <2>1. NoVisit \in Visit
    BY DEF NoVisit, Visit, Kind
  <2> QED BY <1>4, <1>a, <2>1 DEF TurnedAway, TypeOK
<1>5. ASSUME NEW v \in Visitor, Found(v) PROVE TypeOK'
  <2> DEFINE to == IF Counts(visitor[v].kind) THEN "record" ELSE "answer"
  <2> DEFINE x == aliases[visitor[v].name].object
  <2>1. visitor[v].pc = "lookup" /\ visitor[v].name \in Slug
    BY <1>5 DEF Found, Asks, LinkInv, VisitsStay
  <2>2. to \in {"record", "answer"} /\ x \in Sha \cup {Null}
    BY <1>b, <2>1 DEF Store!TypeOK, Store!AliasRow
  <2>3. visitor' = [visitor EXCEPT ![v] = [visitor[v] EXCEPT !.pc = to, !.object = x]]
    BY <1>5, <1>a DEF Found
  <2> HIDE DEF to, x
  <2>4. [visitor[v] EXCEPT !.pc = to, !.object = x] \in Visit
    BY <1>a, <2>2 DEF Visit
  <2> QED BY <1>5, <1>a, <2>3, <2>4 DEF Found, TypeOK
<1>6. ASSUME NEW v \in Visitor, Record(v) PROVE TypeOK'
  <2>1. [visitor[v] EXCEPT !.pc = "answer"] \in Visit
    BY <1>a DEF Visit
  <2> QED BY <1>6, <1>a, <2>1 DEF Record, TypeOK
<1>7. ASSUME NEW v \in Visitor, Answer(v) PROVE TypeOK'
  <2>1. NoVisit \in Visit
    BY DEF NoVisit, Visit, Kind
  <2>2. visits' \in [JobId -> Nat]
    BY <1>7, <1>a DEF Answer
  <2> QED BY <1>7, <1>a, <2>1, <2>2 DEF Answer, TypeOK
<1>8. CASE Manage \/ UNCHANGED vars
  BY <1>8, <1>a DEF Manage, vars, TypeOK
<1> QED BY <1>1, <1>2, <1>3, <1>4, <1>5, <1>6, <1>7, <1>8 DEF Next, Serve

LEMMA LinksKeep == LinkInv /\ [Next]_vars => LinkInv'
<1> SUFFICES ASSUME LinkInv, [Next]_vars PROVE LinkInv'
  OBVIOUS
<1> QED BY TablesCarry, TypesKeep, VisitsKeep, RememberedKeep DEF LinkInv

-----------------------------------------------------------------------------
(* Opens. *)

\* Visits of the share of j whose answer is still to come.
Uncounted(j) == {v \in Visitor : /\ visitor[v].pc = "answer"
                                 /\ IsOpen(visitor[v].kind)
                                 /\ j \in Shares(visitor[v].first)}

CountInv ==
    /\ \A v \in Visitor : visitor[v].pc = "record" => IsOpen(visitor[v].kind)
    /\ CountIsHonest

LEMMA FiniteUncounted ==
    ASSUME NEW S, S \subseteq Visitor
    PROVE  IsFiniteSet(S) /\ Cardinality(S) \in Nat
BY VisitorAssumption, FS_Subset, FS_CardinalityType

\* A name stays one of its share's.
LEMMA SharesStay ==
    ASSUME Store!IInv, Store!Carried, NEW j \in JobId, NEW s \in Slug, Store!Present(s),
           j \in Shares(s)
    PROVE  j \in Shares(s)' /\ Store!JobRoot(j)' = Store!Root(s)'
<1>1. Store!JobExists(j) /\ Store!JobRoot(j) = Store!Root(s)
  BY SameRows, SameJobs DEF Shares
<1>2. jobs[j].alias \in Slug /\ Store!Present(jobs[j].alias)
  BY <1>1 DEF Store!IInv, Store!SharesAndJobsPair, Store!JobsHaveShares
<1>3. Store!JobExists(j)' /\ jobs'[j].alias = jobs[j].alias
  BY <1>1 DEF Store!Carried
<1>4. Store!JobRoot(j)' = Store!Root(s)'
  BY <1>1, <1>2, <1>3 DEF Store!Carried, Store!JobRoot
<1>5. DB!JobExists(j)' /\ DB!JobRoot(j)' = DB!Root(s)'
  BY <1>3, <1>4 DEF DB!JobExists, Store!JobExists, DB!JobRoot, Store!JobRoot, DB!Root,
     Store!Root, DB!IsRoot, Store!IsRoot
<1> QED BY <1>4, <1>5 DEF Shares

\* A visit that waits for its answer goes on waiting, or is answered.
LEMMA UncountedStay ==
    ASSUME LinkInv, Store!Carried, NEW j \in JobId, NEW v \in Visitor, v \in Uncounted(j),
           visitor'[v] = visitor[v]
    PROVE  v \in Uncounted(j)'
<1>1. Store!Present(visitor[v].first) /\ visitor[v].first \in Slug
  BY DEF Uncounted, LinkInv, VisitsStay, FoundIsContent, Together
<1>2. j \in Shares(visitor[v].first)
  BY DEF Uncounted
<1>3. PICK s \in Slug : s = visitor[v].first
  BY <1>1
<1>4. /\ Store!Present(s) /\ j \in Shares(s) /\ visitor'[v].first = s
      /\ visitor'[v].pc = "answer" /\ IsOpen(visitor'[v].kind)
  BY <1>1, <1>2, <1>3 DEF Uncounted
<1>5. j \in Shares(s)'
  BY <1>4, SharesStay DEF LinkInv
<1> QED BY <1>4, <1>5 DEF Uncounted, Shares, IsOpen

LEMMA KindsKeep ==
    ASSUME LinkInv, CountInv, [Next]_vars, NEW v \in Visitor, visitor'[v].pc = "record"
    PROVE  IsOpen(visitor'[v].kind)
<1>a. visitor \in [Visitor -> Visit] /\ visitor[v] \in Visit
  BY DEF LinkInv, TypeOK
<1>1. CASE visitor'[v] = visitor[v]
  BY <1>1 DEF CountInv
<1>2. CASE Found(v)
  <2>1. visitor[v].kind # "unfurl" /\ visitor[v].kind \in Kind
    BY <1>2, <1>a DEF Found, Visit
  <2>2. visitor'[v].kind = visitor[v].kind /\ Counts(visitor[v].kind)
    BY <1>2, <1>a DEF Found, Visit
  <2> QED BY <2>1, <2>2 DEF Counts, Kind, IsOpen
<1>3. visitor'[v] = visitor[v] \/ Found(v) \/ visitor'[v].pc # "record"
  <2>1. ASSUME NEW s \in Slug, NEW k \in Kind, FollowLink(v, s, k) PROVE visitor'[v].pc # "record"
    <3>1. visitor'[v] = [NoVisit EXCEPT !.pc = "lookup", !.kind = k, !.first = s, !.name = s]
      BY <2>1, <1>a DEF FollowLink
    <3> QED BY <3>1 DEF NoVisit
  <2>2. ASSUME NEW t \in Slug, FollowRemembered(v, t) PROVE visitor'[v].pc # "record"
    BY <2>2, <1>a DEF FollowRemembered, Visit
  <2>3. CASE Redirected(v)
    BY <2>3, <1>a DEF Redirected, Asks, Visit
  <2>4. CASE TurnedAway(v) \/ Answer(v) \/ Record(v)
    BY <2>4, <1>a DEF TurnedAway, Answer, Record, NoVisit, Visit
  <2>5. ASSUME NEW w \in Visitor, w # v,
               (\E s \in Slug, k \in Kind : FollowLink(w, s, k)) \/ Serve(w)
        PROVE  visitor'[v] = visitor[v]
    BY <2>5, <1>a DEF Serve, FollowLink, FollowRemembered, Redirected, TurnedAway, Found,
                      Record, Answer
  <2>6. ASSUME Manage \/ UNCHANGED vars PROVE visitor'[v] = visitor[v]
    BY <2>6 DEF Manage, vars
  <2> QED BY <2>1, <2>2, <2>3, <2>4, <2>5, <2>6 DEF Next, Serve
<1> QED BY <1>1, <1>2, <1>3

\* Visits that were answered count from then on, and only those.
LEMMA AnswerCounts ==
    ASSUME LinkInv, NEW v \in Visitor, Answer(v), NEW j \in JobId
    PROVE  visits'[j] + Cardinality(Uncounted(j)') = visits[j] + Cardinality(Uncounted(j))
<1>a. visitor \in [Visitor -> Visit] /\ visits \in [JobId -> Nat]
  BY DEF LinkInv, TypeOK
<1>1. /\ visitor[v].pc = "answer" /\ visitor' = [visitor EXCEPT ![v] = NoVisit]
      /\ UNCHANGED dbVars
      /\ visits' = [k \in JobId |-> IF IsOpen(visitor[v].kind) /\ k \in Shares(visitor[v].first)
                                       THEN visits[k] + 1 ELSE visits[k]]
  BY DEF Answer
<1>2. Uncounted(j)' = Uncounted(j) \ {v}
  <2>1. \A s : Shares(s)' = Shares(s)
    BY <1>1 DEF dbVars, Shares, DB!JobExists, DB!JobRoot, DB!Root, DB!IsRoot
  <2>2. \A w \in Visitor \ {v} : visitor'[w] = visitor[w]
    BY <1>1, <1>a
  <2>3. visitor'[v].pc = "idle"
    BY <1>1, <1>a DEF NoVisit
  <2> QED BY <2>1, <2>2, <2>3 DEF Uncounted, Shares, IsOpen
<1>3. IsFiniteSet(Uncounted(j)) /\ Cardinality(Uncounted(j)) \in Nat
  BY FiniteUncounted DEF Uncounted
<1>4. CASE v \in Uncounted(j)
  <2>1. visits'[j] = visits[j] + 1
    BY <1>1, <1>4 DEF Uncounted
  <2>2. Cardinality(Uncounted(j) \ {v}) = Cardinality(Uncounted(j)) - 1
    BY <1>3, <1>4, FS_RemoveElement
  <2> QED BY <1>2, <1>3, <1>a, <2>1, <2>2
<1>5. CASE v \notin Uncounted(j)
  <2>1. visits'[j] = visits[j]
    BY <1>1, <1>5 DEF Uncounted
  <2>2. Uncounted(j) \ {v} = Uncounted(j)
    BY <1>5
  <2> QED BY <1>2, <2>1, <2>2
<1> QED BY <1>4, <1>5

\* Any other step leaves the visits that wait for their answer alone, and opens
\* no share.
LEMMA OtherSteps ==
    ASSUME LinkInv, [Next]_vars
    PROVE  \/ \E w \in Visitor : Answer(w)
           \/ \E w \in Visitor : Record(w) /\ DB!RecordAliasRedirect(visitor[w].name)
           \/ /\ [Store!NoOpen]_(Store!vars) /\ visits' = visits
              /\ \A v \in Visitor : visitor[v].pc = "answer" => visitor'[v] = visitor[v]
<1>a. visitor \in [Visitor -> Visit]
  BY DEF LinkInv, TypeOK
<1>1. CASE Manage
  <2>1. Store!NoOpen
    BY <1>1, SameCreate, SameClaim, SameComplete, SameFail, SameRename, SameDelete
       DEF Manage, Store!NoOpen
  <2> QED BY <1>1, <2>1 DEF Manage
<1>2. CASE UNCHANGED vars
  BY <1>2 DEF vars, dbVars, Store!vars
<1>3. ASSUME NEW w \in Visitor,
             \/ \E s \in Slug, k \in Kind : FollowLink(w, s, k)
             \/ \E t \in Slug : FollowRemembered(w, t)
             \/ Redirected(w) \/ TurnedAway(w) \/ Found(w)
      PROVE  /\ UNCHANGED dbVars /\ visits' = visits
             /\ \A v \in Visitor : visitor[v].pc = "answer" => visitor'[v] = visitor[v]
  BY <1>3, <1>a DEF FollowLink, FollowRemembered, Redirected, Asks, TurnedAway, Found
<1>4. ASSUME NEW w \in Visitor, Record(w)
      PROVE  \/ DB!RecordAliasRedirect(visitor[w].name)
             \/ /\ UNCHANGED dbVars /\ visits' = visits
                /\ \A v \in Visitor : visitor[v].pc = "answer" => visitor'[v] = visitor[v]
  BY <1>4, <1>a DEF Record
<1>5. UNCHANGED dbVars => UNCHANGED Store!vars
  BY DEF dbVars, Store!vars
<1> QED BY <1>1, <1>2, <1>3, <1>4, <1>5 DEF Next, Serve

LEMMA CountKeeps ==
    ASSUME LinkInv, CountInv, [Next]_vars, NEW j \in JobId, DB!JobExists(j)'
    PROVE  aliases'[DB!JobRoot(j)'].opens <= visits'[j] + Cardinality(Uncounted(j)')
<1>a. /\ Store!IInv /\ Store!Carried /\ [Store!Next]_(Store!vars)
      /\ visitor \in [Visitor -> Visit]
      /\ visits[j] \in Nat /\ visits'[j] \in Nat
  BY TablesCarry, StoreStep, TypesKeep DEF LinkInv, TypeOK
<1>b. /\ Cardinality(Uncounted(j)) \in Nat /\ IsFiniteSet(Uncounted(j))
      /\ Cardinality(Uncounted(j)') \in Nat /\ IsFiniteSet(Uncounted(j)')
  <2>1. Uncounted(j) \subseteq Visitor /\ Uncounted(j)' \subseteq Visitor
    BY DEF Uncounted
  <2> QED BY <2>1, FiniteUncounted
<1>c. DB!JobRoot(j)' = Store!JobRoot(j)' /\ Store!JobExists(j)'
  BY DEF DB!JobExists, Store!JobExists, DB!JobRoot, Store!JobRoot, DB!Root, Store!Root,
         DB!IsRoot, Store!IsRoot
<1>1. CASE ~Store!JobExists(j)
  <2>1. aliases'[Store!JobRoot(j)'].opens = 0
    BY <1>a, <1>c, <1>1, StoreAssumed, Store!NewShareIsUncounted
  <2> QED BY <1>a, <1>b, <1>c, <2>1
<1>2. CASE Store!JobExists(j)
  <2>1. PICK r : r = Store!JobRoot(j)
    OBVIOUS
  <2>2. /\ jobs[j].alias \in Slug /\ r \in Slug
        /\ Store!Present(r) /\ Store!IsRoot(r)
    BY <1>a, <1>2, <2>1, StoreAssumed, Store!JobHasShare DEF Store!IInv
  <2>3. aliases[r].opens \in Nat
    BY <1>a, <2>2 DEF Store!IInv, Store!TypeOK, Store!AliasRow
  <2>4. aliases[r].opens <= visits[j] + Cardinality(Uncounted(j))
    BY <1>2, <2>1, SameJobs DEF CountInv, CountIsHonest, Uncounted
  <2>5. ASSUME NEW v \in Visitor, Answer(v)
        PROVE  aliases'[Store!JobRoot(j)'].opens <= visits'[j] + Cardinality(Uncounted(j)')
    <3>1. Store!JobRoot(j)' = r /\ aliases' = aliases
      BY <2>1, <2>5 DEF Answer, dbVars, Store!JobRoot, Store!Root, Store!IsRoot
    <3> QED BY <2>4, <2>5, <3>1, AnswerCounts
  <2>6. ASSUME NEW v \in Visitor, Record(v), DB!RecordAliasRedirect(visitor[v].name)
        PROVE  aliases'[Store!JobRoot(j)'].opens <= visits'[j] + Cardinality(Uncounted(j)')
    <3>1. PICK s \in Slug : s = visitor[v].name
      BY <2>6 DEF Record, LinkInv, VisitsStay
    <3>2. /\ visitor[v].pc = "record" /\ visits' = visits
          /\ visitor' = [visitor EXCEPT ![v].pc = "answer"]
          /\ aliases' = [aliases EXCEPT ![s].opens = @ + 1] /\ jobs' = jobs
      BY <2>6, <3>1 DEF Record, DB!RecordAliasRedirect
    <3>3. \A t \in Slug : aliases'[t].redirectTo = aliases[t].redirectTo
      BY <1>a, <3>2 DEF Store!IInv, Store!TypeOK, Store!AliasRow
    <3>4. Store!JobRoot(j)' = r
      BY <2>1, <2>2, <3>2, <3>3 DEF Store!JobRoot, Store!Root, Store!IsRoot
    <3>5. v \notin Uncounted(j) /\ Uncounted(j) \subseteq Uncounted(j)'
      <4>1. v \notin Uncounted(j)
        BY <3>2 DEF Uncounted
      <4>2. ASSUME NEW w \in Uncounted(j) PROVE w \in Uncounted(j)'
        <5>1. w \in Visitor /\ visitor'[w] = visitor[w]
          BY <1>a, <3>2, <4>1 DEF Uncounted
        <5> QED BY <1>a, <5>1, UncountedStay
      <4> QED BY <4>1, <4>2
    <3>6. CASE s = r
      <4>1. PICK f \in Slug : f = visitor[v].first
        BY <3>2 DEF LinkInv, VisitsStay
      <4>2. Store!Present(f) /\ Store!Root(f) = r
        BY <2>2, <3>1, <3>2, <3>6, <4>1
           DEF LinkInv, VisitsStay, FoundIsContent, Together, Store!Root
      <4>3. j \in Shares(f)
        BY <1>2, <2>1, <4>2, SameRows, SameJobs DEF Shares
      <4>4. j \in Shares(f)'
        BY <1>a, <4>2, <4>3, SharesStay
      <4>5. visitor'[v].first = f /\ visitor'[v].pc = "answer" /\ IsOpen(visitor'[v].kind)
        BY <1>a, <3>2, <4>1 DEF CountInv, Visit, IsOpen
      <4>6. Uncounted(j) \cup {v} \subseteq Uncounted(j)'
        BY <3>5, <4>4, <4>5 DEF Uncounted, Shares, IsOpen
      <4>7. Cardinality(Uncounted(j)) + 1 <= Cardinality(Uncounted(j)')
        <5>1. Cardinality(Uncounted(j) \cup {v}) = Cardinality(Uncounted(j)) + 1
          BY <1>b, <3>5, FS_AddElement
        <5>2. Cardinality(Uncounted(j) \cup {v}) <= Cardinality(Uncounted(j)')
          BY <1>b, <4>6, FS_Subset
        <5> QED BY <5>1, <5>2
      <4>8. aliases'[r].opens = aliases[r].opens + 1
        BY <1>a, <2>2, <3>2, <3>6 DEF Store!IInv, Store!TypeOK, Store!AliasRow
      <4> QED BY <1>a, <1>b, <2>3, <2>4, <3>2, <3>4, <4>7, <4>8
    <3>7. CASE s # r
      <4>1. aliases'[r].opens = aliases[r].opens
        BY <1>a, <2>2, <3>2, <3>7 DEF Store!IInv, Store!TypeOK
      <4>2. Cardinality(Uncounted(j)) <= Cardinality(Uncounted(j)')
        BY <1>b, <3>5, FS_Subset
      <4> QED BY <1>a, <1>b, <2>3, <2>4, <3>2, <3>4, <4>1, <4>2
    <3> QED BY <3>6, <3>7
  <2>7. CASE /\ [Store!NoOpen]_(Store!vars) /\ visits' = visits
             /\ \A v \in Visitor : visitor[v].pc = "answer" => visitor'[v] = visitor[v]
    <3>1. aliases'[Store!JobRoot(j)'].opens = aliases[r].opens
      BY <1>a, <1>2, <2>1, <2>7, StoreAssumed, Store!CountsStay DEF Store!OpensKept
    <3>2. Uncounted(j) \subseteq Uncounted(j)'
      BY <1>a, <2>7, UncountedStay DEF Uncounted
    <3>3. Cardinality(Uncounted(j)) <= Cardinality(Uncounted(j)')
      BY <1>b, <3>2, FS_Subset
    <3> QED BY <1>a, <1>b, <1>c, <2>3, <2>4, <2>7, <3>1, <3>3
  <2> QED BY <1>c, <2>5, <2>6, <2>7, OtherSteps
<1> QED BY <1>1, <1>2

LEMMA InitCounts == Init => CountInv
BY DEF Init, CountInv, CountIsHonest, NoVisit, DB!Init, DB!NoJob, DB!JobExists

LEMMA CountsKeep == LinkInv /\ CountInv /\ [Next]_vars => CountInv'
<1> SUFFICES ASSUME LinkInv, CountInv, [Next]_vars PROVE CountInv'
  OBVIOUS
<1>1. \A j \in JobId : DB!JobExists(j)' =>
          aliases'[DB!JobRoot(j)'].opens <= visits'[j] + Cardinality(Uncounted(j)')
  BY CountKeeps
<1>2. CountIsHonest'
  BY <1>1 DEF CountIsHonest, Uncounted
<1> QED BY <1>2, KindsKeep DEF CountInv, IsOpen

-----------------------------------------------------------------------------
(* The theorems. *)

\* LinkInv holds throughout.
THEOREM LinkInvariance == Spec => []LinkInv
BY InitLinks, LinksKeep, PTL DEF Spec

\* Visits are at names and know digests: no redirect leads to the empty name.
THEOREM LinkTypesCorrect == Spec => []TypeOK
<1>1. LinkInv => TypeOK
  BY DEF LinkInv
<1> QED BY <1>1, LinkInvariance, PTL

\* A visitor of handlePublicShare is sent to the bytes that the share on the link
\* was completed with, by whatever old names the visit went and however its rows
\* were renamed or deleted between GetAlias and the answer.
THEOREM LinksShowTheirShares == Spec => []LinkShowsItsShare
<1>1. ASSUME LinkInv, NEW v \in Visitor, visitor[v].pc \in {"record", "answer"}
      PROVE  \E j \in Shares(visitor[v].first) : jobs[j].target = visitor[v].object
  <2> DEFINE s == visitor[v].name
  <2>1. /\ s \in Slug /\ Store!Present(s) /\ Store!Root(visitor[v].first) = Store!Root(s)
        /\ visitor[v].object # Null /\ aliases[Store!Root(s)].object = visitor[v].object
    BY <1>1 DEF LinkInv, VisitsStay, FoundIsContent, Together
  <2>2. PICK j \in JobId : Store!JobExists(j) /\ Store!JobRoot(j) = Store!Root(s)
    BY <1>1, <2>1 DEF LinkInv, Store!IInv, Store!SharesAndJobsPair, Store!SharesHaveJobs
  <2>3. jobs[j].status \in Store!JobStatus \ {"absent"}
    BY <1>1, <2>2 DEF LinkInv, Store!IInv, Store!TypeOK, Store!JobRow, Store!JobExists
  <2>4. jobs[j].target = visitor[v].object
    BY <1>1, <2>1, <2>2, <2>3 DEF LinkInv, Store!IInv, Store!StatusesAgree, Store!JobStatus
  <2>5. j \in Shares(visitor[v].first)
    BY <2>1, <2>2, SameRows, SameJobs DEF Shares
  <2> QED BY <2>4, <2>5
<1>2. LinkInv => LinkShowsItsShare
  BY <1>1 DEF LinkShowsItsShare
<1> QED BY <1>2, LinkInvariance, PTL

\* The 308 answers that browsers keep stay right for good: both names are the
\* same share's.
THEOREM RedirectsStayRight == Spec => []RedirectsArePermanent
<1>1. LinkInv => RedirectsArePermanent
  BY SameRows DEF LinkInv, RememberedRetired, Together, RedirectsArePermanent
<1> QED BY <1>1, LinkInvariance, PTL

\* However many redirects browsers keep, none of them closes a circle.
THEOREM RedirectsComeToAnEnd == Spec => []RedirectsEnd
<1>1. LinkInv => RedirectsEnd
  BY DEF LinkInv
<1> QED BY <1>1, LinkInvariance, PTL

\* The count a share shows, carried from name to name by renames, never exceeds
\* the visits that RecordAliasRedirect was called for.
THEOREM CountsAreHonest == Spec => []CountIsHonest
<1>1. CountInv => CountIsHonest
  BY DEF CountInv
<1> QED BY <1>1, InitCounts, CountsKeep, LinkInvariance, PTL DEF Spec
=============================================================================
