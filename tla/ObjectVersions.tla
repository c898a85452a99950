--------------------------- MODULE ObjectVersions ---------------------------
(***************************************************************************)
(* B2Store (internal/broker/store.go) over a versioned bucket: PutObject   *)
(* adds a version, a deletion by key alone would add a hide marker, and    *)
(* DeleteObject removes versions and markers one by one while it pages     *)
(* through their listing.  Deletions run in requests and in the worker, at *)
(* the same time as each other and as uploads of the same bytes, which get *)
(* the same key; any call may fail or be cut off by the request's end.     *)
(*                                                                         *)
(* ShareProcessor takes a key as present or absent and its deletion as one *)
(* step.  This module says what that step stands for.                      *)
(***************************************************************************)
EXTENDS Naturals, FiniteSets

CONSTANTS
    Key,        \* numbered in the order in which a listing has them
    Null,
    Under,      \* Under[k]: the keys that begin with k
    Walk,       \* calls of DeleteObject
    PageLimit,  \* entries on a page of the listing, at most
    MaxEntries  \* bound: versions and markers ever written

ASSUME KeyAssumption ==
    /\ Key \subseteq Nat /\ Null \notin Key
    /\ Under \in [Key -> SUBSET Key]
    /\ \A k \in Key : k \in Under[k]

ASSUME PageAssumption == PageLimit \in Nat \ {0} /\ MaxEntries \in Nat

VARIABLES
    bucket,  \* the versions and hide markers, numbered as they were written
    clock,   \* the number of the last one
    walk     \* [Walk -> call of DeleteObject]

vars == <<bucket, clock, walk>>

Entry == [key : Key, id : Nat, kind : {"version", "marker"}]

\* last holds the entry at which the listing goes on, more whether it has more
\* pages, todo what is still to be removed of the page at hand; since is the
\* clock when the call began.
Deletion ==
    [pc : {"idle", "list", "delete", "gone"}, key : Key \cup {Null}, since : Nat,
     last : SUBSET Entry, more : BOOLEAN, todo : SUBSET Entry]

NoCall == [pc |-> "idle", key |-> Null, since |-> 0,
           last |-> {}, more |-> FALSE, todo |-> {}]
Call(k) == [pc |-> "list", key |-> k, since |-> clock,
            last |-> {}, more |-> TRUE, todo |-> {}]

TypeOK ==
    /\ bucket \subseteq Entry
    /\ clock \in Nat
    /\ walk \in [Walk -> Deletion]

Init ==
    /\ bucket = {}
    /\ clock = 0
    /\ walk = [w \in Walk |-> NoCall]

Walking(w) == walk[w].pc \in {"list", "delete"}

Of(k) == {e \in bucket : e.key = k}

\* What HeadObject and DownloadObject find: the newest entry, unless it hides.
Visible(k) ==
    \E e \in Of(k) : e.kind = "version" /\ \A f \in Of(k) : f.id <= e.id

-----------------------------------------------------------------------------
(* The bucket. *)

Write(k, kind) ==
    /\ clock < MaxEntries
    /\ clock' = clock + 1
    /\ bucket' = bucket \cup {[key |-> k, id |-> clock + 1, kind |-> kind]}
    /\ UNCHANGED walk

\* The call may fail after the version was written.
PutObject(k) == Write(k, "version")

\* Another tool deletes by key alone.
Hide(k) == Write(k, "marker")

\* A listing goes by key, the newest entry of a key first.
Before(e, f) == e.key < f.key \/ (e.key = f.key /\ e.id > f.id)

Rest(call) ==
    {e \in bucket : e.key \in Under[call.key] /\ \A l \in call.last : Before(l, e)}

\* Some of the next entries: one at least, if there is one.
Pages(rest) ==
    {page \in SUBSET rest :
        /\ Cardinality(page) <= PageLimit
        /\ page = {} => rest = {}
        /\ \A e \in page, f \in rest \ page : Before(e, f)}

LastOf(page) == {e \in page : \A f \in page \ {e} : Before(f, e)}

-----------------------------------------------------------------------------
(* DeleteObject. *)

DeleteObject(w, k) ==
    /\ ~Walking(w)
    /\ walk' = [walk EXCEPT ![w] = Call(k)]
    /\ UNCHANGED <<bucket, clock>>

\* On with what is left of the page, else with the next page, else the end.
Onward(call) ==
    IF call.todo # {} THEN [call EXCEPT !.pc = "delete"]
    ELSE IF call.more THEN [call EXCEPT !.pc = "list"]
    ELSE [call EXCEPT !.pc = "gone", !.last = {}]

\* The listing is of a prefix; longer keys are passed over.
\* Mistake: hide markers are, too.
ToRemoveBytes(call, page) == {e \in page : e.key = call.key /\ e.kind = "version"}
ToRemove(call, page) == {e \in page : e.key = call.key}

\* The call with the page it was given.
\* Mistake: the next page is asked for as the first was.
ListedFromTop(call, page) ==
    [call EXCEPT !.todo = ToRemove(call, page), !.more = page # Rest(call)]
Listed(call, page) ==
    [call EXCEPT !.todo = ToRemove(call, page),
                 !.more = page # Rest(call),
                 !.last = IF page = {} THEN @ ELSE LastOf(page)]

NextPage(w) ==
    /\ walk[w].pc = "list"
    /\ \E page \in Pages(Rest(walk[w])) :
          walk' = [walk EXCEPT ![w] = Onward(Listed(walk[w], page))]
    /\ UNCHANGED <<bucket, clock>>

\* The page's versions go before its markers, each in the listing's order.
\* Mistake: both in the order of the listing.
SoonerAsListed(e, f) == Before(e, f)
Sooner(e, f) ==
    \/ e.kind = "version" /\ f.kind = "marker"
    \/ e.kind = f.kind /\ Before(e, f)

Soonest(call) == {e \in call.todo : \A f \in call.todo \ {e} : Sooner(e, f)}

Removed(call, e) == [call EXCEPT !.todo = @ \ {e}]

\* What is not there any more counts as removed.
DeleteVersion(w) ==
    /\ walk[w].pc = "delete"
    /\ \E e \in Soonest(walk[w]) :
          /\ bucket' = bucket \ {e}
          /\ walk' = [walk EXCEPT ![w] = Onward(Removed(walk[w], e))]
    /\ UNCHANGED clock

\* A call fails, or the request or the process ends.  A version may be gone
\* although its deletion was reported as failed.
Fail(w) ==
    /\ Walking(w)
    /\ walk' = [walk EXCEPT ![w] = NoCall]
    /\ \E lost \in SUBSET Soonest(walk[w]) : bucket' = bucket \ lost
    /\ UNCHANGED clock

-----------------------------------------------------------------------------
Step(w) == NextPage(w) \/ DeleteVersion(w) \/ Fail(w)

Next ==
    \/ \E k \in Key : PutObject(k) \/ Hide(k)
    \/ \E w \in Walk, k \in Key : DeleteObject(w, k)
    \/ \E w \in Walk : Step(w)

Spec == Init /\ [][Next]_vars

\* A call under way is worked on: what it asks of B2 is answered, unless it fails.
FairSpec == Spec /\ \A w \in Walk : WF_vars(NextPage(w) \/ DeleteVersion(w))

-----------------------------------------------------------------------------
(* Properties. *)

\* When DeleteObject reports success, nothing is left of its key, hidden or
\* not, but what was written while it ran, whatever other deletions and
\* uploads of that key did between its pages (store.go:98).
GoneMeansRemoved ==
    \A w \in Walk : walk[w].pc = "gone" =>
        \A e \in Of(walk[w].key) : e.id > walk[w].since

\* Entries only leave by a deletion of their own key: listing by prefix never
\* costs a key that begins with the deleted one (store.go:113, 121).
OthersAreKept ==
    [][\A e \in bucket \ bucket' : \E w \in Walk : Walking(w) /\ walk[w].key = e.key]_vars

\* Hidden bytes are only seen again if they are uploaded again, or for the
\* time a deletion needs for a further page: on a page, versions go before the
\* markers that hide them (store.go:112-127).
OnlyLongListsUncover ==
    [][\A k \in Key : ~Visible(k) /\ Visible(k)' =>
          \/ clock' # clock
          \/ \E w \in Walk : Walking(w) /\ walk[w].key = k /\ walk[w].more]_vars

\* Every deletion ends, however many keys share its prefix and whatever is
\* uploaded meanwhile: the listing goes on where the last page ended
\* (store.go:107).
DeletionsEnd == \A w \in Walk : Walking(w) ~> ~Walking(w)

=============================================================================
