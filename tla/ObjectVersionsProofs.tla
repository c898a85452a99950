------------------------ MODULE ObjectVersionsProofs ------------------------
(***************************************************************************)
(* Proofs about ObjectVersions, for any keys, any pages of the listing and *)
(* any number of deletions at the same time.                               *)
(***************************************************************************)
EXTENDS ObjectVersions, TLAPS

-----------------------------------------------------------------------------
(* The inductive invariant. *)

\* Every entry from before the call is on the page at hand or on one to come.
Covers(call, entries) ==
    \A e \in entries : e.key = call.key /\ e.id <= call.since =>
        \/ e \in call.todo
        \/ /\ call.more /\ e.key \in Under[call.key]
           /\ \A l \in call.last : Before(l, e)

\* Below an entry of the page, nothing is passed over on the last page.
Deep(call, entries) ==
    \A e \in call.todo, f \in entries : f.key = call.key /\ f.id < e.id =>
        f \in call.todo \/ call.more

\* What a call knows was written before.
Past(call, now) ==
    /\ call.key \in Key
    /\ call.since <= now
    /\ \A e \in call.todo : e.id <= now /\ e.key = call.key

CallInv(call, entries, now) ==
    Covers(call, entries) /\ Deep(call, entries) /\ Past(call, now)

WalksInv ==
    \A w \in Walk : Walking(w) =>
        /\ CallInv(walk[w], bucket, clock)
        /\ walk[w].pc = "list" => walk[w].todo = {} /\ walk[w].more

GoneInv ==
    \A w \in Walk : walk[w].pc = "gone" =>
        walk[w].since <= clock /\ \A e \in Of(walk[w].key) : e.id > walk[w].since

IInv ==
    /\ TypeOK
    /\ \A e \in bucket : e.id <= clock
    /\ WalksInv
    /\ GoneInv

-----------------------------------------------------------------------------
(* Calls. *)

\* The order of a listing is transitive.
LEMMA BeforeTransitive ==
    ASSUME NEW e \in Entry, NEW f \in Entry, NEW g \in Entry, Before(e, f), Before(f, g)
    PROVE  Before(e, g)
  <1>1. /\ e.key \in Nat /\ f.key \in Nat /\ g.key \in Nat
        /\ e.id \in Nat /\ f.id \in Nat /\ g.id \in Nat
    BY KeyAssumption DEF Entry
  <1> QED
    BY <1>1 DEF Before

\* A call that goes on keeps what it knew, and it stops with nothing left of
\* what was there before it.
LEMMA OnwardKeeps ==
    ASSUME NEW call \in Deletion, NEW entries \in SUBSET Entry, NEW now \in Nat,
           CallInv(call, entries, now)
    PROVE  /\ Onward(call) \in Deletion
           /\ Onward(call).pc \in {"list", "delete", "gone"}
           /\ Onward(call).pc \in {"list", "delete"} => CallInv(Onward(call), entries, now)
           /\ Onward(call).pc = "list" => Onward(call).todo = {} /\ Onward(call).more
           /\ Onward(call).pc = "gone" =>
                 /\ Onward(call).since <= now
                 /\ \A e \in entries : e.key = Onward(call).key => e.id > Onward(call).since
  <1>1. CASE call.todo # {}
    <2>1. Onward(call) = [call EXCEPT !.pc = "delete"]
      BY <1>1 DEF Onward
    <2> QED
      BY <2>1 DEF Deletion, CallInv, Covers, Deep, Past
  <1>2. CASE call.todo = {} /\ call.more
    <2>1. Onward(call) = [call EXCEPT !.pc = "list"]
      BY <1>2 DEF Onward
    <2> QED
      BY <1>2, <2>1 DEF Deletion, CallInv, Covers, Deep, Past
  <1>3. CASE call.todo = {} /\ ~call.more
    <2>1. Onward(call) = [call EXCEPT !.pc = "gone", !.last = {}]
      BY <1>3 DEF Onward
    <2>2. call.since \in Nat /\ call.since <= now
      BY DEF Deletion, CallInv, Past
    <2>3. \A e \in entries : e.key = call.key => e.id > call.since
      BY <1>3, <2>2 DEF CallInv, Covers, Entry
    <2> QED
      BY <2>1, <2>2, <2>3 DEF Deletion
  <1> QED
    BY <1>1, <1>2, <1>3

\* Entries may leave, and later ones come, under a call.
LEMMA CallKept ==
    ASSUME NEW call \in Deletion, NEW old \in SUBSET Entry, NEW new \in SUBSET Entry,
           NEW then \in Nat, NEW now \in Nat, then <= now,
           \A e \in new \ old : e.id > then,
           CallInv(call, old, then)
    PROVE  CallInv(call, new, now)
  <1>1. call.since \in Nat /\ call.since <= then /\ call.todo \subseteq Entry
    BY DEF Deletion, CallInv, Past
  <1>2. Covers(call, new)
    BY <1>1 DEF CallInv, Covers, Entry
  <1>3. Deep(call, new)
    BY <1>1 DEF CallInv, Deep, Past, Entry
  <1>4. Past(call, now)
    BY <1>1 DEF CallInv, Past, Entry
  <1> QED
    BY <1>2, <1>3, <1>4 DEF CallInv

\* A page takes over from the listing.
LEMMA PageKeeps ==
    ASSUME IInv, NEW w \in Walk, walk[w].pc = "list",
           NEW page \in Pages(Rest(walk[w]))
    PROVE  /\ Listed(walk[w], page) \in Deletion
           /\ CallInv(Listed(walk[w], page), bucket, clock)
  <1> DEFINE call == walk[w]
             next == Listed(call, page)
  <1>1. /\ call \in Deletion /\ bucket \subseteq Entry /\ clock \in Nat
        /\ CallInv(call, bucket, clock) /\ call.todo = {} /\ call.more
        /\ \A e \in bucket : e.id <= clock
    BY DEF IInv, TypeOK, WalksInv, Walking
  <1>2. /\ page \subseteq Rest(call)
        /\ page = {} => Rest(call) = {}
        /\ \A e \in page, f \in Rest(call) \ page : Before(e, f)
    BY DEF Pages
  <1>3. Rest(call) \subseteq bucket
    BY DEF Rest
  <1>4. /\ next.todo = {e \in page : e.key = call.key}
        /\ next.more = (page # Rest(call))
        /\ next.last = (IF page = {} THEN call.last ELSE LastOf(page))
        /\ next.key = call.key /\ next.since = call.since /\ next.pc = call.pc
    BY <1>1 DEF Listed, ToRemove, Deletion
  <1>5. LastOf(page) \subseteq page
    BY DEF LastOf
  <1>6. next \in Deletion
    <2>1. next = [call EXCEPT !.todo = next.todo, !.more = next.more, !.last = next.last]
      BY <1>1 DEF Listed, Deletion
    <2>2. /\ next.todo \in SUBSET Entry
          /\ next.last \in SUBSET Entry
          /\ next.more \in BOOLEAN
      BY <1>1, <1>2, <1>3, <1>4, <1>5 DEF Deletion
    <2> HIDE DEF next
    <2> QED
      BY <1>1, <2>1, <2>2 DEF Deletion
  <1>7. Past(next, clock)
    BY <1>1, <1>2, <1>3, <1>4 DEF CallInv, Past
  <1>8. call.key \in Key /\ call.key \in Under[call.key]
    BY <1>1, KeyAssumption DEF CallInv, Past
  <1>9. Covers(next, bucket)
    <2> SUFFICES ASSUME NEW e \in bucket, e.key = call.key, e.id <= call.since
                 PROVE  \/ e \in next.todo
                        \/ /\ next.more /\ e.key \in Under[call.key]
                           /\ \A l \in next.last : Before(l, e)
      BY <1>4 DEF Covers
    <2>1. e \in Rest(call)
      BY <1>1 DEF CallInv, Covers, Rest
    <2>2. CASE e \in page
      BY <1>4, <2>2
    <2>3. CASE e \notin page
      <3>1. next.more /\ page # {}
        BY <1>2, <1>4, <2>1, <2>3
      <3>2. \A l \in next.last : Before(l, e)
        BY <1>2, <1>4, <1>5, <2>1, <2>3, <3>1
      <3> QED
        BY <1>8, <3>1, <3>2
    <2> QED
      BY <2>2, <2>3
  <1>10. Deep(next, bucket)
    <2> SUFFICES ASSUME NEW e \in next.todo, NEW f \in bucket,
                        f.key = call.key, f.id < e.id, f \notin next.todo
                 PROVE  next.more
      BY <1>4 DEF Deep
    <2>1. e \in page /\ e \in Rest(call) /\ e.key = call.key /\ e \in bucket
      BY <1>2, <1>3, <1>4
    <2>2. f \notin page
      BY <1>4
    <2>3. Before(e, f)
      BY <1>1, <2>1 DEF Before, Entry
    <2>4. \A l \in call.last : Before(l, f)
      <3> TAKE l \in call.last
      <3>1. Before(l, e) /\ l \in Entry
        BY <1>1, <2>1 DEF Rest, Deletion
      <3> QED
        BY <1>1, <2>1, <2>3, <3>1, BeforeTransitive
    <2>5. f \in Rest(call)
      BY <1>8, <2>4 DEF Rest
    <2> QED
      BY <1>4, <2>2, <2>5
  <1> HIDE DEF next
  <1> QED
    BY <1>6, <1>7, <1>9, <1>10 DEF CallInv, next

-----------------------------------------------------------------------------
(* The steps. *)

\* A call that ends or goes on in a step in which nothing else than an entry
\* leaves; all the other calls keep what they know.
LEMMA StepKeeps ==
    ASSUME IInv, NEW w \in Walk, NEW call \in Deletion,
           bucket' \in SUBSET bucket, clock' = clock,
           walk' = [walk EXCEPT ![w] = call],
           call.pc \in {"list", "delete"} => CallInv(call, bucket', clock),
           call.pc = "list" => call.todo = {} /\ call.more,
           call.pc = "gone" =>
              call.since <= clock /\ \A e \in bucket' : e.key = call.key => e.id > call.since
    PROVE  IInv'
  <1>1. TypeOK /\ bucket' \subseteq Entry /\ clock \in Nat
    BY DEF IInv, TypeOK
  <1>2. TypeOK'
    BY <1>1 DEF TypeOK
  <1>3. \A e \in bucket' : e.id <= clock'
    BY DEF IInv
  <1>4. \A v \in Walk : walk'[v] = IF v = w THEN call ELSE walk[v]
    BY <1>1 DEF TypeOK
  <1>5. WalksInv'
    <2> SUFFICES ASSUME NEW v \in Walk, walk'[v].pc \in {"list", "delete"}
                 PROVE  /\ CallInv(walk'[v], bucket', clock')
                        /\ walk'[v].pc = "list" => walk'[v].todo = {} /\ walk'[v].more
      BY DEF WalksInv, Walking
    <2>1. CASE v = w
      BY <1>4, <2>1
    <2>2. CASE v # w
      <3>1. /\ walk[v] \in Deletion /\ CallInv(walk[v], bucket, clock)
            /\ walk[v].pc = "list" => walk[v].todo = {} /\ walk[v].more
        BY <1>1, <1>4, <2>2 DEF IInv, TypeOK, WalksInv, Walking
      <3>2. CallInv(walk[v], bucket', clock)
        BY <1>1, <3>1, CallKept DEF TypeOK
      <3> QED
        BY <1>4, <2>2, <3>1, <3>2
    <2> QED
      BY <2>1, <2>2
  <1>6. GoneInv'
    <2> SUFFICES ASSUME NEW v \in Walk, walk'[v].pc = "gone"
                 PROVE  /\ walk'[v].since <= clock
                        /\ \A e \in bucket' : e.key = walk'[v].key => e.id > walk'[v].since
      BY DEF GoneInv, Of
    <2>1. CASE v = w
      BY <1>4, <2>1
    <2>2. CASE v # w
      BY <1>4, <2>2 DEF IInv, GoneInv, Of
    <2> QED
      BY <2>1, <2>2
  <1> QED
    BY <1>2, <1>3, <1>5, <1>6 DEF IInv

\* An upload or a hide marker: later than all a deletion looks for.
LEMMA WriteKeeps ==
    ASSUME IInv, NEW k \in Key, NEW kind \in {"version", "marker"}, Write(k, kind)
    PROVE  IInv'
  <1> DEFINE new == [key |-> k, id |-> clock + 1, kind |-> kind]
  <1>1. /\ TypeOK /\ clock \in Nat /\ clock' = clock + 1 /\ walk' = walk
        /\ bucket' = bucket \cup {new} /\ \A e \in bucket : e.id <= clock
    BY DEF IInv, TypeOK, Write
  <1>2. new \in Entry /\ new.id = clock + 1
    BY <1>1 DEF Entry
  <1> HIDE DEF new
  <1>3. TypeOK'
    BY <1>1, <1>2 DEF TypeOK
  <1>4. \A e \in bucket' : e.id <= clock'
    BY <1>1, <1>2 DEF TypeOK, Entry
  <1>5. WalksInv'
    <2> SUFFICES ASSUME NEW v \in Walk, Walking(v)
                 PROVE  /\ CallInv(walk[v], bucket', clock')
                        /\ walk[v].pc = "list" => walk[v].todo = {} /\ walk[v].more
      BY <1>1 DEF WalksInv, Walking
    <2>1. walk[v] \in Deletion /\ CallInv(walk[v], bucket, clock)
      BY <1>1 DEF IInv, TypeOK, WalksInv
    <2>2. bucket \in SUBSET Entry /\ bucket' \in SUBSET Entry /\ clock' \in Nat
          /\ clock <= clock' /\ \A e \in bucket' \ bucket : e.id > clock
      BY <1>1, <1>2, <1>3 DEF TypeOK
    <2> QED
      BY <1>1, <2>1, <2>2, CallKept DEF IInv, WalksInv
  <1>6. GoneInv'
    <2> SUFFICES ASSUME NEW v \in Walk, walk[v].pc = "gone"
                 PROVE  /\ walk[v].since <= clock'
                        /\ \A e \in bucket' : e.key = walk[v].key => e.id > walk[v].since
      BY <1>1 DEF GoneInv, Of
    <2>1. walk[v].since \in Nat /\ walk[v].since <= clock
      BY <1>1 DEF IInv, TypeOK, GoneInv, Deletion
    <2> QED
      BY <1>1, <1>2, <2>1 DEF IInv, GoneInv, Of
  <1> QED
    BY <1>3, <1>4, <1>5, <1>6 DEF IInv

\* A new call: all there is lies before it in the listing.
LEMMA CallStarts ==
    ASSUME IInv, NEW w \in Walk, NEW k \in Key, DeleteObject(w, k)
    PROVE  IInv'
  <1>1. TypeOK /\ clock \in Nat /\ bucket' = bucket /\ clock' = clock
        /\ walk' = [walk EXCEPT ![w] = Call(k)]
    BY DEF IInv, TypeOK, DeleteObject
  <1>2. Call(k) \in Deletion
    BY <1>1 DEF Call, Deletion
  <1>3. CallInv(Call(k), bucket', clock)
    BY <1>1, KeyAssumption DEF CallInv, Covers, Deep, Past, Call
  <1>4. Call(k).pc = "list" /\ Call(k).todo = {} /\ Call(k).more
    BY DEF Call
  <1> QED
    BY <1>1, <1>2, <1>3, <1>4, StepKeeps

LEMMA NextPageKeeps ==
    ASSUME IInv, NEW w \in Walk, NextPage(w)
    PROVE  IInv'
  <1>1. PICK page \in Pages(Rest(walk[w])) :
            walk' = [walk EXCEPT ![w] = Onward(Listed(walk[w], page))]
    BY DEF NextPage
  <1> DEFINE call == Listed(walk[w], page)
  <1>2. walk[w].pc = "list" /\ bucket' = bucket /\ clock' = clock
    BY DEF NextPage
  <1>3. bucket \in SUBSET Entry /\ clock \in Nat
    BY DEF IInv, TypeOK
  <1>4. call \in Deletion /\ CallInv(call, bucket, clock)
    BY <1>2, PageKeeps
  <1> HIDE DEF call
  <1>5. walk' = [walk EXCEPT ![w] = Onward(call)]
    BY <1>1 DEF call
  <1> QED
    BY <1>2, <1>3, <1>4, <1>5, OnwardKeeps, StepKeeps

LEMMA DeleteVersionKeeps ==
    ASSUME IInv, NEW w \in Walk, DeleteVersion(w)
    PROVE  IInv'
  <1>1. PICK e \in Soonest(walk[w]) :
            /\ bucket' = bucket \ {e}
            /\ walk' = [walk EXCEPT ![w] = Onward(Removed(walk[w], e))]
    BY DEF DeleteVersion
  <1> DEFINE call == Removed(walk[w], e)
  <1>2. /\ TypeOK /\ walk[w] \in Deletion /\ clock' = clock /\ clock \in Nat
        /\ bucket' \in SUBSET Entry /\ CallInv(walk[w], bucket, clock)
    BY <1>1 DEF IInv, TypeOK, WalksInv, Walking, DeleteVersion
  <1>3. /\ call \in Deletion /\ call.todo = walk[w].todo \ {e}
        /\ call.key = walk[w].key /\ call.since = walk[w].since
        /\ call.more = walk[w].more /\ call.last = walk[w].last
    BY <1>2 DEF Deletion, Removed
  <1>4. walk' = [walk EXCEPT ![w] = Onward(call)]
    BY <1>1
  <1> HIDE DEF call
  <1>5. CallInv(call, bucket', clock)
    BY <1>1, <1>2, <1>3 DEF CallInv, Covers, Deep, Past
  <1> QED
    BY <1>1, <1>2, <1>3, <1>4, <1>5, OnwardKeeps, StepKeeps

LEMMA FailKeeps ==
    ASSUME IInv, NEW w \in Walk, Fail(w)
    PROVE  IInv'
  <1>1. NoCall \in Deletion /\ NoCall.pc = "idle"
    BY DEF NoCall, Deletion
  <1> QED
    BY <1>1, StepKeeps DEF Fail

\* IInv is an inductive invariant.
THEOREM VersionsInvariant == Spec => []IInv
  <1>1. Init => IInv
    BY DEF Init, IInv, TypeOK, WalksInv, GoneInv, Walking, NoCall, Deletion
  <1>2. IInv /\ [Next]_vars => IInv'
    <2> SUFFICES ASSUME IInv, [Next]_vars PROVE IInv'
      OBVIOUS
    <2>1. CASE UNCHANGED vars
      BY <2>1 DEF vars, IInv, TypeOK, WalksInv, GoneInv, Walking, Of
    <2>2. ASSUME NEW k \in Key, PutObject(k) \/ Hide(k) PROVE IInv'
      BY <2>2, WriteKeeps DEF PutObject, Hide
    <2>3. ASSUME NEW w \in Walk, NEW k \in Key, DeleteObject(w, k) PROVE IInv'
      BY <2>3, CallStarts
    <2>4. ASSUME NEW w \in Walk, Step(w) PROVE IInv'
      BY <2>4, NextPageKeeps, DeleteVersionKeeps, FailKeeps DEF Step
    <2> QED
      BY <2>1, <2>2, <2>3, <2>4 DEF Next
  <1> QED
    BY <1>1, <1>2, PTL DEF Spec

-----------------------------------------------------------------------------
(* The properties. *)

\* A deletion that reports success leaves nothing of its key but what was
\* written while it ran (DeleteObject, store.go:98).
THEOREM GoneKeysAreRemoved == Spec => []GoneMeansRemoved
  <1>1. IInv => GoneMeansRemoved
    BY DEF IInv, GoneInv, GoneMeansRemoved
  <1> QED
    BY <1>1, VersionsInvariant, PTL

\* Only a deletion of its own key removes an entry, although the listing is
\* of all the keys that begin with it (store.go:113, 121).
THEOREM PrefixCostsNoOther == Spec => OthersAreKept
  <1>1. IInv /\ [Next]_vars =>
            [\A e \in bucket \ bucket' : \E w \in Walk : Walking(w) /\ walk[w].key = e.key]_vars
    <2> SUFFICES ASSUME IInv, Next, NEW e \in bucket \ bucket'
                 PROVE  \E w \in Walk : Walking(w) /\ walk[w].key = e.key
      OBVIOUS
    <2>1. PICK w \in Walk : DeleteVersion(w) \/ Fail(w)
      BY DEF Next, PutObject, Hide, Write, DeleteObject, Step, NextPage
    <2>2. Walking(w) /\ e \in Soonest(walk[w])
      BY <2>1 DEF DeleteVersion, Fail, Walking
    <2>3. e.key = walk[w].key
      BY <2>2 DEF Soonest, IInv, WalksInv, CallInv, Past
    <2> QED
      BY <2>2, <2>3
  <1> QED
    BY <1>1, VersionsInvariant, PTL DEF Spec, OthersAreKept

\* A marker goes after every version it hides, unless the listing has a
\* further page (store.go:112-127).
THEOREM MarkersGoLast == Spec => OnlyLongListsUncover
  <1> DEFINE A == \A k \in Key : ~Visible(k) /\ Visible(k)' =>
                     \/ clock' # clock
                     \/ \E w \in Walk : Walking(w) /\ walk[w].key = k /\ walk[w].more
  <1>1. IInv /\ [Next]_vars => [A]_vars
    <2> SUFFICES ASSUME IInv, Next, NEW k \in Key, ~Visible(k), Visible(k)',
                        clock' = clock
                 PROVE  \E w \in Walk : Walking(w) /\ walk[w].key = k /\ walk[w].more
      OBVIOUS
    <2>1. bucket \subseteq Entry /\ clock \in Nat
      BY DEF IInv, TypeOK
    <2>2. PICK w \in Walk : NextPage(w) \/ DeleteVersion(w) \/ Fail(w) \/ bucket' = bucket
      BY <2>1 DEF Next, Step, PutObject, Hide, Write, DeleteObject
    <2>3. PICK f \in bucket' : /\ f.key = k /\ f.kind = "version"
                               /\ \A g \in bucket' : g.key = k => g.id <= f.id
      BY DEF Visible, Of
    <2>4. bucket' \subseteq bucket
      BY <2>2 DEF NextPage, DeleteVersion, Fail
    <2>5. PICK e \in bucket : e.key = k /\ ~(e.id <= f.id)
      BY <2>3, <2>4 DEF Visible, Of
    <2>6. f.id < e.id /\ f \in bucket /\ e \notin bucket'
      BY <2>1, <2>3, <2>4, <2>5 DEF Entry
    <2>7. Walking(w) /\ e \in Soonest(walk[w])
      BY <2>2, <2>5, <2>6 DEF NextPage, DeleteVersion, Fail, Walking
    <2>8. walk[w].key = k
      BY <2>5, <2>7 DEF Soonest, IInv, WalksInv, CallInv, Past
    <2>9. f \in walk[w].todo \/ walk[w].more
      BY <2>3, <2>6, <2>7, <2>8 DEF Soonest, IInv, WalksInv, CallInv, Deep
    <2>10. f \notin walk[w].todo
      <3> SUFFICES ASSUME f \in walk[w].todo PROVE FALSE
        OBVIOUS
      <3>1. \A g \in Soonest(walk[w]) : g = e
        <4> SUFFICES ASSUME NEW g \in Soonest(walk[w]), g # e PROVE FALSE
          OBVIOUS
        <4>1. e \in Entry /\ g \in Entry /\ Sooner(e, g) /\ Sooner(g, e)
          BY <2>7 DEF Soonest, IInv, TypeOK, Deletion
        <4>2. e.key \in Nat /\ g.key \in Nat /\ e.id \in Nat /\ g.id \in Nat
          BY <4>1, KeyAssumption DEF Entry
        <4>3. Before(e, g) /\ Before(g, e)
          BY <4>1 DEF Sooner
        <4> QED
          BY <4>2, <4>3 DEF Before
      <3>2. e.kind = "version"
        <4>1. Sooner(e, f)
          BY <2>6, <2>7 DEF Soonest
        <4> QED
          BY <2>3, <4>1 DEF Sooner
      <3>3. bucket \ bucket' \subseteq {e}
        BY <2>2, <2>6, <3>1 DEF NextPage, DeleteVersion, Fail
      <3>4. \A g \in bucket : g.key = k => g.id <= e.id
        <4> TAKE g \in bucket
        <4>1. g \in Entry /\ e \in Entry /\ f \in Entry
          BY <2>1, <2>6
        <4> QED
          BY <2>3, <2>6, <3>3, <4>1 DEF Entry
      <3> QED
        BY <2>5, <3>2, <3>4 DEF Visible, Of
    <2> QED
      BY <2>7, <2>8, <2>9, <2>10
  <1> QED
    BY <1>1, VersionsInvariant, PTL DEF Spec, OnlyLongListsUncover

=============================================================================
