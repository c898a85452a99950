--------------------------- MODULE MCBrokerRequests ---------------------------
(***************************************************************************)
(* Two tabs of one browser and one of another, two users of whom the       *)
(* second has the required role in the access token only, two logins.      *)
(* Bodies of up to three parts, with every defect a part can have, and     *)
(* bodies and renames with every name over small alphabets.                *)
(***************************************************************************)
EXTENDS BrokerRequests, TLC

CONSTANTS u1, u2, b1, b2, t1, t2, t3

MCBrowserOf == t1 :> b1 @@ t2 :> b1 @@ t3 :> b2
MCIdRoles == u1 :> {"share"} @@ u2 :> {}
MCAccessRoles == u1 :> {"other"} @@ u2 :> {"share"}

FilePartOf(n, s) == [kind |-> "file", text |-> n, typeExt |-> <<>>, size |-> s, whole |-> TRUE]
NamePartOf(n) == [kind |-> "name", text |-> n, size |-> Len(n), whole |-> TRUE]
OtherPartOf(s) == [kind |-> "other", text |-> <<>>, size |-> s, whole |-> TRUE]
Torn(p) == [p EXCEPT !.whole = FALSE]

Word(chars, lengths) == UNION {[1 .. n -> chars] : n \in lengths}

Clip == FilePartOf(<<"a", ".", "mov">>, 2)
Unknown == [FilePartOf(<<"a">>, 2) EXCEPT !.typeExt = <<".", "a">>]

MCTyped ==
    Word({"a", "mov", ".", "_", " ", "/"}, 0 .. 2) \cup Word({"a", ".", "-"}, {3})
    \cup {<<"a", "a", "a", "a", "a", ".", "a">>, <<"a", ".", "a", "a", "a", "a", "a">>}
Names ==
    Word({"a", ".", "-"}, 0 .. 3) \cup Word({"a", "."}, {7})
    \cup Word({"a", "media", "_", "?", "/", "."}, {2})

SomeParts ==
    {Clip, FilePartOf(<<"a">>, 3), FilePartOf(<<"a">>, 4), Torn(Clip),
     NamePartOf(<<" ">>), NamePartOf([i \in 1 .. 15 |-> "a"]), Torn(NamePartOf(<<"a">>)),
     OtherPartOf(9), Torn(OtherPartOf(1))}

MCForm ==
    Word(SomeParts, 0 .. 3)
    \cup {<<p, NamePartOf(n)>> : p \in {Clip, Unknown}, n \in Names}
    \cup {<<FilePartOf(n, 2)>> : n \in Names}
MCPageForm == {<<Clip>>}
MCPageTyped == {<<"a">>}

Symmetry == Permutations(Job) \cup Permutations(Attempt)
===============================================================================
