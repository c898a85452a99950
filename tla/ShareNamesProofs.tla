--------------------------- MODULE ShareNamesProofs ---------------------------
(***************************************************************************)
(* Proofs about ShareNames, for names of any length over any alphabet and  *)
(* for any limits.                                                         *)
(*                                                                         *)
(* The functions of ShareNames go through a name character by character.   *)
(* What they compute is shown by induction on its length, which rests on   *)
(* finite sets being well-founded under inclusion.                         *)
(***************************************************************************)
EXTENDS ShareNames, FiniteSetTheorems, SequenceTheorems, TLAPS

-----------------------------------------------------------------------------
(* Induction. *)

\* A set of finite sets has a smallest one.
LEMMA MinimalFinite ==
    ASSUME NEW S, NEW T, T \subseteq FiniteSubsetsOf(S), T # {}
    PROVE  \E x \in T : \A y \in T : y \subseteq x => y = x
<1> DEFINE R == StrictSubsetOrdering(S)
<1>1. IsWellFoundedOn(R, FiniteSubsetsOf(S))
  BY FS_StrictSubsetOrderingWellFounded
<1>2. \E x \in T : \A y \in T : ~ (<<y, x>> \in R)
  BY <1>1, WFMin
<1>3. \A x, y \in T : y \subseteq x /\ y # x => <<y, x>> \in R
  BY DEF StrictSubsetOrdering, FiniteSubsetsOf
<1> HIDE DEF R
<1> QED
  BY <1>2, <1>3

\* A set of numbers has a least one.
LEMMA LeastNumber ==
    ASSUME NEW N \in SUBSET Nat, N # {}
    PROVE  \E m \in N : \A n \in N : m <= n
<1> DEFINE T == {1 .. n : n \in N}
<1>1. T \subseteq FiniteSubsetsOf(Nat)
  BY FS_Interval DEF FiniteSubsetsOf
<1>2. T # {}
  OBVIOUS
<1>3. PICK x \in T : \A y \in T : y \subseteq x => y = x
  <2> HIDE DEF T
  <2> QED
    BY <1>1, <1>2, MinimalFinite
<1>4. PICK m \in N : x = 1 .. m
  OBVIOUS
<1>5. ASSUME NEW n \in N, n < m PROVE FALSE
  <2>1. 1 .. n \in T /\ 1 .. n \subseteq x
    BY <1>4, <1>5
  <2>2. m \in x /\ m \notin 1 .. n
    BY <1>4, <1>5
  <2> QED
    BY <1>3, <2>1, <2>2
<1> QED
  BY <1>5

\* A set that has 0, and with a number the next one up to n, has them all.
LEMMA UpTo ==
    ASSUME NEW n \in Nat, NEW P, 0 \in P, \A k \in 1 .. n : k - 1 \in P => k \in P
    PROVE  0 .. n \subseteq P
<1> SUFFICES ASSUME (0 .. n) \ P # {} PROVE FALSE
  OBVIOUS
<1>1. PICK m \in (0 .. n) \ P : \A k \in (0 .. n) \ P : m <= k
  <2>1. (0 .. n) \ P \in SUBSET Nat
    OBVIOUS
  <2> QED
    BY <2>1, LeastNumber
<1>2. m \in 1 .. n /\ m - 1 \in 0 .. n
  BY <1>1
<1>3. m - 1 \in P
  BY <1>1, <1>2
<1> QED
  BY <1>1, <1>2, <1>3

\* The least and the greatest of finitely many numbers.
LEMMA MinMax ==
    ASSUME NEW n \in Nat, NEW S \in SUBSET (1 .. n), S # {}
    PROVE  /\ Min(S) \in S /\ \A y \in S : Min(S) <= y
           /\ Max(S) \in S /\ \A y \in S : y <= Max(S)
<1>1. \E m \in S : \A y \in S : m <= y
  BY LeastNumber
<1>2. \E m \in S : \A y \in S : m >= y
  <2> DEFINE N == {n - y : y \in S}
  <2>1. N \in SUBSET Nat /\ N # {}
    <3>1. \A y \in S : n - y \in Nat
      OBVIOUS
    <3> QED
      BY <3>1
  <2>2. PICK m \in N : \A k \in N : m <= k
    <3> HIDE DEF N
    <3> QED
      BY <2>1, LeastNumber
  <2>3. PICK x \in S : m = n - x
    OBVIOUS
  <2>4. \A y \in S : n - x <= n - y
    BY <2>2, <2>3
  <2> QED
    BY <2>4
<1>3. Min(S) \in S /\ \A y \in S : Min(S) <= y
  BY <1>1 DEF Min
<1>4. Max(S) \in S /\ \A y \in S : Max(S) >= y
  BY <1>2 DEF Max
<1> QED
  BY <1>3, <1>4

\* The library's maximum, which Trim and FoldLeft use, of a whole interval.
LEMMA MaxOfInterval ==
    ASSUME NEW n \in Nat, n # 0
    PROVE  Max(1 .. n) = n
<1>1. Max(1 .. n) \in 1 .. n /\ \A y \in 1 .. n : y <= Max(1 .. n)
  <2>1. 1 .. n \in SUBSET (1 .. n) /\ 1 .. n # {}
    OBVIOUS
  <2> HIDE DEF Max
  <2> QED
    BY <2>1, MinMax
<1>2. n \in 1 .. n
  OBVIOUS
<1> QED
  BY <1>1, <1>2

\* The function that a fold is made of, on sets of the first n numbers: it goes
\* through them from the last number on.
Iterator(it, n, B, base, h) ==
    /\ it \in [SUBSET (1 .. n) -> B]
    /\ it[{}] = base
    /\ \A s \in SUBSET (1 .. n) : s # {} => it[s] = h[Max(s), it[s \ {Max(s)}]]

\* There is such a function: the definition of folds defines something.
LEMMA Iterates ==
    ASSUME NEW n \in Nat, NEW B, NEW base \in B, NEW h \in [(1 .. n) \X B -> B]
    PROVE  \E it : Iterator(it, n, B, base, h)
<1> DEFINE Is(it, k) == Iterator(it, k, B, base, h)
           P == {k \in 0 .. n : \E it : Is(it, k)}
<1>1. 0 \in P
  <2> DEFINE it == [s \in SUBSET (1 .. 0) |-> base]
  <2>1. 1 .. 0 = {}
    OBVIOUS
  <2>2. Is(it, 0)
    BY <2>1 DEF Iterator
  <2> HIDE DEF Is
  <2> QED
    BY <2>2
<1>2. ASSUME NEW k \in 1 .. n, k - 1 \in P PROVE k \in P
  <2>1. PICK f : Is(f, k - 1)
    BY <1>2
  <2> DEFINE it == [s \in SUBSET (1 .. k) |-> IF k \in s THEN h[k, f[s \ {k}]] ELSE f[s]]
  <2>2. \A s \in SUBSET (1 .. k) : s \ {k} \in SUBSET (1 .. k - 1)
    OBVIOUS
  <2>3. \A s \in SUBSET (1 .. k) : k \notin s => s \in SUBSET (1 .. k - 1)
    OBVIOUS
  <2>4. it \in [SUBSET (1 .. k) -> B]
    <3>1. \A s \in SUBSET (1 .. k) : f[s \ {k}] \in B /\ (k \notin s => f[s] \in B)
      BY <2>1, <2>2, <2>3 DEF Iterator
    <3> QED
      BY <3>1
  <2>5. ASSUME NEW s \in SUBSET (1 .. k), s # {}
        PROVE  it[s] = h[Max(s), it[s \ {Max(s)}]]
    <3>1. Max(s) \in s /\ \A y \in s : y <= Max(s)
      BY <2>5, k \in Nat, MinMax
    <3>2. CASE k \in s
      <4>1. Max(s) = k
        <5>1. Max(s) \in 1 .. k /\ k <= Max(s)
          BY <3>1, <3>2
        <5> QED
          BY <5>1
      <4>2. it[s \ {k}] = f[s \ {k}]
        BY <2>2
      <4> QED
        BY <3>2, <4>1, <4>2
    <3>3. CASE k \notin s
      <4>1. f[s] = h[Max(s), f[s \ {Max(s)}]]
        BY <2>1, <2>3, <2>5, <3>3 DEF Iterator
      <4>2. it[s \ {Max(s)}] = f[s \ {Max(s)}]
        BY <2>3, <3>3
      <4> QED
        BY <3>3, <4>1, <4>2
    <3> QED
      BY <3>2, <3>3
  <2>6. it[{}] = base
    BY <2>1 DEF Iterator
  <2>7. Is(it, k)
    <3> HIDE DEF it
    <3> QED
      BY <2>4, <2>5, <2>6 DEF Iterator
  <2> HIDE DEF Is, it
  <2> QED
    BY <2>7
<1>3. n \in P
  <2> HIDE DEF P
  <2> QED
    BY <1>1, <1>2, UpTo
<1> QED
  BY <1>3

-----------------------------------------------------------------------------
(* The folds of ShareNames, one character at a time: acc[k] is what they have  *)
(* made of the first k characters.                                             *)

\* What there is to take from the first k numbers.
LEMMA FirstNumbers ==
    ASSUME NEW n \in Nat, NEW k \in 1 .. n
    PROVE  /\ 1 .. k \in SUBSET (1 .. n) /\ 1 .. k # {}
           /\ Max(1 .. k) = k /\ (1 .. k) \ {Max(1 .. k)} = 1 .. k - 1
<1>1. k \in Nat /\ k # 0
  OBVIOUS
<1>2. Max(1 .. k) = k
  BY <1>1, MaxOfInterval
<1> QED
  BY <1>1, <1>2

\* DashesJoined goes through its argument one character at a time.
LEMMA JoinsOneByOne ==
    ASSUME NEW C, Underscore \in C, NEW s \in Seq(C)
    PROVE  \E acc :
              /\ acc[0] = <<>> /\ acc[Len(s)] = DashesJoined(s)
              /\ \A k \in 1 .. Len(s) : acc[k] = Join(acc[k - 1], s[k])
<1> DEFINE n == Len(s)
           B == Seq(C)
           h == [p \in (1 .. n) \X B |-> Join(p[2], s[p[1]])]
           Folds(it) == it = [t \in SUBSET DOMAIN s |->
                                IF t = {} THEN <<>> ELSE Join(it[t \ {Max(t)}], s[Max(t)])]
           fold == CHOOSE it : Folds(it)
           acc == [k \in 0 .. n |-> fold[1 .. k]]
<1>1. n \in Nat /\ DOMAIN s = 1 .. n /\ \A k \in 1 .. n : s[k] \in C
  OBVIOUS
<1>2. \A out \in B, c \in C : Join(out, c) \in B
  <2> SUFFICES ASSUME NEW out \in B, NEW c \in C PROVE Join(out, c) \in B
    OBVIOUS
  <2>1. Append(out, c) \in B
    OBVIOUS
  <2>2. out # <<>> => Append(Front(out), Underscore) \in B
    BY DEF Front
  <2> QED
    BY <2>1, <2>2 DEF Join
<1>3. h \in [(1 .. n) \X B -> B] /\ <<>> \in B
  <2>1. \A p \in (1 .. n) \X B : s[p[1]] \in C /\ p[2] \in B
    BY <1>1
  <2> HIDE DEF B, n
  <2> QED
    BY <1>2, <2>1 DEF B
<1>4. PICK it : Iterator(it, n, B, <<>>, h)
  <2> HIDE DEF h, B, n
  <2> QED
    BY <1>1, <1>3, Iterates
<1>5. \A t \in SUBSET (1 .. n) : t # {} => Max(t) \in 1 .. n /\ it[t \ {Max(t)}] \in B
  <2> HIDE DEF n
  <2> QED
    BY <1>1, <1>4, MinMax DEF Iterator
<1>6. Folds(it)
  <2>1. \A t \in SUBSET (1 .. n) :
          it[t] = IF t = {} THEN <<>> ELSE Join(it[t \ {Max(t)}], s[Max(t)])
    BY <1>4, <1>5 DEF Iterator
  <2> QED
    BY <1>1, <1>4, <2>1 DEF Iterator
<1>7. Folds(fold)
  <2> HIDE DEF Folds
  <2> QED
    BY <1>6
<1>8. DashesJoined(s) = fold[1 .. n]
  BY <1>1 DEF DashesJoined, FoldLeft, MapThenFoldSet
<1> HIDE DEF fold, n
<1>9. acc[0] = <<>>
  <2>1. 1 .. 0 = {} /\ 0 \in 0 .. n
    BY <1>1
  <2>2. fold[{}] = <<>>
    BY <1>7
  <2> QED
    BY <2>1, <2>2
<1>10. ASSUME NEW k \in 1 .. n PROVE acc[k] = Join(acc[k - 1], s[k])
  <2>0. /\ 1 .. k \in SUBSET (1 .. n) /\ 1 .. k # {}
        /\ Max(1 .. k) = k /\ (1 .. k) \ {Max(1 .. k)} = 1 .. k - 1
    BY <1>1, FirstNumbers
  <2>1. fold[1 .. k] = Join(fold[1 .. k - 1], s[k])
    BY <1>1, <1>7, <2>0
  <2>2. k \in 0 .. n /\ k - 1 \in 0 .. n
    BY <1>1
  <2> QED
    BY <2>1, <2>2
<1>11. acc[n] = DashesJoined(s)
  BY <1>1, <1>8
<1> HIDE DEF acc
<1> QED
  BY <1>9, <1>10, <1>11 DEF n

\* So does the loop of normalizeExtension,
LEMMA KeptOneByOne ==
    ASSUME NEW C, NEW s \in Seq(C)
    PROVE  \E acc :
              /\ acc[0] = <<>> /\ acc[Len(s)] = FoldLeft(Kept, <<>>, s)
              /\ \A k \in 1 .. Len(s) : acc[k] = Kept(acc[k - 1], s[k])
<1> DEFINE n == Len(s)
           B == Seq(C)
           h == [p \in (1 .. n) \X B |-> Kept(p[2], s[p[1]])]
           Folds(it) == it = [t \in SUBSET DOMAIN s |->
                                IF t = {} THEN <<>> ELSE Kept(it[t \ {Max(t)}], s[Max(t)])]
           fold == CHOOSE it : Folds(it)
           acc == [k \in 0 .. n |-> fold[1 .. k]]
<1>1. n \in Nat /\ DOMAIN s = 1 .. n /\ \A k \in 1 .. n : s[k] \in C
  OBVIOUS
<1>2. \A out \in B, c \in C : Kept(out, c) \in B
  <2> SUFFICES ASSUME NEW out \in B, NEW c \in C PROVE Kept(out, c) \in B
    OBVIOUS
  <2> QED
    BY DEF Kept
<1>3. h \in [(1 .. n) \X B -> B] /\ <<>> \in B
  <2>1. \A p \in (1 .. n) \X B : s[p[1]] \in C /\ p[2] \in B
    BY <1>1
  <2> HIDE DEF B, n
  <2> QED
    BY <1>2, <2>1 DEF B
<1>4. PICK it : Iterator(it, n, B, <<>>, h)
  <2> HIDE DEF h, B, n
  <2> QED
    BY <1>1, <1>3, Iterates
<1>5. \A t \in SUBSET (1 .. n) : t # {} => Max(t) \in 1 .. n /\ it[t \ {Max(t)}] \in B
  <2> HIDE DEF n
  <2> QED
    BY <1>1, <1>4, MinMax DEF Iterator
<1>6. Folds(it)
  <2>1. \A t \in SUBSET (1 .. n) :
          it[t] = IF t = {} THEN <<>> ELSE Kept(it[t \ {Max(t)}], s[Max(t)])
    BY <1>4, <1>5 DEF Iterator
  <2> QED
    BY <1>1, <1>4, <2>1 DEF Iterator
<1>7. Folds(fold)
  <2> HIDE DEF Folds
  <2> QED
    BY <1>6
<1>8. FoldLeft(Kept, <<>>, s) = fold[1 .. n]
  BY <1>1 DEF FoldLeft, MapThenFoldSet
<1> HIDE DEF fold, n
<1>9. acc[0] = <<>>
  <2>1. 1 .. 0 = {} /\ 0 \in 0 .. n
    BY <1>1
  <2>2. fold[{}] = <<>>
    BY <1>7
  <2> QED
    BY <2>1, <2>2
<1>10. ASSUME NEW k \in 1 .. n PROVE acc[k] = Kept(acc[k - 1], s[k])
  <2>0. /\ 1 .. k \in SUBSET (1 .. n) /\ 1 .. k # {}
        /\ Max(1 .. k) = k /\ (1 .. k) \ {Max(1 .. k)} = 1 .. k - 1
    BY <1>1, FirstNumbers
  <2>1. fold[1 .. k] = Kept(fold[1 .. k - 1], s[k])
    BY <1>1, <1>7, <2>0
  <2>2. k \in 0 .. n /\ k - 1 \in 0 .. n
    BY <1>1
  <2> QED
    BY <2>1, <2>2
<1>11. acc[n] = FoldLeft(Kept, <<>>, s)
  BY <1>1, <1>8
<1> HIDE DEF acc
<1> QED
  BY <1>9, <1>10, <1>11 DEF n

\* and the one of SanitizeFilename.
LEMMA PutOneByOne ==
    ASSUME NEW C, Underscore \in C, NEW s \in Seq(C)
    PROVE  \E acc :
              /\ acc[0] = <<>> /\ acc[Len(s)] = Cleaned(s)
              /\ \A k \in 1 .. Len(s) : acc[k] = Put(acc[k - 1], s[k])
<1> DEFINE n == Len(s)
           B == Seq(C)
           h == [p \in (1 .. n) \X B |-> Put(p[2], s[p[1]])]
           Folds(it) == it = [t \in SUBSET DOMAIN s |->
                                IF t = {} THEN <<>> ELSE Put(it[t \ {Max(t)}], s[Max(t)])]
           fold == CHOOSE it : Folds(it)
           acc == [k \in 0 .. n |-> fold[1 .. k]]
<1>1. n \in Nat /\ DOMAIN s = 1 .. n /\ \A k \in 1 .. n : s[k] \in C
  OBVIOUS
<1>2. \A out \in B, c \in C : Put(out, c) \in B
  <2> SUFFICES ASSUME NEW out \in B, NEW c \in C PROVE Put(out, c) \in B
    OBVIOUS
  <2> QED
    BY DEF Put
<1>3. h \in [(1 .. n) \X B -> B] /\ <<>> \in B
  <2>1. \A p \in (1 .. n) \X B : s[p[1]] \in C /\ p[2] \in B
    BY <1>1
  <2> HIDE DEF B, n
  <2> QED
    BY <1>2, <2>1 DEF B
<1>4. PICK it : Iterator(it, n, B, <<>>, h)
  <2> HIDE DEF h, B, n
  <2> QED
    BY <1>1, <1>3, Iterates
<1>5. \A t \in SUBSET (1 .. n) : t # {} => Max(t) \in 1 .. n /\ it[t \ {Max(t)}] \in B
  <2> HIDE DEF n
  <2> QED
    BY <1>1, <1>4, MinMax DEF Iterator
<1>6. Folds(it)
  <2>1. \A t \in SUBSET (1 .. n) :
          it[t] = IF t = {} THEN <<>> ELSE Put(it[t \ {Max(t)}], s[Max(t)])
    BY <1>4, <1>5 DEF Iterator
  <2> QED
    BY <1>1, <1>4, <2>1 DEF Iterator
<1>7. Folds(fold)
  <2> HIDE DEF Folds
  <2> QED
    BY <1>6
<1>8. Cleaned(s) = fold[1 .. n]
  BY <1>1 DEF Cleaned, FoldLeft, MapThenFoldSet
<1> HIDE DEF fold, n
<1>9. acc[0] = <<>>
  <2>1. 1 .. 0 = {} /\ 0 \in 0 .. n
    BY <1>1
  <2>2. fold[{}] = <<>>
    BY <1>7
  <2> QED
    BY <2>1, <2>2
<1>10. ASSUME NEW k \in 1 .. n PROVE acc[k] = Put(acc[k - 1], s[k])
  <2>0. /\ 1 .. k \in SUBSET (1 .. n) /\ 1 .. k # {}
        /\ Max(1 .. k) = k /\ (1 .. k) \ {Max(1 .. k)} = 1 .. k - 1
    BY <1>1, FirstNumbers
  <2>1. fold[1 .. k] = Put(fold[1 .. k - 1], s[k])
    BY <1>1, <1>7, <2>0
  <2>2. k \in 0 .. n /\ k - 1 \in 0 .. n
    BY <1>1
  <2> QED
    BY <2>1, <2>2
<1>11. acc[n] = Cleaned(s)
  BY <1>1, <1>8
<1> HIDE DEF acc
<1> QED
  BY <1>9, <1>10, <1>11 DEF n

-----------------------------------------------------------------------------
(* Pieces of names. *)

\* The characters that names are made of, and those that they drop or end at,
\* are told apart.
LEMMA Characters ==
    /\ Letter \cap {".", "-", Underscore, Blank, "/"} = {}
    /\ Underscore # "." /\ Underscore # "-" /\ Underscore # "/" /\ Underscore # Blank
    /\ Blank # "." /\ Blank # "-" /\ Blank # "/"
<1>1. Letter \cap {".", "-", Underscore, Blank, "/"} = {}
  BY NamesAssumption
<1>2. /\ Underscore # "." /\ Underscore # "-" /\ Underscore # "/" /\ Underscore # Blank
      /\ Blank # "." /\ Blank # "-" /\ Blank # "/"
  BY Zenon DEF Underscore, Blank
<1> QED
  BY <1>1, <1>2

\* t stands in s, after the first d characters.
StandsAfter(t, s, d) ==
    /\ d + Len(t) <= Len(s)
    /\ \A i \in 1 .. Len(t) : t[i] = s[d + i]

Piece(t, s) == \E d \in Nat : StandsAfter(t, s, d)

\* Slices are pieces, and stand where they were cut.
LEMMA SubSeqsArePieces ==
    ASSUME NEW C, NEW s \in Seq(C), NEW a \in Nat \ {0}, NEW b \in Nat, a - 1 <= b, b <= Len(s)
    PROVE  /\ SubSeq(s, a, b) \in Seq(C) /\ Len(SubSeq(s, a, b)) = b - a + 1
           /\ StandsAfter(SubSeq(s, a, b), s, a - 1) /\ Piece(SubSeq(s, a, b), s)
<1>1. SubSeq(s, a, b) \in Seq(C) /\ Len(SubSeq(s, a, b)) = b - a + 1
  OBVIOUS
<1>2. \A i \in 1 .. b - a + 1 : SubSeq(s, a, b)[i] = s[a - 1 + i]
  OBVIOUS
<1> DEFINE t == SubSeq(s, a, b)
           d == a - 1
<1>3. d \in Nat /\ d + Len(t) <= Len(s) /\ \A i \in 1 .. Len(t) : t[i] = s[d + i]
  BY <1>1, <1>2
<1> HIDE DEF t, d
<1>4. StandsAfter(t, s, d) /\ Piece(t, s)
  BY <1>3 DEF StandsAfter, Piece
<1> QED
  BY <1>1, <1>4 DEF t, d

\* What a concatenation consists of.
LEMMA Together ==
    ASSUME NEW C, NEW s \in Seq(C), NEW t \in Seq(C)
    PROVE  /\ Len(s \o t) = Len(s) + Len(t)
           /\ \A i \in 1 .. Len(s) : (s \o t)[i] = s[i]
           /\ \A i \in 1 .. Len(t) : (s \o t)[Len(s) + i] = t[i]
OBVIOUS

\* A sequence without its last element.
LEMMA FrontIsPiece ==
    ASSUME NEW C, NEW s \in Seq(C), s # <<>>
    PROVE  /\ Front(s) \in Seq(C) /\ Len(s) \in Nat \ {0} /\ Len(Front(s)) = Len(s) - 1
           /\ StandsAfter(Front(s), s, 0) /\ Piece(Front(s), s)
           /\ \A i \in 1 .. Len(s) - 1 : Front(s)[i] = s[i]
<1> DEFINE m == Len(s) - 1
<1>1. 1 \in Nat \ {0} /\ m \in Nat /\ 1 - 1 <= m /\ m <= Len(s) /\ 1 - 1 = 0 /\ m - 1 + 1 = m /\ Len(s) = m + 1
  OBVIOUS
<1>2. Front(s) = SubSeq(s, 1, m)
  BY DEF Front
<1> HIDE DEF m
<1>3. /\ Front(s) \in Seq(C) /\ Len(Front(s)) = m
      /\ StandsAfter(Front(s), s, 0) /\ Piece(Front(s), s)
  BY <1>1, <1>2, SubSeqsArePieces
<1>4. \A i \in 1 .. m : Front(s)[i] = s[0 + i] /\ 0 + i = i
  BY <1>1, <1>3 DEF StandsAfter
<1> QED
  BY <1>1, <1>3, <1>4 DEF m

\* Everything and nothing are pieces too.
LEMMA WholeIsPiece ==
    ASSUME NEW C, NEW s \in Seq(C)
    PROVE  Piece(s, s) /\ Piece(<<>>, s)
<1>1. StandsAfter(s, s, 0) /\ StandsAfter(<<>>, s, 0)
  BY DEF StandsAfter
<1> QED
  BY <1>1 DEF Piece

\* Slicing a slice gives a slice.
LEMMA PiecesOfPieces ==
    ASSUME NEW C, NEW s \in Seq(C), NEW t \in Seq(C), NEW u \in Seq(C), Piece(u, t), Piece(t, s)
    PROVE  Piece(u, s)
<1>1. PICK d \in Nat : StandsAfter(u, t, d)
  BY DEF Piece
<1>2. PICK e \in Nat : StandsAfter(t, s, e)
  BY DEF Piece
<1>3. \A i \in 1 .. Len(u) : d + i \in 1 .. Len(t)
  BY <1>1 DEF StandsAfter
<1>4. \A i \in 1 .. Len(u) : u[i] = s[(e + d) + i]
  BY <1>1, <1>2, <1>3 DEF StandsAfter
<1>5. StandsAfter(u, s, e + d)
  BY <1>1, <1>2, <1>4 DEF StandsAfter
<1> QED
  BY <1>5 DEF Piece

\* Trim leaves what is between the first and the last character to keep.
LEMMA TrimLeaves ==
    ASSUME NEW C, NEW s \in Seq(C), NEW chars
    PROVE  /\ Trim(s, chars) \in Seq(C) /\ Piece(Trim(s, chars), s)
           /\ Trim(s, chars) # <<>> =>
                 Trim(s, chars)[1] \notin chars /\ Last(Trim(s, chars)) \notin chars
           /\ s # <<>> /\ s[1] \notin chars /\ Last(s) \notin chars => Trim(s, chars) = s
<1> DEFINE kept == {i \in DOMAIN s : s[i] \notin chars}
           t == Trim(s, chars)
<1>1. DOMAIN s = 1 .. Len(s) /\ Len(s) \in Nat
  OBVIOUS
<1>2. t = IF kept = {} THEN <<>> ELSE SubSeq(s, Min(kept), Max(kept))
  BY DEF Trim
<1>3. CASE kept = {}
  <2>1. t = <<>>
    BY <1>2, <1>3
  <2>2. s = <<>> \/ s[1] \in chars
    BY <1>1, <1>3
  <2> QED
    BY <2>1, <2>2, WholeIsPiece
<1>4. CASE kept # {}
  <2>1. /\ Min(kept) \in kept /\ \A y \in kept : Min(kept) <= y
        /\ Max(kept) \in kept /\ \A y \in kept : y <= Max(kept)
    <3>1. kept \in SUBSET (1 .. Len(s))
      BY <1>1
    <3> HIDE DEF kept
    <3> QED
      BY <1>1, <1>4, <3>1, MinMax
  <2> DEFINE a == Min(kept)
             b == Max(kept)
  <2>2. t = SubSeq(s, a, b)
    BY <1>2, <1>4
  <2>3. a \in 1 .. Len(s) /\ b \in 1 .. Len(s) /\ a <= b
    BY <1>1, <2>1
  <2>0. s[a] \notin chars /\ s[b] \notin chars
    BY <2>1
  <2>4. \A i \in 1 .. Len(s) : s[i] \notin chars => a <= i /\ i <= b
    BY <1>1, <2>1
  <2> HIDE DEF a, b, t
  <2>5. t \in Seq(C) /\ Len(t) = b - a + 1 /\ Piece(t, s) /\ StandsAfter(t, s, a - 1)
    BY <1>1, <2>2, <2>3, SubSeqsArePieces
  <2>6. t[1] = s[a] /\ t[Len(t)] = s[b]
    BY <2>3, <2>5 DEF StandsAfter
  <2>7. s # <<>> /\ s[1] \notin chars /\ s[Len(s)] \notin chars => t = s
    <3> SUFFICES ASSUME s # <<>>, s[1] \notin chars, s[Len(s)] \notin chars PROVE t = s
      OBVIOUS
    <3>1. 1 \in 1 .. Len(s) /\ Len(s) \in 1 .. Len(s)
      OBVIOUS
    <3>2. a <= 1 /\ Len(s) <= b
      BY <2>4, <3>1
    <3>3. \A m, n \in Nat : m \in 1 .. n /\ m <= 1 => m = 1
      OBVIOUS
    <3>4. \A m, n \in Nat : m \in 1 .. n /\ n <= m => m = n
      OBVIOUS
    <3>5. a \in Nat /\ b \in Nat
      BY <2>3
    <3>6. a = 1
      BY <1>1, <2>3, <3>2, <3>3, <3>5
    <3>7. b = Len(s)
      BY <1>1, <2>3, <3>2, <3>4, <3>5
    <3> QED
      BY <2>2, <3>6, <3>7
  <2> QED
    BY <2>0, <2>3, <2>5, <2>6, <2>7 DEF Last, t
<1> QED
  BY <1>3, <1>4

\* What an index found by SelectLastInSeq says.
LEMMA LastIndexes ==
    ASSUME NEW C, NEW s \in Seq(C), NEW c
    PROVE  /\ LastIndex(s, c) \in 0 .. Len(s)
           /\ LastIndex(s, c) # 0 => s[LastIndex(s, c)] = c
           /\ \A i \in 1 .. Len(s) : s[i] = c => i <= LastIndex(s, c)
<1> DEFINE found == {i \in 1 .. Len(s) : s[i] = c}
<1>1. LastIndex(s, c) = IF found # {} THEN Max(found) ELSE 0
  BY DEF LastIndex, SelectLastInSeq
<1>2. found # {} => Max(found) \in found /\ \A y \in found : y <= Max(found)
  <2>1. found \in SUBSET (1 .. Len(s)) /\ Len(s) \in Nat
    OBVIOUS
  <2> HIDE DEF found
  <2> QED
    BY <2>1, MinMax
<1>3. CASE found = {}
  BY <1>1, <1>3
<1>4. CASE found # {}
  <2> DEFINE m == Max(found)
  <2>1. m \in 1 .. Len(s) /\ s[m] = c /\ \A y \in found : y <= m
    BY <1>2, <1>4
  <2>2. LastIndex(s, c) = m
    BY <1>1, <1>4
  <2> HIDE DEF m
  <2> QED
    BY <2>1, <2>2
<1> QED
  BY <1>3, <1>4

\* What is cut fits, and is not cut if it fits.
LEMMA Cuts ==
    ASSUME NEW C, NEW s \in Seq(C), NEW n \in Nat
    PROVE  /\ Cut(s, n) \in Seq(C) /\ Piece(Cut(s, n), s) /\ Len(Cut(s, n)) <= n
           /\ Len(s) <= n => Cut(s, n) = s
<1>1. CASE Len(s) > n
  <2>1. SubSeq(s, 1, n) \in Seq(C) /\ Len(SubSeq(s, 1, n)) = n - 1 + 1 /\ Piece(SubSeq(s, 1, n), s)
    BY <1>1, 1 \in Nat \ {0}, 1 - 1 <= n, n <= Len(s), SubSeqsArePieces
  <2> QED
    BY <1>1, <2>1 DEF Cut
<1>2. CASE ~(Len(s) > n)
  BY <1>2, WholeIsPiece DEF Cut
<1> QED
  BY <1>1, <1>2

\* A name is what stands before its extension, and its extension.
LEMMA ExtensionsArePieces ==
    ASSUME NEW C, NEW s \in Seq(C)
    PROVE  /\ Extension(s) \in Seq(C) /\ Piece(Extension(s), s)
           /\ WithoutExtension(s) \in Seq(C) /\ Piece(WithoutExtension(s), s)
           /\ StandsAfter(WithoutExtension(s), s, 0)
           /\ Len(s) = Len(WithoutExtension(s)) + Len(Extension(s))
           /\ Extension(s) # <<>> => s[Len(s) - Len(Extension(s)) + 1] = "."
           /\ StandsAfter(Extension(s), s, Len(s) - Len(Extension(s)))
<1> DEFINE k == LastIndex(s, ".")
           e == Extension(s)
           w == WithoutExtension(s)
<1>1. k \in 0 .. Len(s) /\ (k # 0 => s[k] = ".")
  BY LastIndexes
<1>2. e = IF k = 0 THEN <<>> ELSE SubSeq(s, k, Len(s))
  BY DEF Extension
<1>3. w = SubSeq(s, 1, Len(s) - Len(e))
  BY DEF WithoutExtension
<1>4. Len(s) \in Nat
  OBVIOUS
<1> HIDE DEF k, e, w
<1>5. /\ e \in Seq(C) /\ Piece(e, s) /\ Len(e) \in 0 .. Len(s)
      /\ StandsAfter(e, s, Len(s) - Len(e)) /\ (e # <<>> => s[Len(s) - Len(e) + 1] = ".")
  <2>1. CASE k = 0
    <3>1. e = <<>> /\ Len(e) = 0
      BY <1>2, <2>1
    <3>2. StandsAfter(<<>>, s, Len(s) - 0)
      BY <1>4 DEF StandsAfter
    <3> QED
      BY <1>4, <3>1, <3>2, WholeIsPiece
  <2>2. CASE k # 0
    <3>1. k \in Nat \ {0} /\ k - 1 <= Len(s) /\ e = SubSeq(s, k, Len(s))
      BY <1>1, <1>2, <1>4, <2>2
    <3>2. e \in Seq(C) /\ Len(e) = Len(s) - k + 1 /\ StandsAfter(e, s, k - 1) /\ Piece(e, s)
      BY <1>4, <3>1, SubSeqsArePieces
    <3>3. k - 1 = Len(s) - Len(e) /\ k = Len(s) - Len(e) + 1
      BY <1>4, <3>1, <3>2
    <3>4. Len(e) \in 0 .. Len(s)
      BY <1>1, <1>4, <2>2, <3>2
    <3> QED
      BY <1>1, <2>2, <3>2, <3>3, <3>4
  <2> QED
    BY <2>1, <2>2
<1>6. w \in Seq(C) /\ Len(w) = Len(s) - Len(e) /\ StandsAfter(w, s, 0) /\ Piece(w, s)
  <2>1. Len(s) - Len(e) \in Nat /\ 1 - 1 <= Len(s) - Len(e) /\ Len(s) - Len(e) <= Len(s)
    BY <1>4, <1>5
  <2>2. 1 \in Nat \ {0} /\ 1 - 1 = 0 /\ Len(s) - Len(e) - 1 + 1 = Len(s) - Len(e)
    BY <2>1
  <2> QED
    BY <1>3, <2>1, <2>2, SubSeqsArePieces
<1> QED
  BY <1>4, <1>5, <1>6 DEF e, w

\* A dot and characters other than dots are an extension of whatever they follow.
LEMMA ExtensionOfEnding ==
    ASSUME NEW C, NEW b \in Seq(C), NEW l \in Seq(C), \A i \in 1 .. Len(l) : l[i] # "."
    PROVE  /\ Extension(b \o (<<".">> \o l)) = <<".">> \o l
           /\ WithoutExtension(b \o (<<".">> \o l)) = b
<1> DEFINE D == C \cup {"."}
           e == <<".">> \o l
           s == b \o e
           k == LastIndex(s, ".")
<1>1. /\ b \in Seq(D) /\ l \in Seq(D) /\ e \in Seq(D) /\ s \in Seq(D)
      /\ Len(e) = 1 + Len(l) /\ Len(s) = Len(b) + 1 + Len(l) /\ Len(b) \in Nat /\ Len(l) \in Nat
  OBVIOUS
<1>2. /\ \A i \in 1 .. Len(b) : s[i] = b[i]
      /\ s[Len(b) + 1] = "."
      /\ \A i \in 1 .. Len(l) : s[Len(b) + 1 + i] = l[i]
      /\ \A i \in 1 .. Len(e) : s[Len(b) + i] = e[i]
  OBVIOUS
<1> HIDE DEF D, e, s
<1>3. k \in 0 .. Len(s) /\ (k # 0 => s[k] = ".") /\ \A i \in 1 .. Len(s) : s[i] = "." => i <= k
  BY <1>1, LastIndexes
<1> HIDE DEF k
<1>4. k = Len(b) + 1
  <2>1. Len(b) + 1 <= k
    BY <1>1, <1>2, <1>3
  <2>2. ASSUME k > Len(b) + 1 PROVE FALSE
    <3>1. k - Len(b) - 1 \in 1 .. Len(l) /\ k = Len(b) + 1 + (k - Len(b) - 1)
      BY <1>1, <1>3, <2>2
    <3>2. s[k] = l[k - Len(b) - 1]
      BY <1>2, <3>1
    <3> QED
      BY <1>3, <2>1, <3>1, <3>2
  <2> QED
    BY <1>1, <1>3, <2>1, <2>2
<1>5. Extension(s) = SubSeq(s, Len(b) + 1, Len(s))
  BY <1>1, <1>4 DEF Extension, k
<1>6. SubSeq(s, Len(b) + 1, Len(s)) = e
  <2> DEFINE u == SubSeq(s, Len(b) + 1, Len(s))
  <2>1. u \in Seq(D) /\ Len(u) = Len(e)
    BY <1>1
  <2>2. \A i \in 1 .. Len(e) : u[i] = s[Len(b) + i]
    BY <1>1
  <2> HIDE DEF u
  <2>3. \A i \in 1 .. Len(e) : u[i] = e[i]
    BY <1>2, <2>2
  <2> QED
    BY <1>1, <2>1, <2>3, SeqEqual DEF u
<1>7. WithoutExtension(s) = SubSeq(s, 1, Len(b))
  <2>1. Len(s) - Len(e) = Len(b)
    BY <1>1
  <2> QED
    BY <1>5, <1>6, <2>1 DEF WithoutExtension
<1>8. SubSeq(s, 1, Len(b)) = b
  <2> DEFINE u == SubSeq(s, 1, Len(b))
  <2>1. u \in Seq(D) /\ Len(u) = Len(b)
    BY <1>1
  <2>2. \A i \in 1 .. Len(b) : u[i] = s[i]
    BY <1>1
  <2> HIDE DEF u
  <2>3. \A i \in 1 .. Len(b) : u[i] = b[i]
    BY <1>2, <2>2
  <2> QED
    BY <1>1, <2>1, <2>3, SeqEqual DEF u
<1> QED
  BY <1>5, <1>6, <1>7, <1>8 DEF s, e

\* path.Base cuts a piece out, the whole where there is no slash.
LEMMA PathBases ==
    ASSUME NEW C, NEW s \in Seq(C)
    PROVE  /\ PathBase(s) \in Seq(C) /\ Piece(PathBase(s), s)
           /\ (\A i \in 1 .. Len(s) : s[i] # "/") => PathBase(s) = s
<1> DEFINE found == {i \in 1 .. Len(s) : s[i] # "/"}
           end == SelectLastInSeq(s, LAMBDA x : x # "/")
           t == SubSeq(s, 1, end)
           k == LastIndex(t, "/")
<1>1. end = IF found # {} THEN Max(found) ELSE 0
  BY DEF SelectLastInSeq
<1>2. found # {} => Max(found) \in found /\ \A y \in found : y <= Max(found)
  <2>1. found \in SUBSET (1 .. Len(s)) /\ Len(s) \in Nat
    OBVIOUS
  <2> HIDE DEF found
  <2> QED
    BY <2>1, MinMax
<1>3. Len(s) \in Nat /\ PathBase(s) = SubSeq(t, k + 1, end)
  BY DEF PathBase
<1> HIDE DEF end
<1>4. end \in 0 .. Len(s) /\ \A y \in found : y <= end
  BY <1>1, <1>2, <1>3
<1> HIDE DEF found, t
<1>5. t \in Seq(C) /\ Len(t) = end /\ Piece(t, s) /\ StandsAfter(t, s, 0)
  <2>1. 1 \in Nat \ {0} /\ end \in Nat /\ 1 - 1 <= end /\ end <= Len(s) /\ 1 - 1 = 0 /\ end - 1 + 1 = end
    BY <1>3, <1>4
  <2> QED
    BY <2>1, SubSeqsArePieces DEF t
<1>6. k \in 0 .. end /\ (k # 0 => t[k] = "/")
  BY <1>5, LastIndexes
<1> HIDE DEF k
<1>7. SubSeq(t, k + 1, end) \in Seq(C) /\ Piece(SubSeq(t, k + 1, end), t)
  <2> DEFINE first == k + 1
  <2>1. first \in Nat \ {0} /\ end \in Nat /\ first - 1 <= end /\ end <= Len(t)
    BY <1>3, <1>4, <1>5, <1>6
  <2> HIDE DEF first
  <2>2. SubSeq(t, first, end) \in Seq(C) /\ Piece(SubSeq(t, first, end), t)
    BY <1>5, <2>1, SubSeqsArePieces
  <2> QED
    BY <2>2 DEF first
<1>8. ASSUME \A i \in 1 .. Len(s) : s[i] # "/" PROVE SubSeq(t, k + 1, end) = s
  <2>1. end = Len(s)
    <3>1. CASE Len(s) = 0
      BY <1>3, <1>4, <3>1
    <3>2. CASE Len(s) # 0
      <4>1. Len(s) \in found
        BY <1>3, <1>8, <3>2 DEF found
      <4> QED
        BY <1>3, <1>4, <4>1
    <3> QED
      BY <3>1, <3>2
  <2>2. t = s
    BY <2>1 DEF t
  <2>3. k = 0
    BY <1>3, <1>6, <1>8, <2>1, <2>2
  <2> QED
    BY <2>1, <2>2, <2>3
<1> QED
  BY <1>3, <1>5, <1>7, <1>8, PiecesOfPieces

\* strings.TrimPrefix, with prefixes that have a slash.
LEMMA StripPrefixes ==
    ASSUME NEW C, NEW s \in Seq(C), NEW D, NEW p \in Seq(D), NEW i \in 1 .. Len(p), p[i] = "/"
    PROVE  /\ StripPrefix(p, s) \in Seq(C) /\ Piece(StripPrefix(p, s), s)
           /\ (\A j \in 1 .. Len(s) : s[j] # "/") => StripPrefix(p, s) = s
<1>1. CASE IsPrefix(p, s)
  <2>1. Len(p) <= Len(s) /\ SubSeq(p, 1, Len(p)) = SubSeq(s, 1, Len(p))
    BY <1>1 DEF IsPrefix
  <2>2. s[i] = "/" /\ i \in 1 .. Len(s)
    <3>1. SubSeq(p, 1, Len(p))[i] = p[i] /\ i \in 1 .. Len(s) /\ Len(p) \in Nat /\ Len(s) \in Nat
      BY <2>1
    <3>2. SubSeq(s, 1, Len(p))[i] = s[i]
      BY <2>1, <3>1
    <3> QED
      BY <2>1, <3>1, <3>2
  <2>3. SubSeq(s, Len(p) + 1, Len(s)) \in Seq(C) /\ Piece(SubSeq(s, Len(p) + 1, Len(s)), s)
    <3>1. Len(p) + 1 \in Nat \ {0} /\ Len(s) \in Nat /\ Len(p) + 1 - 1 <= Len(s) /\ Len(s) <= Len(s)
      BY <2>1
    <3> QED
      BY <3>1, SubSeqsArePieces
  <2> QED
    BY <1>1, <2>2, <2>3 DEF StripPrefix
<1>2. CASE ~IsPrefix(p, s)
  BY <1>2, WholeIsPiece DEF StripPrefix
<1> QED
  BY <1>1, <1>2

-----------------------------------------------------------------------------
(* Clean names: characters that names keep, without runs of dashes and         *)
(* underscores.                                                                *)

NameChar == Letter \cup Edge
Joint == {"-", Underscore}

NoRuns(s) == \A i \in 1 .. Len(s) - 1 : ~(s[i] \in Joint /\ s[i + 1] \in Joint)

Clean(s) == s \in Seq(NameChar) /\ NoRuns(s)

\* Cutting and trimming keep a name clean: no run of separators appears.
LEMMA CleanPieces ==
    ASSUME NEW s, Clean(s), NEW C, NEW t \in Seq(C), Piece(t, s)
    PROVE  Clean(t)
<1>1. PICK d \in Nat : StandsAfter(t, s, d)
  BY DEF Piece
<1>2. s \in Seq(NameChar) /\ NoRuns(s) /\ Len(s) \in Nat /\ Len(t) \in Nat
  BY DEF Clean
<1>3. \A i \in 1 .. Len(t) : t[i] = s[d + i] /\ d + i \in 1 .. Len(s)
  BY <1>1, <1>2 DEF StandsAfter
<1>4. t \in Seq(NameChar)
  <2>1. \A i \in 1 .. Len(t) : t[i] \in NameChar
    BY <1>2, <1>3
  <2> QED
    BY <2>1
<1>5. ASSUME NEW i \in 1 .. Len(t) - 1 PROVE ~(t[i] \in Joint /\ t[i + 1] \in Joint)
  <2>1. i \in 1 .. Len(t) /\ i + 1 \in 1 .. Len(t) /\ d + (i + 1) = (d + i) + 1
    BY <1>2
  <2>2. t[i] = s[d + i] /\ t[i + 1] = s[(d + i) + 1] /\ d + i \in 1 .. Len(s) - 1
    BY <1>2, <1>3, <2>1
  <2> QED
    BY <1>2, <2>2 DEF NoRuns
<1> QED
  BY <1>4, <1>5 DEF Clean, NoRuns

\* Clean names put together are clean unless a run is where they meet.
LEMMA CleanTogether ==
    ASSUME NEW s, Clean(s), NEW t, Clean(t), s # <<>> /\ t # <<>> => ~(s[Len(s)] \in Joint /\ t[1] \in Joint)
    PROVE  Clean(s \o t)
<1>1. /\ s \in Seq(NameChar) /\ t \in Seq(NameChar) /\ NoRuns(s) /\ NoRuns(t)
      /\ Len(s) \in Nat /\ Len(t) \in Nat /\ s \o t \in Seq(NameChar) /\ Len(s \o t) = Len(s) + Len(t)
  BY DEF Clean
<1> DEFINE u == s \o t
<1>2. \A i \in 1 .. Len(s) : u[i] = s[i]
  BY <1>1
<1>3. \A i \in 1 .. Len(t) : u[Len(s) + i] = t[i]
  BY <1>1
<1> HIDE DEF u
<1>4. ASSUME NEW i \in 1 .. Len(s) + Len(t) - 1 PROVE ~(u[i] \in Joint /\ u[i + 1] \in Joint)
  <2>1. CASE i + 1 <= Len(s)
    <3>1. i \in 1 .. Len(s) - 1 /\ u[i] = s[i] /\ u[i + 1] = s[i + 1]
      BY <1>1, <1>2, <2>1
    <3> QED
      BY <1>1, <3>1 DEF NoRuns
  <2>2. CASE i = Len(s)
    <3>1. u[i] = s[Len(s)] /\ u[i + 1] = t[1] /\ s # <<>> /\ t # <<>>
      BY <1>1, <1>2, <1>3, <2>2
    <3> QED
      BY <3>1
  <2>3. CASE i > Len(s)
    <3>1. /\ i - Len(s) \in 1 .. Len(t) - 1 /\ i - Len(s) + 1 \in 1 .. Len(t)
          /\ i = Len(s) + (i - Len(s)) /\ i + 1 = Len(s) + (i - Len(s) + 1)
      BY <1>1, <2>3
    <3>2. u[i] = t[i - Len(s)] /\ u[i + 1] = t[i - Len(s) + 1]
      BY <1>1, <1>3, <3>1
    <3> QED
      BY <1>1, <3>1, <3>2 DEF NoRuns
  <2> QED
    BY <1>1, <2>1, <2>2, <2>3
<1> QED
  BY <1>1, <1>4 DEF Clean, NoRuns, u

\* One step of a loop that so far has copied its argument.
LEMMA AppendNext ==
    ASSUME NEW C, NEW s \in Seq(C), NEW k \in 1 .. Len(s)
    PROVE  Append(SubSeq(s, 1, k - 1), s[k]) = SubSeq(s, 1, k)
<1> DEFINE t == SubSeq(s, 1, k - 1)
           u == SubSeq(s, 1, k)
<1>1. /\ k \in Nat /\ s[k] \in C
      /\ t \in Seq(C) /\ Len(t) = k - 1 /\ \A i \in 1 .. k - 1 : t[i] = s[i]
  OBVIOUS
<1>2. u \in Seq(C) /\ Len(u) = k /\ \A i \in 1 .. k : u[i] = s[i]
  OBVIOUS
<1> HIDE DEF t, u
<1>3. Append(t, s[k]) \in Seq(C) /\ Len(Append(t, s[k])) = k
  BY <1>1
<1>4. \A i \in 1 .. k : Append(t, s[k])[i] = u[i]
  BY <1>1, <1>2
<1>5. Append(t, s[k]) = u
  BY <1>2, <1>3, <1>4, SeqEqual
<1> QED
  BY <1>5 DEF t, u

\* Cleaned keeps only what names are made of, and all of a clean name.
LEMMA CleanedNames ==
    ASSUME NEW C, NEW s \in Seq(C)
    PROVE  Cleaned(s) \in Seq(NameChar) /\ (Clean(s) => Cleaned(s) = s)
<1> DEFINE D == C \cup {Underscore}
           n == Len(s)
<1>1. s \in Seq(D) /\ Underscore \in D /\ n \in Nat /\ DOMAIN s = 1 .. n
  OBVIOUS
<1>2. PICK acc : /\ acc[0] = <<>> /\ acc[n] = Cleaned(s)
                 /\ \A k \in 1 .. n : acc[k] = Put(acc[k - 1], s[k])
  <2> HIDE DEF D
  <2> QED
    BY <1>1, PutOneByOne
<1>3. acc[n] \in Seq(NameChar)
  <2> DEFINE P == {k \in 0 .. n : acc[k] \in Seq(NameChar)}
  <2>1. 0 \in P
    <3>1. <<>> \in Seq(NameChar) /\ 0 \in 0 .. n
      BY <1>1
    <3> QED
      BY <1>2, <3>1
  <2>2. ASSUME NEW k \in 1 .. n, k - 1 \in P PROVE k \in P
    <3>1. Put(acc[k - 1], s[k]) \in Seq(NameChar)
      BY <2>2 DEF Put, NameChar, Edge
    <3> QED
      BY <1>1, <1>2, <3>1
  <2>3. n \in P
    <3> HIDE DEF P, n
    <3> QED
      BY <1>1, <2>1, <2>2, UpTo
  <2> QED
    BY <2>3
<1>4. ASSUME Clean(s) PROVE acc[n] = s
  <2>0. s \in Seq(NameChar) /\ NoRuns(s)
    BY <1>4 DEF Clean
  <2> DEFINE P == {k \in 0 .. n : acc[k] = SubSeq(s, 1, k)}
  <2>1. 0 \in P
    <3>1. SubSeq(s, 1, 0) = <<>> /\ 0 \in 0 .. n
      BY <1>1
    <3> QED
      BY <1>2, <3>1
  <2>2. ASSUME NEW k \in 1 .. n, k - 1 \in P PROVE k \in P
    <3> DEFINE t == SubSeq(s, 1, k - 1)
    <3>1. /\ k \in Nat /\ s[k] \in NameChar
          /\ t \in Seq(NameChar) /\ Len(t) = k - 1 /\ \A i \in 1 .. k - 1 : t[i] = s[i]
      BY <2>0
    <3>2. acc[k] = Put(t, s[k])
      BY <1>2, <2>2
    <3>3. Append(t, s[k]) = SubSeq(s, 1, k)
      BY AppendNext
    <3> HIDE DEF t
    <3>4. s[k] = Underscore => ~(t # <<>> /\ t[Len(t)] = Underscore)
      <4> SUFFICES ASSUME s[k] = Underscore, t # <<>>, t[Len(t)] = Underscore PROVE FALSE
        OBVIOUS
      <4>1. k - 1 \in 1 .. n - 1 /\ k - 1 + 1 = k
        BY <1>1, <3>1
      <4>2. s[k - 1] = Underscore
        BY <3>1, <4>1
      <4> QED
        BY <2>0, <4>1, <4>2 DEF NoRuns, Joint
    <3>5. Put(t, s[k]) = Append(t, s[k])
      BY <3>1, <3>4 DEF Put, NameChar, Edge, Last
    <3> QED
      BY <1>1, <3>2, <3>3, <3>5
  <2>3. n \in P
    <3> HIDE DEF P, n
    <3> QED
      BY <1>1, <2>1, <2>2, UpTo
  <2> QED
    BY <2>3
<1> QED
  BY <1>2, <1>3, <1>4

\* DashesJoined leaves no run, and a name without runs as it is.
LEMMA JoinedNames ==
    ASSUME NEW s \in Seq(NameChar)
    PROVE  Clean(DashesJoined(s)) /\ (NoRuns(s) => DashesJoined(s) = s)
<1> DEFINE n == Len(s)
<1>1. Underscore \in NameChar /\ n \in Nat /\ DOMAIN s = 1 .. n
  BY DEF NameChar, Edge
<1>2. PICK acc : /\ acc[0] = <<>> /\ acc[n] = DashesJoined(s)
                 /\ \A k \in 1 .. n : acc[k] = Join(acc[k - 1], s[k])
  BY <1>1, JoinsOneByOne
<1>3. Clean(acc[n])
  <2> DEFINE P == {k \in 0 .. n : Clean(acc[k])}
  <2>1. 0 \in P
    <3>1. Clean(<<>>) /\ 0 \in 0 .. n
      BY <1>1 DEF Clean, NoRuns
    <3> QED
      BY <1>2, <3>1
  <2>2. ASSUME NEW k \in 1 .. n, k - 1 \in P PROVE k \in P
    <3> DEFINE out == acc[k - 1]
               c == s[k]
    <3>1. out \in Seq(NameChar) /\ NoRuns(out) /\ c \in NameChar /\ Len(out) \in Nat
      BY <2>2 DEF Clean
    <3>2. acc[k] = Join(out, c)
      BY <1>2
    <3>8. \A d \in NameChar : Clean(<<d>>) /\ \A t \in Seq(NameChar) : Append(t, d) = t \o <<d>>
      BY DEF Clean, NoRuns
    <3> HIDE DEF out, c
    <3>3. ASSUME c \in Joint /\ out # <<>> /\ out[Len(out)] \in Joint PROVE Clean(acc[k])
      <4> DEFINE t == Front(out)
      <4>1. Join(out, c) = Append(t, Underscore)
        BY <3>3 DEF Join, Joint, Last
      <4>3. t \in Seq(NameChar) /\ Len(t) = Len(out) - 1 /\ Piece(t, out) /\ StandsAfter(t, out, 0)
        BY <3>1, <3>3, FrontIsPiece
      <4> HIDE DEF t
      <4>4. Clean(t)
        BY <3>1, <4>3, CleanPieces DEF Clean
      <4>5. t # <<>> => t[Len(t)] \notin Joint
        <5> SUFFICES ASSUME t # <<>> PROVE t[Len(t)] \notin Joint
          OBVIOUS
        <5>1. Len(t) \in 1 .. Len(t) /\ Len(t) \in 1 .. Len(out) - 1 /\ 0 + Len(t) = Len(t) /\ Len(t) + 1 = Len(out)
          BY <3>1, <4>3
        <5>2. t[Len(t)] = out[Len(t)]
          BY <4>3, <5>1 DEF StandsAfter
        <5> QED
          BY <3>1, <3>3, <5>1, <5>2 DEF NoRuns
      <4>6. Append(t, Underscore) = t \o <<Underscore>> /\ Clean(<<Underscore>>)
        BY <1>1, <3>8, <4>3
      <4>7. Clean(t \o <<Underscore>>)
        BY <4>4, <4>5, <4>6, CleanTogether
      <4> QED
        BY <3>2, <4>1, <4>6, <4>7
    <3>4. ASSUME ~(c \in Joint /\ out # <<>> /\ out[Len(out)] \in Joint) PROVE Clean(acc[k])
      <4>1. Join(out, c) = out \o <<c>> /\ Clean(<<c>>) /\ <<c>>[1] = c
        BY <3>1, <3>4, <3>8 DEF Join, Joint, Last
      <4>2. Clean(out \o <<c>>)
        BY <3>1, <3>4, <4>1, CleanTogether DEF Clean
      <4> QED
        BY <3>2, <4>1, <4>2
    <3>5. k \in 0 .. n
      BY <1>1
    <3> QED
      BY <3>3, <3>4, <3>5
  <2>3. n \in P
    <3> HIDE DEF P, n
    <3> QED
      BY <1>1, <2>1, <2>2, UpTo
  <2> QED
    BY <2>3
<1>4. ASSUME NoRuns(s) PROVE acc[n] = s
  <2> DEFINE P == {k \in 0 .. n : acc[k] = SubSeq(s, 1, k)}
  <2>1. 0 \in P
    <3>1. SubSeq(s, 1, 0) = <<>> /\ 0 \in 0 .. n
      BY <1>1
    <3> QED
      BY <1>2, <3>1
  <2>2. ASSUME NEW k \in 1 .. n, k - 1 \in P PROVE k \in P
    <3> DEFINE t == SubSeq(s, 1, k - 1)
    <3>1. /\ k \in Nat /\ s[k] \in NameChar
          /\ t \in Seq(NameChar) /\ Len(t) = k - 1 /\ \A i \in 1 .. k - 1 : t[i] = s[i]
      OBVIOUS
    <3>2. acc[k] = Join(t, s[k])
      BY <1>2, <2>2
    <3>3. Append(t, s[k]) = SubSeq(s, 1, k)
      BY AppendNext
    <3> HIDE DEF t
    <3>4. ~(s[k] \in Joint /\ t # <<>> /\ t[Len(t)] \in Joint)
      <4> SUFFICES ASSUME s[k] \in Joint, t # <<>>, t[Len(t)] \in Joint PROVE FALSE
        OBVIOUS
      <4>1. k - 1 \in 1 .. n - 1 /\ k - 1 + 1 = k
        BY <1>1, <3>1
      <4>2. s[k - 1] \in Joint
        BY <3>1, <4>1
      <4> QED
        BY <1>4, <4>1, <4>2 DEF NoRuns
    <3>5. Join(t, s[k]) = Append(t, s[k])
      BY <3>1, <3>4 DEF Join, Joint, Last
    <3> QED
      BY <1>1, <3>2, <3>3, <3>5
  <2>3. n \in P
    <3> HIDE DEF P, n
    <3> QED
      BY <1>1, <2>1, <2>2, UpTo
  <2> QED
    BY <2>3
<1> QED
  BY <1>2, <1>3, <1>4

-----------------------------------------------------------------------------
(* Extensions. *)

\* A dot and letters, within the limit.
IsExtension(e) ==
    \E l \in Seq(Letter) : l # <<>> /\ e = <<".">> \o l /\ 1 + Len(l) <= ExtMax

\* An extension, character by character.
LEMMA LettersOfExtension ==
    ASSUME NEW l \in Seq(Letter)
    PROVE  /\ <<".">> \o l \in Seq(NameChar) /\ Len(<<".">> \o l) = 1 + Len(l)
           /\ (<<".">> \o l)[1] = "." /\ \A i \in 1 .. Len(l) : (<<".">> \o l)[i + 1] = l[i]
           /\ \A i \in 1 .. Len(l) : l[i] \in Letter /\ l[i] # "." /\ l[i] \notin Edge
<1>1. \A i \in 1 .. Len(l) : l[i] \in Letter
  OBVIOUS
<1>2. l \in Seq(NameChar) /\ <<".">> \in Seq(NameChar)
  BY DEF NameChar, Edge
<1>3. \A c \in Letter : c # "." /\ c \notin Edge
  BY Characters DEF Edge
<1>4. /\ <<".">> \o l \in Seq(NameChar) /\ Len(<<".">> \o l) = 1 + Len(l)
      /\ (<<".">> \o l)[1] = "." /\ \A i \in 1 .. Len(l) : (<<".">> \o l)[i + 1] = l[i]
  <2>1. \A i \in 1 .. Len(l) : (<<".">> \o l)[1 + i] = l[i] /\ 1 + i = i + 1
    BY <1>2
  <2> QED
    BY <1>2, <2>1
<1> QED
  BY <1>1, <1>3, <1>4

\* Put behind any name, an extension is found again, and so is the name.
LEMMA ExtensionsAreClean ==
    ASSUME NEW e, IsExtension(e)
    PROVE  /\ Clean(e) /\ e # <<>> /\ e[1] = "." /\ e[Len(e)] \notin Edge
           /\ Len(e) \in Nat /\ Len(e) <= ExtMax
           /\ \A C, b : b \in Seq(C) => Extension(b \o e) = e /\ WithoutExtension(b \o e) = b
<1>1. PICK l \in Seq(Letter) : l # <<>> /\ e = <<".">> \o l /\ 1 + Len(l) <= ExtMax
  BY DEF IsExtension
<1>2. /\ e \in Seq(NameChar) /\ Len(e) = 1 + Len(l) /\ e[1] = "." /\ Len(l) \in Nat \ {0}
      /\ \A i \in 1 .. Len(l) : e[i + 1] = l[i] /\ l[i] # "." /\ l[i] \notin Edge
  BY <1>1, LettersOfExtension
<1>3. NoRuns(e)
  <2> SUFFICES ASSUME NEW i \in 1 .. Len(e) - 1 PROVE e[i + 1] \notin Joint
    BY DEF NoRuns
  <2>1. i \in 1 .. Len(l)
    BY <1>2
  <2> QED
    BY <1>2, <2>1 DEF Joint, Edge
<1>4. e[Len(e)] \notin Edge
  <2>1. Len(l) \in 1 .. Len(l) /\ Len(e) = Len(l) + 1
    BY <1>2
  <2> QED
    BY <1>2, <2>1
<1>5. ASSUME NEW C, NEW b \in Seq(C)
      PROVE  Extension(b \o e) = e /\ WithoutExtension(b \o e) = b
  <2> DEFINE D == C \cup Letter
  <2>1. b \in Seq(D) /\ l \in Seq(D)
    OBVIOUS
  <2> HIDE DEF D
  <2> QED
    BY <1>1, <1>2, <2>1, ExtensionOfEnding
<1>6. e # <<>>
  BY <1>2
<1> QED
  BY <1>1, <1>2, <1>3, <1>4, <1>5, <1>6 DEF Clean

\* normalizeExtension gives an extension or nothing, and keeps extensions.
LEMMA NormalExtensions ==
    ASSUME NEW C, NEW e \in Seq(C)
    PROVE  /\ NormalizeExtension(e) = <<>> \/ IsExtension(NormalizeExtension(e))
           /\ IsExtension(e) => NormalizeExtension(e) = e
<1> DEFINE kept == FoldLeft(Kept, <<>>, e)
           n == Len(e)
<1>1. n \in Nat /\ DOMAIN e = 1 .. n
  OBVIOUS
<1>2. PICK acc : /\ acc[0] = <<>> /\ acc[n] = kept
                 /\ \A k \in 1 .. n : acc[k] = Kept(acc[k - 1], e[k])
  BY KeptOneByOne
<1>3. NormalizeExtension(e) = IF kept = <<>> THEN <<>> ELSE Cut(<<".">> \o kept, ExtMax)
  BY DEF NormalizeExtension
<1> HIDE DEF kept
<1>4. kept \in Seq(Letter)
  <2> DEFINE P == {k \in 0 .. n : acc[k] \in Seq(Letter)}
  <2>1. 0 \in P
    <3>1. <<>> \in Seq(Letter) /\ 0 \in 0 .. n
      BY <1>1
    <3> QED
      BY <1>2, <3>1
  <2>2. ASSUME NEW k \in 1 .. n, k - 1 \in P PROVE k \in P
    <3>1. Kept(acc[k - 1], e[k]) \in Seq(Letter)
      BY <2>2 DEF Kept
    <3> QED
      BY <1>1, <1>2, <3>1
  <2>3. n \in P
    <3> HIDE DEF P, n
    <3> QED
      BY <1>1, <2>1, <2>2, UpTo
  <2> QED
    BY <1>2, <2>3
<1>5. ExtMax \in Nat /\ 1 < ExtMax
  BY NamesAssumption
<1>6. ASSUME kept # <<>> PROVE IsExtension(Cut(<<".">> \o kept, ExtMax))
  <2> DEFINE m == Len(kept)
  <2>1. m \in Nat \ {0}
    BY <1>4, <1>6
  <2>2. Len(<<".">> \o kept) = 1 + m
    BY <1>4, LettersOfExtension
  <2>3. CASE 1 + m <= ExtMax
    <3>1. Cut(<<".">> \o kept, ExtMax) = <<".">> \o kept
      BY <1>5, <2>1, <2>2, <2>3 DEF Cut
    <3> QED
      BY <1>4, <1>6, <2>3, <3>1 DEF IsExtension
  <2>4. CASE 1 + m > ExtMax
    <3> DEFINE l == SubSeq(kept, 1, ExtMax - 1)
               w == <<".">> \o kept
    <3>1. ExtMax - 1 \in 1 .. m
      BY <1>5, <2>1, <2>4
    <3>2. l \in Seq(Letter) /\ Len(l) = ExtMax - 1 /\ \A i \in 1 .. ExtMax - 1 : l[i] = kept[i]
      BY <1>4, <3>1
    <3>3. Cut(w, ExtMax) = SubSeq(w, 1, ExtMax)
      BY <1>5, <2>1, <2>2, <2>4 DEF Cut
    <3>4. w \in Seq(NameChar) /\ w[1] = "." /\ \A i \in 1 .. m : w[i + 1] = kept[i]
      BY <1>4, LettersOfExtension
    <3>5. /\ <<".">> \o l \in Seq(NameChar) /\ Len(<<".">> \o l) = 1 + (ExtMax - 1)
          /\ (<<".">> \o l)[1] = "." /\ \A i \in 1 .. ExtMax - 1 : (<<".">> \o l)[i + 1] = l[i]
      BY <3>2, LettersOfExtension
    <3> HIDE DEF l, w, m
    <3> DEFINE u == SubSeq(w, 1, ExtMax)
               v == <<".">> \o l
    <3>6. u \in Seq(NameChar) /\ Len(u) = ExtMax /\ \A i \in 1 .. ExtMax : u[i] = w[i]
      BY <1>5, <2>1, <2>2, <2>4, <3>4 DEF w
    <3> HIDE DEF u, v
    <3>7. ASSUME NEW i \in 1 .. ExtMax PROVE u[i] = v[i]
      <4>1. CASE i = 1
        BY <3>4, <3>5, <3>6, <4>1 DEF v
      <4>2. CASE i # 1
        <5>1. i - 1 \in 1 .. ExtMax - 1 /\ i - 1 \in 1 .. m /\ i = (i - 1) + 1
          BY <1>5, <2>1, <3>1, <4>2
        <5>2. u[i] = kept[i - 1]
          BY <3>4, <3>6, <5>1
        <5>3. v[i] = l[i - 1]
          BY <3>5, <5>1 DEF v
        <5> QED
          BY <3>2, <5>1, <5>2, <5>3
      <4> QED
        BY <4>1, <4>2
    <3>8. v \in Seq(NameChar) /\ Len(v) = ExtMax
      BY <1>5, <3>5 DEF v
    <3>9. u = v
      BY <3>6, <3>7, <3>8, SeqEqual
    <3>10. l # <<>> /\ 1 + Len(l) <= ExtMax
      BY <1>5, <3>2
    <3> QED
      BY <3>2, <3>3, <3>9, <3>10 DEF IsExtension, u, v, w
  <2> QED
    BY <1>5, <2>1, <2>3, <2>4
<1>7. ASSUME IsExtension(e) PROVE kept # <<>> /\ Cut(<<".">> \o kept, ExtMax) = e
  <2>1. PICK l \in Seq(Letter) : l # <<>> /\ e = <<".">> \o l /\ 1 + Len(l) <= ExtMax
    BY <1>7 DEF IsExtension
  <2>2. /\ n = 1 + Len(l) /\ e[1] = "." /\ Len(l) \in Nat \ {0}
        /\ \A i \in 1 .. Len(l) : e[i + 1] = l[i] /\ l[i] \in Letter
    BY <2>1, LettersOfExtension
  <2> DEFINE P == {k \in 0 .. n : k = 0 \/ acc[k] = SubSeq(l, 1, k - 1)}
  <2>3. 0 \in P
    BY <1>1
  <2>4. ASSUME NEW k \in 1 .. n, k - 1 \in P PROVE k \in P
    <3>1. k \in 0 .. n /\ acc[k] = Kept(acc[k - 1], e[k])
      BY <1>1, <1>2
    <3>2. ASSUME k = 1 PROVE acc[k] = SubSeq(l, 1, k - 1)
      <4>1. acc[1] = Kept(<<>>, ".")
        BY <1>2, <2>2, <3>1, <3>2
      <4>2. Kept(<<>>, ".") = <<>>
        BY Characters DEF Kept
      <4>3. SubSeq(l, 1, 0) = <<>> /\ k - 1 = 0
        BY <3>2
      <4> QED
        BY <3>2, <4>1, <4>2, <4>3
    <3>3. ASSUME k # 1 PROVE acc[k] = SubSeq(l, 1, k - 1)
      <4> DEFINE j == k - 1
      <4>1. j \in 1 .. Len(l) /\ j # 0 /\ k = j + 1
        BY <2>2, <3>3
      <4>2. acc[j] = SubSeq(l, 1, j - 1)
        BY <2>4, <4>1
      <4>3. e[k] = l[j] /\ l[j] \in Letter
        BY <2>2, <4>1
      <4> HIDE DEF j
      <4>4. Append(SubSeq(l, 1, j - 1), l[j]) = SubSeq(l, 1, j)
        BY <4>1, AppendNext
      <4> QED
        BY <3>1, <4>2, <4>3, <4>4 DEF Kept, j
    <3> QED
      BY <3>1, <3>2, <3>3
  <2>5. n \in P
    <3> HIDE DEF P, n
    <3>1. 0 .. n \subseteq P
      <4>1. n \in Nat
        BY <1>1
      <4> QED
        BY <4>1, <2>3, <2>4, UpTo
    <3>2. n \in 0 .. n
      BY <1>1
    <3> QED
      BY <3>1, <3>2
  <2>6. kept = SubSeq(l, 1, Len(l))
    <3>1. n # 0 /\ n - 1 = Len(l)
      BY <2>2
    <3> QED
      BY <1>2, <2>5, <3>1
  <2>7. kept = l
    BY <2>6
  <2> QED
    BY <1>5, <2>1, <2>2, <2>7 DEF Cut
<1> QED
  BY <1>3, <1>6, <1>7

\* The extensions that the code writes itself.
LEMMA KnownExtensions ==
    IsExtension(Mp4) /\ IsExtension(Bin)
<1>1. ASSUME NEW c \in Letter PROVE IsExtension(<<".", c>>)
  <2>1. <<c>> \in Seq(Letter) /\ <<c>> # <<>> /\ Len(<<c>>) = 1 /\ <<".", c>> = <<".">> \o <<c>>
    OBVIOUS
  <2>2. 1 + 1 <= ExtMax
    BY NamesAssumption
  <2> QED
    BY <2>1, <2>2 DEF IsExtension
<1>2. "mp4" \in Letter /\ "bin" \in Letter
  BY NamesAssumption
<1> QED
  BY <1>1, <1>2 DEF Mp4, Bin

-----------------------------------------------------------------------------
(* Dots, and how much follows them. *)

\* Where t has a dot, s has one that is followed by as much.
EndsNoLonger(t, s) ==
    \A i \in 1 .. Len(t) : t[i] = "." =>
        \E j \in 1 .. Len(s) : s[j] = "." /\ Len(t) - i <= Len(s) - j

\* A dot followed by LongExt characters or more.
LongEnding(s) == \E k \in 1 .. Len(s) : s[k] = "." /\ Len(s) - k >= LongExt

\* Cutting and trimming put no dot further from the end.
LEMMA PiecesEndNoLonger ==
    ASSUME NEW C, NEW s \in Seq(C), NEW t \in Seq(C), Piece(t, s)
    PROVE  EndsNoLonger(t, s)
<1>1. PICK d \in Nat : StandsAfter(t, s, d)
  BY DEF Piece
<1>2. Len(s) \in Nat /\ Len(t) \in Nat
  OBVIOUS
<1> SUFFICES ASSUME NEW i \in 1 .. Len(t), t[i] = "."
             PROVE  \E j \in 1 .. Len(s) : s[j] = "." /\ Len(t) - i <= Len(s) - j
  BY DEF EndsNoLonger
<1>3. d + i \in 1 .. Len(s) /\ s[d + i] = "." /\ Len(t) - i <= Len(s) - (d + i)
  BY <1>1, <1>2 DEF StandsAfter
<1> QED
  BY <1>3

\* Sanitizing compares endings step by step,
LEMMA EndsOfEnds ==
    ASSUME NEW C, NEW s \in Seq(C), NEW D, NEW t \in Seq(D), NEW E, NEW u \in Seq(E),
           EndsNoLonger(u, t), EndsNoLonger(t, s)
    PROVE  EndsNoLonger(u, s)
<1>1. Len(s) \in Nat /\ Len(t) \in Nat /\ Len(u) \in Nat
  OBVIOUS
<1> SUFFICES ASSUME NEW i \in 1 .. Len(u), u[i] = "."
             PROVE  \E j \in 1 .. Len(s) : s[j] = "." /\ Len(u) - i <= Len(s) - j
  BY DEF EndsNoLonger
<1>2. PICK j \in 1 .. Len(t) : t[j] = "." /\ Len(u) - i <= Len(t) - j
  BY DEF EndsNoLonger
<1>3. PICK k \in 1 .. Len(s) : s[k] = "." /\ Len(t) - j <= Len(s) - k
  BY <1>2 DEF EndsNoLonger
<1>4. Len(u) - i <= Len(s) - k
  BY <1>1, <1>2, <1>3
<1> QED
  BY <1>3, <1>4

\* and a long ending that comes out was there before.
LEMMA LongEndings ==
    ASSUME NEW C, NEW s \in Seq(C), NEW D, NEW t \in Seq(D), EndsNoLonger(t, s), LongEnding(t)
    PROVE  LongEnding(s)
<1>1. PICK i \in 1 .. Len(t) : t[i] = "." /\ Len(t) - i >= LongExt
  BY DEF LongEnding
<1>2. PICK j \in 1 .. Len(s) : s[j] = "." /\ Len(t) - i <= Len(s) - j
  BY <1>1 DEF EndsNoLonger
<1>3. Len(s) \in Nat /\ Len(t) \in Nat /\ LongExt \in Nat
  BY NamesAssumption
<1>4. Len(s) - j >= LongExt
  BY <1>1, <1>2, <1>3
<1> QED
  BY <1>2, <1>4 DEF LongEnding

\* What has been made of the first k characters of a name.
EndsWithin(out, s, k) ==
    \A i \in 1 .. Len(out) : out[i] = "." => \E j \in 1 .. k : s[j] = "." /\ Len(out) - i <= k - j

\* A loop that drops a character brings no dot further from the end,
LEMMA DroppingEnds ==
    ASSUME NEW C, NEW s, NEW k \in Nat \ {0}, NEW out \in Seq(C), EndsWithin(out, s, k - 1)
    PROVE  EndsWithin(out, s, k)
<1> SUFFICES ASSUME NEW i \in 1 .. Len(out), out[i] = "."
             PROVE  \E j \in 1 .. k : s[j] = "." /\ Len(out) - i <= k - j
  BY DEF EndsWithin
<1>1. PICK j \in 1 .. k - 1 : s[j] = "." /\ Len(out) - i <= k - 1 - j
  BY DEF EndsWithin
<1>2. j \in 1 .. k /\ Len(out) - i <= k - j
  <2>1. Len(out) \in Nat
    OBVIOUS
  <2> QED
    BY <1>1, <2>1
<1> QED
  BY <1>1, <1>2

\* nor does one that writes it.
LEMMA AppendingEnds ==
    ASSUME NEW C, NEW s, NEW k \in Nat \ {0}, NEW out \in Seq(C), EndsWithin(out, s, k - 1),
           NEW c \in C, c = "." => s[k] = "."
    PROVE  EndsWithin(Append(out, c), s, k)
<1> DEFINE t == Append(out, c)
           n == Len(out)
<1>1. n \in Nat /\ Len(t) = n + 1 /\ t[n + 1] = c /\ \A i \in 1 .. n : t[i] = out[i]
  OBVIOUS
<1> HIDE DEF t, n
<1> SUFFICES ASSUME NEW i \in 1 .. n + 1, t[i] = "."
             PROVE  \E j \in 1 .. k : s[j] = "." /\ n + 1 - i <= k - j
  BY <1>1 DEF EndsWithin, t
<1>2. CASE i = n + 1
  <2>1. s[k] = "." /\ k \in 1 .. k /\ n + 1 - i <= k - k
    BY <1>1, <1>2
  <2> QED
    BY <2>1
<1>3. CASE i # n + 1
  <2>1. i \in 1 .. n /\ out[i] = "."
    BY <1>1, <1>3
  <2>2. PICK j \in 1 .. k - 1 : s[j] = "." /\ n - i <= k - 1 - j
    BY <2>1 DEF EndsWithin, n
  <2>3. j \in 1 .. k /\ n + 1 - i <= k - j
    BY <1>1, <2>1, <2>2
  <2> QED
    BY <2>2, <2>3
<1> QED
  BY <1>2, <1>3

\* So cleaning does not,
LEMMA CleanedEndsNoLonger ==
    ASSUME NEW C, NEW s \in Seq(C)
    PROVE  EndsNoLonger(Cleaned(s), s)
<1> DEFINE D == C \cup {Underscore}
           n == Len(s)
<1>1. s \in Seq(D) /\ Underscore \in D /\ n \in Nat /\ DOMAIN s = 1 .. n
  OBVIOUS
<1>2. PICK acc : /\ acc[0] = <<>> /\ acc[n] = Cleaned(s)
                 /\ \A k \in 1 .. n : acc[k] = Put(acc[k - 1], s[k])
  <2> HIDE DEF D
  <2> QED
    BY <1>1, PutOneByOne
<1> DEFINE P == {k \in 0 .. n : acc[k] \in Seq(D) /\ EndsWithin(acc[k], s, k)}
<1>3. 0 \in P
  <2>1. <<>> \in Seq(D) /\ EndsWithin(<<>>, s, 0) /\ 0 \in 0 .. n
    BY <1>1 DEF EndsWithin
  <2> QED
    BY <1>2, <2>1
<1>4. ASSUME NEW k \in 1 .. n, k - 1 \in P PROVE k \in P
  <2> DEFINE out == acc[k - 1]
             c == s[k]
  <2>1. /\ out \in Seq(D) /\ EndsWithin(out, s, k - 1) /\ k \in Nat \ {0} /\ c \in D
        /\ Underscore \in D /\ acc[k] = Put(out, c) /\ k \in 0 .. n /\ (c = "." => s[k] = ".")
    BY <1>1, <1>2, <1>4
  <2> HIDE DEF out, D, n, c
  <2>2. /\ Append(out, c) \in Seq(D) /\ Append(out, Underscore) \in Seq(D)
        /\ EndsWithin(out, s, k) /\ EndsWithin(Append(out, c), s, k)
    <3>1. EndsWithin(out, s, k)
      BY <2>1, DroppingEnds
    <3>2. EndsWithin(Append(out, c), s, k)
      BY <2>1, AppendingEnds
    <3> QED
      BY <2>1, <3>1, <3>2
  <2>3. EndsWithin(Append(out, Underscore), s, k)
    BY <2>1, Characters, AppendingEnds
  <2>4. Put(out, c) \in {out, Append(out, c), Append(out, Underscore)}
    BY DEF Put
  <2>5. acc[k] \in Seq(D) /\ EndsWithin(acc[k], s, k)
    BY <2>1, <2>2, <2>3, <2>4
  <2> QED
    BY <2>1, <2>5
<1>5. n \in P
  <2> HIDE DEF P, n
  <2> QED
    BY <1>1, <1>3, <1>4, UpTo
<1> QED
  BY <1>2, <1>5 DEF EndsWithin, EndsNoLonger

\* nor does joining separators, which replaces no dot.
LEMMA JoinedEndsNoLonger ==
    ASSUME NEW s \in Seq(NameChar)
    PROVE  EndsNoLonger(DashesJoined(s), s)
<1> DEFINE n == Len(s)
<1>1. Underscore \in NameChar /\ n \in Nat /\ DOMAIN s = 1 .. n
  BY DEF NameChar, Edge
<1>2. PICK acc : /\ acc[0] = <<>> /\ acc[n] = DashesJoined(s)
                 /\ \A k \in 1 .. n : acc[k] = Join(acc[k - 1], s[k])
  BY <1>1, JoinsOneByOne
<1> DEFINE P == {k \in 0 .. n : acc[k] \in Seq(NameChar) /\ EndsWithin(acc[k], s, k)}
<1>3. 0 \in P
  <2>1. <<>> \in Seq(NameChar) /\ EndsWithin(<<>>, s, 0) /\ 0 \in 0 .. n
    BY <1>1 DEF EndsWithin
  <2> QED
    BY <1>2, <2>1
<1>4. ASSUME NEW k \in 1 .. n, k - 1 \in P PROVE k \in P
  <2> DEFINE out == acc[k - 1]
             c == s[k]
  <2>1. /\ out \in Seq(NameChar) /\ EndsWithin(out, s, k - 1) /\ k \in Nat \ {0} /\ c \in NameChar
        /\ acc[k] = Join(out, c) /\ k \in 0 .. n /\ (c = "." => s[k] = ".")
    BY <1>1, <1>2, <1>4
  <2> HIDE DEF out, n, c
  <2>2. Append(out, c) \in Seq(NameChar) /\ EndsWithin(Append(out, c), s, k)
    BY <2>1, AppendingEnds
  <2>3. ASSUME out # <<>>
        PROVE  /\ Append(Front(out), Underscore) \in Seq(NameChar)
               /\ EndsWithin(Append(Front(out), Underscore), s, k)
    <3> DEFINE m == Len(out)
               u == Front(out)
               t == Append(Front(out), Underscore)
    <3>0. /\ m \in Nat \ {0} /\ u \in Seq(NameChar) /\ Len(u) = m - 1
          /\ \A i \in 1 .. m - 1 : u[i] = out[i]
      BY <2>1, <2>3, FrontIsPiece
    <3>5. t = Append(u, Underscore)
      OBVIOUS
    <3> HIDE DEF t, m, u
    <3>1. /\ m \in Nat \ {0} /\ t \in Seq(NameChar) /\ Len(t) = m /\ t[m] = Underscore
          /\ \A i \in 1 .. m - 1 : t[i] = out[i]
      BY <1>1, <3>0, <3>5
    <3>2. ASSUME NEW i \in 1 .. m, t[i] = "."
          PROVE  \E j \in 1 .. k - 1 : s[j] = "." /\ m - i <= k - 1 - j
      <4>1. i \in 1 .. m - 1
        BY <3>1, <3>2, Characters
      <4>2. out[i] = "." /\ i \in 1 .. Len(out)
        BY <3>1, <3>2, <4>1 DEF m
      <4> QED
        BY <2>1, <4>2 DEF EndsWithin, m
    <3>3. EndsWithin(t, s, k - 1)
      BY <3>1, <3>2 DEF EndsWithin
    <3>4. EndsWithin(t, s, k)
      BY <2>1, <3>1, <3>3, DroppingEnds
    <3> QED
      BY <3>1, <3>4 DEF t
  <2>4. acc[k] \in Seq(NameChar) /\ EndsWithin(acc[k], s, k)
    BY <2>1, <2>2, <2>3 DEF Join
  <2> QED
    BY <2>1, <2>4
<1>5. n \in P
  <2> HIDE DEF P, n
  <2> QED
    BY <1>1, <1>3, <1>4, UpTo
<1> QED
  BY <1>2, <1>5 DEF EndsWithin, EndsNoLonger

-----------------------------------------------------------------------------
(* Names. *)

\* Names made of one letter, like Default and Unnamed.
LEMMA LettersAreClean ==
    ASSUME NEW c \in Letter
    PROVE  /\ Clean(<<c>>) /\ <<c>> # <<>> /\ Len(<<c>>) = 1 /\ <<c>>[1] \notin Edge
           /\ \A C, s : s \in Seq(C) => EndsNoLonger(<<c>>, s)
<1>1. c # "." /\ c \notin Edge
  BY Characters DEF Edge
<1>2. <<c>> \in Seq(NameChar) /\ Len(<<c>>) = 1 /\ <<c>>[1] = c
  BY DEF NameChar
<1>3. \A i \in 1 .. Len(<<c>>) : <<c>>[i] = c
  BY <1>2
<1> QED
  BY <1>1, <1>2, <1>3 DEF Clean, NoRuns, EndsNoLonger

\* What the constants are, without the strings that are costly to compare.
LEMMA Words ==
    /\ "share" \in Letter /\ "upload" \in Letter /\ "random" \in Letter
    /\ \A n \in {ExtMax, LongExt, RandomMax, SanitizedMax, AliasMax} : n \in Nat \ {0}
    /\ 1 < ExtMax /\ ExtMax < LongExt /\ RandomMax + 2 + ExtMax <= SanitizedMax
    /\ SanitizedMax + ExtMax <= AliasMax /\ LongExt <= SanitizedMax
BY NamesAssumption

\* A part of a name without its edges, or the default for an empty one.
LEMMA PartsAreTrimmed ==
    ASSUME NEW s, Clean(s), NEW c \in Letter
    PROVE  LET t == OrElse(Trim(s, Edge), <<c>>) IN
           /\ Clean(t) /\ t # <<>> /\ t[1] \notin Edge /\ t[Len(t)] \notin Edge
           /\ Len(t) \in Nat /\ (Len(t) <= Len(s) \/ Len(t) = 1) /\ EndsNoLonger(t, s)
<1> DEFINE u == Trim(s, Edge)
           t == OrElse(u, <<c>>)
<1>1. s \in Seq(NameChar) /\ Len(s) \in Nat
  BY DEF Clean
<1>2. u \in Seq(NameChar) /\ Piece(u, s) /\ (u # <<>> => u[1] \notin Edge /\ u[Len(u)] \notin Edge)
  BY <1>1, TrimLeaves DEF Last
<1>5. t = OrElse(u, <<c>>)
  OBVIOUS
<1> SUFFICES /\ Clean(t) /\ t # <<>> /\ t[1] \notin Edge /\ t[Len(t)] \notin Edge
             /\ Len(t) \in Nat /\ (Len(t) <= Len(s) \/ Len(t) = 1) /\ EndsNoLonger(t, s)
  OBVIOUS
<1> HIDE DEF u, t
<1>3. CASE u = <<>>
  <2>1. t = <<c>>
    BY <1>3, <1>5 DEF OrElse
  <2>2. Clean(<<c>>) /\ Len(<<c>>) = 1 /\ <<c>>[1] \notin Edge /\ EndsNoLonger(<<c>>, s)
    BY <1>1, LettersAreClean
  <2>3. <<c>> # <<>> /\ 1 \in Nat
    OBVIOUS
  <2> QED
    BY <2>1, <2>2, <2>3
<1>4. CASE u # <<>>
  <2>1. t = u
    BY <1>4, <1>5 DEF OrElse
  <2>2. Clean(u) /\ EndsNoLonger(u, s)
    BY <1>1, <1>2, CleanPieces, PiecesEndNoLonger
  <2>3. Len(u) \in Nat /\ Len(u) <= Len(s)
    BY <1>1, <1>2 DEF Piece, StandsAfter
  <2> QED
    BY <1>2, <1>4, <2>1, <2>2, <2>3
<1> QED
  BY <1>3, <1>4

\* What cutting a long name does: it panics only for a long ending.
LEMMA ShortenedNames ==
    ASSUME NEW s, Clean(s), s # <<>>
    PROVE  /\ Clean(Shortened(s))
           /\ Shortened(s) = Panic => LongEnding(s)
           /\ LongEnding(Shortened(s)) => LongEnding(s)
           /\ Len(s) <= SanitizedMax => Shortened(s) = s
<1> DEFINE e == Extension(s)
           w == WithoutExtension(s)
           end == IF Len(e) > LongExt THEN <<>> ELSE e
           limit == SanitizedMax - Len(end)
           t == Trim(SubSeq(w, 1, limit), Edge)
           r == Shortened(s)
<1>1. s \in Seq(NameChar) /\ Len(s) \in Nat
  BY DEF Clean
<1>2. /\ e \in Seq(NameChar) /\ Piece(e, s) /\ w \in Seq(NameChar) /\ Piece(w, s)
      /\ StandsAfter(w, s, 0) /\ Len(s) = Len(w) + Len(e)
      /\ (e # <<>> => s[Len(s) - Len(e) + 1] = ".")
      /\ StandsAfter(e, s, Len(s) - Len(e))
      /\ Len(e) \in Nat /\ Len(w) \in Nat
  BY <1>1, ExtensionsArePieces
<1>3. r = IF Len(s) <= SanitizedMax THEN s
          ELSE IF Len(w) < limit THEN Panic ELSE OrElse(t \o end, Unnamed)
  BY DEF Shortened
<1>4. SanitizedMax \in Nat /\ LongExt \in Nat /\ LongExt <= SanitizedMax
  BY Words
<1> HIDE DEF r, e, w
<1>5. Clean(e) /\ Clean(w) /\ Clean(<<>>)
  <2>1. Clean(<<>>)
    BY DEF Clean, NoRuns
  <2> QED
    BY <1>2, <2>1, CleanPieces
<1>6. Clean(end) /\ Len(end) \in Nat /\ (end = e \/ (end = <<>> /\ Len(e) > LongExt))
  BY <1>2, <1>5, Len(<<>>) = 0
<1>7. end # <<>> => end = e /\ Len(e) <= LongExt /\ end[1] = "."
  <2> SUFFICES ASSUME end # <<>> PROVE end = e /\ Len(e) <= LongExt /\ end[1] = "."
    OBVIOUS
  <2>1. end = e /\ Len(e) <= LongExt
    BY <1>2, <1>4
  <2>2. 1 \in 1 .. Len(e) /\ e[1] = s[Len(s) - Len(e) + 1]
    BY <1>2, <2>1 DEF StandsAfter
  <2> QED
    BY <1>2, <2>1, <2>2
<1> HIDE DEF end
<1>8. limit \in Nat
  <2>1. Len(end) <= LongExt
    BY <1>2, <1>4, <1>6, <1>7
  <2> QED
    BY <1>4, <1>6, <2>1
<1> HIDE DEF limit
<1>9. ASSUME r # s, r # Panic
      PROVE  /\ limit <= Len(w) /\ t \in Seq(NameChar) /\ Clean(t) /\ Piece(t, w)
             /\ (t # <<>> => t[Len(t)] \notin Edge)
             /\ r = OrElse(t \o end, Unnamed)
  <2>1. ~(Len(w) < limit) /\ r = OrElse(t \o end, Unnamed)
    BY <1>3, <1>9
  <2>2. limit <= Len(w)
    BY <1>2, <1>8, <2>1
  <2> DEFINE v == SubSeq(w, 1, limit)
  <2>3. v \in Seq(NameChar) /\ Piece(v, w)
    BY <1>2, <1>8, <2>2, 1 \in Nat \ {0}, 1 - 1 <= limit, SubSeqsArePieces
  <2> HIDE DEF v
  <2>4. /\ Trim(v, Edge) \in Seq(NameChar) /\ Piece(Trim(v, Edge), v)
        /\ (Trim(v, Edge) # <<>> => Trim(v, Edge)[Len(Trim(v, Edge))] \notin Edge)
    BY <2>3, TrimLeaves DEF Last
  <2>5. Piece(Trim(v, Edge), w)
    BY <1>2, <2>3, <2>4, PiecesOfPieces
  <2>6. Clean(Trim(v, Edge))
    BY <1>5, <2>4, <2>5, CleanPieces
  <2> QED
    BY <2>1, <2>2, <2>4, <2>5, <2>6 DEF v
<1> HIDE DEF t
<1>10. "upload" \in Letter
  BY Words
<1>11. ASSUME r # s, r # Panic PROVE Clean(r)
  <2>1. Clean(t \o end)
    <3>1. t # <<>> => t[Len(t)] \notin Joint
      BY <1>9, <1>11 DEF Joint, Edge
    <3> QED
      BY <1>6, <1>9, <1>11, <3>1, CleanTogether
  <2>2. Clean(Unnamed)
    BY <1>10, LettersAreClean DEF Unnamed
  <2> QED
    BY <1>9, <1>11, <2>1, <2>2 DEF OrElse
<1>12. ASSUME r = Panic PROVE LongEnding(s)
  <2>1. ~(Len(s) <= SanitizedMax) /\ Len(w) < limit
    <3>1. Unnamed # Panic
      BY DEF Unnamed, Panic
    <3>2. t \o end = <<>> \/ OrElse(t \o end, Unnamed) # Panic
      BY DEF OrElse, Panic
    <3>3. OrElse(t \o end, Unnamed) # Panic
      BY <3>1, <3>2 DEF OrElse
    <3>4. s # Panic
      BY DEF Panic
    <3> QED
      BY <1>3, <1>12, <3>3, <3>4
  <2>2. Len(e) > LongExt
    BY <1>1, <1>2, <1>4, <1>6, <2>1 DEF limit
  <2> DEFINE k == Len(s) - Len(e) + 1
  <2>3. s[k] = "."
    BY <1>2, <1>4, <2>2
  <2>4. k \in 1 .. Len(s) /\ Len(s) - k >= LongExt
    BY <1>1, <1>2, <1>4, <2>2
  <2> QED
    BY <2>3, <2>4 DEF LongEnding
<1>13. ASSUME r # s, r # Panic, LongEnding(r) PROVE LongEnding(s)
  <2> DEFINE u == t \o end
  <2>1. PICK i \in 1 .. Len(r) : r[i] = "." /\ Len(r) - i >= LongExt
    BY <1>13 DEF LongEnding
  <2>2. r = u
    <3>1. \A j \in 1 .. Len(Unnamed) : Unnamed[j] # "."
      BY <1>10, Characters DEF Unnamed
    <3>2. r # Unnamed
      BY <2>1, <3>1
    <3> QED
      BY <1>9, <1>13, <3>2 DEF OrElse
  <2>3. PICK d \in Nat : StandsAfter(t, w, d)
    BY <1>9, <1>13 DEF Piece
  <2>4. /\ Len(t) \in Nat /\ Len(u) = Len(t) + Len(end)
        /\ \A j \in 1 .. Len(t) : u[j] = t[j]
        /\ \A j \in 1 .. Len(end) : u[Len(t) + j] = end[j]
    BY <1>6, <1>9, <1>13 DEF Clean
  <2>5. Len(end) <= LongExt /\ Len(end) <= Len(e)
    BY <1>2, <1>4, <1>6, <1>7
  <2> HIDE DEF u
  <2>6. i \in 1 .. Len(t)
    BY <1>4, <1>6, <2>1, <2>2, <2>4, <2>5
  <2>7. d + i \in 1 .. Len(w) /\ t[i] = w[d + i] /\ d + i = 0 + (d + i) /\ d + Len(t) <= Len(w)
    BY <1>2, <2>3, <2>4, <2>6 DEF StandsAfter
  <2>8. w[d + i] = s[d + i]
    BY <1>2, <2>7 DEF StandsAfter
  <2>9. s[d + i] = "."
    BY <2>1, <2>2, <2>4, <2>6, <2>7, <2>8
  <2>10. d + i \in 1 .. Len(s) /\ Len(s) - (d + i) >= LongExt
    BY <1>1, <1>2, <1>4, <1>6, <2>1, <2>2, <2>4, <2>5, <2>6, <2>7
  <2> QED
    BY <2>9, <2>10 DEF LongEnding
<1>14. Clean(Panic)
  BY <1>5 DEF Panic
<1>15. Len(s) <= SanitizedMax => r = s
  BY <1>3
<1>16. LongEnding(Panic) => FALSE
  <2>1. Len(Panic) = 0
    BY DEF Panic
  <2> QED
    BY <2>1 DEF LongEnding
<1> QED
  BY <1>11, <1>12, <1>13, <1>14, <1>15, <1>16 DEF r

\* What every name goes through, whatever it is made of.
LEMMA SanitizedNames ==
    ASSUME NEW C, NEW f \in Seq(C)
    PROVE  /\ Clean(SanitizeFilename(f))
           /\ SanitizeFilename(f) = Panic => LongEnding(f)
           /\ LongEnding(SanitizeFilename(f)) => LongEnding(f)
<1> DEFINE a == PathBase(f)
           b == Trim(a, {Blank})
           c == Cleaned(b)
           d == Trim(c, Edge)
           g == DashesJoined(d)
           x == OrElse(g, Unnamed)
<1>1. a \in Seq(C) /\ EndsNoLonger(a, f)
  BY PathBases, PiecesEndNoLonger
<1>0. SanitizeFilename(f) = Shortened(x)
  BY DEF SanitizeFilename
<1> HIDE DEF a
<1>2. b \in Seq(C) /\ EndsNoLonger(b, a)
  BY <1>1, TrimLeaves, PiecesEndNoLonger
<1> HIDE DEF b
<1>3. c \in Seq(NameChar) /\ EndsNoLonger(c, b)
  BY <1>2, CleanedNames, CleanedEndsNoLonger
<1> HIDE DEF c
<1>4. d \in Seq(NameChar) /\ EndsNoLonger(d, c)
  BY <1>3, TrimLeaves, PiecesEndNoLonger
<1> HIDE DEF d
<1>5. Clean(g) /\ g \in Seq(NameChar) /\ EndsNoLonger(g, d)
  BY <1>4, JoinedNames, JoinedEndsNoLonger DEF Clean
<1> HIDE DEF g
<1>6. EndsNoLonger(g, f)
  <2>1. EndsNoLonger(b, f)
    BY <1>1, <1>2, EndsOfEnds
  <2>2. EndsNoLonger(c, f)
    BY <1>2, <1>3, <2>1, EndsOfEnds
  <2>3. EndsNoLonger(d, f)
    BY <1>3, <1>4, <2>2, EndsOfEnds
  <2> QED
    BY <1>4, <1>5, <2>3, EndsOfEnds
<1>7. Clean(Unnamed) /\ Unnamed # <<>> /\ EndsNoLonger(Unnamed, f)
  BY Words, LettersAreClean DEF Unnamed
<1>8. Clean(x) /\ x # <<>> /\ EndsNoLonger(x, f)
  BY <1>5, <1>6, <1>7 DEF OrElse
<1> HIDE DEF x
<1>9. LongEnding(x) => LongEnding(f)
  BY <1>8, LongEndings DEF Clean
<1> QED
  BY <1>0, <1>8, <1>9, ShortenedNames

\* A name that is clean and short already stays as it is.
LEMMA SanitizedStays ==
    ASSUME NEW s, Clean(s), s # <<>>, s[1] \notin Edge, s[Len(s)] \notin Edge,
           Len(s) <= SanitizedMax
    PROVE  SanitizeFilename(s) = s
<1>1. s \in Seq(NameChar) /\ NoRuns(s) /\ Len(s) \in Nat
  BY DEF Clean
<1>2. \A c \in NameChar : c # "/" /\ c # Blank
  BY Characters DEF NameChar, Edge
<1>3. \A i \in 1 .. Len(s) : s[i] # "/" /\ s[i] # Blank
  BY <1>1, <1>2
<1>4. PathBase(s) = s
  BY <1>1, <1>3, PathBases
<1>5. 1 \in 1 .. Len(s) /\ Len(s) \in 1 .. Len(s)
  BY <1>1
<1>6. Trim(s, {Blank}) = s
  BY <1>1, <1>3, <1>5, TrimLeaves DEF Last
<1>7. Cleaned(s) = s
  BY <1>1, CleanedNames
<1>8. Trim(s, Edge) = s
  BY <1>1, TrimLeaves DEF Last
<1>9. DashesJoined(s) = s
  BY <1>1, JoinedNames
<1> QED
  BY <1>4, <1>6, <1>7, <1>8, <1>9, ShortenedNames DEF SanitizeFilename, OrElse

-----------------------------------------------------------------------------
(* The names of shares. *)

\* A clean part without edges, then the extension, within the limit.
WellNamed(name, ext) ==
    /\ IsExtension(ext)
    /\ \E b : /\ Clean(b) /\ b # <<>> /\ b[1] \notin Edge /\ b[Len(b)] \notin Edge
              /\ name = b \o ext /\ Len(name) <= AliasMax

\* A share's name is clean, fits, and shows its extension.
LEMMA ShareNamesAreClean ==
    ASSUME NEW name, NEW ext, WellNamed(name, ext)
    PROVE  /\ Clean(name) /\ name # <<>> /\ name[1] \notin Edge /\ name[Len(name)] \notin Edge
           /\ Len(name) <= AliasMax /\ Extension(name) = ext
<1>1. PICK b : /\ Clean(b) /\ b # <<>> /\ b[1] \notin Edge /\ b[Len(b)] \notin Edge
               /\ name = b \o ext /\ Len(name) <= AliasMax
  BY DEF WellNamed
<1>2. /\ Clean(ext) /\ ext # <<>> /\ ext[Len(ext)] \notin Edge
      /\ \A C, s : s \in Seq(C) => Extension(s \o ext) = ext
  BY ExtensionsAreClean DEF WellNamed
<1>3. b \in Seq(NameChar) /\ ext \in Seq(NameChar) /\ Len(b) \in Nat \ {0} /\ Len(ext) \in Nat \ {0}
  BY <1>1, <1>2 DEF Clean
<1>4. Clean(name)
  BY <1>1, <1>2, CleanTogether DEF Joint, Edge
<1>5. /\ Len(name) = Len(b) + Len(ext) /\ name[1] = b[1] /\ name[Len(name)] = ext[Len(ext)]
      /\ name # <<>>
  <2>1. 1 \in 1 .. Len(b) /\ Len(ext) \in 1 .. Len(ext)
    BY <1>3
  <2>2. /\ Len(b \o ext) = Len(b) + Len(ext) /\ (b \o ext)[1] = b[1]
        /\ (b \o ext)[Len(b) + Len(ext)] = ext[Len(ext)] /\ Len(b \o ext) # 0
    BY <1>3, <2>1
  <2> QED
    BY <1>1, <2>2
<1> QED
  BY <1>1, <1>2, <1>3, <1>4, <1>5

\* NormalizeAliasSlug makes a share's name of any clean part and extension.
LEMMA JoinedIsWellNamed ==
    ASSUME NEW base, Clean(base), NEW e, IsExtension(e)
    PROVE  WellNamed(Joined(base, e), e)
<1> DEFINE n == AliasMax - Len(e)
           t == Cut(base, n)
           b == OrElse(Trim(t, Edge), Default)
<1>1. e \in Seq(NameChar) /\ Len(e) \in Nat /\ Len(e) <= ExtMax
  BY ExtensionsAreClean DEF Clean
<1>2. n \in Nat /\ 1 <= n /\ n + Len(e) = AliasMax
  BY <1>1, Words
<1>3. Joined(base, e) = b \o e
  BY DEF Joined
<1> HIDE DEF n
<1>4. base \in Seq(NameChar)
  BY DEF Clean
<1>5. t \in Seq(NameChar) /\ Piece(t, base) /\ Len(t) <= n /\ Len(t) \in Nat
  BY <1>2, <1>4, Cuts
<1> HIDE DEF t
<1>6. Clean(t)
  BY <1>5, CleanPieces
<1>7. /\ Clean(b) /\ b # <<>> /\ b[1] \notin Edge /\ b[Len(b)] \notin Edge
      /\ Len(b) \in Nat /\ (Len(b) <= Len(t) \/ Len(b) = 1)
  BY <1>6, Words, PartsAreTrimmed DEF Default
<1> HIDE DEF b
<1>8. Len(b \o e) = Len(b) + Len(e)
  BY <1>1, <1>7 DEF Clean
<1>9. Len(b \o e) <= AliasMax
  BY <1>1, <1>2, <1>5, <1>7, <1>8
<1> QED
  BY <1>3, <1>7, <1>9 DEF WellNamed

\* The file's extension wins, as every file has one.
LEMMA FinalWins ==
    ASSUME NEW e, IsExtension(e), NEW typed
    PROVE  FinalFirst(typed, NormalizeExtension(e)) = e
<1>1. e \in Seq(NameChar) /\ e # <<>>
  BY ExtensionsAreClean DEF Clean
<1>2. NormalizeExtension(e) = e
  BY <1>1, NormalExtensions
<1> QED
  BY <1>1, <1>2 DEF FinalFirst

\* What a typed name becomes.
LEMMA TypedNames ==
    ASSUME NEW C, NEW value \in Seq(C), NEW e, IsExtension(e)
    PROVE  /\ NormalizeAliasSlug(value, e) = Panic => LongEnding(value)
           /\ NormalizeAliasSlug(value, e) # Panic => WellNamed(NormalizeAliasSlug(value, e), e)
<1> DEFINE a == Trim(value, {Blank})
           b == StripPrefix(<<"/">>, a)
           c == StripPrefix(<<"s", "/">>, b)
           d == StripPrefix(<<"/", "s", "/">>, c)
           x == OrElse(d, Default)
           v == SanitizeFilename(x)
           base == NameBase(v)
<1>1. NormalizeAliasSlug(value, e) = IF v = Panic THEN Panic ELSE Joined(base, e)
  BY FinalWins DEF NormalizeAliasSlug
<1>2. a \in Seq(C) /\ EndsNoLonger(a, value)
  BY TrimLeaves, PiecesEndNoLonger
<1> HIDE DEF a
<1>3. b \in Seq(C) /\ EndsNoLonger(b, a)
  <2>1. <<"/">> \in Seq({"/"}) /\ 1 \in 1 .. Len(<<"/">>) /\ <<"/">>[1] = "/"
    OBVIOUS
  <2>2. b \in Seq(C) /\ Piece(b, a)
    BY <1>2, <2>1, StripPrefixes
  <2> QED
    BY <1>2, <2>2, PiecesEndNoLonger
<1> HIDE DEF b
<1>4. c \in Seq(C) /\ EndsNoLonger(c, b)
  <2>1. <<"s", "/">> \in Seq({"s", "/"}) /\ 2 \in 1 .. Len(<<"s", "/">>) /\ <<"s", "/">>[2] = "/"
    OBVIOUS
  <2>2. c \in Seq(C) /\ Piece(c, b)
    BY <1>3, <2>1, StripPrefixes
  <2> QED
    BY <1>3, <2>2, PiecesEndNoLonger
<1> HIDE DEF c
<1>5. d \in Seq(C) /\ EndsNoLonger(d, c)
  <2>1. /\ <<"/", "s", "/">> \in Seq({"s", "/"}) /\ 1 \in 1 .. Len(<<"/", "s", "/">>)
        /\ <<"/", "s", "/">>[1] = "/"
    OBVIOUS
  <2>2. d \in Seq(C) /\ Piece(d, c)
    BY <1>4, <2>1, StripPrefixes
  <2> QED
    BY <1>4, <2>2, PiecesEndNoLonger
<1> HIDE DEF d
<1>6. EndsNoLonger(d, value)
  <2>1. EndsNoLonger(b, value)
    BY <1>2, <1>3, EndsOfEnds
  <2>2. EndsNoLonger(c, value)
    BY <1>3, <1>4, <2>1, EndsOfEnds
  <2> QED
    BY <1>4, <1>5, <2>2, EndsOfEnds
<1>7. Default \in Seq(NameChar) /\ EndsNoLonger(Default, value)
  BY Words, LettersAreClean DEF Default, Clean
<1>8. /\ x \in Seq(C) \/ x \in Seq(NameChar)
      /\ EndsNoLonger(x, value)
  BY <1>5, <1>6, <1>7 DEF OrElse
<1> HIDE DEF x
<1>9. Clean(v) /\ (v = Panic => LongEnding(x)) /\ (LongEnding(x) => LongEnding(value))
  BY <1>8, SanitizedNames, LongEndings
<1> HIDE DEF v
<1>10. Clean(base)
  <2>1. v \in Seq(NameChar)
    BY <1>9 DEF Clean
  <2>2. WithoutExtension(v) \in Seq(NameChar) /\ Piece(WithoutExtension(v), v)
    BY <2>1, ExtensionsArePieces
  <2>3. Clean(WithoutExtension(v))
    BY <1>9, <2>2, CleanPieces
  <2> QED
    BY <2>3, Words, PartsAreTrimmed DEF NameBase, Default
<1>11. WellNamed(Joined(base, e), e)
  BY <1>10, JoinedIsWellNamed
<1>12. Joined(base, e) # Panic
  BY <1>11, ShareNamesAreClean DEF Panic
<1> QED
  BY <1>1, <1>9, <1>11, <1>12

\* What an upload without a name gets.
LEMMA RandomNames ==
    ASSUME NEW C, NEW f \in Seq(C), NEW e, IsExtension(e)
    PROVE  /\ GenerateRandomAliasSlug(f, e) = Panic => LongEnding(f)
           /\ GenerateRandomAliasSlug(f, e) # Panic => WellNamed(GenerateRandomAliasSlug(f, e), e)
<1> DEFINE name == SanitizeFilename(f)
           base == OrElse(Trim(WithoutExtension(name), Edge), Default)
           t == Cut(base, RandomMax)
           b == OrElse(Trim(t, Edge), Default)
           r == <<"-", "random">>
           u == b \o r
<1>1. GenerateRandomAliasSlug(f, e) = IF name = Panic THEN Panic ELSE u \o e
  BY FinalWins DEF GenerateRandomAliasSlug
<1>2. Clean(name) /\ (name = Panic => LongEnding(f))
  BY SanitizedNames
<1> HIDE DEF name
<1>3. Clean(base)
  <2>1. name \in Seq(NameChar)
    BY <1>2 DEF Clean
  <2>2. WithoutExtension(name) \in Seq(NameChar) /\ Piece(WithoutExtension(name), name)
    BY <2>1, ExtensionsArePieces
  <2>3. Clean(WithoutExtension(name))
    BY <1>2, <2>2, CleanPieces
  <2> QED
    BY <2>3, Words, PartsAreTrimmed DEF Default
<1> HIDE DEF base
<1>4. Clean(t) /\ Len(t) \in Nat /\ Len(t) <= RandomMax /\ 1 <= RandomMax
  <2>1. base \in Seq(NameChar) /\ RandomMax \in Nat \ {0}
    BY <1>3, Words DEF Clean
  <2>2. t \in Seq(NameChar) /\ Piece(t, base) /\ Len(t) <= RandomMax
    BY <2>1, Cuts
  <2> QED
    BY <1>3, <2>1, <2>2, CleanPieces
<1> HIDE DEF t
<1>5. /\ Clean(b) /\ b # <<>> /\ b[1] \notin Edge /\ b[Len(b)] \notin Edge
      /\ Len(b) \in Nat /\ (Len(b) <= Len(t) \/ Len(b) = 1)
  BY <1>4, Words, PartsAreTrimmed DEF Default
<1> HIDE DEF b
<1>6. Clean(r) /\ r \in Seq(NameChar) /\ Len(r) = 2 /\ r[2] \notin Edge
  <2>1. "random" \notin Edge
    BY Words, Characters DEF Edge
  <2>2. r \in Seq(NameChar) /\ Len(r) = 2 /\ r[2] = "random"
    BY Words DEF NameChar, Edge
  <2>3. \A i \in 1 .. 2 - 1 : i + 1 = 2
    OBVIOUS
  <2>4. "random" \notin Joint
    BY <2>1 DEF Joint, Edge
  <2> HIDE DEF r
  <2>5. NoRuns(r)
    BY <2>2, <2>3, <2>4 DEF NoRuns
  <2> QED
    BY <2>1, <2>2, <2>5 DEF Clean
<1> HIDE DEF r
<1>7. Clean(u)
  BY <1>5, <1>6, CleanTogether DEF Joint, Edge
<1>8. Len(u) = Len(b) + 2 /\ u # <<>> /\ u[1] = b[1] /\ u[Len(u)] = r[2]
  <2>1. b \in Seq(NameChar) /\ Len(b) \in Nat \ {0}
    BY <1>5 DEF Clean
  <2>4. /\ Len(u) = Len(b) + Len(r)
        /\ \A i \in 1 .. Len(b) : u[i] = b[i]
        /\ \A i \in 1 .. Len(r) : u[Len(b) + i] = r[i]
    <3>1. b \in Seq(NameChar) /\ r \in Seq(NameChar)
      BY <1>6, <2>1
    <3> QED
      BY <3>1, Together
  <2>5. 1 \in 1 .. Len(b) /\ 2 \in 1 .. Len(r)
    BY <1>6, <2>1
  <2> HIDE DEF u
  <2>2. Len(u) = Len(b) + 2 /\ u[1] = b[1] /\ u[Len(b) + 2] = r[2]
    BY <1>6, <2>1, <2>4, <2>5
  <2>3. u # <<>>
    BY <2>1, <2>2
  <2> QED
    BY <2>2, <2>3
<1> HIDE DEF u
<1>9. e \in Seq(NameChar) /\ Len(e) \in Nat /\ Len(e) <= ExtMax
  BY ExtensionsAreClean DEF Clean
<1>10. Len(u \o e) = Len(u) + Len(e)
  BY <1>7, <1>9 DEF Clean
<1>11. Len(u \o e) <= AliasMax
  <2>1. /\ RandomMax \in Nat /\ ExtMax \in Nat /\ SanitizedMax \in Nat /\ AliasMax \in Nat
        /\ RandomMax + 2 + ExtMax <= SanitizedMax /\ SanitizedMax + ExtMax <= AliasMax
    BY Words
  <2>2. Len(b) <= RandomMax
    BY <1>4, <1>5, <2>1
  <2> DEFINE m == Len(b)
  <2>3. m \in Nat /\ m <= RandomMax /\ Len(u \o e) = m + 2 + Len(e)
    BY <1>5, <1>8, <1>9, <1>10, <2>2
  <2> HIDE DEF m
  <2> QED
    BY <1>9, <2>1, <2>3
<1>12. WellNamed(u \o e, e)
  BY <1>5, <1>6, <1>7, <1>8, <1>11 DEF WellNamed
<1>13. u \o e # Panic
  BY <1>12, ShareNamesAreClean DEF Panic
<1> QED
  BY <1>1, <1>2, <1>12, <1>13

\* The extension of an upload's file.
LEMMA FileExtensions ==
    ASSUME NEW C, NEW f \in Seq(C), NEW typeExt, typeExt = <<>> \/ IsExtension(typeExt)
    PROVE  IsExtension(ExtensionFor(f, typeExt))
<1> DEFINE s == SanitizeFilename(f)
           e == NormalizeExtension(Extension(s))
<1>1. s \in Seq(NameChar)
  BY SanitizedNames DEF Clean
<1> HIDE DEF s
<1>2. e = <<>> \/ IsExtension(e)
  BY <1>1, ExtensionsArePieces, NormalExtensions
<1>3. ExtensionFor(f, typeExt) = OrElse(e, OrElse(typeExt, Bin))
  BY DEF ExtensionFor, s
<1> HIDE DEF e
<1> QED
  BY <1>2, <1>3, KnownExtensions DEF OrElse

\* Normalizing a share's name again changes nothing.
LEMMA ShownNamesStay ==
    ASSUME NEW name, NEW e, WellNamed(name, e), Len(name) <= SanitizedMax
    PROVE  NormalizeAliasSlug(name, e) = name
<1>1. /\ Clean(name) /\ name # <<>> /\ name[1] \notin Edge /\ name[Len(name)] \notin Edge
      /\ Len(name) <= AliasMax /\ Extension(name) = e /\ IsExtension(e)
  BY ShareNamesAreClean DEF WellNamed
<1>2. PICK b : /\ Clean(b) /\ b # <<>> /\ b[1] \notin Edge /\ b[Len(b)] \notin Edge
               /\ name = b \o e
  BY DEF WellNamed
<1>3. name \in Seq(NameChar) /\ b \in Seq(NameChar) /\ e \in Seq(NameChar)
  BY <1>1, <1>2, ExtensionsAreClean DEF Clean
<1>4. \A c \in NameChar : c # "/" /\ c # Blank
  BY Characters DEF NameChar, Edge
<1>5. \A i \in 1 .. Len(name) : name[i] # "/" /\ name[i] # Blank
  BY <1>3, <1>4
<1>6. Trim(name, {Blank}) = name
  <2>1. 1 \in 1 .. Len(name) /\ Len(name) \in 1 .. Len(name)
    BY <1>1, <1>3
  <2> QED
    BY <1>1, <1>3, <1>5, <2>1, TrimLeaves DEF Last
<1>7. /\ StripPrefix(<<"/">>, name) = name /\ StripPrefix(<<"s", "/">>, name) = name
      /\ StripPrefix(<<"/", "s", "/">>, name) = name
  <2>1. <<"/">> \in Seq({"/"}) /\ 1 \in 1 .. Len(<<"/">>) /\ <<"/">>[1] = "/"
    OBVIOUS
  <2>2. <<"s", "/">> \in Seq({"s", "/"}) /\ 2 \in 1 .. Len(<<"s", "/">>) /\ <<"s", "/">>[2] = "/"
    OBVIOUS
  <2>3. /\ <<"/", "s", "/">> \in Seq({"s", "/"}) /\ 1 \in 1 .. Len(<<"/", "s", "/">>)
        /\ <<"/", "s", "/">>[1] = "/"
    OBVIOUS
  <2>4. StripPrefix(<<"/">>, name) = name
    BY <1>3, <1>5, <2>1, StripPrefixes
  <2>5. StripPrefix(<<"s", "/">>, name) = name
    BY <1>3, <1>5, <2>2, StripPrefixes
  <2>6. StripPrefix(<<"/", "s", "/">>, name) = name
    BY <1>3, <1>5, <2>3, StripPrefixes
  <2> QED
    BY <2>4, <2>5, <2>6
<1>8. SanitizeFilename(name) = name
  BY <1>1, SanitizedStays
<1>9. NormalizeAliasSlug(name, e) = Joined(NameBase(name), e)
  <2>1. OrElse(name, Default) = name /\ name # Panic
    BY <1>1 DEF OrElse, Panic
  <2> QED
    BY <1>1, <1>6, <1>7, <1>8, <2>1, FinalWins DEF NormalizeAliasSlug
<1>10. NameBase(name) = b
  <2>1. WithoutExtension(name) = b
    BY <1>1, <1>2, <1>3, ExtensionsAreClean
  <2>2. Trim(b, Edge) = b
    BY <1>2, <1>3, TrimLeaves DEF Last
  <2> QED
    BY <1>2, <2>1, <2>2 DEF NameBase, OrElse
<1>11. Joined(b, e) = b \o e
  <2> DEFINE n == AliasMax - Len(e)
  <2>1. Len(name) = Len(b) + Len(e) /\ Len(b) \in Nat /\ Len(e) \in Nat
    BY <1>2, <1>3
  <2>2. AliasMax \in Nat /\ n \in Nat /\ Len(b) <= n
    BY <1>1, <2>1, Words
  <2> HIDE DEF n
  <2>3. Cut(b, n) = b
    BY <1>3, <2>2, Cuts
  <2>4. Trim(b, Edge) = b
    BY <1>2, <1>3, TrimLeaves DEF Last
  <2> QED
    BY <1>2, <2>3, <2>4 DEF Joined, OrElse, n
<1> QED
  BY <1>2, <1>9, <1>10, <1>11

\* The links to a name without slashes lead to it.
LEMMA LinksOfNames ==
    ASSUME NEW slug, Clean(slug)
    PROVE  /\ ReadLink(SharePage(slug)) = <<slug, "page">>
           /\ ReadLink(slug) = <<slug, "page">>
           /\ \A variant \in {"media", "thumbnail"} :
                 ReadLink(VariantLink(slug, variant)) = <<slug, variant>>
           /\ ReadShareName(slug) = slug
<1> DEFINE n == Len(slug)
           C == NameChar \cup {"/"}
<1>1. slug \in Seq(NameChar) /\ slug \in Seq(C) /\ n \in Nat /\ DOMAIN slug = 1 .. n
  <2>1. slug \in Seq(NameChar)
    BY DEF Clean
  <2> QED
    BY <2>1
<1>2. \A i \in 1 .. n : slug[i] # "/"
  BY <1>1, Characters DEF NameChar, Edge
<1>3. Name(slug) = slug
  BY <1>1, <1>2 DEF Name
<1>4. WithoutSlash(slug) = slug
  <2>1. slug # <<>> => n \in 1 .. n
    BY <1>1
  <2> QED
    BY <1>2, <2>1 DEF WithoutSlash, Last
<1>5. LastIndex(slug, "/") = 0
  <2>1. LastIndex(slug, "/") \in 0 .. n /\ (LastIndex(slug, "/") # 0 => slug[LastIndex(slug, "/")] = "/")
    BY <1>1, LastIndexes
  <2> QED
    BY <1>1, <1>2, <2>1
<1>6. ReadLink(slug) = <<slug, "page">>
  BY <1>3, <1>4, <1>5 DEF ReadLink
<1>7. ReadLink(SharePage(slug)) = <<slug, "page">>
  <2> DEFINE p == SharePage(slug)
  <2>1. /\ p \in Seq(C) /\ Len(p) = n + 1 /\ p[n + 1] = "/" /\ \A i \in 1 .. n : p[i] = slug[i]
        /\ p # <<>>
    BY <1>1 DEF SharePage
  <2> HIDE DEF p
  <2>2. /\ Front(p) \in Seq(C) /\ Len(Front(p)) = n /\ \A i \in 1 .. n : Front(p)[i] = p[i]
    BY <1>1, <2>1, FrontIsPiece
  <2>3. Front(p) = slug
    BY <1>1, <2>1, <2>2, SeqEqual
  <2>4. \A i \in 1 .. Len(p) - 1 : p[i] # "/"
    BY <1>1, <1>2, <2>1
  <2>5. WithoutSlash(p) = slug
    BY <2>1, <2>3, <2>4 DEF WithoutSlash, Last
  <2> QED
    BY <1>3, <1>5, <2>5 DEF ReadLink, p
<1>8. ASSUME NEW variant \in {"media", "thumbnail"}
      PROVE  ReadLink(VariantLink(slug, variant)) = <<slug, variant>>
  <2> DEFINE p == VariantLink(slug, variant)
             D == C \cup {variant}
             i == LastIndex(p, "/")
  <2>1. variant \in Letter /\ variant # "/"
    BY NamesAssumption, Characters
  <2>2. slug \in Seq(D) /\ <<"/", variant>> \in Seq(D)
    BY <1>1
  <2>3. /\ p \in Seq(D) /\ Len(p) = n + 2 /\ p[n + 1] = "/" /\ p[n + 2] = variant
        /\ \A k \in 1 .. n : p[k] = slug[k]
    BY <1>1, <2>2 DEF VariantLink
  <2> HIDE DEF p, D, n
  <2>4. WithoutSlash(p) = p
    BY <1>1, <2>1, <2>3 DEF WithoutSlash, Last
  <2>5. i \in 0 .. n + 2 /\ (i # 0 => p[i] = "/") /\ n + 1 <= i
    <3>1. /\ i \in 0 .. Len(p) /\ (i # 0 => p[i] = "/")
          /\ \A k \in 1 .. Len(p) : p[k] = "/" => k <= i
      BY <2>3, LastIndexes
    <3> QED
      BY <1>1, <2>3, <3>1
  <2> HIDE DEF i
  <2>6. i = n + 1
    BY <1>1, <2>1, <2>3, <2>5
  <2>7. SubSeq(p, 1, n) = slug
    <3> DEFINE q == SubSeq(p, 1, n)
    <3>1. q \in Seq(D) /\ Len(q) = n /\ \A k \in 1 .. n : q[k] = p[k]
      BY <1>1, <2>3
    <3>2. Len(slug) = n
      BY DEF n
    <3> HIDE DEF q
    <3> QED
      BY <2>2, <2>3, <3>1, <3>2, SeqEqual DEF q
  <2>8. i > 0 /\ i = Len(p) - 1 /\ Last(p) = variant /\ i - 1 = n
    BY <1>1, <2>3, <2>6 DEF Last
  <2> QED
    BY <1>3, <2>4, <2>7, <2>8 DEF ReadLink, p, i
<1> QED
  BY <1>3, <1>6, <1>7, <1>8 DEF ReadShareName
===============================================================================
