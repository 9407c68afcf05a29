--------------------------- MODULE StreamTextProofs ---------------------------
(***************************************************************************)
(* The words of an answer reach the client in order and once, for answers   *)
(* of every length and every number of tool calls.                          *)
(***************************************************************************)
EXTENDS StreamConversionProofs, SequenceInduction

-----------------------------------------------------------------------------
(* Numbers in increasing order. *)

Rank(S, x) == Cardinality({m \in S : m < x})

LEMMA RankGrows ==
    ASSUME NEW n \in Nat, NEW S \in SUBSET (1 .. n), NEW x \in S, NEW y \in S, x < y
    PROVE  Rank(S, x) \in Nat /\ Rank(S, y) \in Nat /\ Rank(S, x) < Rank(S, y)
<1> DEFINE A == {m \in S : m < x}
           B == {m \in S : m < y}
<1>1. IsFiniteSet(1 .. n) /\ A \in SUBSET (1 .. n) /\ B \in SUBSET (1 .. n)
  BY FS_Interval, 1 \in Int, n \in Int
<1>2. A \in SUBSET (B \ {x}) /\ x \in B
  <2>1. x \in Int /\ y \in Int /\ \A m \in S : m \in Int
    OBVIOUS
  <2>2. \A m \in S : m < x => m < y /\ m # x
    BY <2>1
  <2>3. QED
    BY <2>2
<1> HIDE DEF A, B
<1>3. IsFiniteSet(A) /\ IsFiniteSet(B)
  BY <1>1, FS_Subset
<1>4. Cardinality(A) \in Nat /\ Cardinality(B) \in Nat
  BY <1>3, FS_CardinalityType
<1>5. IsFiniteSet(B \ {x}) /\ Cardinality(B \ {x}) = Cardinality(B) - 1
  BY <1>2, <1>3, FS_RemoveElement
<1>6. Cardinality(A) <= Cardinality(B) - 1
  BY <1>2, <1>5, FS_Subset
<1>7. QED
  BY <1>4, <1>6 DEF Rank, A, B

LEMMA RankUnique ==
    ASSUME NEW n \in Nat, NEW S \in SUBSET (1 .. n), NEW x \in S, NEW y \in S,
           Rank(S, x) = Rank(S, y)
    PROVE  x = y
<1>1. x < y \/ y < x \/ x = y
  OBVIOUS
<1>2. ~(x < y)
  <2>1. SUFFICES ASSUME x < y PROVE FALSE
    OBVIOUS
  <2>2. Rank(S, x) \in Nat /\ Rank(S, x) < Rank(S, y)
    BY <2>1, RankGrows
  <2>3. QED
    BY <2>2
<1>3. ~(y < x)
  <2>1. SUFFICES ASSUME y < x PROVE FALSE
    OBVIOUS
  <2>2. Rank(S, x) \in Nat /\ Rank(S, y) < Rank(S, x)
    BY <2>1, RankGrows
  <2>3. QED
    BY <2>2
<1>4. QED
  BY <1>1, <1>2, <1>3

\* The rank of what is added at the end, and of what was there before.
LEMMA RankAdd ==
    ASSUME NEW n \in Nat, NEW S \in SUBSET (1 .. n)
    PROVE  /\ \A x \in S : Rank(S \cup {n + 1}, x) = Rank(S, x)
           /\ Rank(S \cup {n + 1}, n + 1) = Cardinality(S)
           /\ Cardinality(S) \in Nat /\ Cardinality(S \cup {n + 1}) = Cardinality(S) + 1
<1>1. IsFiniteSet(S)
  BY FS_Interval, FS_Subset, 1 \in Int, n \in Int
<1>2. n + 1 \notin S
  OBVIOUS
<1>3. \A x \in S : {m \in S \cup {n + 1} : m < x} = {m \in S : m < x}
  <2> TAKE x \in S
  <2>1. x \in 1 .. n
    OBVIOUS
  <2>2. ~(n + 1 < x)
    BY <2>1
  <2>3. QED
    BY <2>2
<1>4. {m \in S \cup {n + 1} : m < n + 1} = S
  <2>1. \A m \in S : m \in 1 .. n
    OBVIOUS
  <2>2. (\A m \in 1 .. n : m < n + 1) /\ ~(n + 1 < n + 1)
    OBVIOUS
  <2>3. QED
    BY <2>1, <2>2
<1>5. QED
  BY <1>1, <1>2, <1>3, <1>4, FS_AddElement, FS_CardinalityType DEF Rank

LEMMA RankExists ==
    ASSUME NEW n \in Nat, NEW S \in SUBSET (1 .. n)
    PROVE  Cardinality(S) \in Nat /\ \A k \in 1 .. Cardinality(S) : \E x \in S : Rank(S, x) = k - 1
<1> DEFINE Good(R) == \A k \in 1 .. Cardinality(R) : \E x \in R : Rank(R, x) = k - 1
           T == {m \in Nat : \A R \in SUBSET (1 .. m) : Good(R)}
<1>1. 0 \in T
  <2>1. \A R \in SUBSET (1 .. 0) : R = {}
    OBVIOUS
  <2>2. Good({})
    BY FS_EmptySet
  <2>3. QED
    BY <2>1, <2>2
<1>2. ASSUME NEW m \in Nat, m \in T PROVE m + 1 \in T
  <2>1. SUFFICES ASSUME NEW R \in SUBSET (1 .. m + 1) PROVE Good(R)
    OBVIOUS
  <2> DEFINE Q == R \ {m + 1}
  <2>2. Q \in SUBSET (1 .. m) /\ (m + 1 \in R => R = Q \cup {m + 1}) /\ (m + 1 \notin R => R = Q)
    OBVIOUS
  <2>3. Good(Q)
    BY <1>2, <2>2
  <2> HIDE DEF Q
  <2>4. CASE m + 1 \in R
    <3>1. /\ \A x \in Q : Rank(R, x) = Rank(Q, x)
          /\ Rank(R, m + 1) = Cardinality(Q)
          /\ Cardinality(Q) \in Nat /\ Cardinality(R) = Cardinality(Q) + 1
      BY <2>2, <2>4, RankAdd
    <3>2. ASSUME NEW k \in 1 .. Cardinality(R) PROVE \E x \in R : Rank(R, x) = k - 1
      <4>1. CASE k = Cardinality(R)
        <5>1. Rank(R, m + 1) = k - 1
          BY <3>1, <4>1
        <5>2. QED
          BY <2>4, <5>1
      <4>2. CASE k # Cardinality(R)
        <5>1. k \in 1 .. Cardinality(Q)
          BY <3>1, <4>2
        <5>2. PICK x \in Q : Rank(Q, x) = k - 1
          BY <2>3, <5>1
        <5>3. x \in R /\ Rank(R, x) = k - 1
          BY <2>2, <2>4, <3>1, <5>2
        <5>4. QED
          BY <5>3
      <4>3. QED
        BY <4>1, <4>2
    <3>3. QED
      BY <3>2
  <2>5. CASE m + 1 \notin R
    BY <2>2, <2>3, <2>5
  <2>6. QED
    BY <2>4, <2>5
<1> HIDE DEF Good, T
<1>3. Nat \subseteq T
  BY <1>1, <1>2, SetInduction
<1>4. Good(S)
  BY <1>3 DEF T
<1>5. Cardinality(S) \in Nat
  BY RankAdd
<1>6. QED
  BY <1>4, <1>5 DEF Good

LEMMA AscendingRanks ==
    ASSUME NEW n \in Nat, NEW S \in SUBSET (1 .. n)
    PROVE  /\ Ascending(S) \in Seq(S) /\ Len(Ascending(S)) = Cardinality(S)
           /\ \A k \in 1 .. Cardinality(S) :
                 Ascending(S)[k] \in S /\ Rank(S, Ascending(S)[k]) = k - 1
<1> DEFINE N == Cardinality(S)
           a == Ascending(S)
<1>1. N \in Nat /\ \A k \in 1 .. N : \E x \in S : Rank(S, x) = k - 1
  BY RankExists
<1>2. a = [k \in 1 .. N |-> CHOOSE x \in S : Rank(S, x) = k - 1]
  BY DEF Ascending, Rank
<1> HIDE DEF a, N
<1>3. \A k \in 1 .. N : a[k] \in S /\ Rank(S, a[k]) = k - 1
  <2> TAKE k \in 1 .. N
  <2>1. \E x \in S : Rank(S, x) = k - 1
    BY <1>1
  <2>2. a[k] = CHOOSE x \in S : Rank(S, x) = k - 1
    BY <1>2
  <2>3. QED
    BY <2>1, <2>2
<1>4. a \in [1 .. N -> S]
  BY <1>2, <1>3
<1>5. a \in Seq(S)
  BY <1>1, <1>4, SeqDef
<1>6. Len(a) = N
  <2>1. DOMAIN a = 1 .. N /\ DOMAIN a = 1 .. Len(a) /\ Len(a) \in Nat
    BY <1>4, <1>5, LenProperties
  <2>2. QED
    BY <1>1, <2>1
<1>7. QED
  BY <1>3, <1>5, <1>6 DEF a, N

\* A number above all others comes last.
LEMMA AscendingAdd ==
    ASSUME NEW n \in Nat, NEW S \in SUBSET (1 .. n)
    PROVE  Ascending(S \cup {n + 1}) = Append(Ascending(S), n + 1)
<1> DEFINE R == S \cup {n + 1}
           a == Ascending(S)
           b == Ascending(R)
           c == Append(a, n + 1)
           N == Cardinality(S)
<1>1. /\ \A x \in S : Rank(R, x) = Rank(S, x)
      /\ Rank(R, n + 1) = N /\ N \in Nat /\ Cardinality(R) = N + 1
  BY RankAdd
<1>2. S \subseteq R /\ n + 1 \in R /\ R \in SUBSET (1 .. n + 1) /\ n + 1 \in Nat
  OBVIOUS
<1>3. a \in Seq(S) /\ Len(a) = N /\ \A k \in 1 .. N : a[k] \in S /\ Rank(S, a[k]) = k - 1
  BY AscendingRanks
<1> HIDE DEF R
<1>4. /\ b \in Seq(R) /\ Len(b) = N + 1
      /\ \A k \in 1 .. N + 1 : b[k] \in R /\ Rank(R, b[k]) = k - 1
  BY <1>1, <1>2, AscendingRanks
<1> HIDE DEF a, b, N
<1>5. a \in Seq(R)
  BY <1>2, <1>3, SeqMonotonic
<1>6. c \in Seq(R) /\ Len(c) = N + 1 /\ (\A k \in 1 .. N : c[k] = a[k]) /\ c[N + 1] = n + 1
  BY <1>2, <1>3, <1>5, AppendProperties
<1> HIDE DEF c
<1>7. ASSUME NEW k \in 1 .. N + 1 PROVE b[k] = c[k]
  <2>1. CASE k \in 1 .. N
    <3>1. c[k] = a[k] /\ a[k] \in S /\ a[k] \in R /\ Rank(R, a[k]) = k - 1
      BY <1>1, <1>2, <1>3, <1>6, <2>1
    <3>2. b[k] \in R /\ Rank(R, b[k]) = k - 1
      BY <1>4
    <3>3. QED
      BY <1>2, <3>1, <3>2, RankUnique
  <2>2. CASE k = N + 1
    <3>1. c[k] = n + 1 /\ n + 1 \in R /\ Rank(R, n + 1) = k - 1
      BY <1>1, <1>2, <1>6, <2>2
    <3>2. b[k] \in R /\ Rank(R, b[k]) = k - 1
      BY <1>4
    <3>3. QED
      BY <1>2, <3>1, <3>2, RankUnique
  <2>3. QED
    BY <1>1, <2>1, <2>2
<1>8. b = c
  BY <1>4, <1>6, <1>7, SeqEqual
<1>9. QED
  BY <1>8 DEF a, b, c, R

LEMMA AscendingNone == Ascending({}) = <<>>
<1>1. Cardinality({}) = 0 /\ 1 .. 0 = {}
  BY FS_EmptySet
<1>2. DOMAIN Ascending({}) = {}
  BY <1>1 DEF Ascending
<1>3. Ascending({}) \in Seq({})
  BY AscendingRanks, 0 \in Nat
<1>4. QED
  BY <1>2, <1>3, EmptySeq, LenProperties

-----------------------------------------------------------------------------
(* What the upstream has sent. *)

Fragments == [kind : FragmentKinds, call : 0 .. MaxCalls]

LEMMA OfKindType ==
    ASSUME NEW r \in Seq(Fragments), NEW kind
    PROVE  OfKind(r, kind) \in Seq(Nat)
<1> DEFINE S == {i \in DOMAIN r : r[i].kind = kind}
<1>1. Len(r) \in Nat /\ S \in SUBSET (1 .. Len(r)) /\ S \subseteq Nat
  BY LenProperties
<1> HIDE DEF S
<1>2. Ascending(S) \in Seq(S)
  BY <1>1, AscendingRanks
<1>3. Ascending(S) \in Seq(Nat)
  BY <1>1, <1>2, SeqMonotonic
<1>4. QED
  BY <1>3 DEF OfKind, S

LEMMA OfKindAppend ==
    ASSUME NEW r \in Seq(Fragments), NEW f \in Fragments, NEW kind
    PROVE  OfKind(Append(r, f), kind)
             = IF f.kind = kind THEN Append(OfKind(r, kind), Len(r) + 1) ELSE OfKind(r, kind)
<1> DEFINE q == Append(r, f)
           S == {i \in DOMAIN r : r[i].kind = kind}
           R == {i \in DOMAIN q : q[i].kind = kind}
           n == Len(r)
<1>1. /\ n \in Nat /\ DOMAIN r = 1 .. n /\ DOMAIN q = 1 .. n + 1
      /\ \A i \in 1 .. n : q[i] = r[i]
      /\ q[n + 1] = f
  BY AppendProperties, LenProperties
<1> HIDE DEF q, n
<1>2. S \in SUBSET (1 .. n)
  BY <1>1
<1>3. \A i \in 1 .. n + 1 : i \in 1 .. n \/ i = n + 1
  BY <1>1
<1>4. 1 .. n \subseteq 1 .. n + 1 /\ n + 1 \in 1 .. n + 1 /\ n + 1 \notin 1 .. n
  BY <1>1
<1>5. R = IF f.kind = kind THEN S \cup {n + 1} ELSE S
  BY <1>1, <1>3, <1>4
<1> HIDE DEF S, R
<1>6. f.kind = kind => Ascending(R) = Append(Ascending(S), n + 1)
  BY <1>1, <1>2, <1>5, AscendingAdd
<1>7. OfKind(q, kind) = Ascending(R) /\ OfKind(r, kind) = Ascending(S)
  BY DEF OfKind, R, S
<1>8. QED
  BY <1>5, <1>6, <1>7 DEF q, n

LEMMA OfKindNone == \A kind : OfKind(<<>>, kind) = <<>>
  BY AscendingNone DEF OfKind
-----------------------------------------------------------------------------
(* What sequences of events and of chunks say. *)

LEMMA ConcatFacts ==
    ASSUME NEW a, NEW b, IsSeq(a), IsSeq(b)
    PROVE  /\ Len(a) \in Nat /\ DOMAIN a = 1 .. Len(a)
           /\ Len(b) \in Nat /\ DOMAIN b = 1 .. Len(b)
           /\ IsSeq(a \o b) /\ Len(a \o b) = Len(a) + Len(b)
           /\ DOMAIN (a \o b) = 1 .. Len(a) + Len(b)
           /\ \A i \in 1 .. Len(a) + Len(b) : (a \o b)[i] = IF i <= Len(a) THEN a[i] ELSE b[i - Len(a)]
<1> DEFINE S == ToSet(a) \cup ToSet(b)
<1>1. a \in Seq(S) /\ b \in Seq(S)
  BY SeqMonotonic DEF IsSeq
<1> HIDE DEF S
<1>2. /\ Len(a) \in Nat /\ DOMAIN a = 1 .. Len(a)
      /\ Len(b) \in Nat /\ DOMAIN b = 1 .. Len(b)
  BY <1>1, LenProperties
<1>3. /\ a \o b \in Seq(S) /\ Len(a \o b) = Len(a) + Len(b)
      /\ \A i \in 1 .. Len(a) + Len(b) : (a \o b)[i] = IF i <= Len(a) THEN a[i] ELSE b[i - Len(a)]
  BY <1>1, ConcatProperties
<1>4. DOMAIN (a \o b) = 1 .. Len(a) + Len(b)
  BY <1>3, LenProperties
<1>5. QED
  BY <1>2, <1>3, <1>4, ConcatSeq

\* A sequence whose members are all in S is one over S.
LEMMA SeqOver ==
    ASSUME NEW s, IsSeq(s), NEW S, \A i \in 1 .. Len(s) : s[i] \in S
    PROVE  s \in Seq(S)
<1>1. ToSet(s) \subseteq S
  BY SeqFacts DEF IsSeq
<1>2. QED
  BY <1>1, SeqMonotonic DEF IsSeq

LEMMA WordsType ==
    ASSUME NEW out, IsSeq(out), NEW types, NEW kind, NEW at
    PROVE  /\ IsSeq(Words(out, types, kind, at)) /\ Len(Words(out, types, kind, at)) = Len(out)
           /\ Wordy(out, types, kind, at) =>
                /\ Words(out, types, kind, at) \in Seq(Seq(Nat))
                /\ Text(out, types, kind, at) \in Seq(Nat)
<1> DEFINE w == Words(out, types, kind, at)
<1>1. Len(out) \in Nat /\ DOMAIN out = 1 .. Len(out) /\ ToSet(out) = {out[i] : i \in 1 .. Len(out)}
  BY SeqFacts DEF IsSeq
<1>2. IsSeq(w) /\ Len(w) = Len(out)
  BY <1>1, FunctionSeq DEF Words
<1>3. ASSUME Wordy(out, types, kind, at) PROVE w \in Seq(Seq(Nat))
  <2>1. \A i \in 1 .. Len(out) : w[i] \in Seq(Nat)
    BY <1>1, <1>3 DEF Wordy, Words, Word
  <2>2. QED
    BY <1>2, <2>1, SeqOver
<1>4. QED
  BY <1>2, <1>3, FlattenAppend DEF Text

LEMMA WordsConcat ==
    ASSUME NEW a, NEW b, IsSeq(a), IsSeq(b), NEW types, NEW kind, NEW at
    PROVE  Words(a \o b, types, kind, at) = Words(a, types, kind, at) \o Words(b, types, kind, at)
<1> DEFINE p == Words(a, types, kind, at)
           q == Words(b, types, kind, at)
           r == Words(a \o b, types, kind, at)
           n == Len(a)
<1>1. /\ n \in Nat /\ DOMAIN a = 1 .. n /\ Len(b) \in Nat /\ DOMAIN b = 1 .. Len(b)
      /\ IsSeq(a \o b) /\ Len(a \o b) = n + Len(b) /\ DOMAIN (a \o b) = 1 .. n + Len(b)
      /\ \A i \in 1 .. n + Len(b) : (a \o b)[i] = IF i <= n THEN a[i] ELSE b[i - n]
  BY ConcatFacts
<1>2. /\ IsSeq(p) /\ IsSeq(q) /\ Len(p) = n /\ Len(q) = Len(b)
      /\ IsSeq(r) /\ Len(r) = n + Len(b)
  BY <1>1, WordsType
<1>3. /\ IsSeq(p \o q) /\ Len(p \o q) = n + Len(b)
      /\ \A i \in 1 .. n + Len(b) : (p \o q)[i] = IF i <= n THEN p[i] ELSE q[i - n]
  BY <1>2, ConcatFacts
<1>4. /\ \A i \in 1 .. n : p[i] = Word(a[i], types, kind, at)
      /\ \A i \in 1 .. Len(b) : q[i] = Word(b[i], types, kind, at)
      /\ \A i \in 1 .. n + Len(b) : r[i] = Word((a \o b)[i], types, kind, at)
  BY <1>1 DEF Words
<1> HIDE DEF p, q, r, n
<1>5. ASSUME NEW i \in 1 .. n + Len(b) PROVE r[i] = (p \o q)[i]
  <2>1. r[i] = Word((a \o b)[i], types, kind, at)
    BY <1>4
  <2>2. CASE i <= n
    <3>1. i \in 1 .. n
      BY <1>1, <2>2
    <3>2. (a \o b)[i] = a[i] /\ (p \o q)[i] = p[i] /\ p[i] = Word(a[i], types, kind, at)
      BY <1>1, <1>3, <1>4, <2>2, <3>1
    <3>3. QED
      BY <2>1, <3>2
  <2>3. CASE ~(i <= n)
    <3>1. i - n \in 1 .. Len(b)
      BY <1>1, <2>3
    <3>2. (a \o b)[i] = b[i - n] /\ (p \o q)[i] = q[i - n] /\ q[i - n] = Word(b[i - n], types, kind, at)
      BY <1>1, <1>3, <1>4, <2>3, <3>1
    <3>3. QED
      BY <2>1, <3>2
  <2>4. QED
    BY <2>2, <2>3
<1>6. r \in Seq(ToSet(r) \cup ToSet(p \o q)) /\ p \o q \in Seq(ToSet(r) \cup ToSet(p \o q))
  BY <1>2, <1>3, SeqMonotonic DEF IsSeq
<1>7. r = p \o q
  BY <1>2, <1>3, <1>5, <1>6, SeqEqual
<1>8. QED
  BY <1>7 DEF p, q, r

LEMMA TextConcat ==
    ASSUME NEW a, NEW b, IsSeq(a), IsSeq(b), NEW types, NEW kind, NEW at,
           Wordy(a, types, kind, at), Wordy(b, types, kind, at)
    PROVE  /\ Wordy(a \o b, types, kind, at)
           /\ Text(a \o b, types, kind, at) = Text(a, types, kind, at) \o Text(b, types, kind, at)
<1>1. Words(a, types, kind, at) \in Seq(Seq(Nat)) /\ Words(b, types, kind, at) \in Seq(Seq(Nat))
  BY WordsType
<1>2. Text(a \o b, types, kind, at) = Text(a, types, kind, at) \o Text(b, types, kind, at)
  <2>1. FlattenSeq(Words(a, types, kind, at) \o Words(b, types, kind, at))
          = FlattenSeq(Words(a, types, kind, at)) \o FlattenSeq(Words(b, types, kind, at))
    BY <1>1, FlattenConcat
  <2>2. Words(a \o b, types, kind, at) = Words(a, types, kind, at) \o Words(b, types, kind, at)
    BY WordsConcat
  <2>3. QED
    BY <2>1, <2>2 DEF Text
<1>3. Wordy(a \o b, types, kind, at)
  BY ConcatSeq DEF Wordy
<1>4. QED
  BY <1>2, <1>3

\* Events of other types, or of other kinds, say nothing.
LEMMA TextNone ==
    ASSUME NEW out, IsSeq(out), NEW types, NEW kind, NEW at,
           \A e \in ToSet(out) : ~Speaks(e, types, kind, at)
    PROVE  Wordy(out, types, kind, at) /\ Text(out, types, kind, at) = <<>>
<1> DEFINE w == Words(out, types, kind, at)
<1>1. Len(out) \in Nat /\ DOMAIN out = 1 .. Len(out) /\ ToSet(out) = {out[i] : i \in 1 .. Len(out)}
  BY SeqFacts DEF IsSeq
<1>2. IsSeq(w) /\ Len(w) = Len(out)
  BY WordsType
<1>3. \A i \in 1 .. Len(w) : w[i] \in {<<>>}
  BY <1>1, <1>2 DEF Words, Word
<1> HIDE DEF w
<1>4. w \in Seq({<<>>})
  BY <1>2, <1>3, SeqOver
<1>5. FlattenSeq(w) = <<>>
  BY <1>4, FlattenEmpties
<1>6. QED
  BY <1>5 DEF Wordy, Text, w

\* One event says its data.
LEMMA FlattenOne ==
    ASSUME NEW d \in Seq(Nat)
    PROVE  FlattenSeq(<<d>>) = d
<1>1. <<>> \in Seq(Seq(Nat)) /\ <<>> \in Seq({<<>>}) /\ Append(<<>>, d) = <<d>>
  OBVIOUS
<1>2. FlattenSeq(<<>>) = <<>>
  BY <1>1, FlattenEmpties
<1>3. FlattenSeq(<<d>>) = <<>> \o d
  BY <1>1, <1>2, FlattenAppend
<1>4. QED
  BY <1>3, ConcatEmptySeq

LEMMA OneSeq ==
    ASSUME NEW e
    PROVE  IsSeq(<<e>>) /\ ToSet(<<e>>) = {e} /\ DOMAIN <<e>> = 1 .. 1 /\ <<e>>[1] = e
<1>1. <<e>> \in Seq({e}) /\ Len(<<e>>) = 1 /\ <<e>>[1] = e
  OBVIOUS
<1>2. IsSeq(<<e>>) /\ ToSet(<<e>>) = {<<e>>[i] : i \in 1 .. 1} /\ DOMAIN <<e>> = 1 .. 1
  BY <1>1, SeqFacts
<1>3. ToSet(<<e>>) = {e}
  BY <1>1, <1>2
<1>4. QED
  BY <1>1, <1>2, <1>3

LEMMA TextOne ==
    ASSUME NEW e, NEW types, NEW kind, NEW at, Speaks(e, types, kind, at) => e.data \in Seq(Nat)
    PROVE  Wordy(<<e>>, types, kind, at) /\ Text(<<e>>, types, kind, at) = Word(e, types, kind, at)
<1>1. CASE Speaks(e, types, kind, at)
  <2>1. Words(<<e>>, types, kind, at) = [i \in 1 .. 1 |-> e.data]
    BY <1>1, OneSeq DEF Words, Word
  <2>2. [i \in 1 .. 1 |-> e.data] = <<e.data>>
    OBVIOUS
  <2>3. Text(<<e>>, types, kind, at) = e.data
    BY <1>1, <2>1, <2>2, FlattenOne DEF Text
  <2>4. QED
    BY <1>1, <2>3, OneSeq DEF Wordy, Word
<1>2. CASE ~Speaks(e, types, kind, at)
  BY <1>2, OneSeq, TextNone DEF Word
<1>3. QED
  BY <1>1, <1>2

\* The first of them, and the rest.
LEMMA TextHead ==
    ASSUME NEW s, IsSeq(s), s # <<>>, NEW types, NEW kind, NEW at, Wordy(s, types, kind, at)
    PROVE  /\ IsSeq(Tail(s)) /\ Wordy(Tail(s), types, kind, at)
           /\ Speaks(Head(s), types, kind, at) => Head(s).data \in Seq(Nat)
           /\ Text(s, types, kind, at) = Word(Head(s), types, kind, at) \o Text(Tail(s), types, kind, at)
<1>1. Head(s) \in ToSet(s) /\ IsSeq(Tail(s)) /\ ToSet(Tail(s)) \subseteq ToSet(s)
  BY HeadTailSeq
<1>2. Wordy(Tail(s), types, kind, at) /\ (Speaks(Head(s), types, kind, at) => Head(s).data \in Seq(Nat))
  BY <1>1 DEF Wordy
<1>3. s = <<Head(s)>> \o Tail(s)
  <2>1. s \in Seq(ToSet(s))
    BY DEF IsSeq
  <2>2. QED
    BY <2>1, HeadTailProperties, SeqFacts
<1> DEFINE h == Head(s)
           r == Tail(s)
<1>4. /\ Wordy(<<h>>, types, kind, at) /\ Text(<<h>>, types, kind, at) = Word(h, types, kind, at) /\ IsSeq(<<h>>)
      /\ Wordy(r, types, kind, at) /\ IsSeq(r)
  BY <1>1, <1>2, TextOne, OneSeq
<1> HIDE DEF h, r
<1>5. Text(<<h>> \o r, types, kind, at) = Text(<<h>>, types, kind, at) \o Text(r, types, kind, at)
  BY <1>4, TextConcat
<1>6. QED
  BY <1>1, <1>2, <1>3, <1>4, <1>5 DEF h, r

\* What is cut short is a prefix.
LEMMA TextCut ==
    ASSUME NEW out, IsSeq(out), NEW types, NEW kind, NEW at, Wordy(out, types, kind, at),
           NEW n \in Nat, n < Len(out)
    PROVE  /\ IsSeq(SubSeq(out, 1, n)) /\ Wordy(SubSeq(out, 1, n), types, kind, at)
           /\ IsPrefix(Text(SubSeq(out, 1, n), types, kind, at), Text(out, types, kind, at))
<1> DEFINE a == SubSeq(out, 1, n)
           b == SubSeq(out, n + 1, Len(out))
           S == ToSet(out)
<1>1. out \in Seq(S) /\ Len(out) \in Nat /\ \A i \in 1 .. Len(out) : out[i] \in S
  BY SeqFacts DEF IsSeq
<1>2. a \in Seq(S)
  BY <1>1, 1 \in Int, n \in Int, SubSeqProperties
<1>3. b \in Seq(S)
  BY <1>1, n + 1 \in Int, Len(out) \in Int, SubSeqProperties
<1>4. a \o b = out
  <2>1. 1 \in 1 .. Len(out) + 1 /\ n \in 1 - 1 .. Len(out) /\ Len(out) \in n .. Len(out)
    BY <1>1
  <2>2. a \o b = SubSeq(out, 1, Len(out))
    BY <1>1, <2>1, ConcatAdjacentSubSeq
  <2>3. QED
    BY <1>1, <2>2, SubSeqFull
<1>5. IsSeq(a) /\ IsSeq(b) /\ ToSet(a) \subseteq S /\ ToSet(b) \subseteq S
  BY <1>2, <1>3, SeqFacts
<1>6. Wordy(a, types, kind, at) /\ Wordy(b, types, kind, at)
  BY <1>5 DEF Wordy
<1> HIDE DEF a, b, S
<1>7. Text(out, types, kind, at) = Text(a, types, kind, at) \o Text(b, types, kind, at)
  <2>1. Text(a \o b, types, kind, at) = Text(a, types, kind, at) \o Text(b, types, kind, at)
    BY <1>5, <1>6, TextConcat
  <2>2. QED
    BY <1>4, <2>1
<1>8. Text(a, types, kind, at) \in Seq(Nat) /\ Text(b, types, kind, at) \in Seq(Nat)
  BY <1>5, <1>6, WordsType
<1>9. IsPrefix(Text(a, types, kind, at), Text(out, types, kind, at))
  BY <1>7, <1>8, PrefixOfConcat
<1>10. QED
  BY <1>5, <1>6, <1>9 DEF a
-----------------------------------------------------------------------------
(* What the target converters say of a kind. *)

Apart(S, T) == S # {} /\ S \cap T = {}

LEMMA AddsText ==
    ASSUME NEW x, NEW y, NEW T, IsTranslator(x), Adds(x, y, T), NEW types, NEW kind, NEW at,
           Apart(types, T), Wordy(x.out, types, kind, at)
    PROVE  /\ IsTranslator(y) /\ Wordy(y.out, types, kind, at)
           /\ Text(y.out, types, kind, at) = Text(x.out, types, kind, at)
<1>1. PICK w : IsSeq(w) /\ TypesOf(w) \subseteq T /\ y.out = x.out \o w
  BY DEF Adds
<1>2. \A e \in ToSet(w) : ~Speaks(e, types, kind, at)
  BY <1>1 DEF TypesOf, Speaks, Apart
<1>3. Wordy(w, types, kind, at) /\ Text(w, types, kind, at) = <<>>
  BY <1>1, <1>2, TextNone
<1>4. IsSeq(x.out)
  BY DEF IsTranslator
<1>5. Wordy(y.out, types, kind, at) /\ Text(y.out, types, kind, at) = Text(x.out, types, kind, at) \o <<>>
  <2>1. IsSeq(w) /\ IsSeq(x.out) /\ Wordy(w, types, kind, at) /\ Wordy(x.out, types, kind, at)
    BY <1>1, <1>3, <1>4
  <2>2. /\ Wordy(x.out \o w, types, kind, at)
        /\ Text(x.out \o w, types, kind, at) = Text(x.out, types, kind, at) \o Text(w, types, kind, at)
    BY <2>1, TextConcat
  <2>3. QED
    BY <1>1, <1>3, <2>2
<1>6. Text(x.out, types, kind, at) \in Seq(Nat)
  BY <1>4, WordsType
<1>7. QED
  BY <1>5, <1>6, ConcatEmptySeq DEF Adds

LEMMA EmitText ==
    ASSUME NEW x, NEW e, IsTranslator(x), NEW types, NEW kind, NEW at, Wordy(x.out, types, kind, at),
           Speaks(e, types, kind, at) => e.data \in Seq(Nat)
    PROVE  /\ IsTranslator(Emit(x, e)) /\ Wordy(Emit(x, e).out, types, kind, at)
           /\ Text(Emit(x, e).out, types, kind, at) = Text(x.out, types, kind, at) \o Word(e, types, kind, at)
<1>1. IsTranslator(Emit(x, e)) /\ Emit(x, e).out = Append(x.out, e)
  BY EmitAdds, e.type \in {e.type} DEF Adds
<1>2. Append(x.out, e) = x.out \o <<e>> /\ IsSeq(x.out)
  <2>1. x.out \in Seq(ToSet(x.out) \cup {e})
    BY SeqMonotonic DEF IsTranslator, IsSeq
  <2>2. QED
    BY <2>1, AppendIsConcat DEF IsTranslator
<1>3. Wordy(<<e>>, types, kind, at) /\ Text(<<e>>, types, kind, at) = Word(e, types, kind, at)
  BY TextOne
<1>4. /\ Wordy(x.out \o <<e>>, types, kind, at)
      /\ Text(x.out \o <<e>>, types, kind, at) = Text(x.out, types, kind, at) \o Word(e, types, kind, at)
  BY <1>2, <1>3, OneSeq, TextConcat
<1>5. QED
  BY <1>1, <1>2, <1>4

\* The data of something of kind k, if that is the kind asked for.
When(k, kind, data) == IF k = kind THEN data ELSE <<>>

LEMMA SaysText ==
    ASSUME NEW x, NEW z, NEW k, NEW d, IsTranslator(x), Says(x, z, k, d),
           NEW types, Apart(types, Openers), "delta" \in types,
           NEW kind, Wordy(x.out, types, kind, AnyIndex), k = kind => d \in Seq(Nat)
    PROVE  /\ IsTranslator(z) /\ Wordy(z.out, types, kind, AnyIndex)
           /\ Text(z.out, types, kind, AnyIndex) = Text(x.out, types, kind, AnyIndex) \o When(k, kind, d)
<1>1. PICK y, e : /\ Adds(x, y, Openers) /\ z = Emit(y, e)
                  /\ e.type = "delta" /\ e.kind = k /\ e.data = d
  BY DEF Says
<1>2. /\ IsTranslator(y) /\ Wordy(y.out, types, kind, AnyIndex)
      /\ Text(y.out, types, kind, AnyIndex) = Text(x.out, types, kind, AnyIndex)
  <2>1. Adds(x, y, Openers)
    BY <1>1
  <2>2. QED
    BY <2>1, AddsText
<1>3. /\ Speaks(e, types, kind, AnyIndex) <=> k = kind
      /\ Word(e, types, kind, AnyIndex) = When(k, kind, d)
  BY <1>1 DEF Speaks, Word, When
<1>4. /\ IsTranslator(Emit(y, e)) /\ Wordy(Emit(y, e).out, types, kind, AnyIndex)
      /\ Text(Emit(y, e).out, types, kind, AnyIndex) = Text(y.out, types, kind, AnyIndex) \o Word(e, types, kind, AnyIndex)
  <2>1. Speaks(e, types, kind, AnyIndex) => e.data \in Seq(Nat)
    BY <1>1, <1>3
  <2>2. IsTranslator(y) /\ Wordy(y.out, types, kind, AnyIndex)
    BY <1>2
  <2>3. QED
    BY <2>1, <2>2, EmitText
<1>5. QED
  BY <1>1, <1>2, <1>3, <1>4

\* What a chunk adds to the text of a kind.
Taken(c, kind) == IF c.kind = kind /\ Carries(kind) THEN c.data ELSE <<>>

LEMMA ProcessText ==
    ASSUME NEW x, IsTranslator(x), NEW c, target \in Protocols, target # "chat",
           NEW types, Apart(types, Openers), "delta" \in types,
           NEW kind \in {"text", "reasoning"}, Wordy(x.out, types, kind, AnyIndex),
           c.kind = kind => c.data \in Seq(Nat)
    PROVE  /\ IsTranslator(Process(target, x, c)) /\ Wordy(Process(target, x, c).out, types, kind, AnyIndex)
           /\ Text(Process(target, x, c).out, types, kind, AnyIndex)
                = Text(x.out, types, kind, AnyIndex) \o Taken(c, kind)
<1> DEFINE z == Process(target, x, c)
<1>1. CASE c.kind = "text" \/ (c.kind = "reasoning" /\ target = "responses")
  <2>1. Says(x, z, c.kind, c.data)
    BY <1>1, ProcessSays
  <2>2. Taken(c, kind) = When(c.kind, kind, c.data)
    BY <1>1 DEF Taken, When, Carries
  <2> HIDE DEF z
  <2>3. /\ IsTranslator(z) /\ Wordy(z.out, types, kind, AnyIndex)
        /\ Text(z.out, types, kind, AnyIndex) = Text(x.out, types, kind, AnyIndex) \o When(c.kind, kind, c.data)
    BY <2>1, SaysText
  <2>4. QED
    BY <2>2, <2>3 DEF z
<1>2. CASE ~(c.kind = "text" \/ (c.kind = "reasoning" /\ target = "responses"))
  <2>1. Adds(x, z, Openers) \/ Says(x, z, "call", c.data)
    BY <1>2, ProcessSays
  <2>2. Taken(c, kind) = <<>>
    BY <1>2 DEF Taken, Carries
  <2> HIDE DEF z
  <2>3. Text(x.out, types, kind, AnyIndex) \o <<>> = Text(x.out, types, kind, AnyIndex)
    BY WordsType, ConcatEmptySeq DEF IsTranslator
  <2>4. CASE Adds(x, z, Openers)
    <3>1. /\ IsTranslator(z) /\ Wordy(z.out, types, kind, AnyIndex)
          /\ Text(z.out, types, kind, AnyIndex) = Text(x.out, types, kind, AnyIndex)
      BY <2>4, AddsText
    <3>2. QED
      BY <2>2, <2>3, <3>1 DEF z
  <2>5. CASE Says(x, z, "call", c.data)
    <3>1. ("call" = kind => c.data \in Seq(Nat)) /\ When("call", kind, c.data) = <<>>
      BY DEF When
    <3>2. /\ IsTranslator(z) /\ Wordy(z.out, types, kind, AnyIndex)
          /\ Text(z.out, types, kind, AnyIndex) = Text(x.out, types, kind, AnyIndex) \o When("call", kind, c.data)
      BY <2>5, <3>1, SaysText
    <3>3. QED
      BY <2>2, <3>1, <3>2 DEF z
  <2>6. QED
    BY <2>1, <2>4, <2>5
<1>3. QED
  BY <1>1, <1>2

\* The end of an answer adds no text.
EndTypes == {"done", "completed", "failed"}

LEMMA EndText ==
    ASSUME NEW x, IsTranslator(x), NEW z, NEW type, EndsWith(x, z, type),
           type \in EndTypes, NEW types, Apart(types, EndTypes),
           NEW kind, NEW at, Wordy(x.out, types, kind, at)
    PROVE  /\ IsTranslator(z) /\ Wordy(z.out, types, kind, at)
           /\ Text(z.out, types, kind, at) = Text(x.out, types, kind, at)
<1>1. PICK y, e : Adds(x, y, {"done"}) /\ e.type = type /\ z = Emit(y, e)
  BY DEF EndsWith
<1>2. /\ IsTranslator(y) /\ Wordy(y.out, types, kind, at)
      /\ Text(y.out, types, kind, at) = Text(x.out, types, kind, at)
  <2>1. Apart(types, {"done"})
    BY DEF Apart, EndTypes
  <2>2. QED
    BY <1>1, <2>1, AddsText
<1>3. Adds(y, z, EndTypes)
  BY <1>1, <1>2, EmitAdds
<1>4. QED
  BY <1>2, <1>3, AddsText

LEMMA CompleteText ==
    ASSUME NEW x, IsTranslator(x), target \in Protocols, target # "chat",
           NEW types, Apart(types, EndTypes),
           NEW kind, NEW at, Wordy(x.out, types, kind, at)
    PROVE  /\ IsTranslator(Complete(target, x)) /\ Wordy(Complete(target, x).out, types, kind, at)
           /\ Text(Complete(target, x).out, types, kind, at) = Text(x.out, types, kind, at)
<1>1. CASE target = "generateContent"
  BY <1>1 DEF Complete
<1>2. CASE target # "generateContent"
  <2>1. EndsWith(x, Complete(target, x), "completed") /\ "completed" \in EndTypes
    BY <1>2, FinishEnds, ClaudeStopEnds DEF Complete, Protocols, EndTypes
  <2>2. QED
    BY <2>1, EndText
<1>3. QED
  BY <1>1, <1>2

LEMMA AbandonText ==
    ASSUME NEW x, IsTranslator(x), NEW types, Apart(types, EndTypes),
           NEW kind, NEW at, Wordy(x.out, types, kind, at)
    PROVE  /\ IsTranslator(Abandon(target, x)) /\ Wordy(Abandon(target, x).out, types, kind, at)
           /\ Text(Abandon(target, x).out, types, kind, at) = Text(x.out, types, kind, at)
<1>1. CASE target = "responses"
  <2>1. EndsWith(x, Abandon(target, x), "failed") /\ "failed" \in EndTypes
    BY <1>1, FinishEnds DEF Abandon, EndTypes
  <2>2. QED
    BY <2>1, EndText
<1>2. CASE target # "responses"
  BY <1>2 DEF Abandon
<1>3. QED
  BY <1>1, <1>2

\* A write that is cut short writes a prefix.
LEMMA WriteText ==
    ASSUME IsTranslator(t), NEW new, IsTranslator(new), NEW types, NEW kind, NEW at,
           Wordy(new.out, types, kind, at), NEW result, Write(new, result)
    PROVE  /\ IsSeq(t'.out) /\ Wordy(t'.out, types, kind, at)
           /\ \/ t' = new /\ tgt' = result
              \/ tgt' = "failed" /\ IsPrefix(Text(t'.out, types, kind, at), Text(new.out, types, kind, at))
<1>1. CASE t' = new /\ tgt' = result
  BY <1>1 DEF IsTranslator
<1>2. CASE /\ gone /\ tgt' = "failed"
           /\ \E n \in Nat : n < Len(new.out) /\ t' = [new EXCEPT !.out = SubSeq(@, 1, n)]
  <2>1. PICK n \in Nat : n < Len(new.out) /\ t' = [new EXCEPT !.out = SubSeq(@, 1, n)]
    BY <1>2
  <2>2. t'.out = SubSeq(new.out, 1, n) /\ IsSeq(new.out)
    BY <2>1 DEF IsTranslator
  <2>3. QED
    BY <1>2, <2>1, <2>2, TextCut
<1>3. QED
  BY <1>1, <1>2, WriteCases
-----------------------------------------------------------------------------
(* What the sources put into the pipe of a kind. *)

LEMMA ChunkText ==
    ASSUME NEW c, NEW kind, c.kind = kind => c.data \in Seq(Nat)
    PROVE  Wordy(<<c>>, {}, kind, AnyIndex) /\ Text(<<c>>, {}, kind, AnyIndex) = When(c.kind, kind, c.data)
<1>1. (Speaks(c, {}, kind, AnyIndex) <=> c.kind = kind) /\ Word(c, {}, kind, AnyIndex) = When(c.kind, kind, c.data)
  BY DEF Speaks, Word, When
<1>2. QED
  BY <1>1, TextOne

\* Chunks of other kinds.
LEMMA QuietText ==
    ASSUME NEW p, IsSeq(p), NEW kind, \A c \in ToSet(p) : c.kind # kind
    PROVE  Wordy(p, {}, kind, AnyIndex) /\ Text(p, {}, kind, AnyIndex) = <<>>
<1>1. \A c \in ToSet(p) : ~Speaks(c, {}, kind, AnyIndex)
  BY DEF Speaks
<1>2. QED
  BY <1>1, TextNone

LEMMA NoText == \A kind : Wordy(<<>>, {}, kind, AnyIndex) /\ Text(<<>>, {}, kind, AnyIndex) = <<>>
  BY QuietText, EmptyFacts

\* The kinds whose fragments are not forwarded as they come.
Unsaid(kind) ==
    \/ source = "messages" /\ kind = "reasoning"
    \/ source = "responses" /\ kind \in held

LEMMA FragmentText ==
    ASSUME NEW r \in Seq(Fragments), NEW f \in Fragments, source \in Protocols,
           source = "generateContent" => f.kind # "args",
           NEW kind \in {"text", "reasoning"}
    PROVE  LET p == FragmentChunks(source, Append(r, f), held)
           IN  /\ Wordy(p, {}, kind, AnyIndex)
               /\ Text(p, {}, kind, AnyIndex) = IF f.kind = kind /\ ~Unsaid(kind) THEN <<Len(r) + 1>> ELSE <<>>
<1> DEFINE q == Append(r, f)
           n == Len(r) + 1
           p == FragmentChunks(source, q, held)
           says == <<TextChunk(f.kind, <<n>>)>>
<1>1. Len(q) = n /\ q[n] = f /\ n \in Nat
  BY AppendProperties, LenProperties
<1>2. f.kind \in {"reasoning", "text", "call", "args"}
  BY DEF Fragments, FragmentKinds
<1> HIDE DEF q, n
<1>3. <<n>> \in Seq(Nat)
  BY <1>1
<1>4. Wordy(says, {}, kind, AnyIndex) /\ Text(says, {}, kind, AnyIndex) = IF f.kind = kind THEN <<n>> ELSE <<>>
  <2>1. TextChunk(f.kind, <<n>>).kind = f.kind /\ TextChunk(f.kind, <<n>>).data = <<n>>
    BY DEF TextChunk, Chunk
  <2>2. Wordy(says, {}, kind, AnyIndex) /\ Text(says, {}, kind, AnyIndex) = When(f.kind, kind, <<n>>)
    BY <1>3, <2>1, ChunkText
  <2>3. QED
    BY <2>2 DEF When
<1>5. \A index, call, data : LET c == <<Chunk("tool", index, call, data)>>
                             IN  Wordy(c, {}, kind, AnyIndex) /\ Text(c, {}, kind, AnyIndex) = <<>>
  <2> TAKE index, call, data
  <2> DEFINE c == Chunk("tool", index, call, data)
  <2>1. c.kind # kind
    BY DEF Chunk
  <2> HIDE DEF c
  <2>2. IsSeq(<<c>>) /\ \A d \in ToSet(<<c>>) : d.kind # kind
    BY <2>1, OneSeq
  <2>3. QED
    BY <2>2, QuietText DEF c
<1> HIDE DEF says
<1>6. CASE p = says /\ (f.kind = kind => ~Unsaid(kind))
  BY <1>4, <1>6 DEF q, n
<1>7. CASE /\ p = <<>> \/ \E index, call, data : p = <<Chunk("tool", index, call, data)>>
           /\ f.kind = kind => Unsaid(kind)
  BY <1>5, <1>7, NoText DEF q, n
<1>8. \/ p = says /\ (f.kind = kind => ~Unsaid(kind))
      \/ /\ p = <<>> \/ \E index, call, data : p = <<Chunk("tool", index, call, data)>>
         /\ f.kind = kind => Unsaid(kind)
  <2>1. CASE source = "chat"
    <3>1. p = ChatChunks(q)
      BY <2>1 DEF FragmentChunks
    <3>2. QED
      BY <1>1, <1>2, <2>1, <3>1 DEF ChatChunks, Unsaid, says
  <2>2. CASE source = "messages"
    <3>1. p = ClaudeChunks(q)
      BY <2>2 DEF FragmentChunks
    <3>2. QED
      BY <1>1, <1>2, <2>2, <3>1 DEF ClaudeChunks, Unsaid, says
  <2>3. CASE source = "generateContent"
    <3>1. p = GeminiChunks(q)
      BY <2>3 DEF FragmentChunks
    <3>2. QED
      BY <1>1, <1>2, <2>3, <3>1 DEF GeminiChunks, Unsaid, says
  <2>4. CASE source = "responses"
    <3>1. p = ResponsesChunks(q, held)
      BY <2>4 DEF FragmentChunks
    <3>2. Held(q, held, n) <=> (IF f.kind = "args" THEN "call" ELSE f.kind) \in held
      BY <1>1 DEF Held
    <3>3. QED
      BY <1>1, <1>2, <2>4, <3>1, <3>2 DEF ResponsesChunks, Unsaid, says
  <2>5. QED
    BY <2>1, <2>2, <2>3, <2>4 DEF Protocols
<1>9. QED
  BY <1>6, <1>7, <1>8

\* The snapshot sends what is withheld, and only that.
LEMMA SnapshotPiece ==
    ASSUME NEW r \in Seq(Fragments), NEW k \in {"text", "reasoning"}, NEW kind
    PROVE  /\ IsSeq(SnapshotText(r, held, k)) /\ Wordy(SnapshotText(r, held, k), {}, kind, AnyIndex)
           /\ Text(SnapshotText(r, held, k), {}, kind, AnyIndex)
                = When(k, kind, IF k \in held THEN OfKind(r, k) ELSE <<>>)
<1> DEFINE p == SnapshotText(r, held, k)
           c == TextChunk(k, OfKind(r, k))
<1>1. \A i \in DOMAIN r : r[i].kind = k => (Held(r, held, i) <=> k \in held)
  BY DEF Held
<1>2. EmittedKind(r, held, k) => k \notin held
  BY <1>1 DEF EmittedKind
<1>3. k \notin held /\ OfKind(r, k) # <<>> => EmittedKind(r, held, k)
  <2>1. SUFFICES ASSUME k \notin held, ~EmittedKind(r, held, k) PROVE OfKind(r, k) = <<>>
    OBVIOUS
  <2>2. {i \in DOMAIN r : r[i].kind = k} = {}
    BY <1>1, <2>1 DEF EmittedKind
  <2>3. QED
    BY <2>2, AscendingNone DEF OfKind
<1>4. OfKind(r, k) \in Seq(Nat)
  BY OfKindType
<1>5. c.kind = k /\ c.data = OfKind(r, k)
  BY DEF TextChunk, Chunk
<1> HIDE DEF c
<1>6. IsSeq(<<c>>) /\ Wordy(<<c>>, {}, kind, AnyIndex) /\ Text(<<c>>, {}, kind, AnyIndex) = When(k, kind, OfKind(r, k))
  BY <1>4, <1>5, ChunkText, OneSeq
<1>7. p = IF k \notin held \/ OfKind(r, k) = <<>> THEN <<>> ELSE <<c>>
  BY <1>2, <1>3 DEF SnapshotText, c
<1> HIDE DEF p
<1>8. CASE k \notin held \/ OfKind(r, k) = <<>>
  <2>1. p = <<>> /\ When(k, kind, IF k \in held THEN OfKind(r, k) ELSE <<>>) = <<>>
    BY <1>7, <1>8 DEF When
  <2>2. QED
    BY <2>1, NoText, EmptyFacts DEF p
<1>9. CASE ~(k \notin held \/ OfKind(r, k) = <<>>)
  BY <1>6, <1>7, <1>9 DEF p
<1>10. QED
  BY <1>8, <1>9

LEMMA SnapshotFlow ==
    ASSUME NEW r \in Seq(Fragments), NEW kind \in {"text", "reasoning"}
    PROVE  /\ Wordy(SnapshotChunks(r, held), {}, kind, AnyIndex)
           /\ Text(SnapshotChunks(r, held), {}, kind, AnyIndex) = IF kind \in held THEN OfKind(r, kind) ELSE <<>>
<1> DEFINE a == SnapshotText(r, held, "reasoning")
           b == SnapshotText(r, held, "text")
           d == IF kind \in held THEN OfKind(r, kind) ELSE <<>>
           calls == MessageToolCalls(r)
           missing == Ascending({c \in DOMAIN calls : ~EmittedToolCall(r, held, c)})
           tools == [k \in DOMAIN missing |->
                       LET c == missing[k] IN Chunk("tool", c - 1, calls[c].call, calls[c].args)]
<1>1. SnapshotChunks(r, held) = (a \o b) \o tools
  BY DEF SnapshotChunks
<1>2. IsSeq(tools) /\ Wordy(tools, {}, kind, AnyIndex) /\ Text(tools, {}, kind, AnyIndex) = <<>>
  <2>1. IsSeq(tools) /\ \A c \in ToSet(tools) : c.kind = "tool"
    BY SnapshotTools DEF Fragments
  <2> HIDE DEF tools
  <2>2. QED
    BY <2>1, QuietText
<1>3. /\ IsSeq(a) /\ Wordy(a, {}, kind, AnyIndex) /\ Text(a, {}, kind, AnyIndex) = IF kind = "reasoning" THEN d ELSE <<>>
      /\ IsSeq(b) /\ Wordy(b, {}, kind, AnyIndex) /\ Text(b, {}, kind, AnyIndex) = IF kind = "text" THEN d ELSE <<>>
  BY SnapshotPiece DEF When
<1>4. d \in Seq(Nat)
  BY OfKindType
<1> HIDE DEF a, b, tools, d
<1>5. IsSeq(a \o b) /\ Wordy(a \o b, {}, kind, AnyIndex) /\ Text(a \o b, {}, kind, AnyIndex) = d
  <2>1. IsSeq(a \o b) /\ Wordy(a \o b, {}, kind, AnyIndex)
        /\ Text(a \o b, {}, kind, AnyIndex) = Text(a, {}, kind, AnyIndex) \o Text(b, {}, kind, AnyIndex)
    BY <1>3, TextConcat, ConcatSeq
  <2>2. <<>> \o d = d /\ d \o <<>> = d
    BY <1>4, ConcatEmptySeq
  <2>3. QED
    BY <1>3, <2>1, <2>2
<1>6. /\ Wordy((a \o b) \o tools, {}, kind, AnyIndex)
      /\ Text((a \o b) \o tools, {}, kind, AnyIndex) = d \o <<>>
  <2> DEFINE ab == a \o b
  <2>1. IsSeq(ab) /\ Wordy(ab, {}, kind, AnyIndex) /\ Text(ab, {}, kind, AnyIndex) = d
    BY <1>5
  <2> HIDE DEF ab
  <2>2. Wordy(ab \o tools, {}, kind, AnyIndex) /\ Text(ab \o tools, {}, kind, AnyIndex) = Text(ab, {}, kind, AnyIndex) \o Text(tools, {}, kind, AnyIndex)
    BY <1>2, <2>1, TextConcat
  <2>3. QED
    BY <1>2, <2>1, <2>2 DEF ab
<1>7. d \o <<>> = d
  BY <1>4, ConcatEmptySeq
<1>8. QED
  BY <1>1, <1>6, <1>7 DEF d
-----------------------------------------------------------------------------
(* The invariant. *)

LEMMA PendingSeq == SourceInv => IsSeq(pending)
<1>1. <<FinishChunk>> \in Seq({FinishChunk}) /\ <<DoneChunk>> \in Seq({DoneChunk})
      /\ <<FinishChunk, DoneChunk>> \in Seq({FinishChunk, DoneChunk})
  OBVIOUS
<1>2. IsSeq(<<FinishChunk>>) /\ IsSeq(<<DoneChunk>>) /\ IsSeq(<<FinishChunk, DoneChunk>>)
  BY <1>1, SeqFacts
<1>3. QED
  BY <1>2 DEF SourceInv, Plain, Endings

LEMMA PendingSeqNext == (SourceInv => IsSeq(pending))'
  BY PendingSeq, PTL

LEMMA FlowTypes ==
    ASSUME Shape, SourceInv, NEW kind, FlowInv(kind)
    PROVE  /\ Said(kind) \in Seq(Nat) /\ Piped(kind) \in Seq(Nat) /\ IsSeq(pending)
           /\ OfKind(read, kind) \in Seq(Nat) /\ Forwarded(kind) \in Seq(Nat)
           /\ IsPrefix(Forwarded(kind), OfKind(read, kind))
<1>1. IsSeq(Out) /\ read \in Seq(Fragments)
  BY DEF Shape, IsTranslator, Out, Fragments
<1>2. IsSeq(pending)
  BY PendingSeq
<1>3. Said(kind) \in Seq(Nat) /\ Piped(kind) \in Seq(Nat)
  BY <1>1, <1>2, WordsType DEF FlowInv, Said, Piped
<1>4. OfKind(read, kind) \in Seq(Nat)
  BY <1>1, OfKindType
<1>5. Forwarded(kind) \in {<<>>, OfKind(read, kind)}
  BY DEF Forwarded
<1>6. <<>> \in Seq(Nat) /\ <<>> \o OfKind(read, kind) = OfKind(read, kind)
      /\ OfKind(read, kind) \o <<>> = OfKind(read, kind)
  BY <1>4, ConcatEmptySeq
<1>7. IsPrefix(<<>>, OfKind(read, kind)) /\ IsPrefix(OfKind(read, kind), OfKind(read, kind))
  BY <1>4, <1>6, PrefixMeans
<1>8. QED
  BY <1>2, <1>3, <1>4, <1>5, <1>6, <1>7

\* A source that puts into the pipe what it has newly forwarded.
LEMMA ReadingFlow ==
    ASSUME Shape, SourceInv, NEW kind, FlowInv(kind), pending = <<>>,
           UNCHANGED <<source, target, held, t, tgt, gone>>,
           Wordy(pending', {}, kind, AnyIndex), IsSeq(pending'),
           Forwarded(kind)' = Forwarded(kind) \o Text(pending', {}, kind, AnyIndex),
           OfKind(read', kind) \in Seq(Nat), IsPrefix(OfKind(read, kind), OfKind(read', kind))
    PROVE  FlowInv(kind)'
<1> DEFINE p == Text(pending', {}, kind, AnyIndex)
<1>1. /\ Said(kind) \in Seq(Nat) /\ OfKind(read, kind) \in Seq(Nat) /\ Forwarded(kind) \in Seq(Nat)
  BY FlowTypes
<1>2. Out' = Out /\ Types' = Types /\ Said(kind)' = Said(kind) /\ Piped(kind)' = p
  BY DEF Out, Types, Said, Piped
<1>3. Intact' = Intact /\ Carries(kind)' = Carries(kind)
  BY DEF Intact, Carries, Out
<1>4. Piped(kind) = <<>> /\ Said(kind) \o <<>> = Said(kind)
  BY <1>1, NoText, ConcatEmptySeq DEF Piped
<1>5. IsPrefix(Said(kind), OfKind(read', kind))
  <2>1. IsPrefix(Said(kind), OfKind(read, kind))
    BY DEF FlowInv
  <2>2. QED
    BY <1>1, <2>1, PrefixTransitive
<1>6. Intact /\ Carries(kind) => Said(kind) \o p = Forwarded(kind)'
  <2>1. SUFFICES ASSUME Intact, Carries(kind) PROVE Said(kind) \o p = Forwarded(kind)'
    OBVIOUS
  <2>2. Said(kind) = Forwarded(kind)
    BY <1>4, <2>1 DEF FlowInv
  <2>3. QED
    BY <2>2
<1> HIDE DEF p
<1>7. Wordy(Out, Types, kind, AnyIndex) /\ (~Carries(kind) => Said(kind) = <<>>)
  BY DEF FlowInv
<1>8. QED
  BY <1>2, <1>3, <1>5, <1>6, <1>7 DEF FlowInv, p

LEMMA ConcatWords == \A a, b, c \in Seq(Nat) : (a \o b) \o c = a \o (b \o c)
<1>1. SUFFICES ASSUME NEW a \in Seq(Nat), NEW b \in Seq(Nat), NEW c \in Seq(Nat)
               PROVE  (a \o b) \o c = a \o (b \o c)
  OBVIOUS
<1>2. IsSeq(a) /\ IsSeq(b) /\ IsSeq(c)
  BY SeqFacts
<1>3. QED
  BY <1>2, ConcatRules

\* A target converter that writes new.
LEMMA WritingFlow ==
    ASSUME Shape, SourceInv, NEW kind, FlowInv(kind), target # "chat", tgt # "failed",
           UNCHANGED <<source, target, held, read, complete, whole>>,
           NEW new, IsTranslator(new), Wordy(new.out, Types, kind, AnyIndex), NEW result, Write(new, result),
           NEW d \in Seq(Nat), Text(new.out, Types, kind, AnyIndex) = Said(kind) \o d,
           Wordy(pending', {}, kind, AnyIndex), IsSeq(pending'), ~Carries(kind) => d = <<>>,
           Carries(kind) /\ (result # "failed" \/ d # <<>>)
             => d \o Text(pending', {}, kind, AnyIndex) = Piped(kind)
    PROVE  FlowInv(kind)'
<1> DEFINE p == Text(pending', {}, kind, AnyIndex)
           now == Said(kind) \o d
           all == OfKind(read, kind)
<1>1. /\ Said(kind) \in Seq(Nat) /\ Piped(kind) \in Seq(Nat) /\ all \in Seq(Nat)
      /\ Forwarded(kind) \in Seq(Nat) /\ IsPrefix(Forwarded(kind), all)
  BY FlowTypes
<1>2. p \in Seq(Nat)
  BY WordsType
<1>3. now \in Seq(Nat) /\ now \o p = Said(kind) \o (d \o p) /\ Said(kind) \o <<>> = Said(kind)
  <2> DEFINE s == Said(kind)
  <2>1. s \in Seq(Nat)
    BY <1>1
  <2> HIDE DEF p, s
  <2>2. s \o d \in Seq(Nat) /\ s \o <<>> = s
    BY <2>1, ConcatProperties, ConcatEmptySeq
  <2>3. (s \o d) \o p = s \o (d \o p)
    <3>1. s \in Seq(Nat) /\ d \in Seq(Nat) /\ p \in Seq(Nat)
      BY <1>2, <2>1
    <3>2. QED
      BY <3>1, ConcatWords
  <2>4. QED
    BY <2>2, <2>3 DEF s
<1>4. Intact /\ Types' = Types /\ Piped(kind)' = p /\ Forwarded(kind)' = Forwarded(kind)
      /\ OfKind(read, kind)' = all /\ Carries(kind)' = Carries(kind)
  BY DEF Intact, Types, Piped, Forwarded, Withheld, Carries
<1> HIDE DEF p, all
<1>5. IsPrefix(now, all)
  <2>1. CASE d = <<>>
    BY <1>3, <2>1 DEF FlowInv, all
  <2>2. CASE d # <<>>
    <3>1. Carries(kind) /\ d \o p = Piped(kind)
      BY <2>2 DEF p
    <3>2. now \o p = Forwarded(kind)
      BY <1>3, <1>4, <3>1 DEF FlowInv
    <3> HIDE DEF now
    <3>3. IsPrefix(now, Forwarded(kind))
      BY <1>1, <1>2, <1>3, <3>2, PrefixMeans
    <3>4. QED
      BY <1>1, <1>3, <3>3, PrefixTransitive
  <2>3. QED
    BY <2>1, <2>2
<1>6. ~Carries(kind) => now = <<>>
  BY <1>3 DEF FlowInv
<1>7. result # "failed" /\ Carries(kind) => now \o p = Forwarded(kind)
  BY <1>3, <1>4 DEF FlowInv, p
<1> HIDE DEF now
<1>8. /\ IsSeq(t'.out) /\ Wordy(t'.out, Types, kind, AnyIndex)
      /\ \/ t' = new /\ tgt' = result
         \/ tgt' = "failed" /\ IsPrefix(Text(t'.out, Types, kind, AnyIndex), Text(new.out, Types, kind, AnyIndex))
  BY WriteText DEF Shape
<1>9. Said(kind)' = Text(t'.out, Types, kind, AnyIndex)
  BY <1>4 DEF Said, Out
<1>10. Said(kind)' \in Seq(Nat)
  BY <1>8, <1>9, WordsType
<1>11. Text(new.out, Types, kind, AnyIndex) = now
  BY DEF now
<1>12. CASE t' = new /\ tgt' = result
  <2>1. Said(kind)' = now
    BY <1>9, <1>11, <1>12
  <2>2. Intact' => result # "failed"
    BY <1>12 DEF Intact
  <2>3. QED
    BY <1>4, <1>5, <1>6, <1>7, <1>8, <2>1, <2>2 DEF FlowInv, Out, p, all
<1>13. CASE tgt' = "failed" /\ IsPrefix(Text(t'.out, Types, kind, AnyIndex), Text(new.out, Types, kind, AnyIndex))
  <2>1. ~Intact'
    BY <1>13 DEF Intact
  <2>2. IsPrefix(Said(kind)', now)
    BY <1>9, <1>11, <1>13
  <2>3. IsPrefix(Said(kind)', all)
    BY <1>1, <1>3, <1>5, <1>10, <2>2, PrefixTransitive
  <2>4. ~Carries(kind) => Said(kind)' = <<>>
    BY <1>6, <1>10, <2>2, PrefixOfEmpty
  <2>5. QED
    BY <1>4, <1>8, <2>1, <2>3, <2>4 DEF FlowInv, Out, all
<1>14. QED
  BY <1>8, <1>12, <1>13
-----------------------------------------------------------------------------
(* The steps of the source. *)

LEMMA ReadFragmentFlow ==
    ASSUME Shape, SourceInv, ReadFragment, NEW kind \in {"text", "reasoning"}, FlowInv(kind)
    PROVE  FlowInv(kind)'
<1>1. PICK f \in NextFragments : read' = Append(read, f) /\ pending' = FragmentChunks(source, read', held)
  BY DEF ReadFragment
<1>2. read \in Seq(Fragments) /\ source \in Protocols /\ f \in Fragments
  BY NextAreFragments DEF Shape, Fragments
<1>3. source = "generateContent" => f.kind # "args"
  BY DEF NextFragments, ArgsAllowed, Fragment
<1> DEFINE p == Text(pending', {}, kind, AnyIndex)
           d == IF f.kind = kind THEN <<Len(read) + 1>> ELSE <<>>
           all == OfKind(read, kind)
<1>4. /\ Wordy(pending', {}, kind, AnyIndex)
      /\ p = IF f.kind = kind /\ ~Unsaid(kind) THEN <<Len(read) + 1>> ELSE <<>>
  BY <1>1, <1>2, <1>3, FragmentText
<1>5. all \in Seq(Nat) /\ d \in Seq(Nat) /\ OfKind(read', kind) = all \o d
  <2>1. OfKind(read', kind) = IF f.kind = kind THEN Append(all, Len(read) + 1) ELSE all
    BY <1>1, <1>2, OfKindAppend
  <2>2. all \in Seq(Nat) /\ Len(read) \in Nat
    BY <1>2, OfKindType, LenProperties
  <2> HIDE DEF all
  <2>3. Append(all, Len(read) + 1) = all \o <<Len(read) + 1>> /\ all \o <<>> = all
    BY <2>2, AppendIsConcat, ConcatEmptySeq
  <2>4. QED
    BY <2>1, <2>2, <2>3
<1>6. /\ UNCHANGED <<source, target, held, t, tgt, gone, whole>> /\ pending = <<>> /\ ~whole
  BY DEF ReadFragment, MayRead, SourceInv, targetVars, fixed
<1>7. Forwarded(kind) = (IF Unsaid(kind) THEN <<>> ELSE all)
      /\ Forwarded(kind)' = (IF Unsaid(kind) THEN <<>> ELSE OfKind(read', kind))
  BY <1>6 DEF Forwarded, Withheld, Unsaid
<1> HIDE DEF d, all, p
<1>8. Forwarded(kind)' = Forwarded(kind) \o p
  <2>1. CASE Unsaid(kind)
    BY <1>4, <1>7, <2>1
  <2>2. CASE ~Unsaid(kind)
    <3>1. p = d
      BY <1>4, <2>2 DEF d
    <3>2. QED
      BY <1>5, <1>7, <2>2, <3>1
  <2>3. QED
    BY <2>1, <2>2
<1>9. OfKind(read', kind) \in Seq(Nat) /\ IsPrefix(all, OfKind(read', kind))
  BY <1>5, PrefixOfConcat, ConcatProperties
<1>10. IsSeq(pending')
  BY ReadFragmentEffect, PendingSeqNext DEF ReadingEffect
<1>11. QED
  BY <1>4, <1>6, <1>8, <1>9, <1>10, ReadingFlow DEF p, all

LEMMA ReadTerminalFlow ==
    ASSUME Shape, SourceInv, ReadTerminal, NEW kind \in {"text", "reasoning"}, FlowInv(kind)
    PROVE  FlowInv(kind)'
<1> DEFINE p == Text(pending', {}, kind, AnyIndex)
           all == OfKind(read, kind)
<1>1. read \in Seq(Fragments) /\ source \in Protocols
  BY DEF Shape, Fragments
<1>2. /\ UNCHANGED <<source, target, held, t, tgt, gone, read>>
      /\ pending = <<>> /\ ~whole /\ whole' /\ pending' = TerminalChunks(source, read, held)
  BY DEF ReadTerminal, MayRead, SourceInv, targetVars, fixed
<1>3. all \in Seq(Nat) /\ all \o <<>> = all /\ <<>> \o all = all
  BY <1>1, OfKindType, ConcatEmptySeq
<1>4. Wordy(pending', {}, kind, AnyIndex) /\ p = IF source = "responses" /\ kind \in held THEN all ELSE <<>>
  <2>1. CASE source = "chat"
    <3>1. IsSeq(<<FinishChunk>>) /\ \A c \in ToSet(<<FinishChunk>>) : c.kind # kind
      BY OneSeq DEF FinishChunk, Chunk
    <3>2. pending' = <<FinishChunk>>
      BY <1>2, <2>1 DEF TerminalChunks
    <3>3. QED
      BY <2>1, <3>1, <3>2, QuietText
  <2>2. CASE source = "responses"
    <3>1. pending' = SnapshotChunks(read, held)
      BY <1>2, <2>2 DEF TerminalChunks
    <3>2. QED
      BY <1>1, <2>2, <3>1, SnapshotFlow
  <2>3. CASE source \in {"messages", "generateContent"}
    <3>1. pending' = <<>>
      BY <1>2, <2>3 DEF TerminalChunks
    <3>2. QED
      BY <2>3, <3>1, NoText
  <2>4. QED
    BY <1>1, <2>1, <2>2, <2>3 DEF Protocols
<1>5. Forwarded(kind) = (IF Unsaid(kind) THEN <<>> ELSE all)
      /\ Forwarded(kind)' = (IF source = "messages" /\ kind = "reasoning" THEN <<>> ELSE all)
  BY <1>2 DEF Forwarded, Withheld, Unsaid
<1> HIDE DEF p, all
<1>6. Forwarded(kind)' = Forwarded(kind) \o p
  <2>1. CASE source = "messages" /\ kind = "reasoning"
    <3>1. Forwarded(kind) = <<>> /\ Forwarded(kind)' = <<>> /\ p = <<>>
      BY <1>4, <1>5, <2>1 DEF Unsaid
    <3>2. <<>> \o <<>> = <<>>
      BY ConcatEmptySeq, <<>> \in Seq(Nat)
    <3>3. QED
      BY <3>1, <3>2
  <2>2. CASE Unsaid(kind) /\ ~(source = "messages" /\ kind = "reasoning")
    <3>1. Forwarded(kind) = <<>> /\ Forwarded(kind)' = all /\ p = all
      BY <1>4, <1>5, <2>2 DEF Unsaid
    <3>2. QED
      BY <1>3, <3>1
  <2>3. CASE ~Unsaid(kind)
    <3>1. Forwarded(kind) = all /\ Forwarded(kind)' = all /\ p = <<>>
      BY <1>4, <1>5, <2>3 DEF Unsaid
    <3>2. QED
      BY <1>3, <3>1
  <2>4. QED
    BY <2>1, <2>2, <2>3
<1>7. IsPrefix(all, all)
  <2>1. <<>> \in Seq(Nat)
    OBVIOUS
  <2>2. QED
    BY <1>3, <2>1, PrefixMeans
<1>8. IsSeq(pending')
  BY ReadTerminalEffect, PendingSeqNext DEF ReadingEffect
<1>9. QED
  BY <1>2, <1>3, <1>4, <1>6, <1>7, <1>8, ReadingFlow DEF p, all

\* The other steps of a source put no words into the pipe.
LEMMA QuietFlow ==
    ASSUME Shape, SourceInv, ReadDone \/ ReadEnd \/ ReadError \/ ReadMalformed,
           NEW kind \in {"text", "reasoning"}, FlowInv(kind)
    PROVE  FlowInv(kind)'
<1> DEFINE p == Text(pending', {}, kind, AnyIndex)
<1>1. /\ UNCHANGED <<source, target, held, t, tgt, gone, read, whole>> /\ pending = <<>>
      /\ source \in Protocols
  BY DEF Shape, ReadDone, ReadEnd, ReadError, ReadMalformed, MayRead, sourceVars, targetVars, fixed
<1>2. pending' \in {<<>>, <<DoneChunk>>, <<FinishChunk, DoneChunk>>, <<BadChunk>>}
  BY <1>1, ClosingEnds DEF ReadDone, ReadEnd, ReadError, ReadMalformed
<1>3. IsSeq(pending') /\ \A c \in ToSet(pending') : c.kind # kind
  <2>1. FinishChunk.kind # kind /\ DoneChunk.kind # kind /\ BadChunk.kind # kind
    BY DEF FinishChunk, DoneChunk, BadChunk, Chunk
  <2>2. <<FinishChunk, DoneChunk>> \in Seq({FinishChunk, DoneChunk})
    OBVIOUS
  <2>3. /\ IsSeq(<<FinishChunk, DoneChunk>>)
        /\ ToSet(<<FinishChunk, DoneChunk>>) \subseteq {FinishChunk, DoneChunk}
    BY <2>2, SeqFacts
  <2>4. QED
    BY <1>2, <2>1, <2>3, OneSeq, EmptyFacts
<1>4. Wordy(pending', {}, kind, AnyIndex) /\ p = <<>>
  BY <1>3, QuietText
<1>5. OfKind(read, kind) \in Seq(Nat) /\ Forwarded(kind) \in Seq(Nat)
  BY FlowTypes
<1>6. Forwarded(kind)' = Forwarded(kind)
  BY <1>1 DEF Forwarded, Withheld
<1> HIDE DEF p
<1>7. Forwarded(kind)' = Forwarded(kind) \o p
  BY <1>4, <1>5, <1>6, ConcatEmptySeq
<1>8. OfKind(read', kind) \in Seq(Nat) /\ IsPrefix(OfKind(read, kind), OfKind(read', kind))
  <2>1. OfKind(read, kind) \o <<>> = OfKind(read, kind) /\ <<>> \in Seq(Nat)
    BY <1>5, ConcatEmptySeq
  <2>2. IsPrefix(OfKind(read, kind), OfKind(read, kind))
    BY <1>5, <2>1, PrefixMeans
  <2>3. QED
    BY <1>1, <1>5, <2>2
<1>9. QED
  BY <1>1, <1>3, <1>4, <1>7, <1>8, ReadingFlow DEF p

\* A write of the source fails only when words can be lost.
LEMMA SourceWriteFailsFlow ==
    ASSUME Shape, SourceInv, ChatClientInv, tgt = "ok" => pending = <<>>, SourceWriteFails,
           NEW kind, FlowInv(kind)
    PROVE  FlowInv(kind)'
<1>1. /\ UNCHANGED <<source, target, held, t, tgt, gone, read, complete, whole>>
      /\ pending # <<>> /\ SinkClosed /\ pending' \in {Tail(pending), <<>>}
  BY DEF SourceWriteFails, targetVars, fixed
<1>2. Wordy(pending', {}, kind, AnyIndex)
  <2>1. IsSeq(pending) /\ Wordy(pending, {}, kind, AnyIndex)
    BY PendingSeq DEF FlowInv
  <2>2. Wordy(Tail(pending), {}, kind, AnyIndex)
    BY <1>1, <2>1, TextHead
  <2>3. QED
    BY <1>1, <2>2, NoText
<1>3. ~Intact'
  <2>1. ~Intact
    BY <1>1 DEF Intact, SinkClosed, Ended, ChatClientInv
  <2>2. QED
    BY <1>1, <2>1 DEF Intact, Out
<1>4. Out' = Out /\ Types' = Types /\ Said(kind)' = Said(kind) /\ Carries(kind)' = Carries(kind)
  BY <1>1 DEF Out, Types, Said, Carries
<1>5. QED
  BY <1>1, <1>2, <1>3, <1>4 DEF FlowInv

\* Steps that leave words where they are.
LEMMA StillFlow ==
    ASSUME UNCHANGED <<source, target, held, t, tgt, read, complete, whole, pending>>, gone => gone',
           NEW kind, FlowInv(kind)
    PROVE  FlowInv(kind)'
<1>1. /\ Out' = Out /\ Types' = Types /\ Said(kind)' = Said(kind) /\ Carries(kind)' = Carries(kind)
      /\ Piped(kind)' = Piped(kind) /\ Forwarded(kind)' = Forwarded(kind)
  BY DEF Out, Types, Said, Carries, Piped, Forwarded, Withheld
<1>2. Intact' => Intact
  BY DEF Intact, Out
<1>3. QED
  BY <1>1, <1>2 DEF FlowInv

LEMMA SourceFlow ==
    ASSUME Shape, SourceInv, ChatClientInv, tgt = "ok" => pending = <<>>, Source,
           NEW kind \in {"text", "reasoning"}, FlowInv(kind)
    PROVE  FlowInv(kind)'
<1>1. CASE SourceReturns
  BY <1>1, StillFlow DEF SourceReturns, targetVars, fixed
<1>2. CASE Reading
  BY <1>2, ReadFragmentFlow, ReadTerminalFlow, QuietFlow DEF Reading
<1>3. QED
  BY <1>1, <1>2, SourceWriteFailsFlow DEF Source

-----------------------------------------------------------------------------
(* The steps of the target. *)

\* No words go out with the start or the end of an answer.
LEMMA WordlessFlow ==
    ASSUME Shape, SourceInv, NEW kind, FlowInv(kind), target # "chat", tgt # "failed",
           UNCHANGED <<source, target, held, read, complete, whole>>,
           NEW new, IsTranslator(new), Wordy(new.out, Types, kind, AnyIndex),
           Text(new.out, Types, kind, AnyIndex) = Said(kind), NEW result, Write(new, result),
           Wordy(pending', {}, kind, AnyIndex), IsSeq(pending'),
           result # "failed" => Text(pending', {}, kind, AnyIndex) = Piped(kind)
    PROVE  FlowInv(kind)'
<1>1. <<>> \in Seq(Nat) /\ Said(kind) \o <<>> = Said(kind)
  BY FlowTypes, ConcatEmptySeq
<1>2. Text(pending', {}, kind, AnyIndex) \in Seq(Nat)
  BY WordsType
<1>3. <<>> \o Text(pending', {}, kind, AnyIndex) = Text(pending', {}, kind, AnyIndex)
  BY <1>2, ConcatEmptySeq
<1>4. QED
  BY <1>1, <1>3, WritingFlow

LEMMA DeltaApart ==
    ASSUME target # "chat"
    PROVE  "delta" \in Types /\ Apart(Types, Openers) /\ Apart(Types, EndTypes)
  BY DEF Types, Apart, Openers, EndTypes

\* The translator as the three lemmas above see it.
LEMMA TranslatorText ==
    ASSUME Shape, NEW kind, FlowInv(kind)
    PROVE  IsTranslator(t) /\ Wordy(t.out, Types, kind, AnyIndex) /\ Said(kind) = Text(t.out, Types, kind, AnyIndex)
  BY DEF Shape, FlowInv, Said, Out

LEMMA TargetStartsFlow ==
    ASSUME Shape, SourceInv, ChatClientInv, TargetStarts, NEW kind, FlowInv(kind)
    PROVE  FlowInv(kind)'
<1>1. /\ target # "chat" /\ tgt = "starting" /\ Write(Begin(target, t), "running")
      /\ UNCHANGED <<source, target, held, read, complete, whole, pending>>
  BY DEF TargetStarts, ChatClientInv, sourceVars, fixed
<1> DEFINE new == Begin(target, t)
<1>2. Adds(t, new, Openers)
  BY BeginAdds DEF Shape
<1> HIDE DEF new
<1>3. IsTranslator(new) /\ Wordy(new.out, Types, kind, AnyIndex) /\ Text(new.out, Types, kind, AnyIndex) = Said(kind)
  BY <1>1, <1>2, TranslatorText, DeltaApart, AddsText
<1>4. Wordy(pending', {}, kind, AnyIndex) /\ IsSeq(pending') /\ Text(pending', {}, kind, AnyIndex) = Piped(kind)
  BY <1>1, PendingSeq DEF FlowInv, Piped
<1>5. Write(new, "running")
  BY <1>1 DEF new
<1>6. QED
  BY <1>1, <1>3, <1>4, <1>5, WordlessFlow

\* The chunk at the head of the pipe, and what is left.
LEMMA PipeHead ==
    ASSUME SourceInv, pending # <<>>, pending' = Tail(pending), NEW kind, FlowInv(kind)
    PROVE  /\ Wordy(pending', {}, kind, AnyIndex) /\ IsSeq(pending')
           /\ Head(pending).kind = kind => Head(pending).data \in Seq(Nat)
           /\ Piped(kind) = When(Head(pending).kind, kind, Head(pending).data) \o Text(pending', {}, kind, AnyIndex)
<1>1. IsSeq(pending) /\ Wordy(pending, {}, kind, AnyIndex)
  BY PendingSeq DEF FlowInv
<1> DEFINE c == Head(pending)
<1>2. (Speaks(c, {}, kind, AnyIndex) <=> c.kind = kind) /\ Word(c, {}, kind, AnyIndex) = When(c.kind, kind, c.data)
  BY DEF Speaks, Word, When
<1>3. /\ IsSeq(Tail(pending)) /\ Wordy(Tail(pending), {}, kind, AnyIndex)
      /\ Speaks(c, {}, kind, AnyIndex) => c.data \in Seq(Nat)
      /\ Text(pending, {}, kind, AnyIndex) = Word(c, {}, kind, AnyIndex) \o Text(Tail(pending), {}, kind, AnyIndex)
  BY <1>1, TextHead
<1>4. QED
  BY <1>2, <1>3 DEF Piped

LEMMA AbandonFlow ==
    ASSUME Shape, SourceInv, NEW kind, FlowInv(kind), target # "chat", tgt = "running",
           UNCHANGED <<source, target, held, read, complete, whole>>,
           Write(Abandon(target, t), "failed"), Wordy(pending', {}, kind, AnyIndex), IsSeq(pending')
    PROVE  FlowInv(kind)'
<1> DEFINE new == Abandon(target, t)
<1>1. IsTranslator(new) /\ Wordy(new.out, Types, kind, AnyIndex) /\ Text(new.out, Types, kind, AnyIndex) = Said(kind)
  BY TranslatorText, DeltaApart, AbandonText
<1> HIDE DEF new
<1>2. Write(new, "failed")
  BY DEF new
<1>3. QED
  BY <1>1, <1>2, WordlessFlow

LEMMA CompleteFlow ==
    ASSUME Shape, SourceInv, NEW kind, FlowInv(kind), target # "chat", tgt = "running",
           UNCHANGED <<source, target, held, read, complete, whole>>,
           Write(Complete(target, t), "ok"), Wordy(pending', {}, kind, AnyIndex), IsSeq(pending'),
           Text(pending', {}, kind, AnyIndex) = Piped(kind)
    PROVE  FlowInv(kind)'
<1> DEFINE new == Complete(target, t)
<1>1. IsTranslator(new) /\ Wordy(new.out, Types, kind, AnyIndex) /\ Text(new.out, Types, kind, AnyIndex) = Said(kind)
  BY TranslatorText, DeltaApart, CompleteText DEF Shape
<1> HIDE DEF new
<1>2. Write(new, "ok")
  BY DEF new
<1>3. QED
  BY <1>1, <1>2, WordlessFlow

LEMMA TakeChunkFlow ==
    ASSUME Shape, SourceInv, TakeChunk, NEW kind \in {"text", "reasoning"}, FlowInv(kind)
    PROVE  FlowInv(kind)'
<1> DEFINE c == Head(pending)
           p == Text(pending', {}, kind, AnyIndex)
<1>1. /\ target # "chat" /\ tgt = "running" /\ pending # <<>> /\ pending' = Tail(pending)
      /\ UNCHANGED <<source, target, held, read, complete, whole>> /\ target \in Protocols
  BY DEF Shape, TakeChunk, sourceVars, fixed
<1>2. /\ Wordy(pending', {}, kind, AnyIndex) /\ IsSeq(pending')
      /\ c.kind = kind => c.data \in Seq(Nat)
      /\ Piped(kind) = When(c.kind, kind, c.data) \o p
  BY <1>1, PipeHead
<1>3. p \in Seq(Nat) /\ <<>> \o p = p
  BY <1>2, WordsType, ConcatEmptySeq
<1>4. CASE c.kind = "done"
  <2>1. Write(Complete(target, t), "ok")
    BY <1>4 DEF TakeChunk
  <2>2. When(c.kind, kind, c.data) = <<>>
    BY <1>4 DEF When
  <2> HIDE DEF c, p
  <2>3. p = Piped(kind)
    BY <1>2, <1>3, <2>2
  <2>4. QED
    BY <1>1, <1>2, <2>1, <2>3, CompleteFlow DEF p
<1>5. CASE c.kind = "malformed"
  <2>1. Write(Abandon(target, t), "failed")
    BY <1>5 DEF TakeChunk
  <2>2. QED
    BY <1>1, <1>2, <2>1, AbandonFlow
<1>6. CASE c.kind \notin {"done", "malformed"}
  <2> DEFINE new == Process(target, t, c)
             d == Taken(c, kind)
  <2>1. Write(new, "running")
    BY <1>6 DEF TakeChunk
  <2>2. IsTranslator(t) /\ Wordy(t.out, Types, kind, AnyIndex) /\ Said(kind) = Text(t.out, Types, kind, AnyIndex)
    BY TranslatorText
  <2> HIDE DEF c
  <2>3. IsTranslator(new) /\ Wordy(new.out, Types, kind, AnyIndex) /\ Text(new.out, Types, kind, AnyIndex) = Said(kind) \o d
    BY <1>1, <1>2, <2>2, DeltaApart, ProcessText
  <2>4. d \in Seq(Nat) /\ (~Carries(kind) => d = <<>>)
    BY <1>2 DEF Taken
  <2>5. Carries(kind) => d = When(c.kind, kind, c.data)
    BY DEF Taken, When
  <2> HIDE DEF new, d, p
  <2>6. Carries(kind) => d \o p = Piped(kind)
    BY <1>2, <2>5
  <2>7. QED
    BY <1>1, <1>2, <2>1, <2>3, <2>4, <2>6, WritingFlow DEF p
<1>7. QED
  BY <1>4, <1>5, <1>6

LEMMA TakeCancelledFlow ==
    ASSUME Shape, SourceInv, TakeCancelled, NEW kind, FlowInv(kind)
    PROVE  FlowInv(kind)'
<1>1. /\ target # "chat" /\ tgt = "running" /\ pending # <<>> /\ pending' = Tail(pending)
      /\ UNCHANGED <<source, target, held, read, complete, whole>> /\ Write(Abandon(target, t), "failed")
  BY DEF TakeCancelled, sourceVars, fixed
<1>2. Wordy(pending', {}, kind, AnyIndex) /\ IsSeq(pending')
  BY <1>1, PipeHead
<1>3. QED
  BY <1>1, <1>2, AbandonFlow

LEMMA TakeEndFlow ==
    ASSUME Shape, SourceInv, TakeEnd, NEW kind, FlowInv(kind)
    PROVE  FlowInv(kind)'
<1>1. /\ target # "chat" /\ tgt = "running"
      /\ UNCHANGED <<source, target, held, read, complete, whole, pending>>
      /\ Write(Abandon(target, t), "failed") \/ Write(Complete(target, t), "ok")
  BY DEF TakeEnd, sourceVars, fixed
<1>2. Wordy(pending', {}, kind, AnyIndex) /\ IsSeq(pending') /\ Text(pending', {}, kind, AnyIndex) = Piped(kind)
  BY <1>1, PendingSeq DEF FlowInv, Piped
<1>3. QED
  BY <1>1, <1>2, AbandonFlow, CompleteFlow

\* A Chat client gets the words as they are.
LEMMA DeliverChunkFlow ==
    ASSUME Shape, SourceInv, DeliverChunk, NEW kind \in {"text", "reasoning"}, FlowInv(kind)
    PROVE  FlowInv(kind)'
<1> DEFINE c == Head(pending)
           e == Event(c.kind, c.index, c.kind, c.call, c.data)
           p == Text(pending', {}, kind, AnyIndex)
           d == When(c.kind, kind, c.data)
<1>1. /\ target = "chat" /\ ~gone /\ pending # <<>> /\ pending' = Tail(pending)
      /\ t' = Process(target, t, c)
      /\ UNCHANGED <<source, target, held, read, complete, whole, tgt, gone>>
  BY DEF DeliverChunk, sourceVars, fixed
<1>2. /\ Wordy(pending', {}, kind, AnyIndex) /\ IsSeq(pending')
      /\ c.kind = kind => c.data \in Seq(Nat)
      /\ Piped(kind) = d \o p
  BY <1>1, PipeHead
<1>3. t' = Emit(t, e)
  BY <1>1 DEF Process
<1>4. (Speaks(e, Types, kind, AnyIndex) <=> c.kind = kind) /\ Word(e, Types, kind, AnyIndex) = d
      /\ (Speaks(e, Types, kind, AnyIndex) => e.data \in Seq(Nat))
  BY <1>1, <1>2 DEF Speaks, Word, When, Types, Event
<1>5. IsTranslator(t) /\ Wordy(t.out, Types, kind, AnyIndex) /\ Said(kind) = Text(t.out, Types, kind, AnyIndex)
  BY TranslatorText
<1>6. d \in Seq(Nat) /\ p \in Seq(Nat)
  BY <1>2, WordsType DEF When
<1> HIDE DEF e, d, p, c
<1>7. Wordy(t'.out, Types, kind, AnyIndex) /\ Text(t'.out, Types, kind, AnyIndex) = Said(kind) \o d
  <2>1. /\ Wordy(Emit(t, e).out, Types, kind, AnyIndex)
        /\ Text(Emit(t, e).out, Types, kind, AnyIndex) = Text(t.out, Types, kind, AnyIndex) \o Word(e, Types, kind, AnyIndex)
    <3>1. IsTranslator(t) /\ Wordy(t.out, Types, kind, AnyIndex) /\ (Speaks(e, Types, kind, AnyIndex) => e.data \in Seq(Nat))
      BY <1>4, <1>5
    <3>2. QED
      BY <3>1, EmitText
  <2>2. QED
    BY <1>3, <1>4, <1>5, <2>1
<1>8. Types' = Types /\ Said(kind)' = Said(kind) \o d /\ Piped(kind)' = p
      /\ Forwarded(kind)' = Forwarded(kind) /\ OfKind(read, kind)' = OfKind(read, kind)
  <2>1. Types' = Types
    BY <1>1 DEF Types
  <2>2. QED
    BY <1>1, <1>7, <2>1 DEF Said, Out, Piped, Forwarded, Withheld, p
<1>9. Intact /\ Carries(kind) /\ Carries(kind)'
  BY <1>1 DEF Intact, Carries
<1>10. (Said(kind) \o d) \o p = Forwarded(kind)
  <2>1. Said(kind) \in Seq(Nat) /\ d \in Seq(Nat) /\ p \in Seq(Nat)
    BY <1>6, FlowTypes
  <2>2. (Said(kind) \o d) \o p = Said(kind) \o (d \o p)
    BY <2>1, ConcatWords
  <2>3. QED
    BY <1>2, <1>9, <2>2 DEF FlowInv
<1>11. IsPrefix(Said(kind) \o d, OfKind(read, kind))
  <2> DEFINE now == Said(kind) \o d
  <2>1. /\ now \in Seq(Nat) /\ Forwarded(kind) \in Seq(Nat) /\ OfKind(read, kind) \in Seq(Nat)
        /\ IsPrefix(Forwarded(kind), OfKind(read, kind)) /\ now \o p = Forwarded(kind)
    BY <1>6, <1>10, FlowTypes, ConcatProperties
  <2> HIDE DEF now
  <2>2. IsPrefix(now, Forwarded(kind))
    BY <1>6, <2>1, PrefixMeans
  <2>3. QED
    BY <2>1, <2>2, PrefixTransitive DEF now
<1>12. QED
  BY <1>2, <1>7, <1>8, <1>9, <1>10, <1>11 DEF FlowInv, Out
LEMMA TargetFlow ==
    ASSUME Shape, SourceInv, ChatClientInv, Target, NEW kind \in {"text", "reasoning"}, FlowInv(kind)
    PROVE  FlowInv(kind)'
  BY TargetStartsFlow, TakeChunkFlow, TakeCancelledFlow, TakeEndFlow, DeliverChunkFlow DEF Target

-----------------------------------------------------------------------------
(* The theorem. *)

LEMMA NextFlow ==
    ASSUME IInv, tgt = "ok" => pending = <<>>, [Next]_vars,
           NEW kind \in {"text", "reasoning"}, FlowInv(kind)
    PROVE  FlowInv(kind)'
<1>1. Shape /\ SourceInv /\ ChatClientInv
  BY DEF IInv
<1>2. CASE Source
  BY <1>1, <1>2, SourceFlow
<1>3. CASE Target
  BY <1>1, <1>3, TargetFlow
<1>4. CASE Return \/ ClientLeaves \/ Cancel \/ UNCHANGED vars
  <2>1. UNCHANGED <<source, target, held, t, tgt, read, complete, whole, pending>> /\ (gone => gone')
    BY <1>4 DEF Return, ClientLeaves, Cancel, vars, sourceVars, targetVars
  <2>2. QED
    BY <2>1, StillFlow
<1>5. QED
  BY <1>2, <1>3, <1>4 DEF Next

\* Nothing is left in the pipe of a target that has ended well, or comes into it.
LEMMA NextDrained ==
    ASSUME IInv, tgt = "ok" => pending = <<>>, [Next]_vars, tgt' = "ok"
    PROVE  pending' = <<>>
<1>1. \A new, result : Write(new, result) => tgt' \in {result, "failed"}
  BY DEF Write
<1>2. CASE Reading
  <2>1. src = "running" /\ tgt' = tgt /\ (source = "chat" => tgt = "running")
    BY <1>2 DEF Reading, ReadFragment, ReadTerminal, ReadDone, ReadEnd, ReadError, ReadMalformed,
                MayRead, targetVars
  <2>2. QED
    BY <2>1 DEF IInv, TargetInv, ChatClientInv
<1>3. CASE SourceReturns \/ SourceWriteFails
  BY <1>3 DEF SourceReturns, SourceWriteFails, targetVars
<1>4. CASE TargetStarts \/ TakeCancelled
  BY <1>1, <1>4 DEF TargetStarts, TakeCancelled
<1>5. CASE TakeChunk
  <2>1. Head(pending).kind = "done" /\ pending # <<>> /\ pending' = Tail(pending)
    BY <1>1, <1>5 DEF TakeChunk
  <2>2. FinishChunk.kind # "done"
    BY DEF FinishChunk, Chunk
  <2>3. SourceInv
    BY DEF IInv
  <2>4. Tail(pending) = <<>>
    BY <2>1, <2>2, <2>3, TakeHead
  <2>5. QED
    BY <2>1, <2>4
<1>6. CASE TakeEnd
  BY <1>6 DEF TakeEnd
<1>7. CASE DeliverChunk
  BY <1>7 DEF DeliverChunk, IInv, ChatClientInv
<1>8. CASE Return \/ ClientLeaves \/ Cancel \/ UNCHANGED vars
  BY <1>8 DEF Return, ClientLeaves, Cancel, vars, targetVars
<1>9. QED
  BY <1>2, <1>3, <1>4, <1>5, <1>6, <1>7, <1>8 DEF Next, Source, Target

LEMMA InitTextInv == Init => TextInv
<1>1. SUFFICES ASSUME Init PROVE TextInv
  OBVIOUS
<1>2. IInv
  BY <1>1, InitIInv
<1>3. t.out = <<>> /\ read = <<>> /\ pending = <<>> /\ ~complete
  BY <1>1 DEF Init, NewTranslator
<1>4. \A kind : FlowInv(kind)
  <2> TAKE kind
  <2>1. OfKind(read, kind) = <<>>
    BY <1>3, OfKindNone
  <2>2. Wordy(Out, Types, kind, AnyIndex) /\ Said(kind) = <<>>
    <3>1. \A e \in ToSet(Out) : ~Speaks(e, Types, kind, AnyIndex)
      BY <1>3, EmptyFacts DEF Out
    <3>2. IsSeq(Out)
      BY <1>3, EmptyFacts DEF Out
    <3>3. QED
      BY <3>1, <3>2, TextNone DEF Said
  <2>3. Wordy(pending, {}, kind, AnyIndex) /\ Piped(kind) = <<>>
    BY <1>3, NoText DEF Piped
  <2>4. Forwarded(kind) = <<>>
    BY <2>1 DEF Forwarded
  <2>5. <<>> \o <<>> = <<>> /\ IsPrefix(<<>>, <<>>)
    BY <<>> \in Seq(Nat), ConcatEmptySeq, PrefixMeans
  <2>6. QED
    BY <2>1, <2>2, <2>3, <2>4, <2>5 DEF FlowInv
<1>5. QED
  BY <1>2, <1>3, <1>4 DEF TextInv

LEMMA NextTextInv == TextInv /\ [Next]_vars => TextInv'
<1>1. SUFFICES ASSUME TextInv, [Next]_vars PROVE TextInv'
  OBVIOUS
<1>2. IInv /\ (tgt = "ok" => pending = <<>>)
  BY <1>1 DEF TextInv
<1>3. FlowInv("text") /\ FlowInv("reasoning")
  BY <1>1 DEF TextInv
<1>4. IInv'
  BY <1>1, <1>2, NextIInv
<1>5. (tgt = "ok" => pending = <<>>)'
  BY <1>1, <1>2, NextDrained
<1>6. FlowInv("text")' /\ FlowInv("reasoning")'
  BY <1>1, <1>2, <1>3, NextFlow
<1>7. QED
  BY <1>4, <1>5, <1>6 DEF TextInv

\* In every state what the client has been told of a kind, followed by what is in
\* the pipe, is what the source has forwarded, unless the client has left or the
\* target has failed.
THEOREM TextInvCorrect == Spec => []TextInv
  BY InitTextInv, NextTextInv, PTL DEF Spec

\* The handler reports success only when all that came has been taken.
LEMMA SuccessIsWhole ==
    ASSUME TextInv, outcome = "success"
    PROVE  complete /\ pending = <<>> /\ Intact
<1>1. IInv /\ Shape /\ SourceInv
  BY DEF TextInv, IInv
<1>2. (source # "chat" => src = "ok") /\ (target # "chat" => tgt = "ok") /\ source # target
  BY <1>1 DEF IInv, Shape, OutcomeInv, Ended
<1>3. CASE target = "chat"
  BY <1>1, <1>2, <1>3 DEF IInv, ChatClientInv, Intact
<1>4. CASE target # "chat"
  BY <1>1, <1>2, <1>4 DEF IInv, TargetInv, TextInv, Intact
<1>5. QED
  BY <1>3, <1>4

\* The words of an answer that streams through the converters (pipeConvertedStream
\* and streamFromChatSource) reach the client in the order the upstream sent them,
\* none twice, whenever it stops; and when the handler reports success all of them,
\* but what an upstream kept for a snapshot that it never sent.
THEOREM TextCorrect == Spec => []TextDelivered
<1>1. TextInv => TextDelivered
  <2>1. SUFFICES ASSUME TextInv, NEW kind \in {"text", "reasoning"}
                 PROVE  /\ IsPrefix(Said(kind), OfKind(read, kind))
                        /\ /\ outcome = "success"
                           /\ kind = "reasoning" => source # "messages" /\ target \in {"chat", "responses"}
                           => Said(kind) = IF Withheld(kind) THEN <<>> ELSE OfKind(read, kind)
    BY DEF TextDelivered
  <2>2. FlowInv(kind) /\ IInv /\ Shape /\ SourceInv
    BY <2>1 DEF TextInv, IInv
  <2>3. IsPrefix(Said(kind), OfKind(read, kind)) /\ Said(kind) \in Seq(Nat)
    BY <2>2, FlowTypes DEF FlowInv
  <2>4. ASSUME outcome = "success",
               kind = "reasoning" => source # "messages" /\ target \in {"chat", "responses"}
        PROVE  Said(kind) = IF Withheld(kind) THEN <<>> ELSE OfKind(read, kind)
    <3>1. complete /\ pending = <<>> /\ Intact
      BY <2>1, <2>4, SuccessIsWhole
    <3>2. Carries(kind) /\ Forwarded(kind) = IF Withheld(kind) THEN <<>> ELSE OfKind(read, kind)
      BY <2>1, <2>4, <3>1 DEF Carries, Forwarded
    <3>3. Piped(kind) = <<>> /\ Said(kind) \o <<>> = Said(kind)
      BY <2>3, <3>1, NoText, ConcatEmptySeq DEF Piped
    <3>4. QED
      BY <2>2, <3>1, <3>2, <3>3 DEF FlowInv
  <2>5. QED
    BY <2>3, <2>4
<1>2. QED
  BY <1>1, TextInvCorrect, PTL
===============================================================================
