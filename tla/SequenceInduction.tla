--------------------------- MODULE SequenceInduction ---------------------------
(***************************************************************************)
(* Induction over numbers, and what it gives for sequences of sequences.    *)
(***************************************************************************)
EXTENDS Integers, SequencesExt, SequenceTheorems, WellFoundedInduction, TLAPS

-----------------------------------------------------------------------------
(* Induction on the natural numbers, over a set instead of a predicate.     *)

\* Every set of natural numbers with a member has a least one.
LEMMA Least ==
    ASSUME NEW T \in SUBSET Nat, T # {}
    PROVE  \E m \in T : \A n \in T : m <= n
<1>1. \E R : IsWellFoundedOn(R, Nat) /\ \A m, n \in Nat : n < m => <<n, m>> \in R
  <2>1. \A m, n \in Nat : n < m => <<n, m>> \in OpToRel(<, Nat)
    BY Zenon DEF OpToRel
  <2>2. QED
    BY <2>1, NatLessThanWellFounded, Zenon
<1>2. PICK R : IsWellFoundedOn(R, Nat) /\ \A m, n \in Nat : n < m => <<n, m>> \in R
  BY <1>1
<1>3. PICK m \in T : \A n \in T : ~(<<n, m>> \in R)
  BY <1>2, WFMin
<1>4. \A k, n \in Nat : n < k => <<n, k>> \in R
  BY <1>2
<1>5. \A n \in T : ~(n < m)
  <2> TAKE n \in T
  <2>1. n \in Nat /\ m \in Nat
    OBVIOUS
  <2>2. QED
    BY <1>3, <1>4, <2>1, Zenon
<1>6. QED
  BY <1>5

\* A set with 0 and the successor of each of its members has every number.
LEMMA SetInduction ==
    ASSUME NEW S, 0 \in S, \A n \in Nat : n \in S => n + 1 \in S
    PROVE  Nat \subseteq S
<1> DEFINE T == {n \in Nat : n \notin S}
<1>1. SUFFICES ASSUME T # {} PROVE FALSE
  OBVIOUS
<1>2. PICK m \in T : \A n \in T : m <= n
  BY <1>1, Least
<1>3. m # 0 /\ m - 1 \in Nat
  OBVIOUS
<1>4. m - 1 \in S
  BY <1>2, <1>3
<1>5. QED
  BY <1>3, <1>4

-----------------------------------------------------------------------------
(* FlattenSeq *)

\* FlattenSeq as the value of a loop.
LEMMA FlattenLoop ==
    ASSUME NEW S, NEW ss \in Seq(Seq(S)), ss # <<>>
    PROVE  \E f : /\ f \in [1 .. Len(ss) -> Seq(S)]
                  /\ f[1] = ss[1]
                  /\ \A i \in 1 .. Len(ss) - 1 : f[i + 1] = f[i] \o ss[i + 1]
                  /\ FlattenSeq(ss) = f[Len(ss)]
<1> DEFINE N == Len(ss)
           Loop(f) == f = [i \in 1 .. N |-> IF i = 1 THEN ss[i] ELSE f[i - 1] \o ss[i]]
           Turns(f, m) == \A i \in 1 .. m : f[i] = IF i = 1 THEN ss[i] ELSE f[i - 1] \o ss[i]
           Reaches(m) == m + 1 <= N => \E f \in [1 .. m + 1 -> Seq(S)] : Turns(f, m + 1)
           R == {m \in Nat : Reaches(m)}
<1>1. N \in Nat \ {0} /\ \A i \in 1 .. N : ss[i] \in Seq(S)
  BY EmptySeq, LenProperties, ElementOfSeq
<1> HIDE DEF N
<1>2. Reaches(0)
  <2> DEFINE f == [i \in 1 .. 1 |-> ss[i]]
  <2>1. 1 \in 1 .. N /\ \A i \in 1 .. 1 : i = 1
    BY <1>1
  <2>2. f \in [1 .. 0 + 1 -> Seq(S)] /\ Turns(f, 0 + 1)
    BY <1>1, <2>1
  <2>3. QED
    BY <2>2
<1>3. ASSUME NEW m \in Nat, Reaches(m), m + 1 + 1 <= N PROVE Reaches(m + 1)
  <2>0. m + 1 <= N
    <3> HIDE DEF Reaches
    <3>1. QED
      BY <1>1, <1>3
  <2>1. PICK f \in [1 .. m + 1 -> Seq(S)] : Turns(f, m + 1)
    <3> HIDE DEF Turns
    <3>1. QED
      BY <1>3, <2>0
  <2> DEFINE g == [i \in 1 .. m + 1 + 1 |-> IF i <= m + 1 THEN f[i] ELSE f[m + 1] \o ss[i]]
  <2>2. ss[m + 1 + 1] \in Seq(S) /\ f[m + 1] \in Seq(S)
    <3> HIDE DEF Reaches
    <3>1. m + 1 + 1 \in 1 .. N /\ m + 1 \in 1 .. m + 1
      BY <1>1, <1>3
    <3>2. QED
      BY <1>1, <2>1, <3>1
  <2>3. f[m + 1] \o ss[m + 1 + 1] \in Seq(S)
    BY <2>2, ConcatProperties
  <2>4. \A i \in 1 .. m + 1 + 1 : i \in 1 .. m + 1 \/ i = m + 1 + 1
    OBVIOUS
  <2>5. g \in [1 .. m + 1 + 1 -> Seq(S)]
    BY <2>3, <2>4
  <2>6. ASSUME NEW i \in 1 .. m + 1 + 1
        PROVE  g[i] = IF i = 1 THEN ss[i] ELSE g[i - 1] \o ss[i]
    <3>1. CASE i = m + 1 + 1
      <4>1. i # 1 /\ i - 1 = m + 1 /\ ~(i <= m + 1) /\ i - 1 \in 1 .. m + 1 + 1 /\ i - 1 <= m + 1
        BY <3>1
      <4>2. g[i] = f[m + 1] \o ss[i] /\ g[i - 1] = f[i - 1]
        BY <4>1
      <4>3. QED
        BY <4>1, <4>2
    <3>2. CASE i \in 1 .. m + 1
      <4>1. g[i] = f[i] /\ (i # 1 => g[i - 1] = f[i - 1])
        BY <3>2
      <4>2. QED
        BY <2>1, <3>2, <4>1
    <3>3. QED
      BY <2>4, <3>1, <3>2
  <2>7. QED
    BY <2>5, <2>6
<1>4. \A m \in Nat : Reaches(m)
  <2> HIDE DEF Reaches
  <2>1. \A m \in Nat : m \in R => m + 1 \in R
    <3> SUFFICES ASSUME NEW m \in Nat, Reaches(m) PROVE Reaches(m + 1)
      OBVIOUS
    <3>1. CASE m + 1 + 1 <= N
      BY <1>3, <3>1
    <3>2. CASE ~(m + 1 + 1 <= N)
      BY <3>2 DEF Reaches
    <3>3. QED
      BY <3>1, <3>2
  <2>2. 0 \in R
    BY <1>2
  <2> HIDE DEF R
  <2>3. Nat \subseteq R
    BY <2>1, <2>2, SetInduction
  <2>4. QED
    BY <2>3 DEF R
<1>5. \E f : Loop(f) /\ f \in [1 .. N -> Seq(S)]
  <2>1. N - 1 \in Nat /\ (N - 1) + 1 = N /\ N <= N
    BY <1>1
  <2>2. Reaches(N - 1)
    BY <1>4, <2>1
  <2>3. \E f \in [1 .. (N - 1) + 1 -> Seq(S)] : Turns(f, (N - 1) + 1)
    BY <2>1, <2>2
  <2>4. PICK f \in [1 .. N -> Seq(S)] : Turns(f, N)
    BY <2>1, <2>3
  <2>5. f = [i \in 1 .. N |-> IF i = 1 THEN ss[i] ELSE f[i - 1] \o ss[i]]
    BY <2>4
  <2>6. QED
    BY <2>4, <2>5
<1> DEFINE flatten == CHOOSE f : Loop(f)
<1>6. Loop(flatten)
  BY <1>5
<1>7. FlattenSeq(ss) = flatten[N]
  BY <1>1 DEF FlattenSeq, N
<1> HIDE DEF flatten
<1>8. \A i \in 1 .. N : flatten[i] = IF i = 1 THEN ss[i] ELSE flatten[i - 1] \o ss[i]
  BY <1>6
<1>9. flatten[1] = ss[1] /\ \A i \in 1 .. N - 1 : flatten[i + 1] = flatten[i] \o ss[i + 1]
  <2>1. 1 \in 1 .. N /\ \A i \in 1 .. N - 1 : i + 1 \in 1 .. N /\ i + 1 # 1 /\ (i + 1) - 1 = i
    BY <1>1
  <2>2. QED
    BY <1>8, <2>1
<1>10. \A i \in 1 .. N : flatten[i] \in Seq(S)
  <2> DEFINE T == {m \in Nat : m + 1 <= N => flatten[m + 1] \in Seq(S)}
  <2>1. 0 \in T
    BY <1>1, <1>9
  <2>2. ASSUME NEW m \in Nat, m \in T PROVE m + 1 \in T
    <3>1. SUFFICES ASSUME m + 1 + 1 <= N PROVE flatten[m + 1 + 1] \in Seq(S)
      OBVIOUS
    <3>2. m + 1 \in 1 .. N - 1 /\ m + 1 + 1 \in 1 .. N
      BY <1>1, <3>1
    <3>3. flatten[m + 1] \in Seq(S) /\ ss[m + 1 + 1] \in Seq(S)
      BY <1>1, <2>2, <3>2
    <3>4. QED
      BY <1>9, <3>2, <3>3, ConcatProperties
  <2> HIDE DEF T
  <2>3. Nat \subseteq T
    BY <2>1, <2>2, SetInduction
  <2>4. \A i \in 1 .. N : i - 1 \in Nat /\ (i - 1) + 1 = i /\ i <= N
    BY <1>1
  <2>5. QED
    BY <2>3, <2>4 DEF T
<1>11. flatten = [i \in 1 .. N |-> flatten[i]]
  BY <1>6
<1>12. flatten \in [1 .. N -> Seq(S)]
  BY <1>10, <1>11
<1>13. QED
  BY <1>7, <1>9, <1>12 DEF N

LEMMA FlattenAppend ==
    ASSUME NEW S, NEW ss \in Seq(Seq(S)), NEW d \in Seq(S)
    PROVE  /\ FlattenSeq(ss) \in Seq(S)
           /\ FlattenSeq(Append(ss, d)) = FlattenSeq(ss) \o d
<1> DEFINE N == Len(ss)
           more == Append(ss, d)
<1>1. /\ more \in Seq(Seq(S)) /\ more # <<>> /\ Len(more) = N + 1
      /\ \A i \in 1 .. N : more[i] = ss[i]
      /\ more[N + 1] = d /\ N \in Nat
  BY AppendProperties, LenProperties
<1> HIDE DEF more
<1>2. PICK g : /\ g[1] = more[1]
               /\ \A i \in 1 .. Len(more) - 1 : g[i + 1] = g[i] \o more[i + 1]
               /\ FlattenSeq(more) = g[Len(more)]
  BY <1>1, FlattenLoop
<1>3. CASE ss = <<>>
  <2>1. N = 0 /\ FlattenSeq(ss) = <<>>
    BY <1>3 DEF FlattenSeq
  <2>2. FlattenSeq(more) = d
    BY <1>1, <1>2, <2>1
  <2>3. <<>> \in Seq(S) /\ <<>> \o d = d
    BY ConcatEmptySeq
  <2>4. QED
    BY <2>1, <2>2, <2>3 DEF more
<1>4. CASE ss # <<>>
  <2>1. PICK f : /\ f \in [1 .. N -> Seq(S)] /\ f[1] = ss[1]
                 /\ \A i \in 1 .. N - 1 : f[i + 1] = f[i] \o ss[i + 1]
                 /\ FlattenSeq(ss) = f[N]
    BY <1>4, FlattenLoop
  <2>2. N # 0
    BY <1>4, EmptySeq
  <2> DEFINE T == {m \in Nat : m + 1 <= N => f[m + 1] = g[m + 1]}
  <2> HIDE DEF N
  <2>3. 0 \in T
    BY <1>1, <1>2, <2>1, <2>2
  <2>4. ASSUME NEW m \in Nat, m \in T PROVE m + 1 \in T
    <3>1. SUFFICES ASSUME m + 1 + 1 <= N PROVE f[m + 1 + 1] = g[m + 1 + 1]
      OBVIOUS
    <3>2. m + 1 \in 1 .. N - 1 /\ m + 1 \in 1 .. Len(more) - 1 /\ m + 1 + 1 \in 1 .. N
      BY <1>1, <3>1
    <3>3. f[m + 1] = g[m + 1] /\ more[m + 1 + 1] = ss[m + 1 + 1]
      BY <1>1, <2>4, <3>2
    <3>4. QED
      BY <1>2, <2>1, <3>2, <3>3
  <2> HIDE DEF T
  <2>5. Nat \subseteq T
    BY <2>3, <2>4, SetInduction
  <2>6. N - 1 \in Nat /\ (N - 1) + 1 = N
    BY <1>1, <2>2
  <2>7. f[N] = g[N]
    <3>1. N - 1 \in T /\ (N - 1) + 1 <= N
      BY <1>1, <2>5, <2>6
    <3>2. f[(N - 1) + 1] = g[(N - 1) + 1]
      BY <3>1 DEF T
    <3>3. QED
      BY <2>6, <3>2
  <2>8. N \in 1 .. Len(more) - 1 /\ N \in 1 .. N
    BY <1>1, <2>2
  <2>9. FlattenSeq(more) = f[N] \o d
    BY <1>1, <1>2, <2>7, <2>8
  <2>10. QED
    BY <2>1, <2>8, <2>9 DEF more
<1>5. QED
  BY <1>3, <1>4

LEMMA FlattenConcat ==
    ASSUME NEW S, NEW a \in Seq(Seq(S)), NEW b \in Seq(Seq(S))
    PROVE  FlattenSeq(a \o b) = FlattenSeq(a) \o FlattenSeq(b)
<1> DEFINE p(m) == SubSeq(b, 1, m)
           T == {m \in Nat : m <= Len(b) => FlattenSeq(a \o p(m)) = FlattenSeq(a) \o FlattenSeq(p(m))}
<1>1. Len(b) \in Nat /\ \A i \in 1 .. Len(b) : b[i] \in Seq(S)
  BY LenProperties, ElementOfSeq
<1>2. 0 \in T
  <2>1. p(0) = <<>>
    BY SubSeqEmpty, 1 \in Int, 0 \in Int
  <2>2. FlattenSeq(<<>>) = <<>> /\ FlattenSeq(a) \in Seq(S)
    <3>1. FlattenSeq(<<>>) = <<>>
      BY DEF FlattenSeq
    <3>2. <<>> \in Seq(S)
      OBVIOUS
    <3>3. FlattenSeq(a) \in Seq(S)
      BY <3>2, FlattenAppend
    <3>4. QED
      BY <3>1, <3>3
  <2>3. a \o <<>> = a /\ FlattenSeq(a) \o <<>> = FlattenSeq(a)
    BY <2>2, ConcatEmptySeq
  <2>4. QED
    BY <2>1, <2>2, <2>3
<1>3. ASSUME NEW m \in Nat, m \in T PROVE m + 1 \in T
  <2>1. SUFFICES ASSUME m + 1 <= Len(b)
                 PROVE  FlattenSeq(a \o p(m + 1)) = FlattenSeq(a) \o FlattenSeq(p(m + 1))
    OBVIOUS
  <2> DEFINE e == b[m + 1]
  <2>2. e \in Seq(S)
    BY <1>1, <2>1
  <2>3. p(m) \in Seq(Seq(S))
    <3>1. \A i \in 1 .. m : b[i] \in Seq(S)
      BY <1>1, <2>1
    <3>2. QED
      BY <3>1, SubSeqProperties, 1 \in Int, m \in Int
  <2>4. p(m + 1) = p(m) \o <<e>>
    <3>1. 1 \in 1 .. Len(b) /\ m + 1 \in 1 .. Len(b) /\ (m + 1) - 1 = m
      BY <1>1, <2>1
    <3>2. QED
      BY <3>1, SubSeqRecursiveSecond
  <2>5. FlattenSeq(a \o p(m)) = FlattenSeq(a) \o FlattenSeq(p(m))
    BY <1>1, <1>3, <2>1
  <2> HIDE DEF p, e
  <2>6. <<e>> \in Seq(Seq(S)) /\ p(m + 1) = Append(p(m), e)
    BY <2>2, <2>3, <2>4, AppendIsConcat
  <2>7. a \o p(m) \in Seq(Seq(S)) /\ a \o p(m + 1) = (a \o p(m)) \o <<e>>
    <3>1. a \o p(m) \in Seq(Seq(S))
      BY <2>3, ConcatProperties
    <3>2. (a \o p(m)) \o <<e>> = a \o (p(m) \o <<e>>)
      <4>1. \A x, y, z \in Seq(Seq(S)) : (x \o y) \o z = x \o (y \o z)
        BY ConcatAssociative
      <4>2. QED
        BY <2>3, <2>6, <4>1
    <3>3. QED
      BY <2>4, <3>1, <3>2
  <2>8. a \o p(m + 1) = Append(a \o p(m), e)
    BY <2>2, <2>7, AppendIsConcat
  <2>9. /\ FlattenSeq(a \o p(m + 1)) = FlattenSeq(a \o p(m)) \o e
        /\ FlattenSeq(p(m + 1)) = FlattenSeq(p(m)) \o e
        /\ FlattenSeq(a) \in Seq(S) /\ FlattenSeq(p(m)) \in Seq(S)
    BY <2>2, <2>3, <2>6, <2>7, <2>8, FlattenAppend
  <2>10. (FlattenSeq(a) \o FlattenSeq(p(m))) \o e = FlattenSeq(a) \o (FlattenSeq(p(m)) \o e)
    BY <2>2, <2>9, ConcatAssociative
  <2>11. QED
    BY <2>5, <2>9, <2>10
<1>4. Len(b) \in T
  <2> HIDE DEF T
  <2>1. QED
    BY <1>1, <1>2, <1>3, SetInduction
<1>5. p(Len(b)) = b
  BY SubSeqFull
<1>6. FlattenSeq(a \o p(Len(b))) = FlattenSeq(a) \o FlattenSeq(p(Len(b)))
  BY <1>1, <1>4
<1> HIDE DEF p
<1>7. QED
  BY <1>5, <1>6

\* Empty sequences add nothing.
LEMMA FlattenEmpties ==
    ASSUME NEW b \in Seq({<<>>})
    PROVE  FlattenSeq(b) = <<>>
<1>1. CASE b = <<>>
  BY <1>1 DEF FlattenSeq
<1>2. CASE b # <<>>
  <2>1. /\ <<>> \in Seq({}) /\ b \in Seq(Seq({})) /\ Len(b) \in Nat
        /\ \A i \in 1 .. Len(b) : b[i] = <<>>
    <3>1. <<>> \in Seq({})
      OBVIOUS
    <3>2. {<<>>} \subseteq Seq({})
      BY <3>1
    <3>3. b \in Seq(Seq({}))
      BY <3>2, SeqMonotonic
    <3>4. Len(b) \in Nat /\ \A i \in 1 .. Len(b) : b[i] \in {<<>>}
      BY LenProperties, ElementOfSeq
    <3>5. QED
      BY <3>1, <3>3, <3>4
  <2>2. \A q \in Seq({}) : q = <<>>
    BY EmptySeq, ElementOfSeq, LenProperties
  <2>3. FlattenSeq(b) \in Seq({})
    BY <2>1, FlattenAppend
  <2>4. QED
    BY <2>2, <2>3
<1>3. QED
  BY <1>1, <1>2

-----------------------------------------------------------------------------
(* IsPrefix *)

LEMMA PrefixOfConcat ==
    ASSUME NEW S, NEW s \in Seq(S), NEW u \in Seq(S)
    PROVE  IsPrefix(s, s \o u)
<1>1. /\ Len(s) \in Nat /\ Len(u) \in Nat
      /\ s \o u \in Seq(S) /\ Len(s \o u) = Len(s) + Len(u)
      /\ \A i \in 1 .. Len(s) + Len(u) :
            (s \o u)[i] = IF i <= Len(s) THEN s[i] ELSE u[i - Len(s)]
  BY ConcatProperties, LenProperties
<1> DEFINE p == SubSeq(s \o u, 1, Len(s))
<1>2. p \in Seq(S) /\ Len(p) = Len(s) /\ \A i \in 1 .. Len(s) : p[i] = (s \o u)[i]
  <2>1. \A i \in 1 .. Len(s) : (s \o u)[i] \in S
    BY <1>1, ElementOfSeq
  <2>2. /\ p \in Seq(S) /\ Len(p) = IF 1 <= Len(s) THEN Len(s) - 1 + 1 ELSE 0
        /\ \A i \in 1 .. Len(s) - 1 + 1 : p[i] = (s \o u)[1 + i - 1]
    BY <1>1, <2>1, 1 \in Int, Len(s) \in Int, SubSeqProperties
  <2>3. QED
    BY <1>1, <2>2
<1>3. \A i \in 1 .. Len(s) : p[i] = s[i]
  BY <1>1, <1>2
<1> HIDE DEF p
<1>4. p = s
  BY <1>2, <1>3, SeqEqual
<1>5. SubSeq(s, 1, Len(s)) = s
  BY SubSeqFull
<1>6. QED
  BY <1>1, <1>4, <1>5 DEF IsPrefix, p

\* A sequence and its prefixes.
LEMMA PrefixMeans ==
    ASSUME NEW S, NEW s \in Seq(S), NEW r \in Seq(S)
    PROVE  IsPrefix(s, r) <=> \E u \in Seq(S) : r = s \o u
<1>1. ASSUME IsPrefix(s, r) PROVE \E u \in Seq(S) : r = s \o u
  <2>1. Len(s) \in Nat /\ Len(r) \in Nat /\ Len(s) <= Len(r) /\ SubSeq(r, 1, Len(s)) = s
    BY <1>1, SubSeqFull, LenProperties DEF IsPrefix
  <2> DEFINE u == SubSeq(r, Len(s) + 1, Len(r))
  <2>2. u \in Seq(S)
    <3>1. \A i \in Len(s) + 1 .. Len(r) : r[i] \in S
      BY <2>1, ElementOfSeq
    <3>2. QED
      BY <2>1, <3>1, Len(s) + 1 \in Int, Len(r) \in Int, SubSeqProperties
  <2>3. SubSeq(r, 1, Len(s)) \o u = SubSeq(r, 1, Len(r))
    <3>1. 1 \in 1 .. Len(r) + 1 /\ Len(s) \in 1 - 1 .. Len(r) /\ Len(r) \in Len(s) .. Len(r)
      BY <2>1
    <3>2. QED
      BY <3>1, ConcatAdjacentSubSeq
  <2>4. QED
    BY <2>1, <2>2, <2>3, SubSeqFull
<1>2. QED
  BY <1>1, PrefixOfConcat

LEMMA PrefixTransitive ==
    ASSUME NEW S, NEW s \in Seq(S), NEW r \in Seq(S), NEW q \in Seq(S), IsPrefix(s, r), IsPrefix(r, q)
    PROVE  IsPrefix(s, q)
<1>1. PICK u \in Seq(S) : r = s \o u
  BY PrefixMeans
<1>2. PICK v \in Seq(S) : q = r \o v
  BY PrefixMeans
<1>3. q = s \o (u \o v) /\ u \o v \in Seq(S)
  BY <1>1, <1>2, ConcatAssociative, ConcatProperties
<1>4. QED
  BY <1>3, PrefixMeans

LEMMA PrefixOfEmpty ==
    ASSUME NEW S, NEW s \in Seq(S), IsPrefix(s, <<>>)
    PROVE  s = <<>>
<1>1. PICK u \in Seq(S) : <<>> = s \o u
  BY <<>> \in Seq(S), PrefixMeans
<1>2. Len(s) \in Nat /\ Len(u) \in Nat /\ 0 = Len(s) + Len(u)
  BY <1>1, ConcatProperties, LenProperties
<1>3. Len(s) = 0
  BY <1>2
<1>4. QED
  BY <1>3, EmptySeq
===============================================================================
