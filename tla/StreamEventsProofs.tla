--------------------------- MODULE StreamEventsProofs ---------------------------
(***************************************************************************)
(* The items, blocks and calls of an answer reach the client whole and in   *)
(* their order, for answers of every length and every number of calls.      *)
(***************************************************************************)
EXTENDS StreamTextProofs

-----------------------------------------------------------------------------
(* What an upstream has sent. *)

\* ReadInv of a sequence of fragments.
Answer(r) ==
    /\ r \in Seq(Fragments)
    /\ CallsIn(r) = 1 .. Cardinality(CallsIn(r))
    /\ Cardinality(CallsIn(r)) <= Len(r)
    /\ \A i \in DOMAIN r :
        /\ r[i].kind \in {"text", "reasoning"} <=> r[i].call = 0
        /\ r[i].kind = "args" => \E j \in 1 .. (i - 1) : r[j] = Fragment("call", r[i].call)
        /\ r[i].kind = "call" => \A j \in DOMAIN r : r[j] = r[i] => j = i

LEMMA FragmentFields ==
    ASSUME NEW k, NEW c
    PROVE  Fragment(k, c).kind = k /\ Fragment(k, c).call = c
  BY DEF Fragment

LEMMA AnswerFacts ==
    ASSUME NEW r, Answer(r)
    PROVE  /\ Len(r) \in Nat /\ DOMAIN r = 1 .. Len(r)
           /\ Cardinality(CallsIn(r)) \in Nat /\ Cardinality(CallsIn(r)) <= MaxCalls
           /\ \A i \in DOMAIN r : r[i] \in Fragments
           /\ \A c \in CallsIn(r) : c \in 1 .. MaxCalls /\ c <= Len(r)
           /\ \A c \in CallsIn(r) : \E i \in DOMAIN r : r[i] = Fragment("call", c)
           /\ \A c, i, j : i \in DOMAIN r /\ j \in DOMAIN r
                           /\ r[i] = Fragment("call", c) /\ r[j] = Fragment("call", c) => i = j
<1> DEFINE N == Cardinality(CallsIn(r))
<1>1. r \in Seq(Fragments)
  BY DEF Answer
<1>2. Len(r) \in Nat /\ DOMAIN r = 1 .. Len(r) /\ \A i \in DOMAIN r : r[i] \in Fragments
  BY <1>1, LenProperties, ElementOfSeq
<1>3. N \in Nat /\ CallsIn(r) = 1 .. N /\ N <= Len(r)
  BY <1>1, CallsFinite DEF Answer, Fragments
<1> HIDE DEF N
<1>4. MaxCalls \in Nat
  BY StreamAssumption DEF StreamAssumption
<1>5. \A c \in CallsIn(r) : c \in 0 .. MaxCalls
  BY <1>2 DEF CallsIn, Fragments
<1>6. N <= MaxCalls
  <2>1. CASE N = 0
    BY <1>4, <2>1
  <2>2. CASE N # 0
    <3>1. N \in CallsIn(r)
      BY <1>3, <2>2
    <3>2. QED
      BY <1>5, <3>1
  <2>3. QED
    BY <2>1, <2>2
<1>7. \A c \in CallsIn(r) : c \in 1 .. MaxCalls /\ c <= Len(r)
  BY <1>2, <1>3, <1>4, <1>6
<1>8. ASSUME NEW c \in CallsIn(r) PROVE \E i \in DOMAIN r : r[i] = Fragment("call", c)
  <2>1. PICK i \in DOMAIN r : r[i].call = c /\ c # 0
    BY DEF CallsIn
  <2>2. r[i].kind \notin {"text", "reasoning"} /\ r[i] \in Fragments
    BY <1>2, <2>1 DEF Answer
  <2>3. r[i].kind \in {"call", "args"} /\ r[i] = Fragment(r[i].kind, c)
    BY <2>1, <2>2 DEF Fragments, FragmentKinds, Fragment
  <2>4. CASE r[i].kind = "call"
    BY <2>3, <2>4
  <2>5. CASE r[i].kind = "args"
    <3>1. PICK j \in 1 .. (i - 1) : r[j] = Fragment("call", c)
      BY <2>1, <2>5 DEF Answer
    <3>2. j \in DOMAIN r
      BY <1>2
    <3>3. QED
      BY <3>1, <3>2
  <2>6. QED
    BY <2>3, <2>4, <2>5
<1>9. ASSUME NEW c, NEW i \in DOMAIN r, NEW j \in DOMAIN r,
             r[i] = Fragment("call", c), r[j] = Fragment("call", c)
      PROVE  i = j
  <2>1. r[i].kind = "call" /\ r[j] = r[i]
    BY <1>9, FragmentFields
  <2>2. QED
    BY <2>1 DEF Answer
<1>10. QED
  BY <1>2, <1>3, <1>6, <1>7, <1>8, <1>9 DEF N

LEMMA CallsAppend ==
    ASSUME NEW r \in Seq(Fragments), NEW f \in Fragments
    PROVE  CallsIn(Append(r, f)) = CallsIn(r) \cup ({f.call} \ {0})
<1> DEFINE q == Append(r, f)
           n == Len(r)
<1>1. /\ n \in Nat /\ DOMAIN r = 1 .. n /\ DOMAIN q = 1 .. n + 1
      /\ \A i \in 1 .. n : q[i] = r[i]
      /\ q[n + 1] = f
  BY AppendProperties, LenProperties
<1> HIDE DEF q, n
<1>2. \A i \in 1 .. n + 1 : i \in 1 .. n \/ i = n + 1
  BY <1>1
<1>3. 1 .. n \subseteq 1 .. n + 1 /\ n + 1 \in 1 .. n + 1
  BY <1>1
<1>4. {q[i].call : i \in DOMAIN q} = {r[i].call : i \in DOMAIN r} \cup {f.call}
  <2>1. ASSUME NEW i \in 1 .. n + 1 PROVE q[i].call \in {r[j].call : j \in 1 .. n} \cup {f.call}
    BY <1>1, <1>2
  <2>2. ASSUME NEW i \in 1 .. n PROVE r[i].call \in {q[j].call : j \in 1 .. n + 1}
    BY <1>1, <1>3
  <2>3. f.call \in {q[j].call : j \in 1 .. n + 1}
    BY <1>1, <1>3
  <2>4. QED
    BY <1>1, <2>1, <2>2, <2>3
<1>5. QED
  BY <1>4 DEF CallsIn, q

\* What an upstream may send next keeps an answer an answer.
LEMMA AnswerAppend ==
    ASSUME Answer(read), NEW f \in NextFragments
    PROVE  Answer(Append(read, f))
<1> DEFINE q == Append(read, f)
           n == Len(read)
           N == Cardinality(CallsIn(read))
<1>1. /\ read \in Seq(Fragments) /\ n \in Nat /\ DOMAIN read = 1 .. n
      /\ N \in Nat /\ N <= n /\ CallsIn(read) = 1 .. N
      /\ \A c \in CallsIn(read) : \E i \in DOMAIN read : read[i] = Fragment("call", c)
  BY AnswerFacts DEF Answer
<1>2. f \in Fragments
  BY <1>1, NextAreFragments DEF Fragments
<1>3. /\ q \in Seq(Fragments) /\ Len(q) = n + 1 /\ DOMAIN q = 1 .. n + 1
      /\ \A i \in 1 .. n : q[i] = read[i]
      /\ q[n + 1] = f
  BY <1>1, <1>2, AppendProperties, LenProperties
<1>4. CallsIn(q) = CallsIn(read) \cup ({f.call} \ {0})
  BY <1>1, <1>2, CallsAppend
<1>5. \/ f \in {Fragment("text", 0), Fragment("reasoning", 0)}
      \/ f = Fragment("call", N + 1)
      \/ \E c \in CallsIn(read) : f = Fragment("args", c)
  BY DEF NextFragments
<1> HIDE DEF q, n, N
<1>6. \/ f.kind \in {"text", "reasoning"} /\ f.call = 0 /\ CallsIn(q) = 1 .. N
      \/ f.kind = "call" /\ f.call = N + 1 /\ CallsIn(q) = 1 .. N + 1
      \/ f.kind = "args" /\ f.call \in 1 .. N /\ CallsIn(q) = 1 .. N
  <2>1. CASE f \in {Fragment("text", 0), Fragment("reasoning", 0)}
    <3>1. f.kind \in {"text", "reasoning"} /\ f.call = 0
      BY <2>1, FragmentFields
    <3>2. (1 .. N) \cup ({0} \ {0}) = 1 .. N
      OBVIOUS
    <3>3. QED
      BY <1>1, <1>4, <3>1, <3>2
  <2>2. CASE f = Fragment("call", N + 1)
    <3>1. f.kind = "call" /\ f.call = N + 1
      BY <2>2, FragmentFields
    <3>2. (1 .. N) \cup ({N + 1} \ {0}) = 1 .. N + 1
      BY <1>1
    <3>3. QED
      BY <1>1, <1>4, <3>1, <3>2
  <2>3. CASE \E c \in CallsIn(read) : f = Fragment("args", c)
    <3>1. f.kind = "args" /\ f.call \in 1 .. N
      BY <1>1, <2>3, FragmentFields
    <3>2. (1 .. N) \cup ({f.call} \ {0}) = 1 .. N
      BY <1>1, <3>1
    <3>3. QED
      BY <1>1, <1>4, <3>1, <3>2
  <2>4. QED
    BY <1>5, <2>1, <2>2, <2>3
<1>7. Cardinality(1 .. N) = N /\ Cardinality(1 .. N + 1) = N + 1
  <2>1. 1 \in Int /\ N \in Int /\ N + 1 \in Int
    BY <1>1
  <2>2. QED
    BY <1>1, <2>1, FS_Interval
<1>8. CallsIn(q) = 1 .. Cardinality(CallsIn(q)) /\ Cardinality(CallsIn(q)) <= Len(q)
  BY <1>1, <1>3, <1>6, <1>7
<1>9. ASSUME NEW i \in DOMAIN q
      PROVE  /\ q[i].kind \in {"text", "reasoning"} <=> q[i].call = 0
             /\ q[i].kind = "args" => \E j \in 1 .. (i - 1) : q[j] = Fragment("call", q[i].call)
             /\ q[i].kind = "call" => \A j \in DOMAIN q : q[j] = q[i] => j = i
  <2>1. i \in 1 .. n \/ i = n + 1
    BY <1>1, <1>3
  <2>2. CASE i \in 1 .. n
    <3>1. q[i] = read[i] /\ i \in DOMAIN read
      BY <1>1, <1>3, <2>2
    <3>2. read[i].kind \in {"text", "reasoning"} <=> read[i].call = 0
      BY <3>1 DEF Answer
    <3>3. ASSUME read[i].kind = "args" PROVE \E j \in 1 .. (i - 1) : q[j] = Fragment("call", q[i].call)
      <4>1. PICK j \in 1 .. (i - 1) : read[j] = Fragment("call", read[i].call)
        BY <3>1, <3>3 DEF Answer
      <4>2. j \in 1 .. n
        BY <1>1, <2>2
      <4>3. QED
        BY <1>3, <3>1, <4>1, <4>2
    <3>4. ASSUME read[i].kind = "call", NEW j \in DOMAIN q, q[j] = q[i] PROVE j = i
      <4>1. j \in 1 .. n \/ j = n + 1
        BY <1>1, <1>3
      <4>2. CASE j \in 1 .. n
        BY <1>1, <1>3, <3>1, <3>4, <4>2 DEF Answer
      <4>3. CASE j = n + 1
        <5>1. f = read[i] /\ f.kind = "call" /\ f.call = N + 1
          BY <1>3, <1>6, <3>1, <3>4, <4>3
        <5>2. N + 1 \in CallsIn(read)
          BY <1>1, <3>1, <5>1 DEF CallsIn
        <5>3. QED
          BY <1>1, <5>2
      <4>4. QED
        BY <4>1, <4>2, <4>3
    <3>5. QED
      BY <3>1, <3>2, <3>3, <3>4
  <2>3. CASE i = n + 1
    <3>1. q[i] = f
      BY <1>3, <2>3
    <3>2. f.kind \in {"text", "reasoning"} <=> f.call = 0
      BY <1>1, <1>6
    <3>3. ASSUME f.kind = "args" PROVE \E j \in 1 .. (i - 1) : q[j] = Fragment("call", f.call)
      <4>1. PICK j \in DOMAIN read : read[j] = Fragment("call", f.call)
        BY <1>1, <1>6, <3>3
      <4>2. j \in 1 .. (i - 1) /\ q[j] = read[j]
        BY <1>1, <1>3, <2>3
      <4>3. QED
        BY <4>1, <4>2
    <3>4. ASSUME f.kind = "call", NEW j \in DOMAIN q, q[j] = f PROVE j = i
      <4>1. SUFFICES ASSUME j \in 1 .. n PROVE FALSE
        BY <1>1, <1>3, <2>3
      <4>2. read[j] = f /\ f.call = N + 1
        BY <1>3, <1>6, <3>4, <4>1
      <4>3. N + 1 \in CallsIn(read)
        BY <1>1, <4>1, <4>2 DEF CallsIn
      <4>4. QED
        BY <1>1, <4>3
    <3>5. QED
      BY <3>1, <3>2, <3>3, <3>4
  <2>4. QED
    BY <2>1, <2>2, <2>3
<1>10. QED
  BY <1>3, <1>8, <1>9 DEF Answer, q

-----------------------------------------------------------------------------
(* The chunks in the pipe. *)

Chunks == [kind : {"reasoning", "text", "tool", "finish", "done", "malformed"},
           index : 0 .. MaxFragments, call : 0 .. MaxCalls, data : Seq(0 .. MaxFragments)]

LEMMA ChunkIs ==
    ASSUME NEW kind, NEW index, NEW call, NEW data
    PROVE  /\ Chunk(kind, index, call, data).kind = kind
           /\ Chunk(kind, index, call, data).index = index
           /\ Chunk(kind, index, call, data).call = call
           /\ Chunk(kind, index, call, data).data = data
           /\ /\ kind \in {"reasoning", "text", "tool", "finish", "done", "malformed"}
              /\ index \in 0 .. MaxFragments /\ call \in 0 .. MaxCalls
              /\ data \in Seq(0 .. MaxFragments)
              => Chunk(kind, index, call, data) \in Chunks
  BY DEF Chunk, Chunks

\* The item of a call is one of those opened up to it.
LEMMA ItemIndexRange ==
    ASSUME NEW r, Answer(r), NEW call \in CallsIn(r)
    PROVE  ItemIndex(r, call) \in 0 .. Len(r) - 1
<1> DEFINE opened == CHOOSE i \in DOMAIN r : r[i] = Fragment("call", call)
           S == {i \in 1 .. opened : OpensItem(r, i)}
<1>1. opened \in DOMAIN r /\ r[opened] = Fragment("call", call)
  BY AnswerFacts
<1>2. Len(r) \in Nat /\ DOMAIN r = 1 .. Len(r)
  BY AnswerFacts
<1>3. ItemIndex(r, call) = Cardinality(S) - 1
  BY DEF ItemIndex
<1> HIDE DEF opened
<1>4. opened \in Nat /\ 1 \in Int /\ opened \in Int /\ opened \in 1 .. opened /\ opened <= Len(r)
  BY <1>1, <1>2
<1>5. OpensItem(r, opened)
  BY <1>1, FragmentFields DEF OpensItem
<1>6. IsFiniteSet(1 .. opened) /\ Cardinality(1 .. opened) = opened
  BY <1>4, FS_Interval
<1>7. S \subseteq 1 .. opened /\ S # {}
  BY <1>4, <1>5
<1> HIDE DEF S
<1>8. IsFiniteSet(S) /\ Cardinality(S) \in Nat /\ Cardinality(S) <= opened /\ Cardinality(S) # 0
  <2>1. IsFiniteSet(S) /\ Cardinality(S) <= opened
    BY <1>6, <1>7, FS_Subset
  <2>2. Cardinality(S) \in Nat /\ Cardinality(S) # 0
    BY <1>7, <2>1, FS_CardinalityType, FS_EmptySet
  <2>3. QED
    BY <2>1, <2>2
<1>9. QED
  BY <1>2, <1>3, <1>4, <1>8

LEMMA PositionsType ==
    ASSUME NEW r \in Seq(Fragments), Len(r) <= MaxFragments
    PROVE  /\ \A kind : OfKind(r, kind) \in Seq(0 .. MaxFragments)
           /\ \A call : ArgsOf(r, call) \in Seq(0 .. MaxFragments)
<1>1. Len(r) \in Nat /\ DOMAIN r = 1 .. Len(r) /\ MaxFragments \in Nat
  BY LenProperties, StreamAssumption DEF StreamAssumption
<1>2. 1 .. Len(r) \subseteq 0 .. MaxFragments
  BY <1>1
<1>3. ASSUME NEW S \in SUBSET (1 .. Len(r)) PROVE Ascending(S) \in Seq(0 .. MaxFragments)
  <2>1. Ascending(S) \in Seq(S)
    BY <1>1, AscendingRanks
  <2>2. S \subseteq 0 .. MaxFragments
    BY <1>2
  <2>3. QED
    BY <2>1, <2>2, SeqMonotonic
<1>4. ASSUME NEW kind PROVE OfKind(r, kind) \in Seq(0 .. MaxFragments)
  <2>1. {i \in DOMAIN r : r[i].kind = kind} \in SUBSET (1 .. Len(r))
    BY <1>1
  <2>2. QED
    BY <1>3, <2>1 DEF OfKind
<1>5. ASSUME NEW call PROVE ArgsOf(r, call) \in Seq(0 .. MaxFragments)
  <2>1. {i \in DOMAIN r : r[i] = Fragment("args", call)} \in SUBSET (1 .. Len(r))
    BY <1>1
  <2>2. QED
    BY <1>3, <2>1 DEF ArgsOf
<1>6. QED
  BY <1>4, <1>5

\* The chunks of an answer's last fragment.
LEMMA FragmentChunksType ==
    ASSUME NEW r, Answer(r), r # <<>>, Len(r) <= MaxFragments, source \in Protocols,
           source = "generateContent" => r[Len(r)].kind # "args"
    PROVE  LET p == FragmentChunks(source, r, held)
           IN  p = <<>> \/ \E c \in Chunks : p = <<c>>
<1> DEFINE n == Len(r)
           f == r[n]
           p == FragmentChunks(source, r, held)
           One(q) == q = <<>> \/ \E c \in Chunks : q = <<c>>
<1>1. n \in Nat /\ DOMAIN r = 1 .. n /\ f \in Fragments /\ n \in 1 .. MaxFragments /\ n \in DOMAIN r
  <2>1. n \in Nat /\ DOMAIN r = 1 .. n /\ \A i \in DOMAIN r : r[i] \in Fragments
    BY AnswerFacts
  <2>2. r \in Seq(Fragments)
    BY DEF Answer
  <2>3. n # 0
    BY <2>2, EmptySeq
  <2>4. n \in 1 .. n /\ n \in 1 .. MaxFragments
    BY <2>1, <2>3, StreamAssumption DEF StreamAssumption
  <2>5. QED
    BY <2>1, <2>4
<1>2. f.kind \in {"reasoning", "text", "call", "args"}
  BY <1>1 DEF Fragments, FragmentKinds
<1>3. f.kind \in {"call", "args"} => f.call \in CallsIn(r)
  <2>1. f.kind \in {"call", "args"} => f.call # 0
    BY <1>1 DEF Answer
  <2>2. QED
    BY <1>1, <2>1 DEF CallsIn
<1>4. \A c \in CallsIn(r) : c \in 1 .. MaxCalls /\ c <= n
  BY AnswerFacts
<1>5. MaxFragments \in Nat /\ MaxCalls \in Nat
  BY StreamAssumption DEF StreamAssumption
<1>6. \A c \in CallsIn(r) : ItemIndex(r, c) \in 0 .. n - 1
  BY ItemIndexRange
<1>7. Cardinality(CallsIn(r)) \in Nat /\ Cardinality(CallsIn(r)) <= n
  BY AnswerFacts DEF Answer
<1>8. <<n>> \in Seq(0 .. MaxFragments) /\ <<>> \in Seq(0 .. MaxFragments)
  BY <1>1
<1>9. \A k \in {"text", "reasoning"} : One(<<TextChunk(k, <<n>>)>>)
  <2> TAKE k \in {"text", "reasoning"}
  <2>1. 0 \in 0 .. MaxFragments /\ 0 \in 0 .. MaxCalls
    BY <1>5
  <2>2. Chunk(k, 0, 0, <<n>>) \in Chunks
    BY <1>8, <2>1, ChunkIs
  <2>3. QED
    BY <2>2 DEF TextChunk
<1>10. \A index \in 0 .. MaxFragments, call \in 0 .. MaxCalls, data \in Seq(0 .. MaxFragments) :
          One(<<Chunk("tool", index, call, data)>>)
  BY ChunkIs
<1>11. f.kind \in {"call", "args"} =>
          /\ f.call - 1 \in 0 .. MaxFragments /\ ItemIndex(r, f.call) \in 0 .. MaxFragments
          /\ f.call \in 0 .. MaxCalls /\ 0 \in 0 .. MaxCalls
          /\ Cardinality(CallsIn(r)) - 1 \in 0 .. MaxFragments
  <2>1. SUFFICES ASSUME f.kind \in {"call", "args"}
                 PROVE  /\ f.call - 1 \in 0 .. MaxFragments /\ ItemIndex(r, f.call) \in 0 .. MaxFragments
                        /\ f.call \in 0 .. MaxCalls /\ 0 \in 0 .. MaxCalls
                        /\ Cardinality(CallsIn(r)) - 1 \in 0 .. MaxFragments
    OBVIOUS
  <2> DEFINE a == f.call
             b == ItemIndex(r, a)
             N == Cardinality(CallsIn(r))
  <2>2. a \in 1 .. MaxCalls /\ a <= n /\ b \in 0 .. n - 1
    BY <1>3, <1>4, <1>6, <2>1
  <2>3. CallsIn(r) = 1 .. N /\ a \in CallsIn(r) /\ N \in Nat /\ N <= n
    BY <1>3, <1>7, <2>1 DEF Answer
  <2> HIDE DEF a, b, N, n
  <2>4. N # 0
    BY <2>3
  <2>5. QED
    BY <1>1, <1>5, <2>2, <2>3, <2>4 DEF a, b, N, n
<1> HIDE DEF f, n, p, One
<1>12. CASE source = "chat"
  <2>1. One(ChatChunks(r))
    BY <1>2, <1>8, <1>9, <1>10, <1>11 DEF ChatChunks, f, n
  <2>2. QED
    BY <1>12, <2>1 DEF FragmentChunks, One, p
<1>13. CASE source = "messages"
  <2>1. One(ClaudeChunks(r))
    BY <1>2, <1>8, <1>9, <1>10, <1>11 DEF ClaudeChunks, f, n, One
  <2>2. QED
    BY <1>13, <2>1 DEF FragmentChunks, One, p
<1>14. CASE source = "generateContent"
  <2>1. One(GeminiChunks(r))
    BY <1>2, <1>8, <1>9, <1>10, <1>11, <1>14 DEF GeminiChunks, f, n
  <2>2. QED
    BY <1>14, <2>1 DEF FragmentChunks, One, p
<1>15. CASE source = "responses"
  <2>1. CASE Held(r, held, n)
    BY <1>15, <2>1 DEF FragmentChunks, ResponsesChunks, One, p, n
  <2>2. CASE ~Held(r, held, n)
    <3>1. ResponsesChunks(r, held)
            = CASE f.kind = "call" -> <<Chunk("tool", ItemIndex(r, f.call), f.call, <<>>)>>
                [] f.kind = "args" -> <<Chunk("tool", ItemIndex(r, f.call), f.call, <<n>>)>>
                [] OTHER -> <<TextChunk(f.kind, <<n>>)>>
      BY <2>2 DEF ResponsesChunks, f, n
    <3>2. One(ResponsesChunks(r, held))
      BY <1>2, <1>8, <1>9, <1>10, <1>11, <3>1
    <3>3. QED
      BY <1>15, <3>2 DEF FragmentChunks, One, p
  <2>3. QED
    BY <2>1, <2>2
<1>16. QED
  BY <1>12, <1>13, <1>14, <1>15 DEF Protocols, One, p

\* What takes the place of arguments that do not parse is of their type.
LEMMA SalvageType ==
    ASSUME NEW a
    PROVE  /\ a \in Seq(Nat) => Salvage(a) \in Seq(Nat)
           /\ a \in Seq(0 .. MaxFragments) => Salvage(a) \in Seq(0 .. MaxFragments)
<1>1. <<0>> \in Seq(Nat) /\ <<0>> \in Seq(0 .. MaxFragments)
  <2>1. 0 \in 0 .. MaxFragments
    BY StreamAssumption DEF StreamAssumption
  <2>2. QED
    BY <2>1
<1>2. Salvage(a) \in {a, <<0>>}
  BY DEF Salvage, EmptyObject
<1>3. QED
  BY <1>1, <1>2

\* The chunks of the tools of a snapshot, one for each call that has not been heard of.
LEMMA SnapshotCalls ==
    ASSUME NEW r, Answer(r)
    PROVE  LET N == Cardinality(CallsIn(r))
               some == {c \in 1 .. N : ~EmittedToolCall(r, held, c)}
               missing == Ascending(some)
               tools == [k \in DOMAIN missing |-> Chunk("tool", missing[k] - 1, missing[k], Salvage(ArgsOf(r, missing[k])))]
           IN  /\ SnapshotChunks(r, held)
                    = SnapshotText(r, held, "reasoning") \o SnapshotText(r, held, "text") \o tools
               /\ some \in SUBSET (1 .. N) /\ N \in Nat
               /\ IsSeq(tools) /\ Len(tools) = Len(missing)
               /\ missing \in Seq(some) /\ Len(missing) = Cardinality(some)
               /\ \A k \in 1 .. Cardinality(some) : missing[k] \in some /\ Rank(some, missing[k]) = k - 1
<1> DEFINE N == Cardinality(CallsIn(r))
           calls == MessageToolCalls(r)
           some == {c \in 1 .. N : ~EmittedToolCall(r, held, c)}
           missing == Ascending(some)
           tools == [k \in DOMAIN missing |-> Chunk("tool", missing[k] - 1, missing[k], Salvage(ArgsOf(r, missing[k])))]
<1>1. N \in Nat /\ some \in SUBSET (1 .. N)
  BY AnswerFacts
<1>2. DOMAIN calls = 1 .. N /\ \A c \in 1 .. N : calls[c].call = c /\ calls[c].args = Salvage(ArgsOf(r, c))
  BY DEF MessageToolCalls
<1>3. SnapshotChunks(r, held)
        = SnapshotText(r, held, "reasoning") \o SnapshotText(r, held, "text") \o
          [k \in DOMAIN missing |-> Chunk("tool", missing[k] - 1, calls[missing[k]].call, calls[missing[k]].args)]
  BY <1>2 DEF SnapshotChunks
<1> HIDE DEF N, calls
<1>4. /\ missing \in Seq(some) /\ Len(missing) = Cardinality(some)
      /\ \A k \in 1 .. Cardinality(some) : missing[k] \in some /\ Rank(some, missing[k]) = k - 1
  BY <1>1, AscendingRanks
<1>5. some \subseteq 1 .. N
  OBVIOUS
<1> HIDE DEF some
<1>6. DOMAIN missing = 1 .. Len(missing) /\ Len(missing) \in Nat
      /\ \A k \in DOMAIN missing : missing[k] \in 1 .. N
  BY <1>4, <1>5, LenProperties, ElementOfSeq
<1> HIDE DEF missing
<1>7. [k \in DOMAIN missing |-> Chunk("tool", missing[k] - 1, calls[missing[k]].call, calls[missing[k]].args)]
        = tools
  BY <1>2, <1>6
<1>8. IsSeq(tools) /\ Len(tools) = Len(missing)
  BY <1>6, FunctionSeq
<1>9. QED
  BY <1>1, <1>3, <1>4, <1>7, <1>8 DEF N, some, missing

LEMMA SnapshotChunksType ==
    ASSUME NEW r, Answer(r), Len(r) <= MaxFragments
    PROVE  ToSet(SnapshotChunks(r, held)) \subseteq Chunks
<1> DEFINE N == Cardinality(CallsIn(r))
           some == {c \in 1 .. N : ~EmittedToolCall(r, held, c)}
           missing == Ascending(some)
           tools == [k \in DOMAIN missing |-> Chunk("tool", missing[k] - 1, missing[k], Salvage(ArgsOf(r, missing[k])))]
           a == SnapshotText(r, held, "reasoning")
           b == SnapshotText(r, held, "text")
<1>1. /\ SnapshotChunks(r, held) = (a \o b) \o tools
      /\ missing \in Seq(some) /\ some \in SUBSET (1 .. N) /\ N \in Nat /\ IsSeq(tools)
  BY SnapshotCalls
<1>2. r \in Seq(Fragments) /\ CallsIn(r) = 1 .. N /\ MaxFragments \in Nat /\ MaxCalls \in Nat
  BY StreamAssumption DEF Answer, StreamAssumption
<1>3. \A kind \in {"text", "reasoning"} :
         LET p == SnapshotText(r, held, kind) IN IsSeq(p) /\ ToSet(p) \subseteq Chunks
  <2> TAKE kind \in {"text", "reasoning"}
  <2> DEFINE c == TextChunk(kind, OfKind(r, kind))
  <2>1. c \in Chunks
    <3>1. OfKind(r, kind) \in Seq(0 .. MaxFragments) /\ 0 \in 0 .. MaxFragments /\ 0 \in 0 .. MaxCalls
      BY <1>2, PositionsType
    <3>2. Chunk(kind, 0, 0, OfKind(r, kind)) \in Chunks
      BY <3>1, ChunkIs
    <3>3. QED
      BY <3>2 DEF TextChunk
  <2>2. SnapshotText(r, held, kind) \in {<<>>, <<c>>}
    BY DEF SnapshotText
  <2> HIDE DEF c
  <2>3. QED
    BY <2>1, <2>2, OneSeq, EmptyFacts
<1>4. ToSet(tools) \subseteq Chunks
  <2>1. \A k \in DOMAIN missing : missing[k] \in some
    BY <1>1, ElementOfSeq, LenProperties
  <2>2. ASSUME NEW c \in some PROVE Chunk("tool", c - 1, c, Salvage(ArgsOf(r, c))) \in Chunks
    <3>1. c \in CallsIn(r) /\ c \in Nat
      BY <1>1, <1>2
    <3>2. c \in 1 .. MaxCalls /\ c <= Len(r) /\ Len(r) \in Nat
      BY <3>1, AnswerFacts
    <3>3. c - 1 \in 0 .. MaxFragments /\ c \in 0 .. MaxCalls
      BY <1>2, <3>2
    <3>4. Salvage(ArgsOf(r, c)) \in Seq(0 .. MaxFragments)
      BY <1>2, PositionsType, SalvageType
    <3>5. QED
      BY <3>3, <3>4, ChunkIs
  <2> HIDE DEF missing, some
  <2>3. \A k \in DOMAIN tools : tools[k] \in Chunks
    BY <2>1, <2>2
  <2> HIDE DEF tools
  <2>4. QED
    BY <2>3 DEF ToSet
<1> HIDE DEF a, b, tools
<1>5. IsSeq(a) /\ ToSet(a) \subseteq Chunks /\ IsSeq(b) /\ ToSet(b) \subseteq Chunks
  BY <1>3 DEF a, b
<1>6. IsSeq(a \o b) /\ ToSet(a \o b) \subseteq Chunks
  BY <1>5, ConcatSeq
<1>7. ToSet((a \o b) \o tools) \subseteq Chunks
  BY <1>1, <1>4, <1>6, ConcatSeq
<1>8. QED
  BY <1>1, <1>7

-----------------------------------------------------------------------------
(* The types of the variables. *)

PipeTyped == ToSet(pending) \subseteq Chunks
Switches ==
    /\ source \in Sources /\ target \in Targets \ {source} /\ held \subseteq Kinds
    /\ {complete, whole, terminal, gone, cancelled} \subseteq BOOLEAN

TypeParts == Answer(read) /\ Len(read) <= MaxFragments /\ PipeTyped /\ Switches

LEMMA TypeInvParts ==
    ASSUME IInv
    PROVE  TypeOK /\ ReadInv <=> TypeParts
<1>1. read \in Seq(Fragments) /\ IsSeq(pending)
  BY PendingSeq DEF IInv, Shape, Fragments
<1>2. ReadInv <=> Answer(read)
  BY <1>1 DEF ReadInv, Answer
<1>3. (\A i \in DOMAIN pending : pending[i] \in Chunks) <=> PipeTyped
  BY DEF PipeTyped, ToSet
<1>4. \A i \in DOMAIN read : read[i] \in Fragments
  BY <1>1, LenProperties, ElementOfSeq
<1>5. /\ src \in {"running", "closing"} \cup Ended
      /\ tgt \in {"starting", "running"} \cup Ended
      /\ outcome \in {"none", "success", "streamError"}
  BY DEF IInv, Shape
<1>6. Switches => (src = "closing" => complete)
  BY DEF IInv, SourceInv, Switches
<1>7. TypeOK <=> Len(read) <= MaxFragments /\ PipeTyped /\ Switches
  BY <1>3, <1>4, <1>5, <1>6 DEF TypeOK, Switches, Chunks, Fragments
<1>8. QED
  BY <1>2, <1>7 DEF TypeParts

LEMMA TypeInvPartsNext == (IInv => (TypeOK /\ ReadInv <=> TypeParts))'
  BY TypeInvParts, PTL

LEMMA EndChunks ==
    /\ FinishChunk \in Chunks /\ DoneChunk \in Chunks /\ BadChunk \in Chunks
<1>1. 0 \in 0 .. MaxFragments /\ 0 \in 0 .. MaxCalls /\ <<>> \in Seq(0 .. MaxFragments)
  BY StreamAssumption DEF StreamAssumption
<1>2. QED
  BY <1>1, ChunkIs DEF FinishChunk, DoneChunk, BadChunk

LEMMA OneTyped == \A c \in Chunks : ToSet(<<c>>) \subseteq Chunks
<1> TAKE c \in Chunks
<1>1. ToSet(<<c>>) = {c}
  BY OneSeq
<1>2. QED
  BY <1>1

LEMMA ClosingTyped ==
    ASSUME source \in Protocols
    PROVE  ToSet(ClosingChunks(source)) \subseteq Chunks
<1>1. <<FinishChunk, DoneChunk>> \in Seq({FinishChunk, DoneChunk})
  OBVIOUS
<1>2. ToSet(<<FinishChunk, DoneChunk>>) \subseteq Chunks
  <2>1. ToSet(<<FinishChunk, DoneChunk>>) \subseteq {FinishChunk, DoneChunk}
    BY <1>1, SeqFacts
  <2>2. QED
    BY <2>1, EndChunks
<1>3. QED
  BY <1>2, EndChunks, OneTyped, EmptyFacts, ClosingEnds

\* The fragment that is read is not a piece of arguments when it is Gemini's.
LEMMA NextKinds ==
    ASSUME NEW f \in NextFragments, source = "generateContent"
    PROVE  f.kind # "args"
<1>1. f.kind = "args" => \E d \in CallsIn(read) : ArgsAllowed(d)
  BY FragmentFields DEF NextFragments
<1>2. QED
  BY <1>1 DEF ArgsAllowed

LEMMA ReadFragmentTypes ==
    ASSUME Shape, TypeParts, ReadFragment
    PROVE  TypeParts'
<1>1. PICK f \in NextFragments : read' = Append(read, f) /\ pending' = FragmentChunks(source, read', held)
  BY DEF ReadFragment
<1>2. Answer(read) /\ read \in Seq(Fragments) /\ f \in Fragments /\ source \in Protocols
  BY NextAreFragments DEF TypeParts, Shape, Fragments
<1>3. Answer(read')
  BY <1>1, <1>2, AnswerAppend
<1>4. /\ Len(read') = Len(read) + 1 /\ Len(read) \in Nat /\ read'[Len(read')] = f /\ read' # <<>>
  <2>1. /\ Append(read, f) \in Seq(Fragments) /\ Len(read) \in Nat /\ Len(Append(read, f)) = Len(read) + 1
        /\ Append(read, f)[Len(read) + 1] = f
    BY <1>2, AppendProperties, LenProperties
  <2>2. Append(read, f) # <<>>
    BY <2>1, EmptySeq
  <2>3. QED
    BY <1>1, <2>1, <2>2
<1>5. Len(read') <= MaxFragments
  BY <1>4, StreamAssumption DEF ReadFragment, StreamAssumption
<1>6. source = "generateContent" => read'[Len(read')].kind # "args"
  BY <1>4, NextKinds
<1>7. ToSet(pending') \subseteq Chunks
  <2>1. pending' = <<>> \/ \E c \in Chunks : pending' = <<c>>
    BY <1>1, <1>2, <1>3, <1>4, <1>5, <1>6, FragmentChunksType
  <2>2. QED
    BY <2>1, OneTyped, EmptyFacts
<1>8. UNCHANGED <<source, target, held, complete, whole, terminal, gone, cancelled>>
  BY DEF ReadFragment, targetVars, fixed
<1>9. QED
  BY <1>3, <1>5, <1>7, <1>8 DEF TypeParts, PipeTyped, Switches

\* The pipe after the other steps.
LEMMA StillTypes ==
    ASSUME TypeParts, UNCHANGED <<source, target, held, read>>, ToSet(pending') \subseteq Chunks,
           {complete', whole', terminal', gone', cancelled'} \subseteq BOOLEAN
    PROVE  TypeParts'
  BY DEF TypeParts, PipeTyped, Switches

LEMMA SourceTypes ==
    ASSUME Shape, SourceInv, TypeParts, Source
    PROVE  TypeParts'
<1>1. source \in Protocols /\ Answer(read) /\ Len(read) <= MaxFragments /\ ToSet(pending) \subseteq Chunks
  BY DEF Shape, TypeParts, PipeTyped
<1>2. {complete, whole} \subseteq BOOLEAN /\ {terminal, gone, cancelled} \subseteq BOOLEAN
  BY DEF TypeParts, Switches
<1>3. CASE ReadTerminal
  <2>1. UNCHANGED <<source, target, held, read, terminal, gone, cancelled>> /\ complete' = TRUE /\ whole' = TRUE
        /\ pending' = TerminalChunks(source, read, held)
    BY <1>3 DEF ReadTerminal, targetVars, fixed
  <2>2. TerminalChunks(source, read, held) \in {<<FinishChunk>>, SnapshotChunks(read, held), <<>>}
    BY <1>1 DEF TerminalChunks, Protocols
  <2>3. ToSet(pending') \subseteq Chunks
    BY <1>1, <2>1, <2>2, SnapshotChunksType, EndChunks, OneTyped, EmptyFacts
  <2>4. QED
    BY <1>2, <2>1, <2>3, StillTypes
<1>4. CASE ReadDone \/ ReadEnd \/ ReadError \/ ReadMalformed \/ SourceReturns
  <2>1. /\ UNCHANGED <<source, target, held, read, whole, terminal, gone, cancelled>>
        /\ complete' \in {complete, TRUE}
        /\ pending' \in {pending, <<DoneChunk>>, ClosingChunks(source), <<>>, <<BadChunk>>}
    BY <1>4 DEF ReadDone, ReadEnd, ReadError, ReadMalformed, SourceReturns, sourceVars, targetVars, fixed
  <2>2. ToSet(pending') \subseteq Chunks
    BY <1>1, <2>1, ClosingTyped, EndChunks, OneTyped, EmptyFacts
  <2>3. QED
    BY <1>2, <2>1, <2>2, StillTypes
<1>5. CASE SourceWriteFails
  <2>1. /\ UNCHANGED <<source, target, held, read, complete, whole, terminal, gone, cancelled>>
        /\ pending # <<>> /\ pending' \in {Tail(pending), <<>>}
    BY <1>5 DEF SourceWriteFails, targetVars, fixed
  <2>2. ToSet(pending') \subseteq Chunks
    BY <1>1, <2>1, PendingSeq, HeadTailSeq, EmptyFacts
  <2>3. QED
    BY <1>2, <2>1, <2>2, StillTypes
<1>6. QED
  BY <1>3, <1>4, <1>5, ReadFragmentTypes DEF Source, Reading

LEMMA TargetTypes ==
    ASSUME SourceInv, TypeParts, Target
    PROVE  TypeParts'
<1>1. ToSet(pending) \subseteq Chunks /\ {complete, whole} \subseteq BOOLEAN /\ {terminal, gone, cancelled} \subseteq BOOLEAN
  BY DEF TypeParts, PipeTyped, Switches
<1>2. /\ UNCHANGED <<source, target, held, read, complete, whole, gone, cancelled>>
      /\ pending' = pending \/ (pending # <<>> /\ pending' = Tail(pending))
  BY DEF Target, TargetStarts, TakeChunk, TakeCancelled, TakeEnd, DeliverChunk, sourceVars, fixed
<1>3. terminal' \in {terminal, terminal \/ Head(pending).kind = "finish"}
  BY DEF Target, TargetStarts, TakeChunk, TakeCancelled, TakeEnd, DeliverChunk
<1>4. terminal' \in BOOLEAN
  BY <1>1, <1>3
<1>5. ToSet(pending') \subseteq Chunks
  BY <1>1, <1>2, PendingSeq, HeadTailSeq
<1>6. QED
  BY <1>1, <1>2, <1>4, <1>5, StillTypes

LEMMA NextTypes ==
    ASSUME IInv, TypeParts, [Next]_vars
    PROVE  TypeParts'
<1>1. CASE Source
  BY <1>1, SourceTypes DEF IInv
<1>2. CASE Target
  BY <1>2, TargetTypes DEF IInv
<1>3. CASE Return \/ ClientLeaves \/ Cancel \/ UNCHANGED vars
  <2>1. UNCHANGED <<source, target, held, read, complete, whole, terminal, pending>>
        /\ gone' \in {gone, TRUE} /\ cancelled' \in {cancelled, TRUE}
    BY <1>3 DEF Return, ClientLeaves, Cancel, vars, sourceVars, targetVars
  <2>2. QED
    BY <2>1, StillTypes DEF TypeParts, PipeTyped, Switches
<1>4. QED
  BY <1>1, <1>2, <1>3 DEF Next

LEMMA InitTypes == Init => TypeParts
<1>1. SUFFICES ASSUME Init PROVE TypeParts
  OBVIOUS
<1>2. read = <<>> /\ pending = <<>>
  BY <1>1 DEF Init
<1>3. read \in Seq(Fragments) /\ DOMAIN read = {} /\ Len(read) = 0
  BY <1>2
<1>4. CallsIn(read) = {} /\ Cardinality(CallsIn(read)) = 0 /\ 1 .. 0 = {}
  <2>1. CallsIn(read) = {}
    BY <1>3 DEF CallsIn
  <2>2. QED
    BY <2>1, FS_EmptySet
<1>5. Answer(read)
  BY <1>3, <1>4 DEF Answer
<1>6. Len(read) <= MaxFragments
  BY <1>3, StreamAssumption DEF StreamAssumption
<1>7. PipeTyped
  BY <1>2, EmptyFacts DEF PipeTyped
<1>8. Switches
  BY <1>1 DEF Init, Switches, Kinds
<1>9. QED
  BY <1>5, <1>6, <1>7, <1>8 DEF TypeParts

\* In every state the upstream has numbered its calls in the order it opened them,
\* and the pipe holds chunks whose indexes and positions are within the answer.
THEOREM TypeInvCorrect == Spec => []TypeInv
<1>1. Init => TypeInv
  BY InitIInv, InitTypes, TypeInvParts DEF TypeInv
<1>2. TypeInv /\ [Next]_vars => TypeInv'
  <2>1. SUFFICES ASSUME TypeInv, [Next]_vars PROVE TypeInv'
    OBVIOUS
  <2>2. IInv /\ IInv' /\ TypeParts
    BY <2>1, NextIInv, TypeInvParts DEF TypeInv
  <2>3. TypeParts'
    BY <2>1, <2>2, NextTypes
  <2>4. QED
    BY <2>2, <2>3, TypeInvPartsNext DEF TypeInv
<1>3. QED
  BY <1>1, <1>2, PTL DEF Spec

\* The variables of a converted stream keep their types; in particular a source
\* that closes has its upstream's terminal event, and every index that a converter
\* of internal/translate gives a chunk is one of the answer.
THEOREM TypeCorrect == Spec => []TypeOK
  BY TypeInvCorrect, PTL DEF TypeInv

-----------------------------------------------------------------------------
(* Events written one after the other. *)

LEMMA AppendLog ==
    ASSUME NEW out, IsSeq(out), NEW e
    PROVE  LET q == Append(out, e)
               n == Len(out)
           IN  /\ n \in Nat /\ DOMAIN out = 1 .. n /\ Len(q) = n + 1 /\ DOMAIN q = 1 .. n + 1
               /\ IsSeq(q) /\ q # <<>> /\ ToSet(q) = ToSet(out) \cup {e}
               /\ \A i \in 1 .. n : q[i] = out[i]
               /\ q[n + 1] = e
               /\ \A i \in 1 .. n + 1 : SubSeq(q, 1, i - 1) = SubSeq(out, 1, i - 1)
               /\ SubSeq(q, 1, n) = out
<1> DEFINE q == Append(out, e)
           n == Len(out)
           S == ToSet(out) \cup {e}
<1>1. out \in Seq(S) /\ e \in S
  BY SeqMonotonic DEF IsSeq
<1> HIDE DEF S
<1>2. /\ n \in Nat /\ DOMAIN out = 1 .. n /\ Len(q) = n + 1 /\ DOMAIN q = 1 .. n + 1 /\ q \in Seq(S)
      /\ \A i \in 1 .. n : q[i] = out[i]
      /\ q[n + 1] = e
  BY <1>1, AppendProperties, LenProperties
<1>3. IsSeq(q) /\ ToSet(q) = ToSet(out) \cup {e} /\ q # <<>>
  <2>1. q # <<>>
    BY <1>2, EmptySeq
  <2>2. QED
    BY <2>1, AppendSeq
<1>4. ASSUME NEW i \in 1 .. n + 1 PROVE SubSeq(q, 1, i - 1) = SubSeq(out, 1, i - 1)
  BY <1>1, <1>2, SMT
<1>5. SubSeq(out, 1, n) = out
  BY <1>1, <1>2, SMT
<1>6. SubSeq(q, 1, n) = out
  BY <1>2, <1>4, <1>5
<1>7. QED
  BY <1>2, <1>3, <1>4, <1>6

LEMMA CutLog ==
    ASSUME NEW out, IsSeq(out), NEW n \in Nat, n <= Len(out)
    PROVE  LET q == SubSeq(out, 1, n)
           IN  /\ IsSeq(q) /\ Len(q) = n /\ DOMAIN q = 1 .. n /\ DOMAIN out = 1 .. Len(out)
               /\ \A i \in 1 .. n : i \in DOMAIN out /\ q[i] = out[i] /\ SubSeq(q, 1, i - 1) = SubSeq(out, 1, i - 1)
               /\ n < Len(out) => SubSeq(out, 1, n + 1) = Append(q, out[n + 1])
<1> DEFINE q == SubSeq(out, 1, n)
           S == ToSet(out)
<1>1. out \in Seq(S) /\ Len(out) \in Nat /\ DOMAIN out = 1 .. Len(out)
  BY SeqFacts DEF IsSeq
<1>2. IsSeq(q)
  BY PrefixSeq
<1> HIDE DEF S
<1>3. q \in Seq(S) /\ Len(q) = n /\ DOMAIN q = 1 .. n /\ \A i \in 1 .. n : q[i] = out[i]
  BY <1>1, SMT
<1>4. ASSUME NEW i \in 1 .. n PROVE SubSeq(q, 1, i - 1) = SubSeq(out, 1, i - 1)
  BY <1>1, <1>3, SMT
<1>5. n < Len(out) => SubSeq(out, 1, n + 1) = Append(q, out[n + 1])
  BY <1>1, <1>3, SMT
<1>6. QED
  BY <1>1, <1>2, <1>3, <1>4, <1>5

LEMMA AppendEvents ==
    ASSUME NEW out, IsSeq(out), NEW e
    PROVE  /\ TypesOf(Append(out, e)) = TypesOf(out) \cup {e.type}
           /\ \A type : Events(Append(out, e), type)
                          = Events(out, type) \cup (IF e.type = type THEN {e} ELSE {})
           /\ \A type : Indexes(Append(out, e), type)
                          = Indexes(out, type) \cup (IF e.type = type THEN {e.index} ELSE {})
<1>1. ToSet(Append(out, e)) = ToSet(out) \cup {e}
  BY AppendLog
<1>2. QED
  BY <1>1 DEF TypesOf, Events, Indexes

LEMMA AppendCount ==
    ASSUME NEW out, IsSeq(out), NEW e, NEW type
    PROVE  /\ Count(out, type) \in Nat
           /\ Count(Append(out, e), type) = Count(out, type) + (IF e.type = type THEN 1 ELSE 0)
<1> DEFINE q == Append(out, e)
           n == Len(out)
           S == {i \in DOMAIN out : out[i].type = type}
           R == {i \in DOMAIN q : q[i].type = type}
<1>1. /\ n \in Nat /\ DOMAIN out = 1 .. n /\ DOMAIN q = 1 .. n + 1
      /\ \A i \in 1 .. n : q[i] = out[i]
      /\ q[n + 1] = e
  BY AppendLog
<1>2. \A i \in 1 .. n + 1 : i \in 1 .. n \/ i = n + 1
  BY <1>1
<1>3. 1 .. n \subseteq 1 .. n + 1 /\ n + 1 \in 1 .. n + 1
  BY <1>1
<1> HIDE DEF q, n
<1>4. S \in SUBSET (1 .. n) /\ R = S \cup (IF e.type = type THEN {n + 1} ELSE {})
  BY <1>1, <1>2, <1>3
<1> HIDE DEF S, R
<1>5. Cardinality(S) \in Nat /\ Cardinality(S \cup {n + 1}) = Cardinality(S) + 1
  BY <1>1, <1>4, RankAdd
<1>6. Count(out, type) = Cardinality(S) /\ Count(Append(out, e), type) = Cardinality(R)
  BY DEF Count, S, R, q
<1>7. CASE e.type = type
  BY <1>4, <1>5, <1>6, <1>7
<1>8. CASE e.type # type
  <2>1. R = S
    BY <1>4, <1>8
  <2>2. QED
    BY <1>5, <1>6, <1>8, <2>1
<1>9. QED
  BY <1>7, <1>8

LEMMA AppendText ==
    ASSUME NEW out, IsSeq(out), NEW e, NEW types, NEW kind, NEW at, Wordy(out, types, kind, at),
           Speaks(e, types, kind, at) => e.data \in Seq(Nat)
    PROVE  /\ Wordy(Append(out, e), types, kind, at)
           /\ Text(Append(out, e), types, kind, at) = Text(out, types, kind, at) \o Word(e, types, kind, at)
           /\ Text(out, types, kind, at) \in Seq(Nat)
           /\ ~Speaks(e, types, kind, at) => Text(Append(out, e), types, kind, at) = Text(out, types, kind, at)
<1>1. Append(out, e) = out \o <<e>>
  <2> DEFINE S == ToSet(out) \cup {e}
  <2>1. out \in Seq(S) /\ e \in S
    BY SeqMonotonic DEF IsSeq
  <2> HIDE DEF S
  <2>2. QED
    BY <2>1
<1>2. IsSeq(<<e>>) /\ Wordy(<<e>>, types, kind, at) /\ Text(<<e>>, types, kind, at) = Word(e, types, kind, at)
  BY OneSeq, TextOne
<1>3. Text(out, types, kind, at) \in Seq(Nat)
  BY WordsType
<1>4. ~Speaks(e, types, kind, at) => Word(e, types, kind, at) = <<>>
  BY DEF Word
<1>5. Text(out, types, kind, at) \o <<>> = Text(out, types, kind, at)
  BY <1>3, ConcatEmptySeq
<1>6. /\ Wordy(out \o <<e>>, types, kind, at)
      /\ Text(out \o <<e>>, types, kind, at) = Text(out, types, kind, at) \o Text(<<e>>, types, kind, at)
  BY <1>2, TextConcat
<1>7. QED
  BY <1>1, <1>2, <1>3, <1>4, <1>5, <1>6

LEMMA EventIs ==
    ASSUME NEW type, NEW index, NEW kind, NEW call, NEW data
    PROVE  LET e == Event(type, index, kind, call, data)
           IN  e.type = type /\ e.index = index /\ e.kind = kind /\ e.call = call /\ e.data = data
  BY DEF Event

-----------------------------------------------------------------------------
(* The items of a Responses stream. *)

LEMMA ItemsWordy ==
    ASSUME NEW out, NEW n, ItemEvents(out, n), NEW kind, NEW at
    PROVE  Wordy(out, {"delta"}, kind, at)
  BY DEF ItemEvents, Wordy, Speaks, Events

LEMMA ItemCount ==
    ASSUME NEW out, IsSeq(out), NEW n, ItemEvents(out, n)
    PROVE  /\ n \in Nat /\ Indexes(out, "added") = 0 .. n - 1 /\ n \notin Indexes(out, "added")
           /\ \A i, k, d : OpenInItems(out, i, k, d) => i \in 0 .. n - 1 /\ i \in Nat
<1>1. n \in Nat
  BY AppendCount DEF ItemEvents
<1>2. Indexes(out, "added") = 0 .. n - 1
  BY DEF ItemEvents
<1>3. \A i, k, d : OpenInItems(out, i, k, d) => i \in Indexes(out, "added")
  BY DEF OpenInItems, Indexes
<1>4. QED
  BY <1>1, <1>2, <1>3

\* An event that fits keeps the events those of items.
LEMMA ItemEventsGrow ==
    ASSUME NEW out, IsSeq(out), NEW n, ItemEvents(out, n), NEW e, ItemFits(out, e),
           e.type \in {"added", "delta", "done"}, e.type = "delta" => e.data \in Seq(Nat)
    PROVE  ItemEvents(Append(out, e), IF e.type = "added" THEN n + 1 ELSE n)
<1> DEFINE q == Append(out, e)
           m == IF e.type = "added" THEN n + 1 ELSE n
           N == Len(out)
<1>1. /\ N \in Nat /\ DOMAIN out = 1 .. N /\ DOMAIN q = 1 .. N + 1 /\ q # <<>>
      /\ \A i \in 1 .. N : q[i] = out[i]
      /\ q[N + 1] = e
      /\ \A i \in 1 .. N + 1 : SubSeq(q, 1, i - 1) = SubSeq(out, 1, i - 1)
      /\ SubSeq(q, 1, N) = out
  BY AppendLog
<1>2. /\ TypesOf(q) = TypesOf(out) \cup {e.type}
      /\ \A type : Events(q, type) = Events(out, type) \cup (IF e.type = type THEN {e} ELSE {})
      /\ \A type : Indexes(q, type) = Indexes(out, type) \cup (IF e.type = type THEN {e.index} ELSE {})
  BY AppendEvents
<1>3. Count(out, "added") = n /\ Count(q, "added") = n + (IF e.type = "added" THEN 1 ELSE 0)
  BY AppendCount DEF ItemEvents
<1>4. n \in Nat /\ Indexes(out, "added") = 0 .. n - 1
      /\ Indexes(out, "delta") \subseteq 0 .. n - 1 /\ Indexes(out, "done") \subseteq 0 .. n - 1
  BY ItemCount DEF ItemEvents
<1> HIDE DEF q, N
<1>5. ASSUME NEW i \in DOMAIN q PROVE ItemFits(SubSeq(q, 1, i - 1), q[i])
  <2>1. CASE i \in 1 .. N
    <3>1. ItemFits(SubSeq(out, 1, i - 1), out[i])
      BY <1>1, <2>1 DEF ItemEvents
    <3>2. SubSeq(q, 1, i - 1) = SubSeq(out, 1, i - 1) /\ q[i] = out[i]
      BY <1>1, <2>1
    <3>3. QED
      BY <3>1, <3>2
  <2>2. CASE i = N + 1
    <3>1. SubSeq(q, 1, i - 1) = out /\ q[i] = e
      BY <1>1, <2>2
    <3>2. QED
      BY <3>1
  <2>3. QED
    BY <1>1, <2>1, <2>2
<1>6. Ends \cap TypesOf(q) = {}
  BY <1>2 DEF ItemEvents, Ends
<1>7. m = Count(q, "added")
  BY <1>3, <1>4
<1>8. e.type = "added" => e.index = n
  BY <1>3 DEF ItemFits
<1>9. e.type \in {"delta", "done"} => e.index \in 0 .. n - 1
  BY <1>4 DEF ItemFits, Opened, Indexes
<1>10. Indexes(q, "added") = 0 .. m - 1
  <2>1. CASE e.type = "added"
    <3>1. (0 .. n - 1) \cup {n} = 0 .. (n + 1) - 1
      BY <1>4
    <3>2. QED
      BY <1>2, <1>4, <1>8, <2>1, <3>1
  <2>2. CASE e.type # "added"
    BY <1>2, <1>4, <2>2
  <2>3. QED
    BY <2>1, <2>2
<1>11. Indexes(q, "delta") \cup Indexes(q, "done") \subseteq 0 .. m - 1
  <2>1. 0 .. n - 1 \subseteq 0 .. m - 1
    BY <1>4
  <2>2. Indexes(q, "delta") \subseteq 0 .. n - 1 /\ Indexes(q, "done") \subseteq 0 .. n - 1
    BY <1>2, <1>4, <1>9
  <2>3. QED
    BY <2>1, <2>2
<1>12. \A d \in Events(q, "delta") : d.data \in Seq(Nat)
  <2>1. \A d \in Events(out, "delta") : d.data \in Seq(Nat)
    BY DEF ItemEvents
  <2>2. QED
    BY <1>2, <2>1
<1>13. QED
  BY <1>1, <1>5, <1>6, <1>7, <1>10, <1>11, <1>12 DEF ItemEvents, q

\* An item stays open while events are of others.
LEMMA StaysOpen ==
    ASSUME NEW out, IsSeq(out), NEW n, ItemEvents(out, n), NEW i, NEW k, NEW d, OpenInItems(out, i, k, d),
           NEW e, e.type \in {"delta", "done"} => e.index # i
    PROVE  OpenInItems(Append(out, e), i, k, d)
<1>1. i \in Nat
  BY ItemCount
<1>2. ~Speaks(e, {"delta"}, k, i)
  BY <1>1 DEF Speaks, AnyIndex
<1>3. Wordy(out, {"delta"}, k, i)
  BY ItemsWordy
<1>4. Text(Append(out, e), {"delta"}, k, i) = Text(out, {"delta"}, k, i)
  BY <1>2, <1>3, AppendText
<1>5. /\ Indexes(Append(out, e), "done") = Indexes(out, "done") \cup (IF e.type = "done" THEN {e.index} ELSE {})
      /\ Events(out, "added") \subseteq Events(Append(out, e), "added")
  BY AppendEvents
<1>6. QED
  BY <1>4, <1>5 DEF OpenInItems

LEMMA AddedFits ==
    ASSUME NEW out, IsSeq(out), NEW n, ItemEvents(out, n), NEW e, e.type = "added", e.index = n
    PROVE  ItemFits(out, e) /\ OpenInItems(Append(out, e), n, e.kind, <<>>)
<1>1. ItemFits(out, e)
  BY DEF ItemFits, ItemEvents, Ends
<1>2. n \in Nat /\ n \notin 0 .. n - 1
  BY ItemCount
<1>3. n \notin Indexes(out, "delta") /\ n \notin Indexes(out, "done")
  BY <1>2 DEF ItemEvents
<1>4. /\ Indexes(Append(out, e), "done") = Indexes(out, "done") \cup (IF e.type = "done" THEN {e.index} ELSE {})
      /\ e \in Events(Append(out, e), "added")
  <2>1. e \in ToSet(Append(out, e))
    BY AppendLog
  <2>2. e \in Events(Append(out, e), "added")
    BY <2>1 DEF Events
  <2>3. \A type : Indexes(Append(out, e), type) = Indexes(out, type) \cup (IF e.type = type THEN {e.index} ELSE {})
    BY AppendEvents
  <2>4. QED
    BY <2>2, <2>3
<1>5. Text(Append(out, e), {"delta"}, e.kind, n) = <<>>
  <2>1. \A f \in ToSet(out) : ~Speaks(f, {"delta"}, e.kind, n)
    BY <1>2, <1>3 DEF Speaks, AnyIndex, Indexes, Events
  <2>2. ~Speaks(e, {"delta"}, e.kind, n)
    BY DEF Speaks
  <2>3. Wordy(out, {"delta"}, e.kind, n) /\ Text(out, {"delta"}, e.kind, n) = <<>>
    BY <2>1, TextNone
  <2>4. QED
    BY <2>2, <2>3, AppendText
<1>6. QED
  BY <1>1, <1>3, <1>4, <1>5 DEF OpenInItems

LEMMA OpenFits ==
    ASSUME NEW out, IsSeq(out), NEW n, ItemEvents(out, n), NEW i, NEW k, NEW d, OpenInItems(out, i, k, d),
           NEW e, e.index = i, e.kind = k
    PROVE  /\ e.type = "done" /\ e.data = Closed(k, d) => ItemFits(out, e)
           /\ e.type = "delta" /\ e.data \in Seq(Nat) =>
                ItemFits(out, e) /\ OpenInItems(Append(out, e), i, k, d \o e.data)
<1>1. e.type \in {"delta", "done"} /\ (e.type = "done" => e.data = Closed(k, d)) => ItemFits(out, e)
  BY DEF ItemFits, ItemEvents, OpenInItems, Opened, Ends
<1>2. ASSUME e.type = "delta", e.data \in Seq(Nat)
      PROVE  OpenInItems(Append(out, e), i, k, d \o e.data)
  <2>1. Speaks(e, {"delta"}, k, i)
    BY <1>2 DEF Speaks
  <2>2. Word(e, {"delta"}, k, i) = e.data
    BY <2>1 DEF Word
  <2>3. Wordy(out, {"delta"}, k, i) /\ (Speaks(e, {"delta"}, k, i) => e.data \in Seq(Nat))
    BY <1>2, ItemsWordy
  <2>4. Text(Append(out, e), {"delta"}, k, i) = Text(out, {"delta"}, k, i) \o Word(e, {"delta"}, k, i)
    BY <2>3, AppendText
  <2>5. /\ Indexes(Append(out, e), "done") = Indexes(out, "done") \cup (IF e.type = "done" THEN {e.index} ELSE {})
        /\ Events(out, "added") \subseteq Events(Append(out, e), "added")
    BY AppendEvents
  <2>6. QED
    BY <1>2, <2>2, <2>4, <2>5 DEF OpenInItems
<1>3. QED
  BY <1>1, <1>2

\* The translator while it runs.
Items(x) == IsTranslator(x) /\ ItemsInv(x)

LEMMA EmitFields ==
    ASSUME NEW x, IsTranslator(x), NEW e
    PROVE  /\ IsTranslator(Emit(x, e))
           /\ Emit(x, e).out = Append(x.out, e)
           /\ Emit(x, e).active = x.active /\ Emit(x, e).buffer = x.buffer /\ Emit(x, e).next = x.next
           /\ Emit(x, e).toolCalls = x.toolCalls /\ Emit(x, e).finalOutput = x.finalOutput
<1>1. IsTranslator(Emit(x, e))
  BY EmitAdds, e.type \in {e.type} DEF Adds
<1>2. QED
  BY <1>1 DEF Emit, IsTranslator

LEMMA FinalizeActiveFields ==
    ASSUME NEW x, IsTranslator(x), x.active # ""
    PROVE  LET y == FinalizeActive(x)
               e == Event("done", x.next - 1, x.active, 0, x.buffer)
           IN  /\ IsTranslator(y)
               /\ y.out = Append(x.out, e) /\ y.finalOutput = Append(x.finalOutput, Item(e))
               /\ y.active = "" /\ y.buffer = <<>>
               /\ y.next = x.next /\ y.toolCalls = x.toolCalls
<1> DEFINE e == Event("done", x.next - 1, x.active, 0, x.buffer)
           item == [index |-> x.next - 1, kind |-> x.active, call |-> 0, data |-> x.buffer]
           w == [x EXCEPT !.finalOutput = Append(@, item)]
           s == Emit(w, e)
           y == FinalizeActive(x)
<1>1. item = Item(e)
  BY DEF Item, Event
<1>2. y = [s EXCEPT !.active = "", !.buffer = <<>>]
  BY DEF FinalizeActive, ItemDone
<1>3. /\ DOMAIN w = DOMAIN x /\ w.finalOutput = Append(x.finalOutput, item)
      /\ w.out = x.out /\ w.next = x.next /\ w.toolCalls = x.toolCalls /\ IsTranslator(w)
  BY DEF IsTranslator
<1> HIDE DEF w, e
<1>4. /\ IsTranslator(s) /\ s.out = Append(x.out, e) /\ s.finalOutput = Append(x.finalOutput, item)
      /\ s.next = x.next /\ s.toolCalls = x.toolCalls
  <2>1. IsTranslator(w)
    BY <1>3
  <2>2. /\ IsTranslator(s) /\ s.out = Append(w.out, e) /\ s.finalOutput = w.finalOutput
        /\ s.next = w.next /\ s.toolCalls = w.toolCalls
    BY <2>1, EmitFields
  <2>3. QED
    BY <1>3, <2>2
<1> HIDE DEF s, item
<1>5. DOMAIN s = {"active", "buffer", "next", "toolCalls", "finalOutput", "out"}
  BY <1>4 DEF IsTranslator
<1>6. /\ y.out = Append(x.out, e) /\ y.finalOutput = Append(x.finalOutput, item)
      /\ y.active = "" /\ y.buffer = <<>>
      /\ y.next = x.next /\ y.toolCalls = x.toolCalls /\ DOMAIN y = DOMAIN s
  BY <1>2, <1>4, <1>5
<1>7. IsTranslator(y)
  BY <1>4, <1>6 DEF IsTranslator
<1>8. QED
  BY <1>1, <1>6, <1>7 DEF e

\* What each of the three events does to the items.
LEMMA ItemCloses ==
    ASSUME NEW out, IsSeq(out), NEW n, ItemEvents(out, n), NEW i, NEW k, NEW d, OpenInItems(out, i, k, d),
           NEW fin, IsSeq(fin), ToSet(fin) = {Item(f) : f \in Events(out, "done")},
           NEW e, e.type = "done", e.index = i, e.kind = k, e.data = Closed(k, d)
    PROVE  LET q == Append(out, e)
           IN  /\ ItemEvents(q, n)
               /\ \A j, l, b : OpenInItems(out, j, l, b) /\ j # i => OpenInItems(q, j, l, b)
               /\ Indexes(q, "added") = Indexes(out, "added")
               /\ Indexes(q, "done") = Indexes(out, "done") \cup {i}
               /\ IsSeq(Append(fin, Item(e)))
               /\ ToSet(Append(fin, Item(e))) = {Item(f) : f \in Events(q, "done")}
<1> DEFINE q == Append(out, e)
<1>1. ItemFits(out, e)
  BY OpenFits
<1>2. ItemEvents(q, n)
  BY <1>1, ItemEventsGrow
<1>3. \A j, l, b : OpenInItems(out, j, l, b) /\ j # i => OpenInItems(q, j, l, b)
  BY StaysOpen
<1>4. /\ \A type : Events(q, type) = Events(out, type) \cup (IF e.type = type THEN {e} ELSE {})
      /\ \A type : Indexes(q, type) = Indexes(out, type) \cup (IF e.type = type THEN {e.index} ELSE {})
  BY AppendEvents
<1>5. IsSeq(Append(fin, Item(e))) /\ ToSet(Append(fin, Item(e))) = ToSet(fin) \cup {Item(e)}
  BY AppendSeq
<1> HIDE DEF q
<1>6. Events(q, "done") = Events(out, "done") \cup {e}
  BY <1>4
<1>7. ToSet(fin) \cup {Item(e)} = {Item(f) : f \in Events(q, "done")}
  BY <1>6
<1>8. Indexes(q, "added") = Indexes(out, "added") /\ Indexes(q, "done") = Indexes(out, "done") \cup {i}
  BY <1>4
<1>9. QED
  BY <1>2, <1>3, <1>5, <1>7, <1>8 DEF q

LEMMA ItemOpens ==
    ASSUME NEW out, IsSeq(out), NEW n, ItemEvents(out, n), NEW e, e.type = "added", e.index = n
    PROVE  LET q == Append(out, e)
           IN  /\ ItemEvents(q, n + 1)
               /\ \A j, l, b : OpenInItems(out, j, l, b) => OpenInItems(q, j, l, b) /\ j # n
               /\ OpenInItems(q, n, e.kind, <<>>)
               /\ Indexes(q, "added") = Indexes(out, "added") \cup {n}
               /\ Indexes(q, "done") = Indexes(out, "done")
               /\ Events(q, "done") = Events(out, "done")
<1> DEFINE q == Append(out, e)
<1>1. ItemFits(out, e) /\ OpenInItems(q, n, e.kind, <<>>)
  BY AddedFits
<1>2. ItemEvents(q, n + 1)
  BY <1>1, ItemEventsGrow
<1>3. \A j, l, b : OpenInItems(out, j, l, b) => OpenInItems(q, j, l, b)
  BY StaysOpen
<1>4. \A j, l, b : OpenInItems(out, j, l, b) => j # n
  BY ItemCount
<1>5. /\ \A type : Events(q, type) = Events(out, type) \cup (IF e.type = type THEN {e} ELSE {})
      /\ \A type : Indexes(q, type) = Indexes(out, type) \cup (IF e.type = type THEN {e.index} ELSE {})
  BY AppendEvents
<1> HIDE DEF q
<1>6. Indexes(q, "added") = Indexes(out, "added") \cup {n} /\ Indexes(q, "done") = Indexes(out, "done")
      /\ Events(q, "done") = Events(out, "done")
  BY <1>5
<1>7. QED
  BY <1>1, <1>2, <1>3, <1>4, <1>6 DEF q

LEMMA ItemGrows ==
    ASSUME NEW out, IsSeq(out), NEW n, ItemEvents(out, n), NEW i, NEW k, NEW d, OpenInItems(out, i, k, d),
           NEW e, e.type = "delta", e.index = i, e.kind = k, e.data \in Seq(Nat)
    PROVE  LET q == Append(out, e)
           IN  /\ ItemEvents(q, n)
               /\ \A j, l, b : OpenInItems(out, j, l, b) /\ j # i => OpenInItems(q, j, l, b)
               /\ OpenInItems(q, i, k, d \o e.data)
               /\ Indexes(q, "added") = Indexes(out, "added")
               /\ Indexes(q, "done") = Indexes(out, "done")
               /\ Events(q, "done") = Events(out, "done")
<1> DEFINE q == Append(out, e)
<1>1. ItemFits(out, e) /\ OpenInItems(q, i, k, d \o e.data)
  BY OpenFits
<1>2. ItemEvents(q, n)
  BY <1>1, ItemEventsGrow
<1>3. \A j, l, b : OpenInItems(out, j, l, b) /\ j # i => OpenInItems(q, j, l, b)
  BY StaysOpen
<1>4. /\ \A type : Events(q, type) = Events(out, type) \cup (IF e.type = type THEN {e} ELSE {})
      /\ \A type : Indexes(q, type) = Indexes(out, type) \cup (IF e.type = type THEN {e.index} ELSE {})
  BY AppendEvents
<1> HIDE DEF q
<1>5. Indexes(q, "added") = Indexes(out, "added") /\ Indexes(q, "done") = Indexes(out, "done")
      /\ Events(q, "done") = Events(out, "done")
  BY <1>4
<1>6. QED
  BY <1>1, <1>2, <1>3, <1>5 DEF q

LEMMA ItemsOut ==
    ASSUME NEW x, Items(x)
    PROVE  /\ IsTranslator(x) /\ IsSeq(x.out) /\ ItemEvents(x.out, x.next)
           /\ ActiveItem(x) /\ CallItems(x) /\ Accounted(x) /\ IsSeq(x.finalOutput)
           /\ ToSet(x.finalOutput) = {Item(e) : e \in Events(x.out, "done")}
  BY DEF Items, ItemsInv, IsTranslator, Accounted

LEMMA FinalizeActiveItems ==
    ASSUME NEW x, Items(x)
    PROVE  /\ Items(FinalizeActive(x)) /\ FinalizeActive(x).active = ""
           /\ FinalizeActive(x).next = x.next /\ FinalizeActive(x).toolCalls = x.toolCalls
<1>1. CASE x.active = ""
  BY <1>1 DEF FinalizeActive
<1>2. CASE x.active # ""
  <2> DEFINE y == FinalizeActive(x)
             e == Event("done", x.next - 1, x.active, 0, x.buffer)
             i == x.next - 1
  <2>1. /\ IsTranslator(y)
        /\ y.out = Append(x.out, e) /\ y.finalOutput = Append(x.finalOutput, Item(e))
        /\ y.active = "" /\ y.buffer = <<>>
        /\ y.next = x.next /\ y.toolCalls = x.toolCalls
    BY <1>2, FinalizeActiveFields, ItemsOut
  <2>2. /\ IsSeq(x.out) /\ ItemEvents(x.out, x.next) /\ OpenInItems(x.out, i, x.active, x.buffer)
        /\ IsSeq(x.finalOutput) /\ ToSet(x.finalOutput) = {Item(f) : f \in Events(x.out, "done")}
        /\ e.type = "done" /\ e.index = i /\ e.kind = x.active /\ e.data = Closed(x.active, x.buffer)
    <3>1. /\ IsSeq(x.out) /\ ItemEvents(x.out, x.next) /\ ActiveItem(x)
          /\ IsSeq(x.finalOutput) /\ ToSet(x.finalOutput) = {Item(f) : f \in Events(x.out, "done")}
      BY ItemsOut
    <3>2. OpenInItems(x.out, i, x.active, x.buffer) /\ x.active \in {"text", "reasoning"}
      BY <1>2, <3>1 DEF ActiveItem
    <3>3. e.type = "done" /\ e.index = i /\ e.kind = x.active /\ e.data = x.buffer
      BY EventIs
    <3>4. Closed(x.active, x.buffer) = x.buffer
      <4> DEFINE active == x.active
      <4>1. active # "call"
        BY <3>2
      <4> HIDE DEF active
      <4>2. Closed(active, x.buffer) = x.buffer
        BY <4>1 DEF Closed
      <4>3. QED
        BY <4>2 DEF active
    <3>5. QED
      BY <3>1, <3>2, <3>3, <3>4
  <2> HIDE DEF y, e, i
  <2>3. /\ ItemEvents(y.out, x.next)
        /\ \A j, l, b : OpenInItems(x.out, j, l, b) /\ j # i => OpenInItems(y.out, j, l, b)
        /\ Indexes(y.out, "added") = Indexes(x.out, "added")
        /\ Indexes(y.out, "done") = Indexes(x.out, "done") \cup {i}
        /\ IsSeq(y.finalOutput)
        /\ ToSet(y.finalOutput) = {Item(f) : f \in Events(y.out, "done")}
    <3> DEFINE q == Append(x.out, e)
    <3>1. /\ ItemEvents(q, x.next)
          /\ \A j, l, b : OpenInItems(x.out, j, l, b) /\ j # i => OpenInItems(q, j, l, b)
          /\ Indexes(q, "added") = Indexes(x.out, "added")
          /\ Indexes(q, "done") = Indexes(x.out, "done") \cup {i}
          /\ IsSeq(Append(x.finalOutput, Item(e)))
          /\ ToSet(Append(x.finalOutput, Item(e))) = {Item(f) : f \in Events(q, "done")}
      BY <2>2, ItemCloses
    <3>2. q = y.out /\ Append(x.finalOutput, Item(e)) = y.finalOutput
      BY <2>1
    <3>3. QED
      BY <3>1, <3>2
  <2>4. ActiveItem(y)
    BY <2>1 DEF ActiveItem
  <2>5. CallItems(y)
    <3>1. CallItems(x) /\ \A j \in DOMAIN x.toolCalls : x.toolCalls[j].index # i
      BY <1>2, ItemsOut DEF CallItems, i
    <3>2. QED
      BY <2>1, <2>3, <3>1 DEF CallItems
  <2>6. Accounted(y)
    <3>1. Indexes(x.out, "added") = Indexes(x.out, "done") \cup OpenItems(x)
      BY ItemsOut DEF Accounted
    <3>2. OpenItems(x) = {i} \cup OpenItems(y)
      BY <1>2, <2>1 DEF OpenItems, i
    <3>3. QED
      BY <2>3, <3>1, <3>2 DEF Accounted
  <2>7. QED
    BY <2>1, <2>3, <2>4, <2>5, <2>6 DEF Items, ItemsInv, y
<1>3. QED
  BY <1>1, <1>2

LEMMA OpenItemItems ==
    ASSUME NEW x, Items(x), NEW kind \in {"text", "reasoning"}
    PROVE  Items(OpenItem(x, kind)) /\ OpenItem(x, kind).active = kind
<1> DEFINE s == FinalizeActive(x)
           w == [s EXCEPT !.active = kind, !.next = @ + 1]
           n == s.next
           e == Event("added", n, kind, 0, <<>>)
           y == OpenItem(x, kind)
<1>1. y = Emit(w, e)
  BY DEF OpenItem
<1>2. Items(s) /\ s.active = ""
  BY FinalizeActiveItems
<1> HIDE DEF s
<1>3. /\ IsTranslator(s) /\ IsSeq(s.out) /\ ItemEvents(s.out, n) /\ ActiveItem(s) /\ CallItems(s) /\ Accounted(s)
      /\ ToSet(s.finalOutput) = {Item(f) : f \in Events(s.out, "done")}
  BY <1>2, ItemsOut
<1>4. /\ IsTranslator(w) /\ w.active = kind /\ w.next = n + 1 /\ w.out = s.out /\ w.toolCalls = s.toolCalls
      /\ w.buffer = s.buffer /\ w.finalOutput = s.finalOutput
  BY <1>3 DEF IsTranslator
<1>5. e.type = "added" /\ e.index = n /\ e.kind = kind
  BY EventIs
<1>6. n \in Nat /\ (n + 1) - 1 = n
  <2>1. n \in Nat
    BY <1>3, ItemCount
  <2>2. QED
    BY <2>1
<1> HIDE DEF w, e, n
<1>7. /\ IsTranslator(y) /\ y.active = kind /\ y.next = n + 1 /\ y.out = Append(s.out, e)
      /\ y.toolCalls = s.toolCalls /\ y.buffer = s.buffer /\ y.finalOutput = s.finalOutput
  <2>1. /\ IsTranslator(Emit(w, e)) /\ Emit(w, e).out = Append(w.out, e)
        /\ Emit(w, e).active = w.active /\ Emit(w, e).buffer = w.buffer /\ Emit(w, e).next = w.next
        /\ Emit(w, e).toolCalls = w.toolCalls /\ Emit(w, e).finalOutput = w.finalOutput
    BY <1>4, EmitFields
  <2>2. QED
    BY <1>1, <1>4, <2>1
<1> HIDE DEF y
<1>8. /\ ItemEvents(y.out, n + 1)
      /\ \A j, l, b : OpenInItems(s.out, j, l, b) => OpenInItems(y.out, j, l, b) /\ j # n
      /\ OpenInItems(y.out, n, kind, <<>>)
      /\ Indexes(y.out, "added") = Indexes(s.out, "added") \cup {n}
      /\ Indexes(y.out, "done") = Indexes(s.out, "done")
      /\ Events(y.out, "done") = Events(s.out, "done")
  <2> DEFINE q == Append(s.out, e)
  <2>1. /\ ItemEvents(q, n + 1)
        /\ \A j, l, b : OpenInItems(s.out, j, l, b) => OpenInItems(q, j, l, b) /\ j # n
        /\ OpenInItems(q, n, e.kind, <<>>)
        /\ Indexes(q, "added") = Indexes(s.out, "added") \cup {n}
        /\ Indexes(q, "done") = Indexes(s.out, "done")
        /\ Events(q, "done") = Events(s.out, "done")
    BY <1>3, <1>5, ItemOpens
  <2>2. q = y.out
    BY <1>7
  <2> HIDE DEF q
  <2>3. QED
    BY <1>5, <2>1, <2>2
<1>9. ActiveItem(y)
  <2>1. y.buffer = <<>>
    BY <1>2, <1>3, <1>7 DEF ActiveItem
  <2>2. QED
    BY <1>6, <1>7, <1>8, <2>1 DEF ActiveItem
<1>10. CallItems(y)
  BY <1>3, <1>6, <1>7, <1>8 DEF CallItems
<1>11. Accounted(y)
  <2>1. OpenItems(y) = OpenItems(s) \cup {n}
    BY <1>2, <1>6, <1>7 DEF OpenItems
  <2>2. QED
    BY <1>3, <1>7, <1>8, <2>1 DEF Accounted
<1>12. ItemEvents(y.out, y.next)
  BY <1>7, <1>8
<1>13. QED
  BY <1>7, <1>9, <1>10, <1>11, <1>12 DEF Items, ItemsInv, y

LEMMA OpenToolCallItems ==
    ASSUME NEW x, Items(x), NEW index \in Nat, index \notin DOMAIN x.toolCalls, NEW call
    PROVE  Items(OpenToolCall(x, index, call)) /\ index \in DOMAIN OpenToolCall(x, index, call).toolCalls
<1> DEFINE s == FinalizeActive(x)
           n == s.next
           tc == [index |-> n, call |-> call, args |-> <<>>]
           calls == [i \in DOMAIN s.toolCalls \cup {index} |-> IF i = index THEN tc ELSE s.toolCalls[i]]
           w == [s EXCEPT !.next = @ + 1, !.toolCalls = calls]
           e == Event("added", n, "call", call, <<>>)
           y == OpenToolCall(x, index, call)
<1>1. y = Emit(w, e)
  BY DEF OpenToolCall
<1>2. Items(s) /\ s.active = "" /\ index \notin DOMAIN s.toolCalls
  BY FinalizeActiveItems
<1> HIDE DEF s
<1>3. /\ IsTranslator(s) /\ IsSeq(s.out) /\ ItemEvents(s.out, n) /\ ActiveItem(s) /\ CallItems(s) /\ Accounted(s)
      /\ ToSet(s.finalOutput) = {Item(f) : f \in Events(s.out, "done")}
  BY <1>2, ItemsOut
<1>4. IsFiniteSet(DOMAIN calls)
  BY <1>3, FS_AddElement DEF IsTranslator
<1>5. /\ DOMAIN calls = DOMAIN s.toolCalls \cup {index} /\ calls[index] = tc
      /\ \A i \in DOMAIN s.toolCalls : i # index /\ calls[i] = s.toolCalls[i]
      /\ DOMAIN tc = {"index", "call", "args"} /\ tc.index = n /\ tc.args = <<>>
  BY <1>2
<1> HIDE DEF calls, tc
<1>6. /\ IsTranslator(w) /\ w.active = "" /\ w.next = n + 1 /\ w.out = s.out /\ w.toolCalls = calls
      /\ w.buffer = s.buffer /\ w.finalOutput = s.finalOutput
  BY <1>2, <1>3, <1>4 DEF IsTranslator
<1>7. e.type = "added" /\ e.index = n /\ e.kind = "call"
  BY EventIs
<1> HIDE DEF w, e, n
<1>8. /\ IsTranslator(y) /\ y.active = "" /\ y.next = n + 1 /\ y.out = Append(s.out, e)
      /\ y.toolCalls = calls /\ y.buffer = s.buffer /\ y.finalOutput = s.finalOutput
  <2>1. /\ IsTranslator(Emit(w, e)) /\ Emit(w, e).out = Append(w.out, e)
        /\ Emit(w, e).active = w.active /\ Emit(w, e).buffer = w.buffer /\ Emit(w, e).next = w.next
        /\ Emit(w, e).toolCalls = w.toolCalls /\ Emit(w, e).finalOutput = w.finalOutput
    BY <1>6, EmitFields
  <2>2. QED
    BY <1>1, <1>6, <2>1
<1> HIDE DEF y
<1>9. /\ ItemEvents(y.out, n + 1)
      /\ \A j, l, b : OpenInItems(s.out, j, l, b) => OpenInItems(y.out, j, l, b) /\ j # n
      /\ OpenInItems(y.out, n, "call", <<>>)
      /\ Indexes(y.out, "added") = Indexes(s.out, "added") \cup {n}
      /\ Indexes(y.out, "done") = Indexes(s.out, "done")
      /\ Events(y.out, "done") = Events(s.out, "done")
  <2> DEFINE q == Append(s.out, e)
  <2>1. /\ ItemEvents(q, n + 1)
        /\ \A j, l, b : OpenInItems(s.out, j, l, b) => OpenInItems(q, j, l, b) /\ j # n
        /\ OpenInItems(q, n, e.kind, <<>>)
        /\ Indexes(q, "added") = Indexes(s.out, "added") \cup {n}
        /\ Indexes(q, "done") = Indexes(s.out, "done")
        /\ Events(q, "done") = Events(s.out, "done")
    BY <1>3, <1>7, ItemOpens
  <2>2. q = y.out
    BY <1>8
  <2> HIDE DEF q
  <2>3. QED
    BY <1>7, <2>1, <2>2
<1>10. ActiveItem(y)
  BY <1>2, <1>3, <1>8 DEF ActiveItem
<1>11. CallItems(y)
  <2>1. DOMAIN y.toolCalls \subseteq Nat
    BY <1>3, <1>5, <1>8 DEF CallItems
  <2>2. ASSUME NEW i \in DOMAIN s.toolCalls
        PROVE  /\ y.toolCalls[i] = s.toolCalls[i] /\ DOMAIN s.toolCalls[i] = {"index", "call", "args"}
               /\ OpenInItems(y.out, s.toolCalls[i].index, "call", s.toolCalls[i].args)
               /\ s.toolCalls[i].index # n
    BY <1>3, <1>5, <1>8, <1>9 DEF CallItems
  <2>3. y.toolCalls[index] = tc
    BY <1>5, <1>8
  <2>4. ASSUME NEW i \in DOMAIN y.toolCalls
        PROVE  /\ DOMAIN y.toolCalls[i] = {"index", "call", "args"}
               /\ OpenInItems(y.out, y.toolCalls[i].index, "call", y.toolCalls[i].args)
    <3>1. CASE i = index
      BY <1>5, <1>9, <2>3, <3>1
    <3>2. CASE i \in DOMAIN s.toolCalls
      BY <2>2, <3>2
    <3>3. QED
      BY <1>5, <1>8, <3>1, <3>2
  <2>5. ASSUME NEW i \in DOMAIN y.toolCalls, NEW j \in DOMAIN y.toolCalls,
               y.toolCalls[i].index = y.toolCalls[j].index
        PROVE  i = j
    <3>1. CASE i = index /\ j = index
      BY <3>1
    <3>2. CASE i \in DOMAIN s.toolCalls /\ j \in DOMAIN s.toolCalls
      BY <1>3, <2>2, <2>5, <3>2 DEF CallItems
    <3>3. CASE i = index /\ j \in DOMAIN s.toolCalls
      BY <1>5, <2>2, <2>3, <2>5, <3>3
    <3>4. CASE i \in DOMAIN s.toolCalls /\ j = index
      BY <1>5, <2>2, <2>3, <2>5, <3>4
    <3>5. QED
      BY <1>5, <1>8, <3>1, <3>2, <3>3, <3>4
  <2>6. QED
    BY <1>8, <2>1, <2>4, <2>5 DEF CallItems
<1>12. Accounted(y)
  <2>1. OpenItems(y) = OpenItems(s) \cup {n}
    <3>1. {y.toolCalls[i].index : i \in DOMAIN y.toolCalls}
            = {s.toolCalls[i].index : i \in DOMAIN s.toolCalls} \cup {n}
      <4>1. \A i \in DOMAIN y.toolCalls :
              y.toolCalls[i].index \in {s.toolCalls[j].index : j \in DOMAIN s.toolCalls} \cup {n}
        <5> TAKE i \in DOMAIN y.toolCalls
        <5>1. i \in DOMAIN s.toolCalls \/ i = index
          BY <1>5, <1>8
        <5>2. QED
          BY <1>5, <1>8, <5>1
      <4>2. \A i \in DOMAIN s.toolCalls : s.toolCalls[i].index \in {y.toolCalls[j].index : j \in DOMAIN y.toolCalls}
        BY <1>5, <1>8
      <4>3. n \in {y.toolCalls[j].index : j \in DOMAIN y.toolCalls}
        BY <1>5, <1>8
      <4>4. QED
        BY <4>1, <4>2, <4>3
    <3>2. QED
      BY <1>2, <1>8, <3>1 DEF OpenItems
  <2>2. QED
    BY <1>3, <1>8, <1>9, <2>1 DEF Accounted
<1>13. ItemEvents(y.out, y.next) /\ index \in DOMAIN y.toolCalls
  BY <1>5, <1>8, <1>9
<1>14. QED
  BY <1>8, <1>10, <1>11, <1>12, <1>13 DEF Items, ItemsInv, y

LEMMA ResponsesTextItems ==
    ASSUME NEW x, Items(x), NEW c, c.kind \in {"text", "reasoning"}, c.data \in Seq(Nat)
    PROVE  Items(ResponsesText(x, c))
<1> DEFINE s == IF x.active = c.kind THEN x ELSE OpenItem(x, c.kind)
           w == [s EXCEPT !.buffer = @ \o c.data]
           i == s.next - 1
           e == Event("delta", i, c.kind, 0, c.data)
           y == ResponsesText(x, c)
<1>1. y = Emit(w, e)
  BY DEF ResponsesText
<1>2. Items(s) /\ s.active = c.kind
  BY OpenItemItems
<1> HIDE DEF s
<1>3. /\ IsTranslator(s) /\ IsSeq(s.out) /\ ItemEvents(s.out, s.next) /\ ActiveItem(s) /\ CallItems(s) /\ Accounted(s)
  BY <1>2, ItemsOut
<1>4. /\ IsTranslator(w) /\ w.active = s.active /\ w.next = s.next /\ w.out = s.out /\ w.toolCalls = s.toolCalls
      /\ w.buffer = s.buffer \o c.data /\ w.finalOutput = s.finalOutput
  BY <1>3 DEF IsTranslator
<1>5. e.type = "delta" /\ e.index = i /\ e.kind = c.kind /\ e.data = c.data
  BY EventIs
<1>6. OpenInItems(s.out, i, c.kind, s.buffer)
  BY <1>2, <1>3 DEF ActiveItem
<1> HIDE DEF w, e
<1>7. /\ IsTranslator(y) /\ y.active = s.active /\ y.next = s.next /\ y.out = Append(s.out, e)
      /\ y.toolCalls = s.toolCalls /\ y.buffer = s.buffer \o c.data /\ y.finalOutput = s.finalOutput
  <2>1. /\ IsTranslator(Emit(w, e)) /\ Emit(w, e).out = Append(w.out, e)
        /\ Emit(w, e).active = w.active /\ Emit(w, e).buffer = w.buffer /\ Emit(w, e).next = w.next
        /\ Emit(w, e).toolCalls = w.toolCalls /\ Emit(w, e).finalOutput = w.finalOutput
    BY <1>4, EmitFields
  <2>2. QED
    BY <1>1, <1>4, <2>1
<1> HIDE DEF y
<1>8. /\ ItemEvents(y.out, s.next)
      /\ \A j, l, b : OpenInItems(s.out, j, l, b) /\ j # i => OpenInItems(y.out, j, l, b)
      /\ OpenInItems(y.out, i, c.kind, s.buffer \o c.data)
      /\ Indexes(y.out, "added") = Indexes(s.out, "added")
      /\ Indexes(y.out, "done") = Indexes(s.out, "done")
      /\ Events(y.out, "done") = Events(s.out, "done")
  <2> DEFINE q == Append(s.out, e)
  <2>1. /\ ItemEvents(q, s.next)
        /\ \A j, l, b : OpenInItems(s.out, j, l, b) /\ j # i => OpenInItems(q, j, l, b)
        /\ OpenInItems(q, i, c.kind, s.buffer \o e.data)
        /\ Indexes(q, "added") = Indexes(s.out, "added")
        /\ Indexes(q, "done") = Indexes(s.out, "done")
        /\ Events(q, "done") = Events(s.out, "done")
    <3> HIDE DEF i
    <3>1. e.data \in Seq(Nat)
      BY <1>5
    <3>2. QED
      BY <1>3, <1>5, <1>6, <3>1, ItemGrows
  <2>2. q = y.out
    BY <1>7
  <2> HIDE DEF q
  <2>3. QED
    BY <1>5, <2>1, <2>2
<1>9. ActiveItem(y)
  BY <1>2, <1>3, <1>7, <1>8 DEF ActiveItem
<1>10. CallItems(y)
  <2>1. \A j \in DOMAIN s.toolCalls : s.toolCalls[j].index # i
    BY <1>2, <1>3 DEF CallItems, ActiveItem
  <2>2. QED
    BY <1>3, <1>7, <1>8, <2>1 DEF CallItems
<1>11. Accounted(y)
  <2>1. OpenItems(y) = OpenItems(s)
    BY <1>7 DEF OpenItems
  <2>2. QED
    BY <1>3, <1>7, <1>8, <2>1 DEF Accounted
<1>12. ItemEvents(y.out, y.next)
  BY <1>7, <1>8
<1>13. QED
  BY <1>7, <1>9, <1>10, <1>11, <1>12 DEF Items, ItemsInv, y

\* A piece of the arguments of a call that is open.
LEMMA CallDeltaItems ==
    ASSUME NEW s, Items(s), NEW index \in DOMAIN s.toolCalls, NEW d \in Seq(Nat),
           NEW e, e.type = "delta", e.index = s.toolCalls[index].index, e.kind = "call", e.data = d
    PROVE  Items(Emit([s EXCEPT !.toolCalls[index].args = @ \o d], e))
<1> DEFINE tc == s.toolCalls[index]
           w == [s EXCEPT !.toolCalls[index].args = @ \o d]
           calls == w.toolCalls
           y == Emit(w, e)
           i == tc.index
<1>1. /\ IsTranslator(s) /\ IsSeq(s.out) /\ ItemEvents(s.out, s.next) /\ ActiveItem(s) /\ CallItems(s) /\ Accounted(s)
  BY ItemsOut
<1>2. /\ DOMAIN tc = {"index", "call", "args"} /\ OpenInItems(s.out, i, "call", tc.args)
      /\ s.active # "" => i # s.next - 1
      /\ \A j \in DOMAIN s.toolCalls : s.toolCalls[j].index = i => j = index
  BY <1>1 DEF CallItems
<1>3. /\ DOMAIN w = DOMAIN s /\ w.active = s.active /\ w.next = s.next /\ w.out = s.out
      /\ w.buffer = s.buffer /\ w.finalOutput = s.finalOutput
      /\ calls = [s.toolCalls EXCEPT ![index] = [tc EXCEPT !.args = tc.args \o d]]
  BY <1>1 DEF IsTranslator
<1>4. /\ DOMAIN calls = DOMAIN s.toolCalls
      /\ \A j \in DOMAIN calls : j # index => calls[j] = s.toolCalls[j]
      /\ calls[index].index = i /\ calls[index].args = tc.args \o d /\ DOMAIN calls[index] = {"index", "call", "args"}
      /\ \A j \in DOMAIN calls : calls[j].index = s.toolCalls[j].index
  <2> DEFINE new == [tc EXCEPT !.args = tc.args \o d]
  <2>1. new.index = i /\ new.args = tc.args \o d /\ DOMAIN new = {"index", "call", "args"}
    BY <1>2
  <2> HIDE DEF new, tc, calls, w
  <2>2. /\ DOMAIN calls = DOMAIN s.toolCalls /\ calls[index] = new
        /\ \A j \in DOMAIN calls : j # index => calls[j] = s.toolCalls[j]
    BY <1>3 DEF new
  <2>3. \A j \in DOMAIN calls : calls[j].index = s.toolCalls[j].index
    <3> TAKE j \in DOMAIN calls
    <3>1. CASE j = index
      BY <2>1, <2>2, <3>1 DEF tc
    <3>2. CASE j # index
      BY <2>2, <3>2
    <3>3. QED
      BY <3>1, <3>2
  <2>4. QED
    BY <2>1, <2>2, <2>3
<1>5. IsTranslator(w)
  BY <1>1, <1>3, <1>4 DEF IsTranslator
<1> HIDE DEF w
<1>6. /\ IsTranslator(y) /\ y.active = s.active /\ y.next = s.next /\ y.out = Append(s.out, e)
      /\ y.toolCalls = calls /\ y.buffer = s.buffer /\ y.finalOutput = s.finalOutput
  <2>1. /\ IsTranslator(Emit(w, e)) /\ Emit(w, e).out = Append(w.out, e)
        /\ Emit(w, e).active = w.active /\ Emit(w, e).buffer = w.buffer /\ Emit(w, e).next = w.next
        /\ Emit(w, e).toolCalls = w.toolCalls /\ Emit(w, e).finalOutput = w.finalOutput
    BY <1>5, EmitFields
  <2>2. QED
    BY <1>3, <2>1
<1> HIDE DEF y, calls, tc
<1>7. /\ ItemEvents(y.out, s.next)
      /\ \A j, l, b : OpenInItems(s.out, j, l, b) /\ j # i => OpenInItems(y.out, j, l, b)
      /\ OpenInItems(y.out, i, "call", tc.args \o d)
      /\ Indexes(y.out, "added") = Indexes(s.out, "added")
      /\ Indexes(y.out, "done") = Indexes(s.out, "done")
      /\ Events(y.out, "done") = Events(s.out, "done")
  <2> DEFINE q == Append(s.out, e)
  <2> HIDE DEF i
  <2>1. e.type = "delta" /\ e.index = i /\ e.kind = "call" /\ e.data \in Seq(Nat)
    BY DEF i, tc
  <2>2. /\ ItemEvents(q, s.next)
        /\ \A j, l, b : OpenInItems(s.out, j, l, b) /\ j # i => OpenInItems(q, j, l, b)
        /\ OpenInItems(q, i, "call", tc.args \o e.data)
        /\ Indexes(q, "added") = Indexes(s.out, "added")
        /\ Indexes(q, "done") = Indexes(s.out, "done")
        /\ Events(q, "done") = Events(s.out, "done")
    <3>1. IsSeq(s.out) /\ ItemEvents(s.out, s.next) /\ OpenInItems(s.out, i, "call", tc.args)
      BY <1>1, <1>2
    <3>2. QED
      BY <2>1, <3>1, ItemGrows
  <2>3. q = y.out
    BY <1>6
  <2> HIDE DEF q
  <2>4. QED
    BY <2>2, <2>3
<1>8. ActiveItem(y)
  BY <1>1, <1>2, <1>6, <1>7 DEF ActiveItem
<1>9. CallItems(y)
  <2>1. ASSUME NEW j \in DOMAIN calls
        PROVE  /\ DOMAIN calls[j] = {"index", "call", "args"}
               /\ OpenInItems(y.out, calls[j].index, "call", calls[j].args)
               /\ y.active # "" => calls[j].index # y.next - 1
    <3>1. CASE j = index
      BY <1>2, <1>4, <1>6, <1>7, <3>1
    <3>2. CASE j # index
      BY <1>1, <1>2, <1>4, <1>6, <1>7, <3>2 DEF CallItems
    <3>3. QED
      BY <3>1, <3>2
  <2>2. \A j, k \in DOMAIN calls : calls[j].index = calls[k].index => j = k
    BY <1>1, <1>4 DEF CallItems
  <2>3. DOMAIN calls \subseteq Nat
    BY <1>1, <1>4 DEF CallItems
  <2>4. QED
    BY <1>6, <2>1, <2>2, <2>3 DEF CallItems
<1>10. Accounted(y)
  <2>1. {calls[j].index : j \in DOMAIN calls} = {s.toolCalls[j].index : j \in DOMAIN s.toolCalls}
    BY <1>4
  <2>2. OpenItems(y) = OpenItems(s)
    BY <1>6, <2>1 DEF OpenItems
  <2>3. QED
    BY <1>1, <1>6, <1>7, <2>2 DEF Accounted
<1>11. ItemEvents(y.out, y.next)
  BY <1>6, <1>7
<1>12. QED
  BY <1>6, <1>8, <1>9, <1>10, <1>11 DEF Items, ItemsInv, y, w

LEMMA ResponsesToolItems ==
    ASSUME NEW x, Items(x), NEW c, c.index \in Nat, c.data \in Seq(Nat)
    PROVE  Items(ResponsesTool(x, c))
<1> DEFINE s == IF c.index \in DOMAIN x.toolCalls THEN x ELSE OpenToolCall(x, c.index, c.call)
           tc == s.toolCalls[c.index]
           e == Event("delta", tc.index, "call", tc.call, c.data)
<1>1. ResponsesTool(x, c)
        = IF c.data = <<>> THEN s ELSE Emit([s EXCEPT !.toolCalls[c.index].args = @ \o c.data], e)
  BY DEF ResponsesTool
<1>2. Items(s) /\ c.index \in DOMAIN s.toolCalls
  BY OpenToolCallItems
<1> HIDE DEF s
<1>3. e.type = "delta" /\ e.index = s.toolCalls[c.index].index /\ e.kind = "call" /\ e.data = c.data
  BY EventIs
<1> HIDE DEF e
<1>4. Items(Emit([s EXCEPT !.toolCalls[c.index].args = @ \o c.data], e))
  BY <1>2, <1>3, CallDeltaItems
<1>5. QED
  BY <1>1, <1>2, <1>4

LEMMA ProcessItems ==
    ASSUME NEW x, Items(x), NEW c \in Chunks
    PROVE  Items(Process("responses", x, c))
<1>1. c.index \in Nat /\ c.data \in Seq(Nat)
  <2>1. c.data \in Seq(0 .. MaxFragments) /\ c.index \in 0 .. MaxFragments
    BY DEF Chunks
  <2>2. 1 .. MaxFragments \subseteq Nat /\ 0 .. MaxFragments \subseteq Nat
    OBVIOUS
  <2>3. c.data \in Seq(Nat)
    BY <2>1, <2>2, SeqMonotonic
  <2>4. QED
    BY <2>1, <2>2, <2>3
<1>2. Process("responses", x, c) = ProcessChunk(x, c)
  BY DEF Process
<1>3. CASE c.kind \in {"reasoning", "text"}
  BY <1>1, <1>2, <1>3, ResponsesTextItems DEF ProcessChunk
<1>4. CASE c.kind = "tool"
  BY <1>1, <1>2, <1>4, ResponsesToolItems DEF ProcessChunk
<1>5. CASE c.kind \notin {"reasoning", "text", "tool"}
  BY <1>2, <1>5 DEF ProcessChunk
<1>6. QED
  BY <1>3, <1>4, <1>5

-----------------------------------------------------------------------------
(* The items of the tool calls are finalized in the order of their indexes. *)

LEMMA AscendingOrder ==
    ASSUME NEW S \in SUBSET Nat, IsFiniteSet(S)
    PROVE  LET N == Cardinality(S)
               a == Ascending(S)
           IN  /\ N \in Nat /\ DOMAIN a = 1 .. N
               /\ \A k \in 1 .. N : a[k] \in S
               /\ \A k, j \in 1 .. N : a[k] = a[j] => k = j
               /\ \A x \in S : \E k \in 1 .. N : a[k] = x
<1> DEFINE N == Cardinality(S)
           a == Ascending(S)
           f == [x \in S |-> Rank(S, x)]
           T == 0 .. N - 1
<1>1. N \in Nat
  BY FS_CardinalityType
<1>2. ASSUME NEW x \in S, NEW y \in S, x < y
      PROVE  Rank(S, x) \in Nat /\ Rank(S, y) \in Nat /\ Rank(S, x) < Rank(S, y)
  <2> DEFINE A == {m \in S : m < x}
             B == {m \in S : m < y}
  <2>1. A \in SUBSET (B \ {x}) /\ x \in B /\ B \in SUBSET S /\ A \in SUBSET S
    <3>1. \A m \in S : m < x => m < y /\ m # x
      BY <1>2
    <3>2. QED
      BY <1>2, <3>1
  <2> HIDE DEF A, B
  <2>2. IsFiniteSet(A) /\ IsFiniteSet(B)
    BY <2>1, FS_Subset
  <2>3. Cardinality(A) \in Nat /\ Cardinality(B) \in Nat
    BY <2>2, FS_CardinalityType
  <2>4. IsFiniteSet(B \ {x}) /\ Cardinality(B \ {x}) = Cardinality(B) - 1
    BY <2>1, <2>2, FS_RemoveElement
  <2>5. Cardinality(A) <= Cardinality(B) - 1
    BY <2>1, <2>4, FS_Subset
  <2>6. QED
    BY <2>3, <2>5 DEF Rank, A, B
<1>3. \A x, y \in S : Rank(S, x) = Rank(S, y) => x = y
  <2> TAKE x, y \in S
  <2>1. x < y \/ y < x \/ x = y
    OBVIOUS
  <2>2. CASE x < y
    BY <1>2, <2>2
  <2>3. CASE y < x
    BY <1>2, <2>3
  <2>4. QED
    BY <2>1, <2>2, <2>3
<1>4. \A x \in S : Rank(S, x) \in T
  <2> TAKE x \in S
  <2> DEFINE A == {m \in S : m < x}
  <2>1. A \in SUBSET (S \ {x})
    OBVIOUS
  <2>2. IsFiniteSet(S \ {x}) /\ Cardinality(S \ {x}) = N - 1
    BY FS_RemoveElement
  <2> HIDE DEF A
  <2>3. IsFiniteSet(A) /\ Cardinality(A) <= N - 1
    BY <2>1, <2>2, FS_Subset
  <2>4. Cardinality(A) \in Nat
    BY <2>3, FS_CardinalityType
  <2> HIDE DEF N
  <2>5. QED
    BY <1>1, <2>3, <2>4 DEF Rank, A
<1>5. f \in Injection(S, T)
  <2>1. f \in [S -> T]
    BY <1>4
  <2>2. \A x, y \in S : f[x] = f[y] => x = y
    BY <1>3
  <2>3. QED
    BY <2>1, <2>2 DEF Injection, IsInjective
<1>6. IsFiniteSet(T) /\ Cardinality(T) = N
  <2> HIDE DEF N
  <2>1. 0 \in Int /\ N - 1 \in Int
    BY <1>1
  <2>2. IsFiniteSet(T) /\ Cardinality(T) = IF 0 > N - 1 THEN 0 ELSE (N - 1) - 0 + 1
    BY <2>1, FS_Interval
  <2>3. QED
    BY <1>1, <2>2
<1> HIDE DEF T
<1>7. f \in Surjection(S, T)
  <2>1. IsFiniteSet(T) /\ f \in Injection(S, T) /\ Cardinality(S) = Cardinality(T)
    BY <1>5, <1>6
  <2> HIDE DEF f, N
  <2>2. QED
    BY <2>1, FS_Injection
<1>8. \A k \in 1 .. N : \E x \in S : Rank(S, x) = k - 1
  <2> TAKE k \in 1 .. N
  <2>1. k - 1 \in T
    <3> HIDE DEF N
    <3>1. QED
      BY <1>1 DEF T
  <2>2. QED
    BY <1>7, <2>1 DEF Surjection
<1>9. a = [k \in 1 .. N |-> CHOOSE x \in S : Rank(S, x) = k - 1]
  BY DEF Ascending, Rank
<1> HIDE DEF a, N, f
<1>10. \A k \in 1 .. N : a[k] \in S /\ Rank(S, a[k]) = k - 1
  <2> TAKE k \in 1 .. N
  <2>1. a[k] = CHOOSE x \in S : Rank(S, x) = k - 1
    BY <1>9
  <2>2. QED
    BY <1>8, <2>1
<1>11. \A k, j \in 1 .. N : a[k] = a[j] => k = j
  <2> TAKE k, j \in 1 .. N
  <2>1. Rank(S, a[k]) = k - 1 /\ Rank(S, a[j]) = j - 1 /\ k \in Int /\ j \in Int
    BY <1>10
  <2>2. QED
    BY <2>1
<1>12. \A x \in S : \E k \in 1 .. N : a[k] = x
  <2> TAKE x \in S
  <2> DEFINE r == Rank(S, x)
  <2>1. r \in 0 .. N - 1
    BY <1>4 DEF T
  <2> HIDE DEF r
  <2>2. r + 1 \in 1 .. N /\ (r + 1) - 1 = r
    BY <1>1, <2>1
  <2>3. a[r + 1] \in S /\ Rank(S, a[r + 1]) = r
    BY <1>10, <2>2
  <2>4. a[r + 1] = x
    BY <1>3, <2>3 DEF r
  <2>5. QED
    BY <2>2, <2>4
<1>13. QED
  BY <1>1, <1>9, <1>10, <1>11, <1>12 DEF a, N

LEMMA ConcatCut ==
    ASSUME NEW a, NEW b, IsSeq(a), IsSeq(b)
    PROVE  SubSeq(a \o b, 1, Len(a)) = a /\ SubSeq(a \o b, 1, Len(a) + Len(b)) = a \o b
<1> DEFINE S == ToSet(a) \cup ToSet(b)
<1>1. a \in Seq(S) /\ b \in Seq(S)
  BY SeqMonotonic DEF IsSeq
<1> HIDE DEF S
<1>2. SubSeq(a \o b, 1, Len(a)) = a
  BY <1>1, SMT
<1>3. a \o b \in Seq(S) /\ Len(a \o b) = Len(a) + Len(b)
  BY <1>1, SMT
<1>4. SubSeq(a \o b, 1, Len(a) + Len(b)) = a \o b
  BY <1>3, SMT
<1>5. QED
  BY <1>2, <1>4

\* No text or reasoning item is open.
Idle(x) == x.active = ""

LEMMA CallsClose ==
    ASSUME NEW x, Items(x), Idle(x)
    PROVE  LET y == FinalizeToolCalls(x)
           IN  /\ IsTranslator(y) /\ ItemEvents(y.out, x.next)
               /\ Indexes(y.out, "done") = Indexes(y.out, "added")
               /\ ToSet(y.finalOutput) = {Item(f) : f \in Events(y.out, "done")}
<1> DEFINE S == DOMAIN x.toolCalls
           order == Ascending(S)
           N == Cardinality(S)
           items == [k \in DOMAIN order |->
                       LET tc == x.toolCalls[order[k]]
                       IN  [index |-> tc.index, kind |-> "call", call |-> tc.call, data |-> Salvage(tc.args)]]
           dones == [k \in DOMAIN items |->
                       Event("done", items[k].index, "call", items[k].call, items[k].data)]
           y == [x EXCEPT !.finalOutput = @ \o items, !.out = @ \o dones]
           q == x.out \o dones
           g == x.finalOutput \o items
           L == Len(x.out)
           M == Len(x.finalOutput)
           ix(k) == x.toolCalls[order[k]].index
           ar(k) == x.toolCalls[order[k]].args
<1>1. FinalizeToolCalls(x) = y
  BY DEF FinalizeToolCalls
<1>2. /\ IsTranslator(x) /\ IsSeq(x.out) /\ ItemEvents(x.out, x.next) /\ CallItems(x) /\ Accounted(x)
      /\ IsSeq(x.finalOutput) /\ ToSet(x.finalOutput) = {Item(e) : e \in Events(x.out, "done")}
  BY ItemsOut
<1>3. IsFiniteSet(S) /\ S \in SUBSET Nat
  BY <1>2 DEF IsTranslator, CallItems
<1>4. /\ N \in Nat /\ DOMAIN order = 1 .. N
      /\ \A k \in 1 .. N : order[k] \in S
      /\ \A k, j \in 1 .. N : order[k] = order[j] => k = j
      /\ \A i \in S : \E k \in 1 .. N : order[k] = i
  <2> HIDE DEF S
  <2>1. QED
    BY <1>3, AscendingOrder
<1> HIDE DEF order, N
<1>5. /\ \A k \in 1 .. N : OpenInItems(x.out, ix(k), "call", ar(k))
      /\ \A k, j \in 1 .. N : ix(k) = ix(j) => k = j
      /\ {ix(k) : k \in 1 .. N} = {x.toolCalls[i].index : i \in S}
  <2>1. \A i \in S : OpenInItems(x.out, x.toolCalls[i].index, "call", x.toolCalls[i].args)
    BY <1>2 DEF CallItems
  <2>2. \A i, j \in S : x.toolCalls[i].index = x.toolCalls[j].index => i = j
    BY <1>2 DEF CallItems
  <2> HIDE DEF S
  <2>3. \A k, j \in 1 .. N : ix(k) = ix(j) => k = j
    BY <1>4, <2>2
  <2>4. \A k \in 1 .. N : ix(k) \in {x.toolCalls[i].index : i \in S}
    BY <1>4
  <2>5. \A i \in S : x.toolCalls[i].index \in {ix(k) : k \in 1 .. N}
    BY <1>4
  <2>6. {ix(k) : k \in 1 .. N} = {x.toolCalls[i].index : i \in S}
    BY <2>4, <2>5
  <2>7. QED
    BY <1>4, <2>1, <2>3, <2>6
<1>6. /\ DOMAIN items = 1 .. N /\ DOMAIN dones = 1 .. N
      /\ \A k \in 1 .. N : /\ dones[k].type = "done" /\ dones[k].index = ix(k) /\ dones[k].kind = "call"
                           /\ dones[k].data = Closed("call", ar(k)) /\ items[k] = Item(dones[k])
  BY <1>4 DEF Event, Item, Closed
<1>7. IsSeq(items) /\ Len(items) = N /\ IsSeq(dones) /\ Len(dones) = N
  <2>1. dones = [k \in 1 .. N |-> dones[k]] /\ items = [k \in 1 .. N |-> items[k]]
    BY <1>4
  <2> HIDE DEF items, dones
  <2>2. QED
    BY <1>4, <2>1, FunctionSeq
<1> HIDE DEF items, dones, ix, ar
<1>71. N \in Nat
  BY <1>4
<1>8. DOMAIN y = DOMAIN x /\ y.out = q /\ y.finalOutput = g /\ y.toolCalls = x.toolCalls
  BY <1>2 DEF IsTranslator
<1> HIDE DEF y
<1>9. /\ IsSeq(q) /\ L \in Nat /\ Len(q) = L + N /\ SubSeq(q, 1, L) = x.out /\ SubSeq(q, 1, L + N) = q
      /\ IsSeq(g) /\ M \in Nat /\ Len(g) = M + N /\ SubSeq(g, 1, M) = x.finalOutput /\ SubSeq(g, 1, M + N) = g
      /\ \A k \in 1 .. N : q[L + k] = dones[k] /\ g[M + k] = items[k]
  <2>1. /\ IsSeq(q) /\ L \in Nat /\ Len(q) = L + N
        /\ \A i \in 1 .. L + N : q[i] = IF i <= L THEN x.out[i] ELSE dones[i - L]
    BY <1>2, <1>7, ConcatFacts
  <2>2. /\ IsSeq(g) /\ M \in Nat /\ Len(g) = M + N
        /\ \A i \in 1 .. M + N : g[i] = IF i <= M THEN x.finalOutput[i] ELSE items[i - M]
    BY <1>2, <1>7, ConcatFacts
  <2>3. SubSeq(q, 1, L) = x.out /\ SubSeq(q, 1, L + N) = q
    BY <1>2, <1>7, ConcatCut
  <2>4. SubSeq(g, 1, M) = x.finalOutput /\ SubSeq(g, 1, M + N) = g
    BY <1>2, <1>7, ConcatCut
  <2> HIDE DEF q, g, L, M
  <2>5. ASSUME NEW k \in 1 .. N PROVE q[L + k] = dones[k] /\ g[M + k] = items[k]
    <3>0. L \in Nat /\ M \in Nat
      BY <2>1, <2>2
    <3>1. L + k \in 1 .. L + N /\ ~(L + k <= L) /\ (L + k) - L = k
      BY <1>71, <3>0
    <3>2. M + k \in 1 .. M + N /\ ~(M + k <= M) /\ (M + k) - M = k
      BY <1>71, <3>0
    <3>3. QED
      BY <2>1, <2>2, <3>1, <3>2
  <2>6. QED
    BY <2>1, <2>2, <2>3, <2>4, <2>5
<1> HIDE DEF q, g, L, M
<1> DEFINE o(k) == SubSeq(q, 1, L + k)
           h(k) == SubSeq(g, 1, M + k)
           Good(k) == /\ ItemEvents(o(k), x.next)
                      /\ IsSeq(h(k)) /\ ToSet(h(k)) = {Item(f) : f \in Events(o(k), "done")}
                      /\ Indexes(o(k), "added") = Indexes(x.out, "added")
                      /\ Indexes(o(k), "done") = Indexes(x.out, "done") \cup {ix(j) : j \in 1 .. k}
                      /\ \A j \in k + 1 .. N : OpenInItems(o(k), ix(j), "call", ar(j))
           T == {k \in Nat : k <= N => Good(k)}
<1>91. L \in Nat /\ M \in Nat /\ Len(q) = L + N /\ Len(g) = M + N
  BY <1>9
<1>10. Good(0)
  <2>1. L + 0 = L /\ M + 0 = M /\ 0 + 1 = 1 /\ 1 .. 0 = {}
    BY <1>91
  <2>2. o(0) = x.out /\ h(0) = x.finalOutput
    BY <1>9, <2>1
  <2> HIDE DEF o, h
  <2>3. QED
    BY <1>2, <1>5, <2>1, <2>2
<1>11. ASSUME NEW k \in Nat, k + 1 <= N, Good(k) PROVE Good(k + 1)
  <2> DEFINE e == dones[k + 1]
             i == ix(k + 1)
  <2>0. k \in Nat /\ k + 1 <= N
    BY <1>11
  <2>1. k + 1 \in 1 .. N /\ k + 1 \in k + 1 .. N /\ L + k \in Nat /\ L + k < Len(q) /\ M + k \in Nat /\ M + k < Len(g)
        /\ (L + k) + 1 = L + (k + 1) /\ (M + k) + 1 = M + (k + 1)
    <3> HIDE DEF Good
    <3>1. QED
      BY <1>71, <1>91, <2>0
  <2>2. IsSeq(o(k)) /\ o(k + 1) = Append(o(k), e)
    <3>1. SubSeq(q, 1, (L + k) + 1) = Append(SubSeq(q, 1, L + k), q[(L + k) + 1]) /\ IsSeq(SubSeq(q, 1, L + k))
      <4> DEFINE m == L + k
      <4>1. IsSeq(q) /\ m \in Nat /\ m <= Len(q) /\ m < Len(q)
        BY <1>9, <1>91, <2>1
      <4> HIDE DEF m
      <4>2. IsSeq(SubSeq(q, 1, m)) /\ (m < Len(q) => SubSeq(q, 1, m + 1) = Append(SubSeq(q, 1, m), q[m + 1]))
        BY <4>1, CutLog
      <4>3. QED
        BY <4>1, <4>2 DEF m
    <3>2. q[L + (k + 1)] = e
      BY <1>9, <2>1
    <3>3. QED
      BY <2>1, <3>1, <3>2
  <2>3. h(k + 1) = Append(h(k), Item(e))
    <3>1. SubSeq(g, 1, (M + k) + 1) = Append(SubSeq(g, 1, M + k), g[(M + k) + 1])
      <4> DEFINE m == M + k
      <4>1. IsSeq(g) /\ m \in Nat /\ m <= Len(g) /\ m < Len(g)
        BY <1>9, <1>91, <2>1
      <4> HIDE DEF m
      <4>2. m < Len(g) => SubSeq(g, 1, m + 1) = Append(SubSeq(g, 1, m), g[m + 1])
        BY <4>1, CutLog
      <4>3. QED
        BY <4>1, <4>2 DEF m
    <3>2. g[M + (k + 1)] = Item(e)
      BY <1>6, <1>9, <2>1
    <3>3. QED
      BY <2>1, <3>1, <3>2
  <2>4. /\ ItemEvents(o(k), x.next) /\ OpenInItems(o(k), i, "call", ar(k + 1))
        /\ IsSeq(h(k)) /\ ToSet(h(k)) = {Item(f) : f \in Events(o(k), "done")}
    BY <1>11, <2>1
  <2>5. e.type = "done" /\ e.index = i /\ e.kind = "call" /\ e.data = Closed("call", ar(k + 1))
    BY <1>6, <2>1
  <2> HIDE DEF o, h, e, i
  <2> DEFINE out == o(k)
             fin == h(k)
             d == ar(k + 1)
  <2>51. /\ IsSeq(out) /\ ItemEvents(out, x.next) /\ OpenInItems(out, i, "call", d)
        /\ IsSeq(fin) /\ ToSet(fin) = {Item(f) : f \in Events(out, "done")}
        /\ e.type = "done" /\ e.index = i /\ e.kind = "call" /\ e.data = Closed("call", d)
    BY <2>2, <2>4, <2>5
  <2> HIDE DEF out, fin, d
  <2>52. LET q2 == Append(out, e)
        IN  /\ ItemEvents(q2, x.next)
            /\ \A j, l, c : OpenInItems(out, j, l, c) /\ j # i => OpenInItems(q2, j, l, c)
            /\ Indexes(q2, "added") = Indexes(out, "added")
            /\ Indexes(q2, "done") = Indexes(out, "done") \cup {i}
            /\ IsSeq(Append(fin, Item(e)))
            /\ ToSet(Append(fin, Item(e))) = {Item(f) : f \in Events(q2, "done")}
    BY <2>51, ItemCloses
  <2> DEFINE a == Append(o(k), e)
             b == Append(h(k), Item(e))
  <2>6. /\ ItemEvents(a, x.next)
        /\ \A j, l, c : OpenInItems(o(k), j, l, c) /\ j # i => OpenInItems(a, j, l, c)
        /\ Indexes(a, "added") = Indexes(o(k), "added")
        /\ Indexes(a, "done") = Indexes(o(k), "done") \cup {i}
        /\ IsSeq(b)
        /\ ToSet(b) = {Item(f) : f \in Events(a, "done")}
    BY <2>52 DEF out, fin
  <2>7. a = o(k + 1) /\ b = h(k + 1)
    BY <2>2, <2>3
  <2> HIDE DEF a, b
  <2>8. {ix(j) : j \in 1 .. k + 1} = {ix(j) : j \in 1 .. k} \cup {i}
    <3>1. 1 .. k + 1 = (1 .. k) \cup {k + 1}
      BY <2>0
    <3>2. QED
      BY <3>1 DEF i
  <2>9. \A j \in (k + 1) + 1 .. N : j \in k + 1 .. N /\ j \in 1 .. N /\ j # k + 1
    BY <1>71, <2>0
  <2>10. \A j \in (k + 1) + 1 .. N : OpenInItems(o(k), ix(j), "call", ar(j)) /\ ix(j) # i
    <3>1. \A j \in k + 1 .. N : OpenInItems(o(k), ix(j), "call", ar(j))
      BY <1>11
    <3>2. \A j \in 1 .. N : ix(j) = ix(k + 1) => j = k + 1
      BY <1>5, <2>1
    <3>3. QED
      BY <2>9, <3>1, <3>2 DEF i
  <2>11. \A j \in (k + 1) + 1 .. N : OpenInItems(o(k + 1), ix(j), "call", ar(j))
    BY <2>6, <2>7, <2>10
  <2>12. Indexes(o(k + 1), "done") = Indexes(x.out, "done") \cup {ix(j) : j \in 1 .. k + 1}
    BY <1>11, <2>6, <2>7, <2>8
  <2>13. QED
    BY <1>11, <2>6, <2>7, <2>11, <2>12
<1> HIDE DEF Good, o, h
<1>12. Good(N)
  <2>1. 0 \in T
    BY <1>10
  <2>2. \A k \in Nat : k \in T => k + 1 \in T
    <3> TAKE k \in Nat
    <3>1. k + 1 <= N => k <= N
      BY <1>71
    <3>2. QED
      BY <1>11, <3>1
  <2> HIDE DEF T
  <2>3. Nat \subseteq T
    BY <2>1, <2>2, SetInduction
  <2>4. QED
    <3>1. N \in T /\ N <= N
      BY <1>71, <2>3
    <3>2. QED
      BY <3>1 DEF T
<1>13. o(N) = y.out /\ h(N) = y.finalOutput
  BY <1>8, <1>9 DEF o, h
<1>14. /\ ItemEvents(y.out, x.next) /\ ToSet(y.finalOutput) = {Item(f) : f \in Events(y.out, "done")}
       /\ Indexes(y.out, "added") = Indexes(x.out, "added")
       /\ Indexes(y.out, "done") = Indexes(x.out, "done") \cup {ix(j) : j \in 1 .. N}
  BY <1>12, <1>13 DEF Good
<1>15. Indexes(x.out, "added") = Indexes(x.out, "done") \cup {ix(j) : j \in 1 .. N}
  BY <1>2, <1>5 DEF Idle, Accounted, OpenItems, S
<1>16. IsTranslator(y)
  BY <1>2, <1>8, <1>9 DEF IsTranslator
<1>17. QED
  BY <1>1, <1>14, <1>15, <1>16

-----------------------------------------------------------------------------
(* The steps of a Responses target. *)

\* ItemsWellFormed of any sequence of events.
ItemLog(out) == IsSeq(out) /\ \A i \in DOMAIN out : ItemFits(SubSeq(out, 1, i - 1), out[i])

LEMMA ItemLogGrows ==
    ASSUME NEW out, ItemLog(out), NEW e, ItemFits(out, e)
    PROVE  ItemLog(Append(out, e))
<1> DEFINE q == Append(out, e)
           N == Len(out)
<1>1. /\ N \in Nat /\ DOMAIN out = 1 .. N /\ DOMAIN q = 1 .. N + 1 /\ IsSeq(q)
      /\ \A i \in 1 .. N : q[i] = out[i]
      /\ q[N + 1] = e
      /\ \A i \in 1 .. N + 1 : SubSeq(q, 1, i - 1) = SubSeq(out, 1, i - 1)
      /\ SubSeq(q, 1, N) = out
  BY AppendLog DEF ItemLog
<1> HIDE DEF q, N
<1>2. ASSUME NEW i \in DOMAIN q PROVE ItemFits(SubSeq(q, 1, i - 1), q[i])
  <2>1. CASE i \in 1 .. N
    <3>1. ItemFits(SubSeq(out, 1, i - 1), out[i])
      BY <1>1, <2>1 DEF ItemLog
    <3>2. SubSeq(q, 1, i - 1) = SubSeq(out, 1, i - 1) /\ q[i] = out[i]
      BY <1>1, <2>1
    <3>3. QED
      BY <3>1, <3>2
  <2>2. CASE i = N + 1
    <3>1. SubSeq(q, 1, i - 1) = out /\ q[i] = e
      BY <1>1, <2>2
    <3>2. QED
      BY <3>1
  <2>3. QED
    BY <1>1, <2>1, <2>2
<1>3. QED
  BY <1>1, <1>2 DEF ItemLog, q

LEMMA ItemLogCut ==
    ASSUME NEW out, ItemLog(out), NEW n \in Nat, n <= Len(out)
    PROVE  ItemLog(SubSeq(out, 1, n))
<1> DEFINE q == SubSeq(out, 1, n)
<1>1. /\ IsSeq(q) /\ DOMAIN q = 1 .. n
      /\ \A i \in 1 .. n : i \in DOMAIN out /\ q[i] = out[i] /\ SubSeq(q, 1, i - 1) = SubSeq(out, 1, i - 1)
  BY CutLog DEF ItemLog
<1> HIDE DEF q
<1>2. ASSUME NEW i \in DOMAIN q PROVE ItemFits(SubSeq(q, 1, i - 1), q[i])
  <2>1. i \in DOMAIN out /\ q[i] = out[i] /\ SubSeq(q, 1, i - 1) = SubSeq(out, 1, i - 1)
    BY <1>1
  <2>2. ItemFits(SubSeq(out, 1, i - 1), out[i])
    BY <2>1 DEF ItemLog
  <2>3. QED
    BY <2>1, <2>2
<1>3. QED
  BY <1>1, <1>2 DEF ItemLog, q

LEMMA ItemsLog ==
    ASSUME NEW x, Items(x)
    PROVE  ItemLog(x.out) /\ IsTranslator(x)
  BY ItemsOut DEF ItemLog, ItemEvents

LEMMA FinishItems ==
    ASSUME NEW x, Items(x), NEW status \in Ends
    PROVE  IsTranslator(Finish(x, status)) /\ ItemLog(Finish(x, status).out)
<1> DEFINE a == FinalizeActive(x)
           y == FinalizeToolCalls(a)
           blank == ""
           e == Event(status, 0, blank, 0, y.finalOutput)
<1>1. Finish(x, status) = Emit(y, e)
  BY DEF Finish
<1> HIDE DEF blank
<1>2. Items(a) /\ Idle(a)
  BY FinalizeActiveItems DEF Idle
<1>3. /\ IsTranslator(y) /\ ItemEvents(y.out, a.next)
      /\ Indexes(y.out, "done") = Indexes(y.out, "added")
      /\ ToSet(y.finalOutput) = {Item(f) : f \in Events(y.out, "done")}
  <2> HIDE DEF a
  <2>1. QED
    BY <1>2, CallsClose
<1>4. e.type = status /\ e.data = y.finalOutput
  BY EventIs
<1> HIDE DEF a, y, e
<1>5. ItemLog(y.out)
  BY <1>3 DEF ItemLog, ItemEvents, IsTranslator
<1>6. ItemFits(y.out, e)
  BY <1>3, <1>4 DEF ItemFits, ItemEvents, Ends
<1>7. ItemLog(Append(y.out, e))
  BY <1>5, <1>6, ItemLogGrows
<1>8. IsTranslator(Emit(y, e)) /\ Emit(y, e).out = Append(y.out, e)
  BY <1>3, EmitFields
<1>9. QED
  BY <1>1, <1>7, <1>8

LEMMA BeginItems ==
    ASSUME IsTranslator(NewTranslator)
    PROVE  Items(Begin("responses", NewTranslator))
<1> DEFINE x == NewTranslator
           blank == ""
           e == Event("created", 0, blank, 0, <<>>)
           y == Begin("responses", x)
           none == <<>>
           q == Append(none, e)
<1>1. y = Emit(x, e) /\ e.type = "created"
  <2>1. y = Emit(x, e)
    BY DEF Begin
  <2> HIDE DEF blank
  <2>2. e.type = "created"
    BY EventIs
  <2>3. QED
    BY <2>1, <2>2
<1> HIDE DEF blank
<1>2. /\ x.active = "" /\ x.buffer = <<>> /\ x.next = 0 /\ x.toolCalls = <<>> /\ x.finalOutput = <<>>
      /\ x.out = <<>>
  BY DEF NewTranslator
<1> HIDE DEF x, e, y
<1>3. /\ IsTranslator(Emit(x, e)) /\ Emit(x, e).out = Append(x.out, e)
      /\ Emit(x, e).active = x.active /\ Emit(x, e).buffer = x.buffer /\ Emit(x, e).next = x.next
      /\ Emit(x, e).toolCalls = x.toolCalls /\ Emit(x, e).finalOutput = x.finalOutput
  BY EmitFields DEF x
<1>4. /\ IsTranslator(y) /\ y.out = q /\ y.active = "" /\ y.buffer = <<>> /\ y.next = 0
      /\ y.toolCalls = <<>> /\ y.finalOutput = <<>>
  BY <1>1, <1>2, <1>3
<1>5. IsSeq(none) /\ ToSet(none) = {} /\ Len(none) = 0 /\ DOMAIN none = {}
  BY EmptyFacts
<1> HIDE DEF none
<1>6. TypesOf(none) = {} /\ (\A type : Events(none, type) = {} /\ Indexes(none, type) = {} /\ Count(none, type) = 0)
  <2>1. \A type : Events(none, type) = {}
    BY <1>5 DEF Events
  <2>2. \A type : {i \in DOMAIN none : none[i].type = type} = {}
    BY <1>5
  <2>3. \A type : Count(none, type) = 0
    BY <2>2, FS_EmptySet DEF Count
  <2>4. QED
    BY <1>5, <2>1, <2>3 DEF TypesOf, Indexes
<1>7. /\ TypesOf(q) = {"created"}
      /\ \A type : type # "created" => Events(q, type) = {} /\ Indexes(q, type) = {}
  <2>1. /\ TypesOf(q) = TypesOf(none) \cup {e.type}
        /\ \A type : Events(q, type) = Events(none, type) \cup (IF e.type = type THEN {e} ELSE {})
        /\ \A type : Indexes(q, type) = Indexes(none, type) \cup (IF e.type = type THEN {e.index} ELSE {})
    BY <1>5, AppendEvents
  <2> HIDE DEF q
  <2>2. QED
    BY <1>1, <1>6, <2>1
<1>8. Count(q, "added") = 0
  <2>1. Count(q, "added") = Count(none, "added") + (IF e.type = "added" THEN 1 ELSE 0)
    BY <1>5, AppendCount
  <2> HIDE DEF q
  <2>2. QED
    BY <1>1, <1>6, <2>1
<1>9. ItemLog(q)
  <2>1. ItemLog(none)
    BY <1>5 DEF ItemLog
  <2>2. ItemFits(none, e)
    BY <1>1, <1>6 DEF ItemFits, Ends, none
  <2>3. QED
    BY <2>1, <2>2, ItemLogGrows
<1>10. q # <<>>
  BY <1>5, AppendLog
<1> HIDE DEF q
<1>11. ItemEvents(q, 0)
  <2>1. 0 .. 0 - 1 = {}
    OBVIOUS
  <2>2. QED
    BY <1>7, <1>8, <1>9, <1>10, <2>1 DEF ItemEvents, ItemLog, Ends
<1>12. ActiveItem(y)
  BY <1>4 DEF ActiveItem
<1>13. CallItems(y) /\ {y.toolCalls[i].index : i \in DOMAIN y.toolCalls} = {}
  <2>1. y.toolCalls = <<>>
    BY <1>4
  <2>2. DOMAIN y.toolCalls = {}
    BY <2>1
  <2>3. QED
    BY <2>2 DEF CallItems
<1>14. Accounted(y)
  <2>1. OpenItems(y) = {}
    BY <1>4, <1>13 DEF OpenItems
  <2>2. IsSeq(y.finalOutput) /\ ToSet(y.finalOutput) = {}
    BY <1>4, EmptyFacts
  <2>3. QED
    BY <1>4, <1>7, <2>1, <2>2 DEF Accounted
<1>15. QED
  BY <1>4, <1>11, <1>12, <1>13, <1>14 DEF Items, ItemsInv, x, y

LEMMA WriteItems ==
    ASSUME IsTranslator(t), NEW new, IsTranslator(new), ItemLog(new.out), NEW result, Write(new, result)
    PROVE  ItemLog(t'.out) /\ ((t' = new /\ tgt' = result) \/ tgt' = "failed")
<1>1. \/ t' = new /\ tgt' = result
      \/ /\ tgt' = "failed"
         /\ \E n \in Nat : n < Len(new.out) /\ t' = [new EXCEPT !.out = SubSeq(@, 1, n)]
  BY WriteCases
<1>2. ASSUME NEW n \in Nat, n < Len(new.out), t' = [new EXCEPT !.out = SubSeq(@, 1, n)]
      PROVE  ItemLog(t'.out)
  <2>1. t'.out = SubSeq(new.out, 1, n)
    BY <1>2 DEF IsTranslator
  <2>2. n <= Len(new.out)
    <3>1. Len(new.out) \in Nat
      BY SeqFacts DEF ItemLog, IsSeq
    <3>2. QED
      BY <1>2, <3>1
  <2>3. ItemLog(SubSeq(new.out, 1, n))
    BY <2>2, ItemLogCut
  <2>4. QED
    BY <2>1, <2>3
<1>3. QED
  BY <1>1, <1>2

\* ItemsStreamInv but for TypeInv.
ItemsHold ==
    target = "responses" =>
        /\ ItemLog(t.out)
        /\ tgt = "starting" => t = NewTranslator
        /\ tgt = "running" => ItemsInv(t)

LEMMA ItemsHoldIs ==
    ASSUME IInv
    PROVE  ItemsHold <=> ItemsWellFormed /\ (target = "responses" =>
                           /\ tgt = "starting" => t = NewTranslator
                           /\ tgt = "running" => ItemsInv(t))
<1>1. IsSeq(t.out)
  BY DEF IInv, Shape, IsTranslator
<1>2. (target = "responses" => ItemLog(t.out)) <=> ItemsWellFormed
  BY <1>1 DEF ItemLog, ItemsWellFormed, Before, Out
<1>3. QED
  BY <1>2 DEF ItemsHold

LEMMA ItemsHoldIsNext ==
    (IInv => (ItemsHold <=> ItemsWellFormed /\ (target = "responses" =>
                              /\ tgt = "starting" => t = NewTranslator
                              /\ tgt = "running" => ItemsInv(t))))'
  BY ItemsHoldIs, PTL

LEMMA StillItems ==
    ASSUME ItemsHold, UNCHANGED <<target, t, tgt>>
    PROVE  ItemsHold'
  BY DEF ItemsHold

\* A step of the target that writes new.
LEMMA WritingItems ==
    ASSUME IsTranslator(t), target' = target, NEW new, IsTranslator(new), NEW result, Write(new, result),
           ItemLog(new.out), result = "running" => ItemsInv(new), result # "starting"
    PROVE  ItemsHold'
<1>1. ItemLog(t'.out) /\ ((t' = new /\ tgt' = result) \/ tgt' = "failed")
  BY WriteItems
<1>2. QED
  BY <1>1 DEF ItemsHold

LEMMA EndingItems ==
    ASSUME IsTranslator(t), target = "responses", target' = target, tgt = "running", ItemsHold,
           Write(Complete(target, t), "ok") \/ Write(Abandon(target, t), "failed")
    PROVE  ItemsHold'
<1>1. Items(t)
  BY DEF ItemsHold, Items
<1>2. Complete(target, t) = Finish(t, "completed") /\ Abandon(target, t) = Finish(t, "failed")
  BY DEF Complete, Abandon
<1>3. "completed" \in Ends /\ "failed" \in Ends
  BY DEF Ends
<1>4. /\ IsTranslator(Complete(target, t)) /\ ItemLog(Complete(target, t).out)
      /\ IsTranslator(Abandon(target, t)) /\ ItemLog(Abandon(target, t).out)
  BY <1>1, <1>2, <1>3, FinishItems
<1>5. CASE Write(Complete(target, t), "ok")
  <2> DEFINE new == Complete(target, t)
  <2>1. IsTranslator(new) /\ ItemLog(new.out) /\ Write(new, "ok")
    BY <1>4, <1>5
  <2> HIDE DEF new
  <2>2. QED
    BY <2>1, WritingItems
<1>6. CASE Write(Abandon(target, t), "failed")
  <2> DEFINE new == Abandon(target, t)
  <2>1. IsTranslator(new) /\ ItemLog(new.out) /\ Write(new, "failed")
    BY <1>4, <1>6
  <2> HIDE DEF new
  <2>2. QED
    BY <2>1, WritingItems
<1>7. QED
  BY <1>5, <1>6

LEMMA TargetItems ==
    ASSUME IInv, TypeParts, ItemsHold, Target
    PROVE  ItemsHold'
<1>1. IsTranslator(t) /\ ToSet(pending) \subseteq Chunks /\ SourceInv
  BY DEF IInv, Shape, TypeParts, PipeTyped
<1>2. target' = target
  BY DEF Target, TargetStarts, TakeChunk, TakeCancelled, TakeEnd, DeliverChunk, fixed
<1>3. SUFFICES ASSUME target = "responses" PROVE ItemsHold'
  BY <1>2 DEF ItemsHold
<1>4. CASE TargetStarts
  <2> DEFINE new == Begin(target, t)
  <2>1. t = NewTranslator /\ Write(new, "running")
    BY <1>3, <1>4 DEF TargetStarts, ItemsHold
  <2>2. Items(new)
    BY <1>1, <1>3, <2>1, BeginItems
  <2> HIDE DEF new
  <2>3. IsTranslator(new) /\ ItemLog(new.out) /\ ItemsInv(new)
    BY <2>2, ItemsLog DEF Items
  <2>4. QED
    BY <1>1, <1>2, <2>1, <2>3, WritingItems
<1>5. CASE TakeChunk
  <2> DEFINE c == Head(pending)
             new == Process(target, t, c)
  <2>1. tgt = "running" /\ pending # <<>>
    BY <1>5 DEF TakeChunk
  <2>2. c \in Chunks
    BY <1>1, <2>1, PendingSeq, HeadTailSeq
  <2>3. \/ Write(Complete(target, t), "ok") \/ Write(Abandon(target, t), "failed")
        \/ Write(new, "running")
    BY <1>5 DEF TakeChunk
  <2>4. CASE Write(new, "running")
    <3>1. Items(t)
      BY <1>1, <1>3, <2>1 DEF ItemsHold, Items
    <3>2. Items(new)
      BY <1>3, <2>2, <3>1, ProcessItems
    <3> HIDE DEF new
    <3>3. IsTranslator(new) /\ ItemLog(new.out) /\ ItemsInv(new)
      BY <3>2, ItemsLog DEF Items
    <3>4. QED
      BY <1>1, <1>2, <2>4, <3>3, WritingItems
  <2>5. QED
    BY <1>1, <1>2, <1>3, <2>1, <2>3, <2>4, EndingItems
<1>6. CASE TakeCancelled \/ TakeEnd
  <2>1. tgt = "running" /\ (Write(Complete(target, t), "ok") \/ Write(Abandon(target, t), "failed"))
    BY <1>6 DEF TakeCancelled, TakeEnd
  <2>2. QED
    BY <1>1, <1>2, <1>3, <2>1, EndingItems
<1>7. CASE DeliverChunk
  BY <1>3, <1>7 DEF DeliverChunk
<1>8. QED
  BY <1>4, <1>5, <1>6, <1>7 DEF Target

LEMMA NextItems ==
    ASSUME IInv, TypeParts, ItemsHold, [Next]_vars
    PROVE  ItemsHold'
<1>1. CASE Source
  <2>1. UNCHANGED <<target, t, tgt>>
    BY <1>1 DEF Source, Reading, ReadFragment, ReadTerminal, ReadDone, ReadEnd, ReadError, ReadMalformed,
                SourceReturns, SourceWriteFails, targetVars, fixed
  <2>2. QED
    BY <2>1, StillItems
<1>2. CASE Target
  BY <1>2, TargetItems
<1>3. CASE Return \/ ClientLeaves \/ Cancel \/ UNCHANGED vars
  <2>1. UNCHANGED <<target, t, tgt>>
    BY <1>3 DEF Return, ClientLeaves, Cancel, vars, targetVars
  <2>2. QED
    BY <2>1, StillItems
<1>4. QED
  BY <1>1, <1>2, <1>3 DEF Next

LEMMA InitItems == Init => ItemsHold
<1>1. SUFFICES ASSUME Init, target = "responses" PROVE ItemsHold
  BY DEF ItemsHold
<1>2. t = NewTranslator /\ tgt = "starting"
  BY <1>1 DEF Init
<1>3. t.out = <<>>
  BY <1>2 DEF NewTranslator
<1>4. ItemLog(t.out)
  BY <1>3, EmptyFacts DEF ItemLog
<1>5. QED
  BY <1>2, <1>4 DEF ItemsHold

\* In every state the events of a Responses stream are those of its items, and while
\* the target runs the fields of StreamTranslator (the active item and its buffer,
\* the open tool calls and their arguments, the final output) account for each item.
THEOREM ItemsInvCorrect == Spec => []ItemsStreamInv
<1>1. Init => ItemsStreamInv
  <2>1. SUFFICES ASSUME Init PROVE ItemsStreamInv
    OBVIOUS
  <2>2. IInv /\ TypeParts /\ ItemsHold
    BY <2>1, InitIInv, InitTypes, InitItems
  <2>3. TypeInv
    BY <2>2, TypeInvParts DEF TypeInv
  <2>4. QED
    BY <2>2, <2>3, ItemsHoldIs DEF ItemsStreamInv
<1>2. ItemsStreamInv /\ [Next]_vars => ItemsStreamInv'
  <2>1. SUFFICES ASSUME ItemsStreamInv, [Next]_vars PROVE ItemsStreamInv'
    OBVIOUS
  <2>2. IInv /\ IInv' /\ TypeParts
    BY <2>1, NextIInv, TypeInvParts DEF ItemsStreamInv, TypeInv
  <2>3. ItemsHold
    BY <2>1, <2>2, ItemsHoldIs DEF ItemsStreamInv
  <2>4. TypeParts' /\ ItemsHold'
    BY <2>1, <2>2, <2>3, NextTypes, NextItems
  <2>5. TypeInv'
    BY <2>2, <2>4, TypeInvPartsNext DEF TypeInv
  <2>6. QED
    BY <2>2, <2>4, <2>5, ItemsHoldIsNext DEF ItemsStreamInv
<1>3. QED
  BY <1>1, <1>2, PTL DEF Spec

\* Every output item of a Responses stream is opened, grows and is finalized once, in
\* that order and under an index of its own; what closes it repeats its deltas, and
\* the terminal event repeats every item, for answers of any length and any calls.
THEOREM ItemsCorrect == Spec => []ItemsWellFormed
  BY ItemsInvCorrect, PTL DEF ItemsStreamInv

-----------------------------------------------------------------------------
(* The blocks of a Claude stream. *)

\* Events that fit; those of blocks, of which the first n are closed; and with the
\* next one open.
BlockLog(out) == IsSeq(out) /\ \A i \in DOMAIN out : BlockFits(SubSeq(out, 1, i - 1), out[i])
BlockEvents(out, n) ==
    /\ BlockLog(out) /\ out # <<>> /\ "completed" \notin TypesOf(out)
    /\ n = Count(out, "done")
NoneOpen(out, n) == BlockEvents(out, n) /\ Count(out, "added") = n
OneOpen(out, n, kind) ==
    /\ BlockEvents(out, n) /\ Count(out, "added") = n + 1
    /\ \E a \in Events(out, "added") : a.index = n /\ a.kind = kind

LEMMA BlockLogGrows ==
    ASSUME NEW out, BlockLog(out), NEW e, BlockFits(out, e)
    PROVE  BlockLog(Append(out, e))
<1> DEFINE q == Append(out, e)
           N == Len(out)
<1>1. /\ N \in Nat /\ DOMAIN out = 1 .. N /\ DOMAIN q = 1 .. N + 1 /\ IsSeq(q)
      /\ \A i \in 1 .. N : q[i] = out[i]
      /\ q[N + 1] = e
      /\ \A i \in 1 .. N + 1 : SubSeq(q, 1, i - 1) = SubSeq(out, 1, i - 1)
      /\ SubSeq(q, 1, N) = out
  BY AppendLog DEF BlockLog
<1> HIDE DEF q, N
<1>2. ASSUME NEW i \in DOMAIN q PROVE BlockFits(SubSeq(q, 1, i - 1), q[i])
  <2>1. CASE i \in 1 .. N
    <3>1. BlockFits(SubSeq(out, 1, i - 1), out[i])
      BY <1>1, <2>1 DEF BlockLog
    <3>2. SubSeq(q, 1, i - 1) = SubSeq(out, 1, i - 1) /\ q[i] = out[i]
      BY <1>1, <2>1
    <3>3. QED
      BY <3>1, <3>2
  <2>2. CASE i = N + 1
    <3>1. SubSeq(q, 1, i - 1) = out /\ q[i] = e
      BY <1>1, <2>2
    <3>2. QED
      BY <3>1
  <2>3. QED
    BY <1>1, <2>1, <2>2
<1>3. QED
  BY <1>1, <1>2 DEF BlockLog, q

LEMMA BlockLogCut ==
    ASSUME NEW out, BlockLog(out), NEW n \in Nat, n <= Len(out)
    PROVE  BlockLog(SubSeq(out, 1, n))
<1> DEFINE q == SubSeq(out, 1, n)
<1>1. /\ IsSeq(q) /\ DOMAIN q = 1 .. n
      /\ \A i \in 1 .. n : i \in DOMAIN out /\ q[i] = out[i] /\ SubSeq(q, 1, i - 1) = SubSeq(out, 1, i - 1)
  BY CutLog DEF BlockLog
<1> HIDE DEF q
<1>2. ASSUME NEW i \in DOMAIN q PROVE BlockFits(SubSeq(q, 1, i - 1), q[i])
  <2>1. i \in DOMAIN out /\ q[i] = out[i] /\ SubSeq(q, 1, i - 1) = SubSeq(out, 1, i - 1)
    BY <1>1
  <2>2. BlockFits(SubSeq(out, 1, i - 1), out[i])
    BY <2>1 DEF BlockLog
  <2>3. QED
    BY <2>1, <2>2
<1>3. QED
  BY <1>1, <1>2 DEF BlockLog, q

\* An event of a block that fits.
LEMMA BlockEventsGrow ==
    ASSUME NEW out, NEW n, BlockEvents(out, n), NEW e, BlockFits(out, e), e.type \in {"added", "delta", "done"}
    PROVE  /\ n \in Nat /\ BlockEvents(Append(out, e), IF e.type = "done" THEN n + 1 ELSE n)
           /\ Count(Append(out, e), "added") = Count(out, "added") + (IF e.type = "added" THEN 1 ELSE 0)
           /\ Events(Append(out, e), "added") = Events(out, "added") \cup (IF e.type = "added" THEN {e} ELSE {})
<1>1. IsSeq(out) /\ BlockLog(Append(out, e))
  BY BlockLogGrows DEF BlockEvents, BlockLog
<1>2. Append(out, e) # <<>>
  BY <1>1, AppendLog
<1>3. /\ TypesOf(Append(out, e)) = TypesOf(out) \cup {e.type}
      /\ Events(Append(out, e), "added") = Events(out, "added") \cup (IF e.type = "added" THEN {e} ELSE {})
  BY <1>1, AppendEvents
<1>4. /\ Count(out, "done") \in Nat
      /\ Count(Append(out, e), "done") = Count(out, "done") + (IF e.type = "done" THEN 1 ELSE 0)
      /\ Count(Append(out, e), "added") = Count(out, "added") + (IF e.type = "added" THEN 1 ELSE 0)
  BY <1>1, AppendCount
<1>5. n \in Nat /\ Count(Append(out, e), "done") = IF e.type = "done" THEN n + 1 ELSE n
  BY <1>4 DEF BlockEvents
<1>6. "completed" \notin TypesOf(Append(out, e))
  BY <1>3 DEF BlockEvents
<1>7. QED
  BY <1>1, <1>2, <1>3, <1>4, <1>5, <1>6 DEF BlockEvents

LEMMA BlockStarts ==
    ASSUME NEW out, NEW n, NoneOpen(out, n), NEW e, e.type = "added", e.index = n
    PROVE  OneOpen(Append(out, e), n, e.kind)
<1>1. BlockFits(out, e) /\ BlockEvents(out, n)
  BY DEF NoneOpen, BlockEvents, BlockFits
<1>2. QED
  BY <1>1, BlockEventsGrow DEF NoneOpen, OneOpen

LEMMA BlockGoesOn ==
    ASSUME NEW out, NEW n, NEW kind, OneOpen(out, n, kind), NEW e, e.index = n, e.kind = kind
    PROVE  /\ e.type = "delta" => OneOpen(Append(out, e), n, kind)
           /\ e.type = "done" => NoneOpen(Append(out, e), n + 1)
<1>1. e.type \in {"delta", "done"} => BlockFits(out, e)
  BY DEF OneOpen, BlockEvents, BlockFits, Opened
<1>2. QED
  BY <1>1, BlockEventsGrow DEF NoneOpen, OneOpen

\* Only a start of the message goes before its blocks, and only with no block open
\* does it end.
LEMMA BlocksEnd ==
    ASSUME NEW out, NEW n, NoneOpen(out, n), NEW e, e.type = "completed"
    PROVE  BlockLog(Append(out, e))
<1>1. BlockFits(out, e) /\ BlockLog(out)
  BY DEF NoneOpen, BlockEvents, BlockFits
<1>2. QED
  BY <1>1, BlockLogGrows

LEMMA BlocksBegin ==
    ASSUME NEW e, e.type = "created"
    PROVE  NoneOpen(Append(<<>>, e), 0)
<1> DEFINE none == <<>>
           q == Append(none, e)
<1>1. IsSeq(none) /\ ToSet(none) = {} /\ DOMAIN none = {}
  BY EmptyFacts
<1>2. TypesOf(none) = {} /\ (\A type : Count(none, type) = 0) /\ none = <<>>
  <2>1. \A type : {i \in DOMAIN none : none[i].type = type} = {}
    BY <1>1
  <2>2. \A type : Count(none, type) = 0
    BY <2>1, FS_EmptySet DEF Count
  <2>3. QED
    BY <1>1, <2>2 DEF TypesOf
<1> HIDE DEF none
<1>3. BlockLog(none) /\ BlockFits(none, e)
  BY <1>1, <1>2 DEF BlockLog, BlockFits
<1>4. BlockLog(q)
  BY <1>3, BlockLogGrows
<1>5. q # <<>>
  BY <1>1, AppendLog
<1>6. TypesOf(q) = TypesOf(none) \cup {e.type}
  BY <1>1, AppendEvents
<1>7. /\ Count(q, "done") = Count(none, "done") + (IF e.type = "done" THEN 1 ELSE 0)
      /\ Count(q, "added") = Count(none, "added") + (IF e.type = "added" THEN 1 ELSE 0)
  BY <1>1, AppendCount
<1> HIDE DEF q
<1>8. Count(q, "done") = 0 /\ Count(q, "added") = 0 /\ TypesOf(q) = {"created"}
  BY <1>2, <1>6, <1>7
<1>9. NoneOpen(q, 0)
  BY <1>4, <1>5, <1>8 DEF NoneOpen, BlockEvents
<1>10. QED
  BY <1>9 DEF q, none

\* The translator between two chunks: with no block open, or with one of kind.
AllClosed(x) == IsTranslator(x) /\ Idle(x) /\ NoneOpen(x.out, x.next)
Within(x, kind) == IsTranslator(x) /\ x.active = kind /\ OneOpen(x.out, x.next, kind)
Blocks(x) == AllClosed(x) \/ Within(x, "text") \/ Within(x, "call")

LEMMA BlocksIs ==
    ASSUME NEW x, IsTranslator(x)
    PROVE  BlocksInv(x) <=> Blocks(x)
<1>1. BlockLog(x.out) <=> \A i \in DOMAIN x.out : BlockFits(SubSeq(x.out, 1, i - 1), x.out[i])
  BY DEF IsTranslator, BlockLog
<1>2. BlockEvents(x.out, x.next) <=> /\ x.out # <<>> /\ "completed" \notin TypesOf(x.out)
                                     /\ \A i \in DOMAIN x.out : BlockFits(SubSeq(x.out, 1, i - 1), x.out[i])
                                     /\ x.next = Count(x.out, "done")
  BY <1>1 DEF BlockEvents
<1> DEFINE blank == ""
<1>3. blank \notin {"text", "call"}
  OBVIOUS
<1>4. Idle(x) <=> x.active = blank
  BY DEF Idle
<1>5. BlocksInv(x) <=> /\ BlockEvents(x.out, x.next)
                       /\ IF x.active = blank THEN Count(x.out, "added") = x.next
                          ELSE /\ x.active \in {"text", "call"}
                               /\ Count(x.out, "added") = x.next + 1
                               /\ \E a \in Events(x.out, "added") : a.index = x.next /\ a.kind = x.active
  BY <1>2 DEF BlocksInv
<1> HIDE DEF blank
<1>6. CASE x.active = blank
  BY <1>3, <1>4, <1>5, <1>6 DEF Blocks, AllClosed, Within, NoneOpen, OneOpen
<1>7. CASE x.active # blank
  BY <1>3, <1>4, <1>5, <1>7 DEF Blocks, AllClosed, Within, NoneOpen, OneOpen
<1>8. QED
  BY <1>6, <1>7

LEMMA EmitWithin ==
    ASSUME NEW x, NEW kind, Within(x, kind), NEW e, e.type = "delta", e.index = x.next, e.kind = kind
    PROVE  Within(Emit(x, e), kind)
<1>1. OneOpen(Append(x.out, e), x.next, kind)
  BY BlockGoesOn DEF Within
<1>2. /\ IsTranslator(Emit(x, e)) /\ Emit(x, e).out = Append(x.out, e)
      /\ Emit(x, e).active = x.active /\ Emit(x, e).next = x.next
  BY EmitFields DEF Within
<1>3. QED
  BY <1>1, <1>2 DEF Within

LEMMA CloseBlockCloses ==
    ASSUME NEW x, Blocks(x)
    PROVE  AllClosed(CloseBlock(x))
<1>1. CASE AllClosed(x)
  <2>1. CloseBlock(x) = x
    BY <1>1 DEF AllClosed, Idle, CloseBlock
  <2>2. QED
    BY <1>1, <2>1
<1>2. ASSUME NEW kind \in {"text", "call"}, Within(x, kind) PROVE AllClosed(CloseBlock(x))
  <2> DEFINE blank == ""
             e == Event("done", x.next, kind, 0, <<>>)
             w == [x EXCEPT !.active = blank, !.next = @ + 1]
             y == CloseBlock(x)
  <2>1. kind # blank
    OBVIOUS
  <2>2. y = Emit(w, e)
    BY <1>2, <2>1 DEF CloseBlock, Within
  <2>3. Idle(x) <=> x.active = blank
    BY DEF Idle
  <2>4. \A z : z.active = blank => Idle(z)
    BY DEF Idle
  <2> HIDE DEF blank
  <2>5. /\ IsTranslator(w) /\ w.active = blank /\ w.next = x.next + 1 /\ w.out = x.out
    BY <1>2 DEF Within, IsTranslator
  <2>6. e.type = "done" /\ e.index = x.next /\ e.kind = kind
    BY EventIs
  <2> HIDE DEF e, w
  <2>7. NoneOpen(Append(x.out, e), x.next + 1)
    BY <1>2, <2>6, BlockGoesOn DEF Within
  <2>8. /\ IsTranslator(Emit(w, e)) /\ Emit(w, e).out = Append(w.out, e)
        /\ Emit(w, e).active = w.active /\ Emit(w, e).next = w.next
    BY <2>5, EmitFields
  <2>9. QED
    BY <2>2, <2>4, <2>5, <2>7, <2>8 DEF AllClosed
<1>3. QED
  BY <1>1, <1>2 DEF Blocks

LEMMA StartBlockOpens ==
    ASSUME NEW x, Blocks(x), NEW kind, NEW call
    PROVE  Within(StartBlock(x, kind, call), kind)
<1> DEFINE s == CloseBlock(x)
           w == [s EXCEPT !.active = kind]
           e == Event("added", s.next, kind, call, <<>>)
           y == StartBlock(x, kind, call)
<1>1. y = Emit(w, e)
  BY DEF StartBlock
<1>2. IsTranslator(s) /\ NoneOpen(s.out, s.next)
  BY CloseBlockCloses DEF AllClosed
<1> HIDE DEF s
<1>3. IsTranslator(w) /\ w.active = kind /\ w.next = s.next /\ w.out = s.out
  BY <1>2 DEF IsTranslator
<1>4. e.type = "added" /\ e.index = s.next /\ e.kind = kind
  BY EventIs
<1> HIDE DEF e, w
<1>5. OneOpen(Append(s.out, e), s.next, kind)
  <2>1. OneOpen(Append(s.out, e), s.next, e.kind)
    BY <1>2, <1>4, BlockStarts
  <2>2. QED
    BY <1>4, <2>1
<1>6. /\ IsTranslator(Emit(w, e)) /\ Emit(w, e).out = Append(w.out, e)
      /\ Emit(w, e).active = w.active /\ Emit(w, e).next = w.next
  BY <1>3, EmitFields
<1>7. QED
  BY <1>1, <1>3, <1>5, <1>6 DEF Within

\* A piece of arguments without the name of its call needs the block of the call.
LEMMA ProcessBlocks ==
    ASSUME NEW x, Blocks(x), NEW c, c.kind = "tool" /\ c.call = 0 => x.active = "call"
    PROVE  LET y == Process("messages", x, c)
           IN  /\ Blocks(y)
               /\ c.kind = "tool" => y.active = "call"
               /\ c.kind \notin {"text", "tool"} => y = x
<1> DEFINE y == Process("messages", x, c)
           text == IF x.active = "text" THEN x ELSE StartBlock(x, "text", 0)
           call == IF c.call # 0 THEN StartBlock(x, "call", c.call) ELSE x
           e == Event("delta", text.next, "text", 0, c.data)
           f == Event("delta", call.next, "call", 0, c.data)
<1>1. y = ProcessChatChunkToClaude(x, c)
  BY DEF Process
<1>2. CASE c.kind = "text"
  <2>1. y = Emit(text, e)
    BY <1>1, <1>2 DEF ProcessChatChunkToClaude
  <2>2. Within(text, "text")
    <3>1. x.active = "text" => Within(x, "text")
      BY DEF Blocks, AllClosed, Within, Idle
    <3>2. QED
      BY <3>1, StartBlockOpens
  <2>3. e.type = "delta" /\ e.index = text.next /\ e.kind = "text"
    BY EventIs
  <2> HIDE DEF text, e
  <2>4. Within(Emit(text, e), "text")
    BY <2>2, <2>3, EmitWithin
  <2>5. QED
    BY <1>2, <2>1, <2>4 DEF Blocks
<1>3. CASE c.kind = "tool"
  <2>1. y = IF c.data = <<>> THEN call ELSE Emit(call, f)
    BY <1>1, <1>3 DEF ProcessChatChunkToClaude
  <2>2. Within(call, "call")
    <3>1. x.active = "call" => Within(x, "call")
      BY DEF Blocks, AllClosed, Within, Idle
    <3>2. QED
      BY <1>3, <3>1, StartBlockOpens
  <2>3. f.type = "delta" /\ f.index = call.next /\ f.kind = "call"
    BY EventIs
  <2> HIDE DEF call, f
  <2>4. Within(Emit(call, f), "call")
    BY <2>2, <2>3, EmitWithin
  <2>5. Within(y, "call")
    BY <2>1, <2>2, <2>4
  <2>6. QED
    BY <1>3, <2>5 DEF Blocks, Within
<1>4. CASE c.kind \notin {"text", "tool"}
  BY <1>1, <1>4 DEF ProcessChatChunkToClaude
<1>5. QED
  BY <1>2, <1>3, <1>4

LEMMA StopBlocks ==
    ASSUME NEW x, Blocks(x)
    PROVE  IsTranslator(ClaudeStop(x)) /\ BlockLog(ClaudeStop(x).out)
<1> DEFINE s == CloseBlock(x)
           blank == ""
           e == Event("completed", 0, blank, 0, <<>>)
<1>1. ClaudeStop(x) = Emit(s, e)
  BY DEF ClaudeStop
<1> HIDE DEF blank
<1>2. IsTranslator(s) /\ NoneOpen(s.out, s.next)
  BY CloseBlockCloses DEF AllClosed
<1>3. e.type = "completed"
  BY EventIs
<1> HIDE DEF s, e
<1>4. BlockLog(Append(s.out, e))
  BY <1>2, <1>3, BlocksEnd
<1>5. IsTranslator(Emit(s, e)) /\ Emit(s, e).out = Append(s.out, e)
  BY <1>2, EmitFields
<1>6. QED
  BY <1>1, <1>4, <1>5

-----------------------------------------------------------------------------
(* What is in the pipe to a Claude target. *)

Named(p) == \A c \in ToSet(p) : c.kind = "tool" => c.call # 0

LEMMA NamedOne ==
    ASSUME NEW c, c.kind = "tool" => c.call # 0
    PROVE  Named(<<c>>)
<1>1. ToSet(<<c>>) = {c}
  BY OneSeq
<1>2. QED
  BY <1>1 DEF Named

LEMMA EndKinds ==
    /\ FinishChunk.kind = "finish" /\ DoneChunk.kind = "done" /\ BadChunk.kind = "malformed"
  BY DEF FinishChunk, DoneChunk, BadChunk, Chunk

LEMMA NamedEnds ==
    ASSUME source \in Protocols
    PROVE  Named(<<>>) /\ Named(ClosingChunks(source))
<1>1. <<FinishChunk, DoneChunk>> \in Seq({FinishChunk, DoneChunk})
  OBVIOUS
<1>2. ToSet(<<FinishChunk, DoneChunk>>) \subseteq {FinishChunk, DoneChunk}
  BY <1>1, SeqFacts
<1>3. Named(<<FinishChunk, DoneChunk>>)
  BY <1>2, EndKinds DEF Named
<1>4. Named(<<>>)
  BY EmptyFacts DEF Named
<1>5. Named(<<DoneChunk>>)
  BY EndKinds, NamedOne
<1>6. QED
  BY <1>3, <1>4, <1>5, ClosingEnds

LEMMA LastFragment ==
    ASSUME NEW r, Answer(r), r # <<>>
    PROVE  /\ Len(r) \in DOMAIN r /\ r[Len(r)] \in Fragments
           /\ r[Len(r)].kind \in {"call", "args"} => r[Len(r)].call # 0
<1>1. Len(r) \in Nat /\ DOMAIN r = 1 .. Len(r)
  BY AnswerFacts
<1>2. Len(r) # 0
  BY EmptySeq DEF Answer
<1>3. Len(r) \in DOMAIN r
  BY <1>1, <1>2
<1>4. r[Len(r)] \in Fragments
  BY <1>3, AnswerFacts
<1>5. QED
  BY <1>3, <1>4 DEF Answer

\* Gemini and Responses sources name the call in each of its chunks.
LEMMA NamedFragments ==
    ASSUME NEW r, Answer(r), r # <<>>, source \in {"generateContent", "responses"}
    PROVE  Named(FragmentChunks(source, r, held))
<1> DEFINE n == Len(r)
           f == r[n]
           p == FragmentChunks(source, r, held)
<1>1. f \in Fragments /\ (f.kind \in {"call", "args"} => f.call # 0)
  BY LastFragment
<1> HIDE DEF f, n
<1>2. \A index, data : f.kind \in {"call", "args"} => Named(<<Chunk("tool", index, f.call, data)>>)
  BY <1>1, ChunkIs, NamedOne
<1>3. \A kind, data : kind # "tool" => Named(<<TextChunk(kind, data)>>)
  BY ChunkIs, NamedOne DEF TextChunk
<1>4. f.kind # "tool"
  BY <1>1 DEF Fragments, FragmentKinds
<1>5. CASE source = "generateContent"
  <2>1. p = GeminiChunks(r)
    BY <1>5 DEF FragmentChunks
  <2>2. QED
    BY <1>2, <1>3, <1>4, <2>1 DEF GeminiChunks, f, n
<1>6. CASE source = "responses"
  <2>1. p = ResponsesChunks(r, held)
    BY <1>6 DEF FragmentChunks
  <2>2. CASE Held(r, held, n)
    <3>1. p = <<>>
      BY <2>1, <2>2 DEF ResponsesChunks, n
    <3>2. QED
      BY <3>1, EmptyFacts DEF Named
  <2>3. CASE ~Held(r, held, n)
    <3>1. p = CASE f.kind = "call" -> <<Chunk("tool", ItemIndex(r, f.call), f.call, <<>>)>>
                [] f.kind = "args" -> <<Chunk("tool", ItemIndex(r, f.call), f.call, <<n>>)>>
                [] OTHER -> <<TextChunk(f.kind, <<n>>)>>
      BY <2>1, <2>3 DEF ResponsesChunks, f, n
    <3>2. QED
      BY <1>2, <1>3, <1>4, <3>1
  <2>4. QED
    BY <2>2, <2>3
<1>7. QED
  BY <1>5, <1>6

LEMMA NamedSnapshot ==
    ASSUME NEW r, Answer(r)
    PROVE  Named(SnapshotChunks(r, held))
<1> DEFINE N == Cardinality(CallsIn(r))
           some == {c \in 1 .. N : ~EmittedToolCall(r, held, c)}
           missing == Ascending(some)
           tools == [k \in DOMAIN missing |-> Chunk("tool", missing[k] - 1, missing[k], Salvage(ArgsOf(r, missing[k])))]
           a == SnapshotText(r, held, "reasoning")
           b == SnapshotText(r, held, "text")
<1>1. /\ SnapshotChunks(r, held) = (a \o b) \o tools
      /\ missing \in Seq(some) /\ some \in SUBSET (1 .. N) /\ N \in Nat /\ IsSeq(tools)
  BY SnapshotCalls
<1>2. ASSUME NEW kind \in {"text", "reasoning"}
      PROVE  LET p == SnapshotText(r, held, kind) IN IsSeq(p) /\ Named(p)
  <2> DEFINE c == TextChunk(kind, OfKind(r, kind))
  <2>1. c.kind # "tool"
    BY ChunkIs DEF TextChunk
  <2>2. SnapshotText(r, held, kind) \in {<<>>, <<c>>}
    BY DEF SnapshotText
  <2> HIDE DEF c
  <2>3. IsSeq(<<>>) /\ Named(<<>>)
    BY EmptyFacts DEF Named
  <2>4. IsSeq(<<c>>) /\ Named(<<c>>)
    BY <2>1, OneSeq, NamedOne
  <2>5. QED
    BY <2>2, <2>3, <2>4
<1>3. Named(tools)
  <2>1. \A k \in DOMAIN missing : missing[k] \in some
    BY <1>1, ElementOfSeq, LenProperties
  <2>2. \A c \in some : c # 0
    BY <1>1
  <2> HIDE DEF missing, some
  <2>3. \A k \in DOMAIN tools : tools[k].call # 0
    BY <2>1, <2>2, ChunkIs
  <2> HIDE DEF tools
  <2>4. QED
    BY <2>3 DEF Named, ToSet
<1> HIDE DEF a, b, tools
<1>4. IsSeq(a) /\ Named(a) /\ IsSeq(b) /\ Named(b)
  BY <1>2 DEF a, b
<1>5. IsSeq(a \o b) /\ Named(a \o b)
  BY <1>4, ConcatSeq DEF Named
<1>6. Named((a \o b) \o tools)
  BY <1>1, <1>3, <1>5, ConcatSeq DEF Named
<1>7. QED
  BY <1>1, <1>6

\* A Chat upstream's chunk for its last fragment.
LEMMA ChatChunkIs ==
    ASSUME NEW r, Answer(r), r # <<>>
    PROVE  LET kind == r[Len(r)].kind
           IN  \E c : /\ ChatChunks(r) = <<c>>
                      /\ c.kind = "tool" <=> kind \in {"call", "args"}
                      /\ c.kind = "tool" /\ c.call = 0 => kind = "args"
<1> DEFINE n == Len(r)
           f == r[n]
<1>1. f \in Fragments /\ (f.kind = "call" => f.call # 0)
  BY LastFragment
<1>2. ChatChunks(r) = CASE f.kind = "call" -> <<Chunk("tool", f.call - 1, f.call, <<>>)>>
                        [] f.kind = "args" -> <<Chunk("tool", f.call - 1, 0, <<n>>)>>
                        [] OTHER -> <<TextChunk(f.kind, <<n>>)>>
  BY DEF ChatChunks
<1>3. f.kind # "tool"
  BY <1>1 DEF Fragments, FragmentKinds
<1> HIDE DEF f, n
<1>4. CASE f.kind = "call"
  <2> DEFINE c == Chunk("tool", f.call - 1, f.call, <<>>)
  <2>1. ChatChunks(r) = <<c>>
    BY <1>2, <1>4
  <2>2. c.kind = "tool" /\ c.call # 0
    BY <1>1, <1>4, ChunkIs
  <2> HIDE DEF c
  <2>3. QED
    BY <1>4, <2>1, <2>2 DEF f, n
<1>5. CASE f.kind = "args"
  <2> DEFINE c == Chunk("tool", f.call - 1, 0, <<n>>)
  <2>1. ChatChunks(r) = <<c>>
    BY <1>2, <1>5
  <2>2. c.kind = "tool" /\ c.call = 0
    BY ChunkIs
  <2> HIDE DEF c
  <2>3. QED
    BY <1>5, <2>1, <2>2 DEF f, n
<1>6. CASE f.kind \notin {"call", "args"}
  <2> DEFINE c == TextChunk(f.kind, <<n>>)
  <2>1. ChatChunks(r) = <<c>>
    BY <1>2, <1>6
  <2>2. c.kind # "tool"
    BY <1>3, ChunkIs DEF TextChunk
  <2> HIDE DEF c
  <2>3. QED
    BY <1>6, <2>1, <2>2 DEF f, n
<1>7. QED
  BY <1>4, <1>5, <1>6

\* A longer answer that keeps the pieces of a call together did so before.
LEMMA SequentialPast ==
    ASSUME read \in Seq(Fragments), NEW f, read' = Append(read, f), read' \in Seq(Fragments), Sequential'
    PROVE  /\ Sequential
           /\ f.kind = "args" => read # <<>> /\ LastKind \in {"call", "args"}
<1> DEFINE n == Len(read)
<1>1. n \in Nat /\ DOMAIN read = 1 .. n /\ DOMAIN read' = 1 .. n + 1
      /\ (\A i \in 1 .. n : read'[i] = read[i]) /\ read'[n + 1] = f
  <2>1. n \in Nat /\ DOMAIN read = 1 .. n /\ read \in Seq(Fragments \cup {f})
    BY LenProperties, SeqMonotonic
  <2>2. QED
    BY <2>1, AppendProperties, LenProperties
<1>2. ASSUME NEW i \in 1 .. n + 1, read'[i].kind = "args"
      PROVE  \E j \in 1 .. (i - 1) : /\ read'[j] = Fragment("call", read'[i].call)
                                     /\ \A k \in (j + 1) .. i : read'[k].kind = "args"
  BY <1>1, <1>2 DEF Sequential
<1> HIDE DEF n
<1>3. ASSUME NEW i \in 1 .. n, read[i].kind = "args"
      PROVE  \E j \in 1 .. (i - 1) : /\ read[j] = Fragment("call", read[i].call)
                                     /\ \A k \in (j + 1) .. i : read[k].kind = "args"
  <2>1. i \in 1 .. n + 1 /\ read'[i] = read[i]
    BY <1>1
  <2>2. PICK j \in 1 .. (i - 1) : /\ read'[j] = Fragment("call", read'[i].call)
                                  /\ \A k \in (j + 1) .. i : read'[k].kind = "args"
    BY <1>2, <1>3, <2>1
  <2>3. j \in 1 .. n /\ \A k \in (j + 1) .. i : k \in 1 .. n
    BY <1>1
  <2>4. QED
    BY <1>1, <2>1, <2>2, <2>3
<1>4. ASSUME f.kind = "args" PROVE n # 0 /\ read[n].kind \in {"call", "args"}
  <2>1. n + 1 \in 1 .. n + 1 /\ (n + 1) - 1 = n
    BY <1>1
  <2>2. PICK j \in 1 .. n : /\ read'[j] = Fragment("call", f.call)
                            /\ \A k \in (j + 1) .. n + 1 : read'[k].kind = "args"
    BY <1>1, <1>2, <1>4, <2>1
  <2>3. n # 0 /\ n \in 1 .. n
    BY <1>1
  <2>4. j = n \/ n \in (j + 1) .. n + 1
    BY <1>1
  <2>5. QED
    BY <1>1, <2>2, <2>3, <2>4, FragmentFields
<1>5. QED
  BY <1>1, <1>3, <1>4 DEF Sequential, LastKind, n

-----------------------------------------------------------------------------
(* The steps of a Claude target and of its sources. *)

\* BlocksStreamInv but for TypeInv.
BlocksHold ==
    target = "messages" =>
        /\ Sequential => BlockLog(t.out)
        /\ tgt = "starting" => t = NewTranslator
        /\ IF source = "chat" THEN ChatPipe ELSE NamesItsCalls
        /\ tgt = "running" /\ Sequential => Blocks(t) /\ (source = "chat" => CallIsOpen)

LEMMA BlocksHoldIs ==
    ASSUME IInv
    PROVE  BlocksHold <=>
             /\ BlocksWellFormed
             /\ target = "messages" =>
                  /\ tgt = "starting" => t = NewTranslator
                  /\ IF source = "chat" THEN ChatPipe ELSE NamesItsCalls
                  /\ tgt = "running" /\ Sequential => BlocksInv(t) /\ (source = "chat" => CallIsOpen)
<1>1. IsTranslator(t) /\ IsSeq(t.out)
  BY DEF IInv, Shape, IsTranslator
<1>2. BlocksInv(t) <=> Blocks(t)
  BY <1>1, BlocksIs
<1>3. (target = "messages" /\ Sequential => BlockLog(t.out)) <=> BlocksWellFormed
  BY <1>1 DEF BlockLog, BlocksWellFormed, Before, Out
<1>4. QED
  BY <1>2, <1>3 DEF BlocksHold

LEMMA BlocksHoldIsNext ==
    (IInv => (BlocksHold <=>
             /\ BlocksWellFormed
             /\ target = "messages" =>
                  /\ tgt = "starting" => t = NewTranslator
                  /\ IF source = "chat" THEN ChatPipe ELSE NamesItsCalls
                  /\ tgt = "running" /\ Sequential => BlocksInv(t) /\ (source = "chat" => CallIsOpen)))'
  BY BlocksHoldIs, PTL

\* Reading: a piece of a call comes while the call's block is open.
LEMMA ReadFragmentBlocks ==
    ASSUME Shape, TypeParts, TypeParts', BlocksHold, target = "messages", ReadFragment
    PROVE  BlocksHold'
<1>1. PICK f \in NextFragments : read' = Append(read, f) /\ pending' = FragmentChunks(source, read', held)
  BY DEF ReadFragment
<1>2. UNCHANGED <<source, target, t, tgt>> /\ pending = <<>> /\ (source = "chat" => tgt = "running")
  BY DEF ReadFragment, MayRead, targetVars, fixed
<1>3. Answer(read') /\ read \in Seq(Fragments) /\ f \in Fragments
  BY NextAreFragments DEF TypeParts, Shape, Fragments
<1>4. read' \in Seq(Fragments) /\ read' # <<>> /\ read'[Len(read')] = f
  <2>1. Append(read, f) \in Seq(Fragments) /\ Len(read) \in Nat /\ Len(Append(read, f)) = Len(read) + 1
        /\ Append(read, f)[Len(read) + 1] = f
    BY <1>3, AppendProperties, LenProperties
  <2>2. Append(read, f) # <<>>
    BY <2>1, EmptySeq
  <2>3. QED
    BY <1>1, <2>1, <2>2
<1>5. Sequential' => Sequential /\ (f.kind = "args" => read # <<>> /\ LastKind \in {"call", "args"})
  BY <1>1, <1>3, <1>4, SequentialPast
<1>6. CASE source = "chat"
  <2>1. pending' = ChatChunks(read')
    BY <1>1, <1>6 DEF FragmentChunks
  <2>2. ChatPipe'
    BY <1>2, <1>4, <1>6, <2>1 DEF ChatPipe
  <2>3. ASSUME Sequential' PROVE CallIsOpen'
    <3>1. LastKind' = f.kind
      BY <1>4 DEF LastKind
    <3>2. CASE f.kind = "args"
      <4>1. CallIsOpen /\ read # <<>> /\ LastKind \in {"call", "args"}
        BY <1>2, <1>5, <1>6, <2>3, <3>2 DEF BlocksHold
      <4>2. pending # ChatChunks(read)
        <5>1. Answer(read)
          BY DEF TypeParts
        <5>2. \E c : ChatChunks(read) = <<c>>
          BY <4>1, <5>1, ChatChunkIs
        <5>3. QED
          BY <1>2, <5>2
      <4>3. QED
        BY <1>2, <4>1, <4>2 DEF CallIsOpen
    <3>3. CASE f.kind # "args"
      BY <2>1, <3>1, <3>3 DEF CallIsOpen
    <3>4. QED
      BY <3>2, <3>3
  <2>4. QED
    BY <1>2, <1>5, <1>6, <2>2, <2>3 DEF BlocksHold
<1>7. CASE source # "chat"
  <2>1. source \in {"generateContent", "responses"}
    BY <1>7 DEF Shape, Protocols
  <2>2. NamesItsCalls'
    BY <1>1, <1>3, <1>4, <2>1, NamedFragments DEF Named, NamesItsCalls
  <2>3. QED
    BY <1>2, <1>5, <1>7, <2>2 DEF BlocksHold
<1>8. QED
  BY <1>6, <1>7

\* The other steps of a source leave the answer, or its last chunk, as they are.
LEMMA SourceBlocks ==
    ASSUME Shape, SourceInv, TypeParts, TypeParts', BlocksHold, Source
    PROVE  BlocksHold'
<1>1. UNCHANGED <<source, target, t, tgt>> /\ source \in Protocols /\ Answer(read)
  BY DEF Source, Reading, ReadFragment, ReadTerminal, ReadDone, ReadEnd, ReadError, ReadMalformed,
         SourceReturns, SourceWriteFails, targetVars, fixed, Shape, TypeParts
<1>2. SUFFICES ASSUME target = "messages" PROVE BlocksHold'
  BY <1>1 DEF BlocksHold
<1>3. CASE ReadFragment
  BY <1>2, <1>3, ReadFragmentBlocks
<1>4. CASE source = "chat" /\ ~ReadFragment
  <2>1. read' = read /\ \/ pending' = pending
                        \/ pending = <<>> /\ pending' \in {<<>>, <<FinishChunk>>, <<DoneChunk>>, <<BadChunk>>}
    <3>1. ClosingChunks(source) = <<>> /\ TerminalChunks(source, read, held) = <<FinishChunk>>
      BY <1>4 DEF ClosingChunks, TerminalChunks
    <3>2. QED
      BY <1>4, <3>1 DEF Source, Reading, ReadTerminal, ReadDone, ReadEnd, ReadError, ReadMalformed,
                        MayRead, SourceReturns, SourceWriteFails, sourceVars
  <2>2. ChatPipe'
    BY <1>1, <1>2, <1>4, <2>1 DEF BlocksHold, ChatPipe
  <2>3. LastKind' = LastKind /\ (Sequential' <=> Sequential)
    BY <2>1 DEF LastKind, Sequential
  <2>4. CallIsOpen => CallIsOpen'
    <3>1. read # <<>> => ChatChunks(read) # <<>>
      <4>1. read # <<>> => \E c : ChatChunks(read) = <<c>>
        BY <1>1, ChatChunkIs
      <4>2. QED
        BY <4>1
    <3>2. QED
      BY <1>1, <2>1, <2>3, <3>1 DEF CallIsOpen
  <2>5. QED
    BY <1>1, <1>2, <1>4, <2>2, <2>3, <2>4 DEF BlocksHold
<1>5. CASE source # "chat" /\ ~ReadFragment
  <2>1. /\ read' = read
        /\ \/ pending' = pending
           \/ pending # <<>> /\ pending' = Tail(pending)
           \/ pending' \in {<<>>, ClosingChunks(source), TerminalChunks(source, read, held)}
    BY <1>5 DEF Source, Reading, ReadTerminal, ReadDone, ReadEnd, ReadError, ReadMalformed,
                SourceReturns, SourceWriteFails, sourceVars
  <2>2. TerminalChunks(source, read, held) \in {<<>>, SnapshotChunks(read, held)}
    BY <1>1, <1>5 DEF TerminalChunks, Protocols
  <2>3. Named(pending) /\ IsSeq(pending)
    BY <1>2, <1>5, PendingSeq DEF BlocksHold, NamesItsCalls, Named
  <2>4. pending # <<>> => Named(Tail(pending))
    BY <2>3, HeadTailSeq DEF Named
  <2>5. Named(pending')
    BY <1>1, <2>1, <2>2, <2>3, <2>4, NamedEnds, NamedSnapshot
  <2>6. NamesItsCalls'
    BY <2>5 DEF Named, NamesItsCalls
  <2>7. Sequential' <=> Sequential
    BY <2>1 DEF Sequential
  <2>8. QED
    BY <1>1, <1>2, <1>5, <2>6, <2>7 DEF BlocksHold
<1>6. QED
  BY <1>3, <1>4, <1>5

LEMMA WriteBlocks ==
    ASSUME IsTranslator(t), NEW new, IsTranslator(new), BlockLog(new.out), NEW result, Write(new, result)
    PROVE  BlockLog(t'.out) /\ ((t' = new /\ tgt' = result) \/ tgt' = "failed")
<1>1. \/ t' = new /\ tgt' = result
      \/ /\ tgt' = "failed"
         /\ \E n \in Nat : n < Len(new.out) /\ t' = [new EXCEPT !.out = SubSeq(@, 1, n)]
  BY WriteCases
<1>2. ASSUME NEW n \in Nat, n < Len(new.out), t' = [new EXCEPT !.out = SubSeq(@, 1, n)]
      PROVE  BlockLog(t'.out)
  <2>1. t'.out = SubSeq(new.out, 1, n)
    BY <1>2 DEF IsTranslator
  <2>2. n <= Len(new.out)
    <3>1. Len(new.out) \in Nat
      BY SeqFacts DEF BlockLog, IsSeq
    <3>2. QED
      BY <1>2, <3>1
  <2>3. BlockLog(SubSeq(new.out, 1, n))
    BY <2>2, BlockLogCut
  <2>4. QED
    BY <2>1, <2>3
<1>3. QED
  BY <1>1, <1>2

\* A step of the target that writes new, while the answer is as it was.
LEMMA WritingBlocks ==
    ASSUME IsTranslator(t), UNCHANGED <<source, target, read>>, NEW new, NEW result, Write(new, result),
           result # "starting",
           IF source = "chat"
           THEN \/ pending' \in {<<>>, <<FinishChunk>>, <<DoneChunk>>, <<BadChunk>>}
                \/ read' # <<>> /\ pending' = ChatChunks(read')
           ELSE NamesItsCalls',
           Sequential => IsTranslator(new) /\ BlockLog(new.out),
           Sequential /\ result = "running" => Blocks(new),
           Sequential /\ result = "running" /\ source = "chat" /\ t' = new => CallIsOpen'
    PROVE  BlocksHold'
<1>1. Sequential' <=> Sequential
  BY DEF Sequential
<1>2. tgt' \in {result, "failed"}
  BY DEF Write
<1>3. IF source' = "chat" THEN ChatPipe' ELSE NamesItsCalls'
  BY <1>2 DEF ChatPipe
<1>4. CASE Sequential
  <2>1. BlockLog(t'.out) /\ ((t' = new /\ tgt' = result) \/ tgt' = "failed")
    BY <1>4, WriteBlocks
  <2>2. QED
    BY <1>2, <1>3, <1>4, <2>1 DEF BlocksHold
<1>5. CASE ~Sequential
  BY <1>1, <1>2, <1>3, <1>5 DEF BlocksHold
<1>6. QED
  BY <1>4, <1>5

\* Taking a chunk from the pipe.
LEMMA TakenPipe ==
    ASSUME SourceInv, TypeParts, BlocksHold, target = "messages", pending # <<>>, pending' = Tail(pending),
           UNCHANGED read, source \in Protocols
    PROVE  /\ IF source = "chat" THEN pending' = <<>> ELSE NamesItsCalls'
           /\ source # "chat" => LET c == Head(pending) IN c.kind = "tool" => c.call # 0
           /\ source = "chat" =>
                \/ /\ Head(pending).kind \in {"finish", "done", "malformed"}
                   /\ read # <<>> => pending # ChatChunks(read)
                \/ /\ read # <<>> /\ pending = ChatChunks(read)
                   /\ Head(pending).kind = "tool" <=> LastKind \in {"call", "args"}
                   /\ Head(pending).kind = "tool" /\ Head(pending).call = 0 => LastKind = "args"
<1>1. IsSeq(pending) /\ Answer(read)
  BY PendingSeq DEF TypeParts
<1>2. CASE source # "chat"
  <2>1. Named(pending)
    BY <1>2 DEF BlocksHold, NamesItsCalls, Named
  <2>2. Head(pending) \in ToSet(pending) /\ ToSet(Tail(pending)) \subseteq ToSet(pending)
    BY <1>1, HeadTailSeq
  <2>3. QED
    BY <1>2, <2>1, <2>2 DEF Named, NamesItsCalls
<1>3. CASE source = "chat"
  <2>1. \/ pending \in {<<FinishChunk>>, <<DoneChunk>>, <<BadChunk>>}
        \/ read # <<>> /\ pending = ChatChunks(read)
    BY <1>3 DEF BlocksHold, ChatPipe
  <2>2. \A c : Head(<<c>>) = c /\ Tail(<<c>>) = <<>>
    OBVIOUS
  <2>3. CASE read # <<>> /\ pending = ChatChunks(read)
    <3>1. PICK c : /\ ChatChunks(read) = <<c>>
                   /\ c.kind = "tool" <=> LastKind \in {"call", "args"}
                   /\ c.kind = "tool" /\ c.call = 0 => LastKind = "args"
      BY <1>1, <2>3, ChatChunkIs DEF LastKind
    <3>2. Head(pending) = c /\ pending' = <<>>
      BY <2>2, <2>3, <3>1
    <3>3. QED
      BY <1>3, <2>3, <3>1, <3>2
  <2>4. CASE pending # ChatChunks(read) /\ pending \in {<<FinishChunk>>, <<DoneChunk>>, <<BadChunk>>}
    <3>1. \A c : pending = <<c>> => Head(pending) = c /\ pending' = <<>>
      BY <2>2
    <3>2. QED
      BY <1>3, <2>4, <3>1, EndKinds
  <2>5. CASE read = <<>> /\ pending \in {<<FinishChunk>>, <<DoneChunk>>, <<BadChunk>>}
    <3>1. \A c : pending = <<c>> => Head(pending) = c /\ pending' = <<>>
      BY <2>2
    <3>2. QED
      BY <1>3, <2>5, <3>1, EndKinds
  <2>6. QED
    BY <2>1, <2>3, <2>4, <2>5
<1>4. QED
  BY <1>2, <1>3

LEMMA EndingBlocks ==
    ASSUME Shape, SourceInv, TypeParts, BlocksHold, target = "messages", tgt = "running",
           UNCHANGED <<source, target, read>>,
           pending' = pending \/ (pending # <<>> /\ pending' = Tail(pending)),
           Write(Complete(target, t), "ok") \/ Write(Abandon(target, t), "failed")
    PROVE  BlocksHold'
<1>1. IsTranslator(t) /\ source \in Protocols
  BY DEF Shape
<1>2. Complete(target, t) = ClaudeStop(t) /\ Abandon(target, t) = t
  BY DEF Complete, Abandon
<1>3. IF source = "chat"
      THEN \/ pending' \in {<<>>, <<FinishChunk>>, <<DoneChunk>>, <<BadChunk>>}
           \/ read' # <<>> /\ pending' = ChatChunks(read')
      ELSE NamesItsCalls'
  <2>1. CASE pending' = pending
    BY <2>1 DEF BlocksHold, ChatPipe, NamesItsCalls
  <2>2. CASE pending # <<>> /\ pending' = Tail(pending)
    BY <1>1, <2>2, TakenPipe
  <2>3. QED
    BY <2>1, <2>2
<1>4. Sequential => Blocks(t) /\ BlockLog(t.out)
  BY DEF BlocksHold
<1>5. Sequential => IsTranslator(ClaudeStop(t)) /\ BlockLog(ClaudeStop(t).out)
  BY <1>4, StopBlocks
<1>6. CASE Write(Complete(target, t), "ok")
  <2> DEFINE new == Complete(target, t)
  <2>1. Write(new, "ok") /\ (Sequential => IsTranslator(new) /\ BlockLog(new.out))
    BY <1>2, <1>5, <1>6
  <2> HIDE DEF new
  <2>2. QED
    BY <1>1, <1>3, <2>1, WritingBlocks
<1>7. CASE Write(Abandon(target, t), "failed")
  <2> DEFINE new == Abandon(target, t)
  <2>1. Write(new, "failed") /\ (Sequential => IsTranslator(new) /\ BlockLog(new.out))
    BY <1>1, <1>2, <1>4, <1>7
  <2> HIDE DEF new
  <2>2. QED
    BY <1>1, <1>3, <2>1, WritingBlocks
<1>8. QED
  BY <1>6, <1>7

LEMMA BeginBlocks ==
    ASSUME IsTranslator(NewTranslator)
    PROVE  LET x == Begin("messages", NewTranslator) IN AllClosed(x) /\ BlockLog(x.out)
<1> DEFINE x == NewTranslator
           blank == ""
           e == Event("created", 0, blank, 0, <<>>)
           y == Begin("messages", x)
<1>1. y = Emit(x, e)
  BY DEF Begin
<1>2. Idle(x) /\ x.next = 0 /\ x.out = <<>>
  BY DEF NewTranslator, Idle
<1>3. \A z : z.active = x.active => Idle(z)
  BY <1>2 DEF Idle
<1> HIDE DEF blank
<1>4. e.type = "created"
  BY EventIs
<1> HIDE DEF x, e, y
<1>5. /\ IsTranslator(Emit(x, e)) /\ Emit(x, e).out = Append(x.out, e)
      /\ Emit(x, e).active = x.active /\ Emit(x, e).next = x.next
  BY EmitFields DEF x
<1>6. NoneOpen(Append(<<>>, e), 0)
  BY <1>4, BlocksBegin
<1>7. AllClosed(y)
  BY <1>1, <1>2, <1>3, <1>5, <1>6 DEF AllClosed
<1>8. QED
  BY <1>7 DEF AllClosed, NoneOpen, BlockEvents, x, y

LEMMA BlocksLog ==
    ASSUME NEW x, Blocks(x)
    PROVE  IsTranslator(x) /\ BlockLog(x.out)
  BY DEF Blocks, AllClosed, Within, NoneOpen, OneOpen, BlockEvents

LEMMA TakeChunkBlocks ==
    ASSUME Shape, SourceInv, TypeParts, BlocksHold, target = "messages", TakeChunk
    PROVE  BlocksHold'
<1> DEFINE c == Head(pending)
           new == Process(target, t, c)
<1>1. IsTranslator(t) /\ source \in Protocols
  BY DEF Shape
<1>2. UNCHANGED <<source, target, read>> /\ tgt = "running" /\ pending # <<>> /\ pending' = Tail(pending)
  BY DEF TakeChunk, sourceVars, fixed
<1>3. \/ Write(Complete(target, t), "ok") \/ Write(Abandon(target, t), "failed")
      \/ Write(new, "running")
  BY DEF TakeChunk
<1>4. CASE Write(new, "running")
  <2>1. /\ IF source = "chat" THEN pending' = <<>> ELSE NamesItsCalls'
        /\ source # "chat" => (c.kind = "tool" => c.call # 0)
        /\ source = "chat" =>
             \/ /\ c.kind \in {"finish", "done", "malformed"}
                /\ read # <<>> => pending # ChatChunks(read)
             \/ /\ read # <<>> /\ pending = ChatChunks(read)
                /\ c.kind = "tool" <=> LastKind \in {"call", "args"}
                /\ c.kind = "tool" /\ c.call = 0 => LastKind = "args"
    BY <1>1, <1>2, TakenPipe
  <2>2. Sequential => Blocks(t) /\ (source = "chat" => CallIsOpen)
    BY <1>2 DEF BlocksHold
  <2> HIDE DEF c
  <2>3. Sequential => (c.kind = "tool" /\ c.call = 0 => t.active = "call")
    <3>1. SUFFICES ASSUME Sequential, c.kind = "tool", c.call = 0 PROVE t.active = "call"
      OBVIOUS
    <3>2. source = "chat" /\ read # <<>> /\ LastKind = "args"
      BY <2>1, <3>1
    <3>3. QED
      BY <2>2, <3>1, <3>2 DEF CallIsOpen
  <2>4. Sequential => /\ Blocks(new)
                      /\ c.kind = "tool" => new.active = "call"
                      /\ c.kind \notin {"text", "tool"} => new = t
    <3>1. SUFFICES ASSUME Sequential PROVE /\ Blocks(new)
                                           /\ c.kind = "tool" => new.active = "call"
                                           /\ c.kind \notin {"text", "tool"} => new = t
      OBVIOUS
    <3>2. Blocks(t) /\ (c.kind = "tool" /\ c.call = 0 => t.active = "call")
      BY <2>2, <2>3, <3>1
    <3>3. QED
      BY <3>2, ProcessBlocks
  <2> HIDE DEF new
  <2>5. ASSUME Sequential, source = "chat", t' = new PROVE CallIsOpen'
    <3>1. SUFFICES ASSUME read # <<>>, LastKind \in {"call", "args"} PROVE new.active = "call"
      BY <1>2, <2>5 DEF CallIsOpen, LastKind
    <3>2. CASE c.kind = "tool"
      BY <2>4, <2>5, <3>2
    <3>3. CASE c.kind # "tool"
      <4>1. pending # ChatChunks(read) /\ c.kind \notin {"text", "tool"}
        BY <2>1, <2>5, <3>1, <3>3
      <4>2. t.active = "call"
        BY <2>2, <2>5, <3>1, <4>1 DEF CallIsOpen
      <4>3. QED
        BY <2>4, <2>5, <4>1, <4>2
    <3>4. QED
      BY <3>2, <3>3
  <2>6. Sequential => IsTranslator(new) /\ BlockLog(new.out)
    BY <2>4, BlocksLog
  <2>7. IF source = "chat"
        THEN \/ pending' \in {<<>>, <<FinishChunk>>, <<DoneChunk>>, <<BadChunk>>}
             \/ read' # <<>> /\ pending' = ChatChunks(read')
        ELSE NamesItsCalls'
    BY <2>1
  <2>8. QED
    BY <1>1, <1>2, <1>4, <2>4, <2>5, <2>6, <2>7, WritingBlocks
<1>5. QED
  BY <1>2, <1>3, <1>4, EndingBlocks

LEMMA TargetBlocks ==
    ASSUME Shape, SourceInv, TypeParts, BlocksHold, Target
    PROVE  BlocksHold'
<1>1. IsTranslator(t) /\ UNCHANGED <<source, target, read>>
  BY DEF Shape, Target, TargetStarts, TakeChunk, TakeCancelled, TakeEnd, DeliverChunk, sourceVars, fixed
<1>2. SUFFICES ASSUME target = "messages" PROVE BlocksHold'
  BY <1>1 DEF BlocksHold
<1>3. CASE TargetStarts
  <2> DEFINE new == Begin(target, t)
  <2>1. t = NewTranslator /\ Write(new, "running") /\ pending' = pending /\ tgt = "starting"
    BY <1>2, <1>3 DEF TargetStarts, BlocksHold
  <2>2. AllClosed(new) /\ BlockLog(new.out)
    BY <1>1, <1>2, <2>1, BeginBlocks
  <2> HIDE DEF new
  <2>3. Blocks(new) /\ IsTranslator(new)
    BY <2>2 DEF Blocks, AllClosed
  <2>4. IF source = "chat" THEN ChatPipe /\ read = <<>> ELSE NamesItsCalls
    BY <1>2, <2>1 DEF BlocksHold, ChatPipe
  <2>5. IF source = "chat"
        THEN \/ pending' \in {<<>>, <<FinishChunk>>, <<DoneChunk>>, <<BadChunk>>}
             \/ read' # <<>> /\ pending' = ChatChunks(read')
        ELSE NamesItsCalls'
    BY <1>1, <2>1, <2>4 DEF ChatPipe, NamesItsCalls
  <2>6. source = "chat" => CallIsOpen'
    BY <1>1, <2>4 DEF CallIsOpen
  <2>7. QED
    BY <1>1, <2>1, <2>2, <2>3, <2>5, <2>6, WritingBlocks
<1>4. CASE TakeChunk
  BY <1>2, <1>4, TakeChunkBlocks
<1>5. CASE TakeCancelled \/ TakeEnd
  <2>1. /\ tgt = "running" /\ (Write(Complete(target, t), "ok") \/ Write(Abandon(target, t), "failed"))
        /\ pending' = pending \/ (pending # <<>> /\ pending' = Tail(pending))
    BY <1>5 DEF TakeCancelled, TakeEnd
  <2>2. QED
    BY <1>1, <1>2, <2>1, EndingBlocks
<1>6. CASE DeliverChunk
  BY <1>2, <1>6 DEF DeliverChunk
<1>7. QED
  BY <1>3, <1>4, <1>5, <1>6 DEF Target

LEMMA NextBlocks ==
    ASSUME IInv, TypeParts, TypeParts', BlocksHold, [Next]_vars
    PROVE  BlocksHold'
<1>1. CASE Source
  BY <1>1, SourceBlocks DEF IInv
<1>2. CASE Target
  BY <1>2, TargetBlocks DEF IInv
<1>3. CASE Return \/ ClientLeaves \/ Cancel \/ UNCHANGED vars
  <2>1. UNCHANGED <<source, target, read, pending, t, tgt>>
    BY <1>3 DEF Return, ClientLeaves, Cancel, vars, sourceVars, targetVars
  <2>2. (Sequential' <=> Sequential) /\ (ChatPipe' <=> ChatPipe) /\ (CallIsOpen' <=> CallIsOpen)
        /\ (NamesItsCalls' <=> NamesItsCalls)
    BY <2>1 DEF Sequential, ChatPipe, CallIsOpen, LastKind, NamesItsCalls
  <2>3. QED
    BY <2>1, <2>2 DEF BlocksHold
<1>4. QED
  BY <1>1, <1>2, <1>3 DEF Next

LEMMA InitBlocks == Init => BlocksHold
<1>1. SUFFICES ASSUME Init, target = "messages" PROVE BlocksHold
  BY DEF BlocksHold
<1>2. t = NewTranslator /\ tgt = "starting" /\ pending = <<>> /\ read = <<>>
  BY <1>1 DEF Init
<1>3. t.out = <<>>
  BY <1>2 DEF NewTranslator
<1>4. BlockLog(t.out)
  BY <1>3, EmptyFacts DEF BlockLog
<1>5. ChatPipe /\ NamesItsCalls
  BY <1>2, EmptyFacts DEF ChatPipe, NamesItsCalls
<1>6. QED
  BY <1>2, <1>4, <1>5 DEF BlocksHold

\* In every state the events of a Claude stream are those of its blocks, active and
\* next of the translator are the block that is open, and a Chat upstream that keeps
\* the pieces of a call together has the call's block open when a piece comes.
THEOREM BlocksInvCorrect == Spec => []BlocksStreamInv
<1>1. Init => BlocksStreamInv
  <2>1. SUFFICES ASSUME Init PROVE BlocksStreamInv
    OBVIOUS
  <2>2. IInv /\ TypeParts /\ BlocksHold
    BY <2>1, InitIInv, InitTypes, InitBlocks
  <2>3. TypeInv
    BY <2>2, TypeInvParts DEF TypeInv
  <2>4. QED
    BY <2>2, <2>3, BlocksHoldIs DEF BlocksStreamInv
<1>2. BlocksStreamInv /\ [Next]_vars => BlocksStreamInv'
  <2>1. SUFFICES ASSUME BlocksStreamInv, [Next]_vars PROVE BlocksStreamInv'
    OBVIOUS
  <2>2. IInv /\ IInv' /\ TypeParts
    BY <2>1, NextIInv, TypeInvParts DEF BlocksStreamInv, TypeInv
  <2>3. BlocksHold
    BY <2>1, <2>2, BlocksHoldIs DEF BlocksStreamInv
  <2>4. TypeParts'
    BY <2>1, <2>2, NextTypes
  <2>5. BlocksHold'
    BY <2>1, <2>2, <2>3, <2>4, NextBlocks
  <2>6. TypeInv'
    BY <2>2, <2>4, TypeInvPartsNext DEF TypeInv
  <2>7. QED
    BY <2>2, <2>5, <2>6, BlocksHoldIsNext DEF BlocksStreamInv
<1>3. QED
  BY <1>1, <1>2, PTL DEF Spec

\* The content blocks of a Claude stream follow one another: each is started, gets
\* deltas of its kind and is stopped before the next starts under the next index, and
\* the message stops with none open, for answers of any length.
THEOREM BlocksCorrect == Spec => []BlocksWellFormed
  BY BlocksInvCorrect, PTL DEF BlocksStreamInv

-----------------------------------------------------------------------------
(* Announcements of calls, and the arguments that are heard of them. *)

\* Does e, written after out, announce a call?
Announces(out, e) ==
    IF target = "chat" THEN e.type = "tool" /\ e.index \notin Indexes(out, "tool")
    ELSE e.type = "added" /\ e.kind = "call"
Speaking(e) == Speaks(e, Pieces, CallKind, AnyIndex)
Telling(out) == IsSeq(out) /\ Wordy(out, Pieces, CallKind, AnyIndex)

\* q is out with more events: that tell of no call; of one that is announced at this
\* index; of one that is not, and that they announce.
KeepsCalls(out, q) == Telling(q) /\ \A i \in Announced(out) : q[i] = out[i]
Quiet(out, q) ==
    /\ KeepsCalls(out, q) /\ Announced(q) = Announced(out)
    /\ \A b \in Nat : Heard(q, b) = Heard(out, b)
TellsAt(out, q, at, d) ==
    /\ KeepsCalls(out, q) /\ at \in Nat
    /\ Heard(q, at) = Heard(out, at) \o d
    /\ \A b \in Nat : b # at => Heard(q, b) = Heard(out, b)
TellsOld(out, q, call, at, d) ==
    /\ TellsAt(out, q, at, d)
    /\ \E i \in Announced(out) : out[i].call = call /\ out[i].index = at
    /\ Announced(q) = Announced(out)
TellsNew(out, q, call, at, d) ==
    /\ TellsAt(out, q, at, d) /\ Heard(out, at) = <<>>
    /\ \A i \in Announced(out) : out[i].call # call /\ out[i].index # at
    /\ \E m : /\ m \notin Announced(out) /\ Announced(q) = Announced(out) \cup {m}
              /\ q[m].call = call /\ q[m].index = at /\ q[m].kind = CallKind

LEMMA AnnouncedAppend ==
    ASSUME NEW out, IsSeq(out), NEW e
    PROVE  LET q == Append(out, e)
               m == Len(out) + 1
           IN  /\ Announced(q) = Announced(out) \cup (IF Announces(out, e) THEN {m} ELSE {})
               /\ m \notin Announced(out) /\ q[m] = e
               /\ \A i \in Announced(out) : q[i] = out[i]
<1> DEFINE q == Append(out, e)
           n == Len(out)
<1>1. /\ n \in Nat /\ DOMAIN out = 1 .. n /\ DOMAIN q = 1 .. n + 1
      /\ \A i \in 1 .. n : q[i] = out[i]
      /\ q[n + 1] = e
  BY AppendLog
<1>2. /\ n + 1 \notin 1 .. n /\ n + 1 \in 1 .. n + 1 /\ 1 .. n \subseteq 1 .. n + 1
      /\ \A i \in 1 .. n + 1 : i \in 1 .. n \/ i = n + 1
  BY <1>1
<1>3. Announced(out) \subseteq 1 .. n
  BY <1>1 DEF Announced
<1> HIDE DEF q, n
<1>4. Announced(q) = Announced(out) \cup (IF Announces(out, e) THEN {n + 1} ELSE {})
  <2>1. CASE target = "chat"
    <3> DEFINE First(s, i) == s[i].type = "tool" /\ \A j \in 1 .. (i - 1) : s[j].type = "tool" => s[j].index # s[i].index
    <3>1. ASSUME NEW i \in 1 .. n PROVE First(q, i) <=> First(out, i)
      <4>1. \A j \in 1 .. (i - 1) : j \in 1 .. n
        BY <1>1
      <4>2. QED
        BY <1>1, <4>1
    <3>2. First(q, n + 1) <=> Announces(out, e)
      <4>1. (n + 1) - 1 = n
        BY <1>1
      <4>2. e.index \in Indexes(out, "tool") <=> \E j \in 1 .. n : out[j].type = "tool" /\ out[j].index = e.index
        BY <1>1 DEF Indexes, Events, ToSet
      <4>3. QED
        BY <1>1, <2>1, <4>1, <4>2 DEF Announces
    <3>3. Announced(q) = {i \in 1 .. n + 1 : First(q, i)} /\ Announced(out) = {i \in 1 .. n : First(out, i)}
      BY <1>1, <2>1 DEF Announced
    <3> HIDE DEF First
    <3>4. CASE Announces(out, e)
      <4>1. {i \in 1 .. n + 1 : First(q, i)} = {i \in 1 .. n : First(out, i)} \cup {n + 1}
        BY <1>2, <3>1, <3>2, <3>4
      <4>2. QED
        BY <3>3, <3>4, <4>1, Zenon
    <3>5. CASE ~Announces(out, e)
      <4>1. {i \in 1 .. n + 1 : First(q, i)} = {i \in 1 .. n : First(out, i)} \cup {}
        BY <1>2, <3>1, <3>2, <3>5
      <4>2. QED
        BY <3>3, <3>5, <4>1, Zenon
    <3>6. QED
      BY <3>4, <3>5
  <2>2. CASE target # "chat"
    <3>1. /\ Announced(q) = {i \in 1 .. n + 1 : q[i].type = "added" /\ q[i].kind = "call"}
          /\ Announced(out) = {i \in 1 .. n : out[i].type = "added" /\ out[i].kind = "call"}
          /\ Announces(out, e) <=> e.type = "added" /\ e.kind = "call"
      BY <1>1, <2>2 DEF Announced, Announces
    <3>2. QED
      BY <1>1, <1>2, <3>1
  <2>3. QED
    BY <2>1, <2>2
<1>5. QED
  BY <1>1, <1>2, <1>3, <1>4 DEF q, n

LEMMA AnnouncedCut ==
    ASSUME NEW out, IsSeq(out), NEW n \in Nat, n <= Len(out)
    PROVE  /\ Announced(SubSeq(out, 1, n)) \subseteq Announced(out)
           /\ \A i \in Announced(SubSeq(out, 1, n)) : SubSeq(out, 1, n)[i] = out[i]
<1> DEFINE q == SubSeq(out, 1, n)
<1>1. /\ DOMAIN q = 1 .. n /\ DOMAIN out = 1 .. Len(out)
      /\ \A i \in 1 .. n : i \in DOMAIN out /\ q[i] = out[i]
  BY CutLog
<1> HIDE DEF q
<1>2. ASSUME NEW i \in Announced(q) PROVE i \in Announced(out) /\ q[i] = out[i]
  <2>1. i \in 1 .. n /\ q[i] = out[i] /\ i \in DOMAIN out
    BY <1>1 DEF Announced
  <2>2. \A j \in 1 .. (i - 1) : q[j] = out[j]
    BY <1>1, <2>1
  <2>3. QED
    BY <2>1, <2>2 DEF Announced
<1>3. QED
  BY <1>2 DEF q

LEMMA HeardTypes ==
    ASSUME NEW out, Telling(out)
    PROVE  \A at : Wordy(out, Pieces, CallKind, at) /\ Heard(out, at) \in Seq(Nat)
<1> TAKE at
<1>1. Wordy(out, Pieces, CallKind, at)
  BY DEF Telling, Wordy, Speaks
<1>2. Text(out, Pieces, CallKind, at) \in Seq(Nat)
  BY <1>1, WordsType DEF Telling
<1>3. QED
  BY <1>1, <1>2 DEF Heard

\* What one more event adds.
LEMMA HeardAppend ==
    ASSUME NEW out, Telling(out), NEW e, Speaking(e) => e.data \in Seq(Nat) /\ e.index \in Nat
    PROVE  /\ Telling(Append(out, e))
           /\ ~Speaking(e) => \A b \in Nat : Heard(Append(out, e), b) = Heard(out, b)
           /\ Speaking(e) =>
                /\ Heard(Append(out, e), e.index) = Heard(out, e.index) \o e.data
                /\ \A b \in Nat : b # e.index => Heard(Append(out, e), b) = Heard(out, b)
<1>1. IsSeq(out) /\ \A b : Wordy(out, Pieces, CallKind, b) /\ Heard(out, b) \in Seq(Nat)
  BY HeardTypes DEF Telling
<1>2. \A b : Speaks(e, Pieces, CallKind, b) => Speaking(e)
  BY DEF Speaks, Speaking
<1>3. \A b \in Nat : Speaks(e, Pieces, CallKind, b) <=> Speaking(e) /\ e.index = b
  BY DEF Speaks, Speaking, AnyIndex
<1>4. \A b : /\ Wordy(Append(out, e), Pieces, CallKind, b)
             /\ Text(Append(out, e), Pieces, CallKind, b)
                  = Text(out, Pieces, CallKind, b) \o Word(e, Pieces, CallKind, b)
             /\ ~Speaks(e, Pieces, CallKind, b)
                  => Text(Append(out, e), Pieces, CallKind, b) = Text(out, Pieces, CallKind, b)
  BY <1>1, <1>2, AppendText
<1>5. Telling(Append(out, e))
  BY <1>1, <1>4, AppendLog DEF Telling
<1>6. Speaking(e) => Word(e, Pieces, CallKind, e.index) = e.data
  BY <1>3 DEF Word
<1>7. QED
  BY <1>3, <1>4, <1>5, <1>6 DEF Heard

LEMMA QuietAppend ==
    ASSUME NEW out, Telling(out), NEW e, ~Announces(out, e), ~Speaking(e)
    PROVE  Quiet(out, Append(out, e))
  BY HeardAppend, AnnouncedAppend DEF Quiet, KeepsCalls, Telling

\* Another piece of the arguments of a call that is announced.
LEMMA OldAppend ==
    ASSUME NEW out, Telling(out), NEW e, ~Announces(out, e), Speaking(e), e.data \in Seq(Nat), e.index \in Nat,
           NEW call, \E i \in Announced(out) : out[i].call = call /\ out[i].index = e.index
    PROVE  TellsOld(out, Append(out, e), call, e.index, e.data)
  BY HeardAppend, AnnouncedAppend DEF TellsOld, TellsAt, KeepsCalls, Telling

\* An announcement, which brings no arguments but to a Chat client.
LEMMA NewAppend ==
    ASSUME NEW out, Telling(out), NEW e, Announces(out, e), e.index \in Nat, e.kind = CallKind,
           Heard(out, e.index) = <<>>,
           \A i \in Announced(out) : out[i].call # e.call /\ out[i].index # e.index,
           NEW d, IF Speaking(e) THEN d = e.data /\ d \in Seq(Nat) ELSE d = <<>>
    PROVE  TellsNew(out, Append(out, e), e.call, e.index, d)
<1> DEFINE q == Append(out, e)
           m == Len(out) + 1
<1>1. /\ Announced(q) = Announced(out) \cup {m} /\ m \notin Announced(out) /\ q[m] = e
      /\ \A i \in Announced(out) : q[i] = out[i]
  BY AnnouncedAppend DEF Telling
<1>2. /\ Telling(q)
      /\ ~Speaking(e) => \A b \in Nat : Heard(q, b) = Heard(out, b)
      /\ Speaking(e) =>
           /\ Heard(q, e.index) = Heard(out, e.index) \o e.data
           /\ \A b \in Nat : b # e.index => Heard(q, b) = Heard(out, b)
  BY HeardAppend
<1> HIDE DEF q, m
<1>3. <<>> \o <<>> = <<>>
  OBVIOUS
<1>4. Heard(q, e.index) = Heard(out, e.index) \o d /\ \A b \in Nat : b # e.index => Heard(q, b) = Heard(out, b)
  BY <1>2, <1>3
<1>5. TellsAt(out, q, e.index, d)
  BY <1>1, <1>2, <1>4 DEF TellsAt, KeepsCalls
<1>6. QED
  BY <1>1, <1>5 DEF TellsNew, q

\* One after the other.
LEMMA QuietThen ==
    ASSUME NEW out, NEW q, NEW z, Quiet(out, q)
    PROVE  /\ Quiet(q, z) => Quiet(out, z)
           /\ \A call, at, d : TellsOld(q, z, call, at, d) => TellsOld(out, z, call, at, d)
           /\ \A call, at, d : TellsNew(q, z, call, at, d) => TellsNew(out, z, call, at, d)
<1>1. Quiet(q, z) => Quiet(out, z)
  BY DEF Quiet, KeepsCalls
<1>2. \A at, d : TellsAt(q, z, at, d) => TellsAt(out, z, at, d)
  BY DEF Quiet, KeepsCalls, TellsAt
<1>3. /\ Announced(q) = Announced(out) /\ \A i \in Announced(out) : q[i] = out[i]
      /\ \A at, d : TellsAt(q, z, at, d) => Heard(q, at) = Heard(out, at)
  BY DEF Quiet, KeepsCalls, TellsAt
<1>4. \A call, at, d : TellsOld(q, z, call, at, d) => TellsOld(out, z, call, at, d)
  BY <1>2, <1>3 DEF TellsOld
<1>5. \A call, at, d : TellsNew(q, z, call, at, d) => TellsNew(out, z, call, at, d)
  BY <1>2, <1>3 DEF TellsNew
<1>6. QED
  BY <1>1, <1>4, <1>5

LEMMA NewThenOld ==
    ASSUME NEW out, NEW q, NEW z, NEW call, NEW at, NEW d \in Seq(Nat),
           TellsNew(out, q, call, at, <<>>), TellsOld(q, z, call, at, d)
    PROVE  TellsNew(out, z, call, at, d)
<1>1. TellsAt(out, q, at, <<>>) /\ TellsAt(q, z, at, d) /\ Heard(out, at) = <<>>
  BY DEF TellsNew, TellsOld
<1>2. PICK m : /\ m \notin Announced(out) /\ Announced(q) = Announced(out) \cup {m}
               /\ q[m].call = call /\ q[m].index = at /\ q[m].kind = CallKind
  BY DEF TellsNew
<1>3. Announced(z) = Announced(q) /\ (\A i \in Announced(q) : z[i] = q[i]) /\ \A i \in Announced(out) : q[i] = out[i]
  BY <1>1 DEF TellsOld, TellsAt, KeepsCalls
<1>4. Heard(z, at) = Heard(out, at) \o d
  <2>1. Heard(q, at) = <<>> \o <<>> /\ Heard(z, at) = Heard(q, at) \o d
    BY <1>1 DEF TellsAt
  <2>2. <<>> \o <<>> = <<>>
    OBVIOUS
  <2>3. QED
    BY <1>1, <2>1, <2>2
<1>5. TellsAt(out, z, at, d)
  BY <1>1, <1>2, <1>3, <1>4 DEF TellsAt, KeepsCalls
<1>6. z[m] = q[m] /\ Announced(z) = Announced(out) \cup {m}
  BY <1>2, <1>3
<1>7. QED
  BY <1>1, <1>2, <1>5, <1>6 DEF TellsNew

-----------------------------------------------------------------------------
(* The calls of an answer as it grows. *)

Opening(r, c) == CHOOSE i \in DOMAIN r : r[i] = Fragment("call", c)

LEMMA OpenedAt ==
    ASSUME NEW r, Answer(r), NEW c \in CallsIn(r)
    PROVE  /\ Opening(r, c) \in DOMAIN r /\ r[Opening(r, c)] = Fragment("call", c)
           /\ Opening(r, c) \in Nat /\ Opening(r, c) \in 1 .. Opening(r, c)
           /\ 1 .. Opening(r, c) \subseteq DOMAIN r
           /\ OpensItem(r, Opening(r, c))
           /\ \A j \in DOMAIN r : r[j] = Fragment("call", c) => j = Opening(r, c)
<1>1. Opening(r, c) \in DOMAIN r /\ r[Opening(r, c)] = Fragment("call", c)
  BY AnswerFacts DEF Opening
<1>2. Len(r) \in Nat /\ DOMAIN r = 1 .. Len(r)
  BY AnswerFacts
<1>3. OpensItem(r, Opening(r, c))
  BY <1>1, FragmentFields DEF OpensItem
<1>4. \A j \in DOMAIN r : r[j] = Fragment("call", c) => j = Opening(r, c)
  BY <1>1, AnswerFacts
<1>5. Opening(r, c) \in Nat /\ Opening(r, c) \in 1 .. Opening(r, c) /\ 1 .. Opening(r, c) \subseteq DOMAIN r
  BY <1>1, <1>2
<1>6. QED
  BY <1>1, <1>3, <1>4, <1>5

LEMMA AnswerGrows ==
    ASSUME NEW r, Answer(r), NEW f \in Fragments, Answer(Append(r, f))
    PROVE  LET q == Append(r, f)
               n == Len(r)
           IN  /\ r \in Seq(Fragments) /\ q \in Seq(Fragments) /\ q # <<>>
               /\ n \in Nat /\ DOMAIN r = 1 .. n /\ DOMAIN q = 1 .. n + 1 /\ Len(q) = n + 1
               /\ \A i \in 1 .. n : i \in 1 .. n + 1 /\ q[i] = r[i]
               /\ q[n + 1] = f /\ n + 1 \notin 1 .. n
               /\ \A i \in 1 .. n + 1 : i \in 1 .. n \/ i = n + 1
               /\ CallsIn(q) = CallsIn(r) \cup ({f.call} \ {0})
<1>1. r \in Seq(Fragments) /\ Append(r, f) \in Seq(Fragments)
  BY DEF Answer
<1>2. CallsIn(Append(r, f)) = CallsIn(r) \cup ({f.call} \ {0})
  BY <1>1, CallsAppend
<1>3. /\ Len(r) \in Nat /\ DOMAIN r = 1 .. Len(r)
      /\ DOMAIN Append(r, f) = 1 .. Len(r) + 1 /\ Len(Append(r, f)) = Len(r) + 1
      /\ \A i \in 1 .. Len(r) : Append(r, f)[i] = r[i]
      /\ Append(r, f)[Len(r) + 1] = f
  BY <1>1, AppendProperties, LenProperties
<1>4. Append(r, f) # <<>>
  BY <1>3
<1>5. /\ \A i \in 1 .. Len(r) : i \in 1 .. Len(r) + 1
      /\ Len(r) + 1 \notin 1 .. Len(r)
      /\ \A i \in 1 .. Len(r) + 1 : i \in 1 .. Len(r) \/ i = Len(r) + 1
  BY <1>3
<1>6. QED
  BY <1>1, <1>2, <1>3, <1>4, <1>5

LEMMA OpeningStays ==
    ASSUME NEW r, Answer(r), NEW f \in Fragments, Answer(Append(r, f)), NEW c \in CallsIn(r)
    PROVE  Opening(Append(r, f), c) = Opening(r, c)
<1> DEFINE q == Append(r, f)
           n == Len(r)
<1>1. /\ DOMAIN r = 1 .. n /\ DOMAIN q = 1 .. n + 1
      /\ \A i \in 1 .. n : i \in 1 .. n + 1 /\ q[i] = r[i]
      /\ CallsIn(q) = CallsIn(r) \cup ({f.call} \ {0})
  BY AnswerGrows
<1>2. c \in CallsIn(q) /\ Answer(q)
  BY <1>1
<1> HIDE DEF q, n
<1>3. Opening(r, c) \in DOMAIN r /\ r[Opening(r, c)] = Fragment("call", c)
  BY OpenedAt
<1>4. \A j \in DOMAIN q : q[j] = Fragment("call", c) => j = Opening(q, c)
  BY <1>2, OpenedAt
<1>5. Opening(q, c) = Opening(r, c)
  BY <1>1, <1>3, <1>4
<1>6. QED
  BY <1>5 DEF q

LEMMA ItemIndexStays ==
    ASSUME NEW r, Answer(r), NEW f \in Fragments, Answer(Append(r, f)), NEW c \in CallsIn(r)
    PROVE  ItemIndex(Append(r, f), c) = ItemIndex(r, c)
<1> DEFINE q == Append(r, f)
           o == Opening(r, c)
<1>1. Opening(q, c) = o
  BY OpeningStays
<1>2. /\ DOMAIN r = 1 .. Len(r) /\ \A i \in 1 .. Len(r) : q[i] = r[i]
      /\ Len(r) \in Nat
  BY AnswerGrows
<1>3. o \in Nat /\ 1 .. o \subseteq DOMAIN r
  BY OpenedAt
<1> HIDE DEF q, o
<1>4. ASSUME NEW i \in 1 .. o PROVE OpensItem(q, i) <=> OpensItem(r, i)
  <2>1. i \in 1 .. Len(r) /\ q[i] = r[i]
    BY <1>2, <1>3
  <2>2. i # 1 => q[i - 1] = r[i - 1]
    BY <1>2, <2>1
  <2>3. QED
    BY <2>1, <2>2 DEF OpensItem
<1>5. {i \in 1 .. o : OpensItem(q, i)} = {i \in 1 .. o : OpensItem(r, i)}
  BY <1>4
<1>6. /\ ItemIndex(q, c) = Cardinality({i \in 1 .. Opening(q, c) : OpensItem(q, i)}) - 1
      /\ ItemIndex(r, c) = Cardinality({i \in 1 .. Opening(r, c) : OpensItem(r, i)}) - 1
  BY DEF ItemIndex, Opening
<1>7. QED
  BY <1>1, <1>5, <1>6 DEF q, o

LEMMA ItemIndexLess ==
    ASSUME NEW r, Answer(r), NEW c \in CallsIn(r), NEW d \in CallsIn(r), Opening(r, c) < Opening(r, d)
    PROVE  ItemIndex(r, c) # ItemIndex(r, d)
<1> DEFINE S(x) == {i \in 1 .. x : OpensItem(r, i)}
           a == Opening(r, c)
           b == Opening(r, d)
<1>1. a \in Nat /\ b \in Nat /\ OpensItem(r, b) /\ a < b
  BY OpenedAt
<1>2. ItemIndex(r, c) = Cardinality(S(a)) - 1 /\ ItemIndex(r, d) = Cardinality(S(b)) - 1
  BY DEF ItemIndex, Opening
<1> HIDE DEF a, b
<1>3. \A i \in 1 .. a : i \in 1 .. b
  BY <1>1
<1>4. b \in 1 .. b /\ b \notin 1 .. a
  BY <1>1
<1>5. S(a) \subseteq S(b) /\ b \in S(b) /\ b \notin S(a)
  BY <1>1, <1>3, <1>4
<1>6. IsFiniteSet(S(b))
  <2>1. IsFiniteSet(1 .. b)
    BY <1>1, FS_Interval
  <2>2. S(b) \subseteq 1 .. b
    OBVIOUS
  <2> HIDE DEF S
  <2>3. QED
    BY <2>1, <2>2, FS_Subset
<1> HIDE DEF S
<1>7. /\ IsFiniteSet(S(a)) /\ Cardinality(S(a)) \in Nat /\ Cardinality(S(b)) \in Nat
      /\ Cardinality(S(a)) < Cardinality(S(b))
  <2>1. IsFiniteSet(S(a)) /\ Cardinality(S(a)) <= Cardinality(S(b)) /\ (Cardinality(S(a)) = Cardinality(S(b)) => S(a) = S(b))
    BY <1>5, <1>6, FS_Subset
  <2>2. Cardinality(S(a)) \in Nat /\ Cardinality(S(b)) \in Nat
    BY <1>6, <2>1, FS_CardinalityType
  <2>3. S(a) # S(b)
    BY <1>5
  <2>4. QED
    BY <2>1, <2>2, <2>3
<1>8. QED
  BY <1>2, <1>7

\* A call keeps its index, and no two calls have the same.
LEMMA CallIndexes ==
    ASSUME NEW r, Answer(r)
    PROVE  /\ \A c \in CallsIn(r) : CallIndex(r, c) \in Nat
           /\ \A c, d \in CallsIn(r) : CallIndex(r, c) = CallIndex(r, d) => c = d
           /\ \A f \in Fragments : Answer(Append(r, f)) =>
                \A c \in CallsIn(r) : CallIndex(Append(r, f), c) = CallIndex(r, c)
<1>1. \A c \in CallsIn(r) : c \in 1 .. MaxCalls
  BY AnswerFacts
<1>2. ASSUME NEW c \in CallsIn(r) PROVE CallIndex(r, c) \in Nat
  <2>1. ItemIndex(r, c) \in Nat
    BY ItemIndexRange
  <2>2. c - 1 \in Nat
    BY <1>1
  <2>3. QED
    BY <2>1, <2>2 DEF CallIndex
<1>3. ASSUME NEW c \in CallsIn(r), NEW d \in CallsIn(r), CallIndex(r, c) = CallIndex(r, d) PROVE c = d
  <2>1. CASE source \in {"chat", "generateContent"} \/ CallsHeld
    <3>1. c - 1 = d - 1
      BY <1>3, <2>1 DEF CallIndex
    <3>2. QED
      BY <1>1, <3>1
  <2>2. CASE ~(source \in {"chat", "generateContent"} \/ CallsHeld)
    <3>1. ItemIndex(r, c) = ItemIndex(r, d)
      BY <1>3, <2>2 DEF CallIndex
    <3>2. /\ Opening(r, c) \in Nat /\ Opening(r, d) \in Nat
          /\ r[Opening(r, c)] = Fragment("call", c) /\ r[Opening(r, d)] = Fragment("call", d)
      BY OpenedAt
    <3>3. ~(Opening(r, c) < Opening(r, d)) /\ ~(Opening(r, d) < Opening(r, c))
      BY <3>1, ItemIndexLess
    <3>4. Opening(r, c) = Opening(r, d)
      BY <3>2, <3>3
    <3>5. QED
      BY <3>2, <3>4, FragmentFields
  <2>3. QED
    BY <2>1, <2>2
<1>4. ASSUME NEW f \in Fragments, Answer(Append(r, f)), NEW c \in CallsIn(r)
      PROVE  CallIndex(Append(r, f), c) = CallIndex(r, c)
  BY <1>4, ItemIndexStays DEF CallIndex
<1>5. QED
  BY <1>2, <1>3, <1>4

LEMMA ArgsAppend ==
    ASSUME NEW r \in Seq(Fragments), NEW f \in Fragments, NEW c
    PROVE  ArgsOf(Append(r, f), c)
             = IF f = Fragment("args", c) THEN Append(ArgsOf(r, c), Len(r) + 1) ELSE ArgsOf(r, c)
<1> DEFINE q == Append(r, f)
           S == {i \in DOMAIN r : r[i] = Fragment("args", c)}
           R == {i \in DOMAIN q : q[i] = Fragment("args", c)}
           n == Len(r)
<1>1. /\ n \in Nat /\ DOMAIN r = 1 .. n /\ DOMAIN q = 1 .. n + 1
      /\ \A i \in 1 .. n : q[i] = r[i]
      /\ q[n + 1] = f
  BY AppendProperties, LenProperties
<1> HIDE DEF q, n
<1>2. S \in SUBSET (1 .. n)
  BY <1>1
<1>3. \A i \in 1 .. n + 1 : i \in 1 .. n \/ i = n + 1
  BY <1>1
<1>4. 1 .. n \subseteq 1 .. n + 1 /\ n + 1 \in 1 .. n + 1 /\ n + 1 \notin 1 .. n
  BY <1>1
<1>5. R = IF f = Fragment("args", c) THEN S \cup {n + 1} ELSE S
  BY <1>1, <1>3, <1>4
<1> HIDE DEF S, R
<1>6. f = Fragment("args", c) => Ascending(R) = Append(Ascending(S), n + 1)
  BY <1>1, <1>2, <1>5, AscendingAdd
<1>7. ArgsOf(q, c) = Ascending(R) /\ ArgsOf(r, c) = Ascending(S)
  BY DEF ArgsOf, R, S
<1>8. QED
  BY <1>5, <1>6, <1>7 DEF q, n

LEMMA ArgsType ==
    ASSUME NEW r \in Seq(Fragments), NEW c
    PROVE  ArgsOf(r, c) \in Seq(Nat)
<1> DEFINE S == {i \in DOMAIN r : r[i] = Fragment("args", c)}
<1>1. Len(r) \in Nat /\ S \in SUBSET (1 .. Len(r)) /\ S \subseteq Nat
  BY LenProperties
<1> HIDE DEF S
<1>2. Ascending(S) \in Seq(S)
  BY <1>1, AscendingRanks
<1>3. Ascending(S) \in Seq(Nat)
  BY <1>1, <1>2, SeqMonotonic
<1>4. QED
  BY <1>3 DEF ArgsOf, S

LEMMA ArgsNone ==
    ASSUME NEW r, Answer(r), NEW c, c # 0, c \notin CallsIn(r)
    PROVE  ArgsOf(r, c) = <<>>
<1>1. \A i \in DOMAIN r : r[i] # Fragment("args", c)
  BY FragmentFields DEF CallsIn
<1>2. {i \in DOMAIN r : r[i] = Fragment("args", c)} = {}
  BY <1>1
<1>3. QED
  BY <1>2, AscendingNone DEF ArgsOf

\* Does f bring a piece of arguments of the call?
Extends(f, c) == source # "generateContent" /\ f = Fragment("args", c)

LEMMA ArgsSentIs ==
    ASSUME NEW r, NEW c
    PROVE  ArgsSent(r, c) = IF source = "generateContent" THEN <<Opening(r, c)>>
                            ELSE IF CallsHeld THEN Salvage(ArgsOf(r, c)) ELSE ArgsOf(r, c)
  BY DEF ArgsSent, Opening

LEMMA ArgsSentGrows ==
    ASSUME ~CallsHeld, NEW r, Answer(r), NEW f \in Fragments, Answer(Append(r, f)), NEW c \in CallsIn(r)
    PROVE  /\ ArgsSent(r, c) \in Seq(Nat) /\ ArgsSent(Append(r, f), c) \in Seq(Nat)
           /\ ArgsSent(Append(r, f), c) = ArgsSent(r, c) \o (IF Extends(f, c) THEN <<Len(r) + 1>> ELSE <<>>)
           /\ IsPrefix(ArgsSent(r, c), ArgsSent(Append(r, f), c))
<1> DEFINE q == Append(r, f)
           n == Len(r) + 1
           a == ArgsSent(r, c)
           b == ArgsSent(q, c)
<1>1. r \in Seq(Fragments) /\ n \in Nat /\ <<n>> \in Seq(Nat)
  BY AnswerGrows
<1> DEFINE d == IF Extends(f, c) THEN <<n>> ELSE <<>>
<1> HIDE DEF q, n, a, b
<1>2. ASSUME source = "generateContent" PROVE a \in Seq(Nat) /\ b = a \o d
  <2>1. a = <<Opening(r, c)>> /\ b = <<Opening(q, c)>>
    BY <1>2, ArgsSentIs DEF a, b
  <2>2. Opening(q, c) = Opening(r, c) /\ Opening(r, c) \in Nat
    BY OpeningStays, OpenedAt DEF q
  <2>3. a \in Seq(Nat) /\ b = a
    BY <2>1, <2>2
  <2>4. d = <<>>
    BY <1>2 DEF Extends
  <2>5. a \o <<>> = a
    BY <2>3
  <2>6. QED
    BY <2>3, <2>4, <2>5, Zenon
<1>3. ASSUME source # "generateContent" PROVE a \in Seq(Nat) /\ b = a \o d
  <2>1. a = ArgsOf(r, c) /\ b = ArgsOf(q, c)
    BY <1>3, ArgsSentIs DEF a, b
  <2>2. a \in Seq(Nat)
    BY <1>1, <2>1, ArgsType
  <2>3. b = IF f = Fragment("args", c) THEN Append(a, n) ELSE a
    BY <1>1, <2>1, ArgsAppend DEF q, n
  <2>4. Append(a, n) = a \o <<n>> /\ a \o <<>> = a
    BY <1>1, <2>2
  <2>5. CASE f = Fragment("args", c)
    <3>1. d = <<n>>
      BY <1>3, <2>5 DEF Extends
    <3>2. QED
      BY <2>2, <2>3, <2>4, <2>5, <3>1, Zenon
  <2>6. CASE f # Fragment("args", c)
    <3>1. d = <<>>
      BY <2>6 DEF Extends
    <3>2. QED
      BY <2>2, <2>3, <2>4, <2>6, <3>1, Zenon
  <2>7. QED
    BY <2>5, <2>6
<1>4. a \in Seq(Nat) /\ d \in Seq(Nat) /\ b = a \o d
  BY <1>1, <1>2, <1>3
<1> HIDE DEF d
<1>5. IsPrefix(a, b) /\ b \in Seq(Nat)
  BY <1>4, PrefixOfConcat, ConcatProperties
<1>6. QED
  BY <1>4, <1>5, Zenon DEF a, b, d, q, n

LEMMA ArgsSentFirst ==
    ASSUME NEW r, Answer(r), NEW f \in Fragments, Answer(Append(r, f)), f.kind = "call", f.call \notin CallsIn(r)
    PROVE  /\ f = Fragment("call", f.call) /\ f.call # 0 /\ f.call \in CallsIn(Append(r, f))
           /\ ArgsSent(Append(r, f), f.call) = IF source = "generateContent" THEN <<Len(r) + 1>> ELSE <<>>
<1> DEFINE q == Append(r, f)
           n == Len(r) + 1
           c == f.call
<1>1. f = Fragment("call", c)
  BY DEF Fragments, Fragment
<1>2. /\ r \in Seq(Fragments) /\ n \in DOMAIN q /\ q[n] = f
      /\ CallsIn(q) = CallsIn(r) \cup ({c} \ {0})
  BY AnswerGrows
<1>3. c # 0
  BY <1>2 DEF Answer
<1>4. c \in CallsIn(q)
  BY <1>2, <1>3
<1>5. Opening(q, c) = n
  BY <1>1, <1>2, <1>4, OpenedAt
<1>6. ArgsOf(q, c) = ArgsOf(r, c)
  BY <1>1, <1>2, ArgsAppend, FragmentFields
<1>7. ArgsOf(r, c) = <<>>
  BY <1>3, ArgsNone
<1>8. ArgsSent(q, c) = IF source = "generateContent" THEN <<Opening(q, c)>>
                       ELSE IF CallsHeld THEN Salvage(ArgsOf(q, c)) ELSE ArgsOf(q, c)
  BY ArgsSentIs
<1>9. Salvage(<<>>) = <<>>
  BY DEF Salvage
<1>10. QED
  BY <1>1, <1>3, <1>4, <1>5, <1>6, <1>7, <1>8, <1>9

LEMMA CallsSentGrow ==
    ASSUME NEW r, Answer(r), NEW f \in Fragments, Answer(Append(r, f))
    PROVE  /\ CallsSent(r) \subseteq CallsIn(r) /\ CallsSent(r) \subseteq CallsSent(Append(r, f))
           /\ source # "messages" => CallsSent(r) = CallsIn(r)
<1>1. CallsSent(r) \subseteq CallsIn(r) /\ (source # "messages" => CallsSent(r) = CallsIn(r))
  BY DEF CallsSent
<1>2. ASSUME NEW c \in CallsSent(r) PROVE c \in CallsSent(Append(r, f))
  <2>1. c \in CallsIn(r) /\ c \in CallsIn(Append(r, f))
    BY <1>1, AnswerGrows
  <2> DEFINE a == ArgsSent(r, c)
             b == ArgsSent(Append(r, f), c)
  <2>2. source = "messages" => a \in Seq(Nat) /\ b \in Seq(Nat) /\ IsPrefix(a, b)
    BY <2>1, ArgsSentGrows DEF CallsHeld
  <2> HIDE DEF a, b
  <2>3. source = "messages" => (b = <<>> => a = <<>>)
    BY <2>2, PrefixOfEmpty
  <2>4. source = "messages" => a # <<>>
    BY DEF CallsSent, a
  <2>5. source = "messages" => b # <<>>
    BY <2>3, <2>4
  <2>6. QED
    BY <2>1, <2>5 DEF CallsSent, b
<1>3. QED
  BY <1>1, <1>2-----------------------------------------------------------------------------
(* The chunks of calls that a source writes. *)

NoTools(p) == \A c \in ToSet(p) : c.kind # "tool"

LEMMA NoToolsOne ==
    ASSUME NEW c, c.kind # "tool"
    PROVE  IsSeq(<<c>>) /\ NoTools(<<c>>)
  BY OneSeq DEF NoTools

LEMMA NoToolsNone == IsSeq(<<>>) /\ NoTools(<<>>)
  BY EmptyFacts DEF NoTools

\* Does the source write a chunk of a call for f?
SendsTool(f) ==
    /\ (f.kind = "call" /\ source # "messages") \/ (f.kind = "args" /\ source # "generateContent")
    /\ ~CallsHeld
ToolFor(q, f) ==
    Chunk("tool", CallIndex(q, f.call), IF source = "chat" /\ f.kind = "args" THEN 0 ELSE f.call,
          IF f.kind = "args" \/ source = "generateContent" THEN <<Len(q)>> ELSE <<>>)

LEMMA LastIsCall ==
    ASSUME NEW r, Answer(r), NEW f \in Fragments, Answer(Append(r, f)), f.kind = "call", f.call \notin CallsIn(r)
    PROVE  f.call = Cardinality(CallsIn(Append(r, f)))
<1> DEFINE q == Append(r, f)
           N == Cardinality(CallsIn(r))
           M == Cardinality(CallsIn(q))
           c == f.call
<1>1. c \in CallsIn(q) /\ c # 0
  BY ArgsSentFirst
<1>2. CallsIn(q) = CallsIn(r) \cup ({c} \ {0})
  BY AnswerGrows
<1>3. /\ CallsIn(q) = 1 .. M /\ CallsIn(r) = 1 .. N
  BY DEF Answer
<1>4. N \in Nat /\ M \in Nat
  BY AnswerFacts
<1> HIDE DEF q, N, M, c
<1>5. c \in 1 .. M /\ c \notin 1 .. N /\ \A m \in 1 .. M : m \in 1 .. N \/ m = c
  BY <1>1, <1>2, <1>3 DEF c
<1>6. M \in 1 .. M
  BY <1>4, <1>5
<1>7. M \notin 1 .. N
  BY <1>4, <1>5
<1>8. M = c
  BY <1>5, <1>6, <1>7
<1>9. QED
  BY <1>8 DEF M, c, q

LEMMA FragmentTools ==
    ASSUME NEW r, Answer(r), NEW f \in Fragments, Answer(Append(r, f)), source \in Protocols,
           source = "generateContent" => f.kind # "args", f.kind = "call" => f.call \notin CallsIn(r)
    PROVE  LET q == Append(r, f)
               p == FragmentChunks(source, q, held)
           IN  /\ IsSeq(p)
               /\ SendsTool(f) => p = <<ToolFor(q, f)>>
               /\ ~SendsTool(f) => NoTools(p)
<1> DEFINE q == Append(r, f)
           n == Len(q)
           p == FragmentChunks(source, q, held)
<1>1. n = Len(r) + 1 /\ q[n] = f
  BY AnswerGrows
<1>2. f.kind \in FragmentKinds /\ f.kind # "tool"
  BY DEF Fragments, FragmentKinds
<1>3. \A kind, data : kind # "tool" => IsSeq(<<TextChunk(kind, data)>>) /\ NoTools(<<TextChunk(kind, data)>>)
  BY NoToolsOne, ChunkIs DEF TextChunk
<1>4. IsSeq(<<ToolFor(q, f)>>)
  BY OneSeq
<1>5. f.kind = "call" => f.call = Cardinality(CallsIn(q))
  BY LastIsCall
<1> HIDE DEF q, n
<1>6. CASE source = "chat"
  <2>1. p = ChatChunks(q)
    BY <1>6 DEF FragmentChunks
  <2>2. p = CASE f.kind = "call" -> <<Chunk("tool", f.call - 1, f.call, <<>>)>>
              [] f.kind = "args" -> <<Chunk("tool", f.call - 1, 0, <<n>>)>>
              [] OTHER -> <<TextChunk(f.kind, <<n>>)>>
    BY <1>1, <2>1 DEF ChatChunks, n
  <2>3. CallIndex(q, f.call) = f.call - 1 /\ ~CallsHeld
    BY <1>6 DEF CallIndex, CallsHeld
  <2>4. CASE f.kind = "call"
    <3>1. p = <<Chunk("tool", f.call - 1, f.call, <<>>)>>
      BY <2>2, <2>4
    <3>2. p = <<ToolFor(q, f)>> /\ SendsTool(f)
      BY <1>6, <2>3, <2>4, <3>1 DEF ToolFor, SendsTool
    <3>3. QED
      BY <1>4, <3>2 DEF q
  <2>5. CASE f.kind = "args"
    <3>1. p = <<Chunk("tool", f.call - 1, 0, <<n>>)>>
      BY <2>2, <2>5
    <3>2. p = <<ToolFor(q, f)>> /\ SendsTool(f)
      BY <1>6, <2>3, <2>5, <3>1 DEF ToolFor, SendsTool, n
    <3>3. QED
      BY <1>4, <3>2 DEF q
  <2>6. CASE f.kind \notin {"call", "args"}
    <3>1. p = <<TextChunk(f.kind, <<n>>)>>
      BY <2>2, <2>6
    <3>2. ~SendsTool(f)
      BY <2>6 DEF SendsTool
    <3>3. QED
      BY <1>2, <1>3, <3>1, <3>2 DEF q
  <2>7. QED
    BY <2>4, <2>5, <2>6
<1>7. CASE source = "messages"
  <2>1. p = ClaudeChunks(q)
    BY <1>7 DEF FragmentChunks
  <2>2. p = CASE f.kind = "text" -> <<TextChunk("text", <<n>>)>>
              [] f.kind = "args" -> <<Chunk("tool", ItemIndex(q, f.call), f.call, <<n>>)>>
              [] OTHER -> <<>>
    BY <1>1, <2>1 DEF ClaudeChunks, n
  <2>3. CallIndex(q, f.call) = ItemIndex(q, f.call) /\ ~CallsHeld
    BY <1>7 DEF CallIndex, CallsHeld
  <2>4. CASE f.kind = "args"
    <3>1. p = <<Chunk("tool", ItemIndex(q, f.call), f.call, <<n>>)>>
      BY <2>2, <2>4
    <3>2. p = <<ToolFor(q, f)>> /\ SendsTool(f)
      BY <1>7, <2>3, <2>4, <3>1 DEF ToolFor, SendsTool, n
    <3>3. QED
      BY <1>4, <3>2 DEF q
  <2>5. CASE f.kind # "args"
    <3>1. p \in {<<TextChunk("text", <<n>>)>>, <<>>}
      BY <2>2, <2>5
    <3>2. ~SendsTool(f)
      BY <1>7, <2>5 DEF SendsTool
    <3>3. QED
      BY <1>3, <3>1, <3>2, NoToolsNone DEF q
  <2>6. QED
    BY <2>4, <2>5
<1>8. CASE source = "generateContent"
  <2>1. p = GeminiChunks(q)
    BY <1>8 DEF FragmentChunks
  <2>2. p = IF f.kind = "call" THEN <<Chunk("tool", Cardinality(CallsIn(q)) - 1, f.call, <<n>>)>>
            ELSE <<TextChunk(f.kind, <<n>>)>>
    BY <1>1, <2>1 DEF GeminiChunks, n
  <2>3. CallIndex(q, f.call) = f.call - 1 /\ ~CallsHeld
    BY <1>8 DEF CallIndex, CallsHeld
  <2>4. CASE f.kind = "call"
    <3>1. p = <<Chunk("tool", f.call - 1, f.call, <<n>>)>>
      BY <1>5, <2>2, <2>4
    <3>2. p = <<ToolFor(q, f)>> /\ SendsTool(f)
      BY <1>8, <2>3, <2>4, <3>1 DEF ToolFor, SendsTool, n
    <3>3. QED
      BY <1>4, <3>2 DEF q
  <2>5. CASE f.kind # "call"
    <3>1. p = <<TextChunk(f.kind, <<n>>)>>
      BY <2>2, <2>5
    <3>2. ~SendsTool(f)
      BY <1>8, <2>5 DEF SendsTool
    <3>3. QED
      BY <1>2, <1>3, <3>1, <3>2 DEF q
  <2>6. QED
    BY <2>4, <2>5
<1>9. CASE source = "responses"
  <2>1. p = ResponsesChunks(q, held)
    BY <1>9 DEF FragmentChunks
  <2>2. Held(q, held, n) <=> (IF f.kind = "args" THEN "call" ELSE f.kind) \in held
    BY <1>1 DEF Held
  <2>3. CASE Held(q, held, n)
    <3>1. p = <<>>
      BY <2>1, <2>3 DEF ResponsesChunks, n
    <3>2. f.kind \in {"call", "args"} => CallsHeld
      BY <1>9, <2>2, <2>3 DEF CallsHeld
    <3>3. ~SendsTool(f)
      BY <3>2 DEF SendsTool
    <3>4. QED
      BY <3>1, <3>3, NoToolsNone DEF q
  <2>4. CASE ~Held(q, held, n)
    <3>1. p = CASE f.kind = "call" -> <<Chunk("tool", ItemIndex(q, f.call), f.call, <<>>)>>
                [] f.kind = "args" -> <<Chunk("tool", ItemIndex(q, f.call), f.call, <<n>>)>>
                [] OTHER -> <<TextChunk(f.kind, <<n>>)>>
      BY <1>1, <2>1, <2>4 DEF ResponsesChunks, n
    <3>2. f.kind \in {"call", "args"} => ~CallsHeld /\ CallIndex(q, f.call) = ItemIndex(q, f.call)
      BY <1>9, <2>2, <2>4 DEF CallsHeld, CallIndex
    <3>3. CASE f.kind = "call"
      <4>1. p = <<Chunk("tool", ItemIndex(q, f.call), f.call, <<>>)>>
        BY <3>1, <3>3
      <4>2. p = <<ToolFor(q, f)>> /\ SendsTool(f)
        BY <1>9, <3>2, <3>3, <4>1 DEF ToolFor, SendsTool
      <4>3. QED
        BY <1>4, <4>2 DEF q
    <3>4. CASE f.kind = "args"
      <4>1. p = <<Chunk("tool", ItemIndex(q, f.call), f.call, <<n>>)>>
        BY <3>1, <3>4
      <4>2. p = <<ToolFor(q, f)>> /\ SendsTool(f)
        BY <1>9, <3>2, <3>4, <4>1 DEF ToolFor, SendsTool, n
      <4>3. QED
        BY <1>4, <4>2 DEF q
    <3>5. CASE f.kind \notin {"call", "args"}
      <4>1. p = <<TextChunk(f.kind, <<n>>)>>
        BY <3>1, <3>5
      <4>2. ~SendsTool(f)
        BY <3>5 DEF SendsTool
      <4>3. QED
        BY <1>2, <1>3, <4>1, <4>2 DEF q
    <3>6. QED
      BY <3>3, <3>4, <3>5
  <2>5. QED
    BY <2>3, <2>4
<1>10. QED
  BY <1>6, <1>7, <1>8, <1>9 DEF Protocols

\* One event of a log says all that is said of a kind at an index.
LEMMA TextSingle ==
    ASSUME NEW s, IsSeq(s), NEW types, NEW kind, NEW at, NEW m \in DOMAIN s,
           \A i \in DOMAIN s : i # m => ~Speaks(s[i], types, kind, at),
           Speaks(s[m], types, kind, at) => s[m].data \in Seq(Nat)
    PROVE  Text(s, types, kind, at) = Word(s[m], types, kind, at)
<1> DEFINE n == Len(s)
           a == SubSeq(s, 1, m - 1)
           b == SubSeq(s, m + 1, n)
           e == s[m]
<1>1. s \in Seq(ToSet(s)) /\ n \in Nat /\ DOMAIN s = 1 .. n /\ m \in 1 .. n
  BY LenProperties DEF IsSeq
<1>2. IsSeq(a) /\ \A i \in 1 .. m - 1 : a[i] = s[i] /\ i \in DOMAIN s /\ i # m
  <2>1. m - 1 \in Nat /\ m - 1 <= Len(s)
    BY <1>1
  <2>2. QED
    BY <1>1, <2>1, CutLog
<1>3. DOMAIN a = 1 .. m - 1
  <2>1. m - 1 \in Nat /\ m - 1 <= Len(s)
    BY <1>1
  <2>2. QED
    BY <2>1, CutLog
<1>4. b \in Seq(ToSet(s)) /\ Len(b) = n - m /\ \A i \in 1 .. n - m : b[i] = s[m + i]
  BY <1>1
<1>5. IsSeq(b) /\ DOMAIN b = 1 .. n - m
  BY <1>4, SeqFacts
<1>6. Len(a) = m - 1
  BY <1>1, <1>2, <1>3, LenProperties DEF IsSeq
<1>7. IsSeq(<<e>>) /\ Len(<<e>>) = 1
  BY OneSeq
<1> DEFINE u == <<e>>
           v == u \o b
           z == a \o v
<1>18. IsSeq(u) /\ Len(u) = 1 /\ u[1] = e
  BY <1>7
<1> HIDE DEF a, b, e, u
<1>8. s = z
  <2>1. /\ IsSeq(v) /\ Len(v) = 1 + (n - m)
        /\ \A i \in 1 .. 1 + (n - m) : v[i] = IF i <= 1 THEN u[i] ELSE b[i - 1]
    <3>1. IsSeq(u) /\ IsSeq(b)
      BY <1>5, <1>18
    <3>2. /\ IsSeq(u \o b) /\ Len(u \o b) = Len(u) + Len(b)
          /\ \A i \in 1 .. Len(u) + Len(b) : (u \o b)[i] = IF i <= Len(u) THEN u[i] ELSE b[i - Len(u)]
      BY <3>1, ConcatFacts
    <3>3. Len(u) = 1 /\ Len(b) = n - m
      BY <1>4, <1>18
    <3>4. QED
      BY <3>2, <3>3, Zenon
  <2> HIDE DEF v
  <2>2. /\ IsSeq(z) /\ Len(z) = (m - 1) + (1 + (n - m)) /\ DOMAIN z = 1 .. (m - 1) + (1 + (n - m))
        /\ \A i \in 1 .. (m - 1) + (1 + (n - m)) : z[i] = IF i <= m - 1 THEN a[i] ELSE v[i - (m - 1)]
    <3>1. IsSeq(a) /\ IsSeq(v)
      BY <1>2, <2>1
    <3>2. /\ IsSeq(a \o v) /\ Len(a \o v) = Len(a) + Len(v) /\ DOMAIN (a \o v) = 1 .. Len(a) + Len(v)
          /\ \A i \in 1 .. Len(a) + Len(v) : (a \o v)[i] = IF i <= Len(a) THEN a[i] ELSE v[i - Len(a)]
      BY <3>1, ConcatFacts
    <3>3. Len(a) = m - 1 /\ Len(v) = 1 + (n - m)
      BY <1>6, <2>1
    <3>4. QED
      BY <3>2, <3>3, Zenon
  <2> HIDE DEF z
  <2>3. (m - 1) + (1 + (n - m)) = n
    BY <1>1
  <2>4. ASSUME NEW i \in 1 .. n PROVE z[i] = s[i]
    <3>1. CASE i <= m - 1
      <4>1. i \in 1 .. m - 1
        BY <1>1, <3>1
      <4>2. QED
        BY <1>2, <2>2, <2>3, <3>1, <4>1
    <3>2. CASE i = m
      <4>1. ~(i <= m - 1) /\ i - (m - 1) = 1 /\ 1 \in 1 .. 1 + (n - m)
        BY <1>1, <3>2
      <4>2. z[i] = v[i - (m - 1)]
        BY <2>2, <2>3, <4>1
      <4>4. v[1] = u[1]
        BY <2>1, <4>1
      <4>3. QED
        BY <1>18, <3>2, <4>1, <4>2, <4>4 DEF e
    <3>3. CASE i > m
      <4>1. /\ ~(i <= m - 1) /\ i - (m - 1) \in 1 .. 1 + (n - m) /\ ~(i - (m - 1) <= 1)
            /\ (i - (m - 1)) - 1 = i - m /\ i - m \in 1 .. n - m /\ m + (i - m) = i
        BY <1>1, <3>3
      <4>2. z[i] = v[i - (m - 1)]
        BY <2>2, <2>3, <4>1
      <4>3. v[i - (m - 1)] = b[i - m]
        BY <2>1, <4>1
      <4>4. b[i - m] = s[m + (i - m)]
        BY <1>4, <4>1
      <4>5. QED
        BY <4>1, <4>2, <4>3, <4>4
    <3>4. QED
      BY <1>1, <3>1, <3>2, <3>3
  <2>5. /\ s = [i \in 1 .. n |-> s[i]] /\ z = [i \in 1 .. n |-> z[i]]
    BY <1>1, <2>2, <2>3 DEF IsSeq
  <2>6. [i \in 1 .. n |-> s[i]] = [i \in 1 .. n |-> z[i]]
    BY <2>4
  <2>7. QED
    BY <2>5, <2>6, Zenon
<1>9. \A x \in ToSet(a) : ~Speaks(x, types, kind, at)
  BY <1>2, <1>3 DEF ToSet
<1>10. \A x \in ToSet(b) : ~Speaks(x, types, kind, at)
  <2>1. \A i \in 1 .. n - m : m + i \in DOMAIN s /\ m + i # m
    BY <1>1
  <2>2. QED
    BY <1>4, <1>5, <2>1 DEF ToSet
<1>11. Wordy(a, types, kind, at) /\ Text(a, types, kind, at) = <<>>
  BY <1>2, <1>9, TextNone
<1>12. Wordy(b, types, kind, at) /\ Text(b, types, kind, at) = <<>>
  BY <1>5, <1>10, TextNone
<1>13. Wordy(u, types, kind, at) /\ Text(u, types, kind, at) = Word(e, types, kind, at)
  BY TextOne DEF e, u
<1>14. Wordy(v, types, kind, at) /\ Text(v, types, kind, at) = Word(e, types, kind, at) \o <<>>
  <2>1. IsSeq(u) /\ IsSeq(b) /\ Wordy(u, types, kind, at) /\ Wordy(b, types, kind, at)
    BY <1>5, <1>18, <1>12, <1>13
  <2>2. /\ Wordy(u \o b, types, kind, at)
        /\ Text(u \o b, types, kind, at) = Text(u, types, kind, at) \o Text(b, types, kind, at)
    BY <2>1, TextConcat
  <2>3. QED
    BY <1>12, <1>13, <2>2, Zenon
<1>19. IsSeq(v)
  BY <1>5, <1>18, ConcatSeq
<1> HIDE DEF v
<1>15. Text(z, types, kind, at) = <<>> \o (Word(e, types, kind, at) \o <<>>)
  <2>1. IsSeq(a) /\ IsSeq(v) /\ Wordy(a, types, kind, at) /\ Wordy(v, types, kind, at)
    BY <1>2, <1>11, <1>14, <1>19
  <2>2. Text(a \o v, types, kind, at) = Text(a, types, kind, at) \o Text(v, types, kind, at)
    BY <2>1, TextConcat
  <2>3. QED
    BY <1>11, <1>14, <2>2, Zenon
<1>16. Word(e, types, kind, at) \in Seq(Nat)
  BY <1>13, <1>18, WordsType
<1>17. \A w \in Seq(Nat) : <<>> \o (w \o <<>>) = w
  OBVIOUS
<1> HIDE DEF z
<1>20. QED
  BY <1>8, <1>15, <1>16, <1>17 DEF e

\* The snapshot has the calls that were held, and no other.
LEMMA SnapshotIsCalls ==
    ASSUME NEW r, Answer(r), source = "responses"
    PROVE  LET p == SnapshotChunks(r, held)
           IN  /\ IsSeq(p) /\ Wordy(p, {}, "tool", AnyIndex)
               /\ ~CallsHeld => NoTools(p)
               /\ CallsHeld =>
                    /\ \A e \in ToSet(p) : e.kind = "tool" => \E c \in CallsIn(r) : e.index = c - 1 /\ e.call = c
                    /\ \A c \in CallsIn(r) : /\ \E e \in ToSet(p) : e.kind = "tool" /\ e.index = c - 1
                                             /\ Piping(p, c - 1) = Salvage(ArgsOf(r, c))
<1> DEFINE N == Cardinality(CallsIn(r))
           some == {c \in 1 .. N : ~EmittedToolCall(r, held, c)}
           missing == Ascending(some)
           M == Cardinality(some)
           tools == [k \in DOMAIN missing |-> Chunk("tool", missing[k] - 1, missing[k], Salvage(ArgsOf(r, missing[k])))]
           a == SnapshotText(r, held, "reasoning")
           b == SnapshotText(r, held, "text")
           p == SnapshotChunks(r, held)
<1>1. /\ p = (a \o b) \o tools
      /\ some \in SUBSET (1 .. N) /\ N \in Nat /\ IsSeq(tools)
  BY SnapshotCalls
<1>2. r \in Seq(Fragments) /\ CallsIn(r) = 1 .. N /\ DOMAIN r = 1 .. Len(r)
  BY AnswerFacts DEF Answer
<1>3. \A c \in 1 .. N : EmittedToolCall(r, held, c) <=> "call" \notin held
  <2>1. ASSUME NEW i \in DOMAIN r, NEW c \in 1 .. N, r[i].call = c
        PROVE  Held(r, held, i) <=> "call" \in held
    <3>1. c # 0
      OBVIOUS
    <3>2. r[i].kind \in {"call", "args"}
      BY <2>1, <3>1, AnswerFacts DEF Answer, Fragments, FragmentKinds
    <3>3. QED
      BY <3>2 DEF Held
  <2>2. \A c \in 1 .. N : \E i \in DOMAIN r : r[i].call = c
    BY <1>2 DEF CallsIn
  <2>3. QED
    BY <2>1, <2>2 DEF EmittedToolCall
<1>4. IF "call" \in held THEN some = 1 .. N ELSE some = {}
  BY <1>3
<1>5. /\ M \in Nat /\ DOMAIN missing = 1 .. M
      /\ \A k \in 1 .. M : missing[k] \in some
      /\ \A k, j \in 1 .. M : missing[k] = missing[j] => k = j
      /\ \A c \in some : \E k \in 1 .. M : missing[k] = c
  <2>1. some \in SUBSET Nat /\ some \subseteq 1 .. N
    BY <1>1
  <2>2. IsFiniteSet(1 .. N)
    BY <1>1, FS_Interval
  <2>3. IsFiniteSet(some)
    BY <2>1, <2>2, FS_Subset
  <2> HIDE DEF some
  <2>4. QED
    BY <2>1, <2>3, AscendingOrder
<1>6. ASSUME NEW kind \in {"text", "reasoning"}
      PROVE  LET s == SnapshotText(r, held, kind) IN IsSeq(s) /\ NoTools(s)
  <2> DEFINE c == TextChunk(kind, OfKind(r, kind))
  <2>1. c.kind # "tool"
    BY ChunkIs DEF TextChunk
  <2>2. SnapshotText(r, held, kind) \in {<<>>, <<c>>}
    BY DEF SnapshotText
  <2> HIDE DEF c
  <2>3. QED
    BY <2>1, <2>2, NoToolsOne, NoToolsNone
<1>7. /\ DOMAIN tools = 1 .. M
      /\ \A k \in 1 .. M : /\ tools[k].kind = "tool" /\ tools[k].index = missing[k] - 1
                           /\ tools[k].call = missing[k] /\ tools[k].data = Salvage(ArgsOf(r, missing[k]))
  <2> HIDE DEF missing, some, M, N
  <2>1. DOMAIN tools = 1 .. M
    BY <1>5
  <2>2. ASSUME NEW k \in 1 .. M
        PROVE  /\ tools[k].kind = "tool" /\ tools[k].index = missing[k] - 1
               /\ tools[k].call = missing[k] /\ tools[k].data = Salvage(ArgsOf(r, missing[k]))
    <3>1. tools[k] = Chunk("tool", missing[k] - 1, missing[k], Salvage(ArgsOf(r, missing[k])))
      BY <1>5
    <3> HIDE DEF tools
    <3>2. QED
      BY <3>1, ChunkIs
  <2>3. QED
    BY <2>1, <2>2
<1> HIDE DEF a, b, tools, missing, some, M, N, p
<1>8. IsSeq(a \o b) /\ NoTools(a \o b)
  <2>1. IsSeq(a) /\ NoTools(a) /\ IsSeq(b) /\ NoTools(b)
    BY <1>6 DEF a, b
  <2>2. QED
    BY <2>1, ConcatSeq DEF NoTools
<1>9. IsSeq(p) /\ ToSet(p) = ToSet(a \o b) \cup ToSet(tools)
  BY <1>1, <1>8, ConcatSeq
<1>10. ToSet(tools) = {tools[k] : k \in 1 .. M}
  BY <1>7 DEF ToSet
<1>11. \A c : Salvage(ArgsOf(r, c)) \in Seq(Nat)
  BY <1>2, ArgsType, SalvageType
<1>12. Wordy(p, {}, "tool", AnyIndex)
  BY <1>7, <1>8, <1>9, <1>10, <1>11 DEF Wordy, Speaks, NoTools
<1>13. CASE ~CallsHeld
  <2>1. "call" \notin held
    BY <1>13 DEF CallsHeld
  <2>2. ToSet(tools) = {}
    BY <1>4, <1>5, <1>10, <2>1
  <2>3. QED
    BY <1>8, <1>9, <1>12, <1>13, <2>2 DEF NoTools, p
<1>14. CASE CallsHeld
  <2>1. some = 1 .. N
    BY <1>4, <1>14 DEF CallsHeld
  <2>2. \A e \in ToSet(p) : e.kind = "tool" => \E c \in CallsIn(r) : e.index = c - 1 /\ e.call = c
    <3>1. TAKE e \in ToSet(p)
    <3>2. HAVE e.kind = "tool"
    <3>3. PICK k \in 1 .. M : e = tools[k]
      BY <1>8, <1>9, <1>10, <3>2 DEF NoTools
    <3>4. missing[k] \in CallsIn(r)
      BY <1>2, <1>5, <2>1
    <3>5. QED
      BY <1>7, <3>3, <3>4
  <2>3. ASSUME NEW c \in CallsIn(r)
        PROVE  /\ \E e \in ToSet(p) : e.kind = "tool" /\ e.index = c - 1
               /\ Piping(p, c - 1) = Salvage(ArgsOf(r, c))
    <3>1. PICK k \in 1 .. M : missing[k] = c
      BY <1>2, <1>5, <2>1
    <3>2. tools[k] \in ToSet(p) /\ tools[k].kind = "tool" /\ tools[k].index = c - 1 /\ tools[k].data = Salvage(ArgsOf(r, c))
      BY <1>7, <1>9, <1>10, <3>1
    <3>3. c \in Nat /\ c - 1 \in Nat
      BY <1>1, <1>2
    <3>4. ASSUME NEW j \in 1 .. M, j # k PROVE ~Speaks(tools[j], {}, "tool", c - 1)
      <4>1. missing[j] # c /\ missing[j] \in Nat
        <5>1. missing[j] \in 1 .. N
          BY <1>5, <2>1
        <5>2. missing[j] \in Nat
          BY <1>1, <5>1
        <5>3. missing[j] # missing[k]
          BY <1>5, <3>4
        <5>4. QED
          BY <3>1, <5>2, <5>3
      <4>2. tools[j].index # c - 1
        BY <1>7, <3>3, <4>1
      <4>3. c - 1 # AnyIndex
        BY <3>3 DEF AnyIndex
      <4>4. QED
        BY <4>2, <4>3 DEF Speaks
    <3>5. Word(tools[k], {}, "tool", c - 1) = Salvage(ArgsOf(r, c))
      BY <3>2 DEF Word, Speaks
    <3>6. Text(tools, {}, "tool", c - 1) = Salvage(ArgsOf(r, c))
      <4>1. k \in DOMAIN tools /\ tools[k].data \in Seq(Nat)
            /\ \A i \in DOMAIN tools : i # k => ~Speaks(tools[i], {}, "tool", c - 1)
        BY <1>7, <1>11, <3>2, <3>4
      <4>2. Text(tools, {}, "tool", c - 1) = Word(tools[k], {}, "tool", c - 1)
        BY <1>1, <4>1, TextSingle
      <4>3. QED
        BY <3>5, <4>2
    <3>7. Wordy(a \o b, {}, "tool", c - 1) /\ Text(a \o b, {}, "tool", c - 1) = <<>>
      <4>1. \A e \in ToSet(a \o b) : ~Speaks(e, {}, "tool", c - 1)
        BY <1>8 DEF NoTools, Speaks
      <4>2. QED
        BY <1>8, <4>1, TextNone
    <3>8. Wordy(tools, {}, "tool", c - 1)
      BY <1>7, <1>10, <1>11 DEF Wordy
    <3>9. Text(p, {}, "tool", c - 1) = <<>> \o Salvage(ArgsOf(r, c))
      <4> DEFINE ab == a \o b
      <4>1. IsSeq(ab) /\ Wordy(ab, {}, "tool", c - 1) /\ Text(ab, {}, "tool", c - 1) = <<>> /\ p = ab \o tools
        BY <1>1, <1>8, <3>7
      <4> HIDE DEF ab
      <4>2. Text(ab \o tools, {}, "tool", c - 1) = Text(ab, {}, "tool", c - 1) \o Text(tools, {}, "tool", c - 1)
        BY <1>1, <3>8, <4>1, TextConcat
      <4>3. QED
        BY <3>6, <4>1, <4>2
    <3>10. <<>> \o Salvage(ArgsOf(r, c)) = Salvage(ArgsOf(r, c))
      BY <1>11
    <3>11. QED
      BY <3>2, <3>9, <3>10 DEF Piping
  <2>4. QED
    BY <1>9, <1>12, <1>14, <2>2, <2>3 DEF p
<1>15. QED
  BY <1>13, <1>14-----------------------------------------------------------------------------
(* What the client has heard, and what is in the pipe. *)

LEMMA ArgsSentType ==
    ASSUME NEW r, Answer(r), NEW c \in CallsIn(r)
    PROVE  ArgsSent(r, c) \in Seq(Nat)
<1>1. r \in Seq(Fragments)
  BY DEF Answer
<1>2. ArgsOf(r, c) \in Seq(Nat) /\ Opening(r, c) \in Nat
  BY <1>1, ArgsType, OpenedAt
<1>3. <<Opening(r, c)>> \in Seq(Nat)
  BY <1>2
<1>4. QED
  BY <1>2, <1>3, ArgsSentIs, SalvageType

LEMMA SafeFacts ==
    ASSUME NEW out, IsSeq(out), NEW r, Answer(r), CallsSafe(out, r)
    PROVE  /\ Telling(out)
           /\ \A b : Heard(out, b) \in Seq(Nat)
           /\ \A i \in Announced(out) : /\ out[i].kind = CallKind /\ out[i].index \in Nat
                                        /\ out[i].call \in CallsSent(r) /\ out[i].call \in CallsIn(r)
                                        /\ ArgsSent(r, out[i].call) \in Seq(Nat)
                                        /\ IsPrefix(Heard(out, out[i].index), ArgsSent(r, out[i].call))
           /\ \A i, j \in Announced(out) : out[i].call = out[j].call => i = j
           /\ \A i, j \in Announced(out) : out[i].index = out[j].index => i = j
<1>1. Telling(out)
  BY DEF CallsSafe, Telling
<1>2. \A b : Heard(out, b) \in Seq(Nat)
  BY <1>1, HeardTypes
<1>3. ASSUME NEW i \in Announced(out)
      PROVE  /\ out[i].call \in CallsIn(r) /\ ArgsSent(r, out[i].call) \in Seq(Nat)
  <2>1. out[i].call \in CallsIn(r)
    BY DEF CallsSafe, CallsSent
  <2>2. QED
    BY <2>1, ArgsSentType
<1>4. QED
  BY <1>1, <1>2, <1>3 DEF CallsSafe

LEMMA QuietSafe ==
    ASSUME NEW out, IsSeq(out), NEW r, CallsSafe(out, r), NEW q, Quiet(out, q)
    PROVE  CallsSafe(q, r)
<1>1. /\ Announced(q) = Announced(out) /\ Wordy(q, Pieces, CallKind, AnyIndex)
      /\ \A i \in Announced(out) : q[i] = out[i]
      /\ \A b \in Nat : Heard(q, b) = Heard(out, b)
  BY DEF Quiet, KeepsCalls, Telling
<1>2. \A i \in Announced(out) : Heard(q, q[i].index) = Heard(out, out[i].index)
  BY <1>1 DEF CallsSafe
<1>3. QED
  BY <1>1, <1>2 DEF CallsSafe

\* A write that is cut short has announced and told less.
LEMMA CutSafe ==
    ASSUME NEW q, IsSeq(q), NEW r, Answer(r), CallsSafe(q, r), NEW n \in Nat, n < Len(q)
    PROVE  CallsSafe(SubSeq(q, 1, n), r)
<1> DEFINE z == SubSeq(q, 1, n)
<1>1. Len(q) \in Nat /\ n <= Len(q)
  BY LenProperties DEF IsSeq
<1>2. Announced(z) \subseteq Announced(q) /\ \A i \in Announced(z) : z[i] = q[i]
  BY <1>1, AnnouncedCut
<1>3. Telling(q)
  BY SafeFacts
<1>4. \A b : Wordy(q, Pieces, CallKind, b)
  BY <1>3, HeardTypes
<1>5. /\ IsSeq(z) /\ Wordy(z, Pieces, CallKind, AnyIndex)
      /\ \A b : IsPrefix(Text(z, Pieces, CallKind, b), Text(q, Pieces, CallKind, b))
  BY <1>4, TextCut
<1>6. Telling(z)
  BY <1>5 DEF Telling
<1> HIDE DEF z
<1>7. \A b : IsPrefix(Heard(z, b), Heard(q, b)) /\ Heard(z, b) \in Seq(Nat)
  BY <1>5, <1>6, HeardTypes DEF Heard
<1>8. ASSUME NEW i \in Announced(z)
      PROVE  /\ z[i].kind = CallKind /\ z[i].index \in Nat /\ z[i].call \in CallsSent(r)
             /\ IsPrefix(Heard(z, z[i].index), ArgsSent(r, z[i].call))
  <2>1. i \in Announced(q) /\ z[i] = q[i]
    BY <1>2
  <2> DEFINE a == Heard(z, q[i].index)
             b == Heard(q, q[i].index)
             c == ArgsSent(r, q[i].call)
  <2>2. /\ q[i].kind = CallKind /\ q[i].index \in Nat /\ q[i].call \in CallsSent(r)
        /\ c \in Seq(Nat) /\ IsPrefix(b, c) /\ b \in Seq(Nat)
    BY <2>1, SafeFacts
  <2>3. a \in Seq(Nat) /\ IsPrefix(a, b)
    BY <1>7
  <2> HIDE DEF a, b, c
  <2>4. IsPrefix(a, c)
    BY <2>2, <2>3, PrefixTransitive
  <2>5. QED
    BY <2>1, <2>2, <2>4 DEF a, c
<1>9. \A i, j \in Announced(z) : z[i].call = z[j].call \/ z[i].index = z[j].index => i = j
  BY <1>2 DEF CallsSafe
<1>10. QED
  BY <1>5, <1>8, <1>9 DEF CallsSafe, z

LEMMA GrownSafe ==
    ASSUME NEW out, IsSeq(out), NEW r, Answer(r), CallsSafe(out, r), NEW f \in Fragments, Answer(Append(r, f)),
           ~CallsHeld \/ Announced(out) = {}
    PROVE  CallsSafe(out, Append(r, f))
<1>1. CallsSent(r) \subseteq CallsSent(Append(r, f))
  BY CallsSentGrow
<1>2. ASSUME NEW i \in Announced(out)
      PROVE  IsPrefix(Heard(out, out[i].index), ArgsSent(Append(r, f), out[i].call))
  <2>0. ~CallsHeld
    OBVIOUS
  <2> DEFINE a == Heard(out, out[i].index)
             b == ArgsSent(r, out[i].call)
             c == ArgsSent(Append(r, f), out[i].call)
  <2>1. out[i].call \in CallsIn(r) /\ a \in Seq(Nat) /\ b \in Seq(Nat) /\ IsPrefix(a, b)
    BY SafeFacts
  <2>2. c \in Seq(Nat) /\ IsPrefix(b, c)
    BY <2>0, <2>1, ArgsSentGrows
  <2> HIDE DEF a, b, c
  <2>3. IsPrefix(a, c)
    BY <2>1, <2>2, PrefixTransitive
  <2>4. QED
    BY <2>3 DEF a, c
<1>3. QED
  BY <1>1, <1>2 DEF CallsSafe

LEMMA PipeSplit ==
    ASSUME NEW p, IsSeq(p), p # <<>>, Wordy(p, {}, "tool", AnyIndex)
    PROVE  LET h == Head(p)
               s == Tail(p)
               Here(b) == h.kind = "tool" /\ h.index = b
           IN  /\ IsSeq(s) /\ Wordy(s, {}, "tool", AnyIndex) /\ h \in ToSet(p) /\ ToSet(s) \subseteq ToSet(p)
               /\ \A b \in Nat : /\ Piping(p, b) \in Seq(Nat) /\ Piping(s, b) \in Seq(Nat)
                                 /\ Here(b) => h.data \in Seq(Nat) /\ Piping(p, b) = h.data \o Piping(s, b)
                                 /\ ~Here(b) => Piping(p, b) = Piping(s, b) /\ ToolsAt(s, b) = ToolsAt(p, b)
<1> DEFINE h == Head(p)
           s == Tail(p)
           Here(b) == h.kind = "tool" /\ h.index = b
<1>1. /\ h \in ToSet(p) /\ IsSeq(s) /\ ToSet(s) \subseteq ToSet(p)
  BY HeadTailSeq
<1>2. Wordy(s, {}, "tool", AnyIndex)
  BY TextHead
<1>3. ToSet(p) \subseteq {h} \cup ToSet(s)
  <2>1. p \in Seq(ToSet(p)) /\ Len(p) \in Nat /\ DOMAIN p = 1 .. Len(p)
    BY LenProperties DEF IsSeq
  <2>2. /\ Len(s) = Len(p) - 1 /\ DOMAIN s = 1 .. Len(p) - 1
        /\ \A i \in 1 .. Len(p) - 1 : s[i] = p[i + 1]
    BY <2>1
  <2>3. h = p[1]
    BY <2>1
  <2> HIDE DEF h, s
  <2>4. \A i \in 1 .. Len(p) : i = 1 \/ (i - 1 \in 1 .. Len(p) - 1 /\ (i - 1) + 1 = i)
    BY <2>1
  <2>5. \A i \in 1 .. Len(p) : p[i] = h \/ \E j \in 1 .. Len(p) - 1 : s[j] = p[i]
    BY <2>2, <2>3, <2>4
  <2>6. QED
    BY <2>1, <2>2, <2>5 DEF ToSet
<1>4. ASSUME NEW b \in Nat
      PROVE  /\ Piping(p, b) \in Seq(Nat) /\ Piping(s, b) \in Seq(Nat)
             /\ Here(b) => h.data \in Seq(Nat) /\ Piping(p, b) = h.data \o Piping(s, b)
             /\ ~Here(b) => Piping(p, b) = Piping(s, b) /\ ToolsAt(s, b) = ToolsAt(p, b)
  <2>1. Wordy(p, {}, "tool", b)
    BY DEF Wordy, Speaks
  <2>2. /\ Wordy(s, {}, "tool", b) /\ Text(p, {}, "tool", b) = Word(h, {}, "tool", b) \o Text(s, {}, "tool", b)
        /\ Speaks(h, {}, "tool", b) => h.data \in Seq(Nat)
    BY <2>1, TextHead
  <2>3. Text(p, {}, "tool", b) \in Seq(Nat) /\ Text(s, {}, "tool", b) \in Seq(Nat)
    BY <1>1, <2>1, <2>2, WordsType
  <2> HIDE DEF s, h
  <2>4. Speaks(h, {}, "tool", b) <=> Here(b)
    BY DEF Speaks, AnyIndex
  <2>5. ~Here(b) => ToolsAt(s, b) = ToolsAt(p, b)
    BY <1>1, <1>3 DEF ToolsAt
  <2>6. Word(h, {}, "tool", b) = IF Here(b) THEN h.data ELSE <<>>
    BY <2>4 DEF Word
  <2>7. \A w \in Seq(Nat) : <<>> \o w = w
    OBVIOUS
  <2>8. QED
    BY <2>2, <2>3, <2>4, <2>5, <2>6, <2>7 DEF Piping
<1>5. QED
  BY <1>1, <1>2, <1>4-----------------------------------------------------------------------------
(* A chunk goes from the pipe to the client. *)

Flows(out, p, r, done) ==
    CallsSafe(out, r) /\ PipedCalls(p, r) /\ \A c \in CallsIn(r) : CallFlow(out, p, r, done, c)
\* What the source has forwarded of a call.
Sent(r, done, c) == IF Awaited(done) THEN <<>> ELSE ArgsSent(r, c)

LEMMA FlowIs ==
    ASSUME NEW out, NEW p, NEW r, NEW done, NEW c
    PROVE  CallFlow(out, p, r, done, c) <=>
             /\ \A i \in Announced(out) : out[i].call = c =>
                    Heard(out, out[i].index) \o Piping(p, CallIndex(r, c)) = Sent(r, done, c)
             /\ (\A i \in Announced(out) : out[i].call # c) =>
                    /\ Piping(p, CallIndex(r, c)) = Sent(r, done, c)
                    /\ c \in CallsSent(r) /\ ~Awaited(done) => ToolsAt(p, CallIndex(r, c)) # {}
                    /\ \A k \in ToolsAt(p, CallIndex(r, c)) : k.call = c
  BY Zenon DEF CallFlow, Sent

LEMMA SentIs ==
    ASSUME NEW r, Answer(r), NEW done, NEW c \in CallsIn(r), NEW a \in Seq(Nat), NEW b \in Seq(Nat),
           a \o b = Sent(r, done, c)
    PROVE  IsPrefix(a, ArgsSent(r, c))
<1>1. ArgsSent(r, c) \in Seq(Nat)
  BY ArgsSentType
<1>2. CASE Awaited(done)
  <2>1. a \o b = <<>>
    BY <1>2 DEF Sent
  <2>2. a = <<>>
    BY <2>1
  <2>3. <<>> \in Seq(Nat) /\ <<>> \o ArgsSent(r, c) = ArgsSent(r, c)
    BY <1>1
  <2>4. IsPrefix(<<>>, <<>> \o ArgsSent(r, c))
    BY <1>1, <2>3, PrefixOfConcat
  <2> QED  BY <2>2, <2>3, <2>4, Zenon
<1>3. CASE ~Awaited(done)
  <2>1. a \o b = ArgsSent(r, c)
    BY <1>3 DEF Sent
  <2>2. IsPrefix(a, a \o b)
    BY PrefixOfConcat
  <2> QED  BY <2>1, <2>2
<1> QED  BY <1>2, <1>3

LEMMA QuietFlows ==
    ASSUME NEW out, IsSeq(out), NEW p, NEW r, NEW done, Flows(out, p, r, done), NEW q, Quiet(out, q)
    PROVE  Flows(q, p, r, done)
<1>1. CallsSafe(out, r) /\ PipedCalls(p, r) /\ \A c \in CallsIn(r) : CallFlow(out, p, r, done, c)
  BY DEF Flows
<1>2. CallsSafe(q, r)
  BY <1>1, QuietSafe
<1>3. /\ Announced(q) = Announced(out) /\ \A i \in Announced(out) : q[i] = out[i]
      /\ \A b \in Nat : Heard(q, b) = Heard(out, b)
  BY DEF Quiet, KeepsCalls
<1>4. \A i \in Announced(out) : out[i].index \in Nat
  BY <1>1 DEF CallsSafe
<1>5. ASSUME NEW c \in CallsIn(r)
      PROVE  CallFlow(q, p, r, done, c)
  <2>1. CallFlow(out, p, r, done, c)
    BY <1>1
  <2>2. \A i \in Announced(out) : Heard(q, q[i].index) = Heard(out, out[i].index) /\ q[i].call = out[i].call
    BY <1>3, <1>4
  <2> QED  BY <1>3, <2>1, <2>2, FlowIs, Zenon
<1> QED  BY <1>1, <1>2, <1>5 DEF Flows

LEMMA PipeShorter ==
    ASSUME NEW p, IsSeq(p), p # <<>>, NEW r, PipedCalls(p, r)
    PROVE  PipedCalls(Tail(p), r)
<1>1. Wordy(p, {}, "tool", AnyIndex)
  BY DEF PipedCalls
<1>2. Wordy(Tail(p), {}, "tool", AnyIndex) /\ ToSet(Tail(p)) \subseteq ToSet(p)
  BY <1>1, PipeSplit
<1> QED  BY <1>2, Zenon DEF PipedCalls

LEMMA SkipFlows ==
    ASSUME NEW out, IsSeq(out), NEW p, IsSeq(p), p # <<>>, Head(p).kind # "tool", NEW r, Answer(r), NEW done,
           Flows(out, p, r, done)
    PROVE  Flows(out, Tail(p), r, done)
<1>1. CallsSafe(out, r) /\ PipedCalls(p, r) /\ \A c \in CallsIn(r) : CallFlow(out, p, r, done, c)
  BY DEF Flows
<1>2. Wordy(p, {}, "tool", AnyIndex)
  BY <1>1 DEF PipedCalls
<1>3. \A b \in Nat : Piping(p, b) = Piping(Tail(p), b) /\ ToolsAt(Tail(p), b) = ToolsAt(p, b)
  BY <1>2, PipeSplit
<1>4. \A c \in CallsIn(r) : CallIndex(r, c) \in Nat
  BY CallIndexes
<1>5. ASSUME NEW c \in CallsIn(r)
      PROVE  CallFlow(out, Tail(p), r, done, c)
  <2>1. CallFlow(out, p, r, done, c)
    BY <1>1
  <2>2. /\ Piping(Tail(p), CallIndex(r, c)) = Piping(p, CallIndex(r, c))
        /\ ToolsAt(Tail(p), CallIndex(r, c)) = ToolsAt(p, CallIndex(r, c))
    BY <1>3, <1>4
  <2> QED  BY <2>1, <2>2, FlowIs, Zenon
<1> QED  BY <1>1, <1>5, PipeShorter DEF Flows

\* A chunk of a call, of which the client is told.
LEMMA TakeFlows ==
    ASSUME NEW out, IsSeq(out), NEW p, IsSeq(p), p # <<>>, NEW r, Answer(r), NEW done,
           Flows(out, p, r, done), NEW call \in CallsSent(r),
           Head(p).kind = "tool", Head(p).index = CallIndex(r, call), NEW q, IsSeq(q), NEW at,
           TellsOld(out, q, call, at, Head(p).data) \/ TellsNew(out, q, call, at, Head(p).data)
    PROVE  Flows(q, Tail(p), r, done)
<1> DEFINE d == Head(p).data
           s == Tail(p)
           K(c) == CallIndex(r, c)
<1>1. CallsSafe(out, r) /\ PipedCalls(p, r) /\ \A c \in CallsIn(r) : CallFlow(out, p, r, done, c)
  BY DEF Flows
<1>2. Wordy(p, {}, "tool", AnyIndex)
  BY <1>1 DEF PipedCalls
<1>3. \A c \in CallsIn(r) : K(c) \in Nat
  BY CallIndexes
<1>4. CallsSent(r) \subseteq CallsIn(r)
  BY DEF CallsSent
<1>5. call \in CallsIn(r)
  BY <1>4
<1>6. \A c \in CallsIn(r) : K(c) = K(call) => c = call
  BY <1>5, CallIndexes
<1>7. /\ d \in Seq(Nat) /\ Piping(s, K(call)) \in Seq(Nat)
      /\ Piping(p, K(call)) = d \o Piping(s, K(call))
  BY <1>2, <1>3, <1>5, PipeSplit
<1>8. ASSUME NEW c \in CallsIn(r), c # call
      PROVE  Piping(s, K(c)) = Piping(p, K(c)) /\ ToolsAt(s, K(c)) = ToolsAt(p, K(c))
  <2>1. Head(p).index # K(c) /\ K(c) \in Nat
    BY <1>3, <1>6, <1>8
  <2> QED  BY <1>2, <2>1, PipeSplit
<1>9. PipedCalls(s, r)
  BY <1>1, PipeShorter
<1>10. /\ Telling(q) /\ \A i \in Announced(out) : q[i] = out[i]
       /\ at \in Nat /\ Heard(q, at) = Heard(out, at) \o d
       /\ \A b \in Nat : b # at => Heard(q, b) = Heard(out, b)
  <2>1. TellsAt(out, q, at, d)
    BY DEF TellsOld, TellsNew
  <2> QED  BY <2>1 DEF TellsAt, KeepsCalls
<1>11. Wordy(q, Pieces, CallKind, AnyIndex) /\ Heard(q, at) \in Seq(Nat)
  BY <1>10, HeardTypes DEF Telling
<1>12. /\ \A b : Heard(out, b) \in Seq(Nat)
       /\ \A i \in Announced(out) : /\ out[i].kind = CallKind /\ out[i].index \in Nat
                                     /\ out[i].call \in CallsSent(r)
                                     /\ IsPrefix(Heard(out, out[i].index), ArgsSent(r, out[i].call))
       /\ \A i, j \in Announced(out) : out[i].call = out[j].call => i = j
       /\ \A i, j \in Announced(out) : out[i].index = out[j].index => i = j
  BY <1>1, SafeFacts
<1> HIDE DEF d, s, K
<1>13. CallFlow(out, p, r, done, call)
  BY <1>1, <1>5

\* What has gone into the pipe of the call.
<1>14. ASSUME (Heard(out, at) \o d) \o Piping(s, K(call)) = Sent(r, done, call)
       PROVE  /\ Heard(q, at) \o Piping(s, K(call)) = Sent(r, done, call)
              /\ IsPrefix(Heard(q, at), ArgsSent(r, call))
  <2>1. Heard(q, at) \o Piping(s, K(call)) = Sent(r, done, call)
    BY <1>10, <1>14
  <2> QED  BY <1>5, <1>7, <1>11, <2>1, SentIs

\* The other calls.
<1>15. ASSUME NEW c \in CallsIn(r), c # call, {i \in Announced(q) : q[i].call = c} = {i \in Announced(out) : out[i].call = c},
              \A i \in Announced(out) : out[i].call = c => out[i].index # at
       PROVE  CallFlow(q, s, r, done, c)
  <2>1. CallFlow(out, p, r, done, c)
    BY <1>1
  <2>2. /\ \A i \in Announced(out) : out[i].call = c => Heard(out, out[i].index) \o Piping(p, K(c)) = Sent(r, done, c)
        /\ (\A i \in Announced(out) : out[i].call # c) =>
                    /\ Piping(p, K(c)) = Sent(r, done, c)
                    /\ c \in CallsSent(r) /\ ~Awaited(done) => ToolsAt(p, K(c)) # {}
                    /\ \A k \in ToolsAt(p, K(c)) : k.call = c
    BY <2>1, FlowIs, Zenon DEF K
  <2>3. Piping(s, K(c)) = Piping(p, K(c)) /\ ToolsAt(s, K(c)) = ToolsAt(p, K(c))
    BY <1>8, <1>15
  <2>4. ASSUME NEW i \in Announced(q), q[i].call = c
        PROVE  Heard(q, q[i].index) \o Piping(s, K(c)) = Sent(r, done, c)
    <3>1. i \in Announced(out) /\ out[i].call = c
      BY <1>15, <2>4
    <3>2. q[i] = out[i] /\ out[i].index \in Nat /\ out[i].index # at
      BY <1>10, <1>12, <1>15, <3>1
    <3>3. Heard(q, q[i].index) = Heard(out, out[i].index)
      BY <1>10, <3>2
    <3> QED  BY <2>2, <2>3, <3>1, <3>3
  <2>5. (\A i \in Announced(q) : q[i].call # c) => \A i \in Announced(out) : out[i].call # c
    BY <1>15
  <2> QED  BY <2>2, <2>3, <2>4, <2>5, FlowIs, Zenon DEF K
<1>16. CASE TellsOld(out, q, call, at, d)
  <2>1. /\ Announced(q) = Announced(out)
        /\ \E i \in Announced(out) : out[i].call = call /\ out[i].index = at
    BY <1>16 DEF TellsOld
  <2>2. PICK m \in Announced(out) : out[m].call = call /\ out[m].index = at
    BY <2>1
  <2>3. Heard(out, at) \o Piping(p, K(call)) = Sent(r, done, call)
    BY <1>13, <2>2, FlowIs, Zenon DEF K
  <2>4. (Heard(out, at) \o d) \o Piping(s, K(call)) = Sent(r, done, call)
    <3>1. Heard(out, at) \in Seq(Nat)
      BY <1>12
    <3>2. (Heard(out, at) \o d) \o Piping(s, K(call)) = Heard(out, at) \o (d \o Piping(s, K(call)))
      BY <1>7, <3>1, ConcatWords
    <3> QED  BY <1>7, <2>3, <3>2, Zenon
  <2>5. /\ Heard(q, at) \o Piping(s, K(call)) = Sent(r, done, call)
        /\ IsPrefix(Heard(q, at), ArgsSent(r, call))
    BY <1>14, <2>4
  <2>6. \A i \in Announced(out) : i # m => out[i].call # call /\ out[i].index # at
    BY <1>12, <2>2
  <2>7. CallsSafe(q, r)
    <3>1. ASSUME NEW i \in Announced(q)
          PROVE  /\ q[i].kind = CallKind /\ q[i].index \in Nat /\ q[i].call \in CallsSent(r)
                 /\ IsPrefix(Heard(q, q[i].index), ArgsSent(r, q[i].call))
      <4>1. i \in Announced(out) /\ q[i] = out[i]
        BY <1>10, <2>1
      <4>2. CASE i = m
        BY <1>12, <2>2, <2>5, <4>1, <4>2
      <4>3. CASE i # m
        <5>1. Heard(q, out[i].index) = Heard(out, out[i].index)
          BY <1>10, <1>12, <2>6, <4>1, <4>3
        <5> QED  BY <1>12, <4>1, <5>1
      <4> QED  BY <4>2, <4>3
    <3>2. ASSUME NEW i \in Announced(q), NEW j \in Announced(q), q[i].call = q[j].call \/ q[i].index = q[j].index
          PROVE  i = j
      BY <1>10, <1>12, <2>1, <3>2
    <3> QED  BY <1>11, <3>1, <3>2, Zenon DEF CallsSafe
  <2>8. ASSUME NEW c \in CallsIn(r)
        PROVE  CallFlow(q, s, r, done, c)
    <3>1. CASE c = call
      <4>1. ASSUME NEW i \in Announced(q), q[i].call = call
            PROVE  Heard(q, q[i].index) \o Piping(s, K(call)) = Sent(r, done, call)
        <5>1. i = m /\ q[i].index = at
          BY <1>10, <2>1, <2>2, <2>6, <4>1
        <5> QED  BY <2>5, <5>1
      <4>2. ~(\A i \in Announced(q) : q[i].call # call)
        BY <1>10, <2>1, <2>2
      <4> QED  BY <3>1, <4>1, <4>2, FlowIs, Zenon DEF K
    <3>2. CASE c # call
      <4>1. {i \in Announced(q) : q[i].call = c} = {i \in Announced(out) : out[i].call = c}
        BY <1>10, <2>1
      <4>2. \A i \in Announced(out) : out[i].call = c => out[i].index # at
        BY <2>2, <2>6, <3>2
      <4> QED  BY <1>15, <3>2, <4>1, <4>2
    <3> QED  BY <3>1, <3>2
  <2> QED  BY <1>9, <2>7, <2>8 DEF Flows, s
<1>17. CASE TellsNew(out, q, call, at, d)
  <2>1. /\ Heard(out, at) = <<>>
        /\ \A i \in Announced(out) : out[i].call # call /\ out[i].index # at
        /\ \E m : /\ m \notin Announced(out) /\ Announced(q) = Announced(out) \cup {m}
                  /\ q[m].call = call /\ q[m].index = at /\ q[m].kind = CallKind
    BY <1>17 DEF TellsNew
  <2>2. PICK m : /\ m \notin Announced(out) /\ Announced(q) = Announced(out) \cup {m}
                 /\ q[m].call = call /\ q[m].index = at /\ q[m].kind = CallKind
    BY <2>1
  <2>3. Piping(p, K(call)) = Sent(r, done, call)
    BY <1>13, <2>1, FlowIs, Zenon DEF K
  <2>4. (Heard(out, at) \o d) \o Piping(s, K(call)) = Sent(r, done, call)
    <3>1. <<>> \o d = d
      BY <1>7
    <3> QED  BY <1>7, <2>1, <2>3, <3>1, Zenon
  <2>5. /\ Heard(q, at) \o Piping(s, K(call)) = Sent(r, done, call)
        /\ IsPrefix(Heard(q, at), ArgsSent(r, call))
    BY <1>14, <2>4
  <2>7. CallsSafe(q, r)
    <3>1. ASSUME NEW i \in Announced(q)
          PROVE  /\ q[i].kind = CallKind /\ q[i].index \in Nat /\ q[i].call \in CallsSent(r)
                 /\ IsPrefix(Heard(q, q[i].index), ArgsSent(r, q[i].call))
      <4>2. CASE i = m
        BY <1>10, <2>2, <2>5, <4>2
      <4>3. CASE i # m
        <5>1. i \in Announced(out) /\ q[i] = out[i] /\ out[i].index # at
          BY <1>10, <2>1, <2>2, <4>3
        <5>2. Heard(q, out[i].index) = Heard(out, out[i].index)
          BY <1>10, <1>12, <5>1
        <5> QED  BY <1>12, <5>1, <5>2
      <4> QED  BY <4>2, <4>3
    <3>2. ASSUME NEW i \in Announced(q), NEW j \in Announced(q), q[i].call = q[j].call \/ q[i].index = q[j].index
          PROVE  i = j
      <4>1. \A k \in Announced(q) : k # m => k \in Announced(out) /\ q[k].call # call /\ q[k].index # at
        BY <1>10, <2>1, <2>2
      <4>2. CASE i # m /\ j # m
        BY <1>10, <1>12, <3>2, <4>1, <4>2
      <4>3. CASE i = m \/ j = m
        BY <2>2, <3>2, <4>1, <4>3
      <4> QED  BY <4>2, <4>3
    <3> QED  BY <1>11, <3>1, <3>2, Zenon DEF CallsSafe
  <2>8. ASSUME NEW c \in CallsIn(r)
        PROVE  CallFlow(q, s, r, done, c)
    <3>1. CASE c = call
      <4>1. ASSUME NEW i \in Announced(q), q[i].call = call
            PROVE  Heard(q, q[i].index) \o Piping(s, K(call)) = Sent(r, done, call)
        <5>1. i = m /\ q[i].index = at
          BY <1>10, <2>1, <2>2, <4>1
        <5> QED  BY <2>5, <5>1
      <4>2. ~(\A i \in Announced(q) : q[i].call # call)
        BY <2>2
      <4> QED  BY <3>1, <4>1, <4>2, FlowIs, Zenon DEF K
    <3>2. CASE c # call
      <4>1. {i \in Announced(q) : q[i].call = c} = {i \in Announced(out) : out[i].call = c}
        BY <1>10, <2>2, <3>2
      <4>2. \A i \in Announced(out) : out[i].call = c => out[i].index # at
        BY <2>1
      <4> QED  BY <1>15, <3>2, <4>1, <4>2
    <3> QED  BY <3>1, <3>2
  <2> QED  BY <1>9, <2>7, <2>8 DEF Flows, s
<1> QED  BY <1>16, <1>17 DEF d

-----------------------------------------------------------------------------
(* What the target converters tell of the calls. *)

LEMMA QuietSame ==
    ASSUME NEW out, Telling(out)
    PROVE  Quiet(out, out)
  BY DEF Quiet, KeepsCalls

LEMMA QuietTells ==
    ASSUME NEW out, NEW q, Quiet(out, q), Telling(out), NEW call, NEW at \in Nat,
           \E i \in Announced(out) : out[i].call = call /\ out[i].index = at
    PROVE  TellsOld(out, q, call, at, <<>>)
<1>1. Heard(out, at) \in Seq(Nat)
  BY HeardTypes
<1>2. Heard(out, at) \o <<>> = Heard(out, at)
  BY <1>1, ConcatEmptySeq
<1>3. Heard(q, at) = Heard(out, at) /\ \A b \in Nat : Heard(q, b) = Heard(out, b)
  BY DEF Quiet
<1>4. TellsAt(out, q, at, <<>>)
  BY <1>2, <1>3 DEF Quiet, TellsAt
<1> QED  BY <1>4 DEF Quiet, TellsOld

\* Events of other types than those of a piece or of an announcement.
LEMMA AddsQuiet ==
    ASSUME target # "chat", NEW x, NEW y, NEW T, IsTranslator(x), Telling(x.out), Adds(x, y, T),
           T \cap {"added", "delta"} = {}
    PROVE  IsTranslator(y) /\ Quiet(x.out, y.out)
<1> DEFINE out == x.out
           q == y.out
           n == Len(out)
<1>1. PICK w : IsSeq(w) /\ TypesOf(w) \subseteq T /\ q = out \o w
  BY DEF Adds
<1>2. IsTranslator(y) /\ IsSeq(q) /\ IsSeq(out)
  BY DEF Adds, IsTranslator
<1>3. Pieces = {"delta"} /\ Apart(Pieces, T)
  BY DEF Pieces, Apart
<1>4. \A b : Wordy(out, Pieces, CallKind, b)
  BY HeardTypes
<1>5. \A b : Wordy(q, Pieces, CallKind, b) /\ Text(q, Pieces, CallKind, b) = Text(out, Pieces, CallKind, b)
  BY <1>3, <1>4, AddsText
<1>6. Telling(q) /\ \A b \in Nat : Heard(q, b) = Heard(out, b)
  BY <1>2, <1>5 DEF Telling, Heard
<1> DEFINE k == Len(w)
<1>7. /\ n \in Nat /\ DOMAIN out = 1 .. n /\ k \in Nat /\ DOMAIN q = 1 .. n + k /\ DOMAIN w = 1 .. k
      /\ \A i \in 1 .. n + k : q[i] = IF i <= n THEN out[i] ELSE w[i - n]
  BY <1>1, <1>2, ConcatFacts
<1>8. \A i \in 1 .. k : w[i].type \in T
  BY <1>1, <1>7 DEF TypesOf, ToSet
<1> HIDE DEF out, q, n, k
<1>9. \A i \in 1 .. n + k : i \notin 1 .. n => q[i].type # "added"
  <2> TAKE i \in 1 .. n + k
  <2>1. i \notin 1 .. n => i - n \in 1 .. k /\ q[i] = w[i - n]
    BY <1>7
  <2> QED  BY <1>8, <2>1
<1>10. \A i \in 1 .. n : i \in 1 .. n + k /\ q[i] = out[i]
  BY <1>7
<1>11. /\ Announced(q) = {i \in 1 .. n + k : q[i].type = "added" /\ q[i].kind = "call"}
       /\ Announced(out) = {i \in 1 .. n : out[i].type = "added" /\ out[i].kind = "call"}
  BY <1>7 DEF Announced
<1>12. Announced(q) = Announced(out) /\ \A i \in Announced(out) : q[i] = out[i]
  BY <1>9, <1>10, <1>11
<1> QED  BY <1>2, <1>6, <1>12 DEF Quiet, KeepsCalls, out, q

LEMMA EmitQuiet ==
    ASSUME NEW x, IsTranslator(x), Telling(x.out), NEW e, ~Announces(x.out, e), ~Speaking(e)
    PROVE  IsTranslator(Emit(x, e)) /\ Quiet(x.out, Emit(x, e).out)
<1>1. IsTranslator(Emit(x, e)) /\ Emit(x, e).out = Append(x.out, e)
  BY EmitFields
<1>2. Quiet(x.out, Append(x.out, e))
  BY QuietAppend
<1> QED  BY <1>1, <1>2

LEMMA EndsQuiet ==
    ASSUME target # "chat", NEW x, IsTranslator(x), Telling(x.out), NEW z, NEW type \in Ends, EndsWith(x, z, type)
    PROVE  IsTranslator(z) /\ Quiet(x.out, z.out)
<1>1. PICK y, e : Adds(x, y, {"done"}) /\ e.type = type /\ z = Emit(y, e)
  BY DEF EndsWith
<1>2. IsTranslator(y) /\ Quiet(x.out, y.out)
  BY <1>1, AddsQuiet
<1>3. ~Announces(y.out, e) /\ ~Speaking(e)
  BY <1>1 DEF Announces, Speaking, Speaks, Pieces, Ends
<1>4. IsTranslator(z) /\ Quiet(y.out, z.out)
  BY <1>1, <1>2, <1>3, EmitQuiet DEF Quiet, KeepsCalls
<1> QED  BY <1>2, <1>4, QuietThen

LEMMA CompleteQuiet ==
    ASSUME target \in Protocols, target # "chat", NEW x, IsTranslator(x), Telling(x.out)
    PROVE  IsTranslator(Complete(target, x)) /\ Quiet(x.out, Complete(target, x).out)
<1>1. CASE target = "responses"
  <2>1. EndsWith(x, Complete(target, x), "completed") /\ "completed" \in Ends
    BY <1>1, FinishEnds DEF Complete, Ends
  <2> QED  BY <2>1, EndsQuiet
<1>2. CASE target = "messages"
  <2>1. EndsWith(x, Complete(target, x), "completed") /\ "completed" \in Ends
    BY <1>2, ClaudeStopEnds DEF Complete, Ends
  <2> QED  BY <2>1, EndsQuiet
<1>3. CASE target = "generateContent"
  <2>1. Complete(target, x) = x
    BY <1>3 DEF Complete
  <2> QED  BY <2>1, QuietSame
<1> QED  BY <1>1, <1>2, <1>3 DEF Protocols

LEMMA AbandonQuiet ==
    ASSUME target # "chat", NEW x, IsTranslator(x), Telling(x.out)
    PROVE  IsTranslator(Abandon(target, x)) /\ Quiet(x.out, Abandon(target, x).out)
<1>1. CASE target = "responses"
  <2>1. EndsWith(x, Abandon(target, x), "failed") /\ "failed" \in Ends
    BY <1>1, FinishEnds DEF Abandon, Ends
  <2> QED  BY <2>1, EndsQuiet
<1>2. CASE target # "responses"
  <2>1. Abandon(target, x) = x
    BY <1>2 DEF Abandon
  <2> QED  BY <2>1, QuietSame
<1> QED  BY <1>1, <1>2

\* A text or a reasoning item.
LEMMA FinalizeActiveQuiet ==
    ASSUME target # "chat", NEW x, Items(x), Telling(x.out)
    PROVE  Quiet(x.out, FinalizeActive(x).out)
<1>1. IsTranslator(x)
  BY ItemsOut
<1>2. Adds(x, FinalizeActive(x), {"done"}) /\ {"done"} \cap {"added", "delta"} = {}
  BY <1>1, FinalizeActiveAdds
<1> QED  BY <1>1, <1>2, AddsQuiet

LEMMA OpenItemQuiet ==
    ASSUME target # "chat", NEW x, Items(x), Telling(x.out), NEW kind \in {"text", "reasoning"}
    PROVE  Quiet(x.out, OpenItem(x, kind).out) /\ OpenItem(x, kind).toolCalls = x.toolCalls
<1> DEFINE s == FinalizeActive(x)
           w == [s EXCEPT !.active = kind, !.next = @ + 1]
           e == Event("added", s.next, kind, 0, <<>>)
<1>1. OpenItem(x, kind) = Emit(w, e)
  BY DEF OpenItem
<1>2. Quiet(x.out, s.out) /\ IsTranslator(s) /\ s.toolCalls = x.toolCalls
  BY FinalizeActiveQuiet, FinalizeActiveItems DEF Items
<1>3. e.type = "added" /\ e.kind = kind
  BY EventIs
<1> HIDE DEF s, e
<1>4. IsTranslator(w) /\ w.out = s.out /\ w.toolCalls = s.toolCalls
  BY <1>2 DEF IsTranslator
<1> HIDE DEF w
<1>5. Emit(w, e).toolCalls = w.toolCalls
  BY <1>4, EmitFields
<1>6. ~Announces(w.out, e) /\ ~Speaking(e)
  BY <1>3 DEF Announces, Speaking, Speaks, Pieces
<1>7. Telling(w.out)
  BY <1>2, <1>4 DEF Quiet, KeepsCalls
<1>8. Quiet(w.out, Emit(w, e).out)
  BY <1>4, <1>6, <1>7, EmitQuiet
<1>9. Quiet(x.out, Emit(w, e).out)
  BY <1>2, <1>4, <1>8, QuietThen
<1> QED  BY <1>1, <1>2, <1>4, <1>5, <1>9

LEMMA ResponsesTextQuiet ==
    ASSUME target # "chat", NEW x, Items(x), Telling(x.out), NEW c, c.kind \in {"text", "reasoning"}
    PROVE  Quiet(x.out, ResponsesText(x, c).out) /\ ResponsesText(x, c).toolCalls = x.toolCalls
<1> DEFINE s == IF x.active = c.kind THEN x ELSE OpenItem(x, c.kind)
           w == [s EXCEPT !.buffer = @ \o c.data]
           e == Event("delta", s.next - 1, c.kind, 0, c.data)
<1>1. ResponsesText(x, c) = Emit(w, e)
  BY DEF ResponsesText
<1>2. Quiet(x.out, s.out) /\ IsTranslator(s) /\ s.toolCalls = x.toolCalls
  BY OpenItemQuiet, OpenItemItems, QuietSame DEF Items
<1>3. e.type = "delta" /\ e.kind = c.kind
  BY EventIs
<1> HIDE DEF s, e
<1>4. IsTranslator(w) /\ w.out = s.out /\ w.toolCalls = s.toolCalls
  BY <1>2 DEF IsTranslator
<1> HIDE DEF w
<1>5. Emit(w, e).toolCalls = w.toolCalls
  BY <1>4, EmitFields
<1>6. ~Announces(w.out, e) /\ ~Speaking(e)
  BY <1>3 DEF Announces, Speaking, Speaks, CallKind
<1>7. Telling(w.out)
  BY <1>2, <1>4 DEF Quiet, KeepsCalls
<1>8. Quiet(w.out, Emit(w, e).out)
  BY <1>4, <1>6, <1>7, EmitQuiet
<1>9. Quiet(x.out, Emit(w, e).out)
  BY <1>2, <1>4, <1>8, QuietThen
<1> QED  BY <1>1, <1>2, <1>4, <1>5, <1>9

\* A call item is opened under an index of its own.
LEMMA OpenToolCallTells ==
    ASSUME target # "chat", NEW x, Items(x), Telling(x.out), NEW index \in Nat, index \notin DOMAIN x.toolCalls,
           NEW call, \A i \in Announced(x.out) : x.out[i].call # call
    PROVE  LET y == OpenToolCall(x, index, call)
           IN  /\ IsTranslator(y) /\ DOMAIN y.toolCalls = DOMAIN x.toolCalls \cup {index}
               /\ \A k \in DOMAIN x.toolCalls : y.toolCalls[k] = x.toolCalls[k]
               /\ TellsNew(x.out, y.out, call, y.toolCalls[index].index, <<>>)
<1> DEFINE s == FinalizeActive(x)
           n == s.next
           tc == [index |-> n, call |-> call, args |-> <<>>]
           calls == [i \in DOMAIN s.toolCalls \cup {index} |-> IF i = index THEN tc ELSE s.toolCalls[i]]
           w == [s EXCEPT !.next = @ + 1, !.toolCalls = calls]
           e == Event("added", n, "call", call, <<>>)
           y == OpenToolCall(x, index, call)
<1>1. y = Emit(w, e)
  BY DEF OpenToolCall
<1>2. Items(s) /\ s.toolCalls = x.toolCalls /\ Quiet(x.out, s.out)
  BY FinalizeActiveItems, FinalizeActiveQuiet
<1>3. e.type = "added" /\ e.index = n /\ e.kind = "call" /\ e.call = call
  BY EventIs
<1> HIDE DEF s, e
<1>4. IsTranslator(s) /\ IsSeq(s.out) /\ ItemEvents(s.out, n)
  BY <1>2, ItemsOut
<1>5. n \in Nat /\ Indexes(s.out, "added") = 0 .. n - 1 /\ Indexes(s.out, "delta") \subseteq 0 .. n - 1
  BY <1>4, ItemCount DEF ItemEvents
<1>6. n \notin 0 .. n - 1
  BY <1>5
<1>7. IsFiniteSet(DOMAIN calls)
  BY <1>4, FS_AddElement DEF IsTranslator
<1>8. /\ DOMAIN calls = DOMAIN x.toolCalls \cup {index} /\ calls[index].index = n
      /\ \A i \in DOMAIN x.toolCalls : calls[i] = x.toolCalls[i]
  BY <1>2
<1> HIDE DEF calls, n
<1>9. IsTranslator(w) /\ w.out = s.out /\ w.toolCalls = calls
  BY <1>4, <1>7 DEF IsTranslator
<1> HIDE DEF w
<1>10. IsTranslator(y) /\ y.out = Append(s.out, e) /\ y.toolCalls = calls
  <2>1. IsTranslator(Emit(w, e)) /\ Emit(w, e).out = Append(w.out, e) /\ Emit(w, e).toolCalls = w.toolCalls
    BY <1>9, EmitFields
  <2> QED  BY <1>1, <1>9, <2>1
<1> HIDE DEF y
<1>11. Telling(s.out) /\ Announced(s.out) = Announced(x.out) /\ \A i \in Announced(x.out) : s.out[i] = x.out[i]
  BY <1>2 DEF Quiet, KeepsCalls
<1>12. Heard(s.out, n) = <<>>
  <2>1. \A f \in ToSet(s.out) : ~Speaks(f, Pieces, CallKind, n)
    <3> TAKE f \in ToSet(s.out)
    <3>1. f.type = "delta" => f.index \in Indexes(s.out, "delta")
      BY DEF Indexes, Events
    <3>2. n # AnyIndex
      BY <1>5 DEF AnyIndex
    <3> QED  BY <1>5, <1>6, <3>1, <3>2 DEF Speaks, Pieces
  <2> QED  BY <1>4, <2>1, TextNone DEF Heard
<1>13. \A i \in Announced(s.out) : s.out[i].call # call /\ s.out[i].index # n
  <2> TAKE i \in Announced(s.out)
  <2>1. i \in DOMAIN s.out /\ s.out[i].type = "added"
    BY DEF Announced
  <2>2. s.out[i].index \in Indexes(s.out, "added")
    BY <2>1 DEF Indexes, Events, ToSet
  <2> QED  BY <1>5, <1>6, <1>11, <2>2
<1>14. TellsNew(s.out, Append(s.out, e), e.call, e.index, <<>>)
  <2>1. Announces(s.out, e) /\ e.kind = CallKind /\ ~Speaking(e)
    BY <1>3 DEF Announces, CallKind, Speaking, Speaks, Pieces
  <2>2. e.index \in Nat /\ Heard(s.out, e.index) = <<>>
        /\ \A i \in Announced(s.out) : s.out[i].call # e.call /\ s.out[i].index # e.index
    BY <1>3, <1>5, <1>12, <1>13
  <2> QED  BY <1>11, <2>1, <2>2, NewAppend
<1>15. TellsNew(x.out, y.out, call, n, <<>>)
  <2>1. TellsNew(s.out, y.out, call, n, <<>>)
    BY <1>3, <1>10, <1>14
  <2>2. Quiet(x.out, s.out)
    BY <1>2
  <2> QED  BY <2>1, <2>2, QuietThen
<1> QED  BY <1>8, <1>10, <1>15 DEF y

\* The calls of the translator keep their items.
KeepsItems(x, y) ==
    /\ DOMAIN x.toolCalls \subseteq DOMAIN y.toolCalls
    /\ \A k \in DOMAIN x.toolCalls : y.toolCalls[k].index = x.toolCalls[k].index

\* A piece of the arguments of a call whose item is open.
LEMMA ResponsesToolOld ==
    ASSUME target # "chat", NEW x, Items(x), Telling(x.out), NEW c, c.index \in DOMAIN x.toolCalls, c.data \in Seq(Nat),
           NEW call, \E i \in Announced(x.out) : x.out[i].call = call /\ x.out[i].index = x.toolCalls[c.index].index
    PROVE  LET y == ResponsesTool(x, c)
           IN  /\ TellsOld(x.out, y.out, call, x.toolCalls[c.index].index, c.data)
               /\ KeepsItems(x, y) /\ DOMAIN y.toolCalls = DOMAIN x.toolCalls
<1> DEFINE tc == x.toolCalls[c.index]
           e == Event("delta", tc.index, "call", tc.call, c.data)
           y == ResponsesTool(x, c)
<1>1. y = IF c.data = <<>> THEN x ELSE Emit([x EXCEPT !.toolCalls[c.index].args = @ \o c.data], e)
  BY DEF ResponsesTool
<1>2. IsTranslator(x) /\ DOMAIN tc = {"index", "call", "args"} /\ tc.index \in Nat
  <2>1. IsTranslator(x) /\ IsSeq(x.out) /\ ItemEvents(x.out, x.next) /\ CallItems(x)
    BY ItemsOut
  <2>2. DOMAIN tc = {"index", "call", "args"} /\ OpenInItems(x.out, tc.index, "call", tc.args)
    BY <2>1 DEF CallItems
  <2> QED  BY <2>1, <2>2, ItemCount
<1>3. CASE c.data = <<>>
  <2>1. y = x
    BY <1>1, <1>3
  <2>2. Quiet(x.out, x.out)
    BY QuietSame
  <2>3. TellsOld(x.out, x.out, call, tc.index, <<>>)
    BY <1>2, <2>2, QuietTells
  <2>4. KeepsItems(x, x)
    BY DEF KeepsItems
  <2> QED  BY <1>3, <2>1, <2>3, <2>4
<1>4. CASE c.data # <<>>
  <2>1. e.type = "delta" /\ e.index = tc.index /\ e.kind = "call" /\ e.data = c.data
    BY EventIs
  <2>2. y = Emit([x EXCEPT !.toolCalls[c.index].args = @ \o c.data], e)
    BY <1>1, <1>4
  <2> DEFINE d == c.data
             k == c.index
             w == [x EXCEPT !.toolCalls[k].args = @ \o d]
             calls == w.toolCalls
  <2>3. y = Emit(w, e)
    BY <2>2
  <2>4. /\ DOMAIN w = DOMAIN x /\ w.out = x.out
        /\ calls = [x.toolCalls EXCEPT ![k] = [tc EXCEPT !.args = tc.args \o d]]
    BY <1>2 DEF IsTranslator
  <2>5. DOMAIN calls = DOMAIN x.toolCalls /\ \A j \in DOMAIN x.toolCalls : calls[j].index = x.toolCalls[j].index
    <3> DEFINE new == [tc EXCEPT !.args = tc.args \o d]
    <3>1. new.index = tc.index
      BY <1>2
    <3> HIDE DEF new, tc, calls, w
    <3>2. /\ DOMAIN calls = DOMAIN x.toolCalls /\ calls[k] = new
          /\ \A j \in DOMAIN x.toolCalls : j # k => calls[j] = x.toolCalls[j]
      BY <2>4 DEF new
    <3>3. ASSUME NEW j \in DOMAIN x.toolCalls
          PROVE  calls[j].index = x.toolCalls[j].index
      <4>1. CASE j = k
        BY <3>1, <3>2, <4>1 DEF tc
      <4>2. CASE j # k
        BY <3>2, <4>2
      <4> QED  BY <4>1, <4>2
    <3> QED  BY <3>2, <3>3
  <2>6. IsTranslator(w)
    BY <1>2, <2>4, <2>5 DEF IsTranslator
  <2> HIDE DEF w, e, y
  <2>7. y.out = Append(x.out, e) /\ y.toolCalls = calls
    <3>1. Emit(w, e).out = Append(w.out, e) /\ Emit(w, e).toolCalls = w.toolCalls
      BY <2>6, EmitFields
    <3> QED  BY <2>3, <2>4, <3>1
  <2>8. TellsOld(x.out, Append(x.out, e), call, e.index, e.data)
    <3>1. ~Announces(x.out, e) /\ Speaking(e)
      BY <2>1 DEF Announces, Speaking, Speaks, Pieces, CallKind, AnyIndex
    <3>2. e.data \in Seq(Nat) /\ e.index \in Nat /\ \E i \in Announced(x.out) : x.out[i].call = call /\ x.out[i].index = e.index
      BY <1>2, <2>1
    <3> QED  BY <3>1, <3>2, OldAppend
  <2>9. TellsOld(x.out, y.out, call, tc.index, c.data)
    BY <2>1, <2>7, <2>8
  <2>10. KeepsItems(x, y) /\ DOMAIN y.toolCalls = DOMAIN x.toolCalls
    BY <2>5, <2>7 DEF KeepsItems
  <2> QED  BY <2>9, <2>10 DEF y
<1> QED  BY <1>3, <1>4

LEMMA ResponsesToolNew ==
    ASSUME target # "chat", NEW x, Items(x), Telling(x.out), NEW c, c.index \in Nat, c.index \notin DOMAIN x.toolCalls,
           c.data \in Seq(Nat), \A i \in Announced(x.out) : x.out[i].call # c.call
    PROVE  LET y == ResponsesTool(x, c)
           IN  /\ TellsNew(x.out, y.out, c.call, y.toolCalls[c.index].index, c.data)
               /\ KeepsItems(x, y) /\ DOMAIN y.toolCalls = DOMAIN x.toolCalls \cup {c.index}
<1> DEFINE s == OpenToolCall(x, c.index, c.call)
           y == ResponsesTool(x, c)
           z == ResponsesTool(s, c)
           at == s.toolCalls[c.index].index
<1>1. /\ Items(s) /\ IsTranslator(s) /\ DOMAIN s.toolCalls = DOMAIN x.toolCalls \cup {c.index}
      /\ \A k \in DOMAIN x.toolCalls : s.toolCalls[k] = x.toolCalls[k]
      /\ TellsNew(x.out, s.out, c.call, at, <<>>)
  BY OpenToolCallItems, OpenToolCallTells
<1>2. y = z
  BY <1>1 DEF ResponsesTool
<1> HIDE DEF s, y
<1>3. Telling(s.out) /\ \E i \in Announced(s.out) : s.out[i].call = c.call /\ s.out[i].index = at
  BY <1>1 DEF TellsNew, TellsAt, KeepsCalls
<1>4. TellsOld(s.out, z.out, c.call, at, c.data) /\ KeepsItems(s, z) /\ DOMAIN z.toolCalls = DOMAIN s.toolCalls
  <2>1. c.index \in DOMAIN s.toolCalls
    BY <1>1
  <2> QED  BY <1>1, <1>3, <2>1, ResponsesToolOld
<1> HIDE DEF z, at
<1>5. TellsNew(x.out, z.out, c.call, at, c.data)
  BY <1>1, <1>4, NewThenOld
<1>6. /\ z.toolCalls[c.index].index = at
      /\ KeepsItems(x, z) /\ DOMAIN z.toolCalls = DOMAIN x.toolCalls \cup {c.index}
  BY <1>1, <1>4 DEF at, KeepsItems
<1> QED  BY <1>2, <1>5, <1>6 DEF y

\* The client is told d of the call.
Takes(out, q, call, d) == \E at : TellsOld(out, q, call, at, d) \/ TellsNew(out, q, call, at, d)
Unheard(out, call) == \A i \in Announced(out) : out[i].call # call

LEMMA LinkQuiet ==
    ASSUME NEW x, NEW y, NEW r, ResponsesLink(x, r), Quiet(x.out, y.out), y.toolCalls = x.toolCalls
    PROVE  ResponsesLink(y, r)
<1>1. Announced(y.out) = Announced(x.out) /\ \A i \in Announced(x.out) : y.out[i] = x.out[i]
  BY DEF Quiet, KeepsCalls
<1> QED  BY <1>1 DEF ResponsesLink

LEMMA ResponsesTakes ==
    ASSUME target # "chat", NEW x, Items(x), NEW r, Answer(r), CallsSafe(x.out, r), ResponsesLink(x, r),
           NEW call \in CallsIn(r), NEW c, c.index = CallIndex(r, call), c.data \in Seq(Nat),
           Unheard(x.out, call) => c.call = call
    PROVE  LET y == ResponsesTool(x, c) IN ResponsesLink(y, r) /\ Takes(x.out, y.out, call, c.data)
<1> DEFINE y == ResponsesTool(x, c)
           out == x.out
           K(i) == CallIndex(r, out[i].call)
<1>1. /\ \A i \in Announced(out) : K(i) \in DOMAIN x.toolCalls /\ x.toolCalls[K(i)].index = out[i].index
      /\ \A k \in DOMAIN x.toolCalls : \E i \in Announced(out) : K(i) = k
  BY DEF ResponsesLink
<1>2. IsSeq(out) /\ Telling(out) /\ \A i \in Announced(out) : out[i].call \in CallsIn(r)
  BY ItemsOut, SafeFacts
<1>3. c.index \in Nat /\ \A i \in Announced(out) : K(i) = c.index => out[i].call = call
  BY <1>2, CallIndexes
<1> HIDE DEF y, out
<1>4. CASE c.index \in DOMAIN x.toolCalls
  <2>1. PICK i \in Announced(out) : K(i) = c.index
    BY <1>1, <1>4
  <2>2. out[i].call = call /\ out[i].index = x.toolCalls[c.index].index
    BY <1>1, <1>3, <2>1
  <2>3. \E j \in Announced(x.out) : x.out[j].call = call /\ x.out[j].index = x.toolCalls[c.index].index
    BY <2>2 DEF out
  <2>4. /\ TellsOld(out, y.out, call, x.toolCalls[c.index].index, c.data)
        /\ KeepsItems(x, y) /\ DOMAIN y.toolCalls = DOMAIN x.toolCalls
    BY <1>2, <1>4, <2>3, ResponsesToolOld DEF out, y
  <2>5. Takes(out, y.out, call, c.data)
    BY <2>4 DEF Takes
  <2>6. Announced(y.out) = Announced(out) /\ \A j \in Announced(out) : y.out[j] = out[j]
    BY <2>4 DEF TellsOld, TellsAt, KeepsCalls
  <2>7. ResponsesLink(y, r)
    BY <1>1, <2>4, <2>6 DEF ResponsesLink, KeepsItems
  <2> QED  BY <2>5, <2>7 DEF y, out
<1>5. CASE c.index \notin DOMAIN x.toolCalls
  <2>1. \A i \in Announced(out) : out[i].call # call
    BY <1>1, <1>5
  <2>2. c.call = call
    BY <2>1 DEF Unheard, out
  <2>3. /\ TellsNew(out, y.out, c.call, y.toolCalls[c.index].index, c.data)
        /\ KeepsItems(x, y) /\ DOMAIN y.toolCalls = DOMAIN x.toolCalls \cup {c.index}
    <3>1. \A i \in Announced(x.out) : x.out[i].call # c.call
      BY <2>1, <2>2 DEF out
    <3> QED  BY <1>2, <1>3, <1>5, <3>1, ResponsesToolNew DEF out, y
  <2>4. Takes(out, y.out, call, c.data)
    BY <2>2, <2>3 DEF Takes
  <2>5. PICK m : /\ m \notin Announced(out) /\ Announced(y.out) = Announced(out) \cup {m}
                 /\ y.out[m].call = c.call /\ y.out[m].index = y.toolCalls[c.index].index
    BY <2>3 DEF TellsNew
  <2>6. \A j \in Announced(out) : y.out[j] = out[j]
    BY <2>3 DEF TellsNew, TellsAt, KeepsCalls
  <2>7. CallIndex(r, y.out[m].call) = c.index
    BY <2>2, <2>5
  <2>8. ASSUME NEW i \in Announced(y.out)
        PROVE  LET k == CallIndex(r, y.out[i].call) IN k \in DOMAIN y.toolCalls /\ y.toolCalls[k].index = y.out[i].index
    <3>1. CASE i = m
      BY <2>3, <2>5, <2>7, <3>1
    <3>2. CASE i # m
      <4>1. i \in Announced(out) /\ y.out[i] = out[i]
        BY <2>5, <2>6, <3>2
      <4>2. K(i) \in DOMAIN x.toolCalls /\ x.toolCalls[K(i)].index = out[i].index
        BY <1>1, <4>1
      <4> QED  BY <2>3, <4>1, <4>2 DEF KeepsItems
    <3> QED  BY <3>1, <3>2
  <2>9. ASSUME NEW k \in DOMAIN y.toolCalls
        PROVE  \E i \in Announced(y.out) : CallIndex(r, y.out[i].call) = k
    <3>1. CASE k = c.index
      BY <2>5, <2>7, <3>1
    <3>2. CASE k # c.index
      BY <1>1, <2>3, <2>5, <2>6, <3>2
    <3> QED  BY <3>1, <3>2
  <2>10. ResponsesLink(y, r)
    BY <2>8, <2>9 DEF ResponsesLink
  <2> QED  BY <2>4, <2>10 DEF y, out
<1> QED  BY <1>4, <1>5

\* The blocks of a Claude stream are numbered as they are started.
Numbered(out) == Indexes(out, "added") \cup Indexes(out, "delta") \subseteq 0 .. (Count(out, "added") - 1)

LEMMA NumberedAppend ==
    ASSUME NEW out, IsSeq(out), Numbered(out), NEW e, e.type = "added" => e.index = Count(out, "added"),
           e.type = "delta" => e.index \in 0 .. Count(out, "added") - 1
    PROVE  Numbered(Append(out, e))
<1> DEFINE q == Append(out, e)
           n == Count(out, "added")
           m == Count(q, "added")
<1>1. n \in Nat /\ m = n + (IF e.type = "added" THEN 1 ELSE 0)
  BY AppendCount
<1>2. /\ Indexes(q, "added") = Indexes(out, "added") \cup (IF e.type = "added" THEN {e.index} ELSE {})
      /\ Indexes(q, "delta") = Indexes(out, "delta") \cup (IF e.type = "delta" THEN {e.index} ELSE {})
  BY AppendEvents
<1>3. Indexes(out, "added") \subseteq 0 .. n - 1 /\ Indexes(out, "delta") \subseteq 0 .. n - 1
  BY DEF Numbered
<1>4. e.type = "added" => e.index = n
  OBVIOUS
<1>5. e.type = "delta" => e.index \in 0 .. n - 1
  OBVIOUS
<1> HIDE DEF q, n, m
<1>6. 0 .. n - 1 \subseteq 0 .. m - 1
  BY <1>1
<1>7. e.type = "added" => n \in 0 .. m - 1
  BY <1>1
<1>8. Indexes(q, "added") \subseteq 0 .. m - 1
  BY <1>2, <1>3, <1>4, <1>6, <1>7
<1>9. Indexes(q, "delta") \subseteq 0 .. m - 1
  BY <1>2, <1>3, <1>5, <1>6
<1> QED  BY <1>8, <1>9 DEF Numbered, q, m

LEMMA CloseBlockIs ==
    ASSUME NEW x, Blocks(x)
    PROVE  \/ CloseBlock(x) = x
           \/ \E e : e.type = "done" /\ CloseBlock(x).out = Append(x.out, e)
<1>1. CASE AllClosed(x)
  BY <1>1 DEF AllClosed, Idle, CloseBlock
<1>2. ASSUME NEW kind \in {"text", "call"}, Within(x, kind)
      PROVE  \E e : e.type = "done" /\ CloseBlock(x).out = Append(x.out, e)
  <2> DEFINE blank == ""
             e == Event("done", x.next, kind, 0, <<>>)
             w == [x EXCEPT !.active = blank, !.next = @ + 1]
             y == CloseBlock(x)
  <2>1. kind # blank
    OBVIOUS
  <2>2. y = Emit(w, e)
    BY <1>2, <2>1 DEF CloseBlock, Within
  <2> HIDE DEF blank
  <2>3. IsTranslator(w) /\ w.out = x.out
    BY <1>2 DEF Within, IsTranslator
  <2>4. e.type = "done"
    BY EventIs
  <2> HIDE DEF e, w
  <2>5. Emit(w, e).out = Append(w.out, e)
    BY <2>3, EmitFields
  <2> QED  BY <2>2, <2>3, <2>4, <2>5
<1> QED  BY <1>1, <1>2 DEF Blocks

LEMMA CloseBlockQuiet ==
    ASSUME target # "chat", NEW x, Blocks(x), Telling(x.out), Numbered(x.out)
    PROVE  LET s == CloseBlock(x)
           IN  Quiet(x.out, s.out) /\ Telling(s.out) /\ Numbered(s.out) /\ IsTranslator(s)
               /\ Count(s.out, "added") = s.next /\ s.next \in Nat
<1> DEFINE s == CloseBlock(x)
<1>1. IsTranslator(s) /\ NoneOpen(s.out, s.next)
  BY CloseBlockCloses DEF AllClosed
<1>2. s.next \in Nat /\ Count(s.out, "added") = s.next
  BY <1>1, AppendCount DEF NoneOpen, IsTranslator
<1>3. CASE s = x
  BY <1>1, <1>2, <1>3, QuietSame
<1>4. ASSUME NEW e, e.type = "done", s.out = Append(x.out, e)
      PROVE  Quiet(x.out, s.out) /\ Numbered(s.out)
  <2>1. ~Announces(x.out, e) /\ ~Speaking(e)
    BY <1>4 DEF Announces, Speaking, Speaks, Pieces
  <2>2. Quiet(x.out, Append(x.out, e))
    BY <2>1, QuietAppend
  <2>3. IsSeq(x.out) /\ e.type # "added" /\ e.type # "delta"
    BY <1>4 DEF Telling
  <2>4. Numbered(Append(x.out, e))
    BY <2>3, NumberedAppend
  <2> QED  BY <1>4, <2>2, <2>4
<1>5. Quiet(x.out, s.out) /\ Numbered(s.out)
  BY <1>3, <1>4, CloseBlockIs
<1> QED  BY <1>1, <1>2, <1>5 DEF Quiet, KeepsCalls

LEMMA StartBlockIs ==
    ASSUME NEW x, IsTranslator(CloseBlock(x)), NEW kind, NEW call
    PROVE  LET s == CloseBlock(x)
               y == StartBlock(x, kind, call)
           IN  /\ IsTranslator(y) /\ y.next = s.next /\ y.active = kind
               /\ \E e : /\ y.out = Append(s.out, e)
                         /\ e.type = "added" /\ e.index = s.next /\ e.kind = kind /\ e.call = call
<1> DEFINE s == CloseBlock(x)
           w == [s EXCEPT !.active = kind]
           e == Event("added", s.next, kind, call, <<>>)
           y == StartBlock(x, kind, call)
<1>1. y = Emit(w, e)
  BY DEF StartBlock
<1>2. IsTranslator(s)
  OBVIOUS
<1>3. e.type = "added" /\ e.index = s.next /\ e.kind = kind /\ e.call = call
  BY EventIs
<1> HIDE DEF s, e
<1>4. IsTranslator(w) /\ w.active = kind /\ w.next = s.next /\ w.out = s.out
  BY <1>2 DEF IsTranslator
<1> HIDE DEF w
<1>5. /\ IsTranslator(Emit(w, e)) /\ Emit(w, e).out = Append(w.out, e)
      /\ Emit(w, e).active = w.active /\ Emit(w, e).next = w.next
  BY <1>4, EmitFields
<1>6. IsTranslator(y) /\ y.next = s.next /\ y.active = kind /\ y.out = Append(s.out, e)
  BY <1>1, <1>4, <1>5
<1> HIDE DEF y
<1> QED  BY <1>3, <1>6 DEF s, y

\* A text block, and the block of a call, which has an index of its own.
LEMMA StartBlockTells ==
    ASSUME target # "chat", NEW x, Blocks(x), Telling(x.out), Numbered(x.out), NEW kind, NEW call
    PROVE  LET y == StartBlock(x, kind, call)
           IN  /\ Numbered(y.out)
               /\ kind # "call" => Quiet(x.out, y.out)
               /\ kind = "call" /\ Unheard(x.out, call) =>
                    TellsNew(x.out, y.out, call, y.next, <<>>) /\ CallBlock(y, call)
<1> DEFINE s == CloseBlock(x)
           y == StartBlock(x, kind, call)
           n == s.next
<1>1. /\ Quiet(x.out, s.out) /\ Telling(s.out) /\ Numbered(s.out) /\ IsTranslator(s)
      /\ Count(s.out, "added") = n /\ n \in Nat
  BY CloseBlockQuiet
<1>2. PICK e : /\ y.out = Append(s.out, e) /\ y.next = n /\ y.active = kind
               /\ e.type = "added" /\ e.index = n /\ e.kind = kind /\ e.call = call
  BY <1>1, StartBlockIs
<1> HIDE DEF s, y, n
<1>3. Numbered(y.out)
  <2>1. IsSeq(s.out) /\ e.type # "delta" /\ e.index = Count(s.out, "added")
    BY <1>1, <1>2 DEF Telling
  <2>2. Numbered(Append(s.out, e))
    BY <1>1, <2>1, NumberedAppend
  <2> QED  BY <1>2, <2>2
<1>4. CASE kind # "call"
  <2>1. ~Announces(s.out, e) /\ ~Speaking(e)
    BY <1>2, <1>4 DEF Announces, Speaking, Speaks, Pieces
  <2>2. Quiet(s.out, Append(s.out, e))
    BY <1>1, <2>1, QuietAppend
  <2>3. Quiet(x.out, y.out)
    BY <1>1, <1>2, <2>2, QuietThen
  <2> QED  BY <1>3, <1>4, <2>3 DEF y
<1>5. ASSUME kind = "call", Unheard(x.out, call)
      PROVE  TellsNew(x.out, y.out, call, y.next, <<>>) /\ CallBlock(y, call)
  <2>1. Indexes(s.out, "added") \subseteq 0 .. n - 1 /\ Indexes(s.out, "delta") \subseteq 0 .. n - 1 /\ n \notin 0 .. n - 1
    BY <1>1 DEF Numbered
  <2>2. Heard(s.out, n) = <<>>
    <3>1. \A f \in ToSet(s.out) : ~Speaks(f, Pieces, CallKind, n)
      <4> TAKE f \in ToSet(s.out)
      <4>1. f.type = "delta" => f.index \in Indexes(s.out, "delta")
        BY DEF Indexes, Events
      <4>2. n # AnyIndex
        BY <1>1 DEF AnyIndex
      <4> QED  BY <2>1, <4>1, <4>2 DEF Speaks, Pieces
    <3> QED  BY <1>1, <3>1, TextNone DEF Heard, Telling
  <2>3. \A i \in Announced(s.out) : s.out[i].call # e.call /\ s.out[i].index # e.index
    <3> TAKE i \in Announced(s.out)
    <3>1. i \in DOMAIN s.out /\ s.out[i].type = "added"
      BY DEF Announced
    <3>2. s.out[i].index \in Indexes(s.out, "added")
      BY <3>1 DEF Indexes, Events, ToSet
    <3>3. i \in Announced(x.out) /\ s.out[i] = x.out[i]
      BY <1>1 DEF Quiet, KeepsCalls
    <3> QED  BY <1>2, <1>5, <2>1, <3>2, <3>3 DEF Unheard
  <2>4. Announces(s.out, e) /\ e.kind = CallKind /\ ~Speaking(e)
    BY <1>2, <1>5 DEF Announces, CallKind, Speaking, Speaks, Pieces
  <2>5. e.index \in Nat /\ Heard(s.out, e.index) = <<>>
    BY <1>1, <1>2, <2>2
  <2>6. TellsNew(s.out, Append(s.out, e), e.call, e.index, <<>>)
    BY <1>1, <2>3, <2>4, <2>5, NewAppend
  <2>7. TellsNew(s.out, y.out, call, y.next, <<>>)
    BY <1>2, <2>6
  <2>8. TellsNew(x.out, y.out, call, y.next, <<>>)
    BY <1>1, <2>7, QuietThen
  <2>9. CallBlock(y, call)
    BY <1>2, <1>5, <2>7 DEF CallBlock, TellsNew
  <2> QED  BY <2>8, <2>9
<1> QED  BY <1>3, <1>4, <1>5 DEF y

LEMMA BlockDelta ==
    ASSUME NEW y, NEW kind, Within(y, kind), Numbered(y.out), NEW e, e.type = "delta", e.index = y.next
    PROVE  Numbered(Append(y.out, e)) /\ e.index \in Nat
<1>1. IsSeq(y.out) /\ Count(y.out, "added") = y.next + 1 /\ y.next = Count(y.out, "done")
  BY DEF Within, OneOpen, BlockEvents, IsTranslator
<1>2. y.next \in Nat
  BY <1>1, AppendCount
<1>3. e.index \in 0 .. Count(y.out, "added") - 1 /\ e.type # "added"
  BY <1>1, <1>2
<1> QED  BY <1>1, <1>2, <1>3, NumberedAppend

LEMMA ClaudeTextQuiet ==
    ASSUME target # "chat", NEW x, Blocks(x), Telling(x.out), Numbered(x.out), NEW c, c.kind = "text"
    PROVE  LET y == ProcessChatChunkToClaude(x, c) IN Quiet(x.out, y.out) /\ Numbered(y.out)
<1> DEFINE text == IF x.active = "text" THEN x ELSE StartBlock(x, "text", 0)
           e == Event("delta", text.next, "text", 0, c.data)
           y == ProcessChatChunkToClaude(x, c)
<1>1. y = Emit(text, e)
  BY DEF ProcessChatChunkToClaude
<1>2. Within(text, "text")
  <2>1. x.active = "text" => Within(x, "text")
    BY DEF Blocks, AllClosed, Within, Idle
  <2> QED  BY <2>1, StartBlockOpens
<1>3. Quiet(x.out, text.out) /\ Numbered(text.out)
  <2>1. LET s == StartBlock(x, "text", 0) IN Quiet(x.out, s.out) /\ Numbered(s.out)
    <3> DEFINE kind == "text"
    <3>1. kind # "call"
      OBVIOUS
    <3> HIDE DEF kind
    <3>2. LET s == StartBlock(x, kind, 0) IN Quiet(x.out, s.out) /\ Numbered(s.out)
      BY <3>1, StartBlockTells
    <3> QED  BY <3>2 DEF kind
  <2> QED  BY <2>1, QuietSame
<1>4. e.type = "delta" /\ e.index = text.next /\ e.kind = "text"
  BY EventIs
<1> HIDE DEF text, e
<1>5. Emit(text, e).out = Append(text.out, e)
  BY <1>2, EmitFields DEF Within
<1>6. Numbered(Append(text.out, e))
  BY <1>2, <1>3, <1>4, BlockDelta
<1>7. Quiet(text.out, Append(text.out, e))
  <2>1. ~Announces(text.out, e) /\ ~Speaking(e) /\ Telling(text.out)
    BY <1>3, <1>4 DEF Announces, Speaking, Speaks, CallKind, Quiet, KeepsCalls
  <2> QED  BY <2>1, QuietAppend
<1>8. Quiet(x.out, Append(text.out, e))
  BY <1>3, <1>7, QuietThen
<1> QED  BY <1>1, <1>5, <1>6, <1>8

LEMMA ClaudeTakes ==
    ASSUME target # "chat", NEW x, Blocks(x), Telling(x.out), Numbered(x.out), NEW c, c.kind = "tool", c.data \in Seq(Nat),
           NEW call, \/ c.call # 0 /\ c.call = call /\ Unheard(x.out, call)
                     \/ c.call = 0 /\ CallBlock(x, call)
    PROVE  LET y == ProcessChatChunkToClaude(x, c)
           IN  Takes(x.out, y.out, call, c.data) /\ Numbered(y.out) /\ CallBlock(y, call)
<1> DEFINE s == IF c.call # 0 THEN StartBlock(x, "call", c.call) ELSE x
           f == Event("delta", s.next, "call", 0, c.data)
           y == ProcessChatChunkToClaude(x, c)
<1>1. y = IF c.data = <<>> THEN s ELSE Emit(s, f)
  BY DEF ProcessChatChunkToClaude
<1>2. Within(s, "call") /\ s.next \in Nat
  <2>1. x.active = "call" => Within(x, "call")
    BY DEF Blocks, AllClosed, Within, Idle
  <2>2. Within(s, "call")
    BY <2>1, StartBlockOpens DEF CallBlock
  <2>3. IsSeq(s.out) /\ s.next = Count(s.out, "done")
    BY <2>2 DEF Within, OneOpen, BlockEvents, IsTranslator
  <2> QED  BY <2>2, <2>3, AppendCount
<1>3. f.type = "delta" /\ f.index = s.next /\ f.kind = "call" /\ f.data = c.data
  BY EventIs

\* The block of the call is open: it was, or it is now.
<1>4. /\ Telling(s.out) /\ Numbered(s.out) /\ CallBlock(s, call)
      /\ \/ s = x
         \/ TellsNew(x.out, s.out, call, s.next, <<>>)
  <2>1. CASE c.call = 0
    BY <2>1
  <2>2. CASE c.call # 0
    <3> DEFINE kind == "call"
               z == StartBlock(x, kind, call)
    <3>1. s = z /\ kind = "call" /\ Unheard(x.out, call)
      BY <2>2
    <3> HIDE DEF kind
    <3>2. Numbered(z.out) /\ TellsNew(x.out, z.out, call, z.next, <<>>) /\ CallBlock(z, call)
      BY <3>1, StartBlockTells
    <3> HIDE DEF z, s
    <3> QED  BY <3>1, <3>2 DEF TellsNew, TellsAt, KeepsCalls
  <2> QED  BY <2>1, <2>2
<1> HIDE DEF s, f, y
<1>5. \E i \in Announced(s.out) : s.out[i].call = call /\ s.out[i].index = s.next
  BY <1>4 DEF CallBlock
<1>6. /\ TellsOld(s.out, y.out, call, s.next, c.data) /\ Numbered(y.out)
      /\ y.active = s.active /\ y.next = s.next
  <2>1. CASE c.data = <<>>
    <3>1. y = s
      BY <1>1, <2>1
    <3>2. Quiet(s.out, s.out)
      BY <1>4, QuietSame
    <3>3. TellsOld(s.out, s.out, call, s.next, <<>>)
      BY <1>2, <1>4, <1>5, <3>2, QuietTells
    <3> QED  BY <1>4, <2>1, <3>1, <3>3
  <2>2. CASE c.data # <<>>
    <3>1. y = Emit(s, f)
      BY <1>1, <2>2
    <3>2. /\ Emit(s, f).out = Append(s.out, f)
          /\ Emit(s, f).active = s.active /\ Emit(s, f).next = s.next
      BY <1>2, EmitFields DEF Within
    <3>3. Numbered(Append(s.out, f)) /\ f.index \in Nat
      BY <1>2, <1>3, <1>4, BlockDelta
    <3>4. TellsOld(s.out, Append(s.out, f), call, f.index, f.data)
      <4>1. ~Announces(s.out, f) /\ Speaking(f)
        BY <1>3 DEF Announces, Speaking, Speaks, Pieces, CallKind, AnyIndex
      <4>2. \E i \in Announced(s.out) : s.out[i].call = call /\ s.out[i].index = f.index
        BY <1>3, <1>5
      <4>3. f.data \in Seq(Nat)
        BY <1>3
      <4> QED  BY <1>4, <3>3, <4>1, <4>2, <4>3, OldAppend
    <3> QED  BY <1>3, <3>1, <3>2, <3>3, <3>4
  <2> QED  BY <2>1, <2>2
<1>7. CallBlock(y, call)
  BY <1>4, <1>6 DEF CallBlock, TellsOld, TellsAt, KeepsCalls
<1>8. Takes(x.out, y.out, call, c.data)
  <2>1. CASE s = x
    BY <1>6, <2>1 DEF Takes
  <2>2. CASE TellsNew(x.out, s.out, call, s.next, <<>>)
    <3>1. TellsNew(x.out, y.out, call, s.next, c.data)
      BY <1>6, <2>2, NewThenOld
    <3> QED  BY <3>1 DEF Takes
  <2> QED  BY <1>4, <2>1, <2>2
<1> QED  BY <1>6, <1>7, <1>8 DEF y

\* A Chat client gets the chunks as they are.
LEMMA ChatQuiet ==
    ASSUME target = "chat", NEW x, IsTranslator(x), Telling(x.out), NEW c, c.kind # "tool",
           NEW r, ChatLink(x.out, r)
    PROVE  LET y == Process(target, x, c) IN Quiet(x.out, y.out) /\ ChatLink(y.out, r)
<1> DEFINE e == Event(c.kind, c.index, c.kind, c.call, c.data)
           y == Process(target, x, c)
<1>1. y = Emit(x, e)
  BY DEF Process
<1>2. e.type = c.kind
  BY EventIs
<1> HIDE DEF e, y
<1>3. y.out = Append(x.out, e)
  BY <1>1, EmitFields
<1>4. ~Announces(x.out, e) /\ ~Speaking(e)
  BY <1>2 DEF Announces, Speaking, Speaks, Pieces
<1>5. Quiet(x.out, y.out)
  BY <1>3, <1>4, QuietAppend
<1>6. Events(y.out, "tool") = Events(x.out, "tool")
  <2>1. IsSeq(x.out) /\ e.type # "tool"
    BY <1>2 DEF Telling
  <2>2. Events(Append(x.out, e), "tool") = Events(x.out, "tool") \cup (IF e.type = "tool" THEN {e} ELSE {})
    BY <2>1, AppendEvents
  <2> QED  BY <1>3, <2>1, <2>2
<1>7. ChatLink(y.out, r)
  BY <1>5, <1>6 DEF ChatLink, Quiet, KeepsCalls
<1> QED  BY <1>5, <1>7 DEF y

LEMMA ChatTakes ==
    ASSUME target = "chat", NEW x, IsTranslator(x), NEW r, Answer(r), CallsSafe(x.out, r), ChatLink(x.out, r),
           NEW call \in CallsIn(r), NEW c, c.kind = "tool", c.index = CallIndex(r, call), c.data \in Seq(Nat),
           Unheard(x.out, call) => c.call = call
    PROVE  LET y == Process(target, x, c) IN ChatLink(y.out, r) /\ Takes(x.out, y.out, call, c.data)
<1> DEFINE e == Event(c.kind, c.index, c.kind, c.call, c.data)
           y == Process(target, x, c)
           out == x.out
<1>1. y = Emit(x, e)
  BY DEF Process
<1>2. e.type = "tool" /\ e.kind = "tool" /\ e.index = c.index /\ e.call = c.call /\ e.data = c.data
  BY EventIs
<1> HIDE DEF e, y
<1>3. y.out = Append(out, e)
  BY <1>1, EmitFields
<1>4. IsSeq(out) /\ Telling(out) /\ \A i \in Announced(out) : out[i].call \in CallsIn(r)
  BY SafeFacts DEF IsTranslator
<1>5. /\ \A i \in Announced(out) : out[i].index = CallIndex(r, out[i].call)
      /\ \A f \in Events(out, "tool") : \E i \in Announced(out) : out[i].index = f.index
  BY DEF ChatLink
<1>6. c.index \in Nat /\ \A i \in Announced(out) : out[i].index = c.index => out[i].call = call
  BY <1>4, <1>5, CallIndexes
<1>7. Speaking(e) /\ CallKind = "tool"
  BY <1>2 DEF Speaking, Speaks, Pieces, CallKind, AnyIndex
<1>8. Events(y.out, "tool") = Events(out, "tool") \cup {e}
  <2>1. Events(Append(out, e), "tool") = Events(out, "tool") \cup (IF e.type = "tool" THEN {e} ELSE {})
    BY <1>4, AppendEvents
  <2> QED  BY <1>2, <1>3, <2>1
<1>9. CASE c.index \in Indexes(out, "tool")
  <2>1. PICK i \in Announced(out) : out[i].index = c.index
    BY <1>5, <1>9 DEF Indexes
  <2>2. ~Announces(out, e) /\ \E j \in Announced(out) : out[j].call = call /\ out[j].index = e.index
    BY <1>2, <1>6, <1>9, <2>1 DEF Announces
  <2>3. e.data \in Seq(Nat) /\ e.index \in Nat
    BY <1>2, <1>6
  <2>4. TellsOld(out, Append(out, e), call, e.index, e.data)
    BY <1>4, <1>7, <2>2, <2>3, OldAppend
  <2>5. TellsOld(out, y.out, call, c.index, c.data)
    BY <1>2, <1>3, <2>4
  <2>6. ChatLink(y.out, r)
    BY <1>2, <1>5, <1>8, <2>1, <2>5 DEF ChatLink, TellsOld, TellsAt, KeepsCalls
  <2> QED  BY <2>5, <2>6 DEF Takes, y
<1>10. CASE c.index \notin Indexes(out, "tool")
  <2>1. \A i \in Announced(out) : out[i].index \in Indexes(out, "tool")
    BY DEF Announced, Indexes, Events, ToSet
  <2>2. \A i \in Announced(out) : out[i].call # call /\ out[i].index # c.index
    BY <1>5, <1>10, <2>1
  <2>3. c.call = call
    BY <2>2 DEF Unheard
  <2>4. Heard(out, c.index) = <<>>
    <3>1. \A f \in ToSet(out) : ~Speaks(f, Pieces, CallKind, c.index)
      <4> TAKE f \in ToSet(out)
      <4>1. f.type = "tool" => f.index \in Indexes(out, "tool")
        BY DEF Indexes, Events
      <4>2. c.index # AnyIndex
        BY <1>6 DEF AnyIndex
      <4> QED  BY <1>10, <4>1, <4>2 DEF Speaks, Pieces
    <3> QED  BY <1>4, <3>1, TextNone DEF Heard
  <2>5. /\ Announces(out, e) /\ e.kind = CallKind /\ e.index \in Nat /\ Heard(out, e.index) = <<>>
        /\ \A i \in Announced(out) : out[i].call # e.call /\ out[i].index # e.index
    BY <1>2, <1>6, <1>7, <1>10, <2>2, <2>3, <2>4 DEF Announces
  <2>6. IF Speaking(e) THEN e.data = e.data /\ e.data \in Seq(Nat) ELSE e.data = <<>>
    BY <1>2, <1>7
  <2>7. TellsNew(out, Append(out, e), e.call, e.index, e.data)
    BY <1>4, <2>5, <2>6, NewAppend
  <2>8. TellsNew(out, y.out, call, c.index, c.data)
    BY <1>2, <1>3, <2>3, <2>7
  <2>9. PICK m : /\ m \notin Announced(out) /\ Announced(y.out) = Announced(out) \cup {m}
                 /\ y.out[m].call = call /\ y.out[m].index = c.index
    BY <2>8 DEF TellsNew
  <2>10. \A i \in Announced(out) : y.out[i] = out[i]
    BY <2>8 DEF TellsNew, TellsAt, KeepsCalls
  <2>11. ChatLink(y.out, r)
    <3>1. \A i \in Announced(y.out) : y.out[i].index = CallIndex(r, y.out[i].call)
      BY <1>5, <2>9, <2>10
    <3>2. \A f \in Events(y.out, "tool") : \E i \in Announced(y.out) : y.out[i].index = f.index
      BY <1>2, <1>5, <1>8, <2>9, <2>10
    <3> QED  BY <3>1, <3>2 DEF ChatLink
  <2> QED  BY <2>8, <2>11 DEF Takes, y
<1> QED  BY <1>9, <1>10

-----------------------------------------------------------------------------
(* The invariant of the calls. *)

CallsNow(x, p, r, done, running, intact) ==
    /\ CallsSafe(x.out, r) /\ PipedCalls(p, r)
    /\ intact => /\ CallLink(x, p, r, running)
                 /\ \A c \in CallsIn(r) : CallFlow(x.out, p, r, done, c)

\* What an upstream has kept for a snapshot that it has not sent is not told of.
Hushed(out, p, done) == Awaited(done) => Announced(out) = {} /\ NoTools(p)

LEMMA CallsInvIs ==
    CallsInv <=> (CallsKept => /\ CallsNow(t, pending, read, whole, tgt = "running", Intact)
                               /\ Hushed(t.out, pending, whole))
  BY DEF CallsInv, CallsNow, Hushed, NoTools, Out

LEMMA SafeNext ==
    ASSUME UNCHANGED <<source, target, held>>
    PROVE  CallsSafe(t.out, read)' <=> CallsSafe(t'.out, read')
  BY DEF CallsSafe, Heard, Pieces, CallKind, Announced, CallsSent, ArgsSent, CallsHeld

LEMMA PipedNext ==
    ASSUME UNCHANGED <<source, target, held>>
    PROVE  PipedCalls(pending, read)' <=> PipedCalls(pending', read')
  BY DEF PipedCalls, CallsSent, ArgsSent, CallIndex, CallsHeld

LEMMA FlowNext ==
    ASSUME UNCHANGED <<source, target, held>>
    PROVE  (\A c \in CallsIn(read) : CallFlow(t.out, pending, read, whole, c))'
             <=> \A c \in CallsIn(read') : CallFlow(t'.out, pending', read', whole', c)
  BY DEF CallFlow, CallIndex, CallsHeld, Awaited, Heard, Pieces, CallKind, Announced, CallsSent, ArgsSent, Piping

LEMMA LinkNext ==
    ASSUME UNCHANGED <<source, target, held>>
    PROVE  CallLink(t, pending, read, tgt = "running")' <=> CallLink(t', pending', read', tgt' = "running")
  BY DEF CallLink, ChatLink, ResponsesLink, MessagesLink, NamedOnce, CallBlock, CallIndex, CallsHeld, Announced

LEMMA CallsInvNext ==
    ASSUME UNCHANGED <<source, target, held>>
    PROVE  CallsInv' <=> (CallsKept' => /\ CallsNow(t', pending', read', whole', tgt' = "running", Intact')
                                        /\ Hushed(t'.out, pending', whole'))
<1>1. CallsInv' <=> (CallsKept' => /\ CallsSafe(t.out, read)' /\ PipedCalls(pending, read)'
                                   /\ Intact' => /\ CallLink(t, pending, read, tgt = "running")'
                                                 /\ (\A c \in CallsIn(read) : CallFlow(t.out, pending, read, whole, c))'
                                   /\ Hushed(t.out, pending, whole)')
  BY DEF CallsInv, Hushed, NoTools, Out
<1>2. Hushed(t.out, pending, whole)' <=> Hushed(t'.out, pending', whole')
  BY DEF Hushed, Awaited, CallsHeld, Announced, NoTools
<1> QED  BY <1>1, <1>2, SafeNext, PipedNext, FlowNext, LinkNext DEF CallsNow

\* A step of the target that writes new.
LEMMA WritingCalls ==
    ASSUME IsTranslator(t), target # "chat", Answer(read), UNCHANGED <<source, target, held, read, whole>>,
           NEW new, IsTranslator(new), NEW result, Write(new, result),
           CallsSafe(new.out, read), PipedCalls(pending', read),
           result # "failed" => /\ CallLink(new, pending', read, result = "running")
                                /\ \A c \in CallsIn(read) : CallFlow(new.out, pending', read, whole, c)
    PROVE  CallsNow(t', pending', read', whole', tgt' = "running", Intact')
<1>1. read' = read /\ whole' = whole /\ (Intact' <=> tgt' # "failed")
  BY DEF Intact
<1>2. CASE t' = new /\ tgt' = result
  BY <1>1, <1>2 DEF CallsNow
<1>3. CASE tgt' = "failed" /\ \E n \in Nat : n < Len(new.out) /\ t' = [new EXCEPT !.out = SubSeq(@, 1, n)]
  <2>1. PICK n \in Nat : n < Len(new.out) /\ t' = [new EXCEPT !.out = SubSeq(@, 1, n)]
    BY <1>3
  <2>2. t'.out = SubSeq(new.out, 1, n)
    BY <2>1 DEF IsTranslator
  <2>3. IsSeq(new.out)
    BY DEF IsTranslator
  <2>4. CallsSafe(SubSeq(new.out, 1, n), read)
    BY <2>1, <2>3, CutSafe
  <2>5. CallsSafe(t'.out, read')
    BY <1>1, <2>2, <2>4
  <2>6. PipedCalls(pending', read')
    BY <1>1
  <2> QED  BY <1>1, <1>3, <2>5, <2>6 DEF CallsNow
<1> QED  BY <1>2, <1>3, WriteCases

LEMMA NamedTail ==
    ASSUME NEW out, NEW p, IsSeq(p), p # <<>>, NamedOnce(out, p), NEW q
    PROVE  NamedOnce(q, Tail(p))
<1>1. ToSet(Tail(p)) \subseteq ToSet(p)
  <2>1. p \in Seq(ToSet(p))
    BY DEF IsSeq
  <2>2. Tail(p) \in Seq(ToSet(p))
    BY <2>1
  <2> QED  BY <2>2, SeqFacts
<1>2. ASSUME NEW c \in ToSet(Tail(p)), c.kind = "tool", c.call # 0
      PROVE  FALSE
  <2>1. p = <<c>>
    BY <1>1, <1>2 DEF NamedOnce
  <2>2. Tail(p) = <<>>
    BY <2>1
  <2> QED  BY <1>2, <2>2, EmptyFacts
<1> QED  BY <1>2, Zenon DEF NamedOnce

\* The start and the end of an answer tell of no call.
LEMMA PipeOf ==
    ASSUME SourceInv, TypeParts
    PROVE  IsSeq(pending) /\ Answer(read) /\ \A c \in ToSet(pending) : c \in Chunks
  BY PendingSeq DEF TypeParts, PipeTyped

LEMMA TargetStartsCalls ==
    ASSUME Shape, SourceInv, ChatClientInv, TypeParts, ItemsHold, BlocksHold, TargetStarts, CallsKept,
           CallsNow(t, pending, read, whole, tgt = "running", Intact)
    PROVE  CallsNow(t', pending', read', whole', tgt' = "running", Intact')
<1> DEFINE new == Begin(target, t)
           blank == ""
           e == Event("created", 0, blank, 0, <<>>)
<1>1. /\ tgt = "starting" /\ target # "chat" /\ target \in {"responses", "messages"}
      /\ Write(new, "running") /\ UNCHANGED <<source, target, held, read, whole, pending>>
  BY DEF TargetStarts, ChatClientInv, CallsKept, sourceVars, fixed
<1>2. IsTranslator(t) /\ t = NewTranslator /\ IsSeq(pending) /\ Answer(read)
  BY <1>1, PipeOf DEF Shape, ItemsHold, BlocksHold
<1>3. Intact
  BY <1>1 DEF Intact
<1>4. /\ CallsSafe(t.out, read) /\ PipedCalls(pending, read)
      /\ CallLink(t, pending, read, FALSE) /\ \A c \in CallsIn(read) : CallFlow(t.out, pending, read, whole, c)
  <2>1. (tgt = "running") <=> FALSE
    BY <1>1
  <2> QED  BY <1>3, <2>1 DEF CallsNow, CallLink
<1>5. t.out = <<>> /\ t.toolCalls = <<>>
  BY <1>2 DEF NewTranslator
<1>6. new = Emit(t, e)
  BY <1>1 DEF Begin
<1> HIDE DEF blank
<1>7. e.type = "created"
  BY EventIs
<1> HIDE DEF e, new
<1>8. IsTranslator(new) /\ new.out = Append(t.out, e) /\ new.toolCalls = t.toolCalls
  BY <1>2, <1>6, EmitFields
<1>9. Quiet(t.out, new.out) /\ IsSeq(t.out)
  <2>1. IsSeq(t.out) /\ Telling(t.out)
    BY <1>2, <1>4 DEF IsTranslator, Telling, CallsSafe
  <2>2. ~Announces(t.out, e) /\ ~Speaking(e)
    BY <1>1, <1>7 DEF Announces, Speaking, Speaks, Pieces
  <2> QED  BY <1>8, <2>1, <2>2, QuietAppend
<1>10. Flows(new.out, pending, read, whole)
  <2>1. Flows(t.out, pending, read, whole)
    BY <1>4 DEF Flows
  <2> QED  BY <1>9, <2>1, QuietFlows
<1>11. Announced(t.out) = {} /\ Announced(new.out) = {}
  BY <1>5, <1>9 DEF Announced, Quiet
<1>12. CallLink(new, pending, read, TRUE)
  <2>1. CASE target = "responses"
    <3>1. DOMAIN new.toolCalls = {}
      BY <1>5, <1>8
    <3>2. ResponsesLink(new, read)
      BY <1>11, <3>1 DEF ResponsesLink
    <3> QED  BY <2>1, <3>2 DEF CallLink
  <2>2. CASE target = "messages"
    <3>1. NamedOnce(new.out, pending)
      <4>1. NamedOnce(t.out, pending)
        BY <1>4, <2>2 DEF CallLink
      <4> QED  BY <1>11, <4>1 DEF NamedOnce
    <3>2. Indexes(new.out, "added") = {} /\ Indexes(new.out, "delta") = {}
      <4>1. ToSet(t.out) = {}
        BY <1>5, EmptyFacts
      <4>2. Indexes(t.out, "added") = {} /\ Indexes(t.out, "delta") = {}
        BY <4>1 DEF Indexes, Events
      <4>3. \A type : Indexes(Append(t.out, e), type) = Indexes(t.out, type) \cup (IF e.type = type THEN {e.index} ELSE {})
        BY <1>9, AppendEvents
      <4> QED  BY <1>7, <1>8, <4>2, <4>3
    <3>3. source = "chat" => read = <<>>
      BY <1>1, <2>2 DEF BlocksHold, ChatPipe
    <3>4. MessagesLink(new, pending, read)
      BY <3>2, <3>3 DEF MessagesLink
    <3> QED  BY <2>2, <3>1, <3>4 DEF CallLink
  <2> QED  BY <1>1, <2>1, <2>2
<1>13. CallsSafe(new.out, read) /\ PipedCalls(pending', read)
       /\ CallLink(new, pending', read, "running" = "running")
       /\ \A c \in CallsIn(read) : CallFlow(new.out, pending', read, whole, c)
  <2>1. pending' = pending /\ (("running" = "running") <=> TRUE)
    BY <1>1
  <2> QED  BY <1>10, <1>12, <2>1 DEF Flows, CallLink
<1> QED  BY <1>1, <1>2, <1>8, <1>13, WritingCalls

\* What is known while the target runs, or of a chunk that tells of a call.
LEMMA RunningCalls ==
    ASSUME target # "chat", tgt = "running", CallsNow(t, pending, read, whole, tgt = "running", Intact)
    PROVE  /\ Flows(t.out, pending, read, whole)
           /\ target = "responses" => ResponsesLink(t, read)
           /\ target = "messages" => NamedOnce(t.out, pending) /\ MessagesLink(t, pending, read)
<1>1. Intact
  BY DEF Intact
<1>2. CallLink(t, pending, read, tgt = "running") /\ Flows(t.out, pending, read, whole)
  BY <1>1 DEF CallsNow, Flows
<1> QED  BY <1>2 DEF CallLink

LEMMA HeadCall ==
    ASSUME NEW out, NEW p, IsSeq(p), p # <<>>, NEW r, Answer(r), NEW done, Flows(out, p, r, done),
           Head(p).kind = "tool"
    PROVE  /\ Head(p).data \in Seq(Nat)
           /\ \E call \in CallsSent(r) : /\ call \in CallsIn(r) /\ Head(p).index = CallIndex(r, call)
                                         /\ Head(p).call \in {0, call}
                                         /\ Unheard(out, call) => Head(p).call = call
<1> DEFINE h == Head(p)
<1>1. PipedCalls(p, r) /\ Wordy(p, {}, "tool", AnyIndex)
  BY DEF Flows, PipedCalls
<1>2. h \in ToSet(p)
  BY <1>1, PipeSplit
<1>3. PICK call \in CallsSent(r) : h.index = CallIndex(r, call) /\ h.call \in {0, call}
  BY <1>1, <1>2 DEF PipedCalls
<1>4. call \in CallsIn(r)
  BY DEF CallsSent
<1>5. h \in ToolsAt(p, CallIndex(r, call))
  BY <1>2, <1>3 DEF ToolsAt
<1>6. Unheard(out, call) => h.call = call
  BY <1>4, <1>5, FlowIs DEF Flows, Unheard
<1>7. CallIndex(r, call) \in Nat
  BY <1>4, CallIndexes
<1>8. h.data \in Seq(Nat)
  BY <1>1, <1>3, <1>7, PipeSplit
<1> QED  BY <1>3, <1>4, <1>6, <1>8

\* The end of an answer, whatever comes of it, tells of no call.
LEMMA EndingCalls ==
    ASSUME Shape, SourceInv, TypeParts, target # "chat", tgt = "running",
           CallsNow(t, pending, read, whole, tgt = "running", Intact),
           UNCHANGED <<source, target, held, read, whole>>,
           \/ pending' = pending
           \/ pending # <<>> /\ pending' = Tail(pending),
           \/ Write(Complete(target, t), "ok") /\ (pending' = pending \/ Head(pending).kind # "tool")
           \/ Write(Abandon(target, t), "failed")
    PROVE  CallsNow(t', pending', read', whole', tgt' = "running", Intact')
<1>1. IsTranslator(t) /\ target \in Protocols /\ IsSeq(pending) /\ Answer(read) /\ IsSeq(t.out)
  BY PipeOf DEF Shape, IsTranslator
<1>2. Flows(t.out, pending, read, whole) /\ (target = "messages" => NamedOnce(t.out, pending))
  BY RunningCalls
<1>3. CallsSafe(t.out, read) /\ PipedCalls(pending, read) /\ Telling(t.out)
  BY <1>1, <1>2 DEF Flows, CallsSafe, Telling
<1>4. PipedCalls(pending', read)
  BY <1>1, <1>3, PipeShorter
<1>5. CASE Write(Complete(target, t), "ok") /\ (pending' = pending \/ Head(pending).kind # "tool")
  <2> DEFINE new == Complete(target, t)
  <2>1. IsTranslator(new) /\ Quiet(t.out, new.out) /\ Write(new, "ok")
    BY <1>1, <1>3, <1>5, CompleteQuiet
  <2> HIDE DEF new
  <2>2. Flows(t.out, pending', read, whole)
    BY <1>1, <1>2, <1>5, SkipFlows
  <2>3. Flows(new.out, pending', read, whole)
    BY <1>1, <2>1, <2>2, QuietFlows
  <2>4. target = "messages" => NamedOnce(new.out, pending')
    <3>1. SUFFICES ASSUME target = "messages" PROVE NamedOnce(new.out, pending')
      OBVIOUS
    <3>2. CASE pending' = pending
      <4>1. Announced(new.out) = Announced(t.out) /\ \A i \in Announced(t.out) : new.out[i] = t.out[i]
        BY <2>1 DEF Quiet, KeepsCalls
      <4> QED  BY <1>2, <3>1, <3>2, <4>1 DEF NamedOnce
    <3>3. CASE pending # <<>> /\ pending' = Tail(pending)
      BY <1>1, <1>2, <3>1, <3>3, NamedTail
    <3> QED  BY <3>2, <3>3
  <2>5. CallLink(new, pending', read, "ok" = "running")
    BY <2>4 DEF CallLink
  <2>6. CallsSafe(new.out, read) /\ \A c \in CallsIn(read) : CallFlow(new.out, pending', read, whole, c)
    BY <2>3 DEF Flows
  <2> QED  BY <1>1, <1>4, <2>1, <2>5, <2>6, WritingCalls
<1>6. CASE Write(Abandon(target, t), "failed")
  <2> DEFINE new == Abandon(target, t)
  <2>1. IsTranslator(new) /\ Quiet(t.out, new.out) /\ Write(new, "failed")
    BY <1>1, <1>3, <1>6, AbandonQuiet
  <2> HIDE DEF new
  <2>2. CallsSafe(new.out, read)
    BY <1>1, <1>3, <2>1, QuietSafe
  <2> QED  BY <1>1, <1>4, <2>1, <2>2, WritingCalls
<1> QED  BY <1>5, <1>6

LEMMA ResponsesTakeCalls ==
    ASSUME Items(t), target = "responses", IsSeq(pending), Answer(read), \A c \in ToSet(pending) : c \in Chunks,
           pending # <<>>, Flows(t.out, pending, read, whole), ResponsesLink(t, read)
    PROVE  LET new == Process(target, t, Head(pending))
           IN  Flows(new.out, Tail(pending), read, whole) /\ ResponsesLink(new, read) /\ IsTranslator(new)
<1> DEFINE c == Head(pending)
           new == Process(target, t, c)
<1>1. IsSeq(t.out) /\ IsTranslator(t) /\ CallsSafe(t.out, read) /\ Telling(t.out)
      /\ Wordy(pending, {}, "tool", AnyIndex)
  BY DEF Items, IsTranslator, Flows, CallsSafe, Telling, PipedCalls
<1>2. c \in Chunks
  BY <1>1, PipeSplit
<1>3. Items(new)
  BY <1>2, ProcessItems
<1>4. IsTranslator(new) /\ IsSeq(new.out)
  BY <1>3 DEF Items, IsTranslator
<1>5. CASE c.kind \in {"reasoning", "text"}
  <2>1. new = ResponsesText(t, c)
    BY <1>5 DEF Process, ProcessChunk
  <2>2. Quiet(t.out, new.out) /\ new.toolCalls = t.toolCalls
    BY <1>1, <1>5, <2>1, ResponsesTextQuiet
  <2> HIDE DEF new
  <2>3. Flows(t.out, Tail(pending), read, whole)
    BY <1>1, <1>5, SkipFlows
  <2>4. Flows(new.out, Tail(pending), read, whole)
    BY <1>1, <2>2, <2>3, QuietFlows
  <2>5. ResponsesLink(new, read)
    BY <2>2, LinkQuiet
  <2> QED  BY <1>4, <2>4, <2>5 DEF new
<1>6. CASE c.kind = "tool"
  <2>1. new = ResponsesTool(t, c)
    BY <1>6 DEF Process, ProcessChunk
  <2>2. PICK call \in CallsSent(read) : call \in CallsIn(read) /\ c.index = CallIndex(read, call)
                                        /\ c.call \in {0, call} /\ (Unheard(t.out, call) => c.call = call)
    BY <1>6, HeadCall
  <2>3. c.data \in Seq(Nat)
    BY <1>6, HeadCall
  <2> HIDE DEF c, new
  <2>4. ResponsesLink(ResponsesTool(t, c), read) /\ Takes(t.out, ResponsesTool(t, c).out, call, c.data)
    BY <1>1, <2>2, <2>3, ResponsesTakes
  <2>5. ResponsesLink(new, read) /\ Takes(t.out, new.out, call, c.data)
    BY <2>1, <2>4
  <2>6. PICK at : TellsOld(t.out, new.out, call, at, c.data) \/ TellsNew(t.out, new.out, call, at, c.data)
    BY <2>5 DEF Takes
  <2>7. Flows(new.out, Tail(pending), read, whole)
    BY <1>1, <1>4, <1>6, <2>2, <2>6, TakeFlows DEF c
  <2> QED  BY <1>4, <2>5, <2>7 DEF c, new
<1>7. CASE c.kind \notin {"reasoning", "text", "tool"}
  <2>1. new = t
    BY <1>7 DEF Process, ProcessChunk
  <2>2. Flows(t.out, Tail(pending), read, whole)
    BY <1>1, <1>7, SkipFlows
  <2> QED  BY <1>4, <2>1, <2>2
<1> QED  BY <1>5, <1>6, <1>7

\* A Claude client: a chunk with a name opens the call's block, one without goes to the
\* block that is open, which is that of the last call.
LEMMA MessagesTakeCalls ==
    ASSUME Blocks(t), target = "messages", source \in {"chat", "generateContent"},
           SourceInv, TypeParts, BlocksHold, pending # <<>>, pending' = Tail(pending), UNCHANGED read,
           Flows(t.out, pending, read, whole), NamedOnce(t.out, pending), MessagesLink(t, pending, read)
    PROVE  LET new == Process(target, t, Head(pending))
           IN  /\ Flows(new.out, pending', read, whole) /\ NamedOnce(new.out, pending')
               /\ MessagesLink(new, pending', read) /\ IsTranslator(new)
<1> DEFINE c == Head(pending)
           new == Process(target, t, c)
           last == LastOf(read)
<1>1. /\ IsSeq(t.out) /\ IsTranslator(t) /\ CallsSafe(t.out, read) /\ Telling(t.out) /\ Numbered(t.out)
      /\ IsSeq(pending) /\ Answer(read) /\ Wordy(pending, {}, "tool", AnyIndex)
  <2>1. IsTranslator(t) /\ CallsSafe(t.out, read) /\ Wordy(pending, {}, "tool", AnyIndex)
    BY BlocksLog DEF Flows, PipedCalls
  <2>2. IsSeq(pending) /\ Answer(read)
    BY PipeOf
  <2>3. Numbered(t.out)
    BY DEF MessagesLink, Numbered
  <2> QED  BY <2>1, <2>2, <2>3 DEF IsTranslator, CallsSafe, Telling
<1>2. /\ source # "chat" => (c.kind = "tool" => c.call # 0)
      /\ source = "chat" =>
           \/ /\ c.kind \in {"finish", "done", "malformed"}
              /\ read # <<>> => pending # ChatChunks(read)
           \/ /\ read # <<>> /\ pending = ChatChunks(read)
              /\ c.kind = "tool" <=> last.kind \in {"call", "args"}
              /\ c.kind = "tool" /\ c.call = 0 => last.kind = "args"
  <2>1. source \in Protocols
    BY DEF Protocols
  <2> QED  BY <2>1, TakenPipe DEF LastKind, LastOf
<1>3. source = "chat" /\ read # <<>> /\ last.kind \in {"call", "args"} =>
        \/ CallBlock(t, last.call)
        \/ last.kind = "call" /\ pending = ChatChunks(read)
  BY DEF MessagesLink
<1>4. NamedOnce(new.out, pending')
  BY <1>1, NamedTail
<1>5. CASE c.kind = "tool"
  <2>1. PICK call \in CallsSent(read) : call \in CallsIn(read) /\ c.index = CallIndex(read, call)
                                        /\ c.call \in {0, call} /\ (Unheard(t.out, call) => c.call = call)
    BY <1>1, <1>5, HeadCall
  <2>2. c.data \in Seq(Nat) /\ c \in ToSet(pending)
    BY <1>1, <1>5, HeadCall, PipeSplit
  <2>3. source = "chat" => /\ read # <<>> /\ pending = ChatChunks(read) /\ last.kind \in {"call", "args"}
                           /\ last.call = call
    <3>1. SUFFICES ASSUME source = "chat"
                   PROVE  /\ read # <<>> /\ pending = ChatChunks(read) /\ last.kind \in {"call", "args"}
                          /\ last.call = call
      OBVIOUS
    <3>2. read # <<>> /\ pending = ChatChunks(read) /\ last.kind \in {"call", "args"}
      BY <1>2, <1>5, <3>1
    <3>3. c.index = last.call - 1
      <4>1. c.index = Head(ChatChunks(read)).index
        BY <3>2
      <4>2. CASE last.kind = "call"
        <5>1. Head(ChatChunks(read)) = Chunk("tool", last.call - 1, last.call, <<>>)
          BY <4>2 DEF ChatChunks, LastOf
        <5> QED  BY <4>1, <5>1, ChunkIs
      <4>3. CASE last.kind = "args"
        <5>1. Head(ChatChunks(read)) = Chunk("tool", last.call - 1, 0, <<Len(read)>>)
          BY <4>3 DEF ChatChunks, LastOf
        <5> QED  BY <4>1, <5>1, ChunkIs
      <4> QED  BY <3>2, <4>2, <4>3
    <3>4. CallIndex(read, call) = call - 1
      BY <3>1 DEF CallIndex
    <3>5. call \in 1 .. MaxCalls /\ last \in Fragments
      BY <1>1, <2>1, <3>2, AnswerFacts, LastFragment DEF LastOf
    <3>6. last.call \in Int /\ call \in Int
      BY <3>5 DEF Fragments
    <3>7. last.call - 1 = call - 1
      BY <2>1, <3>3, <3>4
    <3> QED  BY <3>2, <3>6, <3>7
  <2>4. \/ c.call # 0 /\ c.call = call /\ Unheard(t.out, call)
        \/ c.call = 0 /\ CallBlock(t, call)
    <3>1. CASE c.call # 0
      <4>1. \A i \in Announced(t.out) : t.out[i].call # c.call
        BY <1>5, <2>2, <3>1 DEF NamedOnce
      <4> QED  BY <2>1, <3>1, <4>1 DEF Unheard
    <3>2. CASE c.call = 0
      <4>1. source = "chat" /\ read # <<>> /\ last.kind = "args"
        BY <1>2, <1>5, <2>3, <3>2
      <4> QED  BY <1>3, <2>3, <3>2, <4>1
    <3> QED  BY <3>1, <3>2
  <2>5. new = ProcessChatChunkToClaude(t, c)
    BY DEF Process
  <2> HIDE DEF c, new
  <2>6. /\ Takes(t.out, new.out, call, c.data) /\ Numbered(new.out) /\ CallBlock(new, call)
    <3>1. c.kind = "tool" /\ c.data \in Seq(Nat) /\ target # "chat"
      BY <1>5, <2>2
    <3> DEFINE y == ProcessChatChunkToClaude(t, c)
    <3>2. Takes(t.out, y.out, call, c.data) /\ Numbered(y.out) /\ CallBlock(y, call)
      BY <1>1, <2>4, <3>1, ClaudeTakes
    <3> QED  BY <2>5, <3>2
  <2>7. Blocks(new)
    <3>1. c.kind = "tool" /\ c.call = 0 => t.active = "call"
      BY <2>4 DEF CallBlock
    <3>2. Blocks(Process("messages", t, c))
      BY <3>1, ProcessBlocks
    <3> QED  BY <3>2 DEF new
  <2>8. IsTranslator(new) /\ IsSeq(new.out)
    BY <2>7, BlocksLog DEF IsTranslator
  <2>9. PICK at : TellsOld(t.out, new.out, call, at, c.data) \/ TellsNew(t.out, new.out, call, at, c.data)
    BY <2>6 DEF Takes
  <2>10. Flows(new.out, pending', read, whole)
    BY <1>1, <1>5, <2>1, <2>8, <2>9, TakeFlows DEF c
  <2>11. MessagesLink(new, pending', read)
    BY <2>3, <2>6 DEF MessagesLink, Numbered
  <2> QED  BY <1>4, <2>8, <2>10, <2>11 DEF c, new
<1>6. CASE c.kind # "tool"
  <2>1. Flows(t.out, pending', read, whole)
    BY <1>1, <1>6, SkipFlows
  <2>2. Blocks(new) /\ (c.kind \notin {"text", "tool"} => new = t)
    <3>1. c.kind = "tool" /\ c.call = 0 => t.active = "call"
      BY <1>6
    <3> HIDE DEF c
    <3>2. Blocks(Process("messages", t, c)) /\ (c.kind \notin {"text", "tool"} => Process("messages", t, c) = t)
      BY <3>1, ProcessBlocks
    <3> QED  BY <3>2
  <2>3. new = ProcessChatChunkToClaude(t, c)
    BY DEF Process
  <2> HIDE DEF c, new
  <2>4. Quiet(t.out, new.out) /\ Numbered(new.out)
    <3>1. CASE c.kind = "text"
      <4> DEFINE y == ProcessChatChunkToClaude(t, c)
      <4>1. Quiet(t.out, y.out) /\ Numbered(y.out)
        BY <1>1, <3>1, ClaudeTextQuiet
      <4> QED  BY <2>3, <4>1
    <3>2. CASE c.kind # "text"
      <4>1. new = t
        BY <1>6, <2>2, <3>2
      <4> QED  BY <1>1, <4>1, QuietSame
    <3> QED  BY <3>1, <3>2
  <2>5. Flows(new.out, pending', read, whole)
    BY <1>1, <2>1, <2>4, QuietFlows
  <2>6. source = "chat" /\ read # <<>> /\ last.kind \in {"call", "args"} => CallBlock(new, last.call)
    <3>1. SUFFICES ASSUME source = "chat", read # <<>>, last.kind \in {"call", "args"} PROVE CallBlock(new, last.call)
      OBVIOUS
    <3>2. c.kind \in {"finish", "done", "malformed"} /\ pending # ChatChunks(read)
      BY <1>2, <1>6, <3>1
    <3>3. new = t
      BY <2>2, <3>2
    <3> QED  BY <1>3, <3>1, <3>2, <3>3
  <2>7. MessagesLink(new, pending', read)
    BY <2>4, <2>6 DEF MessagesLink, Numbered
  <2> QED  BY <1>4, <2>2, <2>5, <2>7, BlocksLog DEF c, new
<1> QED  BY <1>5, <1>6

LEMMA TakeChunkCalls ==
    ASSUME Shape, SourceInv, TypeParts, ItemsHold, BlocksHold, CallsKept, TakeChunk,
           CallsNow(t, pending, read, whole, tgt = "running", Intact)
    PROVE  CallsNow(t', pending', read', whole', tgt' = "running", Intact')
<1> DEFINE c == Head(pending)
           new == Process(target, t, c)
<1>1. /\ target # "chat" /\ tgt = "running" /\ pending # <<>> /\ pending' = Tail(pending)
      /\ UNCHANGED <<source, target, held, read, whole>>
  BY DEF TakeChunk, sourceVars, fixed
<1>2. \/ Write(Complete(target, t), "ok") /\ c.kind # "tool"
      \/ Write(Abandon(target, t), "failed")
      \/ Write(new, "running")
  BY DEF TakeChunk
<1>3. CASE \/ Write(Complete(target, t), "ok") /\ c.kind # "tool"
           \/ Write(Abandon(target, t), "failed")
  BY <1>1, <1>3, EndingCalls
<1>4. CASE Write(new, "running")
  <2>1. /\ IsTranslator(t) /\ IsSeq(pending) /\ Answer(read) /\ \A k \in ToSet(pending) : k \in Chunks
    BY PipeOf DEF Shape
  <2>2. /\ Flows(t.out, pending, read, whole)
        /\ target = "responses" => ResponsesLink(t, read)
        /\ target = "messages" => NamedOnce(t.out, pending) /\ MessagesLink(t, pending, read)
    BY <1>1, RunningCalls
  <2>3. /\ target = "responses" => Items(t)
        /\ target = "messages" => Blocks(t) /\ source \in {"chat", "generateContent"}
        /\ target \in {"responses", "messages"}
    BY <1>1 DEF ItemsHold, BlocksHold, CallsKept, Items, Shape
  <2>4. /\ Flows(new.out, pending', read, whole) /\ IsTranslator(new)
        /\ target = "responses" => ResponsesLink(new, read)
        /\ target = "messages" => NamedOnce(new.out, pending') /\ MessagesLink(new, pending', read)
    <3>1. CASE target = "responses"
      <4>1. Flows(new.out, Tail(pending), read, whole) /\ ResponsesLink(new, read) /\ IsTranslator(new)
        BY <1>1, <2>1, <2>2, <2>3, <3>1, ResponsesTakeCalls
      <4> QED  BY <1>1, <3>1, <4>1
    <3>2. CASE target = "messages"
      <4>1. /\ Flows(new.out, pending', read, whole) /\ NamedOnce(new.out, pending')
            /\ MessagesLink(new, pending', read) /\ IsTranslator(new)
        BY <1>1, <2>2, <2>3, <3>2, MessagesTakeCalls
      <4> QED  BY <3>2, <4>1
    <3> QED  BY <2>3, <3>1, <3>2
  <2> HIDE DEF new
  <2>5. CallsSafe(new.out, read) /\ PipedCalls(pending', read)
        /\ \A k \in CallsIn(read) : CallFlow(new.out, pending', read, whole, k)
    BY <2>4 DEF Flows
  <2>6. CallLink(new, pending', read, "running" = "running")
    BY <1>1, <2>4 DEF CallLink
  <2> QED  BY <1>1, <1>4, <2>1, <2>4, <2>5, <2>6, WritingCalls
<1> QED  BY <1>2, <1>3, <1>4

\* A Chat client gets the chunk as it is.
LEMMA DeliverCalls ==
    ASSUME Shape, SourceInv, ChatClientInv, TypeParts, DeliverChunk,
           CallsNow(t, pending, read, whole, tgt = "running", Intact)
    PROVE  CallsNow(t', pending', read', whole', tgt' = "running", Intact')
<1> DEFINE c == Head(pending)
           new == Process(target, t, c)
<1>1. /\ target = "chat" /\ ~gone /\ pending # <<>> /\ pending' = Tail(pending) /\ t' = new
      /\ read' = read /\ whole' = whole /\ tgt' = tgt /\ target' = target
  BY DEF DeliverChunk, sourceVars, fixed
<1>2. /\ IsTranslator(t) /\ IsSeq(t.out) /\ IsSeq(pending) /\ Answer(read) /\ Intact
  BY <1>1, PipeOf DEF Shape, IsTranslator, Intact
<1>3. Flows(t.out, pending, read, whole) /\ ChatLink(t.out, read)
  BY <1>1, <1>2 DEF CallsNow, Flows, CallLink
<1>4. CallsSafe(t.out, read) /\ Telling(t.out)
  BY <1>2, <1>3 DEF Flows, CallsSafe, Telling
<1>5. Flows(new.out, Tail(pending), read, whole) /\ ChatLink(new.out, read)
  <2>1. CASE c.kind = "tool"
    <3>1. PICK call \in CallsSent(read) : call \in CallsIn(read) /\ c.index = CallIndex(read, call)
                                          /\ c.call \in {0, call} /\ (Unheard(t.out, call) => c.call = call)
      BY <1>1, <1>2, <1>3, <2>1, HeadCall
    <3>2. c.data \in Seq(Nat)
      BY <1>1, <1>2, <1>3, <2>1, HeadCall
    <3> HIDE DEF c
    <3>3. ChatLink(Process(target, t, c).out, read) /\ Takes(t.out, Process(target, t, c).out, call, c.data)
      BY <1>1, <1>2, <1>3, <1>4, <2>1, <3>1, <3>2, ChatTakes
    <3>4. ChatLink(new.out, read) /\ Takes(t.out, new.out, call, c.data)
      BY <3>3
    <3>5. IsSeq(new.out)
      <4>1. target = "chat" => new = Emit(t, Event(c.kind, c.index, c.kind, c.call, c.data))
        BY DEF Process
      <4>2. IsTranslator(new)
        BY <1>1, <1>2, <4>1, EmitFields
      <4> QED  BY <4>2 DEF IsTranslator
    <3> HIDE DEF new
    <3>6. PICK at : TellsOld(t.out, new.out, call, at, c.data) \/ TellsNew(t.out, new.out, call, at, c.data)
      BY <3>4 DEF Takes
    <3>7. Flows(new.out, Tail(pending), read, whole)
      BY <1>1, <1>2, <1>3, <2>1, <3>1, <3>5, <3>6, TakeFlows DEF c
    <3> QED  BY <3>4, <3>7 DEF c, new
  <2>2. CASE c.kind # "tool"
    <3>1. Flows(t.out, Tail(pending), read, whole)
      BY <1>1, <1>2, <1>3, <2>2, SkipFlows
    <3> HIDE DEF c
    <3>2. Quiet(t.out, Process(target, t, c).out) /\ ChatLink(Process(target, t, c).out, read)
      BY <1>1, <1>2, <1>3, <1>4, <2>2, ChatQuiet
    <3>3. Quiet(t.out, new.out) /\ ChatLink(new.out, read)
      BY <3>2
    <3> HIDE DEF new
    <3>4. Flows(new.out, Tail(pending), read, whole)
      BY <1>2, <3>1, <3>3, QuietFlows
    <3> QED  BY <3>3, <3>4 DEF c, new
  <2> QED  BY <2>1, <2>2
<1> HIDE DEF new
<1>6. Flows(t'.out, pending', read', whole') /\ ChatLink(t'.out, read')
  BY <1>1, <1>5
<1>7. CallLink(t', pending', read', tgt' = "running")
  BY <1>1, <1>6 DEF CallLink
<1> QED  BY <1>6, <1>7 DEF CallsNow, Flows

LEMMA TargetCalls ==
    ASSUME Shape, SourceInv, ChatClientInv, TypeParts, ItemsHold, BlocksHold, CallsKept, Target,
           CallsNow(t, pending, read, whole, tgt = "running", Intact)
    PROVE  CallsNow(t', pending', read', whole', tgt' = "running", Intact')
<1>1. CASE TargetStarts
  BY <1>1, TargetStartsCalls
<1>2. CASE TakeChunk
  BY <1>2, TakeChunkCalls
<1>3. CASE TakeCancelled \/ TakeEnd
  <2>1. /\ target # "chat" /\ tgt = "running" /\ UNCHANGED <<source, target, held, read, whole>>
        /\ \/ pending' = pending
           \/ pending # <<>> /\ pending' = Tail(pending)
        /\ \/ Write(Complete(target, t), "ok") /\ (pending' = pending \/ Head(pending).kind # "tool")
           \/ Write(Abandon(target, t), "failed")
    BY <1>3 DEF TakeCancelled, TakeEnd, sourceVars, fixed
  <2> QED  BY <2>1, EndingCalls
<1>4. CASE DeliverChunk
  BY <1>4, DeliverCalls
<1> QED  BY <1>1, <1>2, <1>3, <1>4 DEF Target

\* A pipe with no chunk of a call.
LEMMA NoToolsPipe ==
    ASSUME NEW p, IsSeq(p), NoTools(p)
    PROVE  /\ \A b : Piping(p, b) = <<>> /\ ToolsAt(p, b) = {}
           /\ \A r : PipedCalls(p, r)
           /\ \A out : NamedOnce(out, p)
<1>1. \A b : \A e \in ToSet(p) : ~Speaks(e, {}, "tool", b)
  BY DEF Speaks, NoTools
<1>2. ASSUME NEW b PROVE Piping(p, b) = <<>> /\ ToolsAt(p, b) = {}
  BY <1>1, TextNone DEF Piping, ToolsAt, NoTools
<1>3. Wordy(p, {}, "tool", AnyIndex)
  BY <1>1, TextNone
<1>4. ASSUME NEW r PROVE PipedCalls(p, r)
  BY <1>3 DEF PipedCalls, NoTools
<1>5. ASSUME NEW out PROVE NamedOnce(out, p)
  BY DEF NamedOnce, NoTools
<1> QED  BY <1>2, <1>4, <1>5

LEMMA NoToolsEnds ==
    ASSUME source \in Protocols
    PROVE  /\ IsSeq(ClosingChunks(source)) /\ NoTools(ClosingChunks(source))
           /\ IsSeq(<<FinishChunk>>) /\ NoTools(<<FinishChunk>>)
           /\ IsSeq(<<DoneChunk>>) /\ NoTools(<<DoneChunk>>)
           /\ IsSeq(<<BadChunk>>) /\ NoTools(<<BadChunk>>)
<1>1. <<FinishChunk, DoneChunk>> \in Seq({FinishChunk, DoneChunk})
  OBVIOUS
<1>2. IsSeq(<<FinishChunk, DoneChunk>>) /\ ToSet(<<FinishChunk, DoneChunk>>) \subseteq {FinishChunk, DoneChunk}
  BY <1>1, SeqFacts
<1>3. NoTools(<<FinishChunk, DoneChunk>>)
  BY <1>2, EndKinds DEF NoTools
<1>4. /\ IsSeq(<<FinishChunk>>) /\ NoTools(<<FinishChunk>>)
      /\ IsSeq(<<DoneChunk>>) /\ NoTools(<<DoneChunk>>)
      /\ IsSeq(<<BadChunk>>) /\ NoTools(<<BadChunk>>)
  BY EndKinds, NoToolsOne
<1>5. ClosingChunks(source) \in {<<>>, <<DoneChunk>>, <<FinishChunk, DoneChunk>>}
  BY ClosingEnds
<1> QED  BY <1>2, <1>3, <1>4, <1>5, NoToolsNone

\* The source puts no chunk of a call into an empty pipe.
LEMMA NoToolCalls ==
    ASSUME Answer(read), UNCHANGED <<source, target, held, t, tgt, gone, read>>, pending = <<>>,
           IsSeq(pending'), NoTools(pending'), CallsHeld => whole' = whole,
           CallsNow(t, pending, read, whole, tgt = "running", Intact)
    PROVE  CallsNow(t', pending', read', whole', tgt' = "running", Intact')
<1> DEFINE p == pending'
           out == t.out
<1>1. t' = t /\ read' = read /\ tgt' = tgt /\ (Intact' <=> Intact)
  BY DEF Intact, Out
<1>2. (Awaited(whole') <=> Awaited(whole))
  BY DEF Awaited
<1> HIDE DEF out
<1>3. /\ \A b : Piping(p, b) = <<>> /\ ToolsAt(p, b) = {} /\ Piping(pending, b) = <<>> /\ ToolsAt(pending, b) = {}
      /\ PipedCalls(p, read) /\ NamedOnce(out, p)
  BY NoToolsPipe, NoToolsNone
<1> HIDE DEF p
<1>4. CallsSafe(out, read)
  BY DEF CallsNow, out
<1>5. ASSUME Intact PROVE CallLink(t, p, read, tgt = "running")
  <2>1. CallLink(t, pending, read, tgt = "running")
    BY <1>5 DEF CallsNow
  <2>2. MessagesLink(t, pending, read) => MessagesLink(t, p, read)
    <3>1. read # <<>> => ChatChunks(read) # pending
      <4>1. read # <<>> => \E c : ChatChunks(read) = <<c>>
        BY ChatChunkIs
      <4> QED  BY <4>1
    <3> QED  BY <3>1 DEF MessagesLink
  <2> QED  BY <1>3, <2>1, <2>2 DEF CallLink, out
<1>6. ASSUME Intact, NEW c \in CallsIn(read) PROVE CallFlow(out, p, read, whole', c)
  <2>1. CallFlow(out, pending, read, whole, c)
    BY <1>6 DEF CallsNow, out
  <2>2. Sent(read, whole', c) = Sent(read, whole, c)
    BY <1>2 DEF Sent
  <2> QED  BY <1>2, <1>3, <2>1, <2>2, FlowIs
<1>7. CallsNow(t, p, read, whole', tgt = "running", Intact)
  BY <1>3, <1>4, <1>5, <1>6 DEF CallsNow, out
<1> QED  BY <1>1, <1>7 DEF p

\* The calls of the snapshot.
LEMMA SnapshotCallsNow ==
    ASSUME Shape, Answer(read), UNCHANGED <<source, target, held, t, tgt, gone, read>>, pending = <<>>,
           CallsHeld, CallsKept, ~whole, whole', pending' = SnapshotChunks(read, held),
           CallsNow(t, pending, read, whole, tgt = "running", Intact)
    PROVE  CallsNow(t', pending', read', whole', tgt' = "running", Intact')
<1> DEFINE p == SnapshotChunks(read, held)
           out == t.out
<1>1. t' = t /\ read' = read /\ tgt' = tgt /\ (Intact' <=> Intact) /\ pending' = p
  BY DEF Intact, Out
<1>2. source = "responses" /\ target = "chat"
  BY DEF CallsHeld, CallsKept, Shape
<1>3. Awaited(whole) /\ ~Awaited(whole') /\ CallsSent(read) = CallsIn(read)
      /\ (\A c \in CallsIn(read) : CallIndex(read, c) = c - 1 /\ ArgsSent(read, c) = Salvage(ArgsOf(read, c)))
  BY <1>2 DEF Awaited, CallsSent, CallIndex, ArgsSent, CallsHeld
<1>4. /\ IsSeq(p) /\ Wordy(p, {}, "tool", AnyIndex)
      /\ \A e \in ToSet(p) : e.kind = "tool" => \E c \in CallsIn(read) : e.index = c - 1 /\ e.call = c
      /\ \A c \in CallsIn(read) : /\ \E e \in ToSet(p) : e.kind = "tool" /\ e.index = c - 1
                                  /\ Piping(p, c - 1) = Salvage(ArgsOf(read, c))
  BY <1>2, SnapshotIsCalls
<1> HIDE DEF p, out
<1>5. PipedCalls(p, read)
  BY <1>3, <1>4 DEF PipedCalls
<1>6. \A b : Piping(<<>>, b) = <<>>
  BY NoToolsPipe, NoToolsNone
<1>7. CallsSafe(out, read) /\ IsSeq(out)
  BY DEF CallsNow, out, Shape, IsTranslator
<1>8. ASSUME Intact, NEW c \in CallsIn(read) PROVE CallFlow(out, p, read, whole', c)
  <2>1. CallFlow(out, pending, read, whole, c)
    BY <1>8 DEF CallsNow, out
  <2>2. Sent(read, whole, c) = <<>> /\ Sent(read, whole', c) = Salvage(ArgsOf(read, c)) /\ CallIndex(read, c) = c - 1
    BY <1>3 DEF Sent
  <2>3. Salvage(ArgsOf(read, c)) \in Seq(Nat) /\ Piping(p, c - 1) = Salvage(ArgsOf(read, c))
    BY <1>4, ArgsType, SalvageType DEF Answer
  <2>4. ASSUME NEW i \in Announced(out), out[i].call = c
        PROVE  Heard(out, out[i].index) \o Piping(p, CallIndex(read, c)) = Sent(read, whole', c)
    <3>1. Heard(out, out[i].index) \o <<>> = <<>>
      BY <1>6, <2>1, <2>2, <2>4, FlowIs
    <3>2. Heard(out, out[i].index) \in Seq(Nat)
      BY <1>7, SafeFacts
    <3>3. Heard(out, out[i].index) = <<>>
      <4> DEFINE h == Heard(out, out[i].index)
      <4>1. h \in Seq(Nat) /\ h \o <<>> = <<>>
        BY <3>1, <3>2
      <4> HIDE DEF h
      <4>2. h = <<>>
        BY <4>1
      <4> QED  BY <4>2 DEF h
    <3>4. <<>> \o Salvage(ArgsOf(read, c)) = Salvage(ArgsOf(read, c))
      BY <2>3
    <3> QED  BY <2>2, <2>3, <3>3, <3>4
  <2>5. ToolsAt(p, c - 1) # {}
    BY <1>4 DEF ToolsAt
  <2>6. \A k \in ToolsAt(p, c - 1) : k.call = c
    <3> TAKE k \in ToolsAt(p, c - 1)
    <3>1. PICK d \in CallsIn(read) : k.index = d - 1 /\ k.call = d
      BY <1>4 DEF ToolsAt
    <3>2. c \in 1 .. MaxCalls /\ d \in 1 .. MaxCalls
      BY AnswerFacts
    <3>3. d - 1 = c - 1
      BY <3>1 DEF ToolsAt
    <3> QED  BY <3>1, <3>2, <3>3
  <2> QED  BY <2>2, <2>3, <2>4, <2>5, <2>6, FlowIs
<1>9. Intact => CallLink(t, p, read, tgt = "running")
  BY <1>2 DEF CallsNow, CallLink
<1>10. CallsNow(t, p, read, whole', tgt = "running", Intact)
  BY <1>5, <1>7, <1>8, <1>9 DEF CallsNow, out
<1> QED  BY <1>1, <1>10

\* A step that moves no chunk.
LEMMA StillCalls ==
    ASSUME UNCHANGED <<source, target, held, t, tgt, read, whole, pending>>, gone => gone',
           CallsNow(t, pending, read, whole, tgt = "running", Intact)
    PROVE  CallsNow(t', pending', read', whole', tgt' = "running", Intact')
<1>1. Intact' => Intact
  BY DEF Intact, Out
<1>2. t' = t /\ pending' = pending /\ read' = read /\ whole' = whole /\ tgt' = tgt
  OBVIOUS
<1> QED  BY <1>1, <1>2 DEF CallsNow

LEMMA WriteFailsCalls ==
    ASSUME SourceInv, ChatClientInv, TypeParts, tgt = "ok" => pending = <<>>, SourceWriteFails,
           CallsNow(t, pending, read, whole, tgt = "running", Intact)
    PROVE  CallsNow(t', pending', read', whole', tgt' = "running", Intact')
<1>1. /\ UNCHANGED <<source, target, held, t, tgt, gone, read, whole>>
      /\ pending # <<>> /\ SinkClosed /\ pending' \in {Tail(pending), <<>>}
  BY DEF SourceWriteFails, targetVars, fixed
<1>2. ~Intact'
  <2>1. ~Intact
    BY <1>1 DEF Intact, SinkClosed, Ended, ChatClientInv
  <2> QED  BY <1>1, <2>1 DEF Intact, Out
<1>3. PipedCalls(pending', read)
  <2>1. IsSeq(pending) /\ PipedCalls(pending, read)
    BY PipeOf DEF CallsNow
  <2>2. PipedCalls(Tail(pending), read)
    BY <1>1, <2>1, PipeShorter
  <2> QED  BY <1>1, <2>2, NoToolsPipe, NoToolsNone
<1>4. t' = t /\ read' = read
  BY <1>1
<1> QED  BY <1>2, <1>3, <1>4 DEF CallsNow

-----------------------------------------------------------------------------
(* A fragment comes. *)

LEMMA FragmentFits ==
    ASSUME NEW r, Answer(r), NEW f \in Fragments, Answer(Append(r, f))
    PROVE  /\ f.kind \in {"text", "reasoning", "call", "args"} /\ f = Fragment(f.kind, f.call)
           /\ f.kind \in {"text", "reasoning"} <=> f.call = 0
           /\ f.kind = "args" => f.call \in CallsIn(r)
           /\ f.kind = "call" => f.call \notin CallsIn(r)
<1> DEFINE q == Append(r, f)
           n == Len(r)
<1>1. /\ n \in Nat /\ DOMAIN r = 1 .. n /\ DOMAIN q = 1 .. n + 1 /\ q[n + 1] = f
      /\ \A i \in 1 .. n : i \in 1 .. n + 1 /\ q[i] = r[i]
  BY AnswerGrows
<1>2. /\ f.kind \in {"text", "reasoning"} <=> f.call = 0
      /\ f.kind = "args" => \E j \in 1 .. ((n + 1) - 1) : q[j] = Fragment("call", f.call)
      /\ f.kind = "call" => \A j \in 1 .. n + 1 : q[j] = f => j = n + 1
  <2>1. n + 1 \in DOMAIN q
    BY <1>1
  <2> HIDE DEF q, n
  <2> QED  BY <1>1, <2>1 DEF Answer, q
<1> HIDE DEF q
<1>3. (n + 1) - 1 = n /\ n + 1 \notin 1 .. n
  BY <1>1
<1> HIDE DEF n
<1>4. f.kind \in {"text", "reasoning", "call", "args"} /\ f = Fragment(f.kind, f.call)
  BY DEF Fragments, FragmentKinds, Fragment
<1>5. f.kind = "args" => f.call \in CallsIn(r)
  <2>1. SUFFICES ASSUME f.kind = "args" PROVE f.call \in CallsIn(r)
    OBVIOUS
  <2>2. PICK j \in 1 .. n : q[j] = Fragment("call", f.call)
    BY <1>2, <1>3, <2>1
  <2>3. j \in DOMAIN r /\ r[j].call = f.call /\ f.call # 0
    BY <1>1, <1>2, <2>1, <2>2, FragmentFields
  <2> QED  BY <2>3 DEF CallsIn
<1>6. f.kind = "call" => f.call \notin CallsIn(r)
  <2>1. SUFFICES ASSUME f.kind = "call", f.call \in CallsIn(r) PROVE FALSE
    OBVIOUS
  <2>2. PICK i \in DOMAIN r : r[i] = Fragment("call", f.call)
    BY <2>1, AnswerFacts
  <2>3. i \in 1 .. n /\ i \in 1 .. n + 1 /\ q[i] = f
    BY <1>1, <1>4, <2>1, <2>2
  <2>4. i = n + 1
    BY <1>2, <2>1, <2>3
  <2> QED  BY <1>3, <2>3, <2>4
<1> QED  BY <1>2, <1>4, <1>5, <1>6

LEMMA ToolIs ==
    ASSUME NEW q, NEW f
    PROVE  LET k == ToolFor(q, f)
           IN  /\ k.kind = "tool" /\ k.index = CallIndex(q, f.call)
               /\ k.call = IF source = "chat" /\ f.kind = "args" THEN 0 ELSE f.call
               /\ k.data = IF f.kind = "args" \/ source = "generateContent" THEN <<Len(q)>> ELSE <<>>
  BY ChunkIs DEF ToolFor

\* A pipe with the chunk of a call in it.
LEMMA OneTool ==
    ASSUME NEW k, k.kind = "tool", k.data \in Seq(Nat)
    PROVE  /\ IsSeq(<<k>>) /\ Wordy(<<k>>, {}, "tool", AnyIndex) /\ ToSet(<<k>>) = {k}
           /\ \A b \in Nat : /\ k.index = b => Piping(<<k>>, b) = k.data /\ ToolsAt(<<k>>, b) = {k}
                             /\ k.index # b => Piping(<<k>>, b) = <<>> /\ ToolsAt(<<k>>, b) = {}
<1>1. IsSeq(<<k>>) /\ ToSet(<<k>>) = {k} /\ Wordy(<<k>>, {}, "tool", AnyIndex)
  BY OneSeq, TextOne
<1>2. ASSUME NEW b \in Nat
      PROVE  /\ k.index = b => Piping(<<k>>, b) = k.data /\ ToolsAt(<<k>>, b) = {k}
             /\ k.index # b => Piping(<<k>>, b) = <<>> /\ ToolsAt(<<k>>, b) = {}
  <2>1. b # AnyIndex
    BY DEF AnyIndex
  <2>2. Speaks(k, {}, "tool", b) <=> k.index = b
    BY <2>1 DEF Speaks
  <2>3. Piping(<<k>>, b) = Word(k, {}, "tool", b)
    BY TextOne DEF Piping
  <2> QED  BY <1>1, <2>2, <2>3 DEF Word, ToolsAt
<1> QED  BY <1>1, <1>2

LEMMA FragmentPipe ==
    ASSUME NEW r, Answer(r), NEW f \in Fragments, Answer(Append(r, f)), SendsTool(f),
           source = "generateContent" => f.kind # "args"
    PROVE  LET q == Append(r, f)
               k == ToolFor(q, f)
           IN  /\ f.call \in CallsIn(q) /\ f.call \in CallsSent(q) /\ k.data \in Seq(Nat)
               /\ f.kind = "args" => k.data = <<Len(r) + 1>>
               /\ PipedCalls(<<k>>, q)
<1> DEFINE q == Append(r, f)
           k == ToolFor(q, f)
<1>1. /\ k.kind = "tool" /\ k.index = CallIndex(q, f.call)
      /\ k.call = IF source = "chat" /\ f.kind = "args" THEN 0 ELSE f.call
      /\ k.data = IF f.kind = "args" \/ source = "generateContent" THEN <<Len(q)>> ELSE <<>>
  BY ToolIs
<1>2. Len(q) = Len(r) + 1 /\ Len(r) \in Nat
  BY AnswerGrows
<1>3. k.data \in Seq(Nat) /\ (f.kind = "args" => k.data = <<Len(r) + 1>>)
  <2>1. <<Len(r) + 1>> \in Seq(Nat) /\ <<>> \in Seq(Nat)
    BY <1>2
  <2> HIDE DEF q, k
  <2> QED  BY <1>1, <1>2, <2>1
<1>4. f.kind \in {"call", "args"} /\ ~CallsHeld /\ (source = "messages" => f.kind = "args")
  BY DEF SendsTool
<1>5. CallsIn(q) = CallsIn(r) \cup ({f.call} \ {0})
  BY AnswerGrows
<1>6. f.call \in CallsIn(q)
  <2> HIDE DEF q
  <2>1. f.call # 0
    BY <1>4, FragmentFits
  <2> QED  BY <1>5, <2>1
<1>7. f.call \in CallsSent(q)
  <2>1. SUFFICES ASSUME source = "messages" PROVE ArgsSent(q, f.call) # <<>>
    BY <1>6 DEF CallsSent
  <2>2. f.kind = "args" /\ f.call \in CallsIn(r) /\ f = Fragment("args", f.call)
    BY <1>4, <2>1, FragmentFits
  <2>3. Extends(f, f.call)
    BY <2>1, <2>2 DEF Extends
  <2>4. ArgsSent(q, f.call) = ArgsSent(r, f.call) \o <<Len(r) + 1>> /\ ArgsSent(r, f.call) \in Seq(Nat)
    BY <1>4, <2>2, <2>3, ArgsSentGrows
  <2> DEFINE a == ArgsSent(r, f.call)
             m == Len(r) + 1
  <2>5. a \in Seq(Nat) /\ m \in Nat
    BY <1>2, <2>4
  <2> HIDE DEF a, m
  <2>6. a \o <<m>> # <<>>
    BY <2>5
  <2> QED  BY <2>4, <2>6 DEF a, m
<1> HIDE DEF k, q
<1>8. PipedCalls(<<k>>, q)
  <2>1. Wordy(<<k>>, {}, "tool", AnyIndex) /\ ToSet(<<k>>) = {k}
    BY <1>1, <1>3, OneTool
  <2>2. k.call \in {0, f.call}
    BY <1>1
  <2> QED  BY <1>1, <1>7, <2>1, <2>2 DEF PipedCalls
<1> QED  BY <1>3, <1>6, <1>7, <1>8 DEF k, q

\* A fragment that sends no chunk adds to no call that is forwarded.
LEMMA SilentFragment ==
    ASSUME NEW r, Answer(r), NEW f \in Fragments, Answer(Append(r, f)), ~SendsTool(f),
           NEW out, IsSeq(out), CallsSafe(out, r), NEW p, IsSeq(p), NoTools(p), NEW done,
           NEW c \in CallsIn(Append(r, f)), c \in CallsIn(r) => CallFlow(out, <<>>, r, done, c), ~done
    PROVE  CallFlow(out, p, Append(r, f), done, c)
<1> DEFINE q == Append(r, f)
<1>1. \A b : /\ Piping(p, b) = <<>> /\ ToolsAt(p, b) = {}
             /\ Piping(<<>>, b) = <<>> /\ ToolsAt(<<>>, b) = {}
  BY NoToolsPipe, NoToolsNone
<1>2. CASE c \in CallsIn(r)
  <2>1. CallIndex(q, c) = CallIndex(r, c)
    BY <1>2, CallIndexes
  <2>2. Extends(f, c) => CallsHeld
    BY FragmentFields DEF Extends, SendsTool
  <2>3. ~CallsHeld => ArgsSent(q, c) = ArgsSent(r, c)
    <3>1. SUFFICES ASSUME ~CallsHeld, ~Extends(f, c) PROVE ArgsSent(q, c) = ArgsSent(r, c)
      BY <2>2
    <3>2. ArgsSent(r, c) \in Seq(Nat) /\ ArgsSent(q, c) = ArgsSent(r, c) \o <<>>
      BY <1>2, <3>1, ArgsSentGrows
    <3> DEFINE a == ArgsSent(r, c)
    <3> HIDE DEF a
    <3>3. a \in Seq(Nat) => a \o <<>> = a
      OBVIOUS
    <3> QED  BY <3>2, <3>3 DEF a
  <2> HIDE DEF q
  <2>4. Sent(q, done, c) = Sent(r, done, c)
    BY <2>2, <2>3 DEF Sent, Awaited
  <2>5. c \in CallsSent(q) /\ ~Awaited(done) => c \in CallsSent(r)
    BY <1>2, <2>2, <2>3 DEF CallsSent, Awaited
  <2>6. CallFlow(out, <<>>, r, done, c)
    BY <1>2
  <2> QED  BY <1>1, <2>1, <2>4, <2>5, <2>6, FlowIs DEF q
<1>3. CASE c \notin CallsIn(r)
  <2>1. \A i \in Announced(out) : out[i].call # c
    BY <1>3, SafeFacts
  <2>2. c = f.call /\ f.call # 0
    <3>1. CallsIn(q) = CallsIn(r) \cup ({f.call} \ {0})
      BY AnswerGrows
    <3> HIDE DEF q
    <3>2. c \in CallsIn(q)
      BY DEF q
    <3> QED  BY <1>3, <3>1, <3>2
  <2>3. f.kind = "call"
    BY <1>3, <2>2, FragmentFits
  <2>4. source = "messages" \/ CallsHeld
    BY <2>3 DEF SendsTool
  <2>5. source # "generateContent"
    BY <2>4 DEF CallsHeld
  <2>6. ArgsSent(q, c) = <<>>
    BY <1>3, <2>2, <2>3, <2>5, ArgsSentFirst
  <2> HIDE DEF q
  <2>7. Sent(q, done, c) = <<>> /\ ~(c \in CallsSent(q) /\ ~Awaited(done))
    BY <2>4, <2>6 DEF Sent, CallsSent, Awaited
  <2> QED  BY <1>1, <2>1, <2>7, FlowIs DEF q
<1> QED  BY <1>2, <1>3

\* The chunk of a fragment is what is added to its call.
LEMMA SpokenFragment ==
    ASSUME NEW r, Answer(r), NEW f \in Fragments, Answer(Append(r, f)), SendsTool(f),
           source = "generateContent" => f.kind # "args",
           NEW out, IsSeq(out), CallsSafe(out, r), NEW done,
           NEW c \in CallsIn(Append(r, f)), c \in CallsIn(r) => CallFlow(out, <<>>, r, done, c)
    PROVE  CallFlow(out, <<ToolFor(Append(r, f), f)>>, Append(r, f), done, c)
<1> DEFINE q == Append(r, f)
           k == ToolFor(q, f)
           p == <<k>>
           m == Len(r) + 1
<1>1. \A b : Piping(<<>>, b) = <<>> /\ ToolsAt(<<>>, b) = {}
  BY NoToolsPipe, NoToolsNone
<1>2. /\ k.kind = "tool" /\ k.index = CallIndex(q, f.call)
      /\ k.call = IF source = "chat" /\ f.kind = "args" THEN 0 ELSE f.call
      /\ k.data = IF f.kind = "args" \/ source = "generateContent" THEN <<Len(q)>> ELSE <<>>
  BY ToolIs
<1>3. f.call \in CallsIn(q) /\ k.data \in Seq(Nat)
  BY FragmentPipe
<1>4. Len(q) = m /\ m \in Nat
  BY AnswerGrows
<1>5. ~CallsHeld /\ ~Awaited(done) /\ f.kind \in {"call", "args"} /\ (source = "messages" => f.kind = "args")
  BY DEF SendsTool, Awaited
<1>6. CallIndex(q, c) \in Nat /\ (c # f.call => CallIndex(q, c) # CallIndex(q, f.call))
  BY <1>3, CallIndexes
<1> HIDE DEF k, m
<1>7. /\ c = f.call => Piping(p, CallIndex(q, c)) = k.data /\ ToolsAt(p, CallIndex(q, c)) = {k}
      /\ c # f.call => Piping(p, CallIndex(q, c)) = <<>> /\ ToolsAt(p, CallIndex(q, c)) = {}
  BY <1>2, <1>3, <1>6, OneTool
<1>8. c \in CallsIn(r) => /\ CallIndex(q, c) = CallIndex(r, c)
                          /\ ArgsSent(r, c) \in Seq(Nat) /\ ArgsSent(q, c) \in Seq(Nat)
                          /\ ArgsSent(q, c) = ArgsSent(r, c) \o (IF Extends(f, c) THEN <<m>> ELSE <<>>)
                          /\ CallFlow(out, <<>>, r, done, c)
  BY <1>5, CallIndexes, ArgsSentGrows DEF m
<1>9. Sent(q, done, c) = ArgsSent(q, c) /\ Sent(r, done, c) = ArgsSent(r, c)
  BY <1>5 DEF Sent
<1>10. f = Fragment(f.kind, f.call) /\ (f.kind = "args" => f.call \in CallsIn(r)) /\ (f.kind = "call" => f.call \notin CallsIn(r))
  BY FragmentFits
<1>11. CASE c # f.call
  <2>1. c \in CallsIn(r)
    <3>1. CallsIn(q) = CallsIn(r) \cup ({f.call} \ {0})
      BY AnswerGrows
    <3> HIDE DEF q
    <3>2. c \in CallsIn(q)
      BY DEF q
    <3> QED  BY <1>11, <3>1, <3>2
  <2>2. ~Extends(f, c)
    BY <1>11, FragmentFields DEF Extends
  <2>3. ArgsSent(q, c) = ArgsSent(r, c)
    <3> DEFINE a == ArgsSent(r, c)
    <3>1. a \in Seq(Nat) /\ ArgsSent(q, c) = a \o <<>>
      BY <1>8, <2>1, <2>2
    <3> HIDE DEF a
    <3>2. a \o <<>> = a
      BY <3>1
    <3> QED  BY <3>1, <3>2 DEF a
  <2> HIDE DEF q, p
  <2>4. c \in CallsSent(q) => c \in CallsSent(r)
    BY <2>1, <2>3 DEF CallsSent
  <2> QED  BY <1>1, <1>7, <1>8, <1>9, <1>11, <2>1, <2>3, <2>4, FlowIs DEF q, p, k
<1>12. CASE c = f.call /\ f.kind = "args"
  <2>1. c \in CallsIn(r) /\ Extends(f, c) /\ k.data = <<m>>
    BY <1>2, <1>4, <1>10, <1>12 DEF Extends
  <2>2. ArgsSent(q, c) = ArgsSent(r, c) \o <<m>> /\ ArgsSent(r, c) \in Seq(Nat) /\ CallFlow(out, <<>>, r, done, c)
        /\ CallIndex(q, c) = CallIndex(r, c)
    BY <1>8, <2>1
  <2>3. /\ Piping(p, CallIndex(q, c)) = <<m>> /\ ToolsAt(p, CallIndex(q, c)) = {k}
        /\ k.call = IF source = "chat" THEN 0 ELSE c
    BY <1>2, <1>7, <1>12, <2>1
  <2> HIDE DEF q, p
  <2>4. ASSUME NEW i \in Announced(out), out[i].call = c
        PROVE  Heard(out, out[i].index) \o <<m>> = ArgsSent(q, c)
    <3> DEFINE h == Heard(out, out[i].index)
    <3>1. h \o <<>> = ArgsSent(r, c)
      BY <1>1, <1>9, <2>2, <2>4, FlowIs
    <3>2. h \in Seq(Nat)
      BY SafeFacts
    <3> HIDE DEF h
    <3>3. h = ArgsSent(r, c)
      BY <3>1, <3>2
    <3> QED  BY <2>2, <3>3 DEF h
  <2>5. ASSUME \A i \in Announced(out) : out[i].call # c
        PROVE  <<m>> = ArgsSent(q, c) /\ k.call = c
    <3>1. <<>> = ArgsSent(r, c) /\ c \notin CallsSent(r)
      BY <1>1, <1>5, <1>9, <2>2, <2>5, FlowIs
    <3>2. source = "messages"
      BY <2>1, <3>1 DEF CallsSent
    <3>3. <<>> \o <<m>> = <<m>>
      OBVIOUS
    <3> QED  BY <2>2, <2>3, <3>1, <3>2, <3>3
  <2> QED  BY <1>9, <2>3, <2>4, <2>5, FlowIs DEF q, p, k
<1>13. CASE c = f.call /\ f.kind = "call"
  <2>1. c \notin CallsIn(r) /\ k.call = c
    BY <1>2, <1>10, <1>13
  <2>2. \A i \in Announced(out) : out[i].call # c
    BY <2>1, SafeFacts
  <2>3. ArgsSent(q, c) = IF source = "generateContent" THEN <<m>> ELSE <<>>
    BY <1>13, <2>1, ArgsSentFirst DEF m
  <2>4. /\ Piping(p, CallIndex(q, c)) = ArgsSent(q, c) /\ ToolsAt(p, CallIndex(q, c)) = {k}
    BY <1>2, <1>4, <1>7, <1>13, <2>3
  <2> HIDE DEF q, p
  <2> QED  BY <1>9, <2>1, <2>2, <2>4, FlowIs DEF q, p, k
<1> QED  BY <1>5, <1>11, <1>12, <1>13

\* When the pieces of a call come together, one goes to the last call.
LEMMA SameCall ==
    ASSUME read \in Seq(Fragments), NEW f, read' = Append(read, f), read' \in Seq(Fragments), Sequential',
           f.kind = "args"
    PROVE  read # <<>> /\ LastOf(read).kind \in {"call", "args"} /\ LastOf(read).call = f.call
<1> DEFINE n == Len(read)
<1>1. n \in Nat /\ DOMAIN read = 1 .. n /\ DOMAIN read' = 1 .. n + 1
      /\ (\A i \in 1 .. n : read'[i] = read[i]) /\ read'[n + 1] = f
  <2>1. n \in Nat /\ DOMAIN read = 1 .. n /\ read \in Seq(Fragments \cup {f})
    BY LenProperties, SeqMonotonic
  <2> QED  BY <2>1, AppendProperties, LenProperties
<1>2. ASSUME NEW i \in 1 .. n + 1, read'[i].kind = "args"
      PROVE  \E j \in 1 .. (i - 1) : /\ read'[j] = Fragment("call", read'[i].call)
                                     /\ \A k \in (j + 1) .. i : read'[k].kind = "args"
  BY <1>1, <1>2 DEF Sequential
<1>3. read # <<>> /\ LastKind \in {"call", "args"}
  BY SequentialPast
<1>4. LastOf(read) = read[n] /\ read[n].kind \in {"call", "args"}
  BY <1>3 DEF LastOf, LastKind
<1> HIDE DEF n
<1>5. PICK j \in 1 .. n : /\ read'[j] = Fragment("call", f.call)
                          /\ \A k \in (j + 1) .. n + 1 : read'[k].kind = "args"
  <2>1. n + 1 \in 1 .. n + 1 /\ (n + 1) - 1 = n
    BY <1>1
  <2> QED  BY <1>1, <1>2, <2>1
<1>6. n \in 1 .. n + 1 /\ n \in 1 .. n /\ read'[n] = read[n] /\ j \in Nat /\ j <= n
  BY <1>1, <1>5
<1>7. CASE j = n
  <2>1. read[n] = Fragment("call", f.call)
    BY <1>5, <1>6, <1>7
  <2>2. read[n].call = f.call
    BY <2>1, FragmentFields
  <2> QED  BY <1>3, <1>4, <2>2
<1>8. CASE j # n
  <2>1. n \in (j + 1) .. n + 1
    BY <1>1, <1>6, <1>8
  <2>2. read'[n].kind = "args"
    BY <1>5, <2>1
  <2>3. PICK l \in 1 .. (n - 1) : /\ read'[l] = Fragment("call", read'[n].call)
                                  /\ \A k \in (l + 1) .. n : read'[k].kind = "args"
    BY <1>2, <1>6, <2>2
  <2>4. l = j
    <3>1. read'[l].kind = "call" /\ read'[j].kind = "call"
      BY <1>5, <2>3, FragmentFields
    <3>2. l \notin (j + 1) .. n + 1 /\ j \notin (l + 1) .. n
      BY <1>5, <2>3, <3>1
    <3> QED  BY <1>1, <1>6, <2>3, <3>2
  <2>5. read'[n].call = f.call
    <3>1. Fragment("call", read'[n].call) = Fragment("call", f.call)
      BY <1>5, <2>3, <2>4
    <3>2. Fragment("call", read'[n].call).call = read'[n].call /\ Fragment("call", f.call).call = f.call
      BY DEF Fragment
    <3> QED  BY <3>1, <3>2
  <2> QED  BY <1>3, <1>4, <1>6, <2>5
<1> QED  BY <1>7, <1>8

\* What announces a call stays with it.
LEMMA FragmentLink ==
    ASSUME NEW r, Answer(r), NEW f \in Fragments, Answer(Append(r, f)),
           IsSeq(t.out), CallsSafe(t.out, r)
    PROVE  /\ ChatLink(t.out, r) => ChatLink(t.out, Append(r, f))
           /\ ResponsesLink(t, r) => ResponsesLink(t, Append(r, f))
<1>1. \A i \in Announced(t.out) : CallIndex(Append(r, f), t.out[i].call) = CallIndex(r, t.out[i].call)
  <2>1. \A i \in Announced(t.out) : t.out[i].call \in CallsIn(r)
    BY SafeFacts
  <2> QED  BY <2>1, CallIndexes
<1> QED  BY <1>1 DEF ChatLink, ResponsesLink

\* A Claude client hears of the last call, or its name is in the pipe.
LEMMA FragmentNames ==
    ASSUME Answer(read), NEW f \in Fragments, read' = Append(read, f), Answer(read'), Sequential',
           source \in {"chat", "generateContent"}, target = "messages",
           source = "generateContent" => f.kind # "args",
           pending = <<>>, pending' = FragmentChunks(source, read', held),
           SendsTool(f) => pending' = <<ToolFor(read', f)>>,
           ~SendsTool(f) => IsSeq(pending') /\ NoTools(pending'),
           IsSeq(t.out), CallsSafe(t.out, read)
    PROVE  /\ NamedOnce(t.out, pending')
           /\ MessagesLink(t, pending, read) => MessagesLink(t, pending', read')
<1> DEFINE k == ToolFor(read', f)
<1>1. \A i \in Announced(t.out) : t.out[i].call \in CallsIn(read)
  BY SafeFacts
<1>2. NamedOnce(t.out, pending')
  <2>1. CASE SendsTool(f)
    <3>1. k.kind = "tool" /\ k.call = IF source = "chat" /\ f.kind = "args" THEN 0 ELSE f.call
      BY ToolIs
    <3> HIDE DEF k
    <3>2. ToSet(pending') = {k} /\ pending' = <<k>>
      BY <2>1, OneSeq DEF k
    <3>3. k.call # 0 => f.kind = "call" /\ k.call = f.call
      BY <2>1, <3>1 DEF SendsTool
    <3>4. f.kind = "call" => f.call \notin CallsIn(read)
      BY FragmentFits
    <3>5. k.call # 0 => \A i \in Announced(t.out) : t.out[i].call # k.call
      BY <1>1, <3>3, <3>4
    <3> QED  BY <3>2, <3>5 DEF NamedOnce
  <2>2. CASE ~SendsTool(f)
    BY <2>2, NoToolsPipe
  <2> QED  BY <2>1, <2>2
<1>3. ASSUME MessagesLink(t, pending, read) PROVE MessagesLink(t, pending', read')
  <2>1. LastOf(read') = f
    <3>1. Len(Append(read, f)) = Len(read) + 1 /\ Append(read, f)[Len(read) + 1] = f
      BY AnswerGrows
    <3> QED  BY <3>1 DEF LastOf
  <2>2. SUFFICES ASSUME source = "chat", f.kind \in {"call", "args"}
                 PROVE  \/ CallBlock(t, f.call)
                        \/ f.kind = "call" /\ pending' = ChatChunks(read')
    BY <1>3, <2>1 DEF MessagesLink
  <2>3. pending' = ChatChunks(read')
    BY <2>2 DEF FragmentChunks
  <2>4. CASE f.kind = "args"
    <3>1. read \in Seq(Fragments) /\ read' \in Seq(Fragments)
      BY DEF Answer
    <3>2. read # <<>> /\ LastOf(read).kind \in {"call", "args"} /\ LastOf(read).call = f.call
      BY <2>4, <3>1, SameCall
    <3>3. ChatChunks(read) # pending
      <4>1. \E c : ChatChunks(read) = <<c>>
        BY <3>2, ChatChunkIs
      <4> QED  BY <4>1
    <3>4. CallBlock(t, LastOf(read).call)
      BY <1>3, <2>2, <3>2, <3>3 DEF MessagesLink
    <3> QED  BY <3>2, <3>4
  <2> QED  BY <2>2, <2>3, <2>4
<1> QED  BY <1>2, <1>3

LEMMA ReadFragmentCalls ==
    ASSUME Shape, SourceInv, TypeParts, TypeParts', ReadFragment, CallsKept',
           CallsNow(t, pending, read, whole, tgt = "running", Intact), Hushed(t.out, pending, whole)
    PROVE  CallsNow(t', pending', read', whole', tgt' = "running", Intact')
<1>1. PICK f \in NextFragments : read' = Append(read, f) /\ pending' = FragmentChunks(source, read', held)
  BY DEF ReadFragment
<1>2. /\ UNCHANGED <<source, target, held, t, tgt, gone>> /\ pending = <<>> /\ ~whole /\ whole' = whole
      /\ (Intact' <=> Intact)
  BY DEF ReadFragment, MayRead, targetVars, fixed, Intact, Out, SourceInv
<1>3. /\ Answer(read) /\ Answer(read') /\ f \in Fragments /\ source \in Protocols
      /\ (source = "generateContent" => f.kind # "args")
  BY NextAreFragments, NextKinds DEF TypeParts, Shape, Fragments
<1>4. IsTranslator(t) /\ IsSeq(t.out) /\ CallsSafe(t.out, read)
  BY DEF Shape, IsTranslator, CallsNow
<1> DEFINE q == Append(read, f)
           p == FragmentChunks(source, q, held)
           k == ToolFor(q, f)
<1>5. read' = q /\ pending' = p /\ Answer(q) /\ t' = t /\ tgt' = tgt
  BY <1>1, <1>2, <1>3
<1>6. IsSeq(p) /\ (SendsTool(f) => p = <<k>>) /\ (~SendsTool(f) => NoTools(p))
  <2>1. f.kind = "call" => f.call \notin CallsIn(read)
    BY <1>3, <1>5, FragmentFits
  <2> QED  BY <1>3, <1>5, <2>1, FragmentTools
<1>7. CallsSafe(t.out, q)
  <2>1. ~CallsHeld \/ Announced(t.out) = {}
    BY <1>2 DEF Hushed, Awaited
  <2> QED  BY <1>3, <1>4, <1>5, <2>1, GrownSafe
<1>8. PipedCalls(p, q)
  <2>1. CASE SendsTool(f)
    <3>1. PipedCalls(<<k>>, q)
      BY <1>3, <1>5, <2>1, FragmentPipe
    <3> QED  BY <1>6, <2>1, <3>1
  <2>2. CASE ~SendsTool(f)
    BY <1>6, <2>2, NoToolsPipe
  <2> QED  BY <2>1, <2>2
<1> HIDE DEF p
<1>9. ASSUME Intact, NEW c \in CallsIn(q) PROVE CallFlow(t.out, p, q, whole, c)
  <2>1. c \in CallsIn(read) => CallFlow(t.out, <<>>, read, whole, c)
    BY <1>2, <1>9 DEF CallsNow
  <2>2. CASE SendsTool(f)
    <3>1. CallFlow(t.out, <<ToolFor(q, f)>>, q, whole, c)
      BY <1>3, <1>4, <1>5, <1>9, <2>1, <2>2, SpokenFragment
    <3> QED  BY <1>6, <2>2, <3>1
  <2>3. CASE ~SendsTool(f)
    BY <1>2, <1>3, <1>4, <1>5, <1>6, <1>9, <2>1, <2>3, SilentFragment
  <2> QED  BY <2>2, <2>3
<1>10. ASSUME Intact PROVE CallLink(t, p, q, tgt = "running")
  <2>1. CallLink(t, pending, read, tgt = "running")
    BY <1>10 DEF CallsNow
  <2>2. /\ ChatLink(t.out, read) => ChatLink(t.out, q)
        /\ ResponsesLink(t, read) => ResponsesLink(t, q)
    BY <1>3, <1>4, <1>5, FragmentLink
  <2>3. target = "messages" =>
          /\ NamedOnce(t.out, p)
          /\ MessagesLink(t, pending, read) => MessagesLink(t, p, q)
    <3>1. SUFFICES ASSUME target = "messages"
                   PROVE  NamedOnce(t.out, p) /\ (MessagesLink(t, pending, read) => MessagesLink(t, p, q))
      OBVIOUS
    <3>2. source \in {"chat", "generateContent"} /\ Sequential'
      BY <1>2, <3>1 DEF CallsKept
    <3>3. /\ SendsTool(f) => pending' = <<ToolFor(read', f)>>
          /\ ~SendsTool(f) => IsSeq(pending') /\ NoTools(pending')
      BY <1>5, <1>6
    <3>4. NamedOnce(t.out, pending') /\ (MessagesLink(t, pending, read) => MessagesLink(t, pending', read'))
      BY <1>1, <1>2, <1>3, <1>4, <3>1, <3>2, <3>3, FragmentNames
    <3> QED  BY <1>5, <3>4
  <2> QED  BY <2>1, <2>2, <2>3 DEF CallLink
<1> HIDE DEF q
<1>11. CallsNow(t, p, q, whole, tgt = "running", Intact)
  BY <1>7, <1>8, <1>9, <1>10 DEF CallsNow
<1>12. /\ t' = t /\ pending' = p /\ read' = q /\ whole' = whole /\ tgt' = tgt
       /\ (Intact' <=> Intact)
  BY <1>2, <1>5
<1> QED  BY <1>11, <1>12

\* What the calls were kept for before a fragment they are kept for after it.
LEMMA KeptBefore ==
    ASSUME TypeParts, TypeParts', Source, CallsKept'
    PROVE  CallsKept
<1>1. UNCHANGED <<source, target>>
  BY DEF Source, Reading, ReadFragment, ReadTerminal, ReadDone, ReadEnd, ReadError, ReadMalformed,
         SourceReturns, SourceWriteFails, fixed
<1>2. CASE ReadFragment
  <2>1. PICK f \in NextFragments : read' = Append(read, f)
    BY <1>2 DEF ReadFragment
  <2>2. read \in Seq(Fragments) /\ read' \in Seq(Fragments)
    BY DEF TypeParts, Answer
  <2>3. Sequential' => Sequential
    BY <2>1, <2>2, SequentialPast
  <2> QED  BY <1>1, <2>3 DEF CallsKept
<1>3. CASE ~ReadFragment
  <2>1. read' = read
    BY <1>3 DEF Source, Reading, ReadTerminal, ReadDone, ReadEnd, ReadError, ReadMalformed,
                  SourceReturns, SourceWriteFails, sourceVars
  <2>2. Sequential' <=> Sequential
    BY <2>1 DEF Sequential
  <2> QED  BY <1>1, <2>2 DEF CallsKept
<1> QED  BY <1>2, <1>3

\* A source that keeps calls for its snapshot puts none into the pipe before it.
LEMMA SourceHushed ==
    ASSUME Shape, SourceInv, TypeParts, TypeParts', Source, Hushed(t.out, pending, whole)
    PROVE  Hushed(t'.out, pending', whole')
<1>1. UNCHANGED <<source, target, held, t>> /\ source \in Protocols /\ (whole => whole')
  BY DEF Source, Reading, ReadFragment, ReadTerminal, ReadDone, ReadEnd, ReadError, ReadMalformed,
         SourceReturns, SourceWriteFails, targetVars, fixed, Shape
<1>2. SUFFICES ASSUME CallsHeld, ~whole'
               PROVE  NoTools(pending')
  <2>1. Awaited(whole') => Awaited(whole) /\ CallsHeld /\ ~whole'
    BY <1>1 DEF Awaited
  <2>2. Announced(t'.out) = Announced(t.out)
    BY <1>1 DEF Announced
  <2> QED  BY <2>1, <2>2 DEF Hushed
<1>3. NoTools(pending)
  BY <1>1, <1>2 DEF Hushed, Awaited
<1>4. CASE ReadFragment
  <2>1. PICK f \in NextFragments : read' = Append(read, f) /\ pending' = FragmentChunks(source, read', held)
    BY <1>4 DEF ReadFragment
  <2>2. /\ Answer(read) /\ Answer(read') /\ f \in Fragments
        /\ (source = "generateContent" => f.kind # "args")
    BY <1>1, <2>1, NextAreFragments, NextKinds DEF TypeParts, Shape, Fragments
  <2>3. Answer(Append(read, f)) /\ ~SendsTool(f)
    BY <1>2, <2>1, <2>2 DEF SendsTool
  <2>4. f.kind = "call" => f.call \notin CallsIn(read)
    BY <2>2, <2>3, FragmentFits
  <2>5. NoTools(FragmentChunks(source, Append(read, f), held))
    BY <1>1, <2>2, <2>3, <2>4, FragmentTools
  <2> QED  BY <2>1, <2>5
<1>5. CASE ReadTerminal
  BY <1>2, <1>5 DEF ReadTerminal
<1>6. CASE ReadDone \/ ReadEnd \/ ReadMalformed
  <2>1. pending' \in {<<DoneChunk>>, <<BadChunk>>, ClosingChunks(source), <<>>, pending}
    BY <1>6 DEF ReadDone, ReadEnd, ReadMalformed
  <2> QED  BY <1>1, <1>3, <2>1, NoToolsEnds, NoToolsNone
<1>7. CASE ReadError \/ SourceReturns
  BY <1>3, <1>7 DEF ReadError, SourceReturns
<1>8. CASE SourceWriteFails
  <2>1. pending # <<>> /\ pending' \in {Tail(pending), <<>>}
    BY <1>8 DEF SourceWriteFails
  <2>2. IsSeq(pending)
    BY PipeOf
  <2>3. ToSet(Tail(pending)) \subseteq ToSet(pending)
    BY <2>1, <2>2, HeadTailSeq
  <2> QED  BY <1>3, <2>1, <2>3, NoToolsNone DEF NoTools
<1> QED  BY <1>4, <1>5, <1>6, <1>7, <1>8 DEF Source, Reading

\* Only a Chat client's calls can be kept for a snapshot, and it gets what is in the pipe.
LEMMA TargetHushed ==
    ASSUME Shape, SourceInv, ChatClientInv, TypeParts, Target, CallsKept,
           CallsNow(t, pending, read, whole, tgt = "running", Intact), Hushed(t.out, pending, whole)
    PROVE  Hushed(t'.out, pending', whole')
<1>1. UNCHANGED <<source, target, held, whole>>
  BY DEF Target, TargetStarts, TakeChunk, TakeCancelled, TakeEnd, DeliverChunk, sourceVars, fixed
<1>2. SUFFICES ASSUME CallsHeld, ~whole
               PROVE  Announced(t'.out) = {} /\ NoTools(pending')
  BY <1>1 DEF Hushed, Awaited
<1>3. target = "chat" /\ tgt = "running"
  BY <1>2 DEF CallsHeld, CallsKept, Shape, ChatClientInv
<1>4. DeliverChunk
  BY <1>3 DEF Target, TargetStarts, TakeChunk, TakeCancelled, TakeEnd
<1> DEFINE c == Head(pending)
<1>5. /\ pending # <<>> /\ pending' = Tail(pending) /\ t' = Process(target, t, c)
  BY <1>4 DEF DeliverChunk
<1>6. Announced(t.out) = {} /\ NoTools(pending)
  BY <1>2 DEF Hushed, Awaited
<1>7. IsSeq(pending) /\ IsTranslator(t) /\ IsSeq(t.out) /\ Answer(read) /\ Telling(t.out)
  BY PipeOf DEF Shape, IsTranslator, CallsNow, CallsSafe, Telling
<1>8. c \in ToSet(pending) /\ ToSet(Tail(pending)) \subseteq ToSet(pending)
  BY <1>5, <1>7, HeadTailSeq
<1>9. c.kind # "tool"
  BY <1>6, <1>8 DEF NoTools
<1> HIDE DEF c
<1>10. \E q : Process(target, t, c).out = q /\ Announced(q) = Announced(t.out)
  <2>1. Process(target, t, c) = Emit(t, Event(c.kind, c.index, c.kind, c.call, c.data))
    BY <1>3 DEF Process
  <2>2. Process(target, t, c).out = Append(t.out, Event(c.kind, c.index, c.kind, c.call, c.data))
    BY <1>7, <2>1, EmitFields
  <2>3. Event(c.kind, c.index, c.kind, c.call, c.data).type # "tool"
    BY <1>9, EventIs
  <2> DEFINE e == Event(c.kind, c.index, c.kind, c.call, c.data)
  <2> HIDE DEF e
  <2>4. ~Announces(t.out, e)
    BY <1>3, <2>3 DEF Announces, e
  <2>5. Announced(Append(t.out, e)) = Announced(t.out)
    <3>1. Announced(Append(t.out, e)) = Announced(t.out) \cup (IF Announces(t.out, e) THEN {Len(t.out) + 1} ELSE {})
      BY <1>7, AnnouncedAppend
    <3> QED  BY <2>4, <3>1
  <2> QED  BY <2>2, <2>5 DEF e
<1>11. NoTools(Tail(pending))
  BY <1>6, <1>8 DEF NoTools
<1> QED  BY <1>5, <1>6, <1>10, <1>11

LEMMA SourceCalls ==
    ASSUME Shape, SourceInv, ChatClientInv, TypeParts, TypeParts', tgt = "ok" => pending = <<>>, Source, CallsKept',
           CallsKept => CallsNow(t, pending, read, whole, tgt = "running", Intact) /\ Hushed(t.out, pending, whole)
    PROVE  CallsNow(t', pending', read', whole', tgt' = "running", Intact')
<1>1. UNCHANGED <<source, target, held, t, tgt, gone>> /\ source \in Protocols /\ Answer(read)
  BY DEF Source, Reading, ReadFragment, ReadTerminal, ReadDone, ReadEnd, ReadError, ReadMalformed,
         SourceReturns, SourceWriteFails, targetVars, fixed, Shape, TypeParts
<1>2. CallsKept
  BY KeptBefore
<1>3. CallsNow(t, pending, read, whole, tgt = "running", Intact) /\ Hushed(t.out, pending, whole)
  BY <1>2
<1>4. CASE ReadFragment
  BY <1>3, <1>4, ReadFragmentCalls
<1>5. CASE ReadTerminal
  <2>1. /\ read' = read /\ pending = <<>> /\ ~whole /\ whole'
        /\ pending' = TerminalChunks(source, read, held)
    BY <1>5 DEF ReadTerminal, MayRead, SourceInv
  <2>2. CASE CallsHeld
    <3>1. pending' = SnapshotChunks(read, held)
      BY <2>1, <2>2 DEF TerminalChunks, CallsHeld
    <3> QED  BY <1>1, <1>2, <1>3, <2>1, <2>2, <3>1, SnapshotCallsNow
  <2>3. CASE ~CallsHeld
    <3>1. pending' = <<FinishChunk>> \/ pending' = <<>> \/ (source = "responses" /\ pending' = SnapshotChunks(read, held))
      BY <1>1, <2>1 DEF TerminalChunks, Protocols
    <3>2. IsSeq(pending') /\ NoTools(pending')
      BY <1>1, <2>3, <3>1, NoToolsEnds, NoToolsNone, SnapshotIsCalls
    <3> QED  BY <1>1, <1>3, <2>1, <2>3, <3>2, NoToolCalls
  <2> QED  BY <2>2, <2>3
<1>6. CASE ReadDone \/ ReadEnd \/ (ReadMalformed /\ source = "chat")
  <2>1. /\ read' = read /\ whole' = whole /\ pending = <<>>
        /\ pending' \in {<<DoneChunk>>, <<BadChunk>>, ClosingChunks(source), <<>>}
    BY <1>6 DEF ReadDone, ReadEnd, ReadMalformed, MayRead
  <2>2. IsSeq(pending') /\ NoTools(pending')
    BY <1>1, <2>1, NoToolsEnds, NoToolsNone
  <2> QED  BY <1>1, <1>3, <2>1, <2>2, NoToolCalls
<1>7. CASE ReadError \/ SourceReturns \/ (ReadMalformed /\ source # "chat")
  <2>1. UNCHANGED <<read, whole, pending>>
    BY <1>7 DEF ReadError, SourceReturns, ReadMalformed
  <2> QED  BY <1>1, <1>3, <2>1, StillCalls
<1>8. CASE SourceWriteFails
  BY <1>3, <1>8, WriteFailsCalls
<1> QED  BY <1>4, <1>5, <1>6, <1>7, <1>8 DEF Source, Reading

LEMMA NextCalls ==
    ASSUME IInv, TypeParts, TypeParts', ItemsHold, BlocksHold, tgt = "ok" => pending = <<>>, CallsInv, [Next]_vars
    PROVE  CallsInv'
<1>1. UNCHANGED <<source, target, held>>
  BY DEF Next, Source, Reading, ReadFragment, ReadTerminal, ReadDone, ReadEnd, ReadError, ReadMalformed,
         SourceReturns, SourceWriteFails, Target, TargetStarts, TakeChunk, TakeCancelled, TakeEnd, DeliverChunk,
         Return, ClientLeaves, Cancel, fixed, vars
<1>2. Shape /\ SourceInv /\ ChatClientInv
  BY DEF IInv
<1>3. CallsKept => CallsNow(t, pending, read, whole, tgt = "running", Intact) /\ Hushed(t.out, pending, whole)
  BY CallsInvIs
<1>4. SUFFICES ASSUME CallsKept'
               PROVE  CallsNow(t', pending', read', whole', tgt' = "running", Intact') /\ Hushed(t'.out, pending', whole')
  BY <1>1, CallsInvNext
<1>5. CASE Source
  <2>1. CallsNow(t', pending', read', whole', tgt' = "running", Intact')
    BY <1>2, <1>3, <1>4, <1>5, SourceCalls
  <2>2. CallsKept
    BY <1>4, <1>5, KeptBefore DEF IInv
  <2> QED  BY <1>2, <1>3, <1>5, <2>1, <2>2, SourceHushed
<1>6. CASE ~Source
  <2>1. read' = read
    BY <1>6 DEF Next, Target, TargetStarts, TakeChunk, TakeCancelled, TakeEnd, DeliverChunk,
                Return, ClientLeaves, Cancel, sourceVars, vars
  <2>2. Sequential' <=> Sequential
    BY <2>1 DEF Sequential
  <2>3. CallsKept
    BY <1>1, <1>4, <2>2 DEF CallsKept
  <2>4. CallsNow(t, pending, read, whole, tgt = "running", Intact) /\ Hushed(t.out, pending, whole)
    BY <1>3, <2>3
  <2>5. CASE Target
    BY <1>2, <2>3, <2>4, <2>5, TargetCalls, TargetHushed
  <2>6. CASE Return \/ ClientLeaves \/ Cancel \/ UNCHANGED vars
    <3>1. UNCHANGED <<source, target, held, t, tgt, read, whole, pending>> /\ (gone => gone')
      BY <2>6 DEF Return, ClientLeaves, Cancel, vars, sourceVars, targetVars
    <3>2. Hushed(t'.out, pending', whole')
      BY <2>4, <3>1 DEF Hushed, Awaited, CallsHeld, Announced, NoTools
    <3> QED  BY <2>4, <3>1, <3>2, StillCalls
  <2> QED  BY <1>6, <2>5, <2>6 DEF Next
<1> QED  BY <1>5, <1>6

LEMMA InitCalls == Init => CallsInv
<1> SUFFICES ASSUME Init PROVE CallsInv
  OBVIOUS
<1>1. t = NewTranslator /\ pending = <<>> /\ read = <<>> /\ (tgt = "running" => target = "chat")
  BY DEF Init
<1>2. t.out = <<>>
  BY <1>1 DEF NewTranslator
<1>3. IsSeq(t.out) /\ ToSet(t.out) = {} /\ Announced(t.out) = {} /\ CallsIn(read) = {}
  BY <1>1, <1>2, EmptyFacts DEF Announced, CallsIn
<1>4. \A types, kind, at : Wordy(t.out, types, kind, at)
  BY <1>3 DEF Wordy
<1>5. PipedCalls(pending, read) /\ NamedOnce(t.out, pending)
  BY <1>1, NoToolsNone, NoToolsPipe
<1>6. CallsSafe(t.out, read)
  BY <1>3, <1>4 DEF CallsSafe
<1>7. target = "chat" => ChatLink(t.out, read)
  BY <1>3 DEF ChatLink, Events
<1>8. CallLink(t, pending, read, tgt = "running")
  <2>1. target # "chat" => tgt # "running"
    BY <1>1
  <2> QED  BY <1>5, <1>7, <2>1 DEF CallLink
<1>9. CallsNow(t, pending, read, whole, tgt = "running", Intact)
  BY <1>3, <1>5, <1>6, <1>8 DEF CallsNow
<1>10. Hushed(t.out, pending, whole)
  BY <1>1, <1>3, NoToolsNone DEF Hushed
<1> QED  BY <1>9, <1>10, CallsInvIs

\* Between the upstream and the client no piece of a call is lost, repeated or given to
\* another call: what the client has heard of it and what is in the pipe are what the
\* source has forwarded, and the target finds the announcement of every chunk's call.
THEOREM CallsInvCorrect == Spec => []CallsStreamInv
<1>1. Init => CallsInv
  BY InitCalls
<1>2. TextInv /\ ItemsStreamInv /\ BlocksStreamInv /\ TypeInv' /\ CallsInv /\ [Next]_vars => CallsInv'
  <2>1. SUFFICES ASSUME TextInv, ItemsStreamInv, BlocksStreamInv, TypeInv', CallsInv, [Next]_vars PROVE CallsInv'
    OBVIOUS
  <2>2. IInv /\ (tgt = "ok" => pending = <<>>) /\ TypeParts
    BY <2>1, TypeInvParts DEF TextInv, BlocksStreamInv, TypeInv
  <2>3. ItemsHold /\ BlocksHold
    BY <2>1, <2>2, ItemsHoldIs, BlocksHoldIs DEF ItemsStreamInv, BlocksStreamInv
  <2>4. TypeParts'
    BY <2>1, TypeInvPartsNext DEF TypeInv
  <2> QED  BY <2>1, <2>2, <2>3, <2>4, NextCalls
<1>3. CallsStreamInv <=> TextInv /\ ItemsStreamInv /\ BlocksStreamInv /\ CallsInv
  BY DEF CallsStreamInv
<1> QED  BY <1>1, <1>2, <1>3, TextInvCorrect, ItemsInvCorrect, BlocksInvCorrect, TypeInvCorrect, PTL DEF Spec

\* Every tool call that the upstream sends reaches a Chat or Responses client once, and
\* so a Claude client of an upstream that names a call once, with the pieces of its own
\* arguments in their order, whatever is interleaved with them; and every call does when
\* the handler reports success, but for those that an upstream kept for a snapshot that
\* it never sent (the tool call handling of StreamTranslator, processChatChunkToClaude
\* and the sources), for answers of any length.
THEOREM CallsCorrect == Spec => []CallsDelivered
<1>1. CallsStreamInv => CallsDelivered
  <2>1. SUFFICES ASSUME CallsStreamInv, CallsKept
                 PROVE  /\ \A i, j \in CallsOut : Out[i].call = Out[j].call => i = j
                        /\ \A i \in CallsOut :
                            Out[i].call \in CallsSent(read) /\ IsPrefix(ArgsSeen(i), ArgsSent(read, Out[i].call))
                        /\ outcome = "success" =>
                            {[call |-> Out[i].call, args |-> ArgsSeen(i)] : i \in CallsOut}
                              = {[call |-> c, args |-> ArgsSent(read, c)] :
                                    c \in IF Withheld("call") THEN {} ELSE CallsSent(read)}
    BY DEF CallsDelivered
  <2>2. /\ TextInv /\ IInv /\ TypeParts /\ CallsNow(t, pending, read, whole, tgt = "running", Intact)
        /\ Hushed(t.out, pending, whole)
    BY <2>1, TypeInvParts, CallsInvIs DEF CallsStreamInv, BlocksStreamInv, TypeInv
  <2>3. IsSeq(Out) /\ Answer(read) /\ CallsSafe(Out, read)
    BY <2>2 DEF IInv, Shape, IsTranslator, TypeParts, CallsNow, Out
  <2>4. /\ \A b : Heard(Out, b) \in Seq(Nat)
        /\ \A i \in CallsOut : /\ Out[i].kind = CallKind /\ Out[i].index \in Nat
                               /\ Out[i].call \in CallsSent(read) /\ Out[i].call \in CallsIn(read)
                               /\ IsPrefix(Heard(Out, Out[i].index), ArgsSent(read, Out[i].call))
        /\ \A i, j \in CallsOut : Out[i].call = Out[j].call => i = j
    BY <2>3, SafeFacts DEF CallsOut
  <2>5. \A i \in CallsOut : ArgsSeen(i) = Heard(Out, Out[i].index)
    BY <2>4 DEF ArgsSeen, Heard
  <2>0. Withheld("call") <=> Awaited(whole)
    BY DEF Withheld, Awaited, CallsHeld
  <2>6. ASSUME outcome = "success", ~Awaited(whole)
        PROVE  /\ \A i \in CallsOut : ArgsSeen(i) = ArgsSent(read, Out[i].call)
               /\ \A c \in CallsSent(read) : \E i \in CallsOut : Out[i].call = c
    <3>1. pending = <<>> /\ Intact
      BY <2>2, <2>6, SuccessIsWhole
    <3>2. ~Awaited(whole) /\ \A c \in CallsIn(read) : CallFlow(Out, pending, read, whole, c)
      BY <2>2, <2>6, <3>1 DEF CallsNow, Out
    <3>3. \A b : Piping(pending, b) = <<>> /\ ToolsAt(pending, b) = {}
      BY <3>1, NoToolsPipe, NoToolsNone
    <3>4. ASSUME NEW i \in CallsOut PROVE ArgsSeen(i) = ArgsSent(read, Out[i].call)
      <4> DEFINE h == Heard(Out, Out[i].index)
      <4>1. h \o <<>> = Sent(read, whole, Out[i].call)
        BY <2>4, <3>2, <3>3, FlowIs DEF CallsOut
      <4>2. Sent(read, whole, Out[i].call) = ArgsSent(read, Out[i].call)
        BY <3>2 DEF Sent
      <4>3. h \in Seq(Nat) /\ ArgsSeen(i) = h
        BY <2>4, <2>5
      <4> HIDE DEF h
      <4>4. h \o <<>> = h
        BY <4>3
      <4> QED  BY <4>1, <4>2, <4>3, <4>4
    <3>5. ASSUME NEW c \in CallsSent(read) PROVE \E i \in CallsOut : Out[i].call = c
      <4>1. c \in CallsIn(read)
        BY DEF CallsSent
      <4> QED  BY <3>2, <3>3, <4>1, FlowIs DEF CallsOut
    <3> QED  BY <3>4, <3>5
  <2>7. ASSUME outcome = "success"
        PROVE  {[call |-> Out[i].call, args |-> ArgsSeen(i)] : i \in CallsOut}
                 = {[call |-> c, args |-> ArgsSent(read, c)] :
                        c \in IF Withheld("call") THEN {} ELSE CallsSent(read)}
    <3>1. CASE Awaited(whole)
      <4>1. CallsOut = {}
        BY <2>2, <3>1 DEF Hushed, CallsOut, Out
      <4> QED  BY <2>0, <3>1, <4>1
    <3>2. CASE ~Awaited(whole)
      <4>1. \A i \in CallsOut : Out[i].call \in CallsSent(read)
        BY <2>4
      <4> QED  BY <2>0, <2>6, <2>7, <3>2, <4>1
    <3> QED  BY <3>1, <3>2
  <2> QED  BY <2>4, <2>5, <2>7
<1> QED  BY <1>1, CallsInvCorrect, PTL
===============================================================================
