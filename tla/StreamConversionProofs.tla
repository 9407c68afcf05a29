------------------------ MODULE StreamConversionProofs ------------------------
(***************************************************************************)
(* What a converted stream tells its client and its handler, for answers of *)
(* every length and every number of tool calls.                              *)
(***************************************************************************)
EXTENDS StreamConversionProps, SequenceTheorems, FiniteSetTheorems, TLAPS

-----------------------------------------------------------------------------
(* Lemmas about sequences. *)

\* A sequence over S is one over its own elements, which are in S.
LEMMA SeqFacts ==
    ASSUME NEW S, NEW s \in Seq(S)
    PROVE  /\ IsSeq(s) /\ ToSet(s) \subseteq S
           /\ Len(s) \in Nat /\ DOMAIN s = 1 .. Len(s)
           /\ ToSet(s) = {s[i] : i \in 1 .. Len(s)}
<1>1. Len(s) \in Nat /\ DOMAIN s = 1 .. Len(s) /\ s \in [1 .. Len(s) -> S]
  BY LenProperties
<1>2. ToSet(s) = {s[i] : i \in 1 .. Len(s)}
  BY <1>1 DEF ToSet
<1>3. s \in [1 .. Len(s) -> ToSet(s)]
  BY <1>1, <1>2
<1>4. s \in Seq(ToSet(s))
  BY <1>1, <1>3, SeqDef
<1>5. QED
  BY <1>1, <1>2, <1>4 DEF IsSeq

\* A function on 1..n is a sequence.
LEMMA FunctionSeq ==
    ASSUME NEW n \in Nat, NEW f, f = [i \in 1 .. n |-> f[i]]
    PROVE  IsSeq(f) /\ Len(f) = n
<1>1. DOMAIN f = 1 .. n
  OBVIOUS
<1>2. f \in [1 .. n -> ToSet(f)]
  BY <1>1 DEF ToSet
<1>3. f \in Seq(ToSet(f))
  BY <1>2, SeqDef
<1>4. Len(f) = n
  <2>1. Len(f) \in Nat /\ DOMAIN f = 1 .. Len(f)
    BY <1>3, LenProperties
  <2>2. QED
    BY <1>1, <2>1
<1>5. QED
  BY <1>3, <1>4 DEF IsSeq

LEMMA AppendSeq ==
    ASSUME NEW s, IsSeq(s), NEW e
    PROVE  /\ IsSeq(Append(s, e))
           /\ ToSet(Append(s, e)) = ToSet(s) \cup {e}
           /\ Len(s) \in Nat /\ Len(Append(s, e)) = Len(s) + 1
           /\ \A i \in 1 .. Len(s) : Append(s, e)[i] = s[i]
<1> DEFINE S == ToSet(s) \cup {e}
           a == Append(s, e)
<1>1. s \in Seq(S)
  BY SeqMonotonic DEF IsSeq
<1>2. /\ a \in Seq(S) /\ Len(s) \in Nat /\ Len(a) = Len(s) + 1
      /\ \A i \in 1 .. Len(s) : a[i] = s[i]
      /\ a[Len(s) + 1] = e
  BY <1>1, AppendProperties
<1>3. IsSeq(a) /\ ToSet(a) = {a[i] : i \in 1 .. Len(s) + 1} /\ ToSet(s) = {s[i] : i \in 1 .. Len(s)}
  BY <1>1, <1>2, SeqFacts
<1> HIDE DEF a
<1>4. ToSet(a) = ToSet(s) \cup {e}
  <2>1. \A i \in 1 .. Len(s) + 1 : i \in 1 .. Len(s) \/ i = Len(s) + 1
    BY <1>2
  <2>2. 1 .. Len(s) \subseteq 1 .. Len(s) + 1 /\ Len(s) + 1 \in 1 .. Len(s) + 1
    BY <1>2
  <2>3. ToSet(a) \subseteq ToSet(s) \cup {e}
    BY <1>2, <1>3, <2>1
  <2>4. ToSet(s) \subseteq ToSet(a) /\ e \in ToSet(a)
    BY <1>2, <1>3, <2>2
  <2>5. QED
    BY <2>3, <2>4
<1>5. QED
  BY <1>2, <1>3, <1>4 DEF a

LEMMA ConcatSeq ==
    ASSUME NEW s, NEW r, IsSeq(s), IsSeq(r)
    PROVE  IsSeq(s \o r) /\ ToSet(s \o r) = ToSet(s) \cup ToSet(r)
<1> DEFINE S == ToSet(s) \cup ToSet(r)
           a == s \o r
<1>1. s \in Seq(S) /\ r \in Seq(S)
  BY SeqMonotonic DEF IsSeq
<1>2. /\ a \in Seq(S) /\ Len(a) = Len(s) + Len(r)
      /\ \A i \in 1 .. Len(s) + Len(r) : a[i] = IF i <= Len(s) THEN s[i] ELSE r[i - Len(s)]
  BY <1>1, ConcatProperties
<1>3. /\ IsSeq(a) /\ ToSet(a) = {a[i] : i \in 1 .. Len(s) + Len(r)} /\ ToSet(a) \subseteq S
      /\ Len(s) \in Nat /\ ToSet(s) = {s[i] : i \in 1 .. Len(s)}
      /\ Len(r) \in Nat /\ ToSet(r) = {r[i] : i \in 1 .. Len(r)}
  BY <1>1, <1>2, SeqFacts
<1> HIDE DEF a, S
<1>4. ToSet(s) \subseteq ToSet(a)
  <2>1. \A i \in 1 .. Len(s) : i \in 1 .. Len(s) + Len(r) /\ a[i] = s[i]
    BY <1>2, <1>3
  <2>2. QED
    BY <1>3, <2>1
<1>5. ToSet(r) \subseteq ToSet(a)
  <2>1. \A i \in 1 .. Len(r) : Len(s) + i \in 1 .. Len(s) + Len(r) /\ ~(Len(s) + i <= Len(s))
                               /\ (Len(s) + i) - Len(s) = i
    BY <1>3
  <2>2. \A i \in 1 .. Len(r) : Len(s) + i \in 1 .. Len(s) + Len(r) /\ a[Len(s) + i] = r[i]
    BY <1>2, <2>1
  <2>3. QED
    BY <1>3, <2>2
<1>6. QED
  BY <1>3, <1>4, <1>5 DEF a, S

\* A part of a sequence from its start.
LEMMA PrefixSeq ==
    ASSUME NEW s, IsSeq(s), NEW n \in Nat, n <= Len(s)
    PROVE  /\ IsSeq(SubSeq(s, 1, n))
           /\ \A x \in ToSet(SubSeq(s, 1, n)) : \E i \in 1 .. n : x = s[i]
<1> DEFINE p == SubSeq(s, 1, n)
<1>1. Len(s) \in Nat /\ ToSet(s) = {s[i] : i \in 1 .. Len(s)}
  BY SeqFacts DEF IsSeq
<1>2. \A i \in 1 .. n : s[i] \in ToSet(s)
  BY <1>1
<1>3. p \in Seq(ToSet(s)) /\ Len(p) = n /\ \A i \in 1 .. n : p[i] = s[i]
  <2>1. /\ p \in Seq(ToSet(s))
        /\ Len(p) = IF 1 <= n THEN n - 1 + 1 ELSE 0
        /\ \A i \in 1 .. n - 1 + 1 : p[i] = s[1 + i - 1]
    BY <1>2, 1 \in Int, n \in Int, SubSeqProperties
  <2>2. QED
    BY <2>1
<1>4. IsSeq(p) /\ ToSet(p) = {p[i] : i \in 1 .. n}
  BY <1>3, SeqFacts
<1>5. QED
  BY <1>3, <1>4

LEMMA HeadTailSeq ==
    ASSUME NEW s, IsSeq(s), s # <<>>
    PROVE  /\ Head(s) \in ToSet(s)
           /\ IsSeq(Tail(s)) /\ ToSet(Tail(s)) \subseteq ToSet(s)
  BY HeadTailProperties, SeqFacts DEF IsSeq

LEMMA EmptyFacts == IsSeq(<<>>) /\ ToSet(<<>>) = {}
<1>1. ToSet(<<>>) = {}
  BY DEF ToSet
<1>2. <<>> \in Seq({})
  OBVIOUS
<1>3. QED
  BY <1>1, <1>2 DEF IsSeq

\* Sorting a finite set gives a sequence.
LEMMA AscendingSeq ==
    ASSUME NEW S, IsFiniteSet(S)
    PROVE  \E n \in Nat : DOMAIN Ascending(S) = 1 .. n
  BY FS_CardinalityType DEF Ascending

-----------------------------------------------------------------------------
(* What the target converters write. *)

\* y is the translator x after it has written events of the types in T.
Adds(x, y, T) ==
    IsTranslator(y) /\ \E w : IsSeq(w) /\ TypesOf(w) \subseteq T /\ y.out = x.out \o w

LEMMA ConcatTypes ==
    ASSUME NEW a, NEW b, IsSeq(a), IsSeq(b)
    PROVE  IsSeq(a \o b) /\ TypesOf(a \o b) = TypesOf(a) \cup TypesOf(b)
<1>1. IsSeq(a \o b) /\ ToSet(a \o b) = ToSet(a) \cup ToSet(b)
  BY ConcatSeq
<1>2. QED
  BY <1>1 DEF TypesOf

\* Sequences of any elements are over some common set.
LEMMA ConcatRules ==
    ASSUME NEW a, NEW b, NEW c, IsSeq(a), IsSeq(b), IsSeq(c)
    PROVE  (a \o b) \o c = a \o (b \o c) /\ a \o <<>> = a
<1> DEFINE S == ToSet(a) \cup ToSet(b) \cup ToSet(c)
<1>1. a \in Seq(S) /\ b \in Seq(S) /\ c \in Seq(S)
  BY SeqMonotonic DEF IsSeq
<1> HIDE DEF S
<1>2. QED
  BY <1>1, ConcatAssociative, ConcatEmptySeq

LEMMA AddsTypes ==
    ASSUME NEW x, NEW y, NEW T, IsTranslator(x), Adds(x, y, T)
    PROVE  /\ IsTranslator(y)
           /\ TypesOf(x.out) \subseteq TypesOf(y.out) /\ TypesOf(y.out) \subseteq TypesOf(x.out) \cup T
<1>1. PICK w : IsSeq(w) /\ TypesOf(w) \subseteq T /\ y.out = x.out \o w
  BY DEF Adds
<1>2. TypesOf(y.out) = TypesOf(x.out) \cup TypesOf(w)
  BY <1>1, ConcatTypes DEF IsTranslator
<1>3. QED
  BY <1>1, <1>2 DEF Adds

LEMMA AddsTwice ==
    ASSUME NEW x, NEW y, NEW z, NEW T, IsTranslator(x), Adds(x, y, T), Adds(y, z, T)
    PROVE  Adds(x, z, T)
<1>1. PICK v : IsSeq(v) /\ TypesOf(v) \subseteq T /\ y.out = x.out \o v
  BY DEF Adds
<1>2. PICK w : IsSeq(w) /\ TypesOf(w) \subseteq T /\ z.out = y.out \o w
  BY DEF Adds
<1>3. IsSeq(v \o w) /\ TypesOf(v \o w) \subseteq T
  BY <1>1, <1>2, ConcatTypes
<1>4. z.out = x.out \o (v \o w)
  BY <1>1, <1>2, ConcatRules DEF IsTranslator
<1>5. QED
  BY <1>3, <1>4 DEF Adds

LEMMA AddsMore ==
    ASSUME NEW x, NEW y, NEW T, NEW U, Adds(x, y, T), T \subseteq U
    PROVE  Adds(x, y, U)
<1>1. PICK w : IsSeq(w) /\ TypesOf(w) \subseteq T /\ y.out = x.out \o w
  BY DEF Adds
<1>2. TypesOf(w) \subseteq U
  BY <1>1
<1>3. QED
  BY <1>1, <1>2 DEF Adds

\* A translator that changes other fields writes nothing.
LEMMA AddsNothing ==
    ASSUME NEW x, NEW y, NEW T, IsTranslator(x), DOMAIN y = DOMAIN x, y.out = x.out,
           IsFiniteSet(DOMAIN y.toolCalls)
    PROVE  Adds(x, y, T)
<1>1. IsTranslator(y)
  BY DEF IsTranslator
<1>2. IsSeq(<<>>) /\ TypesOf(<<>>) \subseteq T
  BY EmptyFacts DEF TypesOf
<1>3. y.out = x.out \o <<>>
  BY <1>2, ConcatRules DEF IsTranslator
<1>4. QED
  BY <1>1, <1>2, <1>3 DEF Adds

LEMMA EmitAdds ==
    ASSUME NEW x, NEW e, NEW T, IsTranslator(x), e.type \in T
    PROVE  /\ Adds(x, Emit(x, e), T)
           /\ Emit(x, e).out = Append(x.out, e)
           /\ e.type \in TypesOf(Emit(x, e).out)
<1> DEFINE y == Emit(x, e)
<1>1. /\ DOMAIN y = DOMAIN x /\ y.toolCalls = x.toolCalls
      /\ y.out = Append(x.out, e)
  BY DEF Emit, IsTranslator
<1>2. IsSeq(Append(x.out, e)) /\ ToSet(Append(x.out, e)) = ToSet(x.out) \cup {e}
  BY AppendSeq DEF IsTranslator
<1>3. IsSeq(<<e>>) /\ TypesOf(<<e>>) = {e.type}
  <2>1. <<e>> \in Seq({e}) /\ Len(<<e>>) = 1 /\ <<e>>[1] = e
    OBVIOUS
  <2>2. IsSeq(<<e>>) /\ ToSet(<<e>>) = {<<e>>[i] : i \in 1 .. 1}
    BY <2>1, SeqFacts
  <2>3. ToSet(<<e>>) = {e}
    BY <2>1, <2>2
  <2>4. QED
    BY <2>2, <2>3 DEF TypesOf
<1>4. Append(x.out, e) = x.out \o <<e>>
  <2>1. x.out \in Seq(ToSet(x.out) \cup {e})
    BY SeqMonotonic DEF IsTranslator, IsSeq
  <2>2. QED
    BY <2>1, AppendIsConcat
<1> HIDE DEF y
<1>5. IsTranslator(y)
  BY <1>1, <1>2 DEF IsTranslator
<1>6. Adds(x, y, T)
  BY <1>1, <1>3, <1>4, <1>5 DEF Adds
<1>7. e.type \in TypesOf(y.out)
  BY <1>1, <1>2 DEF TypesOf
<1>8. QED
  BY <1>1, <1>6, <1>7 DEF y

LEMMA EventType ==
    ASSUME NEW type, NEW index, NEW kind, NEW call, NEW data
    PROVE  Event(type, index, kind, call, data).type = type
  BY DEF Event

\* Types of the events around the items or blocks, and of all that write them.
Openers == {"created", "added", "done"}
ItemTypes == Openers \cup {"delta"}

LEMMA FinalizeActiveAdds ==
    ASSUME NEW x, IsTranslator(x)
    PROVE  Adds(x, FinalizeActive(x), {"done"})
<1>1. CASE x.active = ""
  BY <1>1, AddsNothing DEF FinalizeActive, IsTranslator
<1>2. CASE x.active # ""
  <2> DEFINE item == [index |-> x.next - 1, kind |-> x.active, call |-> 0, data |-> x.buffer]
             y == [x EXCEPT !.finalOutput = Append(@, item)]
             e == Event("done", x.next - 1, x.active, 0, x.buffer)
             z == Emit(y, e)
             r == [z EXCEPT !.active = "", !.buffer = <<>>]
  <2>1. Adds(x, y, {"done"}) /\ IsTranslator(y)
    <3>1. DOMAIN y = DOMAIN x /\ y.out = x.out /\ y.toolCalls = x.toolCalls
      BY DEF IsTranslator
    <3> HIDE DEF y
    <3>2. Adds(x, y, {"done"})
      BY <3>1, AddsNothing DEF IsTranslator
    <3>3. QED
      BY <3>2 DEF Adds
  <2>2. Adds(y, z, {"done"}) /\ IsTranslator(z)
    <3> HIDE DEF y
    <3>1. Adds(y, z, {"done"})
      BY <2>1, EmitAdds, EventType
    <3>2. QED
      BY <3>1 DEF Adds
  <2>3. Adds(z, r, {"done"})
    <3> HIDE DEF z
    <3>1. DOMAIN r = DOMAIN z /\ r.out = z.out /\ r.toolCalls = z.toolCalls
      BY <2>2 DEF IsTranslator
    <3> HIDE DEF r
    <3>2. QED
      BY <2>2, <3>1, AddsNothing DEF IsTranslator
  <2>4. FinalizeActive(x) = r
    BY <1>2 DEF FinalizeActive, ItemDone
  <2> HIDE DEF r, z, y
  <2>5. QED
    BY <2>1, <2>2, <2>3, <2>4, AddsTwice
<1>3. QED
  BY <1>1, <1>2

LEMMA OpenItemAdds ==
    ASSUME NEW x, IsTranslator(x), NEW kind
    PROVE  Adds(x, OpenItem(x, kind), Openers)
<1> DEFINE s == FinalizeActive(x)
           y == [s EXCEPT !.active = kind, !.next = @ + 1]
           e == Event("added", s.next, kind, 0, <<>>)
<1>1. Adds(x, s, Openers) /\ IsTranslator(s)
  BY FinalizeActiveAdds, AddsMore DEF Openers, Adds
<1> HIDE DEF s
<1>2. DOMAIN y = DOMAIN s /\ y.out = s.out /\ y.toolCalls = s.toolCalls
  BY <1>1 DEF IsTranslator
<1> HIDE DEF y
<1>3. Adds(s, y, Openers) /\ IsTranslator(y)
  BY <1>1, <1>2, AddsNothing DEF IsTranslator, Adds
<1>4. Adds(y, Emit(y, e), Openers)
  BY <1>3, EmitAdds, EventType DEF Openers
<1>5. OpenItem(x, kind) = Emit(y, e)
  BY DEF OpenItem, y, s
<1>6. QED
  BY <1>1, <1>3, <1>4, <1>5, AddsTwice

LEMMA OpenToolCallAdds ==
    ASSUME NEW x, IsTranslator(x), NEW index, NEW call
    PROVE  Adds(x, OpenToolCall(x, index, call), Openers)
<1> DEFINE s == FinalizeActive(x)
           tc == [index |-> s.next, call |-> call, args |-> <<>>]
           calls == [i \in DOMAIN s.toolCalls \cup {index} |-> IF i = index THEN tc ELSE s.toolCalls[i]]
           y == [s EXCEPT !.next = @ + 1, !.toolCalls = calls]
           e == Event("added", s.next, "call", call, <<>>)
<1>1. Adds(x, s, Openers) /\ IsTranslator(s)
  BY FinalizeActiveAdds, AddsMore DEF Openers, Adds
<1>2. OpenToolCall(x, index, call) = Emit(y, e)
  BY DEF OpenToolCall
<1> HIDE DEF s
<1>3. IsFiniteSet(DOMAIN calls)
  BY <1>1, FS_AddElement DEF IsTranslator
<1> HIDE DEF calls
<1>4. DOMAIN y = DOMAIN s /\ y.out = s.out /\ y.toolCalls = calls
  BY <1>1 DEF IsTranslator
<1> HIDE DEF y
<1>5. Adds(s, y, Openers) /\ IsTranslator(y)
  BY <1>1, <1>3, <1>4, AddsNothing DEF IsTranslator, Adds
<1>6. Adds(y, Emit(y, e), Openers)
  BY <1>5, EmitAdds, EventType DEF Openers
<1>7. QED
  BY <1>1, <1>2, <1>5, <1>6, AddsTwice

\* z is x after the events around an item, if any, and then a delta.
Says(x, z, kind, data) ==
    \E y, e : /\ Adds(x, y, Openers) /\ z = Emit(y, e)
              /\ e.type = "delta" /\ e.kind = kind /\ e.data = data

LEMMA SaysIs ==
    ASSUME NEW x, NEW y, Adds(x, y, Openers), NEW index, NEW kind, NEW call, NEW data
    PROVE  Says(x, Emit(y, Event("delta", index, kind, call, data)), kind, data)
<1> DEFINE e == Event("delta", index, kind, call, data)
<1>1. e.type = "delta" /\ e.kind = kind /\ e.data = data
  BY DEF Event
<1> HIDE DEF e
<1>2. QED
  BY <1>1 DEF Says, e

LEMMA SaysAdds ==
    ASSUME NEW x, IsTranslator(x), NEW z, NEW kind, NEW data, Says(x, z, kind, data)
    PROVE  Adds(x, z, ItemTypes)
<1>1. PICK y, e : Adds(x, y, Openers) /\ z = Emit(y, e) /\ e.type = "delta"
  BY DEF Says
<1>2. Adds(x, y, ItemTypes) /\ IsTranslator(y)
  BY <1>1, AddsMore DEF ItemTypes, Adds
<1>3. Adds(y, z, ItemTypes)
  BY <1>1, <1>2, EmitAdds DEF ItemTypes
<1>4. QED
  BY <1>2, <1>3, AddsTwice

LEMMA ResponsesTextSays ==
    ASSUME NEW x, IsTranslator(x), NEW c
    PROVE  Says(x, ResponsesText(x, c), c.kind, c.data)
<1> DEFINE s == IF x.active = c.kind THEN x ELSE OpenItem(x, c.kind)
           y == [s EXCEPT !.buffer = @ \o c.data]
<1>1. Adds(x, s, Openers) /\ IsTranslator(s)
  BY AddsNothing, OpenItemAdds DEF IsTranslator, Adds
<1>2. ResponsesText(x, c) = Emit(y, Event("delta", s.next - 1, c.kind, 0, c.data))
  BY DEF ResponsesText
<1> HIDE DEF s
<1>3. DOMAIN y = DOMAIN s /\ y.out = s.out /\ y.toolCalls = s.toolCalls
  BY <1>1 DEF IsTranslator
<1> HIDE DEF y
<1>4. Adds(s, y, Openers)
  BY <1>1, <1>3, AddsNothing DEF IsTranslator
<1>5. Adds(x, y, Openers)
  BY <1>1, <1>4, AddsTwice
<1>6. QED
  BY <1>2, <1>5, SaysIs

LEMMA ResponsesToolSays ==
    ASSUME NEW x, IsTranslator(x), NEW c
    PROVE  Adds(x, ResponsesTool(x, c), Openers) \/ Says(x, ResponsesTool(x, c), "call", c.data)
<1> DEFINE s == IF c.index \in DOMAIN x.toolCalls THEN x ELSE OpenToolCall(x, c.index, c.call)
           tc == s.toolCalls[c.index]
           y == [s EXCEPT !.toolCalls[c.index].args = @ \o c.data]
<1>1. Adds(x, s, Openers) /\ IsTranslator(s)
  <2>1. Adds(x, x, Openers)
    BY AddsNothing DEF IsTranslator
  <2>2. Adds(x, s, Openers)
    BY <2>1, OpenToolCallAdds
  <2>3. QED
    BY <2>2 DEF Adds
<1>2. ResponsesTool(x, c) = IF c.data = <<>> THEN s
                            ELSE Emit(y, Event("delta", tc.index, "call", tc.call, c.data))
  BY DEF ResponsesTool
<1> HIDE DEF s
<1>3. DOMAIN y = DOMAIN s /\ y.out = s.out /\ DOMAIN y.toolCalls = DOMAIN s.toolCalls
  BY <1>1 DEF IsTranslator
<1> HIDE DEF y
<1>4. Adds(s, y, Openers)
  BY <1>1, <1>3, AddsNothing DEF IsTranslator
<1>5. Adds(x, y, Openers)
  BY <1>1, <1>4, AddsTwice
<1> HIDE DEF tc
<1>6. QED
  BY <1>1, <1>2, <1>5, SaysIs

LEMMA CloseBlockAdds ==
    ASSUME NEW x, IsTranslator(x)
    PROVE  Adds(x, CloseBlock(x), {"done"})
<1>1. CASE x.active = ""
  BY <1>1, AddsNothing DEF CloseBlock, IsTranslator
<1>2. CASE x.active # ""
  <2> DEFINE y == [x EXCEPT !.active = "", !.next = @ + 1]
             e == Event("done", x.next, x.active, 0, <<>>)
  <2>1. CloseBlock(x) = Emit(y, e)
    BY <1>2 DEF CloseBlock
  <2>2. DOMAIN y = DOMAIN x /\ y.out = x.out /\ y.toolCalls = x.toolCalls
    BY DEF IsTranslator
  <2> HIDE DEF y
  <2>3. Adds(x, y, {"done"}) /\ IsTranslator(y)
    BY <2>2, AddsNothing DEF IsTranslator, Adds
  <2>4. Adds(y, Emit(y, e), {"done"})
    BY <2>3, EmitAdds, EventType
  <2>5. QED
    BY <2>1, <2>3, <2>4, AddsTwice
<1>3. QED
  BY <1>1, <1>2

LEMMA StartBlockAdds ==
    ASSUME NEW x, IsTranslator(x), NEW kind, NEW call
    PROVE  Adds(x, StartBlock(x, kind, call), Openers)
<1> DEFINE s == CloseBlock(x)
           y == [s EXCEPT !.active = kind]
           e == Event("added", s.next, kind, call, <<>>)
<1>1. Adds(x, s, Openers) /\ IsTranslator(s)
  BY CloseBlockAdds, AddsMore DEF Openers, Adds
<1>2. StartBlock(x, kind, call) = Emit(y, e)
  BY DEF StartBlock
<1> HIDE DEF s
<1>3. DOMAIN y = DOMAIN s /\ y.out = s.out /\ y.toolCalls = s.toolCalls
  BY <1>1 DEF IsTranslator
<1> HIDE DEF y
<1>4. Adds(s, y, Openers) /\ IsTranslator(y)
  BY <1>1, <1>3, AddsNothing DEF IsTranslator, Adds
<1>5. Adds(y, Emit(y, e), Openers)
  BY <1>4, EmitAdds, EventType DEF Openers
<1>6. QED
  BY <1>1, <1>2, <1>4, <1>5, AddsTwice

\* A text chunk is said, a tool chunk may be, and no other.
LEMMA ClaudeSays ==
    ASSUME NEW x, IsTranslator(x), NEW c
    PROVE  IF c.kind = "text" THEN Says(x, ProcessChatChunkToClaude(x, c), "text", c.data)
           ELSE \/ Adds(x, ProcessChatChunkToClaude(x, c), Openers)
                \/ Says(x, ProcessChatChunkToClaude(x, c), "call", c.data)
<1> DEFINE text == IF x.active = "text" THEN x ELSE StartBlock(x, "text", 0)
           call == IF c.call # 0 THEN StartBlock(x, "call", c.call) ELSE x
           z == ProcessChatChunkToClaude(x, c)
<1>1. IF c.kind = "text" THEN z = Emit(text, Event("delta", text.next, "text", 0, c.data))
      ELSE z \in {call, Emit(call, Event("delta", call.next, "call", 0, c.data)), x}
  BY DEF ProcessChatChunkToClaude
<1>2. Adds(x, x, Openers)
  BY AddsNothing DEF IsTranslator
<1>3. Adds(x, text, Openers) /\ Adds(x, call, Openers)
  BY <1>2, StartBlockAdds
<1> HIDE DEF text, call, z
<1>4. /\ Says(x, Emit(text, Event("delta", text.next, "text", 0, c.data)), "text", c.data)
      /\ Says(x, Emit(call, Event("delta", call.next, "call", 0, c.data)), "call", c.data)
  BY <1>3, SaysIs
<1>5. QED
  BY <1>1, <1>2, <1>3, <1>4 DEF z

\* What a chunk makes a target converter say.
LEMMA ProcessSays ==
    ASSUME NEW x, IsTranslator(x), NEW c, target \in Protocols, target # "chat"
    PROVE  IF c.kind = "text" \/ (c.kind = "reasoning" /\ target = "responses")
           THEN Says(x, Process(target, x, c), c.kind, c.data)
           ELSE Adds(x, Process(target, x, c), Openers) \/ Says(x, Process(target, x, c), "call", c.data)
<1>1. Adds(x, x, Openers)
  BY AddsNothing DEF IsTranslator
<1>2. CASE target = "responses"
  <2>1. IF c.kind \in {"reasoning", "text"} THEN Says(x, ProcessChunk(x, c), c.kind, c.data)
        ELSE Adds(x, ProcessChunk(x, c), Openers) \/ Says(x, ProcessChunk(x, c), "call", c.data)
    BY <1>1, ResponsesTextSays, ResponsesToolSays DEF ProcessChunk
  <2>2. QED
    BY <1>2, <2>1 DEF Process
<1>3. CASE target = "messages"
  BY <1>3, ClaudeSays DEF Process
<1>4. CASE target = "generateContent"
  <2>1. IF c.kind = "text" THEN Says(x, ProcessChatChunkToGemini(x, c), "text", c.data)
        ELSE Adds(x, ProcessChatChunkToGemini(x, c), Openers)
    BY <1>1, SaysIs DEF ProcessChatChunkToGemini
  <2>2. QED
    BY <1>4, <2>1 DEF Process
<1>5. QED
  BY <1>2, <1>3, <1>4 DEF Protocols

\* A chunk never makes a target converter end the answer.
LEMMA ProcessAdds ==
    ASSUME NEW x, IsTranslator(x), NEW c, target \in Protocols, target # "chat"
    PROVE  Adds(x, Process(target, x, c), ItemTypes)
<1>1. Openers \subseteq ItemTypes
  BY DEF ItemTypes
<1>2. QED
  BY <1>1, ProcessSays, SaysAdds, AddsMore

LEMMA BeginAdds ==
    ASSUME NEW x, IsTranslator(x)
    PROVE  Adds(x, Begin(target, x), Openers)
<1> DEFINE e == Event("created", 0, "", 0, <<>>)
<1>1. Adds(x, x, Openers)
  BY AddsNothing DEF IsTranslator
<1>2. e.type \in Openers
  BY DEF Event, Openers
<1>3. Begin(target, x) \in {x, Emit(x, e)}
  BY DEF Begin
<1> HIDE DEF e
<1>4. Adds(x, Emit(x, e), Openers)
  BY <1>2, EmitAdds
<1>5. QED
  BY <1>1, <1>3, <1>4

\* The items of the tool calls are finalized, whatever their number.
LEMMA FinalizeToolCallsAdds ==
    ASSUME NEW x, IsTranslator(x)
    PROVE  Adds(x, FinalizeToolCalls(x), {"done"})
<1> DEFINE order == Ascending(DOMAIN x.toolCalls)
           items == [k \in DOMAIN order |->
                       LET tc == x.toolCalls[order[k]]
                       IN  [index |-> tc.index, kind |-> "call", call |-> tc.call, data |-> Salvage(tc.args)]]
           dones == [k \in DOMAIN items |->
                       Event("done", items[k].index, "call", items[k].call, items[k].data)]
           y == [x EXCEPT !.finalOutput = @ \o items, !.out = @ \o dones]
<1>1. FinalizeToolCalls(x) = y
  BY DEF FinalizeToolCalls
<1>2. PICK n \in Nat : DOMAIN order = 1 .. n
  BY AscendingSeq DEF IsTranslator
<1>3. DOMAIN items = 1 .. n
  BY <1>2
<1> HIDE DEF items
<1>4. IsSeq(dones)
  BY <1>3, FunctionSeq
<1>5. \A e \in ToSet(dones) : e.type = "done"
  BY DEF ToSet, Event
<1> HIDE DEF dones
<1>6. DOMAIN y = DOMAIN x /\ y.out = x.out \o dones /\ y.toolCalls = x.toolCalls
  BY DEF IsTranslator
<1> HIDE DEF y
<1>7. IsSeq(y.out)
  BY <1>4, <1>6, ConcatSeq DEF IsTranslator
<1>8. TypesOf(dones) \subseteq {"done"}
  BY <1>5 DEF TypesOf
<1>9. IsTranslator(y)
  BY <1>6, <1>7 DEF IsTranslator
<1>10. QED
  BY <1>1, <1>4, <1>6, <1>8, <1>9 DEF Adds

\* z is x after its last items and, at the very end, an event of this type.
EndsWith(x, z, type) ==
    \E y, e : Adds(x, y, {"done"}) /\ e.type = type /\ z = Emit(y, e)

LEMMA FinishEnds ==
    ASSUME NEW x, IsTranslator(x), NEW status
    PROVE  EndsWith(x, Finish(x, status), status)
<1> DEFINE a == FinalizeActive(x)
           y == FinalizeToolCalls(a)
           e == Event(status, 0, "", 0, y.finalOutput)
<1>1. Adds(x, a, {"done"}) /\ IsTranslator(a)
  BY FinalizeActiveAdds DEF Adds
<1>2. Adds(a, y, {"done"})
  BY <1>1, FinalizeToolCallsAdds
<1>3. Finish(x, status) = Emit(y, e)
  BY DEF Finish
<1>4. e.type = status
  BY DEF Event
<1> HIDE DEF a, y, e
<1>5. QED
  BY <1>1, <1>2, <1>3, <1>4, AddsTwice DEF EndsWith

LEMMA ClaudeStopEnds ==
    ASSUME NEW x, IsTranslator(x)
    PROVE  EndsWith(x, ClaudeStop(x), "completed")
<1> DEFINE y == CloseBlock(x)
           e == Event("completed", 0, "", 0, <<>>)
<1>1. Adds(x, y, {"done"})
  BY CloseBlockAdds
<1>2. ClaudeStop(x) = Emit(y, e) /\ e.type = "completed"
  BY DEF ClaudeStop, Event
<1> HIDE DEF y, e
<1>3. QED
  BY <1>1, <1>2 DEF EndsWith

-----------------------------------------------------------------------------
(* What reaches the client. *)

\* Once the client is gone a write may be cut short before its last event.
LEMMA WriteCases ==
    ASSUME IsTranslator(t), NEW new, IsTranslator(new), NEW result, Write(new, result)
    PROVE  \/ t' = new /\ tgt' = result
           \/ /\ gone /\ tgt' = "failed"
              /\ \E n \in Nat : n < Len(new.out) /\ t' = [new EXCEPT !.out = SubSeq(@, 1, n)]
<1>1. Len(t.out) \in Nat /\ Len(new.out) \in Nat
  BY SeqFacts DEF IsTranslator, IsSeq
<1>2. QED
  BY <1>1 DEF Write

LEMMA CutShort ==
    ASSUME NEW new, IsTranslator(new), NEW n \in Nat, n < Len(new.out),
           NEW z, DOMAIN z = DOMAIN new, z.toolCalls = new.toolCalls,
           z.out = SubSeq(new.out, 1, n)
    PROVE  /\ IsTranslator(z)
           /\ ToSet(z.out) \subseteq {new.out[i] : i \in 1 .. n}
           /\ TypesOf(z.out) \subseteq TypesOf(new.out)
<1>2. Len(new.out) \in Nat /\ ToSet(new.out) = {new.out[i] : i \in 1 .. Len(new.out)}
  BY SeqFacts DEF IsTranslator, IsSeq
<1>3. IsSeq(z.out) /\ \A x \in ToSet(z.out) : \E i \in 1 .. n : x = new.out[i]
  BY <1>2, PrefixSeq DEF IsTranslator
<1>4. \A i \in 1 .. n : i \in 1 .. Len(new.out)
  BY <1>2
<1>5. ToSet(z.out) \subseteq ToSet(new.out)
  BY <1>2, <1>3, <1>4
<1>6. ToSet(z.out) \subseteq {new.out[i] : i \in 1 .. n}
  BY <1>3
<1>7. QED
  BY <1>3, <1>5, <1>6 DEF IsTranslator, TypesOf

LEMMA WriteAdds ==
    ASSUME IsTranslator(t), NEW new, NEW T, Adds(t, new, T), NEW result, Write(new, result)
    PROVE  /\ IsTranslator(t') /\ TypesOf(t'.out) \subseteq TypesOf(t.out) \cup T
           /\ tgt' = result \/ (gone /\ tgt' = "failed")
<1>1. IsTranslator(new) /\ TypesOf(new.out) \subseteq TypesOf(t.out) \cup T
  BY AddsTypes
<1>2. CASE t' = new /\ tgt' = result
  BY <1>1, <1>2
<1>3. CASE /\ gone /\ tgt' = "failed"
           /\ \E n \in Nat : n < Len(new.out) /\ t' = [new EXCEPT !.out = SubSeq(@, 1, n)]
  <2>1. PICK n \in Nat : n < Len(new.out) /\ t' = [new EXCEPT !.out = SubSeq(@, 1, n)]
    BY <1>3
  <2>2. DOMAIN t' = DOMAIN new /\ t'.toolCalls = new.toolCalls /\ t'.out = SubSeq(new.out, 1, n)
    BY <1>1, <2>1 DEF IsTranslator
  <2>3. IsTranslator(t') /\ TypesOf(t'.out) \subseteq TypesOf(new.out)
    BY <1>1, <2>1, <2>2, CutShort
  <2>4. QED
    BY <1>1, <1>3, <2>3
<1>4. QED
  BY <1>1, <1>2, <1>3, WriteCases

\* The event that ends an answer is the last to be written, so a write that is
\* cut short does not have it.
LEMMA WriteEnds ==
    ASSUME IsTranslator(t), NEW new, NEW type, EndsWith(t, new, type), NEW result,
           Write(new, result)
    PROVE  /\ IsTranslator(t')
           /\ \/ /\ tgt' = result /\ type \in TypesOf(t'.out)
                 /\ TypesOf(t'.out) \subseteq TypesOf(t.out) \cup {"done", type}
              \/ /\ gone /\ tgt' = "failed"
                 /\ TypesOf(t'.out) \subseteq TypesOf(t.out) \cup {"done"}
<1>1. PICK y, e : Adds(t, y, {"done"}) /\ e.type = type /\ new = Emit(y, e)
  BY DEF EndsWith
<1>2. IsTranslator(y) /\ TypesOf(y.out) \subseteq TypesOf(t.out) \cup {"done"}
  BY <1>1, AddsTypes
<1>3. /\ IsTranslator(new) /\ TypesOf(new.out) \subseteq TypesOf(y.out) \cup {type}
      /\ new.out = Append(y.out, e) /\ type \in TypesOf(new.out)
  <2>1. Adds(y, new, {type}) /\ new.out = Append(y.out, e) /\ type \in TypesOf(new.out)
    BY <1>1, <1>2, EmitAdds
  <2>2. QED
    BY <1>2, <2>1, AddsTypes
<1>4. CASE t' = new /\ tgt' = result
  BY <1>2, <1>3, <1>4
<1>5. CASE /\ gone /\ tgt' = "failed"
           /\ \E n \in Nat : n < Len(new.out) /\ t' = [new EXCEPT !.out = SubSeq(@, 1, n)]
  <2>1. PICK n \in Nat : n < Len(new.out) /\ t' = [new EXCEPT !.out = SubSeq(@, 1, n)]
    BY <1>5
  <2>2. IsTranslator(t') /\ ToSet(t'.out) \subseteq {new.out[i] : i \in 1 .. n}
    <3>1. DOMAIN t' = DOMAIN new /\ t'.toolCalls = new.toolCalls /\ t'.out = SubSeq(new.out, 1, n)
      BY <1>3, <2>1 DEF IsTranslator
    <3>2. IsTranslator(new) /\ n < Len(new.out)
      BY <1>3, <2>1
    <3>3. QED
      BY <3>1, <3>2, CutShort
  <2>3. /\ Len(y.out) \in Nat /\ Len(new.out) = Len(y.out) + 1
        /\ \A i \in 1 .. Len(y.out) : new.out[i] = y.out[i]
    BY <1>2, <1>3, AppendSeq DEF IsTranslator
  <2>4. ToSet(y.out) = {y.out[i] : i \in 1 .. Len(y.out)}
    BY <1>2, SeqFacts DEF IsTranslator, IsSeq
  <2>5. \A i \in 1 .. n : i \in 1 .. Len(y.out)
    BY <2>1, <2>3
  <2>6. ToSet(t'.out) \subseteq ToSet(y.out)
    BY <2>2, <2>3, <2>4, <2>5
  <2>7. QED
    BY <1>2, <1>5, <2>2, <2>6 DEF TypesOf
<1>6. QED
  BY <1>3, <1>4, <1>5, WriteCases

\* The good end of an answer.
LEMMA CompleteWrites ==
    ASSUME IsTranslator(t), target \in Protocols, target # "chat",
           Write(Complete(target, t), "ok")
    PROVE  /\ IsTranslator(t')
           /\ \/ /\ tgt' = "ok"
                 /\ TypesOf(t'.out) \subseteq TypesOf(t.out) \cup {"done", "completed"}
                 /\ target # "generateContent" => "completed" \in TypesOf(t'.out)
              \/ /\ gone /\ tgt' = "failed"
                 /\ TypesOf(t'.out) \subseteq TypesOf(t.out) \cup {"done"}
<1>1. CASE target = "generateContent"
  BY <1>1 DEF Complete, Write
<1>2. CASE target # "generateContent"
  <2>1. EndsWith(t, Complete(target, t), "completed")
    BY <1>2, FinishEnds, ClaudeStopEnds DEF Complete, Protocols
  <2>2. QED
    BY <2>1, WriteEnds
<1>3. QED
  BY <1>1, <1>2

\* The bad one: only the Responses converter says so.
LEMMA AbandonWrites ==
    ASSUME IsTranslator(t), target \in Protocols, target # "chat",
           Write(Abandon(target, t), "failed")
    PROVE  /\ IsTranslator(t') /\ tgt' = "failed"
           /\ TypesOf(t'.out) \subseteq TypesOf(t.out) \cup {"done", "failed"}
           /\ target = "responses" /\ ~gone => "failed" \in TypesOf(t'.out)
<1>1. CASE target = "responses"
  <2>1. EndsWith(t, Abandon(target, t), "failed")
    BY <1>1, FinishEnds DEF Abandon
  <2>2. QED
    BY <2>1, WriteEnds
<1>2. CASE target # "responses"
  BY <1>2 DEF Abandon, Write
<1>3. QED
  BY <1>1, <1>2

-----------------------------------------------------------------------------
(* What the sources write. *)

LEMMA OneChunk ==
    ASSUME NEW c, c.kind \in {"reasoning", "text", "tool", "malformed"}
    PROVE  Plain(<<c>>)
<1>1. <<c>> \in Seq({c})
  OBVIOUS
<1>2. IsSeq(<<c>>) /\ ToSet(<<c>>) \subseteq {c}
  BY <1>1, SeqFacts
<1>3. QED
  BY <1>2 DEF Plain

LEMMA NoChunk == Plain(<<>>)
  BY EmptyFacts DEF Plain

LEMMA PlainConcat ==
    ASSUME NEW a, NEW b, Plain(a), Plain(b)
    PROVE  Plain(a \o b)
  BY ConcatSeq DEF Plain

\* No fragment makes a source write the end of an answer.
LEMMA FragmentPlain ==
    ASSUME NEW r \in Seq([kind : FragmentKinds, call : 0 .. MaxCalls]), r # <<>>,
           source \in Protocols, source = "generateContent" => r[Len(r)].kind # "args"
    PROVE  Plain(FragmentChunks(source, r, held))
<1> DEFINE n == Len(r)
           f == r[n]
<1>1. f \in [kind : FragmentKinds, call : 0 .. MaxCalls]
  <2>1. Len(r) \in 1 .. Len(r)
    BY EmptySeq
  <2>2. QED
    BY <2>1, ElementOfSeq
<1>2. f.kind \in {"reasoning", "text", "call", "args"} /\ (source = "generateContent" => f.kind # "args")
  BY <1>1 DEF FragmentKinds
<1>3. \A index, call, data : Plain(<<Chunk("tool", index, call, data)>>)
  BY OneChunk DEF Chunk
<1>4. \A kind, data : kind \in {"text", "reasoning"} => Plain(<<TextChunk(kind, data)>>)
  BY OneChunk DEF TextChunk, Chunk
<1> HIDE DEF f, n
<1>5. CASE source = "chat"
  <2>1. Plain(ChatChunks(r))
    BY <1>2, <1>3, <1>4 DEF ChatChunks, f, n
  <2>2. QED
    BY <1>5, <2>1 DEF FragmentChunks
<1>6. CASE source = "messages"
  <2>1. Plain(ClaudeChunks(r))
    BY <1>2, <1>3, <1>4, NoChunk DEF ClaudeChunks, f, n
  <2>2. QED
    BY <1>6, <2>1 DEF FragmentChunks
<1>7. CASE source = "generateContent"
  <2>1. Plain(GeminiChunks(r))
    BY <1>2, <1>3, <1>4, <1>7 DEF GeminiChunks, f, n
  <2>2. QED
    BY <1>7, <2>1 DEF FragmentChunks
<1>8. CASE source = "responses"
  <2>1. Plain(ResponsesChunks(r, held))
    BY <1>2, <1>3, <1>4, NoChunk DEF ResponsesChunks, f, n
  <2>2. QED
    BY <1>8, <2>1 DEF FragmentChunks
<1>9. QED
  BY <1>5, <1>6, <1>7, <1>8 DEF Protocols

\* An answer has finitely many calls.
LEMMA CallsFinite ==
    ASSUME NEW r \in Seq([kind : FragmentKinds, call : 0 .. MaxCalls])
    PROVE  Cardinality(CallsIn(r)) \in Nat
<1>1. DOMAIN r = 1 .. Len(r) /\ \A i \in 1 .. Len(r) : r[i] \in [kind : FragmentKinds, call : 0 .. MaxCalls]
  BY LenProperties, ElementOfSeq
<1>2. CallsIn(r) \subseteq 0 .. MaxCalls
  BY <1>1 DEF CallsIn
<1>3. IsFiniteSet(CallsIn(r))
  <2>1. 0 \in Int /\ MaxCalls \in Int
    BY StreamAssumption DEF StreamAssumption
  <2>2. IsFiniteSet(0 .. MaxCalls)
    BY <2>1, FS_Interval
  <2>3. QED
    BY <1>2, <2>2, FS_Subset
<1>4. QED
  BY <1>3, FS_CardinalityType

LEMMA SnapshotTools ==
    ASSUME NEW r \in Seq([kind : FragmentKinds, call : 0 .. MaxCalls])
    PROVE  LET calls == MessageToolCalls(r)
               missing == Ascending({c \in DOMAIN calls : ~EmittedToolCall(r, held, c)})
               tools == [k \in DOMAIN missing |->
                            LET c == missing[k] IN Chunk("tool", c - 1, calls[c].call, calls[c].args)]
           IN  IsSeq(tools) /\ \A c \in ToSet(tools) : c.kind = "tool"
<1> DEFINE calls == MessageToolCalls(r)
           some == {c \in DOMAIN calls : ~EmittedToolCall(r, held, c)}
           missing == Ascending(some)
           tools == [k \in DOMAIN missing |->
                       LET c == missing[k] IN Chunk("tool", c - 1, calls[c].call, calls[c].args)]
<1>1. DOMAIN calls = 1 .. Cardinality(CallsIn(r))
  BY DEF MessageToolCalls
<1>2. IsFiniteSet(some)
  <2> HIDE DEF calls
  <2>1. Cardinality(CallsIn(r)) \in Nat
    BY CallsFinite
  <2>2. IsFiniteSet(DOMAIN calls)
    BY <1>1, <2>1, 1 \in Int, Cardinality(CallsIn(r)) \in Int, FS_Interval
  <2>3. QED
    BY <2>2, FS_Subset
<1> HIDE DEF some
<1>3. PICK n \in Nat : DOMAIN missing = 1 .. n
  BY <1>2, AscendingSeq
<1> HIDE DEF missing, calls
<1>4. DOMAIN tools = 1 .. n
  BY <1>3
<1>5. \A c \in ToSet(tools) : c.kind = "tool"
  BY DEF ToSet, Chunk
<1>6. IsSeq(tools)
  BY <1>3, FunctionSeq
<1>7. QED
  BY <1>5, <1>6 DEF missing, some, calls

\* The snapshot of a Responses upstream is content.
LEMMA SnapshotPlain ==
    ASSUME NEW r \in Seq([kind : FragmentKinds, call : 0 .. MaxCalls])
    PROVE  Plain(SnapshotChunks(r, held))
<1> DEFINE calls == MessageToolCalls(r)
           missing == Ascending({c \in DOMAIN calls : ~EmittedToolCall(r, held, c)})
           tools == [k \in DOMAIN missing |->
                       LET c == missing[k] IN Chunk("tool", c - 1, calls[c].call, calls[c].args)]
<1>1. \A kind \in {"text", "reasoning"} : Plain(SnapshotText(r, held, kind))
  <2>1. \A kind, data : kind \in {"text", "reasoning"} => Plain(<<TextChunk(kind, data)>>)
    BY OneChunk DEF TextChunk, Chunk
  <2>2. QED
    BY <2>1, NoChunk DEF SnapshotText
<1>2. Plain(tools)
  <2>1. IsSeq(tools) /\ \A c \in ToSet(tools) : c.kind = "tool"
    BY SnapshotTools
  <2> HIDE DEF tools
  <2>2. QED
    BY <2>1 DEF Plain
<1>3. SnapshotChunks(r, held) = SnapshotText(r, held, "reasoning") \o SnapshotText(r, held, "text") \o tools
  BY DEF SnapshotChunks
<1> HIDE DEF tools
<1>4. QED
  BY <1>1, <1>2, <1>3, PlainConcat

LEMMA TerminalPlain ==
    ASSUME NEW r \in Seq([kind : FragmentKinds, call : 0 .. MaxCalls]), source \in Protocols
    PROVE  IF source = "chat" THEN TerminalChunks(source, r, held) = <<FinishChunk>>
           ELSE Plain(TerminalChunks(source, r, held))
  BY SnapshotPlain, NoChunk DEF TerminalChunks, Protocols

LEMMA ClosingEnds ==
    ASSUME source \in Protocols
    PROVE  IF source = "chat" THEN ClosingChunks(source) = <<>>
           ELSE ClosingChunks(source) \in {<<DoneChunk>>, <<FinishChunk, DoneChunk>>}
  BY DEF ClosingChunks, Protocols

\* Content and the end of an answer are told apart by their first chunk.
LEMMA EndingFacts ==
    /\ Head(<<FinishChunk>>) = FinishChunk /\ Tail(<<FinishChunk>>) = <<>>
    /\ Head(<<DoneChunk>>) = DoneChunk /\ Tail(<<DoneChunk>>) = <<>>
    /\ Head(<<FinishChunk, DoneChunk>>) = FinishChunk
    /\ Tail(<<FinishChunk, DoneChunk>>) = <<DoneChunk>>
    /\ FinishChunk.kind = "finish" /\ DoneChunk.kind = "done" /\ FinishChunk # DoneChunk
    /\ <<FinishChunk>> # <<DoneChunk>> /\ <<FinishChunk>> # <<FinishChunk, DoneChunk>>
    /\ <<DoneChunk>> # <<FinishChunk, DoneChunk>>
    /\ <<>> \notin Endings
<1>1. FinishChunk.kind = "finish" /\ DoneChunk.kind = "done" /\ FinishChunk # DoneChunk
  BY DEF FinishChunk, DoneChunk, Chunk
<1>2. QED
  BY <1>1 DEF Endings

LEMMA PlainHead ==
    ASSUME NEW p, Plain(p), p # <<>>
    PROVE  /\ Head(p).kind \in {"reasoning", "text", "tool", "malformed"}
           /\ Plain(Tail(p))
  BY HeadTailSeq DEF Plain

LEMMA PlainIsNoEnding ==
    ASSUME NEW p, Plain(p)
    PROVE  p \notin Endings
<1>1. SUFFICES ASSUME p \in Endings PROVE FALSE
  OBVIOUS
<1>2. p # <<>> /\ Head(p).kind \in {"finish", "done"}
  BY <1>1, EndingFacts DEF Endings
<1>3. QED
  BY <1>2, PlainHead

-----------------------------------------------------------------------------
(* The steps of the source. *)

\* The chunk a reader takes, and what is left after it.
LEMMA TakeHead ==
    ASSUME SourceInv, pending # <<>>
    PROVE  \/ /\ Plain(pending) /\ Plain(Tail(pending))
              /\ Head(pending).kind \in {"reasoning", "text", "tool", "malformed"}
           \/ /\ complete /\ pending \in {<<FinishChunk>>, <<FinishChunk, DoneChunk>>}
              /\ Head(pending) = FinishChunk /\ Tail(pending) \in {<<>>, <<DoneChunk>>}
              /\ pending = <<FinishChunk, DoneChunk>> => Tail(pending) = <<DoneChunk>>
           \/ /\ complete /\ pending = <<DoneChunk>>
              /\ Head(pending) = DoneChunk /\ Tail(pending) = <<>>
<1>1. CASE Plain(pending)
  BY <1>1, PlainHead
<1>2. CASE pending \in Endings /\ complete
  BY <1>2, EndingFacts DEF Endings
<1>3. QED
  BY <1>1, <1>2 DEF SourceInv

LEMMA TailKeeps ==
    ASSUME SourceInv, pending # <<>>, pending' = Tail(pending), UNCHANGED <<source, complete, whole, src>>
    PROVE  SourceInv'
<1>1. CASE Plain(pending)
  <2>1. Plain(pending')
    BY <1>1, PlainHead
  <2>2. pending' \notin Endings
    BY <2>1, PlainIsNoEnding
  <2>3. QED
    BY <1>1, <2>1, <2>2 DEF SourceInv
<1>2. CASE pending \in Endings /\ complete
  <2>1. pending' \in {<<>>, <<DoneChunk>>}
    BY <1>2, EndingFacts DEF Endings
  <2>2. ~Plain(<<DoneChunk>>) /\ <<DoneChunk>> \in Endings /\ <<DoneChunk>> # <<FinishChunk>>
    BY PlainIsNoEnding, EndingFacts DEF Endings
  <2>3. Plain(<<>>) /\ <<>> \notin Endings
    BY NoChunk, EndingFacts
  <2>4. <<>> # <<DoneChunk>> /\ (pending' = <<DoneChunk>> => pending = <<FinishChunk, DoneChunk>>)
    BY <1>2, EndingFacts DEF Endings
  <2>5. source # "chat" => src = "closing"
    BY <1>2 DEF SourceInv
  <2>6. QED
    BY <1>2, <2>1, <2>2, <2>3, <2>5 DEF SourceInv, Ended
<1>3. QED
  BY <1>1, <1>2 DEF SourceInv

\* A source that has no more to write can be in any state but for the promise
\* that only a complete answer ends well.
LEMMA NothingPending ==
    ASSUME pending' = <<>>, whole' => complete', source' = "chat" => src' # "closing",
           source' # "chat" /\ src' \in {"closing", "ok"} => complete'
    PROVE  SourceInv'
  BY NoChunk, EndingFacts DEF SourceInv

LEMMA PlainPending ==
    ASSUME Plain(pending'), whole' => complete', src' = "running"
    PROVE  SourceInv'
<1>1. pending' \notin Endings
  BY PlainIsNoEnding
<1>2. QED
  BY <1>1 DEF SourceInv, Ended

ReadingEffect ==
    /\ src = "running" /\ pending = <<>> /\ outcome = "none"
    /\ UNCHANGED <<t, tgt, terminal, source, target, gone, outcome>>
    /\ read' \in Seq([kind : FragmentKinds, call : 0 .. MaxCalls])
    /\ src' \in {"running", "closing"} \cup Ended
    /\ complete => complete'
    /\ source # "chat" => src' # "ok" /\ (src' = "closing" => pending' # <<>>)
    /\ SourceInv'

LEMMA NextAreFragments ==
    ASSUME read \in Seq([kind : FragmentKinds, call : 0 .. MaxCalls])
    PROVE  NextFragments \subseteq [kind : FragmentKinds, call : 0 .. MaxCalls]
<1>1. \A kind \in FragmentKinds, c \in 0 .. MaxCalls :
          Fragment(kind, c) \in [kind : FragmentKinds, call : 0 .. MaxCalls]
  BY DEF Fragment
<1>2. 0 \in 0 .. MaxCalls /\ 1 .. MaxCalls \subseteq 0 .. MaxCalls
  BY StreamAssumption DEF StreamAssumption
<1>3. CallsIn(read) \subseteq 0 .. MaxCalls
  <2>1. \A i \in DOMAIN read : read[i] \in [kind : FragmentKinds, call : 0 .. MaxCalls]
    BY LenProperties, ElementOfSeq
  <2>2. QED
    BY <2>1 DEF CallsIn
<1>4. {"text", "reasoning", "call", "args"} \subseteq FragmentKinds
  BY DEF FragmentKinds
<1>5. \A f \in NextFragments : \E kind \in FragmentKinds, c \in 0 .. MaxCalls : f = Fragment(kind, c)
  BY <1>2, <1>3, <1>4 DEF NextFragments
<1>6. QED
  BY <1>1, <1>5

LEMMA ReadFragmentEffect ==
    ASSUME Shape, SourceInv, ReadFragment
    PROVE  ReadingEffect
<1>1. PICK f \in NextFragments :
        read' = Append(read, f) /\ pending' = FragmentChunks(source, read', held)
  BY DEF ReadFragment
<1>2. read \in Seq([kind : FragmentKinds, call : 0 .. MaxCalls]) /\ source \in Protocols
  BY DEF Shape
<1>3. f \in [kind : FragmentKinds, call : 0 .. MaxCalls]
  BY <1>2, NextAreFragments
<1>4. source = "generateContent" => f.kind # "args"
  BY DEF NextFragments, ArgsAllowed, Fragment
<1>5. /\ read' \in Seq([kind : FragmentKinds, call : 0 .. MaxCalls]) /\ read' # <<>>
      /\ read'[Len(read')] = f
  BY <1>1, <1>2, <1>3, AppendProperties
<1>6. Plain(pending')
  BY <1>1, <1>2, <1>4, <1>5, FragmentPlain
<1>7. SourceInv'
  BY <1>6, PlainPending DEF ReadFragment, MayRead, SourceInv
<1>8. QED
  BY <1>5, <1>7 DEF ReadFragment, MayRead, ReadingEffect, targetVars, fixed

LEMMA ReadTerminalEffect ==
    ASSUME Shape, SourceInv, ReadTerminal
    PROVE  ReadingEffect
<1>1. read \in Seq([kind : FragmentKinds, call : 0 .. MaxCalls]) /\ source \in Protocols
  BY DEF Shape
<1>2. SourceInv'
  <2>1. CASE source = "chat"
    <3>1. pending' = <<FinishChunk>> /\ complete'
      BY <1>1, <2>1, TerminalPlain DEF ReadTerminal
    <3>2. QED
      BY <2>1, <3>1 DEF ReadTerminal, MayRead, SourceInv, Endings, fixed
  <2>2. CASE source # "chat"
    <3>1. Plain(pending')
      BY <1>1, <2>2, TerminalPlain DEF ReadTerminal
    <3>2. QED
      BY <3>1, PlainPending DEF ReadTerminal, MayRead
  <2>3. QED
    BY <2>1, <2>2
<1>3. QED
  BY <1>1, <1>2 DEF ReadTerminal, MayRead, ReadingEffect, targetVars, fixed

LEMMA ReadDoneEffect ==
    ASSUME Shape, SourceInv, ReadDone
    PROVE  ReadingEffect
<1>1. /\ src = "running" /\ pending = <<>> /\ outcome = "none"
      /\ UNCHANGED <<t, tgt, terminal, source, target, gone, outcome, read, whole>>
  BY DEF ReadDone, MayRead, targetVars, fixed
<1>2. read \in Seq([kind : FragmentKinds, call : 0 .. MaxCalls]) /\ (whole => complete)
  BY DEF Shape, SourceInv
<1>3. CASE source = "chat" /\ complete' /\ pending' = <<DoneChunk>> /\ src' = src
  <2>1. pending' \in Endings
    BY <1>3 DEF Endings
  <2>2. SourceInv'
    BY <1>1, <1>3, <2>1 DEF SourceInv
  <2>3. QED
    BY <1>1, <1>2, <1>3, <2>2 DEF ReadingEffect
<1>4. CASE /\ source \in {"responses", "generateContent"}
           /\ complete' /\ pending' = ClosingChunks(source) /\ src' = "closing"
  <2>1. pending' \in {<<DoneChunk>>, <<FinishChunk, DoneChunk>>}
    BY <1>4, ClosingEnds DEF Protocols
  <2>2. pending' \in Endings /\ pending' # <<FinishChunk>> /\ pending' # <<>>
    BY <2>1, EndingFacts DEF Endings
  <2>3. ~Plain(pending')
    BY <2>2, PlainIsNoEnding
  <2>4. SourceInv'
    BY <1>1, <1>4, <2>2, <2>3 DEF SourceInv, Ended
  <2>5. QED
    BY <1>1, <1>2, <1>4, <2>2, <2>4 DEF ReadingEffect
<1>5. CASE source = "generateContent" /\ src' = "failed" /\ UNCHANGED <<complete, pending>>
  <2>1. SourceInv'
    BY <1>1, <1>2, <1>5, NothingPending
  <2>2. QED
    BY <1>1, <1>2, <1>5, <2>1 DEF ReadingEffect, Ended
<1>6. QED
  BY <1>3, <1>4, <1>5 DEF ReadDone

LEMMA ReadEndEffect ==
    ASSUME Shape, SourceInv, ReadEnd
    PROVE  ReadingEffect
<1>1. source \in Protocols /\ src = "running" /\ pending = <<>>
  BY DEF Shape, ReadEnd, MayRead
<1>2. source' = source /\ complete' = complete /\ (whole' => complete')
  BY DEF ReadEnd, SourceInv, fixed
<1>3. SourceInv' /\ (source # "chat" => src' # "ok" /\ (src' = "closing" => pending' # <<>>))
  <2>1. CASE source = "chat"
    <3>1. pending' = <<>> /\ src' = "ok"
      BY <1>1, <2>1, ClosingEnds DEF ReadEnd
    <3>2. QED
      BY <1>2, <2>1, <3>1, NothingPending
  <2>2. CASE source # "chat" /\ complete
    <3>1. pending' \in {<<DoneChunk>>, <<FinishChunk, DoneChunk>>} /\ src' = "closing"
      BY <1>1, <2>2, ClosingEnds DEF ReadEnd
    <3>2. pending' \in Endings /\ pending' # <<FinishChunk>> /\ pending' # <<>>
      BY <3>1, EndingFacts DEF Endings
    <3>3. ~Plain(pending')
      BY <3>2, PlainIsNoEnding
    <3>4. QED
      BY <1>2, <2>2, <3>1, <3>2, <3>3 DEF SourceInv, Ended
  <2>3. CASE source # "chat" /\ ~complete
    <3>1. pending' = <<>> /\ src' = "failed"
      BY <2>3 DEF ReadEnd
    <3>2. QED
      BY <1>2, <2>3, <3>1, NothingPending
  <2>4. QED
    BY <2>1, <2>2, <2>3
<1>4. src' \in {"running", "closing"} \cup Ended
  BY DEF ReadEnd, Ended
<1>5. QED
  BY <1>1, <1>2, <1>3, <1>4 DEF Shape, ReadEnd, MayRead, ReadingEffect, targetVars, fixed

LEMMA ReadErrorEffect ==
    ASSUME Shape, SourceInv, ReadError
    PROVE  ReadingEffect
<1>1. whole' => complete'
  BY DEF ReadError, SourceInv
<1>2. SourceInv'
  BY <1>1, NothingPending DEF ReadError, MayRead, fixed
<1>3. QED
  BY <1>2 DEF Shape, ReadError, MayRead, ReadingEffect, targetVars, fixed, Ended

LEMMA ReadMalformedEffect ==
    ASSUME Shape, SourceInv, ReadMalformed
    PROVE  ReadingEffect
<1>1. whole' => complete'
  BY DEF ReadMalformed, SourceInv
<1>2. SourceInv'
  <2>1. CASE source = "chat"
    <3>1. Plain(<<BadChunk>>)
      BY OneChunk DEF BadChunk, Chunk
    <3>2. QED
      BY <1>1, <2>1, <3>1, PlainPending DEF ReadMalformed, MayRead
  <2>2. CASE source # "chat"
    BY <1>1, <2>2, NothingPending DEF ReadMalformed, MayRead, fixed
  <2>3. QED
    BY <2>1, <2>2
<1>3. QED
  BY <1>2 DEF Shape, ReadMalformed, MayRead, ReadingEffect, targetVars, fixed, Ended

LEMMA ReadingHasEffect ==
    ASSUME Shape, SourceInv, Reading
    PROVE  ReadingEffect
  BY ReadFragmentEffect, ReadTerminalEffect, ReadDoneEffect, ReadEndEffect, ReadErrorEffect,
     ReadMalformedEffect DEF Reading

\* What the return of the last write, and a write that fails, may do.
WritingEffect ==
    /\ source # "chat"
    /\ UNCHANGED <<t, tgt, terminal, source, target, gone, outcome, read, complete, whole>>
    /\ src' \in {"running", "closing"} \cup Ended
    /\ \/ src = "closing" /\ pending = <<>> /\ src' = "ok" /\ pending' = <<>>
       \/ /\ pending # <<>> /\ src \notin Ended
          /\ src' \in {src, "failed"}
          /\ src' = "closing" => pending' # <<>>
    /\ SourceInv'

LEMMA SourceReturnsEffect ==
    ASSUME Shape, SourceInv, SourceReturns
    PROVE  WritingEffect
<1>1. source # "chat" /\ complete
  BY DEF SourceInv, SourceReturns
<1>2. SourceInv'
  BY <1>1, NothingPending DEF SourceReturns, sourceVars, fixed
<1>3. QED
  BY <1>1, <1>2 DEF SourceReturns, WritingEffect, targetVars, fixed, Ended

LEMMA SourceWriteFailsEffect ==
    ASSUME Shape, SourceInv, SourceWriteFails
    PROVE  WritingEffect
<1>1. source # "chat" /\ pending # <<>> /\ src \notin Ended /\ src \in {"running", "closing"}
  BY DEF Shape, SourceInv, SourceWriteFails
<1>2. UNCHANGED <<t, tgt, terminal, source, target, gone, outcome, read, complete, whole>>
  BY DEF SourceWriteFails, targetVars, fixed
<1>3. CASE pending' = Tail(pending) /\ src' = src /\ Head(pending) # DoneChunk
  <2>1. SourceInv'
    BY <1>1, <1>2, <1>3, TailKeeps
  <2>2. src = "closing" => pending' # <<>>
    <3>1. SUFFICES ASSUME src = "closing" PROVE pending' # <<>>
      OBVIOUS
    <3>2. ~Plain(pending) /\ pending # <<FinishChunk>>
      BY <1>1, <3>1 DEF SourceInv
    <3>3. QED
      BY <1>1, <1>3, <3>2, TakeHead, <<DoneChunk>> # <<>>
  <2>3. QED
    BY <1>1, <1>2, <1>3, <2>1, <2>2 DEF WritingEffect
<1>4. CASE pending' = <<>> /\ src' = "failed"
  <2>1. SourceInv'
    BY <1>1, <1>2, <1>4, NothingPending DEF SourceInv
  <2>2. QED
    BY <1>1, <1>2, <1>4, <2>1 DEF WritingEffect, Ended
<1>5. QED
  BY <1>3, <1>4 DEF SourceWriteFails

LEMMA SourceHasEffect ==
    ASSUME Shape, SourceInv, Source
    PROVE  ReadingEffect \/ WritingEffect
  BY ReadingHasEffect, SourceReturnsEffect, SourceWriteFailsEffect DEF Source

-----------------------------------------------------------------------------
(* The steps of the target. *)

TargetEffect ==
    /\ UNCHANGED <<src, source, target, gone, outcome, read, complete, whole>>
    /\ tgt \notin Ended \/ target = "chat"
    /\ tgt' \in {"starting", "running"} \cup Ended
    /\ IsTranslator(t')
    /\ SourceInv' /\ TargetInv' /\ ChatClientInv'

LEMMA TargetStartsEffect ==
    ASSUME Shape, SourceInv, TargetInv, ChatClientInv, TargetStarts
    PROVE  TargetEffect
<1>1. target # "chat" /\ target \in Protocols /\ IsTranslator(t) /\ tgt = "starting"
  BY DEF Shape, ChatClientInv, TargetStarts
<1>2. UNCHANGED <<src, source, target, gone, outcome, read, complete, whole, pending, terminal>>
  BY DEF TargetStarts, sourceVars, fixed
<1>3. /\ IsTranslator(t') /\ TypesOf(t'.out) \subseteq TypesOf(t.out) \cup Openers
      /\ tgt' = "running" \/ (gone /\ tgt' = "failed")
  BY <1>1, BeginAdds, WriteAdds DEF TargetStarts
<1>4. "completed" \notin TypesOf(t'.out) /\ "failed" \notin TypesOf(t'.out)
  BY <1>1, <1>3 DEF TargetInv, Out, Openers
<1>5. SourceInv'
  BY <1>2 DEF SourceInv
<1>6. TargetInv'
  BY <1>1, <1>2, <1>3, <1>4 DEF TargetInv, Out
<1>7. ChatClientInv'
  BY <1>1, <1>2 DEF ChatClientInv
<1>8. QED
  BY <1>1, <1>2, <1>3, <1>5, <1>6, <1>7 DEF TargetEffect, Ended

\* A target that takes an end of its stream for good has the whole answer.
LEMMA CompletedEffect ==
    ASSUME Shape, TargetInv, target # "chat", tgt = "running",
           UNCHANGED <<src, source, target, gone, complete, terminal>>,
           Write(Complete(target, t), "ok"), complete,
           source # "chat" => pending' = <<>> /\ src \in {"closing", "ok"}
    PROVE  IsTranslator(t') /\ TargetInv' /\ tgt' \in Ended
<1>1. /\ IsTranslator(t')
      /\ \/ /\ tgt' = "ok"
            /\ TypesOf(t'.out) \subseteq TypesOf(t.out) \cup {"done", "completed"}
            /\ target # "generateContent" => "completed" \in TypesOf(t'.out)
         \/ /\ gone /\ tgt' = "failed"
            /\ TypesOf(t'.out) \subseteq TypesOf(t.out) \cup {"done"}
  BY CompleteWrites DEF Shape
<1>2. "completed" \notin TypesOf(t.out) /\ "failed" \notin TypesOf(t.out)
  BY DEF TargetInv, Out
<1>3. QED
  BY <1>1, <1>2 DEF TargetInv, Out, Ended

LEMMA AbandonedEffect ==
    ASSUME Shape, TargetInv, target # "chat", tgt = "running",
           UNCHANGED <<src, source, target, gone, complete, terminal>>,
           Write(Abandon(target, t), "failed")
    PROVE  IsTranslator(t') /\ TargetInv' /\ tgt' \in Ended
<1>1. /\ IsTranslator(t') /\ tgt' = "failed"
      /\ TypesOf(t'.out) \subseteq TypesOf(t.out) \cup {"done", "failed"}
      /\ target = "responses" /\ ~gone => "failed" \in TypesOf(t'.out)
  BY AbandonWrites DEF Shape
<1>2. "completed" \notin TypesOf(t.out) /\ (terminal => complete)
  BY DEF TargetInv, Out
<1>3. QED
  BY <1>1, <1>2 DEF TargetInv, Out, Ended

LEMMA TakeChunkEffect ==
    ASSUME Shape, SourceInv, TargetInv, ChatClientInv, TakeChunk
    PROVE  TargetEffect
<1> DEFINE c == Head(pending)
<1>1. /\ target # "chat" /\ target \in Protocols /\ IsTranslator(t) /\ tgt = "running"
      /\ pending # <<>> /\ pending' = Tail(pending)
  BY DEF Shape, TakeChunk
<1>2. UNCHANGED <<src, source, target, gone, outcome, read, complete, whole>>
  BY DEF TakeChunk, sourceVars, fixed
<1>3. SourceInv'
  BY <1>1, <1>2, TailKeeps
<1>4. ChatClientInv'
  BY <1>1, <1>2 DEF ChatClientInv
<1>5. ASSUME c.kind = "done" PROVE IsTranslator(t') /\ TargetInv' /\ tgt' \in Ended
  <2>1. Write(Complete(target, t), "ok") /\ terminal' = terminal
    BY <1>5 DEF TakeChunk
  <2>2. complete /\ pending = <<DoneChunk>> /\ Tail(pending) = <<>>
    BY <1>1, <1>5, TakeHead, EndingFacts
  <2>3. source # "chat" => src = "closing"
    BY <2>2, EndingFacts DEF SourceInv, Endings
  <2>4. QED
    BY <1>1, <1>2, <2>1, <2>2, <2>3, CompletedEffect
<1>6. ASSUME c.kind = "malformed" PROVE IsTranslator(t') /\ TargetInv' /\ tgt' \in Ended
  <2>1. Write(Abandon(target, t), "failed") /\ terminal' = terminal
    BY <1>6 DEF TakeChunk
  <2>2. QED
    BY <1>1, <1>2, <2>1, AbandonedEffect
<1>7. ASSUME c.kind \notin {"done", "malformed"}
      PROVE  IsTranslator(t') /\ TargetInv' /\ tgt' \in {"running"} \cup Ended
  <2>1. Write(Process(target, t, c), "running") /\ terminal' = (terminal \/ c.kind = "finish")
    BY <1>7 DEF TakeChunk
  <2>2. /\ IsTranslator(t') /\ TypesOf(t'.out) \subseteq TypesOf(t.out) \cup ItemTypes
        /\ tgt' = "running" \/ (gone /\ tgt' = "failed")
    BY <1>1, <2>1, ProcessAdds, WriteAdds
  <2>3. "completed" \notin TypesOf(t'.out) /\ "failed" \notin TypesOf(t'.out)
    BY <1>1, <2>2 DEF TargetInv, Out, ItemTypes, Openers
  <2>4. c.kind = "finish" => complete
    BY <1>1, TakeHead, EndingFacts
  <2>5. terminal' => complete
    BY <1>1, <2>1, <2>4 DEF TargetInv
  <2>6. QED
    BY <1>1, <1>2, <2>2, <2>3, <2>5 DEF TargetInv, Out, Ended
<1>8. QED
  BY <1>1, <1>2, <1>3, <1>4, <1>5, <1>6, <1>7 DEF TargetEffect, Ended

LEMMA TakeCancelledEffect ==
    ASSUME Shape, SourceInv, TargetInv, ChatClientInv, TakeCancelled
    PROVE  TargetEffect
<1>1. target # "chat" /\ tgt = "running" /\ pending # <<>> /\ pending' = Tail(pending)
  BY DEF TakeCancelled
<1>2. UNCHANGED <<src, source, target, gone, outcome, read, complete, whole, terminal>>
  BY DEF TakeCancelled, sourceVars, fixed
<1>3. SourceInv'
  BY <1>1, <1>2, TailKeeps
<1>4. ChatClientInv'
  BY <1>1, <1>2 DEF ChatClientInv
<1>5. IsTranslator(t') /\ TargetInv' /\ tgt' \in Ended
  BY <1>1, <1>2, AbandonedEffect DEF TakeCancelled
<1>6. QED
  BY <1>1, <1>2, <1>3, <1>4, <1>5 DEF TargetEffect, Ended

LEMMA TakeEndEffect ==
    ASSUME Shape, SourceInv, TargetInv, ChatClientInv, TakeEnd
    PROVE  TargetEffect
<1>1. target # "chat" /\ tgt = "running" /\ pending = <<>>
  BY DEF TakeEnd
<1>2. UNCHANGED <<src, source, target, gone, outcome, read, complete, whole, terminal, pending>>
  BY DEF TakeEnd, sourceVars, fixed
<1>3. SourceInv'
  BY <1>2 DEF SourceInv
<1>4. ChatClientInv'
  BY <1>1, <1>2 DEF ChatClientInv
<1>5. IsTranslator(t') /\ TargetInv' /\ tgt' \in Ended
  <2>1. CASE src = "ok" /\ terminal
    <3>1. Write(Complete(target, t), "ok")
      BY <2>1 DEF TakeEnd
    <3>2. complete
      BY <1>1, <2>1 DEF TargetInv
    <3>3. QED
      BY <1>1, <1>2, <2>1, <3>1, <3>2, CompletedEffect
  <2>2. CASE ~(src = "ok" /\ terminal)
    <3>1. Write(Abandon(target, t), "failed")
      BY <2>2 DEF TakeEnd
    <3>2. QED
      BY <1>1, <1>2, <3>1, AbandonedEffect
  <2>3. QED
    BY <2>1, <2>2
<1>6. QED
  BY <1>1, <1>2, <1>3, <1>4, <1>5 DEF TargetEffect, Ended

LEMMA DeliverChunkEffect ==
    ASSUME Shape, SourceInv, TargetInv, ChatClientInv, DeliverChunk
    PROVE  TargetEffect
<1> DEFINE c == Head(pending)
           e == Event(c.kind, c.index, c.kind, c.call, c.data)
<1>1. /\ target = "chat" /\ source # "chat" /\ IsTranslator(t) /\ tgt = "running"
      /\ pending # <<>> /\ pending' = Tail(pending)
  BY DEF Shape, ChatClientInv, DeliverChunk
<1>2. UNCHANGED <<src, source, target, gone, outcome, read, complete, whole, tgt, terminal>>
  BY DEF DeliverChunk, sourceVars, fixed
<1>3. SourceInv'
  BY <1>1, <1>2, TailKeeps
<1>4. t' = Emit(t, e) /\ e.type = c.kind
  BY <1>1 DEF DeliverChunk, Process, Event
<1> HIDE DEF e
<1>5. IsTranslator(t') /\ TypesOf(t'.out) \subseteq TypesOf(t.out) \cup {c.kind} /\ c.kind \in TypesOf(t'.out)
  <2>1. Adds(t, Emit(t, e), {c.kind}) /\ e.type \in TypesOf(Emit(t, e).out)
    BY <1>1, <1>4, EmitAdds
  <2>2. QED
    BY <1>1, <1>4, <2>1, AddsTypes
<1>6. src \notin Ended /\ "done" \notin TypesOf(t.out)
  BY <1>1 DEF SourceInv, ChatClientInv, Out
<1>7. c.kind \in {"reasoning", "text", "tool", "malformed", "finish", "done"}
  BY <1>1, TakeHead, EndingFacts
<1>8. c.kind = "done" => complete /\ pending' = <<>> /\ src = "closing"
  <2>1. SUFFICES ASSUME c.kind = "done" PROVE complete /\ pending' = <<>> /\ src = "closing"
    OBVIOUS
  <2>2. complete /\ pending = <<DoneChunk>> /\ Tail(pending) = <<>>
    BY <1>1, <2>1, TakeHead, EndingFacts
  <2>3. QED
    BY <1>1, <2>2 DEF SourceInv, Endings
<1>9. src = "closing" /\ pending' = <<>> => c.kind = "done"
  <2>1. SUFFICES ASSUME src = "closing", pending' = <<>> PROVE c.kind = "done"
    OBVIOUS
  <2>2. ~Plain(pending) /\ pending # <<FinishChunk>>
    BY <1>1, <2>1 DEF SourceInv
  <2>3. QED
    BY <1>1, <2>1, <2>2, TakeHead, EndingFacts, <<DoneChunk>> # <<>>
<1>10. ChatClientInv'
  BY <1>1, <1>2, <1>5, <1>6, <1>7, <1>8, <1>9 DEF ChatClientInv, Out, Ended
<1>11. TargetInv'
  BY <1>1, <1>2 DEF TargetInv
<1>12. QED
  BY <1>1, <1>2, <1>3, <1>5, <1>10, <1>11 DEF TargetEffect

LEMMA TargetHasEffect ==
    ASSUME Shape, SourceInv, TargetInv, ChatClientInv, Target
    PROVE  TargetEffect
  BY TargetStartsEffect, TakeChunkEffect, TakeCancelledEffect, TakeEndEffect, DeliverChunkEffect
  DEF Target

-----------------------------------------------------------------------------
(* The invariant. *)

LEMMA InitIInv == Init => IInv
<1>1. SUFFICES ASSUME Init PROVE IInv
  OBVIOUS
<1>2. t.out = <<>> /\ t.toolCalls = <<>>
      /\ DOMAIN t = {"active", "buffer", "next", "toolCalls", "finalOutput", "out"}
  BY <1>1 DEF Init, NewTranslator
<1>3. TypesOf(t.out) = {}
  BY <1>2, EmptyFacts DEF TypesOf
<1>4. IsTranslator(t)
  <2>1. DOMAIN t.toolCalls = {}
    BY <1>2
  <2>2. QED
    BY <1>2, <2>1, EmptyFacts, FS_EmptySet DEF IsTranslator
<1>5. Shape
  BY <1>1, <1>4, StreamAssumption DEF Init, Shape, StreamAssumption
<1>6. SourceInv
  BY <1>1, NoChunk, EndingFacts DEF Init, SourceInv, Ended
<1>7. TargetInv
  BY <1>1, <1>3 DEF Init, TargetInv, Out
<1>8. ChatClientInv
  BY <1>1, <1>3 DEF Init, ChatClientInv, Out
<1>9. OutcomeInv
  BY <1>1 DEF Init, OutcomeInv
<1>10. QED
  BY <1>5, <1>6, <1>7, <1>8, <1>9 DEF IInv

\* The source.
LEMMA ReadingStep ==
    ASSUME IInv, ReadingEffect
    PROVE  IInv'
<1> USE DEF IInv, ReadingEffect
<1>1. Shape'
  BY DEF Shape
<1>2. TargetInv'
  BY DEF TargetInv, Out
<1>3. ChatClientInv'
  BY DEF Shape, ChatClientInv, Out
<1>4. OutcomeInv'
  BY DEF OutcomeInv
<1>5. QED
  BY <1>1, <1>2, <1>3, <1>4

LEMMA WritingStep ==
    ASSUME IInv, WritingEffect
    PROVE  IInv'
<1> USE DEF IInv, WritingEffect
<1>1. Shape'
  BY DEF Shape
<1>2. TargetInv'
  BY DEF TargetInv, Out
<1>3. ChatClientInv'
  BY DEF Shape, ChatClientInv, Out, Ended
<1>4. OutcomeInv'
  BY DEF OutcomeInv, Ended
<1>5. QED
  BY <1>1, <1>2, <1>3, <1>4

LEMMA TargetStep ==
    ASSUME IInv, TargetEffect
    PROVE  IInv'
<1>1. Shape'
  BY DEF IInv, TargetEffect, Shape
<1>2. OutcomeInv'
  BY DEF IInv, TargetEffect, OutcomeInv
<1>3. QED
  BY <1>1, <1>2 DEF IInv, TargetEffect

LEMMA ReturnStep ==
    ASSUME IInv, Return
    PROVE  IInv'
<1>1. UNCHANGED <<source, target, gone, read, complete, whole, src, pending, t, tgt, terminal>>
  BY DEF Return, sourceVars, targetVars
<1>2. OutcomeInv' /\ outcome' \in {"none", "success", "streamError"}
  BY <1>1 DEF Return, OutcomeInv
<1>3. Shape' /\ SourceInv' /\ TargetInv' /\ ChatClientInv'
  BY <1>1, <1>2 DEF IInv, Shape, SourceInv, TargetInv, ChatClientInv, Out
<1>4. QED
  BY <1>2, <1>3 DEF IInv

\* The surroundings.
LEMMA OtherStep ==
    ASSUME IInv, ClientLeaves \/ Cancel \/ UNCHANGED vars
    PROVE  IInv'
<1>1. UNCHANGED <<source, target, read, complete, whole, src, pending, t, tgt, terminal, outcome>>
  BY DEF ClientLeaves, Cancel, vars, sourceVars, targetVars
<1>2. gone => gone'
  BY DEF ClientLeaves, Cancel, vars
<1>3. QED
  BY <1>1, <1>2 DEF IInv, Shape, SourceInv, TargetInv, ChatClientInv, OutcomeInv, Out

LEMMA NextIInv == IInv /\ [Next]_vars => IInv'
<1>1. SUFFICES ASSUME IInv, [Next]_vars PROVE IInv'
  OBVIOUS
<1>2. CASE Source
  BY <1>1, <1>2, SourceHasEffect, ReadingStep, WritingStep DEF IInv
<1>3. CASE Target
  BY <1>1, <1>3, TargetHasEffect, TargetStep DEF IInv
<1>4. CASE Return
  BY <1>1, <1>4, ReturnStep
<1>5. CASE ClientLeaves \/ Cancel \/ UNCHANGED vars
  BY <1>1, <1>5, OtherStep
<1>6. QED
  BY <1>1, <1>2, <1>3, <1>4, <1>5 DEF Next

\* In every state the source writes the end of an answer only after the upstream
\* has, the target ends well only on it, and the handler's report is what the two
\* ends came to: the inductive invariant of pipeConvertedStream.
THEOREM InvCorrect == Spec => []IInv
<1>1. QED
  BY InitIInv, NextIInv, PTL DEF Spec

LEMMA SomeOf ==
    ASSUME Shape, NEW type
    PROVE  Of(type) # {} <=> type \in TypesOf(Out)
  BY DEF Of, TypesOf, ToSet, Out

\* The handler reports success, and the client is told that its answer is complete,
\* only when the upstream has marked the end of its answer, by its terminal event or
\* by a [DONE]: an io.EOF, a broken connection or a cancelled context is never taken
\* for the end of an answer.
THEOREM SuccessCorrect == Spec => []SuccessIsComplete
<1>1. IInv => SuccessIsComplete
  <2>1. SUFFICES ASSUME IInv PROVE SuccessIsComplete
    OBVIOUS
  <2>2. \A type : Of(type) # {} <=> type \in TypesOf(Out)
    BY <2>1, SomeOf DEF IInv
  <2>3. CASE target = "chat"
    <3>1. source # "chat" /\ (src \in {"closing", "ok"} => complete)
      BY <2>1, <2>3 DEF IInv, Shape, SourceInv
    <3>2. ToldComplete <=> "done" \in TypesOf(Out)
      BY <2>2, <2>3 DEF ToldComplete
    <3>3. outcome = "success" => src = "ok" /\ ToldComplete
      BY <2>1, <2>3, <3>1, <3>2 DEF IInv, OutcomeInv, ChatClientInv, Ended
    <3>4. ToldComplete => complete /\ outcome # "streamError" /\ "failed" \notin TypesOf(Out)
      BY <2>1, <2>3, <3>2 DEF IInv, OutcomeInv, ChatClientInv, Ended
    <3>5. QED
      BY <2>2, <2>3, <3>1, <3>3, <3>4 DEF SuccessIsComplete
  <2>4. CASE target # "chat"
    <3>1. ToldComplete <=> "completed" \in TypesOf(Out)
      BY <2>2, <2>4 DEF ToldComplete
    <3>2. outcome = "success" => tgt = "ok"
      BY <2>1, <2>4 DEF IInv, OutcomeInv, Ended
    <3>3. /\ tgt = "ok" => complete /\ (target # "generateContent" => ToldComplete)
          /\ ToldComplete => tgt = "ok" /\ "failed" \notin TypesOf(Out)
      BY <2>1, <2>4, <3>1 DEF IInv, TargetInv
    <3>4. tgt = "ok" => outcome # "streamError"
      BY <2>1, <2>4 DEF IInv, TargetInv, OutcomeInv
    <3>5. QED
      BY <2>2, <2>4, <3>2, <3>3, <3>4 DEF SuccessIsComplete
  <2>5. QED
    BY <2>3, <2>4
<1>2. QED
  BY <1>1, InvCorrect, PTL

\* A Responses client whose stream fails, whichever end fails first, gets the
\* failed event of FinishWithError unless it has left.
THEOREM FailureCorrect == Spec => []FailureIsTold
<1>1. IInv => FailureIsTold
  <2>1. SUFFICES ASSUME IInv, target = "responses", outcome = "streamError", ~gone
                 PROVE  Of("failed") # {}
    BY DEF FailureIsTold
  <2>2. tgt \in Ended /\ ((source # "chat" /\ src = "failed") \/ tgt = "failed")
    BY <2>1 DEF IInv, OutcomeInv
  <2>3. tgt = "failed"
    BY <2>1, <2>2 DEF IInv, TargetInv, Ended
  <2>4. "failed" \in TypesOf(Out)
    BY <2>1, <2>3 DEF IInv, TargetInv
  <2>5. QED
    BY <2>1, <2>4, SomeOf DEF IInv
<1>2. QED
  BY <1>1, InvCorrect, PTL
===============================================================================
