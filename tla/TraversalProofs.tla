---------------------------- MODULE TraversalProofs ----------------------------
(***************************************************************************)
(* Safety of the dispatch of requests for every number of requests,         *)
(* channels and routes, every order of the candidates and every             *)
(* configuration of the rounds and the cooldown.                             *)
(***************************************************************************)
EXTENDS TraversalProps, SequenceInduction, SequenceTheorems, FiniteSetTheorems, TLAPS

-----------------------------------------------------------------------------
(* Least and greatest numbers. *)

LEMMA MinOfNat ==
    ASSUME NEW T \in SUBSET Nat, T # {}
    PROVE  Min(T) \in T /\ \A n \in T : Min(T) <= n
  BY Least DEF Min

\* A set of numbers with a bound has a greatest member.
LEMMA MaxOfBounded ==
    ASSUME NEW T \in SUBSET Nat, T # {}, NEW b \in Nat, \A n \in T : n <= b
    PROVE  Max(T) \in T /\ \A n \in T : n <= Max(T)
<1> DEFINE B == {m \in Nat : \A n \in T : n <= m}
<1>1. PICK m \in B : \A n \in B : m <= n
  BY Least
<1>2. m \in T
  <2>1. SUFFICES ASSUME m \notin T PROVE FALSE
    OBVIOUS
  <2>2. \A n \in T : n < m
    BY <2>1
  <2>3. m - 1 \in B
    <3>1. PICK k \in T : k < m
      BY <2>2
    <3>2. m - 1 \in Nat
      BY <3>1
    <3>3. QED
      BY <2>2, <3>2
  <2>4. QED
    BY <1>1, <2>3
<1>3. QED
  BY <1>2 DEF Max

-----------------------------------------------------------------------------
(* Lemmas about the operators. *)

LEMMA RoundsOfType ==
    ASSUME NEW c \in Channel
    PROVE  RoundsOf(c) \in Nat \ {0}
  BY TraversalAssumption DEF RoundsOf, Channel

\* No eligible channel has more rounds than the request makes.
LEMMA MaxRoundsBound ==
    ASSUME NEW r, eligible[r] \in Seq(Channel)
    PROVE  /\ MaxRounds(r) \in Nat \ {0}
           /\ \A c \in ToSet(eligible[r]) : RoundsOf(c) <= MaxRounds(r)
<1> DEFINE e == eligible[r]
           Bounded(n) == \E b \in Nat : \A i \in DOMAIN e : i <= n => RoundsOf(e[i]) <= b
           S == {n \in Nat : Bounded(n)}
           T == {1} \cup {RoundsOf(c) : c \in ToSet(e)}
<1>1. \A i \in DOMAIN e : i \in Nat /\ i > 0 /\ i <= Len(e) /\ RoundsOf(e[i]) \in Nat \ {0}
  BY RoundsOfType
<1>2. 0 \in S
  BY <1>1
<1>3. \A n \in Nat : n \in S => n + 1 \in S
  <2> HIDE DEF Bounded
  <2> SUFFICES ASSUME NEW n \in Nat, Bounded(n) PROVE Bounded(n + 1)
    OBVIOUS
  <2> USE DEF Bounded
  <2>1. PICK b \in Nat : \A i \in DOMAIN e : i <= n => RoundsOf(e[i]) <= b
    OBVIOUS
  <2>2. CASE n + 1 \in DOMAIN e
    <3> DEFINE d == b + RoundsOf(e[n + 1])
    <3>1. d \in Nat
      BY <2>2, <1>1
    <3>2. \A i \in DOMAIN e : i <= n + 1 => RoundsOf(e[i]) <= d
      BY <2>1, <2>2, <1>1
    <3>3. QED
      BY <3>1, <3>2
  <2>3. CASE n + 1 \notin DOMAIN e
    <3>1. \A i \in DOMAIN e : i <= n + 1 => i <= n
      BY <2>3, <1>1
    <3>2. \A i \in DOMAIN e : i <= n + 1 => RoundsOf(e[i]) <= b
      BY <2>1, <3>1
    <3>3. QED
      BY <3>2
  <2>4. QED
    BY <2>2, <2>3
<1>4. Len(e) \in S
  <2> HIDE DEF S
  <2>1. QED
    BY <1>2, <1>3, SetInduction
<1>5. PICK b \in Nat : \A i \in DOMAIN e : RoundsOf(e[i]) <= b
  BY <1>1, <1>4
<1>6. T \subseteq Nat \ {0} /\ \A n \in T : n <= b + 1
  BY <1>1, <1>5 DEF ToSet
<1>7. Max(T) \in T /\ \A n \in T : n <= Max(T)
  <2> HIDE DEF T
  <2>1. T # {}
    BY DEF T
  <2>2. QED
    BY <1>6, <2>1, b + 1 \in Nat, MaxOfBounded
<1>8. MaxRounds(r) = Max(T)
  BY DEF MaxRounds
<1>9. QED
  BY <1>6, <1>7, <1>8

\* What is left of a sequence without its i-th element.
LEMMA RemoveAtElements ==
    ASSUME NEW S, NEW s \in Seq(S), NEW i \in 1 .. Len(s)
    PROVE  /\ RemoveAt(s, i) \in Seq(S)
           /\ Len(RemoveAt(s, i)) = Len(s) - 1
           /\ \A j \in 1 .. Len(s) - 1 :
                 RemoveAt(s, i)[j] = IF j <= i - 1 THEN s[j] ELSE s[j + 1]
<1> DEFINE front == SubSeq(s, 1, i - 1)
           back == SubSeq(s, i + 1, Len(s))
<1>1. front \in Seq(S) /\ Len(front) = i - 1 /\ \A j \in 1 .. i - 1 : front[j] = s[j]
  <2>1. \A j \in 1 .. i - 1 : s[j] \in S
    OBVIOUS
  <2>2. QED
    BY <2>1, SubSeqProperties, 1 \in Int, i - 1 \in Int
<1>2. /\ back \in Seq(S)
      /\ Len(back) = Len(s) - i
      /\ \A j \in 1 .. Len(s) - i : back[j] = s[i + j]
  <2>1. \A j \in i + 1 .. Len(s) : s[j] \in S
    OBVIOUS
  <2>2. QED
    BY <2>1, SubSeqProperties, i + 1 \in Int, Len(s) \in Int
<1> HIDE DEF front, back
<1>3. Len(front) + Len(back) = Len(s) - 1
  BY <1>1, <1>2
<1>4. /\ front \o back \in Seq(S)
      /\ Len(front \o back) = Len(s) - 1
      /\ \A j \in 1 .. Len(s) - 1 :
            (front \o back)[j] = IF j <= i - 1 THEN front[j] ELSE back[j - (i - 1)]
  <2>1. /\ front \o back \in Seq(S)
        /\ Len(front \o back) = Len(front) + Len(back)
        /\ \A j \in 1 .. Len(front) + Len(back) :
              (front \o back)[j] = IF j <= Len(front) THEN front[j] ELSE back[j - Len(front)]
    BY <1>1, <1>2, ConcatProperties
  <2>2. QED
    BY <1>1, <1>3, <2>1
<1>5. \A j \in 1 .. Len(s) - 1 : j > i - 1 => back[j - (i - 1)] = s[j + 1]
  <2>1. \A j \in 1 .. Len(s) - 1 :
           j > i - 1 => j - (i - 1) \in 1 .. Len(s) - i /\ i + (j - (i - 1)) = j + 1
    OBVIOUS
  <2>2. QED
    BY <1>2, <2>1
<1>6. RemoveAt(s, i) = front \o back
  BY DEF RemoveAt, front, back
<1>7. QED
  BY <1>1, <1>4, <1>5, <1>6

\* The loop that keeps the healthy candidates has a result after every turn.
LEMMA KeptExists ==
    ASSUME NEW order \in Seq(Channel)
    PROVE  \E f \in [0 .. Len(order) -> Seq(Channel)] :
              f = [n \in 0 .. Len(order) |->
                      IF n = 0 THEN <<>>
                      ELSE IF IsHealthy(health[order[n]]) THEN Append(f[n - 1], order[n])
                      ELSE f[n - 1]]
<1> DEFINE Turns(f, m) ==
              \A n \in 0 .. m :
                  f[n] = IF n = 0 THEN <<>>
                         ELSE IF IsHealthy(health[order[n]]) THEN Append(f[n - 1], order[n])
                         ELSE f[n - 1]
           Reaches(m) == m <= Len(order) => \E f \in [0 .. m -> Seq(Channel)] : Turns(f, m)
           S == {m \in Nat : Reaches(m)}
<1>1. Reaches(0)
  <2> DEFINE f == [n \in 0 .. 0 |-> <<>>]
  <2>1. f \in [0 .. 0 -> Seq(Channel)] /\ Turns(f, 0)
    OBVIOUS
  <2>2. QED
    BY <2>1
<1>2. ASSUME NEW m \in Nat, Reaches(m), m + 1 <= Len(order) PROVE Reaches(m + 1)
  <2>1. PICK f \in [0 .. m -> Seq(Channel)] : Turns(f, m)
    BY <1>2
  <2> DEFINE g == [n \in 0 .. m + 1 |->
                      IF n <= m THEN f[n]
                      ELSE IF IsHealthy(health[order[n]]) THEN Append(f[m], order[n])
                      ELSE f[m]]
  <2>2. order[m + 1] \in Channel
    BY <1>2
  <2>3. \A n \in 0 .. m + 1 : n <= m \/ n = m + 1
    OBVIOUS
  <2>4. f[m] \in Seq(Channel) /\ Append(f[m], order[m + 1]) \in Seq(Channel)
    BY <2>2
  <2>5. g \in [0 .. m + 1 -> Seq(Channel)]
    BY <2>3, <2>4
  <2>6. ASSUME NEW n \in 0 .. m + 1
        PROVE  g[n] = IF n = 0 THEN <<>>
                      ELSE IF IsHealthy(health[order[n]]) THEN Append(g[n - 1], order[n])
                      ELSE g[n - 1]
    <3>1. CASE n = m + 1
      BY <3>1
    <3>2. CASE n <= m
      <4>1. n \in 0 .. m /\ g[n] = f[n] /\ (n # 0 => g[n - 1] = f[n - 1])
        BY <3>2
      <4>2. QED
        BY <2>1, <4>1
    <3>3. QED
      BY <2>3, <3>1, <3>2
  <2>7. QED
    BY <2>5, <2>6
<1>3. Len(order) \in S
  <2> HIDE DEF Reaches
  <2>1. \A m \in Nat : m \in S => m + 1 \in S
    <3> SUFFICES ASSUME NEW m \in Nat, Reaches(m) PROVE Reaches(m + 1)
      OBVIOUS
    <3>1. CASE m + 1 <= Len(order)
      BY <1>2, <3>1
    <3>2. CASE ~(m + 1 <= Len(order))
      BY <3>2 DEF Reaches
    <3>3. QED
      BY <3>1, <3>2
  <2>2. 0 \in S
    BY <1>1
  <2> HIDE DEF S
  <2>3. QED
    BY <2>1, <2>2, SetInduction
<1>4. PICK f \in [0 .. Len(order) -> Seq(Channel)] : Turns(f, Len(order))
  BY <1>3
<1>5. f = [n \in 0 .. Len(order) |->
              IF n = 0 THEN <<>>
              ELSE IF IsHealthy(health[order[n]]) THEN Append(f[n - 1], order[n])
              ELSE f[n - 1]]
  BY <1>4
<1>6. QED
  BY <1>5

\* The healthy candidates are candidates, each of them once.
LEMMA HealthyType ==
    ASSUME NEW order \in Seq(Channel), IsInjective(order)
    PROVE  Healthy(order) \in Seq(Channel) /\ IsInjective(Healthy(order))
<1> DEFINE Kept(f) ==
              f = [n \in 0 .. Len(order) |->
                      IF n = 0 THEN <<>>
                      ELSE IF IsHealthy(health[order[n]]) THEN Append(f[n - 1], order[n])
                      ELSE f[n - 1]]
           kept == CHOOSE f : Kept(f)
           Good(n) ==
              n <= Len(order) =>
                  /\ kept[n] \in Seq(Channel)
                  /\ \A j \in DOMAIN kept[n] : \E i \in 1 .. n : kept[n][j] = order[i]
                  /\ IsInjective(kept[n])
           S == {n \in Nat : Good(n)}
<1>1. Healthy(order) = kept[Len(order)]
  BY DEF Healthy
<1>2. Kept(kept)
  BY KeptExists
<1> HIDE DEF kept
<1>3. \A n \in 0 .. Len(order) :
          kept[n] = IF n = 0 THEN <<>>
                    ELSE IF IsHealthy(health[order[n]]) THEN Append(kept[n - 1], order[n])
                    ELSE kept[n - 1]
  BY <1>2
<1>4. Good(0)
  <2>1. kept[0] = <<>>
    BY <1>3, 0 \in 0 .. Len(order)
  <2>2. <<>> \in Seq(Channel) /\ DOMAIN <<>> = {}
    OBVIOUS
  <2>3. QED
    BY <2>1, <2>2 DEF IsInjective
<1>5. ASSUME NEW n \in Nat, Good(n), n + 1 <= Len(order) PROVE Good(n + 1)
  <2>1. kept[n + 1] = IF IsHealthy(health[order[n + 1]]) THEN Append(kept[n], order[n + 1])
                      ELSE kept[n]
    BY <1>3, <1>5
  <2>2. /\ kept[n] \in Seq(Channel)
        /\ \A j \in DOMAIN kept[n] : \E i \in 1 .. n : kept[n][j] = order[i]
        /\ IsInjective(kept[n])
    BY <1>5
  <2>3. CASE kept[n + 1] = kept[n]
    BY <2>2, <2>3
  <2>4. CASE kept[n + 1] = Append(kept[n], order[n + 1])
    <3>1. order[n + 1] \in Channel /\ \A i \in 1 .. n : order[i] # order[n + 1]
      BY <1>5 DEF IsInjective
    <3>2. /\ kept[n + 1] \in Seq(Channel)
          /\ Len(kept[n + 1]) = Len(kept[n]) + 1
          /\ kept[n + 1][Len(kept[n]) + 1] = order[n + 1]
          /\ \A j \in 1 .. Len(kept[n]) : kept[n + 1][j] = kept[n][j]
      BY <2>2, <2>4, <3>1
    <3>3. \A j \in DOMAIN kept[n + 1] : j \in DOMAIN kept[n] \/ j = Len(kept[n]) + 1
      BY <2>2, <3>2
    <3>4. ASSUME NEW j \in DOMAIN kept[n + 1]
          PROVE  \E i \in 1 .. n + 1 : kept[n + 1][j] = order[i]
      <4>1. CASE j \in DOMAIN kept[n]
        <5>1. PICK i \in 1 .. n : kept[n][j] = order[i]
          BY <2>2, <4>1
        <5>2. kept[n + 1][j] = kept[n][j]
          <6>1. j \in 1 .. Len(kept[n])
            BY <2>2, <4>1
          <6>2. QED
            BY <3>2, <6>1
        <5>3. i \in 1 .. n + 1
          BY <1>5
        <5>4. QED
          BY <5>1, <5>2, <5>3
      <4>2. CASE j = Len(kept[n]) + 1
        BY <1>5, <3>2, <4>2, n + 1 \in 1 .. n + 1
      <4>3. QED
        BY <3>3, <4>1, <4>2
    <3>5. IsInjective(kept[n + 1])
      <4>1. \A j \in DOMAIN kept[n] : kept[n + 1][j] = kept[n][j] /\ kept[n][j] # order[n + 1]
        <5> TAKE j \in DOMAIN kept[n]
        <5>1. PICK i \in 1 .. n : kept[n][j] = order[i]
          BY <2>2
        <5>2. j \in 1 .. Len(kept[n])
          BY <2>2
        <5>3. QED
          BY <3>1, <3>2, <5>1, <5>2
      <4>2. QED
        BY <2>2, <3>2, <3>3, <4>1 DEF IsInjective
    <3>6. QED
      BY <3>2, <3>4, <3>5
  <2>5. QED
    BY <2>1, <2>3, <2>4
<1>6. Len(order) \in S
  <2> HIDE DEF Good
  <2>1. \A n \in Nat : n \in S => n + 1 \in S
    <3> SUFFICES ASSUME NEW n \in Nat, Good(n) PROVE Good(n + 1)
      OBVIOUS
    <3>1. CASE n + 1 <= Len(order)
      BY <1>5, <3>1
    <3>2. CASE ~(n + 1 <= Len(order))
      BY <3>2 DEF Good
    <3>3. QED
      BY <3>1, <3>2
  <2>2. 0 \in S
    BY <1>4
  <2> HIDE DEF S
  <2>3. QED
    BY <2>1, <2>2, SetInduction
<1>7. QED
  BY <1>1, <1>6

\* The candidates in any order the balancer makes of them are the channels of
\* the model, each at most once.
LEMMA OrdersType ==
    ASSUME cached \in Route \cup {None}, NEW order \in CandidateOrders
    PROVE  order \in Seq(Channel) /\ IsInjective(order)
<1>1. Candidates \in Seq(Channel)
  BY TraversalAssumption DEF Channel
<1>2. \A c \in Channel : <<c>> \in Seq(Channel) /\ IsInjective(<<c>>)
  BY DEF IsInjective
<1>3. CASE ~Failover
  <2>1. cached # None => Owner[cached] \in Channel
    BY TraversalAssumption DEF Channel
  <2>2. \E c \in Channel : order = <<c>>
    BY <1>3, <2>1 DEF CandidateOrders
  <2>3. QED
    BY <1>2, <2>2
<1>4. CASE Failover
  <2>1. PICK i \in DOMAIN Candidates : order = Reordered(i)
    BY <1>4 DEF CandidateOrders
  <2> DEFINE rest == RemoveAt(Candidates, i)
  <2>2. i \in 1 .. Len(Candidates) /\ Candidates[i] \in Channel
    BY <1>1
  <2>3. /\ rest \in Seq(Channel)
        /\ Len(rest) = Len(Candidates) - 1
        /\ \A j \in 1 .. Len(Candidates) - 1 :
              rest[j] = IF j <= i - 1 THEN Candidates[j] ELSE Candidates[j + 1]
    BY <1>1, <2>2, RemoveAtElements
  <2> HIDE DEF rest
  <2>4. /\ <<Candidates[i]>> \in Seq(Channel)
        /\ Len(<<Candidates[i]>>) = 1
        /\ <<Candidates[i]>>[1] = Candidates[i]
    BY <2>2
  <2>5. /\ order \in Seq(Channel)
        /\ Len(order) = Len(Candidates)
        /\ order[1] = Candidates[i]
        /\ \A j \in 2 .. Len(Candidates) : order[j] = rest[j - 1]
    <3>1. order = <<Candidates[i]>> \o rest
      BY <2>1 DEF Reordered, rest
    <3>2. QED
      BY <1>1, <2>2, <2>3, <2>4, <3>1, ConcatProperties
  <2> DEFINE from(j) == IF j = 1 THEN i ELSE IF j <= i THEN j - 1 ELSE j
  <2>6. \A j \in 1 .. Len(Candidates) : from(j) \in DOMAIN Candidates /\ order[j] = Candidates[from(j)]
    <3> TAKE j \in 1 .. Len(Candidates)
    <3>1. CASE j = 1
      BY <2>2, <2>5, <3>1
    <3>2. CASE j # 1
      <4>1. Len(Candidates) \in Nat /\ j - 1 \in 1 .. Len(Candidates) - 1 /\ j \in 2 .. Len(Candidates)
        BY <1>1, <3>2
      <4>2. order[j] = IF j - 1 <= i - 1 THEN Candidates[j - 1] ELSE Candidates[j - 1 + 1]
        BY <2>3, <2>5, <4>1
      <4>3. QED
        BY <1>1, <2>2, <3>2, <4>1, <4>2
    <3>3. QED
      BY <3>1, <3>2
  <2>7. \A j, k \in 1 .. Len(Candidates) : from(j) = from(k) => j = k
    BY <1>1, <2>2
  <2> HIDE DEF from
  <2>8. DOMAIN order = 1 .. Len(Candidates)
    BY <2>5
  <2>9. QED
    BY <2>5, <2>6, <2>7, <2>8, TraversalAssumption DEF IsInjective
<1>5. QED
  BY <1>3, <1>4, TraversalAssumption

-----------------------------------------------------------------------------
(* Types. *)

\* The error of every result that goes back to the loop is one of the errors.
LEMMA ErrorType ==
    \A o \in Outcomes \ (Handled \cup {"none", "success"}) : ErrorOf(o) \in Errors
  BY DEF Errors

LEMMA ContextErrorType ==
    ASSUME NEW r \in Request, ctx \in [Request -> {"alive", "deadline", "canceled"}],
           NEW e \in ContextErrors(r)
    PROVE  e \in {"deadline", "canceled"} /\ ErrorOf(e) \in Errors
<1>1. e \in {"deadline", "canceled"}
  BY DEF ContextErrors
<1>2. QED
  BY <1>1, ErrorType DEF Outcomes, Handled

LEMMA FinalStatusType ==
    ASSUME NEW err \in Errors
    PROVE  FinalStatus(err) \in Nat \ {400, 401, 429}
  BY DEF Errors, NoError, ErrorOf, FinalStatus, Outcomes, AttemptClasses, Handled

LEMMA WatchType ==
    ASSUME steady \in [Request -> SUBSET Route], Watch
    PROVE  steady' \in [Request -> SUBSET Route]
  BY DEF Watch

LEMMA HealthType ==
    ASSUME NEW h \in Healths
    PROVE  ReportSuccess(h) \in Healths /\ ReportFailure(h) \in Healths /\ Recover(h) \in Healths
<1>1. ReportSuccess(h) \in Healths
  BY DEF Healths, ReportSuccess
<1>2. ReportFailure(h) \in Healths
  BY ChannelHealthAssumption DEF Healths, ReportFailure
<1>3. Recover(h) \in Healths
  <2>1. h.left # Recovered => h.left - 1 \in Nat \cup {Recovered}
    BY DEF Healths, Recovered
  <2>2. QED
    BY <2>1 DEF Healths, Recover
<1>4. QED
  BY <1>1, <1>2, <1>3

LEMMA InitType == Init => TypeOK
<1> SUFFICES ASSUME Init PROVE TypeOK
  OBVIOUS
<1>1. NewChannelHealth \in Healths
  BY DEF NewChannelHealth, Healths, Recovered
<1>2. <<>> \in Replies
  BY DEF Replies
<1>3. QED
  BY <1>1, <1>2 DEF Init, TypeOK, Pcs, Outcomes, Errors, Timers, NoWait

LEMMA BeginType ==
    ASSUME TypeOK, NEW r \in Request, NEW p \in Route, Begin(r, p)
    PROVE  /\ pc' \in [Request -> Pcs]
           /\ attempted' \in [Request -> SUBSET Route]
           /\ current' \in [Request -> Route \cup {None}]
           /\ tries' \in [Request -> Timers]
<1>1. tries[r] \in Timers /\ [tries[r] EXCEPT ![p] = @ + 1] \in Timers
  BY DEF TypeOK, Timers
<1>2. QED
  BY <1>1 DEF TypeOK, Begin, GoTo, Pcs

LEMMA NewPassType ==
    ASSUME TypeOK, NEW r \in Request, NewPass(r)
    PROVE  /\ pos' \in [Request -> Nat]
           /\ passAttempted' \in [Request -> BOOLEAN]
           /\ wait' \in [Request -> Nat \cup {NoWait}]
           /\ pc' \in [Request -> Pcs]
  BY DEF TypeOK, NewPass, GoTo, Pcs

LEMMA NextRoundType ==
    ASSUME TypeOK, NEW r \in Request, NextRound(r)
    PROVE  /\ round' \in [Request -> Nat \ {0}]
           /\ attempted' \in [Request -> SUBSET Route]
           /\ pc' \in [Request -> Pcs]
  BY DEF TypeOK, NextRound, GoTo, Pcs

LEMMA ResumeType ==
    ASSUME TypeOK, NEW r \in Request, Resume(r)
    PROVE  /\ pc' \in [Request -> Pcs]
           /\ pos' \in [Request -> Nat]
           /\ current' \in [Request -> Route \cup {None}]
           /\ outcome' \in [Request -> Outcomes]
<1>1. pos[r] + 1 \in Nat
  BY DEF TypeOK
<1>2. pos' = pos \/ pos' = [pos EXCEPT ![r] = pos[r] + 1]
  BY DEF Resume
<1>3. \E label \in Pcs : pc' = [pc EXCEPT ![r] = label]
  BY DEF Resume, GoTo, Pcs
<1>4. current' \in [Request -> Route \cup {None}] /\ outcome' \in [Request -> Outcomes]
  BY DEF TypeOK, Resume, Outcomes
<1>5. pos' \in [Request -> Nat]
  BY <1>1, <1>2 DEF TypeOK
<1>6. pc' \in [Request -> Pcs]
  BY <1>3 DEF TypeOK
<1>7. QED
  BY <1>4, <1>5, <1>6

LEMMA ReplyType ==
    ASSUME TypeOK, NEW r \in Request, NEW code \in Codes, NEW status \in Nat,
           Reply(r, code, status)
    PROVE  replies' \in [Request -> Replies]
<1> DEFINE reply == [code |-> code, status |-> status]
<1>1. reply \in [code : Codes, status : Nat]
  OBVIOUS
<1>2. replies' = [replies EXCEPT ![r] = Append(replies[r], reply)]
  BY DEF Reply
<1> HIDE DEF reply
<1>3. Append(replies[r], reply) \in Replies
  <2> DEFINE T == [code : Codes, status : Nat]
  <2>1. replies[r] \in Seq(T) /\ reply \in T
    BY <1>1 DEF TypeOK, Replies
  <2> HIDE DEF T
  <2>2. Append(replies[r], reply) \in Seq(T)
    BY <2>1
  <2>3. QED
    BY <2>2 DEF T, Replies
<1>4. QED
  BY <1>2, <1>3 DEF TypeOK

LEMMA UnreportedType ==
    ASSUME NEW c
    PROVE  IsFiniteSet(Unreported(c)) /\ Cardinality(Unreported(c)) \in Nat
<1>1. Unreported(c) \subseteq Request
  BY DEF Unreported
<1>2. IsFiniteSet(Unreported(c))
  BY <1>1, TraversalAssumption, FS_Subset
<1>3. QED
  BY <1>2, FS_CardinalityType

\* The histories of an answer.
LEMMA HearType ==
    ASSUME TypeOK, NEW r \in Request, NEW o, current[r] \in Route, Hear(r, o)
    PROVE  /\ limited' \in [Request -> Timers]
           /\ dropped' \in [Request -> SUBSET Route]
           /\ outages' \in [Channel -> Nat]
<1>1. limited[r] \in Timers /\ [limited[r] EXCEPT ![current[r]] = RetryDelay] \in Timers
  BY TraversalAssumption DEF TypeOK, Timers
<1>2. limited' \in [Request -> Timers]
  BY <1>1 DEF TypeOK, Hear
<1>3. dropped' \in [Request -> SUBSET Route]
  BY DEF TypeOK, Hear
<1>4. outages' \in [Channel -> Nat]
  BY TraversalAssumption DEF TypeOK, Hear, Channel
<1>5. QED
  BY <1>2, <1>3, <1>4

\* Every step keeps the types.
LEMMA StepType ==
    ASSUME TypeOK, \A r \in Request : AttemptInv(r), [Next]_vars
    PROVE  TypeOK'
<1> USE DEF shared, snapshot, loop, GoTo
<1>1. ASSUME NEW r \in Request, Receive(r) PROVE TypeOK'
  <2>1. PICK order \in CandidateOrders :
           /\ eligible' = [eligible EXCEPT ![r] = Healthy(order)]
           /\ preferred' = [preferred EXCEPT ![r] =
                 IF cached # None /\ (Failover \/ order = <<Owner[cached]>>) THEN cached ELSE None]
           /\ IF Healthy(order) = <<>>
              THEN pc' = [pc EXCEPT ![r] = "done"] /\ Reply(r, "no_healthy_channel", 503)
              ELSE pc' = [pc EXCEPT ![r] = "preferred"] /\ UNCHANGED replies
    BY <1>1 DEF Receive
  <2>2. Healthy(order) \in Seq(Channel)
    BY OrdersType, HealthyType DEF TypeOK
  <2>3. eligible' \in [Request -> Seq(Channel)]
    BY <2>1, <2>2 DEF TypeOK
  <2>4. pc' \in [Request -> Pcs] /\ preferred' \in [Request -> Route \cup {None}]
    BY <2>1 DEF TypeOK, Pcs
  <2>5. replies' \in [Request -> Replies]
    <3>1. CASE UNCHANGED replies
      BY <3>1 DEF TypeOK
    <3>2. CASE Reply(r, "no_healthy_channel", 503)
      BY <3>2, ReplyType DEF Codes
    <3>3. QED
      BY <2>1, <3>1, <3>2
  <2>6. QED
    BY <1>1, <2>3, <2>4, <2>5, WatchType DEF TypeOK, Receive
<1>2. ASSUME NEW r \in Request, SelectPreferred(r) PROVE TypeOK'
  <2>1. /\ pc' \in [Request -> Pcs]
        /\ attempted' \in [Request -> SUBSET Route]
        /\ current' \in [Request -> Route \cup {None}]
        /\ tries' \in [Request -> Timers]
    <3>1. preferred[r] \in Route \cup {None}
      BY DEF TypeOK
    <3>2. CASE preferred[r] # None /\ Begin(r, preferred[r])
      BY <3>1, <3>2, BeginType
    <3>3. CASE ~(preferred[r] # None /\ Begin(r, preferred[r]))
      BY <1>2, <3>1, <3>3 DEF TypeOK, SelectPreferred, Pcs
    <3>4. QED
      BY <3>2, <3>3
  <2>2. QED
    BY <1>2, <2>1, WatchType DEF TypeOK, SelectPreferred
<1>3. ASSUME NEW r \in Request, StartRound(r) PROVE TypeOK'
  <2>1. /\ pos' \in [Request -> Nat]
        /\ passAttempted' \in [Request -> BOOLEAN]
        /\ wait' \in [Request -> Nat \cup {NoWait}]
        /\ pc' \in [Request -> Pcs]
    <3>1. CASE NewPass(r)
      BY <3>1, NewPassType
    <3>2. CASE ~NewPass(r)
      BY <1>3, <3>2 DEF TypeOK, StartRound, Pcs
    <3>3. QED
      BY <3>1, <3>2
  <2>2. QED
    BY <1>3, <2>1, WatchType DEF TypeOK, StartRound
<1>4. ASSUME NEW r \in Request, VisitChannel(r) PROVE TypeOK'
  <2> DEFINE c == eligible[r][pos[r]]
             cooling == {cooldown[r][p] : p \in Untried(r, c)} \ {0}
  <2>1. CASE \E p \in Selectable(r, c) : Begin(r, p) /\ UNCHANGED <<pos, wait>>
                /\ passAttempted' = [passAttempted EXCEPT ![r] = TRUE]
    <3>1. PICK p \in Route : Begin(r, p)
      BY <2>1 DEF Selectable, Untried
    <3>2. QED
      BY <1>4, <2>1, <3>1, BeginType, WatchType DEF TypeOK, VisitChannel
  <2>2. CASE /\ wait' = [wait EXCEPT ![r] =
                    IF cooling = {} THEN @
                    ELSE IF @ = NoWait THEN Min(cooling) ELSE Min(cooling \cup {@})]
             /\ pos' = [pos EXCEPT ![r] = @ + 1]
             /\ UNCHANGED <<pc, passAttempted, attempted, current, tries>>
    <3>1. cooling \subseteq Nat
      BY DEF TypeOK, Timers, Untried
    <3> HIDE DEF cooling
    <3>2. cooling # {} => Min(cooling) \in Nat
      BY <3>1, MinOfNat
    <3>3. cooling # {} /\ wait[r] # NoWait => Min(cooling \cup {wait[r]}) \in Nat
      <4>1. wait[r] # NoWait => cooling \cup {wait[r]} \subseteq Nat
        BY <3>1 DEF TypeOK
      <4>2. QED
        BY <3>1, <4>1, MinOfNat
    <3>4. wait' \in [Request -> Nat \cup {NoWait}]
      BY <2>2, <3>2, <3>3 DEF TypeOK
    <3>5. pos' \in [Request -> Nat]
      BY <2>2 DEF TypeOK
    <3>6. QED
      BY <1>4, <2>2, <3>4, <3>5, WatchType DEF TypeOK, VisitChannel
  <2>3. QED
    BY <1>4, <2>1, <2>2 DEF VisitChannel
<1>5. ASSUME NEW r \in Request, PassOver(r) PROVE TypeOK'
  BY <1>5, WatchType DEF TypeOK, PassOver
<1>6. ASSUME NEW r \in Request, EndPass(r) PROVE TypeOK'
  <2>1. CASE NewPass(r) /\ UNCHANGED <<round, attempted>>
    BY <1>6, <2>1, NewPassType, WatchType DEF TypeOK, EndPass
  <2>2. CASE pc' = [pc EXCEPT ![r] = "wait"] /\ UNCHANGED <<round, attempted, pos, passAttempted, wait>>
    BY <1>6, <2>2, WatchType DEF TypeOK, EndPass, Pcs
  <2>3. CASE NextRound(r) /\ UNCHANGED <<pos, passAttempted, wait>>
    BY <1>6, <2>3, NextRoundType, WatchType DEF TypeOK, EndPass
  <2>4. QED
    BY <1>6, <2>1, <2>2, <2>3 DEF EndPass
<1>7. ASSUME NEW r \in Request, WaitOver(r) PROVE TypeOK'
  <2>1. CASE NewPass(r) /\ UNCHANGED <<round, attempted, lastErr>>
    BY <1>7, <2>1, NewPassType, WatchType DEF TypeOK, WaitOver
  <2>2. CASE /\ lastErr' = [lastErr EXCEPT ![r] = ErrorOf("deadline")]
             /\ NextRound(r) /\ UNCHANGED <<pos, passAttempted, wait>>
    <3>1. lastErr' \in [Request -> Errors]
      BY <2>2, ErrorType DEF TypeOK, Outcomes, Handled
    <3>2. QED
      BY <1>7, <2>2, <3>1, NextRoundType, WatchType DEF TypeOK, WaitOver
  <2>3. QED
    BY <1>7, <2>1, <2>2 DEF WaitOver
<1>8. ASSUME NEW r \in Request, Finish(r) PROVE TypeOK'
  <2>1. (IF ctx[r] = "alive" THEN lastErr[r] ELSE ErrorOf(ctx[r])) \in Errors
    BY ErrorType DEF TypeOK, Outcomes, Handled
  <2>2. replies' \in [Request -> Replies]
    BY <1>8, <2>1, FinalStatusType, ReplyType DEF Finish, Codes
  <2>3. QED
    BY <1>8, <2>2, WatchType DEF TypeOK, Finish, Pcs
<1>9. ASSUME NEW r \in Request, NEW o \in Classes, Answer(r, o) PROVE TypeOK'
  <2>1. o \in Outcomes /\ current[r] \in Route
    BY <1>9, TraversalAssumption DEF Answer, AttemptInv, Attempting, Outcomes
  <2>2. available' \subseteq Route
    BY <1>9, <2>1 DEF TypeOK, Answer, KeyAfter
  <2>3. replies' \in [Request -> Replies]
    <3>1. CASE UNCHANGED replies
      BY <3>1 DEF TypeOK
    <3>2. CASE Reply(r, "ok", 200)
      BY <3>2, ReplyType DEF Codes
    <3>3. CASE \E status \in LocalStatuses : Reply(r, "local", status)
      <4>1. PICK status \in LocalStatuses : Reply(r, "local", status)
        BY <3>3
      <4>2. status \in Nat
        BY DEF LocalStatuses
      <4>3. QED
        BY <4>1, <4>2, ReplyType DEF Codes
    <3>4. QED
      BY <1>9, <3>1, <3>2, <3>3 DEF Answer
  <2>4. /\ limited' \in [Request -> Timers]
        /\ dropped' \in [Request -> SUBSET Route]
        /\ outages' \in [Channel -> Nat]
    BY <1>9, <2>1, HearType DEF Answer
  <2>5. outcome' \in [Request -> Outcomes] /\ pc' \in [Request -> Pcs]
    BY <1>9, <2>1 DEF TypeOK, Answer, Pcs
  <2>6. QED
    BY <1>9, <2>2, <2>3, <2>4, <2>5, WatchType DEF TypeOK, Answer
<1>10. ASSUME NEW r \in Request, Interrupt(r) PROVE TypeOK'
  <2>1. outcome' \in [Request -> Outcomes]
    BY <1>10, ContextErrorType DEF TypeOK, Interrupt, Outcomes
  <2>2. QED
    BY <1>10, <2>1, WatchType DEF TypeOK, Interrupt, Pcs
<1>11. ASSUME NEW r \in Request, SettleSuccess(r) PROVE TypeOK'
  <2>1. current[r] \in Route /\ Owner[current[r]] \in Channel
    BY <1>11, TraversalAssumption DEF SettleSuccess, AttemptInv, Attempting, Channel
  <2>2. health' \in [Channel -> Healths]
    BY <1>11, <2>1, HealthType DEF TypeOK, SettleSuccess
  <2>3. outages' \in [Channel -> Nat]
    BY <1>11, <2>1, UnreportedType DEF TypeOK, SettleSuccess
  <2>4. QED
    BY <1>11, <2>1, <2>2, <2>3, WatchType DEF TypeOK, SettleSuccess, Pcs
<1>12. ASSUME NEW r \in Request, SettleFailure(r) PROVE TypeOK'
  <2>1. current[r] \in Route /\ Owner[current[r]] \in Channel /\ outcome[r] # "none"
    BY <1>12, TraversalAssumption DEF SettleFailure, AttemptInv, Attempting, Channel
  <2>2. health' \in [Channel -> Healths]
    BY <1>12, <2>1, HealthType DEF TypeOK, SettleFailure
  <2>3. lastErr' \in [Request -> Errors]
    BY <1>12, <2>1, ErrorType DEF TypeOK, SettleFailure
  <2>4. cooldown' \in [Request -> Timers]
    <3>1. ASSUME NEW n \in Nat PROVE [cooldown[r] EXCEPT ![current[r]] = n] \in Timers
      BY DEF TypeOK, Timers
    <3>2. limited[r][current[r]] \in Nat /\ cooldown[r][current[r]] \in Nat
      BY <2>1 DEF TypeOK, Timers
    <3>3. QED
      BY <1>12, <3>1, <3>2 DEF TypeOK, SettleFailure
  <2>5. QED
    BY <1>12, <2>2, <2>3, <2>4, WatchType DEF TypeOK, SettleFailure, Pcs
<1>13. ASSUME NEW r \in Request, SettleEnded(r) PROVE TypeOK'
  <2>1. lastErr' \in [Request -> Errors]
    <3>1. PICK e \in ContextErrors(r) : lastErr' = [lastErr EXCEPT ![r] = ErrorOf(e)]
      BY <1>13 DEF SettleEnded
    <3>2. ErrorOf(e) \in Errors
      BY ContextErrorType DEF TypeOK
    <3>3. QED
      BY <3>1, <3>2 DEF TypeOK
  <2>2. dropped' \in [Request -> SUBSET Route]
    <3>1. current[r] \in Route
      BY <1>13 DEF SettleEnded, AttemptInv, Attempting
    <3>2. QED
      BY <1>13, <3>1 DEF TypeOK, SettleEnded
  <2>3. QED
    BY <1>13, <2>1, <2>2, WatchType DEF TypeOK, SettleEnded, Pcs
<1>14. ASSUME NEW r \in Request, SettleHandled(r) PROVE TypeOK'
  BY <1>14, WatchType DEF TypeOK, SettleHandled, Pcs
<1>15. ASSUME NEW r \in Request, Forget(r) PROVE TypeOK'
  <2>1. CASE Resume(r)
    BY <1>15, <2>1, ResumeType, WatchType DEF TypeOK, Forget
  <2>2. CASE pc' = [pc EXCEPT ![r] = "delete"] /\ UNCHANGED <<pos, current, outcome>>
    BY <1>15, <2>2, WatchType DEF TypeOK, Forget, Pcs
  <2>3. QED
    BY <1>15, <2>1, <2>2 DEF Forget
<1>16. ASSUME NEW r \in Request, Delete(r) PROVE TypeOK'
  BY <1>16, ResumeType, WatchType DEF TypeOK, Delete
<1>17. ASSUME NEW r \in Request, ContextEnds(r) PROVE TypeOK'
  BY <1>17, WatchType DEF TypeOK, ContextEnds
<1>18. ASSUME NEW p \in Route, KeyChanges(p) PROVE TypeOK'
  BY <1>18, WatchType DEF TypeOK, KeyChanges
<1>19. ASSUME Tick PROVE TypeOK'
  <2>1. health' \in [Channel -> Healths]
    BY <1>19, HealthType DEF TypeOK, Tick
  <2>2. cooldown' \in [Request -> Timers] /\ limited' \in [Request -> Timers]
    <3>1. ASSUME NEW f \in [Request -> Timers]
          PROVE  [q \in Request |-> [p \in Route |-> Down(f[q][p])]] \in [Request -> Timers]
      <4>1. \A q \in Request, p \in Route : f[q][p] \in Nat /\ Down(f[q][p]) \in Nat
        BY DEF Timers, Down
      <4>2. QED
        BY <4>1 DEF Timers
    <3>2. QED
      BY <1>19, <3>1 DEF TypeOK, Tick
  <2>3. wait' \in [Request -> Nat \cup {NoWait}]
    BY <1>19 DEF TypeOK, Tick, Down, NoWait
  <2>4. QED
    BY <1>19, <2>1, <2>2, <2>3, WatchType DEF TypeOK, Tick
<1>20. CASE UNCHANGED vars
  BY <1>20 DEF TypeOK, vars
<1>21. QED
  BY <1>1, <1>2, <1>3, <1>4, <1>5, <1>6, <1>7, <1>8, <1>9, <1>10, <1>11, <1>12, <1>13, <1>14,
     <1>15, <1>16, <1>17, <1>18, <1>19, <1>20 DEF Next, RequestStep

-----------------------------------------------------------------------------
(* What a step does to one request. *)

\* The request's own state is as it was.
Kept(q) ==
    /\ pc'[q] = pc[q] /\ ctx'[q] = ctx[q]
    /\ eligible'[q] = eligible[q] /\ preferred'[q] = preferred[q]
    /\ round'[q] = round[q] /\ pos'[q] = pos[q]
    /\ passAttempted'[q] = passAttempted[q] /\ wait'[q] = wait[q]
    /\ attempted'[q] = attempted[q] /\ cooldown'[q] = cooldown[q]
    /\ current'[q] = current[q] /\ outcome'[q] = outcome[q] /\ lastErr'[q] = lastErr[q]
    /\ replies'[q] = replies[q] /\ limited'[q] = limited[q] /\ tries'[q] = tries[q]
    /\ dropped'[q] = dropped[q]

Own(r) == Receive(r) \/ RequestStep(r) \/ ContextEnds(r)

\* A request's step leaves the state of the others alone.
LEMMA OthersKept ==
    ASSUME TypeOK, NEW r \in Request, Own(r), NEW q \in Request, q # r
    PROVE  Kept(q)
<1> USE DEF shared, snapshot, loop, GoTo, Kept, TypeOK
<1>1. CASE Receive(r)
  BY <1>1 DEF Receive, Reply
<1>2. CASE SelectPreferred(r)
  BY <1>2 DEF SelectPreferred, Begin
<1>3. CASE StartRound(r)
  BY <1>3 DEF StartRound, NewPass
<1>4. CASE VisitChannel(r)
  BY <1>4 DEF VisitChannel, Begin
<1>5. CASE PassOver(r)
  BY <1>5 DEF PassOver
<1>6. CASE EndPass(r)
  BY <1>6 DEF EndPass, NewPass, NextRound
<1>7. CASE WaitOver(r)
  BY <1>7 DEF WaitOver, NewPass, NextRound
<1>8. CASE Finish(r)
  BY <1>8 DEF Finish, Reply
<1>9. CASE \E o \in Classes : Answer(r, o)
  <2>1. PICK o \in Classes : Answer(r, o)
    BY <1>9
  <2>2. replies'[q] = replies[q]
    BY <2>1 DEF Answer, Reply
  <2>3. limited'[q] = limited[q] /\ dropped'[q] = dropped[q]
    BY <2>1 DEF Answer, Hear
  <2>4. QED
    BY <2>1, <2>2, <2>3 DEF Answer
<1>10. CASE Interrupt(r)
  BY <1>10 DEF Interrupt
<1>11. CASE SettleSuccess(r)
  BY <1>11 DEF SettleSuccess
<1>12. CASE SettleFailure(r)
  BY <1>12 DEF SettleFailure
<1>13. CASE SettleEnded(r)
  BY <1>13 DEF SettleEnded
<1>14. CASE SettleHandled(r)
  BY <1>14 DEF SettleHandled
<1>15. CASE Forget(r)
  BY <1>15 DEF Forget, Resume
<1>16. CASE Delete(r)
  BY <1>16 DEF Delete, Resume
<1>17. CASE ContextEnds(r)
  BY <1>17 DEF ContextEnds
<1>18. QED
  BY <1>1, <1>2, <1>3, <1>4, <1>5, <1>6, <1>7, <1>8, <1>9, <1>10, <1>11, <1>12, <1>13, <1>14,
     <1>15, <1>16, <1>17 DEF Own, RequestStep

LEMMA KeyChangesKept ==
    ASSUME NEW p \in Route, KeyChanges(p), NEW q \in Request
    PROVE  Kept(q)
  BY DEF KeyChanges, Kept, snapshot, loop

\* The marks and the counts of a request, and where it goes.
LEMMA BeginEffect ==
    ASSUME TypeOK, NEW r \in Request, NEW p \in Route, Begin(r, p)
    PROVE  /\ attempted'[r] = attempted[r] \cup {p} /\ current'[r] = p
           /\ \/ ctx[r] # "alive" /\ pc'[r] = "done" /\ tries'[r] = tries[r]
              \/ ctx[r] = "alive" /\ pc'[r] = "attempt" /\ tries'[r] = [tries[r] EXCEPT ![p] = @ + 1]
  BY DEF TypeOK, Begin, GoTo

LEMMA NewPassEffect ==
    ASSUME TypeOK, NEW r \in Request, NewPass(r)
    PROVE  pos'[r] = 1 /\ passAttempted'[r] = FALSE /\ wait'[r] = NoWait /\ pc'[r] = "pass"
  BY DEF TypeOK, NewPass, GoTo

LEMMA NextRoundEffect ==
    ASSUME TypeOK, NEW r \in Request, NextRound(r)
    PROVE  /\ round'[r] = round[r] + 1 /\ pc'[r] = "round"
           /\ attempted'[r] = IF round[r] < MaxRounds(r) THEN {} ELSE attempted[r]
  BY DEF TypeOK, NextRound, GoTo

LEMMA ResumeEffect ==
    ASSUME TypeOK, NEW r \in Request, Resume(r)
    PROVE  /\ current'[r] = None /\ outcome'[r] = "none"
           /\ \/ outcome[r] \in Handled /\ pc'[r] = "done" /\ pos'[r] = pos[r]
              \/ outcome[r] \notin Handled /\ pos[r] = 0 /\ pc'[r] = "round" /\ pos'[r] = pos[r]
              \/ outcome[r] \notin Handled /\ pos[r] # 0 /\ pc'[r] = "pass" /\ pos'[r] = pos[r] + 1
  BY DEF TypeOK, Resume, GoTo

LEMMA ReplyEffect ==
    ASSUME TypeOK, NEW r \in Request, NEW code, NEW status, Reply(r, code, status)
    PROVE  replies'[r] = Append(replies[r], [code |-> code, status |-> status])
  BY DEF TypeOK, Reply

-----------------------------------------------------------------------------
(* Attempts and answers. *)

LEMMA AttemptStep ==
    ASSUME TypeOK, NEW r \in Request, AttemptInv(r), Own(r)
    PROVE  AttemptInv(r)'
<1> USE DEF shared, snapshot, loop, GoTo, Attempting
<1>1. CASE Receive(r)
  BY <1>1 DEF TypeOK, AttemptInv, Receive
<1>2. CASE SelectPreferred(r)
  <2>1. preferred[r] \in Route \cup {None}
    BY DEF TypeOK
  <2>2. CASE preferred[r] # None /\ Begin(r, preferred[r])
    BY <1>2, <2>1, <2>2, BeginEffect DEF AttemptInv, SelectPreferred
  <2>3. CASE ~(preferred[r] # None /\ Begin(r, preferred[r]))
    BY <1>2, <2>1, <2>3 DEF TypeOK, AttemptInv, SelectPreferred
  <2>4. QED
    BY <2>2, <2>3
<1>3. CASE StartRound(r)
  <2>1. CASE NewPass(r)
    <3>1. pc'[r] = "pass" /\ pos'[r] = 1
      BY <2>1, NewPassEffect
    <3>2. outcome[r] = "none" /\ outcome' = outcome
      BY <1>3 DEF AttemptInv, StartRound
    <3>3. QED
      BY <3>1, <3>2 DEF AttemptInv
  <2>2. CASE ~NewPass(r)
    BY <1>3, <2>2 DEF TypeOK, AttemptInv, StartRound
  <2>3. QED
    BY <2>1, <2>2
<1>4. CASE VisitChannel(r)
  <2> DEFINE c == eligible[r][pos[r]]
  <2>1. CASE \E p \in Selectable(r, c) : Begin(r, p) /\ UNCHANGED pos
    <3>1. PICK p \in Route : Begin(r, p)
      BY <2>1 DEF Selectable, Untried
    <3>2. QED
      BY <1>4, <2>1, <3>1, BeginEffect DEF AttemptInv, VisitChannel
  <2>2. CASE pos' = [pos EXCEPT ![r] = @ + 1] /\ UNCHANGED <<pc, current>>
    BY <1>4, <2>2 DEF TypeOK, AttemptInv, VisitChannel
  <2>3. QED
    BY <1>4, <2>1, <2>2 DEF VisitChannel
<1>5. CASE PassOver(r)
  BY <1>5 DEF TypeOK, AttemptInv, PassOver
<1>6. CASE EndPass(r)
  <2>1. CASE NewPass(r)
    <3>1. pc'[r] = "pass" /\ pos'[r] = 1
      BY <2>1, NewPassEffect
    <3>2. outcome[r] = "none" /\ outcome' = outcome
      BY <1>6 DEF AttemptInv, EndPass
    <3>3. QED
      BY <3>1, <3>2 DEF AttemptInv
  <2>2. CASE pc' = [pc EXCEPT ![r] = "wait"] /\ UNCHANGED <<round, attempted, pos, passAttempted, wait>>
    <3>1. pc'[r] = "wait"
      BY <2>2 DEF TypeOK
    <3>2. QED
      BY <1>6, <2>2, <3>1 DEF TypeOK, AttemptInv, EndPass
  <2>3. CASE NextRound(r)
    BY <1>6, <2>3, NextRoundEffect DEF AttemptInv, EndPass
  <2>4. QED
    BY <1>6, <2>1, <2>2, <2>3 DEF EndPass
<1>7. CASE WaitOver(r)
  <2>1. CASE NewPass(r)
    <3>1. pc'[r] = "pass" /\ pos'[r] = 1
      BY <2>1, NewPassEffect
    <3>2. outcome[r] = "none" /\ outcome' = outcome
      BY <1>7 DEF AttemptInv, WaitOver
    <3>3. QED
      BY <3>1, <3>2 DEF AttemptInv
  <2>2. CASE NextRound(r)
    BY <1>7, <2>2, NextRoundEffect DEF AttemptInv, WaitOver
  <2>3. QED
    BY <1>7, <2>1, <2>2 DEF WaitOver
<1>8. CASE Finish(r)
  BY <1>8 DEF TypeOK, AttemptInv, Finish
<1>9. CASE \E o \in Classes : Answer(r, o)
  <2>1. PICK o \in Classes : Answer(r, o)
    BY <1>9
  <2>2. o # "none"
    BY TraversalAssumption DEF AttemptClasses
  <2>3. pc'[r] = "settle" /\ outcome'[r] = o /\ current' = current
    BY <2>1 DEF TypeOK, Answer
  <2>4. QED
    BY <2>1, <2>2, <2>3 DEF AttemptInv, Answer
<1>10. CASE Interrupt(r)
  <2>1. PICK e \in ContextErrors(r) : outcome' = [outcome EXCEPT ![r] = e]
    BY <1>10 DEF Interrupt
  <2>2. e # "none"
    BY ContextErrorType DEF TypeOK
  <2>3. pc'[r] = "settle" /\ outcome'[r] = e /\ current' = current
    BY <1>10, <2>1 DEF TypeOK, Interrupt
  <2>4. QED
    BY <1>10, <2>2, <2>3 DEF AttemptInv, Interrupt
<1>11. CASE SettleSuccess(r)
  BY <1>11 DEF TypeOK, AttemptInv, SettleSuccess
<1>12. CASE SettleFailure(r)
  BY <1>12 DEF TypeOK, AttemptInv, SettleFailure, Handled
<1>13. CASE SettleEnded(r)
  BY <1>13 DEF TypeOK, AttemptInv, SettleEnded, Handled, AttemptClasses
<1>14. CASE SettleHandled(r)
  <2>1. outcome[r] # "success"
    BY <1>14 DEF SettleHandled, Handled
  <2>2. pc'[r] = "forget"
    BY <1>14 DEF TypeOK, SettleHandled
  <2>3. QED
    BY <1>14, <2>1, <2>2 DEF AttemptInv, SettleHandled
<1>15. CASE Forget(r)
  <2>1. CASE Resume(r)
    <3>1. pos[r] \in Nat /\ pc[r] = "forget" /\ eligible' = eligible
      BY <1>15 DEF TypeOK, Forget
    <3>2. QED
      BY <2>1, <3>1, ResumeEffect DEF AttemptInv
  <2>2. CASE pc' = [pc EXCEPT ![r] = "delete"] /\ UNCHANGED <<pos, current, outcome>>
    BY <1>15, <2>2 DEF TypeOK, AttemptInv, Forget
  <2>3. QED
    BY <1>15, <2>1, <2>2 DEF Forget
<1>16. CASE Delete(r)
  <2>1. pos[r] \in Nat /\ pc[r] = "delete" /\ Resume(r)
    BY <1>16 DEF TypeOK, Delete
  <2>2. QED
    BY <2>1, ResumeEffect DEF AttemptInv
<1>17. CASE ContextEnds(r)
  BY <1>17 DEF TypeOK, AttemptInv, ContextEnds
<1>18. QED
  BY <1>1, <1>2, <1>3, <1>4, <1>5, <1>6, <1>7, <1>8, <1>9, <1>10, <1>11, <1>12, <1>13, <1>14,
     <1>15, <1>16, <1>17 DEF Own, RequestStep

LEMMA AttemptKept ==
    ASSUME NEW r \in Request, AttemptInv(r), Kept(r)
    PROVE  AttemptInv(r)'
  BY DEF AttemptInv, Kept

LEMMA AttemptTick ==
    ASSUME TypeOK, NEW r \in Request, AttemptInv(r), Tick
    PROVE  AttemptInv(r)'
<1>1. \A p \in Route : /\ cooldown[r][p] = 0 => cooldown'[r][p] = 0
                       /\ limited[r][p] = 0 => limited'[r][p] = 0
  BY DEF Tick, Down
<1>2. UNCHANGED <<pc, pos, round, attempted, tries, current, outcome, eligible>>
  BY DEF Tick, snapshot
<1>3. QED
  BY <1>1, <1>2 DEF AttemptInv

\* A first answer that is no fault of a key.
Faultless(q) ==
    \A i \in DOMAIN replies[q] :
        replies[q][i].code = "all_routes_failed" => replies[q][i].status \notin KeyFaults

LEMMA FirstReply ==
    ASSUME TypeOK, NEW r \in Request, NEW code, NEW status, Reply(r, code, status),
           code = "all_routes_failed" => status \notin KeyFaults, replies[r] = <<>>
    PROVE  replies'[r] # <<>> /\ Len(replies'[r]) <= 1 /\ Faultless(r)'
<1> DEFINE reply == [code |-> code, status |-> status]
<1>1. reply.code = code /\ reply.status = status
  OBVIOUS
<1>2. replies'[r] = Append(<<>>, reply)
  BY ReplyEffect
<1> HIDE DEF reply
<1>3. replies'[r] = <<reply>>
  BY <1>2
<1>4. DOMAIN replies'[r] = {1} /\ replies'[r][1] = reply /\ Len(replies'[r]) = 1
  BY <1>3
<1>5. QED
  BY <1>1, <1>4 DEF Faultless

LEMMA RepliesStep ==
    ASSUME TypeOK, NEW r \in Request, AttemptInv(r), RepliesInv(r), Own(r)
    PROVE  RepliesInv(r)'
<1> USE DEF shared, snapshot, loop, GoTo, AnsweredBy, Faultless
<1>1. CASE Receive(r)
  <2>1. pc[r] = "idle" /\ replies[r] = <<>>
    BY <1>1 DEF Receive, RepliesInv
  <2>2. CASE pc' = [pc EXCEPT ![r] = "done"] /\ Reply(r, "no_healthy_channel", 503)
    <3>1. pc'[r] = "done"
      BY <2>2 DEF TypeOK
    <3>2. QED
      BY <2>1, <2>2, <3>1, FirstReply DEF RepliesInv
  <2>3. CASE pc' = [pc EXCEPT ![r] = "preferred"] /\ UNCHANGED replies
    <3>1. pc'[r] = "preferred" /\ replies'[r] = <<>>
      BY <2>1, <2>3 DEF TypeOK
    <3>2. QED
      BY <2>1, <2>3, <3>1 DEF RepliesInv
  <2>4. QED
    BY <1>1, <2>2, <2>3 DEF Receive
<1>2. CASE SelectPreferred(r)
  <2>1. preferred[r] \in Route \cup {None} /\ pc[r] = "preferred" /\ outcome[r] = "none"
    BY <1>2 DEF TypeOK, SelectPreferred, AttemptInv
  <2>2. replies' = replies /\ ctx' = ctx /\ outcome' = outcome
    BY <1>2 DEF SelectPreferred
  <2>3. CASE preferred[r] # None /\ Begin(r, preferred[r])
    <3>1. (ctx[r] # "alive" /\ pc'[r] = "done") \/ pc'[r] = "attempt"
      BY <2>1, <2>3, BeginEffect
    <3>2. QED
      BY <2>1, <2>2, <3>1 DEF RepliesInv
  <2>4. CASE ~(preferred[r] # None /\ Begin(r, preferred[r]))
    <3>1. pc'[r] \in {"round", "forget"}
      BY <1>2, <2>1, <2>4 DEF TypeOK, SelectPreferred
    <3>2. QED
      BY <2>1, <2>2, <3>1 DEF RepliesInv, Handled
  <2>5. QED
    BY <2>3, <2>4
<1>3. CASE StartRound(r)
  <2>1. pc[r] = "round" /\ replies' = replies
    BY <1>3 DEF StartRound
  <2>2. pc'[r] \in {"pass", "finish"}
    BY <1>3, NewPassEffect DEF TypeOK, StartRound
  <2>3. QED
    BY <2>1, <2>2 DEF RepliesInv
<1>4. CASE VisitChannel(r)
  <2>1. pc[r] = "pass" /\ replies' = replies /\ ctx' = ctx
    BY <1>4 DEF VisitChannel
  <2>2. CASE \E p \in Selectable(r, eligible[r][pos[r]]) : Begin(r, p)
    <3>1. PICK p \in Route : Begin(r, p)
      BY <2>2 DEF Selectable, Untried
    <3>2. (ctx[r] # "alive" /\ pc'[r] = "done") \/ pc'[r] = "attempt"
      BY <3>1, BeginEffect
    <3>3. QED
      BY <2>1, <3>2 DEF RepliesInv
  <2>3. CASE UNCHANGED pc
    BY <2>1, <2>3 DEF RepliesInv
  <2>4. QED
    BY <1>4, <2>2, <2>3 DEF VisitChannel
<1>5. CASE PassOver(r)
  BY <1>5 DEF RepliesInv, PassOver
<1>6. CASE EndPass(r)
  <2>1. pc[r] = "pass" /\ replies' = replies
    BY <1>6 DEF EndPass
  <2>2. pc'[r] \in {"pass", "wait", "round"}
    BY <1>6, NewPassEffect, NextRoundEffect DEF TypeOK, EndPass
  <2>3. QED
    BY <2>1, <2>2 DEF RepliesInv
<1>7. CASE WaitOver(r)
  <2>1. pc[r] = "wait" /\ replies' = replies
    BY <1>7 DEF WaitOver
  <2>2. pc'[r] \in {"pass", "round"}
    BY <1>7, NewPassEffect, NextRoundEffect DEF WaitOver
  <2>3. QED
    BY <2>1, <2>2 DEF RepliesInv
<1>8. CASE Finish(r)
  <2> DEFINE err == IF ctx[r] = "alive" THEN lastErr[r] ELSE ErrorOf(ctx[r])
  <2>1. err \in Errors
    BY ErrorType DEF TypeOK, Outcomes, Handled
  <2>2. pc[r] = "finish" /\ pc'[r] = "done" /\ Reply(r, "all_routes_failed", FinalStatus(err))
    BY <1>8 DEF TypeOK, Finish
  <2>3. replies[r] = <<>>
    BY <2>2 DEF RepliesInv
  <2> HIDE DEF err
  <2>4. FinalStatus(err) \notin KeyFaults
    BY <2>1, FinalStatusType DEF KeyFaults
  <2>5. QED
    BY <2>2, <2>3, <2>4, FirstReply DEF RepliesInv
<1>9. CASE \E o \in Classes : Answer(r, o)
  <2>1. PICK o \in Classes : Answer(r, o)
    BY <1>9
  <2>2. pc'[r] = "settle" /\ outcome'[r] = o /\ replies[r] = <<>>
    BY <2>1 DEF TypeOK, RepliesInv, Answer
  <2>3. CASE o \in AnsweredBy
    <3>1. PICK code \in {"ok", "local"}, status \in Nat : Reply(r, code, status)
      BY <2>1, <2>3 DEF Answer, Handled, LocalStatuses
    <3>2. replies'[r] # <<>> /\ Len(replies'[r]) <= 1 /\ Faultless(r)'
      BY <2>2, <3>1, FirstReply
    <3>3. QED
      BY <2>2, <2>3, <3>2 DEF RepliesInv
  <2>4. CASE o \notin AnsweredBy /\ UNCHANGED replies
    BY <2>2, <2>4 DEF RepliesInv
  <2>5. QED
    BY <2>1, <2>3, <2>4 DEF Answer, Handled
<1>10. CASE Interrupt(r)
  <2>1. PICK e \in ContextErrors(r) : outcome' = [outcome EXCEPT ![r] = e]
    BY <1>10 DEF Interrupt
  <2>2. e \notin AnsweredBy
    BY ContextErrorType DEF TypeOK, Handled
  <2>3. pc'[r] = "settle" /\ outcome'[r] = e /\ replies' = replies /\ replies[r] = <<>>
    BY <1>10, <2>1 DEF TypeOK, Interrupt, RepliesInv
  <2>4. QED
    BY <2>2, <2>3 DEF RepliesInv
<1>11. CASE SettleSuccess(r)
  <2>1. pc[r] = "settle" /\ pc'[r] = "done" /\ replies' = replies /\ outcome[r] = "success"
    BY <1>11 DEF TypeOK, SettleSuccess
  <2>2. QED
    BY <2>1 DEF RepliesInv
<1>12. CASE SettleFailure(r) \/ SettleEnded(r) \/ SettleHandled(r)
  <2>1. pc[r] = "settle" /\ pc'[r] = "forget" /\ replies' = replies /\ outcome' = outcome
    BY <1>12 DEF TypeOK, SettleFailure, SettleEnded, SettleHandled
  <2>2. QED
    BY <2>1 DEF RepliesInv
<1>13. CASE Forget(r) \/ Delete(r)
  <2>1. /\ pc[r] \in {"forget", "delete"} /\ replies' = replies /\ outcome[r] # "success"
        /\ outcome[r] \in AnsweredBy <=> replies[r] # <<>>
    BY <1>13 DEF Forget, Delete, RepliesInv, AttemptInv
  <2>2. CASE Resume(r)
    <3>1. \/ pc'[r] = "done" /\ replies[r] # <<>>
          \/ pc'[r] \in {"round", "pass"} /\ replies[r] = <<>>
      BY <2>1, <2>2, ResumeEffect
    <3>2. QED
      BY <2>1, <3>1 DEF RepliesInv
  <2>3. CASE pc'[r] = "delete" /\ outcome' = outcome
    BY <2>1, <2>3 DEF RepliesInv
  <2>4. QED
    BY <1>13, <2>2, <2>3 DEF TypeOK, Forget, Delete
<1>14. CASE ContextEnds(r)
  BY <1>14 DEF TypeOK, RepliesInv, ContextEnds
<1>15. QED
  BY <1>1, <1>2, <1>3, <1>4, <1>5, <1>6, <1>7, <1>8, <1>9, <1>10, <1>11, <1>12, <1>13, <1>14
     DEF Own, RequestStep

LEMMA RepliesKept ==
    ASSUME NEW r \in Request, RepliesInv(r), Kept(r)
    PROVE  RepliesInv(r)'
  BY DEF RepliesInv, Kept

LEMMA RepliesTick ==
    ASSUME NEW r \in Request, RepliesInv(r), Tick
    PROVE  RepliesInv(r)'
  BY DEF RepliesInv, Tick

-----------------------------------------------------------------------------
(* How often a route is tried. *)

SameMarks(r) ==
    attempted'[r] = attempted[r] /\ tries'[r] = tries[r] /\ round'[r] = round[r]

LEMMA TriesSame ==
    ASSUME NEW r \in Request, TriesInv(r), SameMarks(r)
    PROVE  TriesInv(r)'
  BY DEF TriesInv, SameMarks

\* An attempt of a route that is not marked, in a round its channel has.
LEMMA TriesBegin ==
    ASSUME TypeOK, NEW r \in Request, NEW p \in Route, TriesInv(r), Begin(r, p),
           round' = round, round[r] <= RoundsOf(Owner[p]), p \notin attempted[r]
    PROVE  TriesInv(r)'
<1>1. \A q \in Route : tries[r][q] \in Nat /\ round[r] \in Nat /\ RoundsOf(Owner[q]) \in Nat
  BY RoundsOfType, TraversalAssumption DEF TypeOK, Timers, Channel
<1>2. attempted'[r] = attempted[r] \cup {p}
  BY BeginEffect
<1>3. CASE tries'[r] = tries[r]
  BY <1>1, <1>2, <1>3 DEF TriesInv
<1>4. CASE tries'[r] = [tries[r] EXCEPT ![p] = @ + 1]
  <2>1. tries'[r][p] = tries[r][p] + 1 /\ \A q \in Route \ {p} : tries'[r][q] = tries[r][q]
    BY <1>4 DEF TypeOK, Timers
  <2>2. QED
    BY <1>1, <1>2, <2>1 DEF TriesInv
<1>5. QED
  BY <1>3, <1>4, BeginEffect

LEMMA TriesNextRound ==
    ASSUME TypeOK, NEW r \in Request, TriesInv(r), NextRound(r), tries' = tries
    PROVE  TriesInv(r)'
<1>1. \A q \in Route : tries[r][q] \in Nat /\ round[r] \in Nat
  BY DEF TypeOK, Timers
<1>2. round'[r] = round[r] + 1
  BY NextRoundEffect
<1>3. QED
  BY <1>1, <1>2 DEF TriesInv

LEMMA TriesStep ==
    ASSUME TypeOK, NEW r \in Request, AttemptInv(r), TriesInv(r), Own(r)
    PROVE  TriesInv(r)'
<1> USE DEF shared, snapshot, loop, SameMarks
<1>1. CASE SelectPreferred(r)
  <2>1. preferred[r] \in Route \cup {None}
    BY DEF TypeOK
  <2>2. CASE preferred[r] # None /\ Begin(r, preferred[r])
    <3>1. preferred[r] \in Route
      BY <2>1, <2>2
    <3>2. round[r] = 1 /\ round' = round /\ attempted[r] = {}
      BY <1>1 DEF SelectPreferred, AttemptInv
    <3>3. RoundsOf(Owner[preferred[r]]) \in Nat \ {0}
      BY <3>1, RoundsOfType, TraversalAssumption DEF Channel
    <3>4. QED
      BY <2>2, <3>1, <3>2, <3>3, TriesBegin
  <2>3. CASE ~(preferred[r] # None /\ Begin(r, preferred[r]))
    BY <1>1, <2>1, <2>3, TriesSame DEF SelectPreferred
  <2>4. QED
    BY <2>2, <2>3
<1>2. CASE VisitChannel(r)
  <2>1. CASE \E p \in Selectable(r, eligible[r][pos[r]]) : Begin(r, p)
    <3>1. PICK p \in Route : Begin(r, p) /\ Owner[p] = eligible[r][pos[r]] /\ p \notin attempted[r]
      BY <2>1 DEF Selectable, Untried
    <3>2. round' = round /\ round[r] <= RoundsOf(Owner[p])
      BY <1>2, <3>1 DEF VisitChannel
    <3>3. QED
      BY <3>1, <3>2, TriesBegin
  <2>2. CASE UNCHANGED <<attempted, tries>>
    BY <1>2, <2>2, TriesSame DEF VisitChannel
  <2>3. QED
    BY <1>2, <2>1, <2>2 DEF VisitChannel
<1>3. CASE EndPass(r) \/ WaitOver(r)
  <2>1. CASE NextRound(r)
    BY <1>3, <2>1, TriesNextRound DEF EndPass, WaitOver
  <2>2. CASE UNCHANGED <<round, attempted>>
    BY <1>3, <2>2, TriesSame DEF EndPass, WaitOver
  <2>3. QED
    BY <1>3, <2>1, <2>2 DEF EndPass, WaitOver
<1>4. CASE Receive(r) \/ StartRound(r) \/ PassOver(r) \/ Finish(r) \/ ContextEnds(r)
  BY <1>4, TriesSame DEF Receive, StartRound, PassOver, Finish, ContextEnds
<1>5. CASE (\E o \in Classes : Answer(r, o)) \/ Interrupt(r) \/ SettleSuccess(r)
  BY <1>5, TriesSame DEF Answer, Interrupt, SettleSuccess
<1>6. CASE SettleFailure(r) \/ SettleEnded(r) \/ SettleHandled(r)
  BY <1>6, TriesSame DEF SettleFailure, SettleEnded, SettleHandled
<1>7. CASE Forget(r) \/ Delete(r)
  BY <1>7, TriesSame DEF Forget, Delete
<1>8. QED
  BY <1>1, <1>2, <1>3, <1>4, <1>5, <1>6, <1>7 DEF Own, RequestStep

LEMMA TriesKept ==
    ASSUME NEW r \in Request, TriesInv(r), Kept(r)
    PROVE  TriesInv(r)'
  BY TriesSame DEF Kept, SameMarks

LEMMA TriesTick ==
    ASSUME NEW r \in Request, TriesInv(r), Tick
    PROVE  TriesInv(r)'
  BY TriesSame DEF Tick, SameMarks

-----------------------------------------------------------------------------
(* What a request owes the routes that stay available. *)

LEMMA WatchEffect ==
    ASSUME NEW r \in Request, Watch
    PROVE  /\ steady'[r] \subseteq available'
           /\ pc[r] = "idle" => steady'[r] \subseteq Route
           /\ pc[r] # "idle" => steady'[r] \subseteq steady[r]
  BY DEF Watch

\* Every step is watched, except that nothing changes in a stutter.
LEMMA StepWatched == Next => Watch
<1> SUFFICES ASSUME Next PROVE Watch
  OBVIOUS
<1>1. ASSUME NEW r \in Request, Own(r) PROVE Watch
  <2>1. CASE Receive(r) \/ SelectPreferred(r) \/ StartRound(r) \/ VisitChannel(r) \/ PassOver(r)
    BY <2>1 DEF Receive, SelectPreferred, StartRound, VisitChannel, PassOver
  <2>2. CASE EndPass(r) \/ WaitOver(r) \/ Finish(r) \/ Interrupt(r) \/ (\E o \in Classes : Answer(r, o))
    BY <2>2 DEF EndPass, WaitOver, Finish, Interrupt, Answer
  <2>3. CASE SettleSuccess(r) \/ SettleFailure(r) \/ SettleEnded(r) \/ SettleHandled(r)
    BY <2>3 DEF SettleSuccess, SettleFailure, SettleEnded, SettleHandled
  <2>4. CASE Forget(r) \/ Delete(r) \/ ContextEnds(r)
    BY <2>4 DEF Forget, Delete, ContextEnds
  <2>5. QED
    BY <1>1, <2>1, <2>2, <2>3, <2>4 DEF Own, RequestStep
<1>2. QED
  BY <1>1 DEF Next, Own, KeyChanges, Tick

\* A step that neither marks nor counts nor ends a visit.
LEMMA ExhaustSame ==
    ASSUME NEW r \in Request, ExhaustInv(r), Watch, SameMarks(r), eligible'[r] = eligible[r],
           pc[r] \notin {"idle", "finish", "done"}, pc'[r] \notin {"pass", "finish"},
           ctx'[r] = "alive" => ctx[r] = "alive",
           pc'[r] \in Attempting /\ pos'[r] > 0 => passAttempted'[r]
    PROVE  ExhaustInv(r)'
<1>1. steady'[r] \subseteq available' /\ steady'[r] \subseteq steady[r]
  BY WatchEffect
<1>2. Owed(r)' \subseteq Owed(r)
  BY <1>1 DEF Owed
<1>3. QED
  BY <1>1, <1>2 DEF ExhaustInv, SameMarks

\* A step into a pass, at its beginning or after an attempt of it.
LEMMA ExhaustPass ==
    ASSUME TypeOK, NEW r \in Request, ExhaustInv(r), Watch, SameMarks(r), eligible'[r] = eligible[r],
           pc[r] \notin {"idle", "finish", "done"}, pc'[r] = "pass",
           ctx'[r] = "alive" => ctx[r] = "alive",
           pos'[r] = 1 \/ passAttempted'[r]
    PROVE  ExhaustInv(r)'
<1>1. steady'[r] \subseteq available' /\ steady'[r] \subseteq steady[r]
  BY WatchEffect
<1>2. Owed(r)' \subseteq Owed(r)
  BY <1>1 DEF Owed
<1>3. \A i \in DOMAIN eligible'[r] : i \in Nat /\ i >= 1
  BY DEF TypeOK
<1>4. CASE pos'[r] = 1
  <2>1. \A i \in DOMAIN eligible'[r] : ~(i < pos'[r])
    BY <1>3, <1>4
  <2>2. QED
    BY <1>1, <1>2, <2>1 DEF ExhaustInv, SameMarks, Attempting
<1>5. CASE passAttempted'[r]
  BY <1>1, <1>2, <1>5 DEF ExhaustInv, SameMarks, Attempting
<1>6. QED
  BY <1>4, <1>5

LEMMA ExhaustBegin ==
    ASSUME TypeOK, NEW r \in Request, NEW p \in Route, ExhaustInv(r), Watch, Begin(r, p),
           round' = round, eligible' = eligible, ctx' = ctx,
           pc[r] \notin {"idle", "finish", "done"}, p \notin attempted[r],
           round[r] <= RoundsOf(Owner[p]),
           pos'[r] > 0 => passAttempted'[r]
    PROVE  ExhaustInv(r)'
<1>1. steady'[r] \subseteq available' /\ steady'[r] \subseteq steady[r]
  BY WatchEffect
<1>2. Owed(r)' \subseteq Owed(r) /\ Owed(r) \subseteq Route
  BY <1>1 DEF Owed, TypeOK
<1>3. CASE ctx[r] # "alive" /\ pc'[r] = "done"
  BY <1>1, <1>3 DEF ExhaustInv, Attempting
<1>4. CASE ctx[r] = "alive" /\ pc'[r] = "attempt" /\ tries'[r] = [tries[r] EXCEPT ![p] = @ + 1]
  <2>1. tries'[r][p] = tries[r][p] + 1 /\ \A q \in Route \ {p} : tries'[r][q] = tries[r][q]
    BY <1>4 DEF TypeOK, Timers
  <2>2. attempted'[r] = attempted[r] \cup {p}
    BY BeginEffect
  <2>3. /\ \A q \in Route : tries[r][q] \in Nat /\ RoundsOf(Owner[q]) \in Nat
        /\ round[r] \in Nat
    BY RoundsOfType, TraversalAssumption DEF TypeOK, Timers, Channel
  <2>4. ASSUME NEW q \in Owed(r)'
        PROVE  tries'[r][q] >= IF round[r] > RoundsOf(Owner[q]) THEN RoundsOf(Owner[q])
                               ELSE IF q \in attempted'[r] THEN round[r] ELSE round[r] - 1
    <3>1. q \in Route /\ tries[r][q] >= IF round[r] > RoundsOf(Owner[q]) THEN RoundsOf(Owner[q])
                          ELSE IF q \in attempted[r] THEN round[r] ELSE round[r] - 1
      BY <1>2, <1>4 DEF ExhaustInv
    <3>2. CASE q = p
      BY <2>1, <2>2, <2>3, <3>1, <3>2
    <3>3. CASE q # p
      BY <2>1, <2>2, <2>3, <3>1, <3>3
    <3>4. QED
      BY <3>2, <3>3
  <2>5. QED
    BY <1>1, <1>4, <2>4 DEF ExhaustInv
<1>5. QED
  BY <1>3, <1>4, BeginEffect

LEMMA ExhaustReceive ==
    ASSUME TypeOK, NEW r \in Request, AttemptInv(r), Receive(r)
    PROVE  ExhaustInv(r)'
<1>1. steady'[r] \subseteq available' /\ steady'[r] \subseteq Route
  BY WatchEffect DEF Receive
<1>2. pc'[r] \in {"preferred", "done"}
  BY DEF TypeOK, Receive, GoTo
<1>3. /\ attempted'[r] = {} /\ round'[r] = 1
      /\ \A p \in Route : tries'[r][p] = 0 /\ RoundsOf(Owner[p]) \in Nat \ {0}
  BY RoundsOfType, TraversalAssumption DEF Receive, AttemptInv, loop, Channel
<1>4. QED
  BY <1>1, <1>2, <1>3 DEF ExhaustInv, Attempting, Owed

\* A visit that finds no route and no cooldown finds nothing owed in this round.
LEMMA ExhaustSkip ==
    ASSUME TypeOK, NEW r \in Request, AttemptInv(r), ExhaustInv(r), VisitChannel(r),
           Selectable(r, eligible[r][pos[r]]) = {},
           wait' = [wait EXCEPT ![r] =
              LET cooling == {cooldown[r][p] : p \in Untried(r, eligible[r][pos[r]])} \ {0}
              IN  IF cooling = {} THEN @
                  ELSE IF @ = NoWait THEN Min(cooling) ELSE Min(cooling \cup {@})],
           pos' = [pos EXCEPT ![r] = @ + 1],
           UNCHANGED <<pc, passAttempted, attempted, current, tries>>
    PROVE  ExhaustInv(r)'
<1> DEFINE c == eligible[r][pos[r]]
           cooling == {cooldown[r][p] : p \in Untried(r, c)} \ {0}
<1>1. steady'[r] \subseteq available' /\ steady'[r] \subseteq steady[r]
  BY WatchEffect DEF VisitChannel
<1>2. Owed(r)' \subseteq Owed(r)
  BY <1>1 DEF Owed, VisitChannel, snapshot
<1>3. pc[r] = "pass" /\ pc'[r] = "pass" /\ pos'[r] = pos[r] + 1 /\ pos[r] \in Nat /\ round' = round
      /\ eligible' = eligible /\ ctx' = ctx
  BY DEF TypeOK, VisitChannel, snapshot
<1>4. cooling \subseteq Nat
  BY DEF TypeOK, Timers, Untried
<1>5. wait'[r] = NoWait => wait[r] = NoWait /\ cooling = {}
  <2> HIDE DEF cooling
  <2>1. wait'[r] = IF cooling = {} THEN wait[r]
                   ELSE IF wait[r] = NoWait THEN Min(cooling) ELSE Min(cooling \cup {wait[r]})
    BY DEF TypeOK, cooling
  <2>2. cooling # {} => Min(cooling) \in Nat
    BY <1>4, MinOfNat
  <2>3. cooling # {} /\ wait[r] # NoWait => Min(cooling \cup {wait[r]}) \in Nat
    <3>1. wait[r] # NoWait => cooling \cup {wait[r]} \subseteq Nat
      BY <1>4 DEF TypeOK
    <3>2. QED
      BY <3>1, MinOfNat
  <2>4. QED
    BY <2>1, <2>2, <2>3 DEF NoWait
<1>6. ASSUME cooling = {}, NEW p \in steady[r], Owner[p] = c
      PROVE  p \in attempted[r]
  <2>1. p \in Route /\ p \in available
    BY DEF TypeOK, ExhaustInv
  <2>2. SUFFICES ASSUME p \notin attempted[r] PROVE FALSE
    OBVIOUS
  <2>3. p \in Untried(r, c) /\ cooldown[r][p] = 0
    BY <1>6, <2>1, <2>2 DEF Untried
  <2>4. QED
    BY <2>1, <2>3 DEF Selectable
<1>7. ASSUME ~passAttempted[r], wait'[r] = NoWait,
             NEW i \in DOMAIN eligible[r], NEW p \in steady[r],
             i < pos[r] + 1, Owner[p] = eligible[r][i], round[r] <= RoundsOf(Owner[p])
      PROVE  p \in attempted[r]
  <2>1. CASE i = pos[r]
    BY <1>5, <1>6, <1>7, <2>1
  <2>2. CASE i < pos[r]
    BY <1>3, <1>5, <1>7, <2>2 DEF ExhaustInv
  <2>3. i \in Nat
    BY DEF TypeOK
  <2>4. QED
    BY <1>3, <1>7, <2>1, <2>2, <2>3
<1> HIDE DEF c, cooling
<1>8. QED
  BY <1>1, <1>2, <1>3, <1>7 DEF ExhaustInv, Attempting

\* A round ends without a wait only when nothing is owed in it.
LEMMA ExhaustNextRound ==
    ASSUME TypeOK, NEW r \in Request, ExhaustInv(r), EndPass(r), NextRound(r),
           ~passAttempted[r], wait[r] = NoWait
    PROVE  ExhaustInv(r)'
<1>1. steady'[r] \subseteq available' /\ steady'[r] \subseteq steady[r]
  BY WatchEffect DEF EndPass
<1>2. Owed(r)' \subseteq Owed(r) /\ Owed(r) \subseteq Route
  BY <1>1 DEF TypeOK, Owed, EndPass, snapshot
<1>3. /\ pc[r] = "pass" /\ pc'[r] = "round" /\ round'[r] = round[r] + 1
      /\ attempted'[r] = IF round[r] < MaxRounds(r) THEN {} ELSE attempted[r]
      /\ tries' = tries /\ eligible' = eligible /\ ctx' = ctx /\ pos[r] > Len(eligible[r])
  BY NextRoundEffect DEF EndPass, snapshot
<1>4. \A q \in Route : tries[r][q] \in Nat /\ RoundsOf(Owner[q]) \in Nat /\ round[r] \in Nat
  BY RoundsOfType, TraversalAssumption DEF TypeOK, Timers, Channel
<1>5. ASSUME ctx[r] = "alive", NEW p \in Owed(r)
      PROVE  tries[r][p] >= IF round[r] + 1 > RoundsOf(Owner[p]) THEN RoundsOf(Owner[p])
                            ELSE IF p \in attempted'[r] THEN round[r] + 1 ELSE round[r]
  <2>1. tries[r][p] >= IF round[r] > RoundsOf(Owner[p]) THEN RoundsOf(Owner[p])
                       ELSE IF p \in attempted[r] THEN round[r] ELSE round[r] - 1
    BY <1>3, <1>5 DEF ExhaustInv
  <2>2. PICK i \in DOMAIN eligible[r] : Owner[p] = eligible[r][i]
    BY DEF Owed, ToSet
  <2>3. i < pos[r] /\ pos[r] \in Nat
    BY <1>3 DEF TypeOK
  <2>4. p \in steady[r]
    BY DEF Owed
  <2>5. round[r] <= RoundsOf(Owner[p]) => p \in attempted[r]
    BY <1>3, <2>2, <2>3, <2>4 DEF ExhaustInv
  <2>6. RoundsOf(Owner[p]) <= MaxRounds(r) /\ MaxRounds(r) \in Nat
    BY MaxRoundsBound DEF TypeOK, Owed
  <2>7. p \in Route
    BY <1>2
  <2>8. QED
    BY <1>3, <1>4, <2>1, <2>5, <2>6, <2>7
<1>6. round[r] \in Int
  BY DEF TypeOK
<1>7. ASSUME ctx'[r] = "alive", NEW p \in Owed(r)'
      PROVE  tries'[r][p] >= IF round'[r] > RoundsOf(Owner[p]) THEN RoundsOf(Owner[p])
                             ELSE IF p \in attempted'[r] THEN round'[r] ELSE round'[r] - 1
  <2>1. p \in Owed(r) /\ ctx[r] = "alive"
    BY <1>2, <1>3, <1>7
  <2>2. tries[r][p] >= IF round[r] + 1 > RoundsOf(Owner[p]) THEN RoundsOf(Owner[p])
                       ELSE IF p \in attempted'[r] THEN round[r] + 1 ELSE round[r]
    BY <1>5, <2>1
  <2>3. round'[r] = round[r] + 1 /\ round'[r] - 1 = round[r] /\ tries' = tries
    BY <1>3, <1>6
  <2>4. QED
    BY <2>2, <2>3
<1>8. pc'[r] \notin {"pass", "finish"} /\ pc'[r] \notin Attempting
  BY <1>3 DEF Attempting
<1>9. QED
  BY <1>1, <1>7, <1>8 DEF ExhaustInv

\* The rounds are over for a live request when its longest channel has had all.
LEMMA ExhaustFinish ==
    ASSUME TypeOK, NEW r \in Request, TriesInv(r), ExhaustInv(r), StartRound(r),
           ~(round[r] <= MaxRounds(r) /\ ctx[r] = "alive")
    PROVE  ExhaustInv(r)'
<1>1. steady'[r] \subseteq available' /\ steady'[r] \subseteq steady[r]
  BY WatchEffect DEF StartRound
<1>2. Owed(r)' \subseteq Owed(r) /\ Owed(r) \subseteq Route
  BY <1>1 DEF TypeOK, Owed, StartRound, snapshot
<1>3. pc[r] = "round" /\ pc'[r] = "finish" /\ tries' = tries /\ eligible' = eligible /\ ctx' = ctx
  BY DEF TypeOK, StartRound, GoTo, snapshot
<1>4. ASSUME ctx[r] = "alive", NEW p \in Owed(r)
      PROVE  tries[r][p] = RoundsOf(Owner[p])
  <2>1. p \in Route /\ round[r] \in Nat /\ tries[r][p] \in Nat /\ RoundsOf(Owner[p]) \in Nat
    BY <1>2, RoundsOfType, TraversalAssumption DEF TypeOK, Timers, Channel
  <2>2. RoundsOf(Owner[p]) <= MaxRounds(r) /\ MaxRounds(r) \in Nat
    BY MaxRoundsBound DEF TypeOK, Owed
  <2>3. round[r] > RoundsOf(Owner[p])
    BY <1>4, <2>1, <2>2
  <2>4. tries[r][p] >= RoundsOf(Owner[p])
    BY <1>3, <1>4, <2>3 DEF ExhaustInv
  <2>5. QED
    BY <2>1, <2>4 DEF TriesInv
<1>5. QED
  BY <1>1, <1>2, <1>3, <1>4 DEF ExhaustInv, Attempting

LEMMA ExhaustStep ==
    ASSUME TypeOK, NEW r \in Request, AttemptInv(r), TriesInv(r), ExhaustInv(r), Own(r), Watch
    PROVE  ExhaustInv(r)'
<1> USE DEF shared, snapshot, loop, GoTo, SameMarks
<1>1. CASE Receive(r)
  BY <1>1, ExhaustReceive
<1>2. CASE SelectPreferred(r)
  <2>1. preferred[r] \in Route \cup {None}
    BY DEF TypeOK
  <2>2. /\ pc[r] = "preferred" /\ pos[r] = 0 /\ pos' = pos /\ round[r] = 1 /\ attempted[r] = {}
        /\ round' = round /\ eligible' = eligible /\ ctx' = ctx
    BY <1>2 DEF SelectPreferred, AttemptInv
  <2>3. CASE preferred[r] # None /\ Begin(r, preferred[r])
    <3>1. preferred[r] \in Route /\ RoundsOf(Owner[preferred[r]]) >= 1
      BY <2>1, <2>3, RoundsOfType, TraversalAssumption DEF Channel
    <3>2. QED
      BY <2>2, <2>3, <3>1, ExhaustBegin
  <2>4. CASE ~(preferred[r] # None /\ Begin(r, preferred[r]))
    <3>1. pc'[r] \in {"round", "forget"} /\ attempted' = attempted /\ tries' = tries
      BY <1>2, <2>1, <2>4 DEF TypeOK, SelectPreferred
    <3>2. QED
      BY <2>2, <3>1, ExhaustSame
  <2>5. QED
    BY <2>3, <2>4
<1>3. CASE StartRound(r)
  <2>1. CASE NewPass(r)
    BY <1>3, <2>1, NewPassEffect, ExhaustPass DEF StartRound
  <2>2. CASE ~NewPass(r)
    BY <1>3, <2>2, ExhaustFinish DEF StartRound
  <2>3. QED
    BY <2>1, <2>2
<1>4. CASE VisitChannel(r)
  <2> DEFINE c == eligible[r][pos[r]]
             cooling == {cooldown[r][p] : p \in Untried(r, c)} \ {0}
  <2>1. CASE /\ \E p \in Selectable(r, c) : Begin(r, p)
             /\ passAttempted' = [passAttempted EXCEPT ![r] = TRUE]
    <3>1. PICK p \in Route : Begin(r, p) /\ Owner[p] = c /\ p \notin attempted[r]
      BY <2>1 DEF Selectable, Untried
    <3>2. passAttempted'[r]
      BY <2>1 DEF TypeOK
    <3>3. /\ pc[r] = "pass" /\ round' = round /\ eligible' = eligible /\ ctx' = ctx
          /\ round[r] <= RoundsOf(Owner[p])
      BY <1>4, <3>1 DEF VisitChannel
    <3>4. QED
      BY <3>1, <3>2, <3>3, ExhaustBegin
  <2>2. CASE /\ Selectable(r, c) = {}
             /\ wait' = [wait EXCEPT ![r] =
                    IF cooling = {} THEN @
                    ELSE IF @ = NoWait THEN Min(cooling) ELSE Min(cooling \cup {@})]
             /\ pos' = [pos EXCEPT ![r] = @ + 1]
             /\ UNCHANGED <<pc, passAttempted, attempted, current, tries>>
    BY <1>4, <2>2, ExhaustSkip
  <2>3. QED
    BY <1>4, <2>1, <2>2 DEF VisitChannel
<1>5. CASE PassOver(r)
  <2>1. /\ pc[r] = "pass" /\ pc' = pc /\ pos'[r] = pos[r] + 1 /\ pos[r] \in Nat
        /\ round[r] > RoundsOf(eligible[r][pos[r]])
        /\ UNCHANGED <<eligible, ctx, round, passAttempted, wait, attempted, tries>>
    BY <1>5 DEF TypeOK, PassOver
  <2>2. steady'[r] \subseteq available' /\ steady'[r] \subseteq steady[r]
    BY <2>1, WatchEffect
  <2>3. Owed(r)' \subseteq Owed(r)
    BY <2>1, <2>2 DEF Owed
  <2>4. ASSUME ~passAttempted[r], wait[r] = NoWait,
               NEW i \in DOMAIN eligible[r], NEW p \in steady[r],
               i < pos[r] + 1, Owner[p] = eligible[r][i], round[r] <= RoundsOf(Owner[p])
        PROVE  p \in attempted[r]
    <3>1. i # pos[r]
      <4>1. p \in Route
        BY DEF TypeOK
      <4>2. round[r] \in Nat /\ RoundsOf(Owner[p]) \in Nat
        BY <4>1, RoundsOfType, TraversalAssumption DEF TypeOK, Channel
      <4>3. QED
        BY <2>1, <2>4, <4>2
    <3>2. i \in Nat
      BY DEF TypeOK
    <3>3. i < pos[r]
      BY <2>1, <2>4, <3>1, <3>2
    <3>4. QED
      BY <2>1, <2>4, <3>3 DEF ExhaustInv
  <2>5. QED
    BY <2>1, <2>2, <2>3, <2>4 DEF ExhaustInv, Attempting
<1>6. CASE EndPass(r)
  <2>1. CASE NewPass(r) /\ UNCHANGED <<round, attempted>>
    BY <1>6, <2>1, NewPassEffect, ExhaustPass DEF EndPass
  <2>2. CASE pc' = [pc EXCEPT ![r] = "wait"] /\ UNCHANGED <<round, attempted, pos, passAttempted, wait>>
    <3>1. pc'[r] = "wait"
      BY <2>2 DEF TypeOK
    <3>2. QED
      BY <1>6, <2>2, <3>1, ExhaustSame DEF EndPass, Attempting
  <2>3. CASE ~passAttempted[r] /\ wait[r] = NoWait /\ NextRound(r)
    BY <1>6, <2>3, ExhaustNextRound
  <2>4. QED
    BY <1>6, <2>1, <2>2, <2>3 DEF EndPass
<1>7. CASE WaitOver(r)
  <2>1. CASE NewPass(r) /\ UNCHANGED <<round, attempted>>
    BY <1>7, <2>1, NewPassEffect, ExhaustPass DEF WaitOver
  <2>2. CASE ctx[r] # "alive" /\ NextRound(r)
    <3>1. pc'[r] = "round" /\ ctx'[r] # "alive"
      BY <1>7, <2>2, NextRoundEffect DEF WaitOver
    <3>2. QED
      BY <1>7, <3>1, WatchEffect DEF WaitOver, ExhaustInv, Attempting
  <2>3. QED
    BY <1>7, <2>1, <2>2 DEF WaitOver
<1>8. CASE Finish(r) \/ SettleSuccess(r)
  <2>1. pc'[r] = "done"
    BY <1>8 DEF TypeOK, Finish, SettleSuccess
  <2>2. QED
    BY <2>1, WatchEffect DEF ExhaustInv, Attempting
<1>9. CASE (\E o \in Classes : Answer(r, o)) \/ Interrupt(r)
  <2>1. pc[r] = "attempt" /\ pc'[r] = "settle"
    BY <1>9 DEF TypeOK, Answer, Interrupt
  <2>2. UNCHANGED <<ctx, eligible, pos, passAttempted, round, attempted, tries>>
    BY <1>9 DEF Answer, Interrupt
  <2>3. QED
    BY <2>1, <2>2, ExhaustSame DEF ExhaustInv, Attempting
<1>10. CASE SettleFailure(r) \/ SettleEnded(r) \/ SettleHandled(r)
  <2>1. pc[r] = "settle" /\ pc'[r] = "forget"
    BY <1>10 DEF TypeOK, SettleFailure, SettleEnded, SettleHandled
  <2>2. UNCHANGED <<ctx, eligible, pos, passAttempted, round, attempted, tries>>
    BY <1>10 DEF SettleFailure, SettleEnded, SettleHandled
  <2>3. QED
    BY <2>1, <2>2, ExhaustSame DEF ExhaustInv, Attempting
<1>11. CASE Forget(r) \/ Delete(r)
  <2>1. /\ pc[r] \in {"forget", "delete"} /\ (pos[r] > 0 => passAttempted[r])
        /\ UNCHANGED <<ctx, eligible, passAttempted, round, attempted, tries>>
    BY <1>11 DEF Forget, Delete, ExhaustInv, Attempting
  <2>2. CASE pc'[r] = "delete" /\ pos' = pos
    BY <2>1, <2>2, ExhaustSame DEF Attempting
  <2>3. CASE Resume(r)
    <3>1. pos[r] \in Nat
      BY DEF TypeOK
    <3>2. CASE pc'[r] \in {"done", "round"}
      BY <2>1, <3>2, ExhaustSame DEF Attempting
    <3>3. CASE pc'[r] = "pass" /\ pos[r] # 0
      BY <2>1, <3>1, <3>3, ExhaustPass
    <3>4. QED
      BY <2>3, <3>2, <3>3, ResumeEffect
  <2>4. QED
    BY <1>11, <2>2, <2>3 DEF TypeOK, Forget, Delete
<1>12. CASE ContextEnds(r)
  <2>1. pc' = pc /\ ctx'[r] # "alive" /\ pc[r] # "idle"
    BY <1>12 DEF TypeOK, ContextEnds
  <2>2. UNCHANGED <<eligible, pos, passAttempted, wait, round, attempted, tries>>
    BY <1>12 DEF ContextEnds
  <2>3. steady'[r] \subseteq available' /\ steady'[r] \subseteq steady[r]
    BY <2>1, WatchEffect
  <2>4. QED
    BY <2>1, <2>2, <2>3 DEF ExhaustInv
<1>13. QED
  BY <1>1, <1>2, <1>3, <1>4, <1>5, <1>6, <1>7, <1>8, <1>9, <1>10, <1>11, <1>12 DEF Own, RequestStep

LEMMA ExhaustKept ==
    ASSUME NEW r \in Request, ExhaustInv(r), Kept(r), Watch
    PROVE  ExhaustInv(r)'
<1>1. steady'[r] \subseteq available'
  BY WatchEffect
<1>2. CASE pc[r] = "idle"
  BY <1>1, <1>2 DEF ExhaustInv, Kept, Attempting
<1>3. CASE pc[r] # "idle"
  <2>1. steady'[r] \subseteq steady[r]
    BY <1>3, WatchEffect
  <2>2. Owed(r)' \subseteq Owed(r)
    BY <2>1 DEF Owed, Kept
  <2>3. QED
    BY <1>1, <2>1, <2>2 DEF ExhaustInv, Kept
<1>4. QED
  BY <1>2, <1>3

LEMMA ExhaustTick ==
    ASSUME TypeOK, NEW r \in Request, ExhaustInv(r), Tick
    PROVE  ExhaustInv(r)'
<1>1. /\ steady'[r] \subseteq available'
      /\ pc[r] # "idle" => steady'[r] \subseteq steady[r]
  BY WatchEffect DEF Tick
<1>2. UNCHANGED <<pc, ctx, eligible, pos, passAttempted, round, attempted, tries>>
  BY DEF Tick, snapshot
<1>3. wait'[r] = NoWait => wait[r] = NoWait
  BY DEF TypeOK, Tick, Down, NoWait
<1>4. pc[r] # "idle" => Owed(r)' \subseteq Owed(r)
  BY <1>1, <1>2 DEF Owed
<1>5. QED
  BY <1>1, <1>2, <1>3, <1>4 DEF ExhaustInv, Attempting

-----------------------------------------------------------------------------
(* Marks. *)

LEMMA MarksStep ==
    ASSUME TypeOK, TypeOK', NEW r \in Request, AttemptInv(r), MarksInv(r), Own(r)
    PROVE  MarksInv(r)'
<1> USE DEF shared, snapshot, loop, GoTo
<1>1. CASE Receive(r)
  <2>1. PICK order \in CandidateOrders : eligible' = [eligible EXCEPT ![r] = Healthy(order)]
    BY <1>1 DEF Receive
  <2>2. IsInjective(eligible'[r])
    <3>1. eligible'[r] = Healthy(order)
      BY <2>1 DEF TypeOK
    <3>2. QED
      BY <3>1, OrdersType, HealthyType DEF TypeOK
  <2>3. /\ pc'[r] \in {"preferred", "done"} /\ attempted'[r] = {}
        /\ \A p \in Route : cooldown'[r][p] = 0
    BY <1>1 DEF TypeOK, Receive, AttemptInv
  <2>4. QED
    BY <2>2, <2>3 DEF MarksInv
<1>2. ASSUME NEW p \in Route, Begin(r, p), UNCHANGED <<round, eligible, cooldown>>, pc[r] # "done"
      PROVE  MarksInv(r)'
  <2>1. attempted'[r] = attempted[r] \cup {p} /\ current'[r] = p
    BY <1>2, BeginEffect
  <2>2. CASE pc'[r] = "done" /\ tries'[r] = tries[r]
    BY <1>2, <2>1, <2>2 DEF MarksInv
  <2>3. CASE pc'[r] = "attempt" /\ tries'[r] = [tries[r] EXCEPT ![p] = @ + 1]
    <3>1. tries'[r][p] > 0 /\ \A q \in Route : tries[r][q] > 0 => tries'[r][q] > 0
      <4>1. \A q \in Route : tries[r][q] \in Nat
        BY DEF TypeOK, Timers
      <4>2. tries'[r][p] = tries[r][p] + 1 /\ \A q \in Route \ {p} : tries'[r][q] = tries[r][q]
        BY <2>3 DEF TypeOK, Timers
      <4>3. QED
        BY <4>1, <4>2
    <3>2. attempted[r] \subseteq Route
      BY DEF TypeOK
    <3>3. QED
      BY <1>2, <2>1, <2>3, <3>1, <3>2 DEF MarksInv
  <2>4. QED
    BY <1>2, <2>2, <2>3, BeginEffect
<1>3. CASE SelectPreferred(r)
  <2>1. preferred[r] \in Route \cup {None}
    BY DEF TypeOK
  <2>2. CASE preferred[r] # None /\ Begin(r, preferred[r])
    BY <1>2, <1>3, <2>1, <2>2 DEF SelectPreferred
  <2>3. CASE ~(preferred[r] # None /\ Begin(r, preferred[r]))
    <3>1. pc'[r] \in {"round", "forget"} /\ attempted' = attempted /\ tries' = tries
      BY <1>3, <2>1, <2>3 DEF TypeOK, SelectPreferred
    <3>2. pc[r] = "preferred" /\ pos[r] = 0 /\ UNCHANGED <<pos, round, eligible, cooldown>>
      BY <1>3 DEF SelectPreferred, AttemptInv
    <3>3. QED
      BY <3>1, <3>2 DEF MarksInv
  <2>4. QED
    BY <2>2, <2>3
<1>4. CASE StartRound(r)
  <2>1. pc[r] = "round" /\ UNCHANGED <<round, eligible, cooldown, attempted, tries, current>>
    BY <1>4 DEF StartRound
  <2>2. pc'[r] \in {"pass", "finish"}
    <3>1. CASE NewPass(r)
      BY <3>1, NewPassEffect
    <3>2. CASE ~NewPass(r)
      BY <1>4, <3>2 DEF TypeOK, StartRound
    <3>3. QED
      BY <3>1, <3>2
  <2>3. QED
    BY <2>1, <2>2 DEF MarksInv
<1>5. CASE VisitChannel(r)
  <2>1. CASE \E p \in Selectable(r, eligible[r][pos[r]]) : Begin(r, p)
    <3>1. PICK p \in Route : Begin(r, p)
      BY <2>1 DEF Selectable, Untried
    <3>2. QED
      BY <1>2, <1>5, <3>1 DEF VisitChannel
  <2>2. CASE UNCHANGED <<pc, passAttempted, attempted, current, tries>>
    BY <1>5, <2>2 DEF VisitChannel, MarksInv
  <2>3. QED
    BY <1>5, <2>1, <2>2 DEF VisitChannel
<1>6. CASE PassOver(r)
  BY <1>6 DEF PassOver, MarksInv
<1>7. CASE EndPass(r) \/ WaitOver(r)
  <2>1. pc[r] \in {"pass", "wait"} /\ UNCHANGED <<eligible, cooldown, tries, current>>
    BY <1>7 DEF EndPass, WaitOver
  <2>2. CASE NextRound(r)
    <3>1. pc'[r] = "round" /\ round'[r] # 1
      <4>1. pc'[r] = "round" /\ round'[r] = round[r] + 1
        BY <2>2, NextRoundEffect
      <4>2. round[r] \in Nat \ {0}
        BY DEF TypeOK
      <4>3. QED
        BY <4>1, <4>2
    <3>2. QED
      BY <2>1, <3>1 DEF MarksInv
  <2>3. CASE UNCHANGED <<round, attempted>> /\ pc'[r] \in {"pass", "wait"}
    BY <2>1, <2>3 DEF MarksInv
  <2>4. QED
    BY <1>7, <2>2, <2>3, NewPassEffect DEF TypeOK, EndPass, WaitOver
<1>8. CASE Finish(r) \/ SettleSuccess(r)
  <2>1. pc'[r] = "done" /\ UNCHANGED <<eligible, cooldown, tries>>
    BY <1>8 DEF TypeOK, Finish, SettleSuccess
  <2>2. QED
    BY <2>1 DEF MarksInv
<1>9. CASE (\E o \in Classes : Answer(r, o)) \/ Interrupt(r)
  <2>1. pc[r] = "attempt" /\ pc'[r] = "settle"
    BY <1>9 DEF TypeOK, Answer, Interrupt
  <2>2. UNCHANGED <<round, eligible, cooldown, attempted, tries, current>>
    BY <1>9 DEF Answer, Interrupt
  <2>3. QED
    BY <2>1, <2>2 DEF MarksInv
<1>10. CASE SettleFailure(r)
  <2>1. pc[r] = "settle" /\ pc'[r] = "forget" /\ UNCHANGED <<round, eligible, attempted, tries>>
    BY <1>10 DEF TypeOK, SettleFailure
  <2>2. \A p \in Route : cooldown'[r][p] = cooldown[r][p] \/ p = current[r]
    BY <1>10 DEF TypeOK, Timers, SettleFailure
  <2>3. QED
    BY <2>1, <2>2 DEF MarksInv
<1>11. CASE SettleEnded(r) \/ SettleHandled(r)
  <2>1. pc[r] = "settle" /\ pc'[r] = "forget"
    BY <1>11 DEF TypeOK, SettleEnded, SettleHandled
  <2>2. UNCHANGED <<round, eligible, cooldown, attempted, tries>>
    BY <1>11 DEF SettleEnded, SettleHandled
  <2>3. QED
    BY <2>1, <2>2 DEF MarksInv
<1>12. CASE Forget(r) \/ Delete(r)
  <2>1. pc[r] \in {"forget", "delete"} /\ UNCHANGED <<round, eligible, cooldown, attempted, tries>>
    BY <1>12 DEF Forget, Delete
  <2>2. CASE pc'[r] = "delete"
    BY <2>1, <2>2 DEF MarksInv
  <2>3. CASE Resume(r)
    <3>1. \/ pc'[r] = "done"
          \/ pc'[r] = "pass"
          \/ pc'[r] = "round" /\ pos'[r] = 0
      BY <2>3, ResumeEffect
    <3>2. QED
      BY <2>1, <3>1 DEF MarksInv
  <2>4. QED
    BY <1>12, <2>2, <2>3 DEF TypeOK, Forget, Delete
<1>13. CASE ContextEnds(r)
  BY <1>13 DEF ContextEnds, MarksInv
<1>14. QED
  BY <1>1, <1>3, <1>4, <1>5, <1>6, <1>7, <1>8, <1>9, <1>10, <1>11, <1>12, <1>13 DEF Own, RequestStep

LEMMA MarksKept ==
    ASSUME NEW r \in Request, MarksInv(r), Kept(r)
    PROVE  MarksInv(r)'
  BY DEF MarksInv, Kept

LEMMA MarksTick ==
    ASSUME TypeOK, NEW r \in Request, MarksInv(r), Tick
    PROVE  MarksInv(r)'
<1>1. \A p \in Route : cooldown'[r][p] > 0 => cooldown[r][p] > 0
  BY DEF TypeOK, Timers, Tick, Down
<1>2. UNCHANGED <<pc, eligible, pos, round, attempted, tries, current>>
  BY DEF Tick, snapshot
<1>3. QED
  BY <1>1, <1>2 DEF MarksInv

-----------------------------------------------------------------------------
(* Which channel is ahead. *)

LEMMA TriedFinite ==
    ASSUME NEW r, NEW c, NEW S
    PROVE  /\ IsFiniteSet(TriedOf(r, c)) /\ IsFiniteSet(TriedOf(r, c) \ S)
           /\ Cardinality(TriedOf(r, c)) \in Nat /\ Cardinality(TriedOf(r, c) \ S) \in Nat
<1>1. IsFiniteSet(TriedOf(r, c)) /\ IsFiniteSet(TriedOf(r, c) \ S)
  BY FS_Subset, TraversalAssumption DEF TriedOf
<1>2. QED
  BY <1>1, FS_CardinalityType

LEMMA AheadType ==
    ASSUME NEW r, NEW c, NEW d
    PROVE  Ahead(r, c, d) \in Int
<1>1. /\ Cardinality(TriedOf(r, c) \ {preferred[r]}) \in Nat
      /\ Cardinality(TriedOf(r, d)) \in Nat
  BY TriedFinite
<1>2. QED
  BY <1>1 DEF Ahead

LEMMA AheadUnprimed ==
    ASSUME NEW r \in Request, tries'[r] = tries[r], preferred'[r] = preferred[r], NEW c, NEW d
    PROVE  Ahead(r, c, d)' = Ahead(r, c, d)
<1>1. TriedOf(r, c)' = TriedOf(r, c) /\ TriedOf(r, d)' = TriedOf(r, d)
  BY DEF TriedOf
<1>2. QED
  BY <1>1 DEF Ahead

LEMMA TurnType ==
    ASSUME NEW r, NEW c
    PROVE  Turn(r, c) \in {0, 1} /\ (Turn(r, c) = 1 <=> Visited(r, c))
  BY DEF Turn

\* The turns are as they were when the visit stays where it is.
LEMMA TurnSame ==
    ASSUME NEW r \in Request, eligible'[r] = eligible[r], pos'[r] = pos[r],
           pc'[r] \in Attempting <=> pc[r] \in Attempting, NEW c
    PROVE  Turn(r, c)' = Turn(r, c)
<1>1. Visited(r, c)' <=> Visited(r, c)
  BY DEF Visited
<1>2. QED
  BY <1>1 DEF Turn

LEMMA HasMoreBefore ==
    ASSUME TypeOK, NEW r \in Request, Watch, pc[r] # "idle",
           \A p \in Route : tries'[r][p] >= tries[r][p],
           NEW d, HasMore(r, d)'
    PROVE  HasMore(r, d)
<1>1. steady'[r] \subseteq steady[r]
  BY WatchEffect
<1>2. \A p \in steady[r] : tries[r][p] \in Nat /\ p \in Route
  BY DEF TypeOK, Timers
<1>3. PICK p \in steady'[r] : Owner[p] = d /\ tries'[r][p] = 0
  BY DEF HasMore
<1>4. tries[r][p] = 0
  BY <1>1, <1>2, <1>3
<1>5. QED
  BY <1>1, <1>3, <1>4 DEF HasMore

\* A step that counts no attempt.
LEMMA SpreadSame ==
    ASSUME TypeOK, NEW r \in Request, SpreadInv(r), Watch, SameMarks(r), pc[r] # "idle",
           eligible'[r] = eligible[r], preferred'[r] = preferred[r],
           \/ pc'[r] \in {"finish", "done"}
           \/ /\ pc[r] \notin {"finish", "done"}
              /\ \A c, d \in ToSet(eligible[r]) :
                    HasMore(r, d)' => Turn(r, c) - Turn(r, d) <= Turn(r, c)' - Turn(r, d)'
    PROVE  SpreadInv(r)'
<1> SUFFICES ASSUME round[r] = 1, NEW c \in ToSet(eligible[r]), NEW d \in ToSet(eligible[r]),
                    HasMore(r, d)'
             PROVE  /\ Ahead(r, c, d)' <= 1
                    /\ pc'[r] \notin {"finish", "done"} => Ahead(r, c, d)' <= Turn(r, c)' - Turn(r, d)'
  BY DEF SpreadInv, SameMarks
<1>1. HasMore(r, d)
  <2>1. \A p \in Route : tries'[r][p] >= tries[r][p]
    BY DEF SameMarks, TypeOK, Timers
  <2>2. QED
    BY <2>1, HasMoreBefore
<1>2. Ahead(r, c, d)' = Ahead(r, c, d) /\ Ahead(r, c, d) \in Int
  BY AheadUnprimed, AheadType DEF SameMarks
<1>3. Ahead(r, c, d) <= 1 /\ (pc[r] \notin {"finish", "done"} => Ahead(r, c, d) <= Turn(r, c) - Turn(r, d))
  BY <1>1 DEF SpreadInv
<1>4. Turn(r, c) \in Int /\ Turn(r, d) \in Int /\ Turn(r, c)' \in Int /\ Turn(r, d)' \in Int
  BY DEF Turn
<1>5. QED
  BY <1>2, <1>3, <1>4

\* Before the first attempt nobody is ahead.
LEMMA NobodyAhead ==
    ASSUME NEW r \in Request, NEW c, NEW d, \A p \in Route : p # preferred[r] => tries[r][p] = 0
    PROVE  Ahead(r, c, d) <= 0
<1>1. TriedOf(r, c) \ {preferred[r]} = {}
  BY DEF TriedOf
<1>2. QED
  BY <1>1, FS_EmptySet, TriedFinite DEF Ahead

\* The counts after the first attempt of a route.
LEMMA TriedBegin ==
    ASSUME TypeOK, NEW r \in Request, NEW p \in Route, tries[r][p] = 0,
           tries'[r] = [tries[r] EXCEPT ![p] = @ + 1], NEW c
    PROVE  /\ Owner[p] # c => TriedOf(r, c)' = TriedOf(r, c)
           /\ Owner[p] = c => TriedOf(r, c)' = TriedOf(r, c) \cup {p} /\ p \notin TriedOf(r, c)
<1>1. tries'[r][p] = 1 /\ \A q \in Route \ {p} : tries'[r][q] = tries[r][q]
  BY DEF TypeOK, Timers
<1>2. QED
  BY <1>1 DEF TriedOf

\* The first attempt of a route puts its channel ahead by one at most.
LEMMA AheadBegin ==
    ASSUME TypeOK, NEW r \in Request, NEW p \in Route, tries[r][p] = 0,
           tries'[r] = [tries[r] EXCEPT ![p] = @ + 1], preferred'[r] = preferred[r],
           NEW c, NEW d
    PROVE  /\ c # Owner[p] /\ d # Owner[p] => Ahead(r, c, d)' = Ahead(r, c, d)
           /\ c = Owner[p] /\ d # Owner[p] => Ahead(r, c, d)' <= Ahead(r, c, d) + 1
           /\ c # Owner[p] /\ d = Owner[p] => Ahead(r, c, d)' = Ahead(r, c, d) - 1
<1> DEFINE others(k) == TriedOf(r, k) \ {preferred[r]}
<1>1. /\ Cardinality(TriedOf(r, c)) \in Nat /\ Cardinality(TriedOf(r, d)) \in Nat
      /\ Cardinality(others(c)) \in Nat /\ IsFiniteSet(others(c)) /\ IsFiniteSet(TriedOf(r, d))
  BY TriedFinite
<1>2. ASSUME c = Owner[p]
      PROVE  Cardinality(others(c))' <= Cardinality(others(c)) + 1
  <2>1. TriedOf(r, c)' = TriedOf(r, c) \cup {p} /\ p \notin TriedOf(r, c)
    BY <1>2, TriedBegin
  <2>2. CASE p = preferred[r]
    <3>1. others(c)' = others(c)
      BY <2>1, <2>2
    <3>2. QED
      BY <1>1, <3>1
  <2>3. CASE p # preferred[r]
    <3>1. others(c)' = others(c) \cup {p} /\ p \notin others(c)
      BY <2>1, <2>3
    <3>2. Cardinality(others(c) \cup {p}) = Cardinality(others(c)) + 1
      BY <1>1, <3>1, FS_AddElement
    <3>3. Cardinality(others(c))' = Cardinality(others(c) \cup {p})
      BY <3>1
    <3>4. QED
      BY <1>1, <3>2, <3>3
  <2>4. QED
    BY <2>2, <2>3
<1>3. ASSUME d = Owner[p]
      PROVE  Cardinality(TriedOf(r, d))' = Cardinality(TriedOf(r, d)) + 1
  <2>1. TriedOf(r, d)' = TriedOf(r, d) \cup {p} /\ p \notin TriedOf(r, d)
    BY <1>3, TriedBegin
  <2>2. QED
    BY <1>1, <2>1, FS_AddElement
<1>4. ASSUME c # Owner[p]
      PROVE  Cardinality(others(c))' = Cardinality(others(c))
  BY <1>4, TriedBegin
<1>5. ASSUME d # Owner[p]
      PROVE  Cardinality(TriedOf(r, d))' = Cardinality(TriedOf(r, d))
  BY <1>5, TriedBegin
<1>6. /\ Ahead(r, c, d) = Cardinality(others(c)) - Cardinality(TriedOf(r, d))
      /\ Ahead(r, c, d)' = Cardinality(others(c))' - Cardinality(TriedOf(r, d))'
  BY DEF Ahead
<1>7. Cardinality(others(c))' \in Nat
  <2>1. IsFiniteSet(TriedOf(r, c)')
    BY FS_Subset, TraversalAssumption DEF TriedOf
  <2>2. IsFiniteSet(others(c)')
    BY <2>1, FS_Subset
  <2>3. QED
    BY <2>2, FS_CardinalityType
<1> HIDE DEF others
<1>8. QED
  BY <1>1, <1>2, <1>3, <1>4, <1>5, <1>6, <1>7

\* The turns before and after a visit of the channel at pos.
LEMMA TurnVisited ==
    ASSUME TypeOK, NEW r \in Request, IsInjective(eligible[r]), eligible'[r] = eligible[r],
           pc[r] = "pass", pos[r] \in DOMAIN eligible[r],
           \/ pos'[r] = pos[r] /\ pc'[r] \in Attempting
           \/ pos'[r] = pos[r] + 1 /\ pc'[r] = "pass",
           NEW c
    PROVE  /\ c = eligible[r][pos[r]] => Turn(r, c) = 0 /\ Turn(r, c)' = 1
           /\ c # eligible[r][pos[r]] => Turn(r, c)' = Turn(r, c)
<1>1. /\ pos[r] \in Nat /\ pc[r] \notin Attempting /\ "pass" \notin Attempting
      /\ \A i \in DOMAIN eligible[r] : i \in Nat
  BY DEF TypeOK, Attempting
<1>2. ASSUME c = eligible[r][pos[r]]
      PROVE  ~Visited(r, c) /\ Visited(r, c)'
  <2>1. ASSUME NEW i \in DOMAIN eligible[r], eligible[r][i] = c
        PROVE  i = pos[r]
    BY <1>2, <2>1 DEF IsInjective
  <2>2. ~Visited(r, c)
    BY <1>1, <2>1 DEF Visited
  <2>3. pos[r] < pos'[r] \/ (pos[r] = pos'[r] /\ pc'[r] \in Attempting)
    BY <1>1
  <2>4. Visited(r, c)'
    BY <1>2, <2>3 DEF Visited
  <2>5. QED
    BY <2>2, <2>4
<1>3. ASSUME c # eligible[r][pos[r]]
      PROVE  Visited(r, c)' <=> Visited(r, c)
  <2>1. ASSUME NEW i \in DOMAIN eligible[r], eligible[r][i] = c
        PROVE  (i < pos'[r] \/ (i = pos'[r] /\ pc'[r] \in Attempting))
                  <=> (i < pos[r] \/ (i = pos[r] /\ pc[r] \in Attempting))
    BY <1>1, <1>3, <2>1
  <2>2. QED
    BY <2>1 DEF Visited
<1>4. QED
  BY <1>2, <1>3 DEF Turn

\* A visit that attempts a route.
LEMMA SpreadVisit ==
    ASSUME TypeOK, NEW r \in Request, TriesInv(r), MarksInv(r), SpreadInv(r), Watch,
           NEW p \in Route, Begin(r, p), p \notin attempted[r], Owner[p] = eligible[r][pos[r]],
           pc[r] = "pass", pos[r] \in DOMAIN eligible[r],
           UNCHANGED <<pos, round, eligible, preferred>>
    PROVE  SpreadInv(r)'
<1>1. CASE pc'[r] = "done" /\ tries'[r] = tries[r]
  <2> SUFFICES ASSUME round[r] = 1, NEW c \in ToSet(eligible[r]), NEW d \in ToSet(eligible[r]),
                      HasMore(r, d)'
               PROVE  Ahead(r, c, d)' <= 1
    BY <1>1 DEF SpreadInv
  <2>1. HasMore(r, d)
    <3>1. \A q \in Route : tries'[r][q] >= tries[r][q]
      BY <1>1 DEF TypeOK, Timers
    <3>2. QED
      BY <3>1, HasMoreBefore
  <2>2. QED
    BY <1>1, <2>1, AheadUnprimed DEF SpreadInv
<1>2. CASE pc'[r] = "attempt" /\ tries'[r] = [tries[r] EXCEPT ![p] = @ + 1]
  <2> DEFINE c0 == eligible[r][pos[r]]
  <2> SUFFICES ASSUME round[r] = 1, NEW c \in ToSet(eligible[r]), NEW d \in ToSet(eligible[r]),
                      HasMore(r, d)'
               PROVE  Ahead(r, c, d)' <= 1 /\ Ahead(r, c, d)' <= Turn(r, c)' - Turn(r, d)'
    BY <1>2 DEF SpreadInv
  <2>1. tries[r][p] = 0 /\ \A q \in Route : tries'[r][q] >= tries[r][q]
    <3>1. \A q \in Route : tries[r][q] \in Nat
      BY DEF TypeOK, Timers
    <3>2. tries'[r][p] = tries[r][p] + 1 /\ \A q \in Route \ {p} : tries'[r][q] = tries[r][q]
      BY <1>2 DEF TypeOK, Timers
    <3>3. tries[r][p] <= 0
      BY DEF TriesInv
    <3>4. QED
      BY <3>1, <3>2, <3>3
  <2>2. HasMore(r, d)
    BY <2>1, HasMoreBefore
  <2>3. Ahead(r, c, d) <= 1 /\ Ahead(r, c, d) <= Turn(r, c) - Turn(r, d)
    BY <2>2 DEF SpreadInv
  <2>4. /\ \A k \in {c, d} : k = c0 => Turn(r, k) = 0 /\ Turn(r, k)' = 1
        /\ \A k \in {c, d} : k # c0 => Turn(r, k)' = Turn(r, k)
    <3>1. /\ IsInjective(eligible[r]) /\ pc'[r] \in Attempting /\ pos'[r] = pos[r]
          /\ eligible'[r] = eligible[r]
      BY <1>2 DEF MarksInv, Attempting
    <3>2. ASSUME NEW k
          PROVE  /\ k = c0 => Turn(r, k) = 0 /\ Turn(r, k)' = 1
                 /\ k # c0 => Turn(r, k)' = Turn(r, k)
      BY <3>1, TurnVisited
    <3>3. QED
      BY <3>2
  <2>5. /\ c # c0 /\ d # c0 => Ahead(r, c, d)' = Ahead(r, c, d)
        /\ c = c0 /\ d # c0 => Ahead(r, c, d)' <= Ahead(r, c, d) + 1
        /\ c # c0 /\ d = c0 => Ahead(r, c, d)' = Ahead(r, c, d) - 1
    BY <1>2, <2>1, AheadBegin
  <2>6. c = d => Ahead(r, c, d)' <= 0
    <3> SUFFICES ASSUME c = d PROVE Ahead(r, c, d)' <= 0
      OBVIOUS
    <3>1. IsFiniteSet(TriedOf(r, d)')
      BY FS_Subset, TraversalAssumption DEF TriedOf
    <3>2. /\ Cardinality(TriedOf(r, d)' \ {preferred'[r]}) <= Cardinality(TriedOf(r, d)')
          /\ Cardinality(TriedOf(r, d)' \ {preferred'[r]}) \in Nat
          /\ Cardinality(TriedOf(r, d)') \in Nat
      <4>1. TriedOf(r, d)' \ {preferred'[r]} \subseteq TriedOf(r, d)'
        OBVIOUS
      <4>2. IsFiniteSet(TriedOf(r, d)' \ {preferred'[r]})
        BY <3>1, <4>1, FS_Subset
      <4>3. QED
        BY <3>1, <4>1, <4>2, FS_Subset, FS_CardinalityType
    <3>3. QED
      BY <3>2 DEF Ahead
  <2>7. /\ Turn(r, c) \in {0, 1} /\ Turn(r, d) \in {0, 1} /\ Turn(r, c)' \in {0, 1} /\ Turn(r, d)' \in {0, 1}
        /\ Ahead(r, c, d) \in Int /\ Ahead(r, c, d)' \in Int
    <3>1. Ahead(r, c, d)' \in Int
      <4>1. IsFiniteSet(TriedOf(r, c)') /\ IsFiniteSet(TriedOf(r, d)')
        BY FS_Subset, TraversalAssumption DEF TriedOf
      <4>2. IsFiniteSet(TriedOf(r, c)' \ {preferred'[r]})
        BY <4>1, FS_Subset
      <4>3. Cardinality(TriedOf(r, c)' \ {preferred'[r]}) \in Nat /\ Cardinality(TriedOf(r, d)') \in Nat
        BY <4>1, <4>2, FS_CardinalityType
      <4>4. QED
        BY <4>3 DEF Ahead
    <3>2. QED
      BY <3>1, AheadType DEF Turn
  <2> HIDE DEF c0
  <2>8. CASE c = d
    BY <2>6, <2>7, <2>8
  <2>9. CASE c # d /\ c # c0 /\ d # c0
    BY <2>3, <2>4, <2>5, <2>9
  <2>10. CASE c # d /\ c = c0
    <3>1. /\ Turn(r, c) = 0 /\ Turn(r, c)' = 1 /\ Turn(r, d)' = Turn(r, d)
          /\ Ahead(r, c, d)' <= Ahead(r, c, d) + 1
      BY <2>4, <2>5, <2>10
    <3>2. QED
      BY <2>3, <2>7, <3>1
  <2>11. CASE c # d /\ d = c0
    <3>1. /\ Turn(r, d) = 0 /\ Turn(r, d)' = 1 /\ Turn(r, c)' = Turn(r, c)
          /\ Ahead(r, c, d)' = Ahead(r, c, d) - 1
      BY <2>4, <2>5, <2>11
    <3>2. QED
      BY <2>3, <2>7, <3>1
  <2>12. QED
    BY <2>8, <2>9, <2>10, <2>11
<1>3. QED
  BY <1>1, <1>2, BeginEffect

\* A visit that finds no route: the channel has none left that stayed available.
LEMMA SpreadSkip ==
    ASSUME TypeOK, NEW r \in Request, MarksInv(r), ExhaustInv(r), SpreadInv(r), Watch,
           Selectable(r, eligible[r][pos[r]]) = {},
           pc[r] = "pass", pos[r] \in DOMAIN eligible[r], pos' = [pos EXCEPT ![r] = @ + 1],
           UNCHANGED <<pc, round, eligible, preferred, attempted, tries>>
    PROVE  SpreadInv(r)'
<1> DEFINE c0 == eligible[r][pos[r]]
<1>1. CASE round[r] # 1
  BY <1>1 DEF SpreadInv
<1>2. CASE round[r] = 1
  <2>1. ASSUME NEW d, d = c0, HasMore(r, d)' PROVE FALSE
    <3>2. PICK p \in steady'[r] : Owner[p] = c0 /\ tries[r][p] = 0
      BY <2>1 DEF HasMore
    <3>3. p \in steady[r]
      BY WatchEffect
    <3>4. p \in Route /\ p \in available
      BY <3>3 DEF TypeOK, ExhaustInv
    <3>5. p \notin attempted[r] /\ ~(cooldown[r][p] > 0)
      BY <1>2, <3>2, <3>4 DEF MarksInv
    <3>6. cooldown[r][p] = 0
      BY <3>4, <3>5 DEF TypeOK, Timers
    <3>7. QED
      BY <3>2, <3>4, <3>5, <3>6 DEF Selectable, Untried
  <2>2. pos'[r] = pos[r] + 1
    BY DEF TypeOK
  <2>3. ASSUME NEW k
        PROVE  /\ k = c0 => Turn(r, k) = 0 /\ Turn(r, k)' = 1
               /\ k # c0 => Turn(r, k)' = Turn(r, k)
    BY <2>2, TurnVisited DEF MarksInv
  <2> HIDE DEF c0
  <2>4. ASSUME NEW c \in ToSet(eligible[r]), NEW d \in ToSet(eligible[r]), HasMore(r, d)'
        PROVE  Turn(r, c) - Turn(r, d) <= Turn(r, c)' - Turn(r, d)'
    <3>1. d # c0
      BY <2>1, <2>4
    <3>2. Turn(r, c) \in {0, 1} /\ Turn(r, d) \in {0, 1}
      BY DEF Turn
    <3>3. Turn(r, d)' = Turn(r, d) /\ (Turn(r, c)' = Turn(r, c) \/ Turn(r, c)' = 1)
      BY <2>3, <3>1
    <3>4. QED
      BY <3>2, <3>3
  <2>5. QED
    BY <2>4, SpreadSame DEF SameMarks
<1>3. QED
  BY <1>1, <1>2

\* A pass starts when none or all of the channels have been visited.
LEMMA SpreadPass ==
    ASSUME TypeOK, NEW r \in Request, SpreadInv(r), Watch, SameMarks(r), NewPass(r),
           eligible' = eligible, preferred' = preferred,
           \/ pc[r] = "round" /\ (round[r] = 1 => pos[r] = 0)
           \/ pc[r] \in {"pass", "wait"} /\ pos[r] > Len(eligible[r])
    PROVE  SpreadInv(r)'
<1>1. pos'[r] = 1 /\ pc'[r] = "pass" /\ pc[r] \notin Attempting /\ "pass" \notin Attempting
  BY NewPassEffect DEF Attempting
<1>2. /\ pos[r] \in Nat /\ Len(eligible[r]) \in Nat
      /\ \A i \in DOMAIN eligible[r] : i \in Nat /\ i >= 1 /\ i <= Len(eligible[r])
  BY DEF TypeOK
<1>3. CASE round[r] # 1
  BY <1>3 DEF SpreadInv, SameMarks
<1>4. CASE round[r] = 1
  <2>1. ASSUME NEW c PROVE Turn(r, c)' = 0
    BY <1>1, <1>2 DEF Turn, Visited
  <2>2. ASSUME NEW c \in ToSet(eligible[r]), NEW d \in ToSet(eligible[r])
        PROVE  Turn(r, c) = Turn(r, d)
    <3>1. CASE pos[r] = 0
      BY <1>1, <1>2, <3>1 DEF Turn, Visited
    <3>2. CASE pos[r] > Len(eligible[r])
      <4>1. ASSUME NEW k \in ToSet(eligible[r]) PROVE Visited(r, k)
        <5>1. PICK i \in DOMAIN eligible[r] : eligible[r][i] = k
          BY DEF ToSet
        <5>2. i < pos[r]
          BY <1>2, <3>2
        <5>3. QED
          BY <5>1, <5>2 DEF Visited
      <4>2. QED
        BY <4>1 DEF Turn
    <3>3. QED
      BY <1>4, <3>1, <3>2
  <2>3. ASSUME NEW c \in ToSet(eligible[r]), NEW d \in ToSet(eligible[r])
        PROVE  Turn(r, c) - Turn(r, d) <= Turn(r, c)' - Turn(r, d)'
    <3>1. Turn(r, c) \in {0, 1} /\ Turn(r, d) \in {0, 1}
      BY DEF Turn
    <3>2. QED
      BY <2>1, <2>2, <3>1
  <2>4. QED
    BY <2>3, SpreadSame
<1>5. QED
  BY <1>3, <1>4

\* A step inside an attempt, or one that leaves the visit where it is.
LEMMA SpreadStay ==
    ASSUME TypeOK, NEW r \in Request, SpreadInv(r), Watch, SameMarks(r),
           pc[r] \notin {"idle", "finish", "done"}, eligible' = eligible, preferred' = preferred,
           \A c : Turn(r, c)' = Turn(r, c)
    PROVE  SpreadInv(r)'
<1>1. ASSUME NEW c \in ToSet(eligible[r]), NEW d \in ToSet(eligible[r])
      PROVE  Turn(r, c) - Turn(r, d) <= Turn(r, c)' - Turn(r, d)'
  <2>1. Turn(r, c) \in {0, 1} /\ Turn(r, d) \in {0, 1}
    BY DEF Turn
  <2>2. QED
    BY <2>1
<1>2. QED
  BY <1>1, SpreadSame

LEMMA SpreadStep ==
    ASSUME TypeOK, NEW r \in Request, AttemptInv(r), TriesInv(r), ExhaustInv(r), MarksInv(r),
           SpreadInv(r), Own(r), Watch
    PROVE  SpreadInv(r)'
<1> USE DEF shared, snapshot, loop, GoTo, SameMarks
<1>1. CASE Receive(r)
  <2>1. /\ pos'[r] = 0 /\ pc'[r] \notin Attempting /\ round'[r] = 1
        /\ \A p \in Route : tries'[r][p] = 0
    BY <1>1 DEF TypeOK, Receive, AttemptInv, Attempting
  <2>3. ASSUME NEW c, NEW d PROVE Ahead(r, c, d)' = 0
    <3>1. TriedOf(r, c)' \ {preferred'[r]} = {} /\ TriedOf(r, d)' = {}
      BY <2>1 DEF TriedOf
    <3>2. QED
      BY <3>1, FS_EmptySet DEF Ahead
  <2>4. eligible'[r] \in Seq(Channel)
    <3>1. PICK order \in CandidateOrders : eligible' = [eligible EXCEPT ![r] = Healthy(order)]
      BY <1>1 DEF Receive
    <3>2. QED
      BY <3>1, OrdersType, HealthyType DEF TypeOK
  <2>5. \A i \in DOMAIN eligible'[r] : i \in Nat /\ i >= 1
    BY <2>4
  <2>6. ASSUME NEW c PROVE Turn(r, c)' = 0
    BY <2>1, <2>5 DEF Turn, Visited
  <2>7. QED
    BY <2>3, <2>6 DEF SpreadInv
<1>2. CASE SelectPreferred(r)
  <2>1. preferred[r] \in Route \cup {None}
    BY DEF TypeOK
  <2>2. /\ pc[r] = "preferred" /\ pos[r] = 0 /\ pos' = pos /\ round[r] = 1
        /\ round' = round /\ eligible' = eligible /\ preferred' = preferred
        /\ \A p \in Route : tries[r][p] = 0
    BY <1>2 DEF SelectPreferred, AttemptInv
  <2>3. ASSUME NEW c PROVE Turn(r, c) = 0 /\ Turn(r, c)' = 0
    <3>1. \A i \in DOMAIN eligible[r] : i \in Nat /\ i >= 1
      BY DEF TypeOK
    <3>2. QED
      BY <2>2, <3>1 DEF Turn, Visited
  <2>4. CASE preferred[r] # None /\ Begin(r, preferred[r])
    <3>1. \A q \in Route : q # preferred[r] => tries'[r][q] = 0
      <4>1. CASE tries'[r] = tries[r]
        BY <2>2, <4>1
      <4>2. CASE tries'[r] = [tries[r] EXCEPT ![preferred[r]] = @ + 1]
        BY <2>2, <4>2 DEF TypeOK, Timers
      <4>3. QED
        BY <2>1, <2>4, <4>1, <4>2, BeginEffect
    <3>2. ASSUME NEW c, NEW d PROVE Ahead(r, c, d)' <= 0
      <4>1. TriedOf(r, c)' \ {preferred'[r]} = {}
        BY <2>2, <3>1 DEF TriedOf
      <4>2. Cardinality(TriedOf(r, d)') \in Nat
        <5>1. IsFiniteSet(TriedOf(r, d)')
          BY FS_Subset, TraversalAssumption DEF TriedOf
        <5>2. QED
          BY <5>1, FS_CardinalityType
      <4>3. QED
        BY <4>1, <4>2, FS_EmptySet DEF Ahead
    <3>3. ASSUME NEW c, NEW d PROVE Ahead(r, c, d)' <= 1 /\ Ahead(r, c, d)' <= Turn(r, c)' - Turn(r, d)'
      <4>1. Ahead(r, c, d)' \in Int
        <5>1. IsFiniteSet(TriedOf(r, c)') /\ IsFiniteSet(TriedOf(r, d)')
          BY FS_Subset, TraversalAssumption DEF TriedOf
        <5>2. IsFiniteSet(TriedOf(r, c)' \ {preferred'[r]})
          BY <5>1, FS_Subset
        <5>3. Cardinality(TriedOf(r, c)' \ {preferred'[r]}) \in Nat /\ Cardinality(TriedOf(r, d)') \in Nat
          BY <5>1, <5>2, FS_CardinalityType
        <5>4. QED
          BY <5>3 DEF Ahead
      <4>2. QED
        BY <2>3, <3>2, <4>1
    <3>4. QED
      BY <3>3 DEF SpreadInv
  <2>5. CASE ~(preferred[r] # None /\ Begin(r, preferred[r]))
    <3>1. attempted' = attempted /\ tries' = tries
      BY <1>2, <2>1, <2>5 DEF SelectPreferred
    <3>2. \A c : Turn(r, c)' = Turn(r, c)
      BY <2>3
    <3>3. QED
      BY <2>2, <3>1, <3>2, SpreadStay
  <2>6. QED
    BY <2>4, <2>5
<1>3. CASE StartRound(r)
  <2>1. /\ pc[r] = "round" /\ (round[r] = 1 => pos[r] = 0)
        /\ UNCHANGED <<round, eligible, preferred, attempted, tries>>
    BY <1>3 DEF StartRound, MarksInv
  <2>2. CASE NewPass(r)
    BY <2>1, <2>2, SpreadPass
  <2>3. CASE pc'[r] = "finish"
    BY <2>1, <2>3, SpreadSame
  <2>4. QED
    BY <1>3, <2>2, <2>3 DEF TypeOK, StartRound
<1>4. CASE VisitChannel(r)
  <2>1. /\ pc[r] = "pass" /\ pos[r] \in DOMAIN eligible[r]
        /\ UNCHANGED <<round, eligible, preferred>>
    BY <1>4 DEF TypeOK, VisitChannel, AttemptInv
  <2>2. CASE (\E p \in Selectable(r, eligible[r][pos[r]]) : Begin(r, p)) /\ UNCHANGED pos
    <3>1. PICK p \in Route : Begin(r, p) /\ Owner[p] = eligible[r][pos[r]] /\ p \notin attempted[r]
      BY <2>2 DEF Selectable, Untried
    <3>2. QED
      BY <2>1, <2>2, <3>1, SpreadVisit
  <2>3. CASE /\ Selectable(r, eligible[r][pos[r]]) = {}
             /\ pos' = [pos EXCEPT ![r] = @ + 1]
             /\ UNCHANGED <<pc, attempted, tries>>
    BY <2>1, <2>3, SpreadSkip
  <2>4. QED
    BY <1>4, <2>2, <2>3 DEF VisitChannel
<1>5. CASE PassOver(r)
  <2>1. pos[r] \in DOMAIN eligible[r]
    BY <1>5 DEF TypeOK, PassOver, AttemptInv
  <2>2. RoundsOf(eligible[r][pos[r]]) \in Nat \ {0}
    BY <2>1, RoundsOfType DEF TypeOK
  <2>3. round' = round /\ round[r] # 1
    BY <1>5, <2>2 DEF PassOver
  <2>4. QED
    BY <2>3 DEF SpreadInv
<1>6. CASE EndPass(r) \/ WaitOver(r)
  <2>1. /\ pc[r] \in {"pass", "wait"} /\ pos[r] > Len(eligible[r])
        /\ UNCHANGED <<eligible, preferred, tries>>
    BY <1>6 DEF EndPass, WaitOver, AttemptInv
  <2>2. CASE NewPass(r) /\ UNCHANGED <<round, attempted>>
    BY <2>1, <2>2, SpreadPass
  <2>3. CASE pc'[r] = "wait" /\ pc[r] = "pass" /\ UNCHANGED <<round, attempted, pos>>
    <3>1. \A c : Turn(r, c)' = Turn(r, c)
      BY <2>1, <2>3, TurnSame DEF Attempting
    <3>2. QED
      BY <2>1, <2>3, <3>1, SpreadStay
  <2>4. CASE NextRound(r)
    <3>1. round'[r] = round[r] + 1 /\ round[r] \in Nat \ {0}
      BY <2>4, NextRoundEffect DEF TypeOK
    <3>2. round'[r] # 1
      BY <3>1
    <3>3. QED
      BY <3>2 DEF SpreadInv
  <2>5. QED
    BY <1>6, <2>2, <2>3, <2>4 DEF TypeOK, EndPass, WaitOver
<1>7. CASE Finish(r) \/ SettleSuccess(r)
  <2>1. /\ pc'[r] = "done" /\ pc[r] # "idle"
        /\ UNCHANGED <<round, eligible, preferred, attempted, tries>>
    BY <1>7 DEF TypeOK, Finish, SettleSuccess
  <2>2. QED
    BY <2>1, SpreadSame
<1>8. CASE (\E o \in Classes : Answer(r, o)) \/ Interrupt(r)
  <2>1. pc[r] = "attempt" /\ pc'[r] = "settle"
    BY <1>8 DEF TypeOK, Answer, Interrupt
  <2>2. UNCHANGED <<round, pos, eligible, preferred, attempted, tries>>
    BY <1>8 DEF Answer, Interrupt
  <2>3. \A c : Turn(r, c)' = Turn(r, c)
    BY <2>1, <2>2, TurnSame DEF Attempting
  <2>4. QED
    BY <2>1, <2>2, <2>3, SpreadStay
<1>9. CASE SettleFailure(r) \/ SettleEnded(r) \/ SettleHandled(r)
  <2>1. pc[r] = "settle" /\ pc'[r] = "forget"
    BY <1>9 DEF TypeOK, SettleFailure, SettleEnded, SettleHandled
  <2>2. UNCHANGED <<round, pos, eligible, preferred, attempted, tries>>
    BY <1>9 DEF SettleFailure, SettleEnded, SettleHandled
  <2>3. \A c : Turn(r, c)' = Turn(r, c)
    BY <2>1, <2>2, TurnSame DEF Attempting
  <2>4. QED
    BY <2>1, <2>2, <2>3, SpreadStay
<1>10. CASE Forget(r) \/ Delete(r)
  <2>1. pc[r] \in {"forget", "delete"} /\ UNCHANGED <<round, eligible, preferred, attempted, tries>>
    BY <1>10 DEF Forget, Delete
  <2>2. CASE pc'[r] = "delete" /\ UNCHANGED pos
    <3>1. \A c : Turn(r, c)' = Turn(r, c)
      BY <2>1, <2>2, TurnSame DEF Attempting
    <3>2. QED
      BY <2>1, <2>2, <3>1, SpreadStay
  <2>3. CASE Resume(r)
    <3>1. CASE pc'[r] = "done"
      BY <2>1, <3>1, SpreadSame
    <3>2. CASE pc'[r] \in {"round", "pass"}
      <4>1. \/ pc'[r] = "round" /\ pos[r] = 0 /\ pos'[r] = 0
            \/ pc'[r] = "pass" /\ pos'[r] = pos[r] + 1
        BY <2>3, <3>2, ResumeEffect
      <4>2. \A i \in DOMAIN eligible[r] : i \in Nat /\ i >= 1 /\ pos[r] \in Nat
        BY DEF TypeOK
      <4>3. ASSUME NEW c, NEW i \in DOMAIN eligible[r]
            PROVE  (i < pos'[r] \/ (i = pos'[r] /\ pc'[r] \in Attempting))
                      <=> (i < pos[r] \/ (i = pos[r] /\ pc[r] \in Attempting))
        BY <2>1, <4>1, <4>2 DEF Attempting
      <4>4. \A c : Turn(r, c)' = Turn(r, c)
        BY <2>1, <4>3 DEF Turn, Visited
      <4>5. QED
        BY <2>1, <4>4, SpreadStay
    <3>3. QED
      BY <2>3, <3>1, <3>2, ResumeEffect
  <2>4. QED
    BY <1>10, <2>2, <2>3 DEF TypeOK, Forget, Delete
<1>11. CASE ContextEnds(r)
  <2>1. pc' = pc /\ UNCHANGED <<round, pos, eligible, preferred, attempted, tries>>
    BY <1>11 DEF ContextEnds
  <2>2. \A c : Turn(r, c)' = Turn(r, c)
    BY <2>1, TurnSame
  <2>3. CASE pc[r] = "finish"
    BY <1>11, <2>1, <2>3, SpreadSame
  <2>4. CASE pc[r] # "finish"
    BY <1>11, <2>1, <2>2, <2>4, SpreadStay DEF ContextEnds
  <2>5. QED
    BY <2>3, <2>4
<1>12. QED
  BY <1>1, <1>2, <1>3, <1>4, <1>5, <1>6, <1>7, <1>8, <1>9, <1>10, <1>11 DEF Own, RequestStep

\* A step that leaves the request alone.
LEMMA SpreadKept ==
    ASSUME TypeOK, NEW r \in Request, AttemptInv(r), SpreadInv(r), Watch, SameMarks(r),
           pc'[r] = pc[r], pos'[r] = pos[r], eligible'[r] = eligible[r],
           preferred'[r] = preferred[r]
    PROVE  SpreadInv(r)'
<1>1. CASE pc[r] = "idle"
  <2>1. \A p \in Route : tries'[r][p] = 0
    BY <1>1 DEF AttemptInv, SameMarks
  <2>2. ASSUME NEW c, NEW d PROVE Ahead(r, c, d)' = 0
    <3>1. TriedOf(r, c)' \ {preferred'[r]} = {} /\ TriedOf(r, d)' = {}
      BY <2>1 DEF TriedOf
    <3>2. QED
      BY <3>1, FS_EmptySet DEF Ahead
  <2>3. \A i \in DOMAIN eligible'[r] : i \in Nat /\ i >= 1
    BY DEF TypeOK
  <2>4. ASSUME NEW c PROVE Turn(r, c)' = 0
    BY <1>1, <2>3 DEF AttemptInv, Turn, Visited
  <2>5. QED
    BY <2>2, <2>4 DEF SpreadInv
<1>2. CASE pc[r] \in {"finish", "done"}
  BY <1>2, SpreadSame
<1>3. CASE pc[r] \notin {"idle", "finish", "done"}
  <2>1. \A c : Turn(r, c)' = Turn(r, c)
    BY TurnSame
  <2>2. ASSUME NEW c \in ToSet(eligible[r]), NEW d \in ToSet(eligible[r])
        PROVE  Turn(r, c) - Turn(r, d) <= Turn(r, c)' - Turn(r, d)'
    <3>1. Turn(r, c) \in {0, 1} /\ Turn(r, d) \in {0, 1}
      BY DEF Turn
    <3>2. QED
      BY <2>1, <3>1
  <2>3. QED
    BY <1>3, <2>2, SpreadSame
<1>4. QED
  BY <1>1, <1>2, <1>3

-----------------------------------------------------------------------------
(* The invariant. *)

LEMMA InitInv == Init => IInv
<1> SUFFICES ASSUME Init PROVE IInv
  OBVIOUS
<1>1. TypeOK
  BY InitType
<1>2. ASSUME NEW r \in Request PROVE RequestInv(r)
  <2>1. /\ pc[r] = "idle" /\ eligible[r] = <<>> /\ round[r] = 1 /\ pos[r] = 0
        /\ attempted[r] = {} /\ replies[r] = <<>> /\ outcome[r] = "none" /\ steady[r] = available
        /\ \A p \in Route : tries[r][p] = 0 /\ cooldown[r][p] = 0 /\ limited[r][p] = 0
    BY <1>2 DEF Init
  <2>2. ToSet(<<>>) = {} /\ Len(<<>>) = 0 /\ IsInjective(<<>>)
    BY DEF ToSet, IsInjective
  <2>3. \A p \in Route : RoundsOf(Owner[p]) \in Nat \ {0}
    BY RoundsOfType, TraversalAssumption DEF Channel
  <2>4. AttemptInv(r)
    BY <2>1 DEF AttemptInv, Attempting
  <2>5. RepliesInv(r)
    BY <2>1, <2>2 DEF RepliesInv
  <2>6. TriesInv(r)
    BY <2>1, <2>3 DEF TriesInv
  <2>7. ExhaustInv(r)
    BY <2>1 DEF ExhaustInv, Attempting
  <2>8. MarksInv(r) /\ SpreadInv(r)
    BY <2>1, <2>2 DEF MarksInv, SpreadInv
  <2>9. QED
    BY <2>4, <2>5, <2>6, <2>7, <2>8 DEF RequestInv
<1>3. QED
  BY <1>1, <1>2 DEF IInv

LEMMA RequestStepInv ==
    ASSUME TypeOK, TypeOK', Watch, NEW r \in Request, RequestInv(r), Own(r)
    PROVE  RequestInv(r)'
  BY AttemptStep, RepliesStep, TriesStep, ExhaustStep, MarksStep, SpreadStep DEF RequestInv

LEMMA RequestKeptInv ==
    ASSUME TypeOK, Watch, NEW r \in Request, RequestInv(r), Kept(r)
    PROVE  RequestInv(r)'
<1>1. AttemptInv(r)' /\ RepliesInv(r)' /\ TriesInv(r)'
  BY AttemptKept, RepliesKept, TriesKept DEF RequestInv
<1>2. ExhaustInv(r)' /\ MarksInv(r)'
  BY ExhaustKept, MarksKept DEF RequestInv
<1>3. SpreadInv(r)'
  BY SpreadKept DEF RequestInv, Kept, SameMarks
<1>4. QED
  BY <1>1, <1>2, <1>3 DEF RequestInv

LEMMA RequestTickInv ==
    ASSUME TypeOK, Watch, NEW r \in Request, RequestInv(r), Tick
    PROVE  RequestInv(r)'
<1>1. AttemptInv(r)' /\ RepliesInv(r)' /\ TriesInv(r)'
  BY AttemptTick, RepliesTick, TriesTick DEF RequestInv
<1>2. ExhaustInv(r)' /\ MarksInv(r)'
  BY ExhaustTick, MarksTick DEF RequestInv
<1>3. SpreadInv(r)'
  BY SpreadKept DEF RequestInv, Tick, SameMarks, snapshot
<1>4. QED
  BY <1>1, <1>2, <1>3 DEF RequestInv

LEMMA StutterInv ==
    ASSUME IInv, UNCHANGED vars
    PROVE  IInv'
<1>1. TypeOK'
  BY DEF vars, IInv, TypeOK
<1>2. ASSUME NEW r \in Request PROVE RequestInv(r)'
  <2>1. RequestInv(r) /\ Kept(r)
    BY DEF IInv, vars, Kept
  <2>2. AttemptInv(r)' /\ RepliesInv(r)' /\ TriesInv(r)' /\ MarksInv(r)'
    BY <2>1, AttemptKept, RepliesKept, TriesKept, MarksKept DEF RequestInv
  <2>3. ExhaustInv(r)'
    BY <2>1 DEF RequestInv, ExhaustInv, Owed, vars
  <2>4. SpreadInv(r)'
    BY <2>1 DEF RequestInv, SpreadInv, Ahead, TriedOf, HasMore, Turn, Visited, vars
  <2>5. QED
    BY <2>2, <2>3, <2>4 DEF RequestInv
<1>3. QED
  BY <1>1, <1>2 DEF IInv

LEMMA StepInv == IInv /\ [Next]_vars => IInv'
<1> SUFFICES ASSUME IInv, [Next]_vars PROVE IInv'
  OBVIOUS
<1>1. TypeOK /\ \A r \in Request : RequestInv(r)
  BY DEF IInv
<1>2. TypeOK'
  BY <1>1, StepType DEF RequestInv
<1>3. CASE Next
  <2>1. Watch
    BY <1>3, StepWatched
  <2>2. ASSUME NEW q \in Request, Own(q), NEW r \in Request PROVE RequestInv(r)'
    <3>1. CASE r = q
      BY <1>1, <1>2, <2>1, <2>2, <3>1, RequestStepInv
    <3>2. CASE r # q
      BY <1>1, <2>1, <2>2, <3>2, OthersKept, RequestKeptInv
    <3>3. QED
      BY <3>1, <3>2
  <2>3. ASSUME NEW p \in Route, KeyChanges(p), NEW r \in Request PROVE RequestInv(r)'
    BY <1>1, <2>1, <2>3, KeyChangesKept, RequestKeptInv
  <2>4. ASSUME Tick, NEW r \in Request PROVE RequestInv(r)'
    BY <1>1, <2>1, <2>4, RequestTickInv
  <2>5. QED
    BY <1>2, <1>3, <2>2, <2>3, <2>4 DEF Next, Own, IInv
<1>4. CASE UNCHANGED vars
  BY <1>4, StutterInv
<1>5. QED
  BY <1>3, <1>4

\* The inductive invariant holds in every reachable state.
THEOREM InvCorrect == Spec => []IInv
<1>1. QED
  BY InitInv, StepInv, PTL DEF Spec

\* The variables of the dispatch keep their types.
THEOREM TypeCorrect == Spec => []TypeOK
<1>1. IInv => TypeOK
  BY DEF IInv
<1>2. QED
  BY <1>1, InvCorrect, PTL

\* docs/06 2, docs/18 5: whatever the numbers of rounds, a route is attempted at
\* most once per round and in no more rounds than its channel has.
THEOREM RoundsCorrect == Spec => []AtMostOncePerRound
<1>1. IInv => AtMostOncePerRound
  <2> SUFFICES ASSUME IInv, NEW r \in Request, NEW p \in Route
               PROVE  tries[r][p] <= round[r] /\ tries[r][p] <= RoundsOf(Owner[p])
    BY DEF AtMostOncePerRound
  <2>1. tries[r][p] \in Nat /\ round[r] \in Nat
    BY DEF IInv, TypeOK, Timers
  <2>2. QED
    BY <2>1 DEF IInv, RequestInv, TriesInv
<1>2. QED
  BY <1>1, InvCorrect, PTL

\* docs/18 10: a client gets at most one response, and no route is attempted
\* once anything has been written to it.
THEOREM ReplayCorrect == Spec => []NoReplayAfterReply
<1>1. IInv => NoReplayAfterReply
  BY DEF IInv, RequestInv, RepliesInv, NoReplayAfterReply
<1>2. QED
  BY <1>1, InvCorrect, PTL

\* A request that ends while its context lives has been answered.
THEOREM AnsweredCorrect == Spec => []AnsweredWhileAlive
<1>1. IInv => AnsweredWhileAlive
  BY DEF IInv, RequestInv, RepliesInv, AnsweredWhileAlive
<1>2. QED
  BY <1>1, InvCorrect, PTL

\* docs/18 6: no client sees the 400, 401 or 429 of a single key.
THEOREM KeyFaultCorrect == Spec => []NoKeyFaultShown
<1>1. IInv => NoKeyFaultShown
  BY DEF IInv, RequestInv, RepliesInv, NoKeyFaultShown
<1>2. QED
  BY <1>1, InvCorrect, PTL

\* docs/18 1 and 5: a live request gives up only when every route of its channels
\* that stayed available was tried in every round of its channel.
THEOREM ExhaustedCorrect == Spec => []GivesUpOnlyWhenExhausted
<1>1. IInv => GivesUpOnlyWhenExhausted
  BY DEF IInv, RequestInv, ExhaustInv, Owed, GivesUpOnlyWhenExhausted
<1>2. QED
  BY <1>1, InvCorrect, PTL

\* handler.go:642: in the first round no channel is two routes ahead of one that
\* has a route left.
THEOREM MonopolyCorrect == Spec => []NoMonopoly
<1>1. IInv => NoMonopoly
  <2> SUFFICES ASSUME IInv, NEW r \in Request, round[r] = 1,
                      NEW c \in ToSet(eligible[r]), NEW d \in ToSet(eligible[r]),
                      Cardinality(TriedOf(r, c) \ {preferred[r]}) >= Cardinality(TriedOf(r, d)) + 2,
                      NEW p \in steady[r], Owner[p] = d
               PROVE  tries[r][p] > 0
    BY DEF NoMonopoly
  <2>1. /\ Cardinality(TriedOf(r, c) \ {preferred[r]}) \in Nat
        /\ Cardinality(TriedOf(r, d)) \in Nat
    BY TriedFinite
  <2>2. ~(Ahead(r, c, d) <= 1)
    BY <2>1 DEF Ahead
  <2>3. ~HasMore(r, d)
    BY <2>2 DEF IInv, RequestInv, SpreadInv
  <2>4. tries[r][p] # 0
    BY <2>3 DEF HasMore
  <2>5. tries[r][p] \in Nat
    BY DEF IInv, TypeOK, Timers
  <2>6. QED
    BY <2>4, <2>5
<1>2. QED
  BY <1>1, InvCorrect, PTL

-----------------------------------------------------------------------------
(* The health of the channels. *)

\* Only a settled success, a settled outage and the clock touch a channel.
LEMMA HealthSteps ==
    ASSUME IInv, Next
    PROVE  \/ health' = health
           \/ Tick
           \/ \E r \in Request :
                 /\ pc[r] = "settle" /\ outcome[r] = "success" /\ Owner[current[r]] \in Channel
                 /\ health' = [health EXCEPT ![Owner[current[r]]] = ReportSuccess(@)]
           \/ \E r \in Request :
                 /\ pc[r] = "settle" /\ pc'[r] = "forget" /\ outcome[r] \in AffectsHealth
                 /\ Owner[current[r]] \in Channel
                 /\ health' = [health EXCEPT ![Owner[current[r]]] = ReportFailure(@)]
<1> USE DEF shared, snapshot, loop, GoTo
<1>1. ASSUME NEW r \in Request, pc[r] = "settle" PROVE Owner[current[r]] \in Channel
  <2>1. current[r] \in Route
    BY <1>1 DEF IInv, RequestInv, AttemptInv, Attempting
  <2>2. QED
    BY <2>1, TraversalAssumption DEF Channel
<1>2. ASSUME NEW r \in Request, Receive(r) \/ SelectPreferred(r) \/ StartRound(r) \/ VisitChannel(r)
      PROVE  health' = health
  BY <1>2 DEF Receive, SelectPreferred, StartRound, VisitChannel
<1>3. ASSUME NEW r \in Request, PassOver(r) \/ EndPass(r) \/ WaitOver(r) \/ Finish(r)
      PROVE  health' = health
  BY <1>3 DEF PassOver, EndPass, WaitOver, Finish
<1>4. ASSUME NEW r \in Request, (\E o \in Classes : Answer(r, o)) \/ Interrupt(r) \/ ContextEnds(r)
      PROVE  health' = health
  BY <1>4 DEF Answer, Interrupt, ContextEnds
<1>5. ASSUME NEW r \in Request, SettleEnded(r) \/ SettleHandled(r) \/ Forget(r) \/ Delete(r)
      PROVE  health' = health
  BY <1>5 DEF SettleEnded, SettleHandled, Forget, Delete
<1>6. ASSUME NEW r \in Request, SettleSuccess(r)
      PROVE  /\ pc[r] = "settle" /\ outcome[r] = "success" /\ Owner[current[r]] \in Channel
             /\ health' = [health EXCEPT ![Owner[current[r]]] = ReportSuccess(@)]
  BY <1>1, <1>6 DEF SettleSuccess
<1>7. ASSUME NEW r \in Request, SettleFailure(r)
      PROVE  \/ health' = health
             \/ /\ pc[r] = "settle" /\ pc'[r] = "forget" /\ outcome[r] \in AffectsHealth
                /\ Owner[current[r]] \in Channel
                /\ health' = [health EXCEPT ![Owner[current[r]]] = ReportFailure(@)]
  BY <1>1, <1>7 DEF SettleFailure, IInv, TypeOK
<1>8. ASSUME NEW p \in Route, KeyChanges(p)
      PROVE  health' = health
  BY <1>8 DEF KeyChanges
<1>9. QED
  BY <1>2, <1>3, <1>4, <1>5, <1>6, <1>7, <1>8 DEF Next, RequestStep

\* docs/18 9: a channel is unhealthy exactly when FailureThreshold failures have
\* come with no success in between, whatever requests interleave.
THEOREM HealthCorrect == Spec => []UnhealthyOnlyByFailures
<1>1. Init => UnhealthyOnlyByFailures
  <2>1. NewChannelHealth.healthy /\ NewChannelHealth.failures < FailureThreshold
    BY ChannelHealthAssumption DEF NewChannelHealth
  <2>2. QED
    BY <2>1 DEF Init, UnhealthyOnlyByFailures
<1>2. IInv /\ UnhealthyOnlyByFailures /\ [Next]_vars => UnhealthyOnlyByFailures'
  <2> SUFFICES ASSUME IInv, UnhealthyOnlyByFailures, [Next]_vars, NEW c \in Channel
               PROVE  health'[c].healthy <=> health'[c].failures < FailureThreshold
    BY DEF UnhealthyOnlyByFailures
  <2>1. health \in [Channel -> Healths] /\ health[c] \in Healths
    BY DEF IInv, TypeOK
  <2>2. health[c].healthy <=> health[c].failures < FailureThreshold
    BY DEF UnhealthyOnlyByFailures
  <2>3. ASSUME NEW h \in Healths, h.healthy <=> h.failures < FailureThreshold
        PROVE  /\ ReportSuccess(h).healthy <=> ReportSuccess(h).failures < FailureThreshold
               /\ ReportFailure(h).healthy <=> ReportFailure(h).failures < FailureThreshold
               /\ Recover(h).healthy <=> Recover(h).failures < FailureThreshold
    BY <2>3, ChannelHealthAssumption DEF Healths, ReportSuccess, ReportFailure, Recover
  <2>4. \/ health'[c] = health[c] \/ health'[c] = ReportSuccess(health[c])
        \/ health'[c] = ReportFailure(health[c]) \/ health'[c] = Recover(health[c])
    <3>1. CASE UNCHANGED vars
      BY <3>1 DEF vars
    <3>2. CASE Next
      BY <2>1, <3>2, HealthSteps DEF Tick
    <3>3. QED
      BY <3>1, <3>2
  <2>5. QED
    BY <2>1, <2>2, <2>3, <2>4
<1>3. QED
  BY <1>1, <1>2, InvCorrect, PTL DEF Spec

\* The failures and the reports under way of a channel whose requests go on
\* without an answer of its upstream: a report may be given up.
LEMMA FewerUnreported ==
    ASSUME NEW c \in Channel, TypeOK, BlamedOnlyForOutages,
           health'[c].failures = health[c].failures, outages'[c] = outages[c],
           Unreported(c)' \subseteq Unreported(c)
    PROVE  health'[c].failures + Cardinality(Unreported(c)') <= outages'[c]
<1>1. IsFiniteSet(Unreported(c)) /\ Cardinality(Unreported(c)) \in Nat
  BY UnreportedType
<1>2. /\ Cardinality(Unreported(c)') \in Nat
      /\ Cardinality(Unreported(c)') <= Cardinality(Unreported(c))
  BY <1>1, FS_Subset, FS_CardinalityType
<1>3. health[c].failures \in Nat /\ outages[c] \in Nat
  BY DEF TypeOK, Healths
<1>4. health[c].failures + Cardinality(Unreported(c)) <= outages[c]
  BY DEF BlamedOnlyForOutages
<1>5. QED
  BY <1>1, <1>2, <1>3, <1>4

\* The same for every step that is no answer, success or settled failure.
LEMMA BlamedQuiet ==
    ASSUME TypeOK, BlamedOnlyForOutages, NEW r \in Request, Own(r), NEW c \in Channel,
           health' = health, outages' = outages,
           pc[r] = "settle" \/ pc'[r] # "settle" \/ outcome'[r] \notin Outage,
           pc'[r] # "settle" \/ outcome'[r] \notin Outage \/ UNCHANGED <<pc, outcome, current>>
    PROVE  health'[c].failures + Cardinality(Unreported(c)') <= outages'[c]
<1>1. ASSUME NEW q \in Request, q \in Unreported(c)' PROVE q \in Unreported(c)
  <2>1. CASE q = r
    BY <1>1, <2>1 DEF Unreported
  <2>2. CASE q # r
    BY <1>1, <2>2, OthersKept DEF Unreported, Kept
  <2>3. QED
    BY <2>1, <2>2
<1>2. Unreported(c)' \subseteq Unreported(c)
  BY <1>1 DEF Unreported
<1>3. QED
  BY <1>2, FewerUnreported

LEMMA BlamedAnswer ==
    ASSUME TypeOK, BlamedOnlyForOutages, NEW r \in Request, AttemptInv(r), NEW o \in Classes,
           Answer(r, o), NEW c \in Channel
    PROVE  health'[c].failures + Cardinality(Unreported(c)') <= outages'[c]
<1>1. /\ pc[r] = "attempt" /\ pc'[r] = "settle" /\ outcome'[r] = o /\ current' = current
      /\ health' = health /\ Own(r)
  BY DEF TypeOK, Answer, GoTo, Own, RequestStep
<1>2. current[r] \in Route /\ Owner[current[r]] \in Channel
  BY <1>1, TraversalAssumption DEF AttemptInv, Attempting, Channel
<1>3. CASE o \in Outage /\ Owner[current[r]] = c
  <2>1. outages'[c] = outages[c] + 1
    BY <1>2, <1>3 DEF TypeOK, Answer, Hear
  <2>2. r \notin Unreported(c)
    BY <1>1 DEF Unreported
  <2>3. Unreported(c)' \subseteq Unreported(c) \cup {r}
    <3>1. ASSUME NEW q \in Request, q # r, q \in Unreported(c)' PROVE q \in Unreported(c)
      BY <1>1, <3>1, OthersKept DEF Unreported, Kept
    <3>2. QED
      BY <3>1 DEF Unreported
  <2>4. /\ IsFiniteSet(Unreported(c)) /\ Cardinality(Unreported(c)) \in Nat
        /\ IsFiniteSet(Unreported(c) \cup {r})
        /\ Cardinality(Unreported(c) \cup {r}) = Cardinality(Unreported(c)) + 1
    BY <2>2, UnreportedType, FS_AddElement
  <2>5. /\ Cardinality(Unreported(c)') \in Nat
        /\ Cardinality(Unreported(c)') <= Cardinality(Unreported(c)) + 1
    BY <2>3, <2>4, FS_Subset, FS_CardinalityType
  <2>6. health[c].failures \in Nat /\ outages[c] \in Nat
    BY DEF TypeOK, Healths
  <2>7. health[c].failures + Cardinality(Unreported(c)) <= outages[c]
    BY DEF BlamedOnlyForOutages
  <2>8. QED
    BY <1>1, <2>1, <2>4, <2>5, <2>6, <2>7
<1>4. CASE ~(o \in Outage /\ Owner[current[r]] = c)
  <2>1. outages'[c] = outages[c]
    BY <1>2, <1>4 DEF TypeOK, Answer, Hear
  <2>2. ASSUME NEW q \in Request, q \in Unreported(c)' PROVE q \in Unreported(c)
    <3>1. CASE q = r
      BY <1>1, <1>4, <2>2, <3>1 DEF Unreported
    <3>2. CASE q # r
      BY <1>1, <2>2, <3>2, OthersKept DEF Unreported, Kept
    <3>3. QED
      BY <3>1, <3>2
  <2>3. Unreported(c)' \subseteq Unreported(c)
    BY <2>2 DEF Unreported
  <2>4. QED
    BY <1>1, <2>1, <2>3, FewerUnreported
<1>5. QED
  BY <1>3, <1>4

LEMMA BlamedSuccess ==
    ASSUME TypeOK, BlamedOnlyForOutages, NEW r \in Request, AttemptInv(r), SettleSuccess(r),
           NEW c \in Channel
    PROVE  health'[c].failures + Cardinality(Unreported(c)') <= outages'[c]
<1>1. /\ pc[r] = "settle" /\ outcome[r] = "success" /\ pc'[r] = "done" /\ Own(r)
  BY DEF TypeOK, SettleSuccess, GoTo, Own, RequestStep
<1>2. current[r] \in Route /\ Owner[current[r]] \in Channel
  BY <1>1, TraversalAssumption DEF AttemptInv, Attempting, Channel
<1>3. ASSUME NEW q \in Request PROVE q \in Unreported(c)' <=> q \in Unreported(c)
  <2>1. CASE q = r
    BY <1>1, <2>1 DEF Unreported, Outage
  <2>2. CASE q # r
    BY <1>1, <2>2, OthersKept DEF Unreported, Kept
  <2>3. QED
    BY <2>1, <2>2
<1>4. Unreported(c)' = Unreported(c)
  <2>1. Unreported(c)' \subseteq Request /\ Unreported(c) \subseteq Request
    BY DEF Unreported
  <2>2. QED
    BY <1>3, <2>1
<1>5. CASE Owner[current[r]] = c
  <2>1. health'[c].failures = 0 /\ outages'[c] = Cardinality(Unreported(c))
    BY <1>5 DEF TypeOK, Healths, SettleSuccess, ReportSuccess
  <2>2. QED
    BY <1>4, <2>1, UnreportedType
<1>6. CASE Owner[current[r]] # c
  <2>1. health'[c] = health[c] /\ outages'[c] = outages[c]
    BY <1>6 DEF TypeOK, SettleSuccess
  <2>2. QED
    BY <1>4, <2>1, FewerUnreported
<1>7. QED
  BY <1>5, <1>6

LEMMA BlamedFailure ==
    ASSUME TypeOK, BlamedOnlyForOutages, NEW r \in Request, AttemptInv(r), SettleFailure(r),
           NEW c \in Channel
    PROVE  health'[c].failures + Cardinality(Unreported(c)') <= outages'[c]
<1>1. /\ pc[r] = "settle" /\ pc'[r] = "forget" /\ Own(r)
      /\ outages' = outages
  BY DEF TypeOK, SettleFailure, GoTo, Own, RequestStep
<1>2. current[r] \in Route /\ Owner[current[r]] \in Channel
  BY <1>1, TraversalAssumption DEF AttemptInv, Attempting, Channel
<1>3. ASSUME NEW q \in Request, q \in Unreported(c)' PROVE q \in Unreported(c) /\ q # r
  <2>1. q # r
    BY <1>1, <1>3 DEF Unreported
  <2>2. QED
    BY <1>1, <1>3, <2>1, OthersKept DEF Unreported, Kept
<1>4. Unreported(c)' \subseteq Unreported(c) \ {r}
  BY <1>3 DEF Unreported
<1>5. CASE outcome[r] \in AffectsHealth /\ Owner[current[r]] = c
  <2>1. health'[c].failures = health[c].failures + 1
    BY <1>5 DEF TypeOK, Healths, SettleFailure, ReportFailure
  <2>2. r \in Unreported(c)
    BY <1>1, <1>5 DEF Unreported, Outage, AffectsHealth
  <2>3. /\ IsFiniteSet(Unreported(c)) /\ Cardinality(Unreported(c)) \in Nat
        /\ IsFiniteSet(Unreported(c) \ {r})
        /\ Cardinality(Unreported(c) \ {r}) = Cardinality(Unreported(c)) - 1
    BY <2>2, UnreportedType, FS_RemoveElement
  <2>4. /\ Cardinality(Unreported(c)') \in Nat
        /\ Cardinality(Unreported(c)') <= Cardinality(Unreported(c)) - 1
    BY <1>4, <2>3, FS_Subset, FS_CardinalityType
  <2>5. health[c].failures \in Nat /\ outages[c] \in Nat
    BY DEF TypeOK, Healths
  <2>6. health[c].failures + Cardinality(Unreported(c)) <= outages[c]
    BY DEF BlamedOnlyForOutages
  <2>7. QED
    BY <1>1, <2>1, <2>3, <2>4, <2>5, <2>6
<1>6. CASE ~(outcome[r] \in AffectsHealth /\ Owner[current[r]] = c)
  <2>1. health'[c] = health[c]
    BY <1>6 DEF TypeOK, SettleFailure
  <2>2. QED
    BY <1>1, <1>4, <2>1, FewerUnreported
<1>7. QED
  BY <1>5, <1>6

\* docs/18 9: for any number of concurrent requests, a channel is never blamed for
\* more than the outages that it answered with since its last success, counting
\* those that were on their way when the success was reported.
THEOREM BlamedCorrect == Spec => []BlamedOnlyForOutages
<1>1. Init => BlamedOnlyForOutages
  <2> SUFFICES ASSUME Init, NEW c \in Channel
               PROVE  health[c].failures + Cardinality(Unreported(c)) <= outages[c]
    BY DEF BlamedOnlyForOutages
  <2>1. Unreported(c) = {}
    BY DEF Init, Unreported
  <2>2. health[c].failures = 0 /\ outages[c] = 0
    BY DEF Init, NewChannelHealth
  <2>3. QED
    BY <2>1, <2>2, FS_EmptySet
<1>2. IInv /\ BlamedOnlyForOutages /\ [Next]_vars => BlamedOnlyForOutages'
  <2> SUFFICES ASSUME IInv, BlamedOnlyForOutages, [Next]_vars, NEW c \in Channel
               PROVE  health'[c].failures + Cardinality(Unreported(c)') <= outages'[c]
    BY DEF BlamedOnlyForOutages
  <2>1. TypeOK /\ \A r \in Request : AttemptInv(r)
    BY DEF IInv, RequestInv
  <2>2. ASSUME NEW r \in Request, Own(r)
        PROVE  health'[c].failures + Cardinality(Unreported(c)') <= outages'[c]
    <3> USE DEF shared, snapshot, loop, GoTo
    <3>1. CASE Receive(r) \/ SelectPreferred(r) \/ StartRound(r) \/ VisitChannel(r) \/ PassOver(r)
      <4>1. pc'[r] # "settle" /\ health' = health /\ outages' = outages
        BY <2>1, <3>1 DEF TypeOK, Receive, SelectPreferred, StartRound, VisitChannel, PassOver,
           Begin, NewPass
      <4>2. QED
        BY <2>1, <2>2, <4>1, BlamedQuiet
    <3>2. CASE EndPass(r) \/ WaitOver(r) \/ Finish(r)
      <4>1. pc'[r] # "settle" /\ health' = health /\ outages' = outages
        BY <2>1, <3>2 DEF TypeOK, EndPass, WaitOver, Finish, NewPass, NextRound
      <4>2. QED
        BY <2>1, <2>2, <4>1, BlamedQuiet
    <3>3. CASE SettleEnded(r) \/ SettleHandled(r) \/ Forget(r) \/ Delete(r)
      <4>1. pc'[r] # "settle" /\ health' = health /\ outages' = outages
        BY <2>1, <3>3 DEF TypeOK, SettleEnded, SettleHandled, Forget, Delete, Resume
      <4>2. QED
        BY <2>1, <2>2, <4>1, BlamedQuiet
    <3>4. CASE Interrupt(r)
      <4>1. PICK e \in ContextErrors(r) : outcome' = [outcome EXCEPT ![r] = e]
        BY <3>4 DEF Interrupt
      <4>2. outcome'[r] \notin Outage /\ health' = health /\ outages' = outages
        BY <2>1, <3>4, <4>1, ContextErrorType DEF TypeOK, Interrupt, Outage
      <4>3. QED
        BY <2>1, <2>2, <4>2, BlamedQuiet
    <3>5. CASE ContextEnds(r)
      <4>1. UNCHANGED <<pc, outcome, current, health, outages>>
        BY <3>5 DEF ContextEnds
      <4>2. QED
        BY <2>1, <2>2, <4>1, BlamedQuiet
    <3>6. CASE \E o \in Classes : Answer(r, o)
      BY <2>1, <3>6, BlamedAnswer
    <3>7. CASE SettleSuccess(r)
      BY <2>1, <3>7, BlamedSuccess
    <3>8. CASE SettleFailure(r)
      BY <2>1, <3>8, BlamedFailure
    <3>9. QED
      BY <2>2, <3>1, <3>2, <3>3, <3>4, <3>5, <3>6, <3>7, <3>8 DEF Own, RequestStep
  <2>3. ASSUME UNCHANGED <<pc, outcome, current, outages>>, health'[c].failures = health[c].failures
        PROVE  health'[c].failures + Cardinality(Unreported(c)') <= outages'[c]
    <3>1. Unreported(c)' \subseteq Unreported(c)
      BY <2>3 DEF Unreported
    <3>2. QED
      BY <2>1, <2>3, <3>1, FewerUnreported
  <2>4. CASE \E p \in Route : KeyChanges(p)
    BY <2>3, <2>4 DEF KeyChanges
  <2>5. CASE Tick
    <3>1. health'[c].failures = health[c].failures
      BY <2>1, <2>5 DEF TypeOK, Healths, Tick, Recover
    <3>2. QED
      BY <2>3, <2>5, <3>1 DEF Tick
  <2>6. CASE UNCHANGED vars
    BY <2>3, <2>6 DEF vars
  <2>7. QED
    BY <2>2, <2>4, <2>5, <2>6 DEF Next, Own
<1>3. QED
  BY <1>1, <1>2, InvCorrect, PTL DEF Spec

-----------------------------------------------------------------------------
(* Cooldowns. *)

LEMMA CoolingStep ==
    ASSUME TypeOK, NEW r \in Request, AttemptInv(r), CoolingInv(r), Own(r)
    PROVE  CoolingInv(r)'
<1> USE DEF shared, snapshot, loop, GoTo
<1>1. ctx'[r] = "alive" => ctx[r] = "alive"
  <2>1. CASE ContextEnds(r)
    BY <2>1 DEF ContextEnds
  <2>2. CASE ~ContextEnds(r)
    BY <2>2 DEF Own, RequestStep, Receive, SelectPreferred, StartRound, VisitChannel, PassOver, EndPass,
       WaitOver, Finish, Answer, Interrupt, SettleSuccess, SettleFailure, SettleEnded, SettleHandled,
       Forget, Delete
  <2>3. QED
    BY <2>1, <2>2
<1>2. \A p \in Route : limited[r][p] \in Nat /\ cooldown[r][p] \in Nat
  BY DEF TypeOK, Timers
<1>3. ASSUME limited' = limited, cooldown' = cooldown, dropped' = dropped,
             pc[r] # "settle" \/ outcome[r] \notin Limiting
      PROVE  CoolingInv(r)'
  BY <1>1, <1>3 DEF CoolingInv
<1>4. CASE Receive(r) \/ SelectPreferred(r) \/ StartRound(r) \/ VisitChannel(r) \/ PassOver(r)
  BY <1>3, <1>4 DEF Receive, SelectPreferred, StartRound, VisitChannel, PassOver
<1>5. CASE EndPass(r) \/ WaitOver(r) \/ Finish(r) \/ Interrupt(r)
  BY <1>3, <1>5 DEF EndPass, WaitOver, Finish, Interrupt
<1>6. CASE SettleSuccess(r) \/ SettleHandled(r) \/ Forget(r) \/ Delete(r)
  BY <1>3, <1>6 DEF SettleSuccess, SettleHandled, Forget, Delete, Limiting, Handled
<1>7. CASE ContextEnds(r)
  BY <1>7 DEF TypeOK, ContextEnds, CoolingInv
<1>8. CASE SettleEnded(r)
  <2>1. UNCHANGED <<limited, cooldown, current>> /\ pc[r] = "settle"
    BY <1>8 DEF SettleEnded
  <2>2. CASE outcome[r] \in Limiting
    <3>1. dropped'[r] = dropped[r] \cup {current[r]}
      BY <1>8, <2>2 DEF TypeOK, SettleEnded
    <3>2. QED
      BY <1>1, <2>1, <3>1 DEF CoolingInv
  <2>3. CASE outcome[r] \notin Limiting
    <3>1. dropped' = dropped
      BY <1>8, <2>3 DEF SettleEnded
    <3>2. QED
      BY <1>1, <2>1, <2>3, <3>1 DEF CoolingInv
  <2>4. QED
    BY <2>2, <2>3
<1>9. CASE \E o \in Classes : Answer(r, o)
  <2>1. PICK o \in Classes : Answer(r, o)
    BY <1>9
  <2>2. /\ pc[r] = "attempt" /\ pc'[r] = "settle" /\ outcome'[r] = o
        /\ current' = current /\ cooldown' = cooldown
    BY <2>1 DEF TypeOK, Answer
  <2>3. CASE o \notin Limiting
    BY <1>1, <2>1, <2>2, <2>3 DEF Answer, Hear, CoolingInv
  <2>4. CASE o \in Limiting
    <3>1. \A p \in Route : p # current[r] => limited'[r][p] = limited[r][p]
      BY <2>1, <2>4 DEF TypeOK, Timers, Answer, Hear
    <3>2. dropped'[r] = dropped[r] \ {current[r]}
      BY <2>1, <2>4 DEF TypeOK, Answer, Hear
    <3>3. QED
      BY <1>1, <2>2, <2>4, <3>1, <3>2 DEF CoolingInv
  <2>5. QED
    BY <2>3, <2>4
<1>10. CASE SettleFailure(r)
  <2>1. pc[r] = "settle" /\ current[r] \in Route /\ limited' = limited /\ dropped' = dropped
    BY <1>10 DEF SettleFailure, AttemptInv, Attempting
  <2>2. \A p \in Route :
           cooldown'[r][p] = IF p = current[r] /\ outcome[r] \in Limiting /\ limited[r][p] > 0
                             THEN limited[r][p] ELSE cooldown[r][p]
    BY <1>10, <2>1 DEF TypeOK, Timers, SettleFailure
  <2>3. QED
    BY <1>1, <1>2, <2>1, <2>2 DEF CoolingInv
<1>11. QED
  BY <1>4, <1>5, <1>6, <1>7, <1>8, <1>9, <1>10 DEF Own, RequestStep

LEMMA CoolingInvStep ==
    ASSUME IInv, \A r \in Request : CoolingInv(r), [Next]_vars
    PROVE  \A r \in Request : CoolingInv(r)'
<1> TAKE r \in Request
<1>1. TypeOK /\ AttemptInv(r) /\ CoolingInv(r)
  BY DEF IInv, RequestInv
<1>2. ASSUME Kept(r) PROVE CoolingInv(r)'
  BY <1>1, <1>2 DEF Kept, CoolingInv
<1>3. ASSUME NEW q \in Request, Own(q) PROVE CoolingInv(r)'
  <2>1. CASE q = r
    BY <1>1, <1>3, <2>1, CoolingStep
  <2>2. CASE q # r
    BY <1>1, <1>2, <1>3, <2>2, OthersKept
  <2>3. QED
    BY <2>1, <2>2
<1>4. ASSUME NEW p \in Route, KeyChanges(p) PROVE CoolingInv(r)'
  BY <1>2, <1>4, KeyChangesKept
<1>5. CASE Tick
  <2>1. \A p \in Route :
           /\ limited[r][p] \in Nat /\ cooldown[r][p] \in Nat
           /\ limited'[r][p] = Down(limited[r][p]) /\ cooldown'[r][p] = Down(cooldown[r][p])
    BY <1>1, <1>5 DEF TypeOK, Timers, Tick
  <2>2. \A p \in Route : limited[r][p] <= cooldown[r][p] => limited'[r][p] <= cooldown'[r][p]
    BY <2>1 DEF Down
  <2>3. QED
    BY <1>1, <1>5, <2>2 DEF Tick, CoolingInv
<1>6. CASE UNCHANGED vars
  BY <1>2, <1>6 DEF vars, Kept
<1>7. QED
  BY <1>3, <1>4, <1>5, <1>6 DEF Next, Own

\* docs/18 7: a request that got a 400 or a 429 from a route attempts it again only
\* after the cooldown counted from that answer, over all passes and rounds, unless
\* the deadline of the route's channel had passed when the answer was settled.
THEOREM CooldownCorrect == Spec => CooldownRespected
<1> DEFINE Cooling == \A r \in Request : CoolingInv(r)
           Respects == \A r \in Request, p \in Route : tries'[r][p] > tries[r][p] =>
                        limited[r][p] = 0 \/ p \in dropped[r]
<1>1. Init => Cooling
  BY DEF Init, CoolingInv
<1>2. IInv /\ Cooling /\ [Next]_vars => Cooling'
  BY CoolingInvStep
<1>3. IInv /\ Cooling /\ [Next]_vars => [Respects]_vars
  <2> SUFFICES ASSUME IInv, Cooling, Next, NEW r \in Request, NEW p \in Route,
                      tries'[r][p] > tries[r][p]
               PROVE  limited[r][p] = 0 \/ p \in dropped[r]
    OBVIOUS
  <2>1. TypeOK /\ AttemptInv(r) /\ CoolingInv(r)
    BY DEF IInv, RequestInv
  <2>2. tries[r][p] \in Nat /\ limited[r][p] \in Nat /\ tries'[r] # tries[r]
    BY <2>1 DEF TypeOK, Timers
  <2>3. Own(r)
    <3>1. ~Tick /\ \A k \in Route : ~KeyChanges(k)
      BY <2>2 DEF Tick, KeyChanges
    <3>2. \A q \in Request : Own(q) => q = r
      BY <2>1, <2>2, OthersKept DEF Kept
    <3>3. QED
      BY <3>1, <3>2 DEF Next, Own
  <2>4. CASE SelectPreferred(r)
    BY <2>1, <2>4 DEF SelectPreferred, AttemptInv
  <2>5. CASE VisitChannel(r)
    <3>1. PICK k \in Selectable(r, eligible[r][pos[r]]) : Begin(r, k)
      BY <2>2, <2>5 DEF VisitChannel
    <3>2. k \in Route /\ cooldown[r][k] = 0
      BY <3>1 DEF Selectable, Untried
    <3>3. ctx[r] = "alive" /\ tries'[r] = [tries[r] EXCEPT ![k] = @ + 1]
      BY <2>1, <2>2, <3>1, <3>2, BeginEffect
    <3>4. p = k
      BY <2>1, <2>2, <3>3 DEF TypeOK, Timers
    <3>5. limited[r][p] <= cooldown[r][p] \/ p \in dropped[r]
      BY <2>1, <2>5, <3>3 DEF CoolingInv, VisitChannel
    <3>6. QED
      BY <2>2, <3>2, <3>4, <3>5
  <2>6. CASE Receive(r) \/ StartRound(r) \/ PassOver(r) \/ EndPass(r) \/ WaitOver(r) \/ Finish(r)
    BY <2>2, <2>6 DEF Receive, StartRound, PassOver, EndPass, WaitOver, Finish
  <2>7. CASE (\E o \in Classes : Answer(r, o)) \/ Interrupt(r) \/ SettleSuccess(r) \/ SettleFailure(r)
    BY <2>2, <2>7 DEF Answer, Interrupt, SettleSuccess, SettleFailure
  <2>8. CASE SettleEnded(r) \/ SettleHandled(r) \/ Forget(r) \/ Delete(r) \/ ContextEnds(r)
    BY <2>2, <2>8 DEF SettleEnded, SettleHandled, Forget, Delete, ContextEnds
  <2>9. QED
    BY <2>3, <2>4, <2>5, <2>6, <2>7, <2>8 DEF Own, RequestStep
<1> HIDE DEF Cooling
<1>4. Spec => []Cooling
  BY <1>1, <1>2, InvCorrect, PTL DEF Spec
<1>5. QED
  BY <1>3, <1>4, InvCorrect, PTL DEF Spec, CooldownRespected

=============================================================================
