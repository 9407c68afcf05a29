----------------------------- MODULE FanoutProofs -----------------------------
(***************************************************************************)
(* Safety of a fanout for every number of keys, and that it implements the  *)
(* abstract race.                                                            *)
(***************************************************************************)
EXTENDS FanoutProps, SequenceTheorems, TLAPS

-----------------------------------------------------------------------------
(* Lemmas about the results channel. *)

\* Receiving takes one element out of the channel.
LEMMA Receiving ==
    ASSUME NEW S, NEW s \in Seq(S), s # <<>>
    PROVE  /\ Head(s) \in S
           /\ Tail(s) \in Seq(S)
           /\ ToSet(s) = {Head(s)} \cup ToSet(Tail(s))
           /\ IsInjective(s) => IsInjective(Tail(s)) /\ Head(s) \notin ToSet(Tail(s))
<1> DEFINE t == Tail(s)
<1>1. /\ Len(s) \in Nat \ {0}
      /\ Head(s) = s[1] /\ Head(s) \in S
      /\ t \in Seq(S) /\ Len(t) = Len(s) - 1
      /\ \A i \in 1 .. Len(s) - 1 : t[i] = s[i + 1]
  BY HeadTailProperties
<1>2. DOMAIN s = 1 .. Len(s) /\ DOMAIN t = 1 .. Len(s) - 1
  BY <1>1
<1> HIDE DEF t
<1>3. \A i \in 1 .. Len(s) : i = 1 \/ (i - 1 \in 1 .. Len(s) - 1 /\ s[i] = t[i - 1])
  BY <1>1
<1>4. ToSet(s) = {s[1]} \cup ToSet(t)
  <2>1. 1 \in 1 .. Len(s) /\ \A i \in 1 .. Len(s) - 1 : i + 1 \in 1 .. Len(s)
    BY <1>1
  <2>2. \A x : x \in ToSet(s) <=> \E i \in 1 .. Len(s) : x = s[i]
    BY <1>2 DEF ToSet
  <2>3. \A x : x \in ToSet(t) <=> \E i \in 1 .. Len(s) - 1 : x = t[i]
    BY <1>2 DEF ToSet
  <2>4. \A x : x \in ToSet(s) => x \in {s[1]} \cup ToSet(t)
    BY <1>3, <2>2, <2>3
  <2>5. \A x : x \in {s[1]} \cup ToSet(t) => x \in ToSet(s)
    BY <1>1, <2>1, <2>2, <2>3
  <2>6. QED
    BY <2>4, <2>5
<1>5. ASSUME IsInjective(s)
      PROVE  IsInjective(t) /\ s[1] \notin ToSet(t)
  <2>1. \A i, j \in 1 .. Len(s) : s[i] = s[j] => i = j
    BY <1>2, <1>5 DEF IsInjective
  <2>2. \A i \in 1 .. Len(s) - 1 : i + 1 \in 1 .. Len(s) /\ i + 1 # 1 /\ 1 \in 1 .. Len(s)
    BY <1>1
  <2>3. \A i \in 1 .. Len(s) - 1 : t[i] # s[1]
    BY <1>1, <2>1, <2>2
  <2>4. \A i, j \in 1 .. Len(s) - 1 : t[i] = t[j] => i = j
    <3> SUFFICES ASSUME NEW i \in 1 .. Len(s) - 1, NEW j \in 1 .. Len(s) - 1, t[i] = t[j]
                 PROVE  i = j
      OBVIOUS
    <3>1. i + 1 = j + 1
      BY <1>1, <2>1, <2>2
    <3>2. QED
      BY <3>1
  <2>5. QED
    BY <1>2, <2>3, <2>4 DEF IsInjective, ToSet
<1>6. ToSet(s) = {Head(s)} \cup ToSet(t) /\ (IsInjective(s) => IsInjective(t) /\ Head(s) \notin ToSet(t))
  BY <1>1, <1>4, <1>5
<1>7. QED
  BY <1>1, <1>6 DEF t

\* Sending adds one.
LEMMA Sending ==
    ASSUME NEW S, NEW s \in Seq(S), NEW e \in S
    PROVE  /\ Append(s, e) \in Seq(S)
           /\ ToSet(Append(s, e)) = ToSet(s) \cup {e}
           /\ IsInjective(s) /\ e \notin ToSet(s) => IsInjective(Append(s, e))
<1> DEFINE t == Append(s, e)
<1>1. /\ t \in Seq(S)
      /\ Len(s) \in Nat /\ Len(t) = Len(s) + 1
      /\ \A j \in 1 .. Len(s) : t[j] = s[j]
      /\ t[Len(s) + 1] = e
  OBVIOUS
<1>2. DOMAIN t = 1 .. Len(s) + 1 /\ DOMAIN s = 1 .. Len(s)
  BY <1>1
<1> HIDE DEF t
<1>3. ToSet(t) = ToSet(s) \cup {e}
  BY <1>1, <1>2 DEF ToSet
<1>4. ASSUME IsInjective(s), e \notin ToSet(s)
      PROVE  IsInjective(t)
  BY <1>1, <1>2, <1>4 DEF IsInjective, ToSet
<1>5. QED
  BY <1>1, <1>3, <1>4 DEF t

\* Telling the pool of one more result of x.
LEMMA Telling ==
    ASSUME NEW S, NEW T, NEW f \in [S -> Seq(T)], NEW x \in S, NEW e \in T
    PROVE  [f EXCEPT ![x] = Append(@, e)] \in [S -> Seq(T)]
<1>1. Append(f[x], e) \in Seq(T)
  BY Sending
<1>2. QED
  BY <1>1

\* What is in a sequence over S belongs to S, and nothing is in the empty one.
LEMMA Contents ==
    ASSUME NEW S, NEW s \in Seq(S)
    PROVE  /\ ToSet(s) \subseteq S
           /\ s = <<>> <=> ToSet(s) = {}
           /\ s # <<>> => Last(s) \in ToSet(s)
<1>1. Len(s) \in Nat /\ DOMAIN s = 1 .. Len(s) /\ (s = <<>> <=> Len(s) = 0)
  OBVIOUS
<1>2. \A i \in 1 .. Len(s) : s[i] \in S
  OBVIOUS
<1>3. \A x : x \in ToSet(s) <=> \E i \in 1 .. Len(s) : x = s[i]
  BY <1>1 DEF ToSet
<1>4. ToSet(s) \subseteq S
  BY <1>2, <1>3
<1>5. Len(s) # 0 => 1 \in 1 .. Len(s) /\ Len(s) \in 1 .. Len(s)
  BY <1>1
<1>6. s # <<>> => Last(s) \in ToSet(s) /\ ToSet(s) # {}
  BY <1>1, <1>3, <1>5 DEF Last
<1>7. s = <<>> => ToSet(s) = {}
  BY <1>1, <1>3, \A i : i \notin 1 .. 0
<1>8. QED
  BY <1>4, <1>6, <1>7

-----------------------------------------------------------------------------
(* Types. *)

\* What the pool is told is of its type.
LEMMA ReportedType ==
    ASSUME TypeOK, NEW w \in Worker
    PROVE  /\ Reported(w) \in [Worker -> Seq(AllResults \cup {"streamBroken"})]
           /\ \A v \in Worker : v # w => Reported(w)[v] = reports[v]
           /\ result[w] = "canceled" => Reported(w)[w] = reports[w]
           /\ Len(Reported(w)[w]) <= Len(reports[w]) + 1
           /\ Len(reports[w]) \in Nat
<1>1. Normalized(result[w]) \in AllResults
  BY DEF TypeOK, Normalized, AllResults, FailureStatuses
<1>2. reports \in [Worker -> Seq(AllResults \cup {"streamBroken"})]
  BY DEF TypeOK
<1>3. QED
  BY <1>1, <1>2 DEF Reported

LEMMA InitType == Init => TypeOK
<1> SUFFICES ASSUME Init PROVE TypeOK
  OBVIOUS
<1>1. mode \in {"first", "all", "stream"}
  BY FanoutAssumption DEF Init
<1>2. \A S : <<>> \in Seq(S)
  OBVIOUS
<1>3. reports \in [Worker -> Seq(AllResults \cup {"streamBroken"})]
  BY <1>2 DEF Init
<1>4. result \in [Worker -> AllResults] /\ body \in [Worker -> {"none", "open", "closed"}]
  BY DEF Init, AllResults
<1>5. QED
  BY <1>1, <1>2, <1>3, <1>4 DEF Init, TypeOK

LEMMA TypeStep == TypeOK /\ PhaseInv /\ [Next]_vars => TypeOK'
<1> SUFFICES ASSUME TypeOK, PhaseInv, [Next]_vars PROVE TypeOK'
  OBVIOUS
<1> USE DEF TypeOK, collecting
<1>1. ToSet(queue) \subseteq workers /\ ToSet(collected) \subseteq workers
  BY Contents
<1>a. \A e \in AllResults \cup {"localError", "badGateway"} :
         Append(replies, e) \in Seq(AllResults \cup {"localError", "badGateway"})
  BY Sending
<1>b. \A e \in {"success", "failure"} : Append(told, e) \in Seq({"success", "failure"})
  BY Sending
<1>2. ASSUME NEW w \in Worker, Respond(w)
      PROVE  TypeOK'
  <2>1. result' \in [Worker -> AllResults] /\ w \in workers
    BY <1>2, FanoutAssumption DEF Respond, AllResults
  <2>2. queue' \in Seq(workers)
    BY <1>2, <2>1, Sending DEF Respond
  <2>3. cancelled' \subseteq workers /\ body' \in [Worker -> {"none", "open", "closed"}]
    BY <1>2, <2>1 DEF Respond
  <2>4. QED
    BY <1>2, <2>1, <2>2, <2>3 DEF Respond
<1>3. CASE Take
  <2> DEFINE w == Head(queue)
  <2>1. w \in workers /\ queue' \in Seq(workers)
    BY <1>3, Receiving DEF Take
  <2>2. w \in Worker /\ Reported(w) \in [Worker -> Seq(AllResults \cup {"streamBroken"})]
    BY <2>1, ReportedType
  <2>3. CASE result[w] = "ok" /\ TakeWinner(w)
                /\ reports' = (IF mode = "first" THEN Reported(w) ELSE reports)
                /\ UNCHANGED <<body, collecting>>
    <3> HIDE DEF w
    <3>1. /\ winner' \in workers /\ pc' = "answer" /\ cancelled' \subseteq workers /\ drain' = "on"
          /\ reports' \in [Worker -> Seq(AllResults \cup {"streamBroken"})]
      BY <2>1, <2>2, <2>3 DEF TakeWinner
    <3>2. QED
      BY <1>3, <2>1, <2>3, <3>1 DEF Take
  <2>4. CASE result[w] # "ok" /\ TakeLoser(w) /\ UNCHANGED <<pc, winner, drain, collected>>
    <3> HIDE DEF w
    <3>1. last' \in FailureStatuses \cup {"network"}
      BY <2>2, <2>4 DEF TakeLoser, Responded, AllResults
    <3>2. blame' \in BOOLEAN /\ bad' \in BOOLEAN
      BY <2>4 DEF TakeLoser, Blames
    <3>3. /\ cancelled' \subseteq workers /\ body' \in [Worker -> {"none", "open", "closed"}]
          /\ reports' \in [Worker -> Seq(AllResults \cup {"streamBroken"})]
      BY <2>1, <2>2, <2>4 DEF TakeLoser
    <3>4. QED
      BY <1>3, <2>1, <2>4, <3>1, <3>2, <3>3 DEF Take
  <2>5. QED
    BY <1>3, <2>3, <2>4 DEF Take
<1>4. CASE AllFailed
  BY <1>4 DEF AllFailed
<1>5. CASE Collect
  <2>1. Head(queue) \in workers /\ queue' \in Seq(workers)
    BY <1>5, Receiving DEF Collect
  <2>2. collected' \in Seq(workers)
    BY <1>5, <2>1, Sending DEF Collect
  <2>3. QED
    BY <1>5, <2>1, <2>2 DEF Collect
<1>6. CASE Choose
  <2> DEFINE good == {w \in ToSet(collected) : result[w] = "ok"}
  <2>1. reports' \in [Worker -> Seq(AllResults \cup {"streamBroken"})]
    <3>1. \A w \in Worker : Reported(w)[w] \in Seq(AllResults \cup {"streamBroken"})
      BY ReportedType
    <3>2. QED
      BY <1>6, <3>1 DEF Choose
  <2>2. CASE good # {} /\ winner' \in good /\ pc' = "answer" /\ UNCHANGED <<last, blame, bad>>
    BY <1>1, <1>6, <2>1, <2>2 DEF Choose
  <2>3. CASE /\ good = {} /\ winner' = Nobody /\ pc' = "fail"
             /\ bad' = (\E w \in ToSet(collected) : result[w] = "badRequest")
             /\ blame' = (\E w \in ToSet(collected) : Blames(w))
             /\ last' = IF collected # <<>> /\ Responded(Last(collected))
                        THEN result[Last(collected)] ELSE "network"
    <3>1. last' \in FailureStatuses \cup {"network"}
      <4>1. collected # <<>> => Last(collected) \in ToSet(collected)
        BY Contents
      <4>2. collected # <<>> => result[Last(collected)] # "ok" /\ Last(collected) \in Worker
        BY <1>1, <2>3, <4>1
      <4>3. QED
        BY <2>3, <4>2 DEF Responded, AllResults
    <3>2. bad' \in BOOLEAN /\ blame' \in BOOLEAN
      BY <2>3
    <3>3. QED
      BY <1>6, <2>1, <2>3, <3>1, <3>2 DEF Choose
  <2>4. QED
    BY <1>6, <2>2, <2>3 DEF Choose
<1>7. CASE Fail
  <2>1. (IF bad THEN "badRequest" ELSE IF last = "network" THEN "badGateway" ELSE last)
          \in AllResults \cup {"localError", "badGateway"}
    BY DEF AllResults, FailureStatuses
  <2>2. replies' \in Seq(AllResults \cup {"localError", "badGateway"})
    BY <1>7, <2>1 DEF Fail
  <2>3. told' \in Seq({"success", "failure"})
    BY <1>7 DEF Fail
  <2>4. QED
    BY <1>7, <2>2, <2>3 DEF Fail
<1>8. CASE Answer
  <2>1. replies' \in Seq(AllResults \cup {"localError", "badGateway"})
    <3>1. replies' = Append(replies, "ok") \/ replies' = Append(replies, "localError")
      BY <1>8 DEF Answer
    <3>2. "ok" \in AllResults
      BY DEF AllResults
    <3>3. QED
      BY <1>a, <3>1, <3>2
  <2>2. told' \in Seq({"success", "failure"})
    BY <1>8, <1>b DEF Answer
  <2>3. QED
    BY <1>8, <2>1, <2>2 DEF Answer
<1>9. CASE Commit
  BY <1>9 DEF Commit, AllResults
<1>10. CASE PipeEnds
  <2>1. winner \in workers
    BY <1>10 DEF PipeEnds, PhaseInv
  <2>2. /\ reports' \in [Worker -> Seq(AllResults \cup {"streamBroken"})]
        /\ told' \in Seq({"success", "failure"})
    <3>1. "ok" \in AllResults
      BY DEF AllResults
    <3>2. /\ [reports EXCEPT ![winner] = Append(@, "ok")]
                \in [Worker -> Seq(AllResults \cup {"streamBroken"})]
          /\ [reports EXCEPT ![winner] = Append(@, "streamBroken")]
                \in [Worker -> Seq(AllResults \cup {"streamBroken"})]
      <4>1. winner \in Worker /\ "ok" \in AllResults \cup {"streamBroken"}
        BY <2>1, <3>1
      <4>2. QED
        BY <4>1, Telling
    <3>3. reports' = [reports EXCEPT ![winner] = Append(@, "ok")]
             \/ reports' = [reports EXCEPT ![winner] = Append(@, "streamBroken")]
      BY <1>10 DEF PipeEnds
    <3>4. told' \in Seq({"success", "failure"})
      BY <1>10, <1>b DEF PipeEnds
    <3>5. QED
      BY <3>2, <3>3, <3>4, Zenon
  <2>3. QED
    BY <1>10, <2>1, <2>2 DEF PipeEnds
<1>11. CASE Drain
  <2> DEFINE w == Head(queue)
  <2>1. w \in workers /\ queue' \in Seq(workers)
    BY <1>11, Receiving DEF Drain
  <2>2. w \in Worker /\ Reported(w) \in [Worker -> Seq(AllResults \cup {"streamBroken"})]
    BY <2>1, ReportedType
  <2>3. /\ reports' \in [Worker -> Seq(AllResults \cup {"streamBroken"})]
        /\ body' \in [Worker -> {"none", "open", "closed"}]
        /\ cancelled' \subseteq workers
    BY <1>11, <2>1, <2>2 DEF Drain
  <2>4. QED
    BY <1>11, <2>1, <2>3 DEF Drain
<1>12. CASE DrainEnds
  BY <1>12 DEF DrainEnds
<1>13. CASE ContextEnds
  BY <1>13 DEF ContextEnds
<1>14. CASE UNCHANGED vars
  BY <1>14 DEF vars
<1>15. QED
  BY <1>2, <1>3, <1>4, <1>5, <1>6, <1>7, <1>8, <1>9, <1>10, <1>11, <1>12, <1>13, <1>14
     DEF Next, Caller, Drainer

-----------------------------------------------------------------------------
(* The inductive invariant. *)

LEMMA InitIInv == Init => IInv
<1> SUFFICES ASSUME Init PROVE IInv
  OBVIOUS
<1>1. ToSet(<<>>) = {} /\ IsInjective(<<>>)
  BY DEF ToSet, IsInjective
<1>2. PhaseInv /\ QueueInv /\ StreamInv
  BY <1>1 DEF Init, PhaseInv, QueueInv, StreamInv
<1>3. ReportInv
  BY DEF Init, ReportInv
<1>4. QED
  BY InitType, <1>2, <1>3 DEF IInv

LEMMA PhaseStep == TypeOK /\ PhaseInv /\ [Next]_vars => PhaseInv'
<1> SUFFICES ASSUME TypeOK, PhaseInv, [Next]_vars PROVE PhaseInv'
  OBVIOUS
<1> USE DEF PhaseInv, TypeOK
<1>1. ASSUME NEW w \in Worker, Respond(w)
      PROVE  PhaseInv'
  BY <1>1 DEF Respond, collecting
<1>2. CASE Take
  BY <1>2, Receiving DEF Take, TakeWinner, TakeLoser, collecting
<1>3. CASE Choose
  BY <1>3, Contents DEF Choose, collecting
<1>4. CASE AllFailed \/ Collect \/ Fail \/ Answer \/ Commit \/ PipeEnds
  BY <1>4 DEF AllFailed, Collect, Fail, Answer, Commit, PipeEnds, collecting
<1>5. CASE Drainer \/ ContextEnds \/ UNCHANGED vars
  BY <1>5 DEF Drainer, Drain, DrainEnds, ContextEnds, vars, collecting
<1>6. QED
  BY <1>1, <1>2, <1>3, <1>4, <1>5 DEF Next, Caller

LEMMA QueueStep == TypeOK /\ PhaseInv /\ QueueInv /\ [Next]_vars => QueueInv'
<1> SUFFICES ASSUME TypeOK, PhaseInv, QueueInv, [Next]_vars PROVE QueueInv'
  OBVIOUS
<1> USE DEF QueueInv
<1>1. queue \in Seq(workers) /\ collected \in Seq(workers) /\ workers \subseteq Worker
      /\ result \in [Worker -> AllResults]
  BY DEF TypeOK
<1>2. ASSUME NEW w \in Worker, Respond(w)
      PROVE  QueueInv'
  <2>1. w \in workers /\ result[w] = "none" /\ queue' = Append(queue, w) /\ collected' = collected
        /\ pc' = pc /\ workers' = workers
    BY <1>2 DEF Respond, collecting
  <2>2. \A v \in Worker : v # w => result'[v] = result[v]
    BY <1>1, <1>2 DEF Respond
  <2>3. result'[w] # "none"
    BY <1>1, <1>2, FanoutAssumption DEF Respond, FailureStatuses
  <2>4. ToSet(queue') = ToSet(queue) \cup {w} /\ IsInjective(queue')
    BY <1>1, <2>1, Sending
  <2>5. ToSet(queue) \subseteq Worker /\ ToSet(collected) \subseteq Worker
    BY <1>1, Contents
  <2>6. QED
    BY <1>1, <2>1, <2>2, <2>3, <2>4, <2>5
<1>3. CASE Take
  <2>1. /\ Head(queue) \in workers
        /\ ToSet(queue) = {Head(queue)} \cup ToSet(queue')
        /\ IsInjective(queue')
    BY <1>1, <1>3, Receiving DEF Take
  <2>2. pc' = "collect" => result[Head(queue)] # "ok"
    BY <1>3 DEF Take, TakeWinner
  <2>3. collected' = collected /\ result' = result /\ workers' = workers /\ pc = "collect"
    BY <1>3 DEF Take, collecting
  <2>4. QED
    BY <2>1, <2>2, <2>3
<1>4. CASE Collect
  <2>1. /\ Head(queue) \in workers
        /\ ToSet(queue) = {Head(queue)} \cup ToSet(queue')
        /\ IsInjective(queue')
    BY <1>1, <1>4, Receiving DEF Collect
  <2>2. ToSet(collected') = ToSet(collected) \cup {Head(queue)}
    BY <1>1, <1>4, <2>1, Sending DEF Collect
  <2>3. QED
    BY <1>4, <2>1, <2>2 DEF Collect
<1>5. CASE Drain
  <2>1. /\ ToSet(queue) = {Head(queue)} \cup ToSet(queue')
        /\ IsInjective(queue')
    BY <1>1, <1>5, Receiving DEF Drain
  <2>2. QED
    BY <1>5, <2>1 DEF Drain, collecting, PhaseInv
<1>6. CASE AllFailed \/ Choose \/ Fail \/ Answer \/ Commit \/ PipeEnds
  BY <1>6 DEF AllFailed, Choose, Fail, Answer, Commit, PipeEnds, collecting
<1>7. CASE DrainEnds \/ ContextEnds \/ UNCHANGED vars
  BY <1>7 DEF DrainEnds, ContextEnds, vars, collecting
<1>8. QED
  BY <1>2, <1>3, <1>4, <1>5, <1>6, <1>7 DEF Next, Caller, Drainer

LEMMA ReportStep ==
    TypeOK /\ PhaseInv /\ QueueInv /\ StreamInv /\ ReportInv /\ [Next]_vars => ReportInv'
<1> SUFFICES ASSUME TypeOK, PhaseInv, QueueInv, StreamInv, ReportInv, [Next]_vars,
                    NEW v \in Worker
             PROVE  Len(reports'[v]) <=
                      (IF result'[v] \in {"none", "canceled"} \/ Waiting(v)' THEN 0 ELSE 1)
  BY DEF ReportInv
<1>1. /\ Len(reports[v]) <= (IF result[v] \in {"none", "canceled"} \/ Waiting(v) THEN 0 ELSE 1)
      /\ Len(reports[v]) \in Nat
  BY ReportedType DEF ReportInv
<1>2. queue \in Seq(workers) /\ collected \in Seq(workers) /\ workers \subseteq Worker
      /\ result \in [Worker -> AllResults]
  BY DEF TypeOK
<1> DEFINE Bounded ==
             Len(reports'[v]) <=
               (IF result'[v] \in {"none", "canceled"} \/ Waiting(v)' THEN 0 ELSE 1)
<1>3. ASSUME reports'[v] = reports[v], result'[v] = result[v], Waiting(v)' => Waiting(v)
      PROVE  Bounded
  BY <1>1, <1>3
<1>4. ASSUME NEW w \in Worker, Respond(w)
      PROVE  Bounded
  <2>1. /\ reports' = reports /\ pc' = pc /\ mode' = mode /\ winner' = winner
        /\ collected' = collected /\ queue' = Append(queue, w) /\ w \in workers /\ result[w] = "none"
    BY <1>4 DEF Respond, collecting
  <2>2. CASE v = w
    BY <1>1, <2>1, <2>2
  <2>3. CASE v # w
    <3>1. result'[v] = result[v]
      BY <1>2, <1>4, <2>3 DEF Respond
    <3>2. ToSet(queue') = ToSet(queue) \cup {w}
      BY <1>2, <2>1, Sending
    <3>3. QED
      BY <1>3, <2>1, <2>3, <3>1, <3>2 DEF Waiting
  <2>4. QED
    BY <2>2, <2>3
<1>5. CASE Take
  <2> DEFINE h == Head(queue)
  <2>1. /\ h \in workers
        /\ ToSet(queue) = {h} \cup ToSet(queue')
        /\ h \notin ToSet(queue')
    BY <1>2, <1>5, Receiving DEF Take, QueueInv
  <2>2. /\ result' = result /\ mode' = mode /\ collected' = <<>> /\ collected = <<>>
        /\ pc = "collect"
    BY <1>5 DEF Take, collecting, PhaseInv
  <2>3. ToSet(collected') = {}
    BY <1>2, <2>2, Contents
  <2>4. reports' = Reported(h) \/ (reports' = reports /\ mode = "stream")
    BY <1>5 DEF Take, TakeLoser, TypeOK
  <2>5. mode = "stream" /\ reports' # reports => pc' = "collect"
    BY <1>5 DEF Take
  <2>6. pc' = "collect" \/ winner' = h
    BY <1>5 DEF Take, TakeWinner
  <2> HIDE DEF h
  <2>7. CASE v = h
    <3>1. Len(reports[v]) = 0 /\ result[v] # "none"
      BY <1>1, <2>1, <2>7 DEF Waiting, QueueInv
    <3>2. Waiting(v)' => reports' = reports
      BY <2>1, <2>2, <2>3, <2>5, <2>7 DEF Waiting
    <3>3. reports'[v] = reports[v] \/ reports'[v] = Reported(v)[v]
      BY <2>4, <2>7
    <3>4. QED
      BY <2>2, <3>1, <3>2, <3>3, ReportedType
  <2>8. CASE v # h
    <3>1. reports'[v] = reports[v]
      BY <1>2, <2>1, <2>4, <2>8, ReportedType
    <3>2. Waiting(v)' => Waiting(v)
      BY <2>1, <2>2, <2>3, <2>6, <2>8 DEF Waiting
    <3>3. QED
      BY <1>3, <2>2, <3>1, <3>2
  <2>9. QED
    BY <2>7, <2>8
<1>6. CASE Collect
  <2>1. /\ Head(queue) \in workers
        /\ ToSet(queue) = {Head(queue)} \cup ToSet(queue')
    BY <1>2, <1>6, Receiving DEF Collect
  <2>2. ToSet(collected') = ToSet(collected) \cup {Head(queue)}
    BY <1>2, <1>6, <2>1, Sending DEF Collect
  <2>3. QED
    BY <1>3, <1>6, <2>1, <2>2 DEF Collect, Waiting
<1>7. CASE Choose
  <2>1. /\ ToSet(queue') = {} /\ mode' = "all" /\ result' = result /\ pc = "collect" /\ pc' # "collect"
        /\ reports' = [w \in Worker |-> IF w \in ToSet(collected) THEN Reported(w)[w] ELSE reports[w]]
    BY <1>2, <1>7, Contents DEF Choose
  <2>2. ~Waiting(v)'
    BY <2>1 DEF Waiting
  <2>3. CASE v \in ToSet(collected)
    <3>1. Len(reports[v]) = 0 /\ result[v] # "none"
      BY <1>1, <2>1, <2>3 DEF Waiting, QueueInv
    <3>2. reports'[v] = Reported(v)[v]
      BY <2>1, <2>3
    <3>3. QED
      BY <2>1, <2>2, <3>1, <3>2, ReportedType
  <2>4. CASE v \notin ToSet(collected)
    BY <1>3, <2>1, <2>2, <2>4
  <2>5. QED
    BY <2>3, <2>4
<1>8. CASE AllFailed \/ Fail \/ Answer \/ Commit
  <2>1. /\ reports' = reports /\ result' = result /\ queue' = queue /\ collected' = collected
        /\ mode' = mode
        /\ pc' \notin {"collect", "answer"}
        /\ pc' = "pipe" => pc = "answer" /\ winner' = winner
    BY <1>8 DEF AllFailed, Fail, Answer, Commit, collecting
  <2>2. QED
    BY <1>3, <2>1 DEF Waiting
<1>9. CASE PipeEnds
  <2>1. /\ result' = result /\ queue' = queue /\ pc' = "done" /\ winner \in workers
        /\ result[winner] = "ok" /\ pc = "pipe" /\ mode = "stream" /\ winner \notin ToSet(queue)
    BY <1>9 DEF PipeEnds, PhaseInv, StreamInv
  <2>2. Waiting(v)' => Waiting(v)
    BY <2>1 DEF Waiting
  <2>3. CASE v = winner
    <3>1. Len(reports[v]) = 0 /\ reports[v] \in Seq(AllResults \cup {"streamBroken"})
      BY <1>1, <2>1, <2>3 DEF Waiting, TypeOK
    <3>2. reports'[v] = Append(reports[v], "ok") \/ reports'[v] = Append(reports[v], "streamBroken")
      <4>1. DOMAIN reports = Worker
        BY DEF TypeOK
      <4>2. QED
        BY <1>9, <2>3, <4>1 DEF PipeEnds
    <3>3. Len(reports'[v]) = 1
      <4>1. \A e \in AllResults \cup {"streamBroken"} : Len(Append(reports[v], e)) = 1
        BY <3>1, AppendProperties
      <4>2. "ok" \in AllResults
        BY DEF AllResults
      <4>3. QED
        BY <3>2, <4>1, <4>2
    <3>4. ~Waiting(v)' /\ result'[v] = "ok"
      BY <2>1, <2>3 DEF Waiting
    <3>5. QED
      BY <3>3, <3>4
  <2>4. CASE v # winner
    <3>1. reports'[v] = reports[v]
      BY <1>9, <2>4 DEF PipeEnds, TypeOK
    <3>2. QED
      BY <1>3, <2>1, <2>2, <3>1
  <2>5. QED
    BY <2>3, <2>4
<1>10. CASE Drain
  <2> DEFINE h == Head(queue)
  <2>1. /\ h \in workers
        /\ ToSet(queue) = {h} \cup ToSet(queue')
        /\ h \notin ToSet(queue')
    BY <1>2, <1>10, Receiving DEF Drain, QueueInv
  <2>2. /\ result' = result /\ mode' = mode /\ pc' = pc /\ winner' = winner /\ pc # "collect"
        /\ reports' = reports \/ reports' = Reported(h)
    BY <1>10 DEF Drain, PhaseInv
  <2> HIDE DEF h
  <2>3. Waiting(v)' => Waiting(v)
    BY <2>1, <2>2 DEF Waiting
  <2>4. CASE v = h
    <3>1. Len(reports[v]) = 0 /\ result[v] # "none"
      BY <1>1, <2>1, <2>4 DEF Waiting, QueueInv
    <3>2. ~Waiting(v)'
      BY <2>1, <2>2, <2>4 DEF Waiting, StreamInv
    <3>3. QED
      BY <2>2, <2>4, <3>1, <3>2, ReportedType
  <2>5. CASE v # h
    BY <1>2, <1>3, <2>1, <2>2, <2>3, <2>5, ReportedType
  <2>6. QED
    BY <2>4, <2>5
<1>11. CASE DrainEnds \/ ContextEnds \/ UNCHANGED vars
  BY <1>3, <1>11 DEF DrainEnds, ContextEnds, vars, collecting, Waiting
<1>12. QED
  BY <1>4, <1>5, <1>6, <1>7, <1>8, <1>9, <1>10, <1>11 DEF Next, Caller, Drainer

LEMMA StreamStep == TypeOK /\ PhaseInv /\ QueueInv /\ StreamInv /\ [Next]_vars => StreamInv'
<1> SUFFICES ASSUME TypeOK, PhaseInv, QueueInv, StreamInv, [Next]_vars, mode' = "stream"
             PROVE  StreamInv'
  BY DEF StreamInv
<1>1. /\ queue \in Seq(workers) /\ workers \subseteq Worker
      /\ result \in [Worker -> AllResults] /\ body \in [Worker -> {"none", "open", "closed"}]
      /\ cancelled \subseteq workers
  BY DEF TypeOK
<1>2. mode = "stream" /\ workers' = workers
  BY DEF Next, Respond, Caller, Take, AllFailed, Collect, Choose, Fail, Answer, Commit, PipeEnds,
         Drainer, Drain, DrainEnds, ContextEnds, vars
<1>3. ASSUME NEW w \in Worker, Respond(w)
      PROVE  StreamInv'
  <2>1. /\ w \in workers /\ result[w] = "none" /\ queue' = Append(queue, w)
        /\ pc' = pc /\ winner' = winner
        /\ \A v \in Worker : v # w => result'[v] = result[v]
        /\ result'[w] # "none"
        /\ \/ /\ result'[w] # "ok" /\ cancelled' = cancelled \cup {w} /\ body' = body
           \/ /\ body' = [body EXCEPT ![w] = "open"] /\ cancelled' = cancelled
    BY <1>1, <1>2, <1>3, FanoutAssumption DEF Respond, collecting, FailureStatuses
  <2>2. ToSet(queue') = ToSet(queue) \cup {w} /\ w \notin ToSet(queue) /\ ToSet(queue) \subseteq Worker
    BY <1>1, <2>1, Sending, Contents DEF QueueInv
  <2>3. CASE pc = "collect"
    BY <1>1, <1>2, <2>1, <2>2, <2>3 DEF StreamInv
  <2>4. CASE pc \in {"answer", "pipe"}
    <3>1. w # winner /\ winner \in Worker
      BY <1>1, <2>1, <2>4 DEF PhaseInv
    <3>2. QED
      BY <1>1, <1>2, <2>1, <2>2, <2>4, <3>1 DEF StreamInv
  <2>5. QED
    BY <2>1, <2>3, <2>4 DEF StreamInv
<1>4. CASE Take
  <2> DEFINE h == Head(queue)
  <2>1. /\ h \in workers
        /\ ToSet(queue) = {h} \cup ToSet(queue')
        /\ h \notin ToSet(queue')
    BY <1>1, <1>4, Receiving DEF Take, QueueInv
  <2>2. result' = result /\ pc = "collect" /\ ToSet(queue) \subseteq Worker
    BY <1>1, <1>4, Contents DEF Take
  <2>3. CASE result[h] = "ok" /\ TakeWinner(h) /\ UNCHANGED <<body, collecting>>
    <3>1. winner' = h /\ pc' = "answer" /\ cancelled' = workers \ {h} /\ body' = body
      BY <1>2, <2>3 DEF TakeWinner
    <3>2. QED
      BY <1>2, <2>1, <2>2, <2>3, <3>1 DEF StreamInv
  <2>4. CASE result[h] # "ok" /\ TakeLoser(h) /\ UNCHANGED <<pc, winner, drain, collected>>
    <3>1. /\ pc' = "collect" /\ cancelled' = cancelled \cup {h}
          /\ \A v \in Worker : v # h => body'[v] = body[v]
      BY <1>1, <1>2, <2>2, <2>4 DEF TakeLoser
    <3>2. result[h] # "none"
      BY <2>1 DEF QueueInv
    <3>3. QED
      BY <1>1, <1>2, <2>1, <2>2, <3>1, <3>2 DEF StreamInv
  <2>5. QED
    BY <1>4, <2>3, <2>4 DEF Take
<1>5. CASE Drain
  <2> DEFINE h == Head(queue)
  <2>1. /\ h \in workers
        /\ ToSet(queue) = {h} \cup ToSet(queue')
    BY <1>1, <1>5, Receiving DEF Drain
  <2>2. /\ pc' = pc /\ winner' = winner /\ pc # "collect" /\ cancelled' = cancelled \cup {h}
        /\ body' = [body EXCEPT ![h] = "closed"] \/ body' = body
    BY <1>5 DEF Drain, PhaseInv
  <2> HIDE DEF h
  <2>3. CASE pc \in {"answer", "pipe"}
    <3>1. winner \in workers /\ winner # h /\ body[winner] = "open"
      BY <1>2, <2>1, <2>3 DEF PhaseInv, StreamInv
    <3>2. body'[winner] = "open"
      BY <1>1, <2>2, <3>1
    <3>3. QED
      BY <1>2, <2>1, <2>2, <2>3, <3>1, <3>2 DEF StreamInv
  <2>4. QED
    BY <2>2, <2>3 DEF StreamInv
<1>6. CASE Collect \/ Choose \/ Answer
  BY <1>2, <1>6 DEF Collect, Choose, Answer
<1>7. CASE AllFailed \/ Fail \/ PipeEnds
  BY <1>7 DEF AllFailed, Fail, PipeEnds, StreamInv
<1>8. CASE Commit
  BY <1>2, <1>8 DEF Commit, StreamInv
<1>9. CASE DrainEnds \/ ContextEnds \/ UNCHANGED vars
  BY <1>9 DEF DrainEnds, ContextEnds, vars, collecting, StreamInv
<1>10. QED
  BY <1>3, <1>4, <1>5, <1>6, <1>7, <1>8, <1>9 DEF Next, Caller, Drainer

LEMMA IInvStep == IInv /\ [Next]_vars => IInv'
  BY TypeStep, PhaseStep, QueueStep, ReportStep, StreamStep DEF IInv

-----------------------------------------------------------------------------
(* The theorems. *)

\* Types, the caller's phases, and where each result and body is at any time.
THEOREM IInvCorrect == Spec => []IInv
  BY InitIInv, IInvStep, PTL DEF Spec

\* The variables keep their types.
THEOREM TypeCorrect == Spec => []TypeOK
<1>1. IInv => TypeOK
  BY DEF IInv
<1>2. QED
  BY <1>1, IInvCorrect, PTL

\* Fanout and FanoutStream tell the pool of each key at most once, and never of
\* a call that was cancelled.
THEOREM ReportedCorrect == Spec => []ReportedAtMostOnce
<1>1. IInv => ReportedAtMostOnce
  <2> SUFFICES ASSUME IInv, NEW w \in Worker
               PROVE  Len(reports[w]) <= (IF result[w] \in {"none", "canceled"} THEN 0 ELSE 1)
    BY DEF ReportedAtMostOnce
  <2>1. Len(reports[w]) \in Nat
    BY ReportedType DEF IInv
  <2>2. QED
    BY <2>1 DEF IInv, ReportInv
<1>2. QED
  BY <1>1, IInvCorrect, PTL

\* Nobody cancels the winner of FanoutStream or closes its body while its stream
\* is read.
THEOREM WinnerCorrect == Spec => []WinnerUndisturbed
<1>1. IInv => WinnerUndisturbed
  BY DEF IInv, StreamInv, WinnerUndisturbed
<1>2. QED
  BY <1>1, IInvCorrect, PTL

-----------------------------------------------------------------------------
(* The channel's health. *)

LEMMA InitBlame == Init => BlameInv
<1> SUFFICES ASSUME Init PROVE BlameInv
  OBVIOUS
<1>1. Taken = {} /\ ~blame /\ ~bad /\ pc = "collect" /\ told = <<>> /\ winner # Nobody
  BY FanoutAssumption DEF Init, Taken
<1>2. QED
  BY <1>1 DEF BlameInv, SumUp, BlameMatchesOutages

LEMMA BlameStep == IInv /\ BlameInv /\ [Next]_vars => BlameInv'
<1> SUFFICES ASSUME IInv, BlameInv, [Next]_vars PROVE BlameInv'
  OBVIOUS
<1>1. /\ queue \in Seq(workers) /\ collected \in Seq(workers) /\ workers \subseteq Worker
      /\ result \in [Worker -> AllResults] /\ blame \in BOOLEAN /\ bad \in BOOLEAN
      /\ told \in Seq({"success", "failure"})
      /\ NoOne # Nobody /\ Nobody \notin workers
  BY FanoutAssumption DEF IInv, TypeOK
<1>2. /\ pc = "collect" => winner = NoOne
      /\ pc \in {"answer", "pipe"} => winner \in workers
      /\ mode # "all" => collected = <<>>
  BY DEF IInv, PhaseInv
<1>3. \A w \in ToSet(queue) : result[w] # "none"
  BY DEF IInv, QueueInv
<1>4. ASSUME NEW w \in Worker, Respond(w)
      PROVE  BlameInv'
  <2>1. /\ w \in workers /\ result[w] = "none" /\ queue' = Append(queue, w)
        /\ UNCHANGED <<mode, workers, pc, collected, blame, bad, winner, told>>
        /\ \A v \in Worker : v # w => result'[v] = result[v]
    BY <1>1, <1>4 DEF Respond, collecting
  <2>2. ~Closed /\ winner # Nobody /\ pc # "fail"
    BY <2>1 DEF Closed, BlameInv
  <2>3. ToSet(queue') = ToSet(queue) \cup {w}
    BY <1>1, <2>1, Sending
  <2>4. Taken' = Taken /\ w \notin Taken
    BY <1>1, <2>1, <2>3 DEF Taken
  <2>5. \A v \in Taken : result'[v] = result[v] /\ (Blames(v)' <=> Blames(v))
    BY <1>1, <2>1, <2>4 DEF Taken, Blames
  <2>6. SumUp(Taken) => SumUp(Taken)'
    BY <2>1, <2>4, <2>5 DEF SumUp
  <2>7. BlameMatchesOutages'
    BY <2>1, <2>2 DEF BlameInv, BlameMatchesOutages
  <2>8. QED
    BY <2>1, <2>2, <2>4, <2>6, <2>7 DEF BlameInv
<1>5. CASE Take
  <2> DEFINE h == Head(queue)
  <2>1. /\ h \in workers
        /\ ToSet(queue) = {h} \cup ToSet(queue')
        /\ h \notin ToSet(queue')
        /\ result[h] # "none"
    BY <1>1, <1>3, <1>5, Receiving DEF Take, IInv, QueueInv
  <2> HIDE DEF h
  <2>2. /\ pc = "collect" /\ mode # "all" /\ UNCHANGED <<mode, workers, result, told>>
        /\ \/ pc' = "answer" /\ winner' = h
           \/ pc' = pc /\ winner' = winner /\ TakeLoser(h)
    BY <1>5 DEF Take, TakeWinner, h
  <2>3. Taken' = Taken \cup {h}
    BY <2>1, <2>2 DEF Taken
  <2>4. CASE pc' = "answer" /\ winner' = h
    BY <1>1, <2>1, <2>2, <2>4 DEF BlameInv, BlameMatchesOutages
  <2>5. CASE pc' = pc /\ winner' = winner /\ TakeLoser(h)
    <3>1. blame' = (blame \/ Blames(h)) /\ bad' = (bad \/ result[h] = "badRequest")
      BY <2>5 DEF TakeLoser
    <3>2. SumUp(Taken)
      BY <2>2 DEF BlameInv
    <3>3. SumUp(Taken)'
      BY <1>1, <2>2, <2>3, <3>1, <3>2 DEF SumUp, Blames
    <3>4. QED
      BY <1>1, <1>2, <2>2, <2>5, <3>3 DEF BlameInv, BlameMatchesOutages
  <2>6. QED
    BY <2>2, <2>4, <2>5
<1>6. CASE AllFailed
  <2>1. /\ pc = "collect" /\ mode # "all" /\ queue = <<>> /\ Closed /\ winner' = Nobody
        /\ pc' = "fail" /\ UNCHANGED <<mode, workers, result, queue, blame, bad, told>>
    BY <1>6 DEF AllFailed, collecting
  <2>2. Taken = workers
    <3>1. ToSet(queue) = {}
      BY <1>1, <2>1, Contents
    <3>2. QED
      BY <2>1, <3>1 DEF Taken, Closed
  <2>3. SumUp(workers)'
    BY <2>1, <2>2 DEF BlameInv, SumUp, Blames
  <2>4. QED
    BY <2>1, <2>3 DEF BlameInv, BlameMatchesOutages, Closed
<1>7. CASE Collect
  <2>1. /\ Head(queue) \in workers
        /\ ToSet(queue) = {Head(queue)} \cup ToSet(queue')
    BY <1>1, <1>7, Receiving DEF Collect
  <2>2. ToSet(collected') = ToSet(collected) \cup {Head(queue)}
    BY <1>1, <1>7, <2>1, Sending DEF Collect
  <2>3. /\ pc = "collect" /\ mode = "all"
        /\ UNCHANGED <<mode, workers, result, pc, blame, bad, winner, told>>
    BY <1>7 DEF Collect
  <2>4. Taken' \subseteq Taken \cup {Head(queue)}
    BY <2>1, <2>3 DEF Taken
  <2>5. QED
    BY <1>1, <1>2, <2>2, <2>3, <2>4 DEF BlameInv, BlameMatchesOutages
<1>8. CASE Choose
  <2>1. /\ pc = "collect" /\ mode = "all" /\ queue = <<>> /\ Closed
        /\ UNCHANGED <<mode, workers, result, queue, told>>
    BY <1>8 DEF Choose
  <2>2. workers = ToSet(collected)
    <3>1. ToSet(queue) = {} /\ ToSet(collected) \subseteq workers
      BY <1>1, <2>1, Contents
    <3>2. Taken \subseteq ToSet(collected)
      BY <2>1 DEF BlameInv
    <3>3. QED
      BY <2>1, <3>1, <3>2 DEF Taken, Closed
  <2>3. \/ pc' = "answer" /\ winner' \in workers
        \/ /\ pc' = "fail" /\ winner' = Nobody
           /\ bad' = (\E w \in workers : result[w] = "badRequest")
           /\ blame' = (\E w \in workers : Blames(w))
    BY <1>8, <2>2 DEF Choose
  <2>4. CASE pc' = "answer" /\ winner' \in workers
    BY <1>1, <2>1, <2>4 DEF BlameInv, BlameMatchesOutages
  <2>5. CASE /\ pc' = "fail" /\ winner' = Nobody
             /\ bad' = (\E w \in workers : result[w] = "badRequest")
             /\ blame' = (\E w \in workers : Blames(w))
    BY <2>1, <2>5 DEF BlameInv, BlameMatchesOutages, SumUp, Blames, Closed
  <2>6. QED
    BY <2>3, <2>4, <2>5
<1>9. CASE Fail
  <2>1. /\ pc = "fail" /\ pc' = "done" /\ UNCHANGED <<mode, workers, result, winner>>
        /\ told' = IF Blamed THEN Append(told, "failure") ELSE told
    BY <1>9 DEF Fail
  <2>2. /\ winner = Nobody /\ told = <<>>
        /\ blame <=> \E w \in workers : Blames(w)
        /\ bad <=> \E w \in workers : result[w] = "badRequest"
    BY <2>1 DEF BlameInv, SumUp
  <2>3. Append(<<>>, "failure") = <<"failure">> /\ <<>> # <<"failure">>
    OBVIOUS
  <2>4. told' = <<"failure">> <=> blame /\ ~bad
    BY <2>1, <2>2, <2>3 DEF Blamed
  <2>5. BlameMatchesOutages'
    BY <2>1, <2>2, <2>4 DEF BlameMatchesOutages, Blames
  <2>6. QED
    BY <2>1, <2>2, <2>5 DEF BlameInv, Closed
<1>10. CASE Answer \/ PipeEnds
  <2>1. /\ pc \in {"answer", "pipe"} /\ pc' = "done" /\ UNCHANGED <<workers, result, winner>>
        /\ told' = Append(told, "success") \/ told' = told
    BY <1>10 DEF Answer, PipeEnds
  <2>2. winner # Nobody /\ told = <<>>
    BY <1>1, <1>2, <2>1 DEF BlameInv
  <2>3. Append(<<>>, "success") # <<"failure">> /\ <<>> # <<"failure">>
    OBVIOUS
  <2>4. QED
    BY <2>1, <2>2, <2>3 DEF BlameInv, BlameMatchesOutages
<1>11. CASE Commit
  BY <1>11 DEF Commit, BlameInv, BlameMatchesOutages, Closed, collecting
<1>12. CASE Drain
  <2>1. UNCHANGED <<mode, workers, result, pc, blame, bad, winner, told>> /\ pc # "collect"
    BY <1>12 DEF Drain, collecting, IInv, PhaseInv
  <2>2. QED
    BY <2>1 DEF BlameInv, BlameMatchesOutages, SumUp, Blames, Closed
<1>13. CASE DrainEnds \/ ContextEnds \/ UNCHANGED vars
  <2>1. UNCHANGED <<mode, workers, result, queue, pc, collected, blame, bad, winner, told>>
    BY <1>13 DEF DrainEnds, ContextEnds, vars, collecting
  <2>2. QED
    BY <2>1 DEF BlameInv, BlameMatchesOutages, Taken, SumUp, Blames, Closed
<1>14. QED
  BY <1>4, <1>5, <1>6, <1>7, <1>8, <1>9, <1>10, <1>11, <1>12, <1>13 DEF Next, Caller, Drainer

\* A failed fanout counts against the channel's health exactly when some call
\* met an outage and none a 400, in whatever order the results arrived.
THEOREM BlameCorrect == Spec => []BlameMatchesOutages
<1>1. BlameInv => BlameMatchesOutages
  BY DEF BlameInv
<1>2. QED
  BY <1>1, InitBlame, BlameStep, IInvCorrect, PTL DEF Spec

-----------------------------------------------------------------------------
(* Fanout implements Race. *)

LEMMA RaceStarts == Init => TheRace!RaceInit
  BY DEF Init, TheRace!RaceInit, EndOf

\* A step that changes neither results nor the winner is a stutter of the race.
LEMMA RaceStutters ==
    ASSUME UNCHANGED <<workers, result, winner>>
    PROVE  UNCHANGED TheRace!raceVars
  BY DEF TheRace!raceVars, EndOf

LEMMA RaceStep == IInv /\ [Next]_vars => [TheRace!RaceNext]_(TheRace!raceVars)
<1> SUFFICES ASSUME IInv, [Next]_vars PROVE [TheRace!RaceNext]_(TheRace!raceVars)
  OBVIOUS
<1>1. /\ queue \in Seq(workers) /\ collected \in Seq(workers) /\ workers \subseteq Worker
      /\ result \in [Worker -> AllResults]
  BY DEF IInv, TypeOK
<1>2. ASSUME NEW w \in Worker, Respond(w)
      PROVE  TheRace!EndWell(w) \/ TheRace!EndBadly(w)
  <2>1. /\ w \in workers /\ result[w] = "none" /\ winner' = winner /\ workers' = workers
        /\ \E r : r # "none" /\ result' = [result EXCEPT ![w] = r]
    BY <1>2, FanoutAssumption DEF Respond, FailureStatuses
  <2>2. PICK r : r # "none" /\ result' = [result EXCEPT ![w] = r]
    BY <2>1
  <2> DEFINE end == IF r = "ok" THEN "well" ELSE "bad"
  <2>3. EndOf(w) = "running" /\ EndOf(w)' = end
    BY <1>1, <2>1, <2>2 DEF EndOf
  <2>4. \A v \in Worker : v # w => EndOf(v)' = EndOf(v)
    BY <1>1, <2>1, <2>2 DEF EndOf
  <2>5. [v \in Worker |-> EndOf(v)]' = [[v \in Worker |-> EndOf(v)] EXCEPT ![w] = end]
    BY <2>3, <2>4
  <2>6. QED
    BY <2>1, <2>3, <2>5 DEF TheRace!EndWell, TheRace!EndBadly
<1>3. ASSUME NEW w \in workers, result[w] = "ok", winner = NoOne, winner' = w,
             UNCHANGED <<workers, result>>
      PROVE  TheRace!Win(w)
  BY <1>1, <1>3 DEF TheRace!Win, EndOf
<1>4. ASSUME winner = NoOne, winner' = Nobody, Closed, UNCHANGED <<workers, result>>,
             \A w \in workers : result[w] # "ok"
      PROVE  TheRace!Lose
  BY <1>1, <1>4 DEF TheRace!Lose, EndOf, Closed
<1>5. pc = "collect" => winner = NoOne
  BY DEF IInv, PhaseInv
<1>6. CASE Take
  <2>1. Head(queue) \in workers
    BY <1>1, <1>6, Receiving DEF Take
  <2>2. pc = "collect" /\ UNCHANGED <<workers, result>>
    BY <1>6 DEF Take
  <2>3. (winner' = Head(queue) /\ result[Head(queue)] = "ok") \/ winner' = winner
    BY <1>6 DEF Take, TakeWinner
  <2>4. CASE winner' = winner
    BY <2>2, <2>4, RaceStutters
  <2>5. CASE winner' = Head(queue) /\ result[Head(queue)] = "ok"
    <3>1. TheRace!Win(Head(queue))
      BY <1>3, <1>5, <2>1, <2>2, <2>5
    <3>2. QED
      BY <1>1, <2>1, <3>1 DEF TheRace!RaceNext
  <2>6. QED
    BY <2>3, <2>4, <2>5
<1>7. CASE AllFailed
  <2>1. ToSet(queue) = {} /\ ToSet(collected) = {}
    BY <1>1, <1>7, Contents DEF AllFailed, IInv, PhaseInv
  <2>2. \A w \in workers : result[w] # "ok"
    BY <1>7, <2>1 DEF AllFailed, IInv, QueueInv
  <2>3. TheRace!Lose
    BY <1>4, <1>5, <1>7, <2>2 DEF AllFailed
  <2>4. QED
    BY <2>3 DEF TheRace!RaceNext
<1>8. CASE Choose
  <2> DEFINE good == {w \in ToSet(collected) : result[w] = "ok"}
  <2>1. ToSet(queue) = {} /\ ToSet(collected) \subseteq workers
    BY <1>1, <1>8, Contents DEF Choose
  <2>2. pc = "collect" /\ Closed /\ UNCHANGED <<workers, result>>
    BY <1>8 DEF Choose
  <2>3. CASE good # {} /\ winner' \in good
    <3>1. TheRace!Win(winner')
      BY <1>3, <1>5, <2>1, <2>2, <2>3
    <3>2. QED
      BY <1>1, <2>1, <2>3, <3>1 DEF TheRace!RaceNext
  <2>4. CASE good = {} /\ winner' = Nobody
    <3>1. \A w \in workers : result[w] # "ok"
      BY <2>1, <2>2, <2>4 DEF IInv, QueueInv
    <3>2. TheRace!Lose
      BY <1>4, <1>5, <2>2, <2>4, <3>1
    <3>3. QED
      BY <3>2 DEF TheRace!RaceNext
  <2>5. QED
    BY <1>8, <2>3, <2>4 DEF Choose
<1>9. CASE Collect \/ Fail \/ Answer \/ Commit \/ PipeEnds
  BY <1>9, RaceStutters DEF Collect, Fail, Answer, Commit, PipeEnds
<1>10. CASE Drainer \/ ContextEnds \/ UNCHANGED vars
  BY <1>10, RaceStutters DEF Drainer, Drain, DrainEnds, ContextEnds, vars
<1>11. QED
  BY <1>2, <1>6, <1>7, <1>8, <1>9, <1>10 DEF Next, Caller, TheRace!RaceNext

\* A fanout is a race of its keys: its answer is a good one, and there is none
\* only if every key failed.
THEOREM RaceCorrect == Spec => ImplementsRace
  BY RaceStarts, RaceStep, IInvCorrect, PTL DEF Spec, ImplementsRace, TheRace!RaceSpec
=============================================================================
