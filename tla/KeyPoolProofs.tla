---------------------------- MODULE KeyPoolProofs ----------------------------
(***************************************************************************)
(* Safety of the key pool for every number of keys, callers and values of   *)
(* the configuration.                                                        *)
(***************************************************************************)
EXTENDS KeyPoolProps, SequenceTheorems, TLAPS

-----------------------------------------------------------------------------
(* Lemmas about the operators. *)

\* The effective threshold, multiplier and maximum are positive whatever the
\* configuration says (NewKeyState).
LEMMA EffectivePositive ==
    Threshold \in Nat \ {0} /\ Multiplier \in Nat \ {0} /\ MaxPause \in Nat \ {0}
  BY KeyStateAssumption DEF Threshold, Multiplier, MaxPause, OrDefault

LEMMA ProductPositive ==
    ASSUME NEW a \in Nat \ {0}, NEW b \in Nat \ {0}
    PROVE  a * b \in Nat \ {0}
  OBVIOUS

\* A pause caused by errors lasts at least one tick.
LEMMA PauseLengthType ==
    ASSUME NEW n \in Nat, n >= Threshold
    PROVE  PauseLength(n) \in Nat \ {0}
<1>1. n - Threshold + 1 \in Nat \ {0} /\ Multiplier \in Nat \ {0} /\ MaxPause \in Nat \ {0}
  BY EffectivePositive
<1>2. (n - Threshold + 1) * Multiplier \in Nat \ {0}
  BY <1>1, ProductPositive
<1>3. QED
  BY <1>1, <1>2 DEF PauseLength

\* Every update of a key yields a key.
LEMMA UpdateType ==
    ASSUME NEW s \in KeyStates
    PROVE  /\ NewKeyState \in KeyStates
           /\ PauseFor(s, AdminPause) \in KeyStates
           /\ ResetPause(s) \in KeyStates
           /\ Resume(s) \in KeyStates
           /\ OnSuccess(s) \in KeyStates
           /\ On401(s) \in KeyStates
           /\ RecordError(s) \in KeyStates
           /\ RecordOnly(s) \in KeyStates
           /\ Elapse(s) \in KeyStates
<1>1. s.consec + 1 \in Nat
  BY DEF KeyStates
<1>2. s.consec + 1 >= Threshold => PauseLength(s.consec + 1) \in Nat
  BY <1>1, PauseLengthType
<1>3. RecordError(s) \in KeyStates
  BY <1>1, <1>2 DEF RecordError, KeyStates
<1>4. /\ NewKeyState \in KeyStates
      /\ PauseFor(s, AdminPause) \in KeyStates
      /\ ResetPause(s) \in KeyStates
      /\ Resume(s) \in KeyStates
      /\ OnSuccess(s) \in KeyStates
      /\ On401(s) \in KeyStates
      /\ RecordOnly(s) \in KeyStates
  BY KeyStateAssumption DEF NewKeyState, PauseFor, ResetPause, Resume, OnSuccess, On401, RecordOnly, KeyStates, Expired
<1>5. Elapse(s) \in KeyStates
  BY DEF Elapse, KeyStates, Expired
<1>6. QED
  BY <1>3, <1>4, <1>5

\* Removing a position keeps a sequence and adds no element.
LEMMA RemoveAtSub ==
    ASSUME NEW S, NEW s \in Seq(S), NEW i \in 1 .. Len(s)
    PROVE  RemoveAt(s, i) \in Seq(S) /\ ToSet(RemoveAt(s, i)) \subseteq ToSet(s)
<1> DEFINE front == SubSeq(s, 1, i - 1)
           back == SubSeq(s, i + 1, Len(s))
           r == front \o back
<1>1. front \in Seq(S) /\ Len(front) = i - 1 /\ \A j \in 1 .. i - 1 : front[j] = s[j]
  <2>1. \A j \in 1 .. i - 1 : s[j] \in S
    OBVIOUS
  <2>2. QED
    BY <2>1, SubSeqProperties, 1 \in Int, i - 1 \in Int
<1>2. /\ back \in Seq(S)
      /\ Len(back) = Len(s) - i
      /\ \A j \in 1 .. Len(s) - i : back[j] = s[i + j]
  <2>1. \A j \in i + 1 .. Len(s) : s[j] \in S
    OBVIOUS
  <2>2. QED
    BY <2>1, SubSeqProperties, i + 1 \in Int, Len(s) \in Int
<1>3. /\ r \in Seq(S)
      /\ Len(r) = Len(s) - 1
      /\ \A j \in 1 .. Len(s) - 1 : r[j] = IF j <= i - 1 THEN front[j] ELSE back[j - (i - 1)]
  <2> HIDE DEF front, back
  <2>1. Len(front) + Len(back) = Len(s) - 1
    BY <1>1, <1>2
  <2>2. /\ front \o back \in Seq(S)
        /\ Len(front \o back) = Len(front) + Len(back)
        /\ \A j \in 1 .. Len(front) + Len(back) :
              (front \o back)[j] = IF j <= Len(front) THEN front[j] ELSE back[j - Len(front)]
    BY <1>1, <1>2, ConcatProperties
  <2>3. QED
    BY <1>1, <2>1, <2>2
<1>4. \A j \in 1 .. Len(r) : \E k \in 1 .. Len(s) : r[j] = s[k]
  <2> HIDE DEF front, back, r
  <2> TAKE j \in 1 .. Len(r)
  <2>1. CASE j <= i - 1
    BY <1>1, <1>3, <2>1
  <2>2. CASE j > i - 1
    BY <1>2, <1>3, <2>2, j - (i - 1) \in 1 .. Len(s) - i
  <2>3. QED
    BY <2>1, <2>2, <1>3
<1>5. RemoveAt(s, i) = r
  BY DEF RemoveAt
<1>6. QED
  <2> HIDE DEF r
  <2>1. DOMAIN r = 1 .. Len(r) /\ DOMAIN s = 1 .. Len(s)
    BY <1>3
  <2>2. ToSet(r) \subseteq ToSet(s)
    BY <1>4, <2>1 DEF ToSet
  <2>3. QED
    BY <1>3, <1>5, <2>2

\* Appending adds one element.
LEMMA AppendSet ==
    ASSUME NEW S, NEW s \in Seq(S), NEW e \in S
    PROVE  Append(s, e) \in Seq(S) /\ ToSet(Append(s, e)) = ToSet(s) \cup {e}
<1> DEFINE t == Append(s, e)
<1>1. /\ t \in Seq(S)
      /\ Len(t) = Len(s) + 1
      /\ \A j \in 1 .. Len(s) : t[j] = s[j]
      /\ t[Len(s) + 1] = e
  OBVIOUS
<1>2. DOMAIN t = 1 .. Len(s) + 1 /\ DOMAIN s = 1 .. Len(s)
  BY <1>1
<1>3. QED
  BY <1>1, <1>2 DEF ToSet

\* Every strategy chooses one of the candidates.
LEMMA ChosenSub ==
    ASSUME NEW s \in Seq(Entry), s # <<>>, NEW n \in Nat
    PROVE  Chosen(s, n) \subseteq ToSet(s)
<1>1. Len(s) \in Nat \ {0}
  OBVIOUS
<1>2. (n % Len(s)) + 1 \in 1 .. Len(s)
  BY <1>1
<1>3. QED
  BY <1>2 DEF Chosen, ToSet

\* Watch keeps the history variables sets of entries, shrinks them during a
\* call, and never keeps a key that is open after the step in shut.
LEMMA WatchFacts ==
    ASSUME TypeOK, Watch
    PROVE  /\ shut' \in [Caller -> SUBSET Entry]
           /\ open' \in [Caller -> SUBSET Entry]
           /\ \A c \in Caller : pc[c] # "idle" => shut'[c] \subseteq shut[c]
           /\ \A c \in Caller, e \in Entry : Open(state'[e]) => e \notin shut'[c]
  BY DEF TypeOK, Watch

-----------------------------------------------------------------------------
(* Type correctness. *)

LEMMA InitType == Init => TypeOK
<1> SUFFICES ASSUME Init PROVE TypeOK
  OBVIOUS
<1>1. ToSet(InitialKeys) \subseteq Entry
  BY KeyPoolAssumption DEF ToSet
<1>2. NewKeyState \in KeyStates
  BY DEF NewKeyState, KeyStates, Expired
<1>3. QED
  BY <1>1, <1>2, KeyPoolAssumption DEF Init, TypeOK, Pcs, ReadSection

\* A call that returns leaves well-typed locals behind.
LEMMA LeaveType ==
    ASSUME TypeOK, NEW c \in Caller, Leave(c)
    PROVE  /\ pc' \in [Caller -> Pcs]
           /\ op' \in [Caller -> {"next", "excluding", "getn"}]
           /\ pos' \in [Caller -> Nat \ {0}]
           /\ avail' \in [Caller -> Seq(Entry)]
           /\ expired' \in [Caller -> BOOLEAN]
           /\ excl' \in [Caller -> SUBSET Value]
           /\ pick' \in [Caller -> Entry \cup {None}]
<1>1. pc' \in [Caller -> Pcs]
  BY DEF TypeOK, Leave, GoTo, Pcs
<1>2. avail' \in [Caller -> Seq(Entry)]
  BY DEF TypeOK, Leave
<1>3. QED
  BY <1>1, <1>2 DEF TypeOK, Leave

\* A step of a call keeps the types.
LEMMA CallType ==
    ASSUME TypeOK, NEW c \in Caller, StartCall(c) \/ CallStep(c)
    PROVE  TypeOK'
<1> USE DEF TypeOK, callVars, poolVars, GoTo, Pcs, ReadSection
<1>0. /\ Watch => shut' \in [Caller -> SUBSET Entry] /\ open' \in [Caller -> SUBSET Entry]
      /\ \A e \in Entry : ResetPause(state[e]) \in KeyStates
  BY WatchFacts, UpdateType
<1>1. CASE StartCall(c)
  <2>1. /\ op' \in [Caller -> {"next", "excluding", "getn"}]
        /\ excl' \in [Caller -> SUBSET Value]
    BY <1>1 DEF StartCall
  <2>2. pc' \in [Caller -> Pcs]
    BY <1>1 DEF StartCall
  <2>3. UNCHANGED <<keys, unused, counter, state, lent, pos, avail, expired, pick>> /\ Watch
    BY <1>1 DEF StartCall
  <2>4. QED
    BY <1>0, <2>1, <2>2, <2>3
<1>2. CASE ScanKey(c)
  <2>1. keys[pos[c]] \in Entry
    BY <1>2 DEF ScanKey
  <2>2. Append(avail[c], keys[pos[c]]) \in Seq(Entry)
    BY <2>1
  <2>3. avail' \in [Caller -> Seq(Entry)] /\ pc' \in [Caller -> Pcs] /\ pos' \in [Caller -> Nat \ {0}]
    BY <1>2, <2>2 DEF ScanKey
  <2>4. QED
    BY <1>2, <1>0, <2>3 DEF ScanKey
<1>3. CASE ProbeExpired(c)
  <2>1. IsPauseExpired(state[keys[pos[c] - 1]]) \in BOOLEAN
    BY DEF IsPauseExpired
  <2>2. expired' \in [Caller -> BOOLEAN]
    BY <1>3, <2>1 DEF ProbeExpired
  <2>3. QED
    BY <1>3, <1>0, <2>2 DEF ProbeExpired
<1>4. CASE EndNextScan(c)
  BY <1>4, <1>0 DEF EndNextScan
<1>5. CASE LockReset(c)
  BY <1>5, <1>0 DEF LockReset
<1>6. CASE Relock(c)
  <2>1. CASE GoTo(c, "rescan")
    BY <1>6, <1>0, <2>1 DEF Relock
  <2>2. CASE GoTo(c, "final")
    BY <1>6, <1>0, <2>2 DEF Relock
  <2>3. QED
    BY <1>6, <2>1, <2>2 DEF Relock
<1>7. CASE EndRescan(c)
  BY <1>7, <1>0 DEF EndRescan
<1>8. CASE Revalidate(c)
  <2>1. RemoveAt(avail[c], pos[c]) \in Seq(Entry)
    <3>1. avail[c] \in Seq(Entry) /\ pos[c] \in 1 .. Len(avail[c])
      BY <1>8 DEF Revalidate
    <3>2. QED
      BY <3>1, RemoveAtSub
  <2>2. avail' = avail \/ avail' = [avail EXCEPT ![c] = RemoveAt(avail[c], pos[c])]
    BY <1>8 DEF Revalidate
  <2>3. pos' = pos \/ pos' = [pos EXCEPT ![c] = pos[c] + 1]
    BY <1>8 DEF Revalidate
  <2>4. avail' \in [Caller -> Seq(Entry)]
    BY <2>1, <2>2
  <2>5. pos' \in [Caller -> Nat \ {0}]
    <3>1. pos[c] + 1 \in Nat \ {0}
      OBVIOUS
    <3>2. CASE pos' = [pos EXCEPT ![c] = pos[c] + 1]
      BY <3>1, <3>2
    <3>3. QED
      BY <2>3, <3>2
  <2>6. QED
    BY <1>8, <1>0, <2>4, <2>5 DEF Revalidate
<1>9. CASE PickKey(c)
  <2>1. counter' \in Nat
    BY <1>9, KeyPoolAssumption DEF PickKey
  <2>2. Chosen(avail[c], counter') \subseteq ToSet(avail[c])
    BY <1>9, <2>1, ChosenSub DEF PickKey
  <2>3. ToSet(avail[c]) \subseteq Entry
    BY DEF ToSet
  <2>4. pick' \in [Caller -> Entry \cup {None}]
    BY <1>9, <2>2, <2>3 DEF PickKey
  <2>5. QED
    BY <1>9, <1>0, <2>1, <2>4 DEF PickKey
<1>10. CASE PickNone(c)
  BY <1>10, <1>0 DEF PickNone
<1>11. CASE CheckPick(c)
  BY <1>11, <1>0 DEF CheckPick
<1>12. CASE ResetPick(c)
  BY <1>12, <1>0 DEF ResetPick
<1>13. CASE Return(c)
  <2>1. pick[c] # None => ValueOf[pick[c]] \in Value
    BY KeyPoolAssumption
  <2>2. lent' \in [Value -> Nat]
    BY <1>13, <2>1 DEF Return
  <2>3. Leave(c) /\ Watch /\ UNCHANGED <<state, poolVars>>
    BY <1>13 DEF Return
  <2>4. QED
    BY <1>0, <2>2, <2>3, LeaveType
<1>14. CASE ReturnMany(c)
  <2>1. lent' \in [Value -> Nat]
    BY <1>14 DEF ReturnMany
  <2>2. Leave(c) /\ Watch /\ UNCHANGED <<state, poolVars>>
    BY <1>14 DEF ReturnMany
  <2>3. QED
    BY <1>0, <2>1, <2>2, LeaveType
<1>15. QED
  BY <1>1, <1>2, <1>3, <1>4, <1>5, <1>6, <1>7, <1>8, <1>9, <1>10, <1>11, <1>12, <1>13, <1>14
     DEF CallStep

\* A step that changes neither the calls nor the pool, only keys' states and
\* the outstanding attempts, keeps the types.
LEMMA KeyStepType ==
    ASSUME TypeOK, UNCHANGED <<pc, callVars, poolVars>>, Watch,
           state' \in [Entry -> KeyStates], lent' \in [Value -> Nat]
    PROVE  TypeOK'
  BY WatchFacts DEF TypeOK, callVars, poolVars

\* A report of an attempt keeps the types.
LEMMA ReportType ==
    ASSUME TypeOK, NEW v \in Value, FindAvailable(v) \/ Report(v)
    PROVE  TypeOK'
<1>1. \A e \in Entry :
          /\ state[e] \in KeyStates /\ OnSuccess(state[e]) \in KeyStates
          /\ RecordError(state[e]) \in KeyStates
          /\ \A status \in Status : ErrorEffect(status, state[e]) \in KeyStates
  <2>1. TAKE e \in Entry
  <2>2. /\ state[e] \in KeyStates /\ OnSuccess(state[e]) \in KeyStates
        /\ RecordError(state[e]) \in KeyStates /\ On401(state[e]) \in KeyStates
        /\ RecordOnly(state[e]) \in KeyStates
    BY UpdateType DEF TypeOK
  <2>3. ASSUME NEW status \in Status
        PROVE  ErrorEffect(status, state[e]) \in KeyStates
    BY <2>2, KeyPoolAssumption DEF ErrorEffect
  <2>4. QED
    BY <2>2, <2>3
<1>2. CASE FindAvailable(v)
  BY <1>2, KeyStepType DEF FindAvailable, TypeOK
<1>3. CASE ReportSuccess(v)
  BY <1>1, <1>3, KeyStepType DEF ReportSuccess, Settle, TypeOK
<1>4. ASSUME NEW status \in Status, ReportError(v, status)
      PROVE  TypeOK'
  BY <1>1, <1>4, KeyStepType DEF ReportError, Settle, TypeOK
<1>5. CASE ReportStreamError(v)
  BY <1>1, <1>5, KeyStepType DEF ReportStreamError, Settle, TypeOK
<1>6. CASE Abandon(v)
  BY <1>1, <1>6, KeyStepType DEF Abandon, Settle, TypeOK
<1>7. QED
  BY <1>2, <1>3, <1>4, <1>5, <1>6 DEF Report

\* An operator's action keeps the types.
LEMMA OperatorType ==
    ASSUME TypeOK, NEW v \in Value, Operator(v)
    PROVE  TypeOK'
<1>1. \A e \in Entry :
          /\ state[e] \in KeyStates /\ PauseFor(state[e], AdminPause) \in KeyStates
          /\ Resume(state[e]) \in KeyStates /\ On401(state[e]) \in KeyStates
          /\ NewKeyState \in KeyStates
  BY UpdateType DEF TypeOK
<1>2. CASE PauseKey(v)
  BY <1>1, <1>2, KeyStepType DEF PauseKey, Operate, TypeOK
<1>3. CASE ResumeKey(v)
  BY <1>1, <1>3, KeyStepType DEF ResumeKey, Operate, TypeOK
<1>4. CASE SkipKey(v)
  BY <1>1, <1>4, KeyStepType DEF SkipKey, Operate, TypeOK
<1>5. CASE RemoveKey(v)
  <2>1. PICK i \in DOMAIN keys : keys' = RemoveAt(keys, i)
    BY <1>5 DEF RemoveKey
  <2>2. keys' \in Seq(Entry)
    BY <2>1, RemoveAtSub DEF TypeOK
  <2>3. QED
    BY <1>5, <2>2, WatchFacts DEF RemoveKey, TypeOK, callVars
<1>6. CASE AddKey(v)
  <2>1. PICK e \in unused : /\ keys' = Append(keys, e)
                            /\ unused' = unused \ {e}
                            /\ state' = [state EXCEPT ![e] = NewKeyState]
    BY <1>6 DEF AddKey
  <2>2. keys' \in Seq(Entry) /\ state' \in [Entry -> KeyStates] /\ unused' \subseteq Entry
    BY <1>1, <2>1 DEF TypeOK
  <2>3. QED
    BY <1>6, <2>2, WatchFacts DEF AddKey, TypeOK, callVars
<1>7. QED
  BY <1>2, <1>3, <1>4, <1>5, <1>6 DEF Operator

LEMMA TypeStep == TypeOK /\ [Next]_vars => TypeOK'
<1> SUFFICES ASSUME TypeOK, [Next]_vars PROVE TypeOK'
  OBVIOUS
<1>1. CASE Tick
  <2>1. state' \in [Entry -> KeyStates]
    BY <1>1, UpdateType DEF Tick, TypeOK
  <2>2. QED
    BY <1>1, <2>1, KeyStepType DEF Tick, TypeOK
<1>2. CASE UNCHANGED vars
  BY <1>2 DEF vars, TypeOK
<1>3. QED
  BY <1>1, <1>2, CallType, ReportType, OperatorType DEF Next

\* The variables of the pool keep the types of the Go fields they stand for.
THEOREM TypeCorrect == Spec => []TypeOK
<1>1. QED
  BY InitType, TypeStep, PTL DEF Spec

-----------------------------------------------------------------------------
(* What a step may do to a key. *)

\* The updates that leave the permanent skip alone or set it.
Keeping(s) ==
    {s, OnSuccess(s), On401(s), RecordError(s), ResetPause(s), PauseFor(s, AdminPause), Elapse(s)}

\* Any other change is an operator's Resume or the creation of an entry.
LEMMA StateStep ==
    ASSUME TypeOK, [Next]_vars, NEW e \in Entry
    PROVE  \/ state'[e] \in Keeping(state[e])
           \/ ResumeKey(ValueOf[e]) /\ state'[e] = Resume(state[e])
           \/ e \in unused /\ e \notin unused' /\ state'[e] = NewKeyState
<1> DEFINE Goal == \/ state'[e] \in Keeping(state[e])
                   \/ ResumeKey(ValueOf[e]) /\ state'[e] = Resume(state[e])
                   \/ e \in unused /\ e \notin unused' /\ state'[e] = NewKeyState
<1>1. ASSUME NEW c \in Caller, StartCall(c) \/ CallStep(c)
      PROVE  Goal
  <2>1. CASE LockReset(c)
    BY <2>1 DEF LockReset, Keeping
  <2>2. CASE ResetPick(c)
    BY <2>2 DEF ResetPick, Keeping, TypeOK
  <2>3. CASE ~LockReset(c) /\ ~ResetPick(c)
    <3>1. UNCHANGED state
      BY <1>1, <2>3
         DEF CallStep, StartCall, ScanKey, ProbeExpired, EndNextScan, Relock, EndRescan,
             Revalidate, PickKey, PickNone, CheckPick, Return, ReturnMany
    <3>2. QED
      BY <3>1 DEF Keeping
  <2>4. QED
    BY <2>1, <2>2, <2>3
<1>2. ASSUME NEW v \in Value, FindAvailable(v) \/ Report(v)
      PROVE  Goal
  <2>1. CASE FindAvailable(v)
    BY <2>1 DEF FindAvailable, Keeping
  <2>2. CASE ReportSuccess(v)
    BY <2>2 DEF ReportSuccess, Settle, Keeping
  <2>3. ASSUME NEW status \in Status, ReportError(v, status)
        PROVE  Goal
    <3>1. ErrorEffect(status, state[e]) \in Keeping(state[e])
      BY KeyPoolAssumption DEF ErrorEffect, Keeping, RecordOnly
    <3>2. QED
      BY <2>3, <3>1 DEF ReportError, Settle, Keeping
  <2>4. CASE ReportStreamError(v)
    BY <2>4 DEF ReportStreamError, Settle, Keeping
  <2>5. CASE Abandon(v)
    BY <2>5 DEF Abandon, Settle, Keeping
  <2>6. QED
    BY <1>2, <2>1, <2>2, <2>3, <2>4, <2>5 DEF Report
<1>3. ASSUME NEW v \in Value, Operator(v)
      PROVE  Goal
  <2>1. CASE PauseKey(v)
    BY <2>1 DEF PauseKey, Operate, Keeping
  <2>2. CASE ResumeKey(v)
    <3>1. state'[e] = IF e \in EntriesOf(v) THEN Resume(state[e]) ELSE state[e]
      BY <2>2 DEF ResumeKey, Operate
    <3>2. e \in EntriesOf(v) => ValueOf[e] = v
      BY DEF EntriesOf
    <3>3. QED
      BY <2>2, <3>1, <3>2 DEF Keeping
  <2>3. CASE SkipKey(v)
    BY <2>3 DEF SkipKey, Operate, Keeping
  <2>4. CASE RemoveKey(v)
    BY <2>4 DEF RemoveKey, Keeping
  <2>5. CASE AddKey(v)
    BY <2>5 DEF AddKey, Keeping, TypeOK
  <2>6. QED
    BY <1>3, <2>1, <2>2, <2>3, <2>4, <2>5 DEF Operator
<1>4. CASE Tick
  BY <1>4 DEF Tick, Keeping
<1>5. CASE UNCHANGED vars
  BY <1>5 DEF vars, Keeping
<1>6. QED
  BY <1>1, <1>2, <1>3, <1>4, <1>5 DEF Next

-----------------------------------------------------------------------------
(* The threshold. *)

\* No update of a key separates a reached threshold from its pause.
LEMMA UpdateKeepsThreshold ==
    ASSUME NEW s \in KeyStates, s.consec >= Threshold => s.paused,
           NEW t \in Keeping(s) \cup {Resume(s), NewKeyState},
           t.consec >= Threshold
    PROVE  t.paused
<1> USE EffectivePositive DEF KeyStates
<1>1. CASE t = RecordError(s)
  BY <1>1 DEF RecordError
<1>2. CASE t \in {OnSuccess(s), ResetPause(s), Resume(s), NewKeyState}
  <2>1. /\ OnSuccess(s).consec = 0 /\ ResetPause(s).consec = 0
        /\ Resume(s).consec = 0 /\ NewKeyState.consec = 0
    BY DEF OnSuccess, ResetPause, Resume, NewKeyState
  <2>2. t.consec = 0
    BY <1>2, <2>1
  <2>3. QED
    BY <2>2
<1>3. CASE t \in {s, On401(s), PauseFor(s, AdminPause), Elapse(s)}
  BY <1>3 DEF On401, PauseFor, Elapse
<1>4. QED
  BY <1>1, <1>2, <1>3 DEF Keeping

\* A key with too many consecutive errors is always paused.
THEOREM ThresholdCorrect == Spec => []ThresholdMeansPaused
<1>1. Init => ThresholdMeansPaused
  BY EffectivePositive DEF Init, ThresholdMeansPaused, NewKeyState
<1>2. TypeOK /\ ThresholdMeansPaused /\ [Next]_vars => ThresholdMeansPaused'
  <2> SUFFICES ASSUME TypeOK, ThresholdMeansPaused, [Next]_vars,
                      NEW e \in Entry, state'[e].consec >= Threshold
               PROVE  state'[e].paused
    BY DEF ThresholdMeansPaused
  <2>1. state[e] \in KeyStates /\ (state[e].consec >= Threshold => state[e].paused)
    BY DEF TypeOK, ThresholdMeansPaused
  <2>2. state'[e] \in Keeping(state[e]) \cup {Resume(state[e]), NewKeyState}
    BY StateStep
  <2>3. QED
    BY <2>1, <2>2, UpdateKeepsThreshold
<1>3. QED
  BY <1>1, <1>2, TypeCorrect, PTL DEF Spec

-----------------------------------------------------------------------------
(* The inductive invariant. *)

\* What a step does to the entries a call holds: a call keeps what it held,
\* drops some of it, or takes an entry that is open after the step.
Held(c) == ToSet(avail[c]) \cup {pick[c]}

\* Every step of a call only drops entries or takes an open one.
LEMMA CallHeld ==
    ASSUME TypeOK, NEW c \in Caller, StartCall(c) \/ CallStep(c),
           NEW e \in Held(c)', e # None
    PROVE  e \in Held(c) \/ (e \in Entry /\ Open(state'[e]))
<1> USE DEF Held, TypeOK
<1>1. CASE ScanKey(c)
  <2>1. keys[pos[c]] \in Entry /\ UNCHANGED <<state, pick>>
    BY <1>1 DEF ScanKey
  <2>2. CASE avail'[c] = avail[c]
    BY <2>1, <2>2
  <2>3. CASE avail'[c] = Append(avail[c], keys[pos[c]]) /\ IsAvailable(state[keys[pos[c]]])
    <3>1. e \in Held(c) \/ e = keys[pos[c]]
      BY <2>1, <2>3, AppendSet
    <3>2. state[keys[pos[c]]] \in KeyStates
      BY <2>1
    <3>3. Open(state[keys[pos[c]]])
      BY <2>3, <3>2 DEF IsAvailable, Open, KeyStates, Expired
    <3>4. QED
      BY <2>1, <3>1, <3>3
  <2>4. QED
    BY <1>1, <2>2, <2>3 DEF ScanKey
<1>2. CASE Revalidate(c)
  <2>1. avail'[c] = avail[c] \/ avail'[c] = RemoveAt(avail[c], pos[c])
    BY <1>2 DEF Revalidate
  <2>2. avail[c] \in Seq(Entry) /\ pos[c] \in 1 .. Len(avail[c])
    BY <1>2 DEF Revalidate
  <2>3. ToSet(RemoveAt(avail[c], pos[c])) \subseteq ToSet(avail[c])
    BY <2>2, RemoveAtSub
  <2>4. UNCHANGED pick
    BY <1>2 DEF Revalidate
  <2>5. QED
    BY <2>1, <2>3, <2>4
<1>3. CASE PickKey(c)
  <2>1. counter' \in Nat /\ UNCHANGED avail
    BY <1>3, KeyPoolAssumption DEF PickKey
  <2>2. PICK p \in Chosen(avail[c], counter') : pick' = [pick EXCEPT ![c] = p]
    BY <1>3 DEF PickKey
  <2>3. p \in ToSet(avail[c])
    BY <1>3, <2>1, <2>2, ChosenSub DEF PickKey
  <2>4. pick'[c] = p
    BY <2>2
  <2>5. QED
    BY <2>1, <2>3, <2>4
<1>4. CASE Leave(c)
  <2>1. avail'[c] = <<>> /\ pick'[c] = None
    BY <1>4 DEF Leave
  <2>2. QED
    BY <2>1 DEF ToSet
<1>5. CASE UNCHANGED <<avail, pick>>
  BY <1>5
<1>6. QED
  BY <1>1, <1>2, <1>3, <1>4, <1>5
     DEF StartCall, CallStep, callVars, ProbeExpired, EndNextScan, LockReset, Relock, EndRescan,
         PickNone, CheckPick, ResetPick, Return, ReturnMany

\* A step of a call, of a report or of an operator moves no other call.
LEMMA OthersStill ==
    ASSUME TypeOK, [Next]_vars, NEW d \in Caller, ~StartCall(d), ~CallStep(d)
    PROVE  /\ pc'[d] = pc[d] /\ op'[d] = op[d] /\ pos'[d] = pos[d]
           /\ avail'[d] = avail[d] /\ pick'[d] = pick[d]
<1>1. ASSUME NEW c \in Caller, StartCall(c) \/ CallStep(c)
      PROVE  /\ pc'[d] = pc[d] /\ op'[d] = op[d] /\ pos'[d] = pos[d]
             /\ avail'[d] = avail[d] /\ pick'[d] = pick[d]
  <2>1. c # d
    BY <1>1
  <2>2. QED
    BY <1>1, <2>1
       DEF TypeOK, StartCall, CallStep, callVars, GoTo, Leave, ScanKey, ProbeExpired, EndNextScan,
           LockReset, Relock, EndRescan, Revalidate, PickKey, PickNone, CheckPick, ResetPick,
           Return, ReturnMany
<1>2. ASSUME NEW v \in Value, FindAvailable(v) \/ Report(v) \/ Operator(v)
      PROVE  UNCHANGED <<pc, callVars>>
  BY <1>2
     DEF FindAvailable, Report, ReportSuccess, ReportError, ReportStreamError, Abandon, Settle,
         Operator, Operate, PauseKey, ResumeKey, SkipKey, RemoveKey, AddKey
<1>3. CASE Tick \/ UNCHANGED vars
  BY <1>3 DEF Tick, vars, callVars
<1>4. QED
  BY <1>1, <1>2, <1>3 DEF Next, callVars

\* The history variables move with every step.
LEMMA AllWatch == Next => Watch
<1> SUFFICES ASSUME Next PROVE Watch
  OBVIOUS
<1>1. ASSUME NEW c \in Caller, StartCall(c) \/ CallStep(c)
      PROVE  Watch
  BY <1>1
     DEF StartCall, CallStep, ScanKey, ProbeExpired, EndNextScan, LockReset, Relock, EndRescan,
         Revalidate, PickKey, PickNone, CheckPick, ResetPick, Return, ReturnMany
<1>2. ASSUME NEW v \in Value, FindAvailable(v) \/ Report(v) \/ Operator(v)
      PROVE  Watch
  BY <1>2
     DEF FindAvailable, Report, ReportSuccess, ReportError, ReportStreamError, Abandon, Settle,
         Operator, Operate, PauseKey, ResumeKey, SkipKey, RemoveKey, AddKey
<1>3. CASE Tick
  BY <1>3 DEF Tick
<1>4. QED
  BY <1>1, <1>2, <1>3 DEF Next

\* A call that ends lets go of its locals, and only StartCall leaves "idle".
LEMMA IdleCleanStep == TypeOK /\ IdleClean /\ [Next]_vars => IdleClean'
<1> SUFFICES ASSUME TypeOK, IdleClean, [Next]_vars, NEW d \in Caller, pc'[d] = "idle"
             PROVE  avail'[d] = <<>> /\ pick'[d] = None
  BY DEF IdleClean
<1>1. CASE Leave(d)
  BY <1>1 DEF Leave, TypeOK
<1>2. CASE (StartCall(d) \/ CallStep(d)) /\ ~Leave(d)
  <2>1. CASE StartCall(d)
    BY <1>2, <2>1 DEF StartCall, GoTo, TypeOK
  <2>2. CASE ScanKey(d)
    <3>1. pc[d] \in {"scan", "rescan"} /\ (UNCHANGED pc \/ pc' = [pc EXCEPT ![d] = "probe"])
      BY <2>2 DEF ScanKey, GoTo
    <3>2. QED
      BY <3>1 DEF TypeOK
  <2>3. CASE Relock(d) \/ Revalidate(d)
    BY <1>2, <2>3 DEF Relock, Revalidate, GoTo, TypeOK
  <2>4. CASE \/ ProbeExpired(d) \/ EndNextScan(d) \/ LockReset(d) \/ EndRescan(d)
             \/ PickKey(d) \/ PickNone(d) \/ CheckPick(d) \/ ResetPick(d)
    BY <1>2, <2>4
       DEF ProbeExpired, EndNextScan, LockReset, EndRescan, PickKey, PickNone, CheckPick,
           ResetPick, GoTo, TypeOK
  <2>5. QED
    BY <1>2, <2>1, <2>2, <2>3, <2>4 DEF CallStep, Return, ReturnMany
<1>3. CASE ~StartCall(d) /\ ~CallStep(d)
  BY <1>3, OthersStill DEF IdleClean
<1>4. QED
  BY <1>1, <1>2, <1>3

\* Whatever a call holds after a step was open at some instant of the call.
LEMMA HandedOutStep == TypeOK /\ IdleClean /\ HandedOutWasOpen /\ [Next]_vars => HandedOutWasOpen'
<1> SUFFICES ASSUME TypeOK, IdleClean, HandedOutWasOpen, [Next]_vars,
                    NEW d \in Caller, NEW e \in Held(d)'
             PROVE  e \notin shut'[d]
  BY DEF HandedOutWasOpen, Held
<1>1. CASE UNCHANGED vars
  BY <1>1 DEF vars, HandedOutWasOpen, Held
<1>2. CASE Next
  <2>1. /\ shut' \in [Caller -> SUBSET Entry]
        /\ pc[d] # "idle" => shut'[d] \subseteq shut[d]
        /\ \A f \in Entry : Open(state'[f]) => f \notin shut'[d]
    BY <1>2, AllWatch, WatchFacts
  <2>2. e = None => e \notin shut'[d]
    BY <2>1, KeyPoolAssumption
  <2>3. CASE e # None /\ e \in Held(d)
    <3>1. pc[d] # "idle"
      BY <2>3 DEF IdleClean, Held, ToSet
    <3>2. e \notin shut[d]
      BY <2>3 DEF HandedOutWasOpen, Held
    <3>3. QED
      BY <2>1, <3>1, <3>2
  <2>4. CASE e # None /\ e \notin Held(d)
    <3>1. StartCall(d) \/ CallStep(d)
      BY <2>4, OthersStill DEF Held
    <3>2. QED
      BY <2>1, <2>4, <3>1, CallHeld
  <2>5. QED
    BY <2>2, <2>3, <2>4
<1>3. QED
  BY <1>1, <1>2

\* AddKey creates an entry once, and no earlier step can skip it.
LEMMA UnusedFreshStep == TypeOK /\ UnusedFresh /\ [Next]_vars => UnusedFresh'
<1> SUFFICES ASSUME TypeOK, UnusedFresh, [Next]_vars, NEW e \in unused'
             PROVE  e \notin ToSet(keys)' /\ ~state'[e].skipped
  BY DEF UnusedFresh
<1> USE DEF TypeOK
<1> DEFINE Quiet == e \in unused /\ e \notin ToSet(keys)' /\ ~state'[e].skipped
<1>1. ASSUME UNCHANGED <<keys, unused>>, state'[e].skipped => state[e].skipped
      PROVE  Quiet
  BY <1>1 DEF UnusedFresh, ToSet
<1>2. ASSUME NEW c \in Caller, StartCall(c) \/ CallStep(c)
      PROVE  Quiet
  <2>1. UNCHANGED <<keys, unused>>
    BY <1>2
       DEF StartCall, CallStep, poolVars, ScanKey, ProbeExpired, EndNextScan, LockReset, Relock,
           EndRescan, Revalidate, PickKey, PickNone, CheckPick, ResetPick, Return, ReturnMany
  <2>2. CASE LockReset(c)
    <3>1. e \in Entry /\ state[e] \in KeyStates
      BY <2>1
    <3>2. ResetPause(state[e]).skipped = state[e].skipped
      BY <3>1 DEF ResetPause, KeyStates
    <3>3. state'[e] = state[e] \/ state'[e] = ResetPause(state[e])
      BY <2>2, <3>1 DEF LockReset
    <3>4. QED
      BY <1>1, <2>1, <3>2, <3>3
  <2>3. CASE ResetPick(c)
    BY <1>1, <2>1, <2>3 DEF ResetPick, ResetPause, KeyStates
  <2>4. CASE ~LockReset(c) /\ ~ResetPick(c)
    <3>1. UNCHANGED state
      BY <1>2, <2>4
         DEF StartCall, CallStep, ScanKey, ProbeExpired, EndNextScan, Relock, EndRescan,
             Revalidate, PickKey, PickNone, CheckPick, Return, ReturnMany
    <3>2. QED
      BY <1>1, <2>1, <3>1
  <2>5. QED
    BY <2>2, <2>3, <2>4
<1>3. ASSUME NEW v \in Value, FindAvailable(v) \/ Report(v)
      PROVE  Quiet
  <2>1. UNCHANGED <<keys, unused>>
    BY <1>3
       DEF FindAvailable, Report, ReportSuccess, ReportError, ReportStreamError, Abandon, Settle,
           poolVars
  <2>2. e \in unused /\ e \notin EntriesOf(v)
    BY <2>1 DEF EntriesOf, UnusedFresh
  <2>3. state'[e] = state[e]
    BY <1>3, <2>2
       DEF FindAvailable, Report, ReportSuccess, ReportError, ReportStreamError, Abandon, Settle
  <2>4. QED
    BY <1>1, <2>1, <2>3
<1>4. ASSUME NEW v \in Value, Operator(v)
      PROVE  Quiet
  <2>1. CASE PauseKey(v) \/ ResumeKey(v) \/ SkipKey(v)
    <3>1. UNCHANGED <<keys, unused>>
      BY <2>1 DEF PauseKey, ResumeKey, SkipKey, Operate, poolVars
    <3>2. e \in unused /\ e \notin EntriesOf(v)
      BY <3>1 DEF EntriesOf, UnusedFresh
    <3>3. state'[e] = state[e]
      BY <2>1, <3>2 DEF PauseKey, ResumeKey, SkipKey, Operate
    <3>4. QED
      BY <1>1, <3>1, <3>3
  <2>2. CASE RemoveKey(v)
    <3>1. PICK i \in DOMAIN keys : keys' = RemoveAt(keys, i)
      BY <2>2 DEF RemoveKey
    <3>2. i \in 1 .. Len(keys)
      OBVIOUS
    <3>3. ToSet(keys') \subseteq ToSet(keys)
      BY <3>1, <3>2, RemoveAtSub
    <3>4. QED
      BY <2>2, <3>3 DEF RemoveKey, UnusedFresh, ToSet
  <2>3. CASE AddKey(v)
    <3>1. PICK f \in unused : /\ keys' = Append(keys, f)
                              /\ unused' = unused \ {f}
                              /\ state' = [state EXCEPT ![f] = NewKeyState]
      BY <2>3 DEF AddKey
    <3>2. ToSet(keys') = ToSet(keys) \cup {f}
      BY <3>1, AppendSet
    <3>3. e \in unused /\ e # f
      BY <3>1
    <3>4. state'[e] = state[e]
      BY <3>1, <3>3
    <3>5. QED
      BY <3>2, <3>3, <3>4 DEF UnusedFresh, ToSet
  <2>4. QED
    BY <1>4, <2>1, <2>2, <2>3 DEF Operator
<1>5. CASE Tick
  BY <1>1, <1>5 DEF Tick, Elapse, poolVars
<1>6. CASE UNCHANGED vars
  BY <1>1, <1>6 DEF vars
<1>7. QED
  BY <1>2, <1>3, <1>4, <1>5, <1>6 DEF Next

LEMMA InitIInv == Init => IInv
<1> SUFFICES ASSUME Init PROVE IInv
  OBVIOUS
<1>1. IdleClean
  BY DEF Init, IdleClean
<1>2. UnusedFresh
  BY DEF Init, UnusedFresh, NewKeyState
<1>3. HandedOutWasOpen
  BY DEF Init, HandedOutWasOpen
<1>4. QED
  BY InitType, <1>1, <1>2, <1>3 DEF IInv

LEMMA IInvStep == IInv /\ [Next]_vars => IInv'
  BY TypeStep, IdleCleanStep, UnusedFreshStep, HandedOutStep DEF IInv

THEOREM IInvCorrect == Spec => []IInv
  BY InitIInv, IInvStep, PTL DEF Spec

\* A selection call holds only keys that were eligible at some instant of it.
THEOREM HandedOutCorrect == Spec => []HandedOutWasOpen
<1>1. IInv => HandedOutWasOpen
  BY DEF IInv
<1>2. QED
  BY <1>1, IInvCorrect, PTL

\* The permanent skip of a 401 ends only by an operator's Resume.
THEOREM SkipCorrect == Spec => SkipEndsOnlyByResume
<1>1. IInv /\ [Next]_vars =>
        [\A e \in Entry : (state[e].skipped /\ ~state'[e].skipped) => ResumeKey(ValueOf[e])]_vars
  <2> SUFFICES ASSUME IInv, [Next]_vars, NEW e \in Entry, state[e].skipped, ~state'[e].skipped
               PROVE  ResumeKey(ValueOf[e])
    OBVIOUS
  <2>1. state[e] \in KeyStates /\ TypeOK
    BY DEF IInv, TypeOK
  <2>2. state'[e] \notin Keeping(state[e])
    BY <2>1
       DEF Keeping, KeyStates, OnSuccess, On401, RecordError, ResetPause, PauseFor, Elapse
  <2>3. e \notin unused
    BY DEF IInv, UnusedFresh
  <2>4. QED
    BY <2>1, <2>2, <2>3, StateStep
<1>2. QED
  BY <1>1, IInvCorrect, PTL DEF Spec, SkipEndsOnlyByResume

-----------------------------------------------------------------------------
(* What a call knows of the pool. *)

\* Removing a position keeps the elements of every other position.
LEMMA RemoveAtKeeps ==
    ASSUME NEW S, NEW s \in Seq(S), NEW i \in 1 .. Len(s), NEW k \in 1 .. Len(s), k # i
    PROVE  s[k] \in ToSet(RemoveAt(s, i))
<1> DEFINE front == SubSeq(s, 1, i - 1)
           back == SubSeq(s, i + 1, Len(s))
           r == front \o back
<1>1. front \in Seq(S) /\ Len(front) = i - 1 /\ \A j \in 1 .. i - 1 : front[j] = s[j]
  <2>1. \A j \in 1 .. i - 1 : s[j] \in S
    OBVIOUS
  <2>2. QED
    BY <2>1, SubSeqProperties, 1 \in Int, i - 1 \in Int
<1>2. /\ back \in Seq(S)
      /\ Len(back) = Len(s) - i
      /\ \A j \in 1 .. Len(s) - i : back[j] = s[i + j]
  <2>1. \A j \in i + 1 .. Len(s) : s[j] \in S
    OBVIOUS
  <2>2. QED
    BY <2>1, SubSeqProperties, i + 1 \in Int, Len(s) \in Int
<1> HIDE DEF front, back
<1>3. /\ r \in Seq(S)
      /\ Len(r) = Len(front) + Len(back)
      /\ \A j \in 1 .. Len(front) + Len(back) :
            r[j] = IF j <= Len(front) THEN front[j] ELSE back[j - Len(front)]
  BY <1>1, <1>2, ConcatProperties
<1> HIDE DEF r
<1>4. \E j \in 1 .. Len(r) : r[j] = s[k]
  <2>1. CASE k < i
    <3>1. k \in 1 .. Len(front) + Len(back) /\ k <= Len(front)
      BY <1>1, <1>2, <2>1
    <3>2. r[k] = s[k]
      BY <1>1, <1>3, <2>1, <3>1
    <3>3. QED
      BY <1>3, <3>1, <3>2
  <2>2. CASE k > i
    <3>1. k - 1 \in 1 .. Len(front) + Len(back) /\ ~(k - 1 <= Len(front))
      BY <1>1, <1>2, <2>2
    <3>2. r[k - 1] = back[k - i]
      <4>1. r[k - 1] = back[(k - 1) - Len(front)]
        BY <1>3, <3>1
      <4>2. (k - 1) - Len(front) = k - i
        BY <1>1
      <4>3. QED
        BY <4>1, <4>2
    <3>3. back[k - i] = s[k]
      BY <1>2, <2>2, k - i \in 1 .. Len(s) - i, i + (k - i) = k
    <3>4. QED
      BY <1>3, <3>1, <3>2, <3>3
  <2>3. QED
    BY <2>1, <2>2
<1>5. RemoveAt(s, i) = r
  BY DEF RemoveAt, r, front, back
<1>6. QED
  <2>1. DOMAIN r = 1 .. Len(r)
    BY <1>3
  <2>2. QED
    BY <1>4, <1>5, <2>1 DEF ToSet

\* A key that the code does not find available is not open either.
LEMMA OpenIsAvailable ==
    ASSUME NEW s \in KeyStates
    PROVE  Open(s) <=> IsAvailable(s)
  BY DEF Open, IsAvailable, KeyStates, Expired

\* After every step the candidates open all along are in the pool, open and
\* not excluded; during a call they only become fewer.
LEMMA WatchOpen ==
    ASSUME TypeOK, Watch, NEW c \in Caller
    PROVE  /\ open'[c] \subseteq ToSet(keys')
           /\ \A e \in open'[c] : Open(state'[e]) /\ ValueOf[e] \notin excl'[c]
           /\ pc[c] # "idle" => open'[c] \subseteq open[c]
  BY DEF TypeOK, Watch

\* While a call is in its read section the pool keeps its keys.
LEMMA KeysStill ==
    ASSUME TypeOK, [Next]_vars, NEW d \in Caller, pc[d] \in ReadSection
    PROVE  keys' = keys
<1>1. ASSUME NEW c \in Caller, StartCall(c) \/ CallStep(c)
      PROVE  keys' = keys
  BY <1>1
     DEF StartCall, CallStep, poolVars, ScanKey, ProbeExpired, EndNextScan, LockReset, Relock,
         EndRescan, Revalidate, PickKey, PickNone, CheckPick, ResetPick, Return, ReturnMany
<1>2. ASSUME NEW v \in Value, FindAvailable(v) \/ Report(v) \/ Operator(v)
      PROVE  keys' = keys
  BY <1>2
     DEF FindAvailable, Report, ReportSuccess, ReportError, ReportStreamError, Abandon, Settle,
         Operator, Operate, PauseKey, ResumeKey, SkipKey, RemoveKey, AddKey, NoReader, poolVars
<1>3. CASE Tick \/ UNCHANGED vars
  BY <1>3 DEF Tick, vars, poolVars
<1>4. QED
  BY <1>1, <1>2, <1>3 DEF Next

\* A step of another call, a report, an operator's action or time tells a call
\* nothing that it would have to unlearn.
LEMMA CallInvOthers ==
    ASSUME TypeOK, Next, NEW d \in Caller, ~StartCall(d), ~CallStep(d),
           NoneMissed(d), StaysInPool(d)
    PROVE  NoneMissed(d)' /\ StaysInPool(d)'
<1>1. /\ pc'[d] = pc[d] /\ op'[d] = op[d] /\ pos'[d] = pos[d]
      /\ avail'[d] = avail[d] /\ pick'[d] = pick[d]
  BY OthersStill
<1>2. /\ open'[d] \subseteq ToSet(keys')
      /\ pc[d] # "idle" => open'[d] \subseteq open[d]
  BY AllWatch, WatchOpen
<1>3. pc[d] \in ReadSection => keys' = keys
  BY KeysStill
<1>4. NoneMissed(d)'
  BY <1>1, <1>2, <1>3 DEF NoneMissed, ReadSection
<1>5. StaysInPool(d)'
  BY <1>1, <1>3 DEF StaysInPool, ReadSection
<1>6. QED
  BY <1>4, <1>5

\* The scan settles one position after the other.
LEMMA ScanMissesNone ==
    ASSUME TypeOK, NEW c \in Caller, ScanKey(c), NoneMissed(c), StaysInPool(c)
    PROVE  NoneMissed(c)' /\ StaysInPool(c)'
<1> USE DEF TypeOK
<1> DEFINE e == keys[pos[c]]
<1>1. /\ pc[c] \in {"scan", "rescan"} /\ pos[c] \in 1 .. Len(keys) /\ pos'[c] = pos[c] + 1
      /\ UNCHANGED <<keys, state, op, excl, pick>>
      /\ pc'[c] \in {pc[c], "probe"} /\ (pc[c] = "rescan" => pc'[c] = "rescan")
      /\ op[c] = "excluding" => pc'[c] = pc[c]
      /\ avail'[c] = IF IsAvailable(state[e]) /\ ValueOf[e] \notin excl[c]
                     THEN Append(avail[c], e) ELSE avail[c]
  BY DEF ScanKey, GoTo
<1>2. /\ open'[c] \subseteq open[c] /\ open'[c] \subseteq ToSet(keys)
      /\ \A f \in open'[c] : Open(state[f]) /\ ValueOf[f] \notin excl[c]
  BY <1>1, WatchOpen DEF ScanKey
<1>3. e \in Entry /\ e \in ToSet(keys) /\ state[e] \in KeyStates
  BY <1>1 DEF ToSet
<1>4. /\ ToSet(avail[c]) \subseteq ToSet(avail'[c])
      /\ ToSet(avail'[c]) \subseteq ToSet(avail[c]) \cup {e}
      /\ e \in open'[c] => e \in ToSet(avail'[c])
  <2> HIDE DEF e
  <2>1. e \in open'[c] => IsAvailable(state[e]) /\ ValueOf[e] \notin excl[c]
    BY <1>2, <1>3, OpenIsAvailable
  <2>2. ToSet(Append(avail[c], e)) = ToSet(avail[c]) \cup {e}
    BY <1>3, AppendSet
  <2>3. QED
    BY <1>1, <2>1, <2>2
<1>5. pc[c] = "scan" => \A i \in DOMAIN keys : i < pos[c] + 1 /\ keys[i] \in open'[c]
                                              => keys[i] \in ToSet(avail'[c])
  <2> SUFFICES ASSUME pc[c] = "scan", NEW i \in DOMAIN keys, i < pos[c] + 1, keys[i] \in open'[c]
               PROVE  keys[i] \in ToSet(avail'[c])
    OBVIOUS
  <2>1. CASE i = pos[c]
    BY <1>4, <2>1
  <2>2. CASE i < pos[c]
    BY <1>2, <1>4, <2>2 DEF NoneMissed
  <2>3. QED
    BY <1>1, <2>1, <2>2
<1> HIDE DEF e
<1>6. NoneMissed(c)'
  BY <1>1, <1>2, <1>5 DEF NoneMissed
<1>7. StaysInPool(c)'
  BY <1>1, <1>3, <1>4 DEF StaysInPool
<1>8. QED
  BY <1>6, <1>7

\* A scan that ends without a candidate has seen every key closed, and the
\* candidates of one that ends with some cover every key still open.
LEMMA ScanCovers ==
    ASSUME TypeOK, NEW c \in Caller, NoneMissed(c), pc[c] = "scan", pos[c] > Len(keys)
    PROVE  open[c] \subseteq ToSet(avail[c]) /\ (avail[c] = <<>> => open[c] = {})
<1>1. \A f \in open[c] : f \in ToSet(avail[c])
  <2> TAKE f \in open[c]
  <2>1. PICK i \in DOMAIN keys : f = keys[i]
    BY DEF NoneMissed, ToSet
  <2>2. i < pos[c]
    BY <2>1 DEF TypeOK
  <2>3. QED
    BY <2>1, <2>2 DEF NoneMissed
<1>2. avail[c] = <<>> => ToSet(avail[c]) = {}
  BY DEF ToSet
<1>3. QED
  BY <1>1, <1>2

\* The re-validation drops only candidates that are closed.
LEMMA RevalidateMissesNone ==
    ASSUME TypeOK, NEW c \in Caller, Revalidate(c), NoneMissed(c), StaysInPool(c)
    PROVE  NoneMissed(c)' /\ StaysInPool(c)'
<1> USE DEF TypeOK
<1>1. /\ pc[c] = "final" /\ pos[c] \in 1 .. Len(avail[c])
      /\ UNCHANGED <<keys, state, op, pc, excl, pick>>
  BY DEF Revalidate
<1>2. /\ open'[c] \subseteq open[c] /\ open'[c] \subseteq ToSet(keys)
      /\ \A f \in open'[c] : Open(state[f])
  BY <1>1, WatchOpen DEF Revalidate
<1>3. open'[c] \subseteq ToSet(avail'[c])
  <2>1. CASE UNCHANGED avail
    BY <1>1, <1>2, <2>1 DEF NoneMissed
  <2>2. CASE /\ ~IsAvailable(state[avail[c][pos[c]]])
             /\ avail' = [avail EXCEPT ![c] = RemoveAt(@, pos[c])]
    <3>1. avail'[c] = RemoveAt(avail[c], pos[c])
      BY <2>2
    <3>2. avail[c][pos[c]] \notin open'[c]
      BY <1>1, <1>2, <2>2, OpenIsAvailable
    <3>3. ASSUME NEW f \in open'[c]
          PROVE  f \in ToSet(avail'[c])
      <4>1. PICK k \in 1 .. Len(avail[c]) : f = avail[c][k]
        BY <1>1, <1>2 DEF NoneMissed, ToSet
      <4>2. k # pos[c] /\ avail[c] \in Seq(Entry)
        BY <3>2, <4>1
      <4>3. QED
        BY <1>1, <3>1, <4>1, <4>2, RemoveAtKeeps
    <3>4. QED
      BY <3>3
  <2>3. QED
    BY <2>1, <2>2 DEF Revalidate
<1>4. QED
  BY <1>1, <1>2, <1>3 DEF NoneMissed, StaysInPool

\* Every other step of the call itself.
LEMMA CallInvOwn ==
    ASSUME TypeOK, IdleClean, IdleAtStart, NEW c \in Caller, StartCall(c) \/ CallStep(c),
           NoneMissed(c), StaysInPool(c)
    PROVE  NoneMissed(c)' /\ StaysInPool(c)'
<1> USE DEF TypeOK, GoTo
<1>0. Watch
  BY AllWatch DEF Next
<1>1. /\ open'[c] \subseteq ToSet(keys')
      /\ pc[c] # "idle" => open'[c] \subseteq open[c]
  BY <1>0, WatchOpen
<1>2. avail[c] = <<>> => ToSet(avail[c]) = {}
  BY DEF ToSet
<1>3. CASE StartCall(c)
  <2>1. /\ pc'[c] = "scan" /\ pos'[c] = 1 /\ avail'[c] = <<>> /\ keys' = keys
    BY <1>3 DEF StartCall, IdleClean, IdleAtStart, poolVars
  <2>2. ToSet(avail'[c]) = {}
    BY <2>1 DEF ToSet
  <2>3. QED
    BY <1>1, <2>1, <2>2 DEF NoneMissed, StaysInPool
<1>4. CASE ProbeExpired(c)
  <2>1. /\ pc[c] = "probe" /\ pc'[c] = "scan"
        /\ UNCHANGED <<keys, pos, avail, op, pick>>
    BY <1>4 DEF ProbeExpired
  <2>2. QED
    BY <1>1, <2>1 DEF NoneMissed, StaysInPool
<1>5. CASE EndNextScan(c)
  <2>1. /\ pc[c] = "scan" /\ op[c] = "next" /\ UNCHANGED <<keys, pos, avail, op, pick>>
        /\ pc'[c] = IF avail[c] # <<>> THEN "gap" ELSE IF expired[c] THEN "lock" ELSE "return"
    BY <1>5 DEF EndNextScan, callVars, poolVars
  <2>2. open[c] \subseteq ToSet(avail[c]) /\ (avail[c] = <<>> => open[c] = {})
    BY <1>5, ScanCovers DEF EndNextScan
  <2>3. QED
    BY <1>1, <2>1, <2>2 DEF NoneMissed, StaysInPool
<1>6. CASE LockReset(c)
  <2>1. /\ pc[c] = "lock" /\ pc'[c] \in {"return", "unlocked"}
        /\ UNCHANGED <<keys, pos, avail, op, pick>>
    BY <1>6 DEF LockReset, callVars, poolVars
  <2>2. QED
    BY <1>1, <2>1 DEF NoneMissed, StaysInPool
<1>7. CASE Relock(c)
  <2>1. /\ \/ pc[c] = "unlocked" /\ pc'[c] = "rescan"
           \/ pc[c] = "gap" /\ pc'[c] = "final"
        /\ UNCHANGED <<keys, avail, op, pick>>
    BY <1>7 DEF Relock
  <2>2. QED
    BY <1>1, <2>1 DEF NoneMissed, StaysInPool
<1>8. CASE EndRescan(c)
  <2>1. /\ pc[c] = "rescan" /\ pc'[c] \in {"gap", "return"}
        /\ UNCHANGED <<keys, pos, avail, op, pick>>
    BY <1>8 DEF EndRescan, callVars, poolVars
  <2>2. open'[c] = {}
    BY <1>1, <2>1 DEF NoneMissed
  <2>3. QED
    BY <1>1, <2>1, <2>2 DEF NoneMissed, StaysInPool
<1>9. CASE PickKey(c)
  <2>1. /\ pc[c] = "final" \/ (pc[c] = "scan" /\ op[c] = "excluding")
        /\ pc'[c] = "check" /\ UNCHANGED <<keys, pos, avail, op>> /\ counter' \in Nat
    BY <1>9, KeyPoolAssumption DEF PickKey, Filtered
  <2>2. PICK p \in Chosen(avail[c], counter') : pick' = [pick EXCEPT ![c] = p]
    BY <1>9 DEF PickKey
  <2>3. p \in ToSet(avail[c])
    BY <1>9, <2>1, <2>2, ChosenSub DEF PickKey
  <2>4. pick'[c] = p /\ p \in Entry
    BY <2>2, <2>3 DEF ToSet
  <2>5. QED
    BY <1>1, <2>1, <2>3, <2>4 DEF NoneMissed, StaysInPool
<1>10. CASE PickNone(c)
  <2>1. /\ pc'[c] = "return" /\ avail[c] = <<>> /\ UNCHANGED <<keys, pos, avail, op, pick>>
    BY <1>10 DEF PickNone, callVars, poolVars
  <2>2. open[c] = {}
    <3>1. CASE pc[c] = "final"
      BY <1>2, <2>1, <3>1 DEF NoneMissed
    <3>2. CASE pc[c] = "scan" /\ pos[c] > Len(keys)
      BY <2>1, <3>2, ScanCovers
    <3>3. QED
      BY <1>10, <3>1, <3>2 DEF PickNone, Filtered
  <2>3. pc[c] # "idle"
    BY <1>10 DEF PickNone, Filtered
  <2>4. QED
    BY <1>1, <2>1, <2>2, <2>3 DEF NoneMissed, StaysInPool
<1>11. CASE CheckPick(c)
  <2>1. /\ pc[c] = "check" /\ pc'[c] \in {"reset", "return"}
        /\ UNCHANGED <<keys, pos, avail, op, pick>>
    BY <1>11 DEF CheckPick, callVars, poolVars
  <2>2. pick[c] \in Entry /\ pick[c] # None
    BY <2>1, KeyPoolAssumption DEF NoneMissed
  <2>3. QED
    BY <1>1, <2>1, <2>2 DEF NoneMissed, StaysInPool
<1>12. CASE ResetPick(c)
  <2>1. /\ pc[c] = "reset" /\ pc'[c] = "return" /\ UNCHANGED <<keys, pos, avail, op, pick>>
    BY <1>12 DEF ResetPick, callVars, poolVars
  <2>2. pick[c] \in Entry /\ pick[c] # None
    BY <2>1, KeyPoolAssumption DEF NoneMissed
  <2>3. QED
    BY <1>1, <2>1, <2>2 DEF NoneMissed, StaysInPool
<1>13. CASE Leave(c)
  <2>1. pc'[c] = "idle" /\ op'[c] = "next"
    BY <1>13 DEF Leave
  <2>2. QED
    BY <2>1 DEF NoneMissed, StaysInPool
<1>14. QED
  BY <1>3, <1>4, <1>5, <1>6, <1>7, <1>8, <1>9, <1>10, <1>11, <1>12, <1>13, ScanMissesNone,
     RevalidateMissesNone
     DEF CallStep, Return, ReturnMany

\* A call leaves its position at the first key.
LEMMA IdleAtStartStep == TypeOK /\ IdleAtStart /\ [Next]_vars => IdleAtStart'
<1> SUFFICES ASSUME TypeOK, IdleAtStart, [Next]_vars, NEW d \in Caller, pc'[d] = "idle"
             PROVE  pos'[d] = 1
  BY DEF IdleAtStart
<1>1. CASE Leave(d)
  BY <1>1 DEF Leave, TypeOK
<1>2. CASE (StartCall(d) \/ CallStep(d)) /\ ~Leave(d)
  <2>1. CASE ScanKey(d)
    <3>1. pc[d] \in {"scan", "rescan"} /\ (UNCHANGED pc \/ pc' = [pc EXCEPT ![d] = "probe"])
      BY <2>1 DEF ScanKey, GoTo
    <3>2. QED
      BY <3>1 DEF TypeOK
  <2>2. CASE Relock(d) \/ Revalidate(d)
    BY <1>2, <2>2 DEF Relock, Revalidate, GoTo, TypeOK
  <2>3. CASE \/ StartCall(d) \/ ProbeExpired(d) \/ EndNextScan(d) \/ LockReset(d)
             \/ EndRescan(d) \/ PickKey(d) \/ PickNone(d) \/ CheckPick(d) \/ ResetPick(d)
    BY <1>2, <2>3
       DEF StartCall, ProbeExpired, EndNextScan, LockReset, EndRescan, PickKey, PickNone,
           CheckPick, ResetPick, GoTo, TypeOK
  <2>4. QED
    BY <1>2, <2>1, <2>2, <2>3 DEF CallStep, Return, ReturnMany
<1>3. CASE ~StartCall(d) /\ ~CallStep(d)
  BY <1>3, OthersStill DEF IdleAtStart
<1>4. QED
  BY <1>1, <1>2, <1>3

LEMMA InitCallInv == Init => CallInv
  BY DEF Init, CallInv, IdleAtStart, NoneMissed, StaysInPool

LEMMA CallInvStep == IInv /\ CallInv /\ [Next]_vars => CallInv'
<1> SUFFICES ASSUME IInv, CallInv, [Next]_vars PROVE CallInv'
  OBVIOUS
<1>1. IdleAtStart'
  BY IdleAtStartStep DEF IInv, CallInv
<1>2. ASSUME NEW d \in Caller
      PROVE  NoneMissed(d)' /\ StaysInPool(d)'
  <2>1. NoneMissed(d) /\ StaysInPool(d) /\ IdleAtStart /\ TypeOK /\ IdleClean
    BY DEF CallInv, IInv
  <2>2. CASE UNCHANGED vars
    BY <2>1, <2>2 DEF vars, NoneMissed, StaysInPool
  <2>3. CASE Next /\ (StartCall(d) \/ CallStep(d))
    BY <2>1, <2>3, CallInvOwn
  <2>4. CASE Next /\ ~StartCall(d) /\ ~CallStep(d)
    BY <2>1, <2>4, CallInvOthers
  <2>5. QED
    BY <2>2, <2>3, <2>4
<1>3. QED
  BY <1>1, <1>2 DEF CallInv

THEOREM CallInvCorrect == Spec => []CallInv
  BY InitCallInv, CallInvStep, IInvCorrect, PTL DEF Spec

\* A call that answers "no key" saw no key stay eligible throughout it.
THEOREM NilCorrect == Spec => []NilOnlyWhenExhausted
<1>1. CallInv => NilOnlyWhenExhausted
  BY DEF CallInv, NoneMissed, NilOnlyWhenExhausted
<1>2. QED
  BY <1>1, CallInvCorrect, PTL

\* NextExcluding settles on a key that is still in the pool.
THEOREM MemberCorrect == Spec => []ExcludingPicksMember
<1>1. CallInv => ExcludingPicksMember
  BY DEF CallInv, StaysInPool, ExcludingPicksMember
<1>2. QED
  BY <1>1, CallInvCorrect, PTL
=============================================================================
