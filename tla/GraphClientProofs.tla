--------------------------- MODULE GraphClientProofs ---------------------------
(***************************************************************************)
(* Proofs about GraphClient, for any number of calls that run side by      *)
(* side, any threshold, window, number of retries and back-off.            *)
(***************************************************************************)
EXTENDS GraphClient, FiniteSetTheorems, TLAPS

(* Who sleeps has an attempt left: what keeps attempt within its type.     *)
SleepersRetry == \A c \in Calls : pc[c] = "backoff" => attempt[c] < MaxRetries

TypeInv == TypeOK /\ SleepersRetry

(* A lost answer ended an attempt: the one of a call on the network is not *)
(* among them, the one of a call asleep may be.                            *)
LostByAttempts ==
  \A c \in Calls :
    /\ pc[c] = "idle"    => lost[c] <= MaxRetries + 1
    /\ pc[c] = "sent"    => lost[c] <= attempt[c]
    /\ pc[c] = "backoff" => lost[c] <= attempt[c] + 1

(* An attempt of a call that succeeded was not a lost one.                 *)
AcceptedOrLost ==
  \A c \in Calls :
    /\ answer[c] = "sent" => accepted[c] = lost[c] + 1 /\ lost[c] <= MaxRetries
    /\ answer[c] # "sent" => accepted[c] = lost[c]
    /\ answer[c] = "refused" => accepted[c] = 0

(* The breaker counts what the observer of Meta's answers counts.          *)
Counted == failures = faults /\ (opened <=> failures = FailThreshold)
--------------------------------------------------------------------------------
(* The bounds, one by one.                                                 *)
LEMMA Bounds ==
  /\ FailThreshold \in Nat /\ FailThreshold > 0
  /\ ResetSeconds \in Nat /\ ResetSeconds > 0
  /\ MaxRetries \in Nat /\ MaxBackoff \in Nat /\ MaxRetryAfter \in Nat
  BY GraphClientAssumption

(* A back-off is a number of seconds, whatever its caps.                   *)
LEMMA BackoffsAreNaturals ==
  ASSUME NEW n, NEW d \in Backoffs(n)
  PROVE  d \in Nat
  BY DEF Backoffs

(* What a failed attempt does to its call, and that it leaves the others   *)
(* and all the counters alone.                                             *)
LEMMA RetryOrRaiseKeepsTypes ==
  ASSUME TypeInv, NEW c \in Calls, pc[c] = "sent", RetryOrRaise(c)
  PROVE  /\ pc' \in [Calls -> {"idle", "sent", "backoff"}]
         /\ attempt' \in [Calls -> 0..MaxRetries]
         /\ delay' \in [Calls -> Nat]
         /\ answer' \in [Calls -> Answers]
         /\ SleepersRetry'
         /\ \A k \in Calls :
              /\ pc'[k] # "backoff" => delay'[k] = 0
              /\ pc'[k] = "idle" => attempt'[k] = 0
              /\ pc'[k] # "idle" => answer'[k] = "none"
<1>1. CASE MayRetry(c) /\ pc' = [pc EXCEPT ![c] = "backoff"]
           /\ (\E d \in Backoffs(attempt[c]) : delay' = [delay EXCEPT ![c] = d])
           /\ UNCHANGED <<attempt, answer>>
  <2>1. PICK d \in Backoffs(attempt[c]) : delay' = [delay EXCEPT ![c] = d]
    BY <1>1
  <2>2. d \in Nat
    BY BackoffsAreNaturals
  <2> QED
    BY <1>1, <2>1, <2>2 DEF TypeInv, TypeOK, SleepersRetry, MayRetry
<1>2. CASE Ends(c, "raised")
  BY <1>2, Bounds DEF Ends, TypeInv, TypeOK, SleepersRetry, Answers
<1> QED
  BY <1>1, <1>2 DEF RetryOrRaise
--------------------------------------------------------------------------------
(* The breaker's own variables keep their types.                           *)
LEMMA BreakerKeepsTypes ==
  ASSUME TypeInv, RecordFailure \/ RecordSuccess, Fault \/ NotFault
  PROVE  /\ failures' \in 0..FailThreshold /\ opened' \in BOOLEAN
         /\ cooling' \in 0..ResetSeconds /\ faults' \in 0..FailThreshold
<1>1. failures' \in 0..FailThreshold
  BY Bounds DEF TypeInv, TypeOK, RecordFailure, RecordSuccess
<1>2. opened' \in BOOLEAN
  BY DEF TypeInv, TypeOK, RecordFailure, RecordSuccess
<1>3. cooling' \in 0..ResetSeconds
  BY Bounds DEF TypeInv, TypeOK, RecordFailure, RecordSuccess
<1>4. faults' \in 0..FailThreshold
  BY Bounds DEF TypeInv, TypeOK, Fault, NotFault
<1> QED
  BY <1>1, <1>2, <1>3, <1>4

(* Types, and that who sleeps has an attempt left, are preserved.          *)
LEMMA TypeInvariant == Spec => []TypeInv
<1>1. Init => TypeInv
  <2> SUFFICES ASSUME Init
               PROVE  TypeInv
    OBVIOUS
  <2>1. opened \in BOOLEAN
    BY DEF Init
  <2>2. /\ failures \in 0..FailThreshold /\ cooling \in 0..ResetSeconds
        /\ faults \in 0..FailThreshold /\ hammered \in Nat
    BY Bounds DEF Init
  <2>3. /\ pc \in [Calls -> {"idle", "sent", "backoff"}]
        /\ attempt \in [Calls -> 0..MaxRetries]
        /\ delay \in [Calls -> Nat]
        /\ accepted \in [Calls -> Nat] /\ lost \in [Calls -> Nat]
        /\ answer \in [Calls -> Answers]
    BY Bounds DEF Init, Answers
  <2> QED
    BY <2>1, <2>2, <2>3 DEF Init, TypeInv, TypeOK, SleepersRetry
<1>2. TypeInv /\ [Next]_vars => TypeInv'
  <2> SUFFICES ASSUME TypeInv, [Next]_vars
               PROVE  TypeInv'
    OBVIOUS
  <2> USE Bounds
  <2>1. ASSUME NEW c \in Calls, Call(c)
        PROVE  TypeInv'
    BY <2>1 DEF Call, TypeInv, TypeOK, SleepersRetry, breaker, Answers
  <2>2. ASSUME NEW c \in Calls, Refuse(c)
        PROVE  TypeInv'
    BY <2>2 DEF Refuse, TypeInv, TypeOK, SleepersRetry, breaker, Answers
  <2>3. ASSUME NEW c \in Calls, Succeeds(c)
        PROVE  TypeInv'
    <3>1. RecordSuccess /\ NotFault /\ Ends(c, "sent")
      BY <2>3 DEF Succeeds
    <3>2. accepted' \in [Calls -> Nat] /\ lost' \in [Calls -> Nat] /\ hammered' \in Nat
      BY <2>3 DEF Succeeds, TypeInv, TypeOK
    <3> QED
      BY <2>3, <3>1, <3>2, BreakerKeepsTypes
      DEF Succeeds, Ends, TypeInv, TypeOK, SleepersRetry, Answers
  <2>4. ASSUME NEW c \in Calls, NEW reached \in {0, 1}, NetworkError(c, reached)
        PROVE  TypeInv'
    <3>1. /\ accepted' \in [Calls -> Nat] /\ lost' \in [Calls -> Nat] /\ hammered' \in Nat
      BY <2>4 DEF NetworkError, TypeInv, TypeOK, SleepersRetry
    <3> QED
      BY <2>4, <3>1, RetryOrRaiseKeepsTypes, BreakerKeepsTypes
      DEF NetworkError, TypeInv, TypeOK, SleepersRetry
  <2>5. ASSUME NEW c \in Calls, NEW e \in Errors, ErrorAnswer(c, e)
        PROVE  TypeInv'
    <3>1. accepted' \in [Calls -> Nat] /\ lost' \in [Calls -> Nat] /\ hammered' \in Nat
      BY <2>5 DEF ErrorAnswer, TypeInv, TypeOK, SleepersRetry
    <3>2. (RecordFailure \/ RecordSuccess) /\ (Fault \/ NotFault)
      BY <2>5 DEF ErrorAnswer
    <3>3. CASE Retryable(e)
      BY <2>5, <3>1, <3>2, <3>3, RetryOrRaiseKeepsTypes, BreakerKeepsTypes
      DEF ErrorAnswer, TypeInv, TypeOK, SleepersRetry
    <3>4. CASE ~ Retryable(e)
      <4>1. Ends(c, "raised")
        BY <2>5, <3>4 DEF ErrorAnswer
      <4> QED
        BY <2>5, <3>1, <3>2, <4>1, BreakerKeepsTypes DEF ErrorAnswer, Ends, TypeInv, TypeOK, SleepersRetry, Answers
    <3> QED
      BY <3>3, <3>4
  <2>6. ASSUME NEW c \in Calls, WakeUp(c)
        PROVE  TypeInv'
    BY <2>6 DEF WakeUp, Ready, TypeInv, TypeOK, SleepersRetry, breaker
  <2>7. CASE Tick
    BY <2>7 DEF Tick, TypeInv, TypeOK, SleepersRetry
  <2>8. CASE UNCHANGED vars
    BY <2>8 DEF vars, breaker, calls, TypeInv, TypeOK, SleepersRetry
  <2> QED
    BY <2>1, <2>2, <2>3, <2>4, <2>5, <2>6, <2>7, <2>8 DEF Next, Answered
<1> QED
  BY <1>1, <1>2, PTL DEF Spec

(* Every state of the client is well typed.                                *)
THEOREM ClientTypeCorrect == Spec => []TypeOK
  BY TypeInvariant, PTL DEF TypeInv
--------------------------------------------------------------------------------
(* Attempts that Meta may have accepted are counted by attempts.           *)
LEMMA CopiesInvariant == Spec => [](LostByAttempts /\ AcceptedOrLost)
<1>1. Init => LostByAttempts /\ AcceptedOrLost
  BY Bounds DEF Init, LostByAttempts, AcceptedOrLost
<1>2. TypeInv /\ LostByAttempts /\ AcceptedOrLost /\ [Next]_vars
        => (LostByAttempts /\ AcceptedOrLost)'
  <2> SUFFICES ASSUME TypeInv, LostByAttempts, AcceptedOrLost, [Next]_vars
               PROVE  (LostByAttempts /\ AcceptedOrLost)'
    OBVIOUS
  <2> USE Bounds DEF TypeInv, TypeOK, SleepersRetry, LostByAttempts, AcceptedOrLost
  <2>1. ASSUME NEW c \in Calls, Call(c)
        PROVE  (LostByAttempts /\ AcceptedOrLost)'
    BY <2>1 DEF Call
  <2>2. ASSUME NEW c \in Calls, Refuse(c)
        PROVE  (LostByAttempts /\ AcceptedOrLost)'
    BY <2>2 DEF Refuse
  <2>3. ASSUME NEW c \in Calls, Succeeds(c)
        PROVE  (LostByAttempts /\ AcceptedOrLost)'
    BY <2>3 DEF Succeeds, Ends
  <2>4. ASSUME NEW c \in Calls, NEW reached \in {0, 1}, NetworkError(c, reached)
        PROVE  (LostByAttempts /\ AcceptedOrLost)'
    BY <2>4 DEF NetworkError, RetryOrRaise, MayRetry, Ends
  <2>5. ASSUME NEW c \in Calls, NEW e \in Errors, ErrorAnswer(c, e)
        PROVE  (LostByAttempts /\ AcceptedOrLost)'
    BY <2>5 DEF ErrorAnswer, RetryOrRaise, MayRetry, Ends
  <2>6. ASSUME NEW c \in Calls, WakeUp(c)
        PROVE  (LostByAttempts /\ AcceptedOrLost)'
    BY <2>6 DEF WakeUp
  <2>7. CASE Tick
    BY <2>7 DEF Tick
  <2>8. CASE UNCHANGED vars
    BY <2>8 DEF vars, calls
  <2> QED
    BY <2>1, <2>2, <2>3, <2>4, <2>5, <2>6, <2>7, <2>8 DEF Next, Answered
<1> QED
  BY <1>1, <1>2, TypeInvariant, PTL DEF Spec

(* A message leaves once, plus once for every answer that was lost, never  *)
(* more often than the retries allow, and not at all when refused.         *)
THEOREM CopiesAreAccounted == Spec => []CopiesAccounted
<1>1. TypeInv /\ LostByAttempts /\ AcceptedOrLost => CopiesAccounted
  BY Bounds DEF TypeInv, TypeOK, LostByAttempts, AcceptedOrLost, CopiesAccounted
<1> QED
  BY <1>1, TypeInvariant, CopiesInvariant, PTL
--------------------------------------------------------------------------------
(* Faults are the answers the breaker counts: the code's order of tests in *)
(* _map_error and the classes of errors agree.                             *)
LEMMA RetryablesAreFaults ==
  ASSUME NEW e \in Errors
  PROVE  Retryable(e) <=> e.code = "retryable" \/ (e.code = "other" /\ e.status # 400)
  BY DEF Errors, Retryable

(* The breaker counts what an observer of Meta's answers counts.           *)
LEMMA BreakerInvariant == Spec => []Counted
<1>1. Init => Counted
  BY Bounds DEF Init, Counted
<1>2. TypeInv /\ Counted /\ [Next]_vars => Counted'
  <2> SUFFICES ASSUME TypeInv, Counted, [Next]_vars
               PROVE  Counted'
    OBVIOUS
  <2> USE Bounds DEF TypeInv, TypeOK, Counted
  <2>1. ASSUME RecordFailure, Fault
        PROVE  Counted'
    BY <2>1 DEF RecordFailure, Fault
  <2>2. ASSUME RecordSuccess, NotFault
        PROVE  Counted'
    BY <2>2 DEF RecordSuccess, NotFault
  <2>3. ASSUME NEW c \in Calls, Call(c) \/ Refuse(c) \/ WakeUp(c)
        PROVE  Counted'
    BY <2>3 DEF Call, Refuse, WakeUp, breaker
  <2>4. ASSUME NEW c \in Calls, Answered(c)
        PROVE  Counted'
    BY <2>1, <2>2, <2>4, RetryablesAreFaults DEF Answered, Succeeds, NetworkError, ErrorAnswer
  <2>5. CASE Tick
    BY <2>5 DEF Tick
  <2>6. CASE UNCHANGED vars
    BY <2>6 DEF vars, breaker
  <2> QED
    BY <2>3, <2>4, <2>5, <2>6 DEF Next
<1> QED
  BY <1>1, <1>2, TypeInvariant, PTL DEF Spec

(* The circuit opens on FailThreshold faults in a row of whatever calls,   *)
(* and on nothing else.                                                    *)
THEOREM BreakerOpensOnFaults == Spec => []OpensOnFaults
<1>1. Counted => OpensOnFaults
  BY DEF Counted, OpensOnFaults
<1> QED
  BY <1>1, BreakerInvariant, PTL

(* One failed trial closes the half-open circuit for the whole window,     *)
(* whatever the other trials are doing.                                    *)
THEOREM TrialsReopen == Spec => FailedTrialReopens
<1>1. TypeInv /\ Counted /\ [Next]_vars =>
        [\A c \in Calls : HalfOpen /\ pc[c] = "sent" /\ pc'[c] # "sent" /\ faults' # 0
           => opened' /\ cooling' = ResetSeconds]_vars
  <2> SUFFICES ASSUME TypeInv, Counted, Next, NEW c \in Calls,
                      HalfOpen, pc[c] = "sent", pc'[c] # "sent", faults' # 0
               PROVE  opened' /\ cooling' = ResetSeconds
    OBVIOUS
  <2> USE Bounds DEF TypeInv, TypeOK
  <2>1. ASSUME NEW k \in Calls, Call(k) \/ Refuse(k) \/ WakeUp(k)
        PROVE  FALSE
    BY <2>1 DEF Call, Refuse, WakeUp
  <2>2. ~ Tick
    BY DEF Tick
  <2>3. PICK k \in Calls : Answered(k)
    BY <2>1, <2>2 DEF Next
  <2>4. RecordFailure
    BY <2>3, RetryablesAreFaults DEF Answered, Succeeds, NetworkError, ErrorAnswer, NotFault
  <2>5. failures = FailThreshold
    BY Zenon DEF Counted, HalfOpen
  <2>6. failures' = FailThreshold
    BY <2>4, <2>5 DEF RecordFailure
  <2> QED
    BY <2>4, <2>6, Zenon DEF RecordFailure
<1> QED
  BY <1>1, TypeInvariant, BreakerInvariant, PTL DEF Spec, FailedTrialReopens
--------------------------------------------------------------------------------
(* The attempts an open circuit can have let through: those a call in its  *)
(* retry loop has begun, and all of a call that cannot begin any more.     *)
Begun == {p \in Calls \X (1..MaxRetries) : pc[p[1]] = "idle" \/ p[2] <= attempt[p[1]]}

(* The pairs of a call and a retry are as many as the bound says.          *)
LEMMA BegunIsBounded ==
  ASSUME NEW S \in SUBSET (Calls \X (1..MaxRetries))
  PROVE  IsFiniteSet(S) /\ Cardinality(S) <= Cardinality(Calls) * MaxRetries
<1>1. IsFiniteSet(1..MaxRetries) /\ Cardinality(1..MaxRetries) = MaxRetries
  BY Bounds, FS_Interval
<1>2. IsFiniteSet(Calls)
  BY GraphClientAssumption
<1>3. /\ IsFiniteSet(Calls \X (1..MaxRetries))
      /\ Cardinality(Calls \X (1..MaxRetries)) = Cardinality(Calls) * MaxRetries
  BY <1>1, <1>2, FS_Product
<1> QED
  BY <1>3, FS_Subset

(* Attempts begun while the circuit is open differ as pairs.               *)
LEMMA HammeredInvariant == Spec => [](hammered <= Cardinality(Begun))
<1>1. Init => hammered <= Cardinality(Begun)
  <2>1. Begun \in SUBSET (Calls \X (1..MaxRetries))
    BY DEF Begun
  <2>2. Cardinality(Begun) \in Nat
    BY <2>1, BegunIsBounded, FS_CardinalityType
  <2> QED
    BY <2>2 DEF Init
<1>2. TypeInv /\ TypeInv' /\ hammered <= Cardinality(Begun) /\ [Next]_vars
        => (hammered <= Cardinality(Begun))'
  <2> SUFFICES ASSUME TypeInv, TypeInv', hammered <= Cardinality(Begun), [Next]_vars
               PROVE  hammered' <= Cardinality(Begun')
    OBVIOUS
  <2>1. /\ Begun \in SUBSET (Calls \X (1..MaxRetries))
        /\ Begun' \in SUBSET (Calls \X (1..MaxRetries))
    BY DEF Begun
  <2>2. /\ IsFiniteSet(Begun) /\ Cardinality(Begun) \in Nat
        /\ IsFiniteSet(Begun') /\ Cardinality(Begun') \in Nat
    BY <2>1, BegunIsBounded, FS_CardinalityType
  <2>3. CASE hammered' = 0
    BY <2>2, <2>3
  <2>4. ASSUME hammered' = hammered, Begun \subseteq Begun'
        PROVE  hammered' <= Cardinality(Begun')
    <3>1. Cardinality(Begun) <= Cardinality(Begun')
      BY <2>2, <2>4, FS_Subset
    <3> QED
      BY <2>2, <2>4, <3>1 DEF TypeInv, TypeOK
  <2>5. ASSUME NEW c \in Calls, Call(c)
        PROVE  hammered' = 0
    BY <2>5 DEF Call, MayCall
  <2>6. ASSUME NEW c \in Calls, Refuse(c)
        PROVE  hammered' = hammered /\ Begun \subseteq Begun'
    BY <2>6 DEF Refuse, Begun
  <2>7. ASSUME NEW c \in Calls, Answered(c)
        PROVE  hammered' = hammered /\ Begun \subseteq Begun'
    <3>1. hammered' = hammered
      BY <2>7 DEF Answered, Succeeds, NetworkError, ErrorAnswer
    <3>2. CASE Ends(c, "sent") \/ Ends(c, "raised")
      BY <3>1, <3>2 DEF Ends, Begun, TypeInv, TypeOK
    <3>3. CASE pc' = [pc EXCEPT ![c] = "backoff"] /\ pc[c] = "sent" /\ UNCHANGED attempt
      BY <3>1, <3>3 DEF Begun, TypeInv, TypeOK
    <3> QED
      BY <2>7, <3>2, <3>3 DEF Answered, Succeeds, NetworkError, ErrorAnswer, RetryOrRaise
  <2>8. ASSUME NEW c \in Calls, WakeUp(c), hammered' # 0
        PROVE  hammered' <= Cardinality(Begun')
    <3> DEFINE new == <<c, attempt[c] + 1>>
    <3>1. hammered' = hammered + 1
      BY <2>8 DEF WakeUp
    <3>2. new \notin Begun
      BY <2>8 DEF WakeUp, Begun, TypeInv, TypeOK
    <3>3. Begun \cup {new} \subseteq Begun'
      BY <2>8, Bounds DEF WakeUp, Begun, TypeInv, TypeOK, SleepersRetry
    <3>4. /\ IsFiniteSet(Begun \cup {new})
          /\ Cardinality(Begun \cup {new}) = Cardinality(Begun) + 1
      BY <2>2, <3>2, FS_AddElement
    <3>5. Cardinality(Begun \cup {new}) <= Cardinality(Begun')
      BY <2>2, <3>3, FS_Subset
    <3> QED
      BY <2>2, <3>1, <3>4, <3>5 DEF TypeInv, TypeOK
  <2>9. CASE Tick
    BY <2>4, <2>9 DEF Tick, Begun
  <2>10. CASE UNCHANGED vars
    BY <2>4, <2>10 DEF vars, calls, Begun
  <2> QED
    BY <2>3, <2>4, <2>5, <2>6, <2>7, <2>8, <2>9, <2>10 DEF Next
<1> QED
  BY <1>1, <1>2, TypeInvariant, PTL DEF Spec

(* An open circuit lets through at most the retries of the calls it caught *)
(* in their loops.                                                         *)
THEOREM OpenCircuitLetsRetriesOnly == Spec => []HammeringBounded
<1>1. TypeInv /\ hammered <= Cardinality(Begun) => HammeringBounded
  <2> SUFFICES ASSUME TypeInv, hammered <= Cardinality(Begun)
               PROVE  hammered <= Cardinality(Calls) * MaxRetries
    BY DEF HammeringBounded
  <2>1. Begun \in SUBSET (Calls \X (1..MaxRetries))
    BY DEF Begun
  <2>2. /\ Cardinality(Begun) <= Cardinality(Calls) * MaxRetries
        /\ Cardinality(Begun) \in Nat /\ Cardinality(Calls) \in Nat
    BY <2>1, BegunIsBounded, FS_CardinalityType, GraphClientAssumption
  <2> DEFINE bound == Cardinality(Calls) * MaxRetries
  <2>3. bound \in Nat
    BY <2>2, Bounds
  <2> HIDE DEF bound
  <2> QED
    BY <2>2, <2>3 DEF TypeInv, TypeOK, bound
<1> QED
  BY <1>1, TypeInvariant, HammeredInvariant, PTL
================================================================================
