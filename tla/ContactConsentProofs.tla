-------------------------- MODULE ContactConsentProofs --------------------------
(***************************************************************************)
(* Proofs about ContactConsent, for any kinds of message, any number of    *)
(* messages, of jobs at a time, of failures and of pauses.                 *)
(***************************************************************************)
EXTENDS ContactConsent, FiniteSetTheorems, TLAPS

(* An idle worker holds no message and no writes.                          *)
IdleIsClean ==
  /\ Len(said) <= MaxMessages
  /\ \A t \in Tasks : pc[t] = "idle" => msg[t] = 0 /\ writes[t] = NoWrite

TypeInv == TypeOK /\ IdleIsClean

Labels == {"idle", "loaded", "touched", "confirming", "analysing", "answering", "flushing",
           "finishing"}

Writes == [status : Status \cup {"SAME"}, record : {"NONE", "OPTED_IN", "OPTED_OUT"},
           entry : {"KEEP", "ADD", "DROP"}, pause : BOOLEAN]
---------------------------------------------------------------------------------
(* What a job has flushed is of its type.                                  *)
LEMMA ConsentHasType ==
  ASSUME TypeOK, NEW t \in Tasks, NEW s \in {"OPTED_IN", "OPTED_OUT"}
  PROVE  /\ Consent(t, s) \in Writes
         /\ Consent(t, s).record = s
         /\ Consent(t, s).pause = FALSE
         /\ Consent(t, s).status = IF seen[t].status = s THEN "SAME" ELSE s
         /\ Consent(t, s).entry = IF s = "OPTED_OUT" THEN IF suppressed THEN "KEEP" ELSE "ADD"
                                  ELSE IF suppressed THEN "DROP" ELSE "KEEP"
<1>1. Changed(t, s) \in Status \cup {"SAME"}
  BY DEF Changed, Status
<1>2. CASE s = "OPTED_OUT"
  BY <1>1, <1>2 DEF Consent, Changed, Writes
<1>3. CASE s = "OPTED_IN"
  BY <1>1, <1>3 DEF Consent, Changed, Writes
<1> QED
  BY <1>2, <1>3

(* The end of a job, committed or not, leaves the worker clean.            *)
LEMMA EndKeepsTypes ==
  ASSUME TypeInv, NEW t \in Tasks, pc[t] # "idle", End(t)
  PROVE  /\ pc' \in [Tasks -> Labels]
         /\ msg' \in [Tasks -> 0..MaxMessages]
         /\ seen' = seen /\ said' = said /\ inbox' = inbox
         /\ overlapped' = overlapped /\ overtaken' = overtaken
         /\ writes' \in [Tasks -> Writes]
         /\ lock' \in Tasks \cup {Free}
         /\ \A u \in Tasks : pc'[u] # "idle" <=> msg'[u] \in DOMAIN said
         /\ lock' # Free => pc'[lock'] # "idle"
         /\ IdleIsClean'
<1>1. NoWrite \in Writes
  BY DEF NoWrite, Writes
<1>2. lock' \in (Tasks \cup {Free}) \ {t}
  BY ConsentAssumption DEF End, Released, TypeInv, TypeOK
<1>3. 0 \in 0..MaxMessages /\ 0 \notin DOMAIN said
  BY ConsentAssumption DEF TypeInv, TypeOK
<1> QED
  BY <1>1, <1>2, <1>3 DEF End, Released, order, TypeInv, TypeOK, IdleIsClean, Labels, Writes

(* A step inside a job, which may flush and may take the contact's row.    *)
LEMMA MoveKeepsTypes ==
  ASSUME TypeInv, NEW t \in Tasks, pc[t] # "idle",
         NEW l \in Labels \ {"idle"}, pc' = [pc EXCEPT ![t] = l],
         NEW w \in Writes, writes' = [writes EXCEPT ![t] = w],
         lock' \in {lock, t}, late' \in Int,
         UNCHANGED <<contact, said, inbox, msg, seen, order, bounds>>
  PROVE  TypeInv'
<1>1. /\ pc' \in [Tasks -> Labels] /\ writes' \in [Tasks -> Writes]
      /\ \A u \in Tasks : pc'[u] = "idle" <=> pc[u] = "idle"
      /\ \A u \in Tasks : pc[u] = "idle" => writes'[u] = writes[u]
  BY DEF TypeInv, TypeOK, Labels, Writes
<1>2. lock' \in Tasks \cup {Free} /\ (lock' # Free => pc'[lock'] # "idle")
  BY <1>1 DEF TypeInv, TypeOK
<1> QED
  BY <1>1, <1>2 DEF contact, order, bounds, TypeInv, TypeOK, IdleIsClean, Labels, Writes

(* The type invariant.                                                     *)
LEMMA TypeInvariant == Spec => []TypeInv
<1>1. Init => TypeInv
  <2> SUFFICES ASSUME Init
               PROVE  TypeInv
    OBVIOUS
  <2>1. NoWrite \in Writes
    BY DEF NoWrite, Writes
  <2>2. /\ status \in Status /\ paused \in BOOLEAN /\ suppressed \in BOOLEAN
        /\ botPaused \in BOOLEAN /\ overlapped \in BOOLEAN /\ overtaken \in BOOLEAN
    BY DEF Init, Status
  <2>3. /\ records \subseteq (1..MaxMessages) \X {"OPTED_IN", "OPTED_OUT"}
        /\ lock \in Tasks \cup {Free} /\ said \in Seq(Kinds) /\ inbox \subseteq DOMAIN said
        /\ late \in Int /\ pauses \in Nat /\ failures \in Nat
        /\ lock = Free
    BY DEF Init
  <2>4. /\ pc \in [Tasks -> Labels] /\ msg \in [Tasks -> 0..MaxMessages]
        /\ seen \in [Tasks -> [status : Status, paused : BOOLEAN]]
        /\ writes \in [Tasks -> Writes]
    BY <2>1, ConsentAssumption DEF Init, Labels, Status
  <2>5. IdleIsClean /\ \A t \in Tasks : pc[t] # "idle" <=> msg[t] \in DOMAIN said
    BY ConsentAssumption DEF Init, IdleIsClean
  <2> QED
    BY <2>2, <2>3, <2>4, <2>5 DEF TypeInv, TypeOK, Labels, Writes
<1>2. TypeInv /\ [Next]_vars => TypeInv'
  <2> SUFFICES ASSUME TypeInv, [Next]_vars
               PROVE  TypeInv'
    OBVIOUS
  <2> USE ConsentAssumption DEF TypeInv, TypeOK, IdleIsClean
  <2>1. ASSUME NEW kind \in Kinds, Arrive(kind)
        PROVE  TypeInv'
    <3>1. /\ said' \in Seq(Kinds) /\ Len(said') = Len(said) + 1
          /\ DOMAIN said' = DOMAIN said \cup {Len(said) + 1}
          /\ Len(said') <= MaxMessages
      BY <2>1 DEF Arrive
    <3>2. \A t \in Tasks : pc[t] # "idle" <=> msg[t] \in DOMAIN said'
      BY <3>1
    <3> QED
      BY <2>1, <3>1, <3>2 DEF Arrive, contact, jobs, order, bounds
  <2>2. ASSUME NEW t \in Tasks, NEW i \in 1..MaxMessages, Load(t, i)
        PROVE  TypeInv'
    <3>1. i \in DOMAIN said /\ i \in 0..MaxMessages
      BY <2>2 DEF Load
    <3>2. lock # t
      BY <2>2 DEF Load
    <3>3. overlapped' \in BOOLEAN /\ overtaken' \in BOOLEAN
      BY <2>2 DEF Load
    <3> QED
      BY <2>2, <3>1, <3>2, <3>3 DEF Load, contact, bounds
  <2>3. ASSUME NEW t \in Tasks, Touch(t)
        PROVE  TypeInv'
    <3>1. writes[t] \in Writes /\ writes' = [writes EXCEPT ![t] = writes[t]]
      BY <2>3 DEF Touch, Writes
    <3>2. "touched" \in Labels \ {"idle"}
      BY DEF Labels
    <3> HIDE DEF TypeInv
    <3> QED
      BY <2>3, <3>1, <3>2, MoveKeepsTypes DEF Touch, TypeInv
  <2>4. ASSUME NEW t \in Tasks, OptOut(t)
        PROVE  TypeInv'
    <3>1. Consent(t, "OPTED_OUT") \in Writes
      BY ConsentHasType
    <3>2. "confirming" \in Labels \ {"idle"}
      BY DEF Labels
    <3> QED
      BY <2>4, <3>1, <3>2, MoveKeepsTypes DEF OptOut
  <2>5. ASSUME NEW t \in Tasks, Confirm(t) \/ PauseSwitches(t) \/ NoAnswer(t)
        PROVE  TypeInv'
    <3>1. writes[t] \in Writes /\ writes' = [writes EXCEPT ![t] = writes[t]]
      BY <2>5 DEF Confirm, PauseSwitches, NoAnswer, Writes
    <3>2. PICK l \in Labels \ {"idle"} : pc' = [pc EXCEPT ![t] = l]
      BY <2>5 DEF Confirm, PauseSwitches, NoAnswer, Labels
    <3>3. /\ UNCHANGED <<contact, lock, said, inbox, msg, seen, late, order, bounds>>
          /\ pc[t] # "idle"
      BY <2>5 DEF Confirm, PauseSwitches, NoAnswer
    <3> QED
      BY <3>1, <3>2, <3>3, MoveKeepsTypes
  <2>6. ASSUME NEW t \in Tasks, Analyse(t)
        PROVE  TypeInv'
    <3> DEFINE w == CASE Kind(t) = "START" -> Consent(t, "OPTED_IN")
                      [] Kind(t) = "HUMAN" -> [NoWrite EXCEPT !.pause = TRUE]
                      [] OTHER -> NoWrite
    <3>1. w \in Writes
      BY ConsentHasType DEF NoWrite, Writes
    <3>2. writes' = [writes EXCEPT ![t] = w]
      BY <2>6 DEF Analyse
    <3>3. "answering" \in Labels \ {"idle"}
      BY DEF Labels
    <3> HIDE DEF w
    <3> QED
      BY <2>6, <3>1, <3>2, <3>3, MoveKeepsTypes DEF Analyse
  <2>7. ASSUME NEW t \in Tasks, Answer(t)
        PROVE  TypeInv'
    <3>1. late' \in Int
      BY <2>7 DEF Answer
    <3>2. writes[t] \in Writes /\ writes' = [writes EXCEPT ![t] = writes[t]]
      BY <2>7 DEF Answer, Writes
    <3>3. "finishing" \in Labels \ {"idle"}
      BY DEF Labels
    <3> QED
      BY <2>7, <3>1, <3>2, <3>3, MoveKeepsTypes DEF Answer
  <2>8. ASSUME NEW t \in Tasks, BounceReads(t)
        PROVE  TypeInv'
    <3> DEFINE w == IF HasOptedOut(t) THEN NoWrite
                    ELSE [NoWrite EXCEPT !.status = Changed(t, "SUPPRESSED"),
                                         !.entry = IF suppressed THEN "KEEP" ELSE "ADD"]
    <3>1. w \in Writes
      BY DEF NoWrite, Changed, Status, Writes
    <3>2. writes' = [writes EXCEPT ![t] = w]
      BY <2>8 DEF BounceReads
    <3>3. "flushing" \in Labels \ {"idle"}
      BY DEF Labels
    <3>4. /\ pc[t] # "idle" /\ pc' = [pc EXCEPT ![t] = "flushing"]
          /\ UNCHANGED <<contact, lock, said, inbox, msg, seen, late, order, bounds>>
      BY <2>8 DEF BounceReads
    <3> HIDE DEF w
    <3> QED
      BY <3>1, <3>2, <3>3, <3>4, MoveKeepsTypes
  <2>9. ASSUME NEW t \in Tasks, Rollback(t), pc[t] # "idle", failures' \in Nat
        PROVE  TypeInv'
    <3>1. End(t) /\ UNCHANGED <<contact, late, pauses>>
      BY <2>9 DEF Rollback
    <3> QED
      BY <2>9, <3>1, EndKeepsTypes DEF contact, Labels, Writes
  <2>10. ASSUME NEW t \in Tasks, BounceFlushes(t)
         PROVE  TypeInv'
    <3>1. CASE Rollback(t) /\ UNCHANGED failures
      BY <2>9, <2>10, <3>1 DEF BounceFlushes
    <3>2. CASE /\ lock' = IF writes[t].status # "SAME" THEN t ELSE lock
               /\ pc' = [pc EXCEPT ![t] = "finishing"]
               /\ UNCHANGED <<contact, said, inbox, msg, seen, writes, late, order, bounds>>
      <4>1. writes[t] \in Writes /\ writes' = [writes EXCEPT ![t] = writes[t]]
        BY <3>2 DEF Writes
      <4>2. "finishing" \in Labels \ {"idle"} /\ lock' \in {lock, t} /\ pc[t] # "idle"
        BY <2>10, <3>2 DEF Labels, BounceFlushes
      <4>3. late' \in Int
        BY <3>2
      <4> QED
        BY <3>2, <4>1, <4>2, <4>3, MoveKeepsTypes
    <3>3. \/ Rollback(t) /\ UNCHANGED failures
          \/ /\ lock' = IF writes[t].status # "SAME" THEN t ELSE lock
             /\ pc' = [pc EXCEPT ![t] = "finishing"]
             /\ UNCHANGED <<contact, said, inbox, msg, seen, writes, late, order, bounds>>
      BY <2>10 DEF BounceFlushes
    <3> QED
      BY <3>1, <3>2, <3>3
  <2>11. ASSUME NEW t \in Tasks, Commit(t)
         PROVE  TypeInv'
    <3>1. End(t) /\ pc[t] # "idle" /\ UNCHANGED <<botPaused, bounds>>
      BY <2>11 DEF Commit
    <3>2. StatusAfter(t) \in Status /\ status' = StatusAfter(t)
      BY <2>11 DEF Commit, StatusAfter
    <3>3. paused' \in BOOLEAN /\ suppressed' \in BOOLEAN
      BY <2>11 DEF Commit
    <3>4. records' \subseteq (1..MaxMessages) \X {"OPTED_IN", "OPTED_OUT"}
      <4>1. msg[t] \in 1..MaxMessages
        BY <3>1
      <4>2. writes[t].record \in {"NONE", "OPTED_IN", "OPTED_OUT"}
        OBVIOUS
      <4> QED
        BY <2>11, <4>1, <4>2 DEF Commit
    <3>5. late' \in Int
      <4>1. Cardinality(Busy \ {t}) \in Nat
        BY FS_CardinalityType, FS_Subset DEF Busy
      <4> QED
        BY <2>11, <4>1 DEF Commit
    <3> QED
      BY <3>1, <3>2, <3>3, <3>4, <3>5, EndKeepsTypes DEF bounds, Labels, Writes
  <2>12. ASSUME NEW t \in Tasks, ConfirmRaises(t) \/ JobFails(t)
         PROVE  TypeInv'
    BY <2>9, <2>12 DEF ConfirmRaises, JobFails
  <2>13. CASE PauseContact \/ PauseBot
    <3>1. Cardinality(Busy) \in Nat
      BY FS_CardinalityType, FS_Subset DEF Busy
    <3>2. UNCHANGED <<status, suppressed, records, lock, said, inbox, jobs, order, failures>>
      BY <2>13 DEF PauseContact, PauseBot, Pausing
    <3>3. paused' \in BOOLEAN /\ botPaused' \in BOOLEAN
      BY <2>13 DEF PauseContact, PauseBot
    <3>4. late' \in Int /\ pauses' \in Nat
      BY <2>13, <3>1 DEF PauseContact, PauseBot, Pausing
    <3> QED
      BY <3>2, <3>3, <3>4 DEF jobs, order
  <2>14. CASE ResumeContact \/ ResumeBot \/ AdminSuppress
    BY <2>14 DEF ResumeContact, ResumeBot, AdminSuppress, Resuming, jobs, order, bounds
  <2>15. CASE UNCHANGED vars
    BY <2>15 DEF vars, contact, jobs, order, bounds
  <2> QED
    BY <2>1, <2>2, <2>3, <2>4, <2>5, <2>6, <2>7, <2>8, <2>10, <2>11, <2>12, <2>13, <2>14, <2>15
    DEF Next, JobStep
<1> QED
  BY <1>1, <1>2, PTL DEF Spec

(* The contact's row, the list, the records, the switches and what a job   *)
(* has flushed keep their types, a job at work has its message, and only   *)
(* such a job holds the row's lock: consent_service's writes and a job's   *)
(* ways to end, with every snapshot of the row.                            *)
THEOREM ConsentIsTyped == Spec => []TypeOK
<1>1. TypeInv => TypeOK
  BY DEF TypeInv
<1> QED
  BY <1>1, TypeInvariant, PTL

----------------------------------------------------------------------------------
(***************************************************************************)
(* What a step can do to consent: nothing but list the contact; begin a    *)
(* job; go on in one, perhaps flushing; give one up; or commit one.        *)
(***************************************************************************)
Aside ==
  /\ UNCHANGED <<status, records, jobs, order>>
  /\ suppressed => suppressed'
  /\ Len(said') >= Len(said) /\ inbox' \subseteq inbox \cup {Len(said) + 1}
  /\ inbox' = inbox \/ Len(said') = Len(said) + 1

(* A flush says what the snapshot and the list, as it is now, call for.    *)
Fits(t, w) ==
  CASE w.record = "OPTED_OUT" ->
         /\ w.status = Changed(t, "OPTED_OUT")
         /\ w.entry = IF suppressed THEN "KEEP" ELSE "ADD"
    [] w.record = "OPTED_IN" ->
         /\ w.status = Changed(t, "OPTED_IN")
         /\ w.entry = IF suppressed THEN "DROP" ELSE "KEEP"
    [] OTHER ->
         \/ w.status = "SAME" /\ w.entry = "KEEP"
         \/ /\ seen[t].status # "OPTED_OUT"
            /\ w.status = Changed(t, "SUPPRESSED")
            /\ w.entry = IF suppressed THEN "KEEP" ELSE "ADD"

GoesOn(t) ==
  /\ pc[t] # "idle" /\ pc'[t] # "idle" /\ \A u \in Tasks \ {t} : pc'[u] = pc[u]
  /\ UNCHANGED <<status, suppressed, records, said, inbox, msg, seen, order>>
  /\ \/ UNCHANGED writes
     \/ \E w \in Writes : Fits(t, w) /\ writes' = [writes EXCEPT ![t] = w]

GivesUp(t) ==
  /\ pc[t] # "idle" /\ End(t)
  /\ UNCHANGED <<status, suppressed, records>>

(* Every step is of one of the kinds above.                                *)
LEMMA StepKinds ==
  ASSUME TypeInv, [Next]_vars
  PROVE  \/ Aside
         \/ \E t \in Tasks : GoesOn(t) \/ GivesUp(t) \/ Commit(t)
         \/ \E t \in Tasks, i \in 1..MaxMessages : Load(t, i)
<1>1. ASSUME NEW kind \in Kinds, Arrive(kind)
      PROVE  Aside
  BY <1>1 DEF Arrive, Aside, contact, TypeInv, TypeOK
<1>2. CASE PauseContact \/ PauseBot \/ ResumeContact \/ ResumeBot \/ AdminSuppress
  <2>1. UNCHANGED <<status, records, said, inbox, jobs, order>> /\ (suppressed => suppressed')
    BY <1>2 DEF PauseContact, PauseBot, ResumeContact, ResumeBot, AdminSuppress, Pausing, Resuming
  <2> QED
    BY <2>1 DEF Aside, TypeInv, TypeOK
<1>3. CASE UNCHANGED vars
  BY <1>3 DEF vars, contact, Aside, TypeInv, TypeOK
<1>4. ASSUME NEW t \in Tasks, JobFails(t) \/ ConfirmRaises(t)
      PROVE  GivesUp(t)
  BY <1>4 DEF JobFails, ConfirmRaises, Rollback, GivesUp, contact
<1>5. ASSUME NEW t \in Tasks,
             Touch(t) \/ Confirm(t) \/ PauseSwitches(t) \/ Answer(t) \/ NoAnswer(t)
      PROVE  GoesOn(t)
  BY <1>5 DEF Touch, Confirm, PauseSwitches, Answer, NoAnswer, GoesOn, contact, TypeInv, TypeOK
<1>6. ASSUME NEW t \in Tasks, OptOut(t)
      PROVE  GoesOn(t)
  <2>1. Consent(t, "OPTED_OUT") \in Writes /\ Fits(t, Consent(t, "OPTED_OUT"))
    BY ConsentHasType DEF Fits, Changed, TypeInv
  <2> QED
    BY <1>6, <2>1 DEF OptOut, GoesOn, contact, TypeInv, TypeOK
<1>7. ASSUME NEW t \in Tasks, Analyse(t)
      PROVE  GoesOn(t)
  <2>1. /\ NoWrite \in Writes /\ Fits(t, NoWrite)
        /\ [NoWrite EXCEPT !.pause = TRUE] \in Writes /\ Fits(t, [NoWrite EXCEPT !.pause = TRUE])
    BY DEF NoWrite, Fits, Writes
  <2>2. Consent(t, "OPTED_IN") \in Writes /\ Fits(t, Consent(t, "OPTED_IN"))
    BY ConsentHasType DEF Fits, Changed, TypeInv
  <2>3. PICK w \in Writes : Fits(t, w) /\ writes' = [writes EXCEPT ![t] = w]
    BY <1>7, <2>1, <2>2 DEF Analyse
  <2> QED
    BY <1>7, <2>3 DEF Analyse, GoesOn, contact, TypeInv, TypeOK
<1>8. ASSUME NEW t \in Tasks, BounceReads(t)
      PROVE  GoesOn(t)
  <2> DEFINE b == [NoWrite EXCEPT !.status = Changed(t, "SUPPRESSED"),
                                  !.entry = IF suppressed THEN "KEEP" ELSE "ADD"]
  <2>1. NoWrite \in Writes /\ Fits(t, NoWrite)
    BY DEF NoWrite, Fits, Writes
  <2>2. b \in Writes /\ (seen[t].status # "OPTED_OUT" => Fits(t, b))
    BY DEF NoWrite, Fits, Writes, Changed, Status
  <2>3. PICK w \in Writes : Fits(t, w) /\ writes' = [writes EXCEPT ![t] = w]
    BY <1>8, <2>1, <2>2 DEF BounceReads, HasOptedOut
  <2> QED
    BY <1>8, <2>3 DEF BounceReads, GoesOn, contact, TypeInv, TypeOK
<1>9. ASSUME NEW t \in Tasks, BounceFlushes(t)
      PROVE  GoesOn(t) \/ GivesUp(t)
  <2>1. CASE Rollback(t)
    BY <1>9, <2>1 DEF BounceFlushes, Rollback, GivesUp, contact
  <2>2. CASE /\ pc' = [pc EXCEPT ![t] = "finishing"]
             /\ UNCHANGED <<contact, said, inbox, msg, seen, writes, late, order, bounds>>
    BY <1>9, <2>2 DEF BounceFlushes, GoesOn, contact, TypeInv, TypeOK
  <2> QED
    BY <1>9, <2>1, <2>2 DEF BounceFlushes
<1> QED
  BY <1>1, <1>2, <1>3, <1>4, <1>5, <1>6, <1>7, <1>8, <1>9 DEF Next, JobStep
---------------------------------------------------------------------------------
(***************************************************************************)
(* An opt-out holds.                                                       *)
(***************************************************************************)
Withdrawn == {"OPTED_OUT", "SUPPRESSED"}

(* Only an opt-in drops the list entry or writes a sendable status, and a  *)
(* bounce leaves a contact alone that the job has seen opted out.          *)
WritesFit ==
  \A t \in Tasks :
    /\ writes[t].record = "OPTED_OUT" =>
         /\ pc[t] # "idle" /\ writes[t].entry # "DROP"
         /\ writes[t].status = Changed(t, "OPTED_OUT")
    /\ writes[t].record = "OPTED_IN" =>
         pc[t] # "idle" /\ writes[t].entry # "ADD" /\ writes[t].status = Changed(t, "OPTED_IN")
    /\ writes[t].record = "NONE" =>
         /\ writes[t].entry # "DROP" /\ writes[t].status \in {"SAME", "SUPPRESSED"}
         /\ writes[t].status = "SUPPRESSED" => seen[t].status # "OPTED_OUT"

(* Without an opt-in on record the contact stays withdrawn, and listed, as *)
(* far as any job saw it so.                                               *)
NothingReopens ==
  ~ Opted("OPTED_IN") =>
    \A t \in Tasks :
      /\ pc[t] # "idle" /\ seen[t].status \in Withdrawn => OptedOut
      /\ writes[t].record = "OPTED_OUT" /\ writes[t].entry = "KEEP" => suppressed

(* In every state a transaction has flushed what its outcome calls for.    *)
LEMMA WritesInvariant == Spec => []WritesFit
<1>1. Init => WritesFit
  BY DEF Init, WritesFit, NoWrite
<1>2. TypeInv /\ WritesFit /\ [Next]_vars => WritesFit'
  <2> SUFFICES ASSUME TypeInv, WritesFit, [Next]_vars
               PROVE  WritesFit'
    OBVIOUS
  <2>1. CASE Aside
    BY <2>1 DEF Aside, jobs, WritesFit, Changed
  <2>2. ASSUME NEW t \in Tasks, GoesOn(t)
        PROVE  WritesFit'
    <3>1. \A u \in Tasks : (pc'[u] = "idle" <=> pc[u] = "idle") /\ seen'[u] = seen[u]
      BY <2>2 DEF GoesOn
    <3>2. CASE UNCHANGED writes
      BY <3>1, <3>2 DEF WritesFit, Changed
    <3>3. ASSUME NEW w \in Writes, Fits(t, w), writes' = [writes EXCEPT ![t] = w]
          PROVE  WritesFit'
      <4>1. pc'[t] # "idle"
        BY <2>2 DEF GoesOn
      <4>2. /\ writes'[t] = w /\ \A u \in Tasks \ {t} : writes'[u] = writes[u]
        BY <3>3 DEF TypeInv, TypeOK
      <4>3. /\ w.record \in {"NONE", "OPTED_IN", "OPTED_OUT"}
            /\ Changed(t, "SUPPRESSED") \in {"SAME", "SUPPRESSED"}
        BY DEF Writes, Changed
      <4> QED
        BY <3>1, <3>3, <4>1, <4>2, <4>3 DEF Fits, WritesFit, Changed
    <3> QED
      BY <2>2, <3>2, <3>3 DEF GoesOn
  <2>3. ASSUME NEW t \in Tasks, End(t)
        PROVE  WritesFit'
    BY <2>3 DEF End, NoWrite, WritesFit, Changed, TypeInv, TypeOK
  <2>4. ASSUME NEW t \in Tasks, NEW i \in 1..MaxMessages, Load(t, i)
        PROVE  WritesFit'
    BY <2>4 DEF Load, NoWrite, WritesFit, Changed, TypeInv, TypeOK, IdleIsClean
  <2> QED
    BY <2>1, <2>2, <2>3, <2>4, StepKinds DEF GivesUp, Commit
<1> QED
  BY <1>1, <1>2, TypeInvariant, PTL DEF Spec

(* Nothing but an opt-in reopens a contact that said stop.                 *)
LEMMA StopInvariant == Spec => [](NothingReopens /\ StopHolds)
<1> DEFINE Inv == NothingReopens /\ StopHolds
<1>1. Init => Inv
  BY DEF Init, NothingReopens, StopHolds, Opted, NoWrite
<1>2. TypeInv /\ WritesFit /\ Inv /\ [Next]_vars => Inv'
  <2> SUFFICES ASSUME TypeInv, WritesFit, NothingReopens, StopHolds, [Next]_vars,
                      ~ Opted("OPTED_IN")'
               PROVE  /\ \A t \in Tasks :
                           /\ pc'[t] # "idle" /\ seen'[t].status \in Withdrawn => OptedOut'
                           /\ writes'[t].record = "OPTED_OUT" /\ writes'[t].entry = "KEEP"
                                => suppressed'
                      /\ Opted("OPTED_OUT")' => suppressed' /\ OptedOut'
    BY DEF NothingReopens, StopHolds
  <2>1. CASE Aside
    BY <2>1 DEF Aside, jobs, NothingReopens, StopHolds, Opted, OptedOut
  <2>2. ASSUME NEW t \in Tasks, GoesOn(t)
        PROVE  /\ UNCHANGED <<status, suppressed, records, seen>>
               /\ \A u \in Tasks : pc'[u] = "idle" <=> pc[u] = "idle"
               /\ \A u \in Tasks : \/ writes'[u] = writes[u]
                                   \/ Fits(u, writes'[u])
    BY <2>2 DEF GoesOn, TypeInv, TypeOK
  <2>3. CASE \E t \in Tasks : GoesOn(t)
    BY <2>2, <2>3 DEF Fits, NothingReopens, StopHolds, Opted, OptedOut
  <2>4. ASSUME NEW t \in Tasks, End(t)
        PROVE  /\ UNCHANGED seen
               /\ \A u \in Tasks : pc'[u] # "idle" => pc[u] # "idle"
               /\ \A u \in Tasks : writes'[u] \in {writes[u], NoWrite}
    BY <2>4 DEF End, TypeInv, TypeOK
  <2>5. CASE \E t \in Tasks : GivesUp(t)
    BY <2>4, <2>5 DEF GivesUp, NoWrite, NothingReopens, StopHolds, Opted, OptedOut
  <2>6. ASSUME NEW t \in Tasks, Commit(t)
        PROVE  /\ \A u \in Tasks :
                    /\ pc'[u] # "idle" /\ seen'[u].status \in Withdrawn => OptedOut'
                    /\ writes'[u].record = "OPTED_OUT" /\ writes'[u].entry = "KEEP"
                         => suppressed'
               /\ Opted("OPTED_OUT")' => suppressed' /\ OptedOut'
    <3> DEFINE w == writes[t]
    <3>1. /\ End(t) /\ pc[t] # "idle"
          /\ status' = StatusAfter(t)
          /\ suppressed' <=> w.entry = "ADD" \/ (suppressed /\ w.entry # "DROP")
          /\ records' = records \cup {<<msg[t], s>> : s \in {w.record} \ {"NONE"}}
      BY <2>6 DEF Commit
    <3>2. w.record \in {"NONE", "OPTED_OUT"} /\ ~ Opted("OPTED_IN")
      <4>1. w.record \in {"NONE", "OPTED_IN", "OPTED_OUT"}
        BY DEF TypeInv, TypeOK
      <4>2. w.record # "OPTED_IN"
        <5> SUFFICES ASSUME w.record = "OPTED_IN"
                     PROVE  Opted("OPTED_IN")'
          OBVIOUS
        <5>1. <<msg[t], "OPTED_IN">> \in records'
          BY <3>1
        <5> QED
          BY <5>1 DEF Opted
      <4> QED
        BY <3>1, <4>1, <4>2 DEF Opted
    <3>3. (suppressed => suppressed') /\ w.entry \in {"KEEP", "ADD"}
      <4>1. w.entry \in {"KEEP", "ADD", "DROP"} /\ w.entry # "DROP"
        BY <3>2 DEF WritesFit, TypeInv, TypeOK
      <4> QED
        BY <3>1, <4>1
    <3>4. OptedOut => OptedOut'
      BY <3>1, <3>2 DEF StatusAfter, OptedOut, WritesFit, Changed
    <3>5. w.record = "OPTED_OUT" => suppressed' /\ OptedOut'
      <4>1. w.record = "OPTED_OUT" => suppressed'
        BY <3>1, <3>2, <3>3 DEF NothingReopens
      <4>2. CASE w.record = "OPTED_OUT" /\ seen[t].status = "OPTED_OUT"
        BY <3>1, <3>2, <3>4, <4>1, <4>2 DEF NothingReopens, Withdrawn
      <4>3. CASE w.record = "OPTED_OUT" /\ seen[t].status # "OPTED_OUT"
        BY <3>1, <4>1, <4>3 DEF WritesFit, Changed, StatusAfter, OptedOut
      <4> QED
        BY <4>2, <4>3
    <3>6. Opted("OPTED_OUT")' => Opted("OPTED_OUT") \/ w.record = "OPTED_OUT"
      BY <3>1 DEF Opted
    <3>7. Opted("OPTED_OUT")' => suppressed' /\ OptedOut'
      BY <3>2, <3>3, <3>4, <3>5, <3>6 DEF StopHolds
    <3> QED
      BY <2>4, <3>1, <3>2, <3>3, <3>4, <3>7 DEF NothingReopens, NoWrite
  <2>7. ASSUME NEW t \in Tasks, NEW i \in 1..MaxMessages, Load(t, i)
        PROVE  /\ UNCHANGED <<status, suppressed, records, writes>>
               /\ \A u \in Tasks :
                    \/ seen'[u].status = status
                    \/ seen'[u] = seen[u] /\ pc'[u] = pc[u]
    BY <2>7 DEF Load, contact, TypeInv, TypeOK
  <2>8. CASE \E t \in Tasks, i \in 1..MaxMessages : Load(t, i)
    BY <2>7, <2>8 DEF NothingReopens, StopHolds, Opted, OptedOut, Withdrawn
  <2> QED
    BY <2>1, <2>3, <2>5, <2>6, <2>8, StepKinds
<1> QED
  BY <1>1, <1>2, TypeInvariant, WritesInvariant, PTL DEF Spec

(* Once a STOP has committed the contact stays withdrawn and listed, until *)
(* an opt-in commits: opt_out against every older snapshot of the contact. *)
THEOREM StopIsKept == Spec => []StopHolds
  BY StopInvariant, PTL
---------------------------------------------------------------------------------
(***************************************************************************)
(* One job at a time, the contact's last word stands.                      *)
(***************************************************************************)

(* The one job at work has the contact as it is, and what it means to keep *)
(* is on the list.                                                         *)
InTurn ==
  ~ overlapped =>
    \A t \in Tasks :
      /\ pc[t] # "idle" => seen[t].status = status /\ \A u \in Tasks \ {t} : pc[u] = "idle"
      /\ writes[t].entry = "KEEP" /\ (writes[t].record = "OPTED_OUT"
                                      \/ writes[t].status = "SUPPRESSED") => suppressed

(* Records, the message at work and those waiting follow each other.       *)
InOrder ==
  ~ overlapped /\ ~ overtaken =>
    /\ \A r \in records : /\ r[1] <= Len(said)
                          /\ \A j \in inbox : r[1] < j
                          /\ \A t \in Tasks : pc[t] # "idle" => r[1] < msg[t]
    /\ \A t \in Tasks : pc[t] # "idle" => \A j \in inbox : msg[t] < j

(* What the one job at work commits is what its record says; without one   *)
(* it can only list the contact.                                           *)
LEMMA CommitInTurn ==
  ASSUME TypeInv, WritesFit, InTurn, NoWindowInTurn, ~ overlapped,
         NEW t \in Tasks, Commit(t)
  PROVE  /\ OptedOut' => suppressed'
         /\ writes[t].record = "OPTED_OUT" => status' = "OPTED_OUT"
         /\ writes[t].record = "OPTED_IN" => status' = "OPTED_IN"
         /\ writes[t].record = "NONE" => /\ status' \in {status, "SUPPRESSED"}
                                         /\ suppressed => suppressed'
<1> DEFINE w == writes[t]
<1>1. /\ status' = StatusAfter(t) /\ pc[t] # "idle" /\ seen[t].status = status
      /\ suppressed' <=> w.entry = "ADD" \/ (suppressed /\ w.entry # "DROP")
  BY DEF Commit, InTurn
<1>2. /\ w.record \in {"NONE", "OPTED_IN", "OPTED_OUT"}
      /\ w.entry \in {"KEEP", "ADD", "DROP"}
  BY DEF TypeInv, TypeOK
<1>3. CASE w.record = "OPTED_OUT"
  <2>1. status' = "OPTED_OUT" /\ w.entry # "DROP"
    BY <1>1, <1>3 DEF WritesFit, Changed, StatusAfter
  <2>2. suppressed'
    BY <1>1, <1>2, <1>3, <2>1 DEF InTurn
  <2> QED
    BY <1>3, <2>1, <2>2
<1>4. CASE w.record = "OPTED_IN"
  <2>1. status' = "OPTED_IN"
    BY <1>1, <1>4 DEF WritesFit, Changed, StatusAfter
  <2> QED
    BY <1>4, <2>1 DEF OptedOut
<1>5. CASE w.record = "NONE"
  <2>1. w.entry # "DROP" /\ w.status \in {"SAME", "SUPPRESSED"}
    BY <1>5 DEF WritesFit
  <2>2. CASE w.status = "SAME"
    BY <1>1, <1>2, <1>5, <2>1, <2>2 DEF StatusAfter, NoWindowInTurn, OptedOut
  <2>3. CASE w.status = "SUPPRESSED"
    BY <1>1, <1>2, <1>5, <2>1, <2>3 DEF StatusAfter, InTurn
  <2> QED
    BY <2>1, <2>2, <2>3
<1> QED
  BY <1>2, <1>3, <1>4, <1>5

(* A job that runs alone works from the row as it is.                      *)
LEMMA TurnInvariant == Spec => [](InTurn /\ NoWindowInTurn)
<1> DEFINE Inv == InTurn /\ NoWindowInTurn
<1>1. Init => Inv
  BY DEF Init, InTurn, NoWindowInTurn, OptedOut, NoWrite
<1>2. TypeInv /\ WritesFit /\ Inv /\ [Next]_vars => Inv'
  <2> SUFFICES ASSUME TypeInv, WritesFit, InTurn, NoWindowInTurn, [Next]_vars, ~ overlapped'
               PROVE  /\ \A t \in Tasks :
                           /\ pc'[t] # "idle" =>
                                seen'[t].status = status' /\ \A u \in Tasks \ {t} : pc'[u] = "idle"
                           /\ writes'[t].entry = "KEEP" /\ (writes'[t].record = "OPTED_OUT"
                                \/ writes'[t].status = "SUPPRESSED") => suppressed'
                      /\ OptedOut' => suppressed'
    BY DEF InTurn, NoWindowInTurn
  <2>1. CASE Aside
    BY <2>1 DEF Aside, jobs, order, InTurn, NoWindowInTurn, OptedOut
  <2>2. ASSUME NEW t \in Tasks, GoesOn(t)
        PROVE  /\ UNCHANGED <<status, suppressed, records, seen, overlapped>>
               /\ \A u \in Tasks : pc'[u] = "idle" <=> pc[u] = "idle"
               /\ \A u \in Tasks : \/ writes'[u] = writes[u]
                                   \/ Fits(u, writes'[u])
    BY <2>2 DEF GoesOn, order, TypeInv, TypeOK
  <2>3. CASE \E t \in Tasks : GoesOn(t)
    <3>1. ~ overlapped
      BY <2>2, <2>3
    <3>2. \A u \in Tasks : Fits(u, writes'[u]) =>
            (writes'[u].entry = "KEEP" /\ (writes'[u].record = "OPTED_OUT"
              \/ writes'[u].status = "SUPPRESSED") => suppressed)
      BY DEF Fits, Changed
    <3> QED
      BY <2>2, <2>3, <3>1, <3>2 DEF InTurn, NoWindowInTurn, OptedOut
  <2>4. ASSUME NEW t \in Tasks, End(t)
        PROVE  /\ UNCHANGED <<seen, overlapped>>
               /\ pc'[t] = "idle"
               /\ \A u \in Tasks : pc'[u] # "idle" => pc[u] # "idle"
               /\ \A u \in Tasks : writes'[u] \in {writes[u], NoWrite}
               /\ \A u \in Tasks \ {t} : pc'[u] = pc[u] /\ writes'[u] = writes[u]
               /\ writes'[t] = NoWrite
    BY <2>4 DEF End, order, TypeInv, TypeOK
  <2>5. CASE \E t \in Tasks : GivesUp(t)
    BY <2>4, <2>5 DEF GivesUp, NoWrite, InTurn, NoWindowInTurn, OptedOut
  <2>6. ASSUME NEW t \in Tasks, Commit(t)
        PROVE  /\ \A u \in Tasks : pc'[u] = "idle" /\ writes'[u] = NoWrite
               /\ OptedOut' => suppressed'
    <3>1. End(t) /\ pc[t] # "idle"
      BY <2>6 DEF Commit
    <3>2. ~ overlapped /\ \A u \in Tasks \ {t} : pc[u] = "idle" /\ writes[u] = NoWrite
      BY <2>4, <3>1 DEF InTurn, TypeInv, IdleIsClean
    <3> QED
      BY <2>4, <2>6, <3>1, <3>2, CommitInTurn
  <2>7. CASE \E t \in Tasks : Commit(t)
    BY <2>6, <2>7 DEF NoWrite
  <2>8. ASSUME NEW t \in Tasks, NEW i \in 1..MaxMessages, Load(t, i)
        PROVE  /\ UNCHANGED <<status, suppressed, records, writes>> /\ ~ overlapped
               /\ \A u \in Tasks \ {t} : pc'[u] = "idle"
               /\ seen'[t].status = status
    BY <2>8 DEF Load, contact, TypeInv, TypeOK
  <2>9. CASE \E t \in Tasks, i \in 1..MaxMessages : Load(t, i)
    BY <2>8, <2>9 DEF InTurn, NoWindowInTurn, OptedOut
  <2> QED
    BY <2>1, <2>3, <2>5, <2>7, <2>9, StepKinds
<1> QED
  BY <1>1, <1>2, TypeInvariant, WritesInvariant, PTL DEF Spec

(* The messages of a contact whose jobs take turns commit in order.        *)
LEMMA OrderInvariant == Spec => []InOrder
<1>1. Init => InOrder
  BY DEF Init, InOrder
<1>2. TypeInv /\ InTurn /\ InOrder /\ [Next]_vars => InOrder'
  <2> SUFFICES ASSUME TypeInv, InTurn, InOrder, [Next]_vars, ~ overlapped', ~ overtaken'
               PROVE  /\ \A r \in records' :
                           /\ r[1] <= Len(said')
                           /\ \A j \in inbox' : r[1] < j
                           /\ \A t \in Tasks : pc'[t] # "idle" => r[1] < msg'[t]
                      /\ \A t \in Tasks : pc'[t] # "idle" => \A j \in inbox' : msg'[t] < j
    BY DEF InOrder
  <2>1. /\ \A r \in records : r[1] \in Nat
        /\ \A t \in Tasks : pc[t] # "idle" => msg[t] \in 1..Len(said)
        /\ Len(said) \in Nat /\ inbox \subseteq 1..Len(said)
    BY ConsentAssumption DEF TypeInv, TypeOK
  <2>2. CASE Aside
    <3>1. /\ UNCHANGED <<records, pc, msg, overlapped, overtaken>>
          /\ Len(said') \in Nat /\ Len(said') >= Len(said)
          /\ inbox' \subseteq inbox \cup {Len(said) + 1}
      BY <2>1, <2>2 DEF Aside, jobs, order
    <3> QED
      BY <2>1, <3>1 DEF InOrder
  <2>3. CASE \E t \in Tasks : GoesOn(t)
    <3>1. /\ UNCHANGED <<records, said, inbox, msg, overlapped, overtaken>>
          /\ \A u \in Tasks : pc'[u] = "idle" <=> pc[u] = "idle"
      BY <2>3 DEF GoesOn, order
    <3> QED
      BY <3>1 DEF InOrder
  <2>4. ASSUME NEW t \in Tasks, End(t)
        PROVE  /\ UNCHANGED <<said, inbox, overlapped, overtaken>>
               /\ pc'[t] = "idle"
               /\ \A u \in Tasks \ {t} : pc'[u] = pc[u] /\ msg'[u] = msg[u]
    BY <2>4 DEF End, order, TypeInv, TypeOK
  <2>5. CASE \E t \in Tasks : GivesUp(t)
    BY <2>4, <2>5 DEF GivesUp, InOrder
  <2>6. ASSUME NEW t \in Tasks, Commit(t)
        PROVE  /\ \A r \in records' : r[1] <= Len(said') /\ \A j \in inbox' : r[1] < j
               /\ \A u \in Tasks : pc'[u] = "idle"
    <3>1. /\ End(t) /\ pc[t] # "idle"
          /\ records' = records \cup {<<msg[t], s>> : s \in {writes[t].record} \ {"NONE"}}
      BY <2>6 DEF Commit
    <3>2. \A r \in records' : r \in records \/ r[1] = msg[t]
      BY <3>1
    <3>3. /\ UNCHANGED <<said, inbox>> /\ ~ overlapped /\ ~ overtaken
          /\ pc'[t] = "idle" /\ \A u \in Tasks \ {t} : pc'[u] = pc[u]
      BY <2>4, <3>1
    <3>4. \A u \in Tasks : pc'[u] = "idle"
      BY <3>1, <3>3 DEF InTurn
    <3>5. /\ \A r \in records : r[1] <= Len(said) /\ \A j \in inbox : r[1] < j
          /\ msg[t] <= Len(said) /\ \A j \in inbox : msg[t] < j
      BY <2>1, <3>1, <3>3 DEF InOrder
    <3> QED
      BY <3>2, <3>3, <3>4, <3>5
  <2>7. CASE \E t \in Tasks : Commit(t)
    BY <2>6, <2>7
  <2>8. ASSUME NEW t \in Tasks, NEW i \in 1..MaxMessages, Load(t, i)
        PROVE  /\ \A r \in records' :
                    /\ r[1] <= Len(said')
                    /\ \A j \in inbox' : r[1] < j
                    /\ \A u \in Tasks : pc'[u] # "idle" => r[1] < msg'[u]
               /\ \A u \in Tasks : pc'[u] # "idle" => \A j \in inbox' : msg'[u] < j
    <3>1. /\ UNCHANGED <<records, said>> /\ ~ overlapped /\ ~ overtaken
          /\ i \in inbox /\ inbox' = inbox \ {i} /\ \A j \in inbox : ~ (j < i)
          /\ msg'[t] = i /\ \A u \in Tasks \ {t} : pc'[u] = "idle"
      BY <2>8 DEF Load, contact, TypeInv, TypeOK
    <3>2. \A j \in inbox' : i < j
      <4> TAKE j \in inbox'
      <4>1. j \in inbox /\ j # i /\ ~ (j < i)
        BY <3>1
      <4>2. inbox \subseteq 1..Len(said)
        BY <2>1
      <4>3. j \in 1..Len(said) /\ i \in 1..Len(said)
        BY <3>1, <4>1, <4>2
      <4>4. j \in Nat /\ i \in Nat
        BY <4>3
      <4> QED
        BY <4>1, <4>4
    <3> QED
      BY <2>1, <3>1, <3>2 DEF InOrder
  <2>9. CASE \E t \in Tasks, i \in 1..MaxMessages : Load(t, i)
    BY <2>8, <2>9
  <2> QED
    BY <2>2, <2>3, <2>5, <2>7, <2>9, StepKinds
<1> QED
  BY <1>1, <1>2, TypeInvariant, TurnInvariant, PTL DEF Spec

(* Taken one at a time and in order, the newest consent record agrees with *)
(* the contact and the suppression list: opt_out, opt_in and suppress.     *)
THEOREM LastWordIsKept == Spec => []LastWordStands
<1>1. Init => LastWordStands
  BY DEF Init, LastWordStands, NoWindowInTurn, OptedOut
<1> DEFINE Others == TypeInv /\ WritesFit /\ InTurn /\ NoWindowInTurn /\ InOrder
<1>2. Others /\ NoWindowInTurn' /\ LastWordStands /\ [Next]_vars => LastWordStands'
  <2> SUFFICES ASSUME TypeInv, WritesFit, InTurn, NoWindowInTurn, InOrder, LastWordStands,
                      [Next]_vars, NoWindowInTurn', ~ overlapped', ~ overtaken',
                      NEW r \in records', Newest(r)'
               PROVE  IF r[2] = "OPTED_OUT" THEN OptedOut' /\ suppressed'
                                            ELSE status' \in {"OPTED_IN", "SUPPRESSED"}
    BY DEF LastWordStands
  <2>1. CASE /\ UNCHANGED <<status, records>> /\ (suppressed => suppressed')
             /\ ~ overlapped /\ ~ overtaken
    BY <2>1 DEF LastWordStands, Newest, OptedOut
  <2>2. CASE Aside \/ (\E t \in Tasks : GoesOn(t) \/ GivesUp(t))
    <3>1. UNCHANGED <<status, records, order>> /\ (suppressed => suppressed')
      BY <2>2 DEF Aside, GoesOn, GivesUp, End
    <3> QED
      BY <2>1, <3>1 DEF order
  <2>3. CASE \E t \in Tasks, i \in 1..MaxMessages : Load(t, i)
    <3>1. UNCHANGED <<status, suppressed, records>> /\ ~ overlapped /\ ~ overtaken
      BY <2>3 DEF Load, contact
    <3> QED
      BY <2>1, <3>1
  <2>4. ASSUME NEW t \in Tasks, Commit(t)
        PROVE  IF r[2] = "OPTED_OUT" THEN OptedOut' /\ suppressed'
                                     ELSE status' \in {"OPTED_IN", "SUPPRESSED"}
    <3> DEFINE w == writes[t]
    <3>1. /\ pc[t] # "idle" /\ ~ overlapped /\ ~ overtaken
          /\ records' = records \cup {<<msg[t], s>> : s \in {w.record} \ {"NONE"}}
      BY <2>4 DEF Commit, End, order
    <3>2. /\ w.record \in {"NONE", "OPTED_IN", "OPTED_OUT"} /\ msg[t] \in Nat
          /\ \A q \in records : q[1] < msg[t] /\ q[1] \in Nat
          /\ records \subseteq (1..MaxMessages) \X {"OPTED_IN", "OPTED_OUT"}
      BY <3>1, ConsentAssumption DEF InOrder, TypeInv, TypeOK
    <3>3. CASE w.record = "NONE"
      <4>1. records' = records
        BY <3>1, <3>3
      <4>2. /\ status' \in {status, "SUPPRESSED"} /\ (suppressed => suppressed')
            /\ OptedOut' => suppressed'
        BY <2>4, <3>1, <3>3, CommitInTurn
      <4>3. IF r[2] = "OPTED_OUT" THEN OptedOut /\ suppressed
                                  ELSE status \in {"OPTED_IN", "SUPPRESSED"}
        BY <3>1, <4>1 DEF LastWordStands, Newest
      <4> QED
        BY <4>2, <4>3 DEF OptedOut
    <3>4. CASE w.record # "NONE"
      <4>1. <<msg[t], w.record>> \in records'
        BY <3>1, <3>4
      <4>2. msg[t] <= r[1]
        BY <4>1 DEF Newest
      <4>3. r \notin records
        BY <3>2, <4>2
      <4>4. r = <<msg[t], w.record>>
        BY <3>1, <3>4, <4>3
      <4> QED
        BY <2>4, <3>1, <3>2, <3>4, <4>4, CommitInTurn DEF OptedOut
    <3> QED
      BY <3>3, <3>4
  <2> QED
    BY <2>2, <2>3, <2>4, StepKinds
<1> QED
  BY <1>1, <1>2, TypeInvariant, WritesInvariant, TurnInvariant, OrderInvariant, PTL DEF Spec
---------------------------------------------------------------------------------
(***************************************************************************)
(* A pause takes effect.                                                   *)
(***************************************************************************)

(* Jobs that may still answer: those past the switches, and those whose    *)
(* snapshot of the contact is not paused.                                  *)
Past    == {t \in Tasks : pc[t] \in {"analysing", "answering"}}
Unaware == Past \cup {t \in Tasks : pc[t] \in {"loaded", "touched"} /\ ~ seen[t].paused}

(* While a switch is on, those it does not stop can only answer what it    *)
(* was charged for.                                                        *)
PausePaid ==
  /\ late <= 0
  /\ paused => late + Cardinality(Unaware) <= 0
  /\ botPaused => late + Cardinality(Past) <= 0

(* The jobs counted are finitely many.                                     *)
LEMMA Counts ==
  /\ IsFiniteSet(Busy) /\ IsFiniteSet(Past) /\ IsFiniteSet(Unaware)
  /\ Cardinality(Busy) \in Nat /\ Cardinality(Past) \in Nat /\ Cardinality(Unaware) \in Nat
<1>1. Busy \subseteq Tasks /\ Past \subseteq Tasks /\ Unaware \subseteq Tasks
  BY DEF Busy, Past, Unaware
<1>2. IsFiniteSet(Busy) /\ IsFiniteSet(Past) /\ IsFiniteSet(Unaware)
  BY <1>1, FS_Subset, ConsentAssumption
<1> QED
  BY <1>2, FS_CardinalityType

(* Fewer jobs count less.                                                  *)
LEMMA FewerCount ==
  ASSUME NEW A, NEW B, IsFiniteSet(B), A \subseteq B
  PROVE  Cardinality(A) \in Nat /\ Cardinality(B) \in Nat /\ Cardinality(A) <= Cardinality(B)
  BY FS_Subset, FS_CardinalityType

(* A step that turns no switch on, answers nothing and lets nobody past a  *)
(* switch that is on.                                                      *)
Passive ==
  /\ late' = late /\ (paused' => paused) /\ (botPaused' => botPaused)
  /\ paused' => Unaware' \subseteq Unaware
  /\ botPaused' => Past' \subseteq Past

(* A step that answers nobody and sets no switch keeps the account.        *)
LEMMA PassiveKeeps ==
  ASSUME TypeInv, PausePaid, Passive
  PROVE  PausePaid'
<1>1. late \in Int
  BY DEF TypeInv, TypeOK
<1>2. late' <= 0
  BY DEF Passive, PausePaid
<1>3. paused' => late' + Cardinality(Unaware') <= 0
  <2>1. ASSUME paused'
        PROVE  late' + Cardinality(Unaware') <= 0
    BY <1>1, <2>1, Counts, FewerCount DEF Passive, PausePaid
  <2> QED
    BY <2>1
<1>4. botPaused' => late' + Cardinality(Past') <= 0
  <2>1. ASSUME botPaused'
        PROVE  late' + Cardinality(Past') <= 0
    BY <1>1, <2>1, Counts, FewerCount DEF Passive, PausePaid
  <2> QED
    BY <2>1
<1> QED
  BY <1>2, <1>3, <1>4 DEF PausePaid

(* Every answer after a switch is of a job that had passed it.             *)
LEMMA PauseInvariant == Spec => []PausePaid
<1>1. Init => PausePaid
  BY DEF Init, PausePaid
<1>2. TypeInv /\ PausePaid /\ [Next]_vars => PausePaid'
  <2> SUFFICES ASSUME TypeInv, PausePaid, [Next]_vars
               PROVE  PausePaid'
    OBVIOUS
  <2> USE DEF TypeInv, TypeOK
  <2>1. ASSUME NEW t \in Tasks, Touch(t) \/ Confirm(t) \/ NoAnswer(t) \/ OptOut(t) \/ BounceReads(t)
        PROVE  Passive
    BY <2>1 DEF Touch, Confirm, NoAnswer, OptOut, BounceReads, contact, Passive, Past, Unaware
  <2>2. ASSUME NEW t \in Tasks, PauseSwitches(t)
        PROVE  Passive
    BY <2>2 DEF PauseSwitches, Silenced, contact, Passive, Past, Unaware
  <2>3. ASSUME NEW t \in Tasks, Analyse(t)
        PROVE  Passive
    BY <2>3 DEF Analyse, contact, Passive, Past, Unaware
  <2>4. ASSUME NEW t \in Tasks, Rollback(t)
        PROVE  Passive
    BY <2>4 DEF Rollback, End, contact, Passive, Past, Unaware
  <2>5. ASSUME NEW t \in Tasks, BounceFlushes(t)
        PROVE  Passive
    <3>1. CASE pc' = [pc EXCEPT ![t] = "finishing"]
               /\ UNCHANGED <<contact, said, inbox, msg, seen, writes, late, order, bounds>>
      BY <3>1 DEF contact, Passive, Past, Unaware
    <3> QED
      BY <2>4, <2>5, <3>1 DEF BounceFlushes
  <2>6. ASSUME NEW t \in Tasks, NEW i \in 1..MaxMessages, Load(t, i)
        PROVE  Passive
    BY <2>6 DEF Load, contact, Passive, Past, Unaware
  <2>7. ASSUME \/ \E kind \in Kinds : Arrive(kind)
               \/ ResumeContact \/ ResumeBot \/ AdminSuppress \/ UNCHANGED vars
        PROVE  Passive
    <3>1. UNCHANGED <<late, pc, seen>> /\ (paused' => paused) /\ (botPaused' => botPaused)
      BY <2>7 DEF Arrive, ResumeContact, ResumeBot, AdminSuppress, Resuming, vars, contact, jobs
    <3> QED
      BY <3>1 DEF Passive, Past, Unaware
  <2>8. ASSUME NEW t \in Tasks, Answer(t)
        PROVE  PausePaid'
    <3>1. /\ Past' = Past \ {t} /\ t \in Past
          /\ Unaware' = Unaware \ {t} /\ t \in Unaware
          /\ UNCHANGED <<paused, botPaused>>
          /\ late' = IF Silent THEN late + 1 ELSE late
      BY <2>8 DEF Answer, contact, Past, Unaware
    <3>2. /\ Cardinality(Past') = Cardinality(Past) - 1
          /\ Cardinality(Unaware') = Cardinality(Unaware) - 1
      BY <3>1, Counts, FS_RemoveElement
    <3>3. /\ Cardinality(Past') \in Nat /\ Cardinality(Unaware') \in Nat
      BY <3>1, Counts, FewerCount
    <3> QED
      BY <3>1, <3>2, <3>3, Counts DEF PausePaid, Silent
  <2>9. ASSUME PauseContact \/ PauseBot
        PROVE  PausePaid'
    <3>1. late' = - Cardinality(Busy) /\ UNCHANGED <<pc, seen>>
      BY <2>9 DEF PauseContact, PauseBot, Pausing, jobs
    <3>2. Past' \subseteq Busy /\ Unaware' \subseteq Busy
      BY <3>1 DEF Past, Unaware, Busy
    <3>3. /\ Cardinality(Past') \in Nat /\ Cardinality(Past') <= Cardinality(Busy)
          /\ Cardinality(Unaware') \in Nat /\ Cardinality(Unaware') <= Cardinality(Busy)
          /\ Cardinality(Busy) \in Nat
      BY <3>2, Counts, FewerCount
    <3> QED
      BY <3>1, <3>3 DEF PausePaid
  <2>10. ASSUME NEW t \in Tasks, Commit(t)
         PROVE  PausePaid'
    <3>1. /\ pc' = [pc EXCEPT ![t] = "idle"] /\ UNCHANGED <<seen, botPaused>>
          /\ paused' = (paused \/ writes[t].pause)
          /\ late' = IF writes[t].pause THEN - Cardinality(Busy \ {t}) ELSE late
      BY <2>10 DEF Commit, End
    <3>2. CASE ~ writes[t].pause
      <4>1. Passive
        BY <3>1, <3>2 DEF Passive, Past, Unaware
      <4> QED
        BY <4>1, PassiveKeeps
    <3>3. CASE writes[t].pause
      <4>1. Past' \subseteq Busy \ {t} /\ Unaware' \subseteq Busy \ {t}
        BY <3>1 DEF Past, Unaware, Busy
      <4>2. IsFiniteSet(Busy \ {t})
        BY Counts, FS_Subset
      <4> DEFINE n == Cardinality(Busy \ {t})
      <4>3. /\ Cardinality(Past') \in Nat /\ Cardinality(Past') <= n
            /\ Cardinality(Unaware') \in Nat /\ Cardinality(Unaware') <= n
            /\ n \in Nat
        BY <4>1, <4>2, FewerCount
      <4>4. late' = - n
        BY <3>1, <3>3
      <4> HIDE DEF n
      <4> QED
        BY <4>3, <4>4 DEF PausePaid
    <3> QED
      BY <3>2, <3>3
  <2>11. ASSUME NEW t \in Tasks, ConfirmRaises(t) \/ JobFails(t)
         PROVE  Passive
    BY <2>4, <2>11 DEF ConfirmRaises, JobFails
  <2> QED
    BY <2>1, <2>2, <2>3, <2>5, <2>6, <2>7, <2>8, <2>9, <2>10, <2>11, PassiveKeeps
    DEF Next, JobStep
<1> QED
  BY <1>1, <1>2, TypeInvariant, PTL DEF Spec

(* After a pause only what was being processed then is answered, and each  *)
(* message once: handle_inbound reads the switches before the model, from  *)
(* bot_state as it is and from the contact as the job loaded it.           *)
THEOREM PausesTakeEffect == Spec => []FewLateReplies
<1>1. TypeInv /\ PausePaid => FewLateReplies
  BY DEF TypeInv, PausePaid, FewLateReplies
<1> QED
  BY <1>1, TypeInvariant, PauseInvariant, PTL
---------------------------------------------------------------------------------
(***************************************************************************)
(* The jobs enter the contact's words in a register.                       *)
(***************************************************************************)

(* A job at work on a message, and one that will commit a consent record,  *)
(* has the contact's row to itself.                                        *)
RowHeld ==
  \A t \in Tasks :
    pc[t] \in {"touched", "analysing"} \/ writes[t].record # "NONE" => lock = t

(* A STOP that found the contact on the list will leave it there: what     *)
(* takes the entry away is an opt-in, and that needs the row as well.      *)
EntryStays ==
  \A t \in Tasks : writes[t].record = "OPTED_OUT" /\ writes[t].entry = "KEEP" => suppressed

(* A message is waiting, at work in one job or on record, once.            *)
TakenOnce ==
  /\ \A t, u \in Tasks : pc[t] # "idle" /\ msg[t] = msg[u] => t = u
  /\ \A t \in Tasks :
       pc[t] # "idle" => msg[t] \notin inbox /\ \A r \in records : r[1] # msg[t]
  /\ \A r \in records : r[1] \notin inbox /\ r[1] <= Len(said)

(* Two jobs that will commit a record never run at once: touch_inbound's   *)
(* row lock is held until the transaction ends.                            *)
LEMMA RowInvariant == Spec => []RowHeld
<1>1. Init => RowHeld
  BY DEF Init, RowHeld, NoWrite
<1>2. TypeInv /\ RowHeld /\ [Next]_vars => RowHeld'
  <2> SUFFICES ASSUME TypeInv, RowHeld, [Next]_vars
               PROVE  RowHeld'
    OBVIOUS
  <2> USE DEF TypeInv, TypeOK
  <2>1. ASSUME NEW t \in Tasks,
               Confirm(t) \/ PauseSwitches(t) \/ Answer(t) \/ NoAnswer(t)
        PROVE  RowHeld'
    BY <2>1 DEF Confirm, PauseSwitches, Answer, NoAnswer, RowHeld
  <2>2. ASSUME NEW t \in Tasks, OptOut(t) \/ Analyse(t)
        PROVE  RowHeld'
    <3>1. /\ lock = t /\ lock' = lock /\ \A u \in Tasks \ {t} : pc'[u] = pc[u]
          /\ \A u \in Tasks \ {t} : writes'[u] = writes[u]
      BY <2>2 DEF OptOut, Analyse, RowHeld
    <3> QED
      BY <3>1 DEF RowHeld
  <2>3. ASSUME NEW t \in Tasks, Touch(t)
        PROVE  RowHeld'
    <3>1. /\ lock = Free /\ lock' = t /\ UNCHANGED writes
          /\ \A u \in Tasks \ {t} : pc'[u] = pc[u]
      BY <2>3 DEF Touch
    <3>2. \A u \in Tasks : u # Free
      BY ConsentAssumption
    <3> QED
      BY <3>1, <3>2 DEF RowHeld
  <2>4. ASSUME NEW t \in Tasks, BounceReads(t)
        PROVE  RowHeld'
    <3>1. /\ lock' = lock /\ pc'[t] = "flushing" /\ writes'[t].record = "NONE"
          /\ \A u \in Tasks \ {t} : pc'[u] = pc[u] /\ writes'[u] = writes[u]
      BY <2>4 DEF BounceReads, NoWrite
    <3> QED
      BY <3>1 DEF RowHeld
  <2>5. ASSUME NEW t \in Tasks, End(t)
        PROVE  RowHeld'
    <3>1. /\ pc'[t] = "idle" /\ writes'[t].record = "NONE"
          /\ \A u \in Tasks \ {t} : pc'[u] = pc[u] /\ writes'[u] = writes[u]
          /\ lock # t => lock' = lock
      BY <2>5 DEF End, Released, NoWrite
    <3> QED
      BY <3>1 DEF RowHeld
  <2>6. ASSUME NEW t \in Tasks, BounceFlushes(t)
        PROVE  RowHeld'
    <3>1. CASE Rollback(t)
      BY <2>5, <3>1 DEF Rollback
    <3>2. CASE /\ lock' = IF writes[t].status # "SAME" THEN t ELSE lock
               /\ pc' = [pc EXCEPT ![t] = "finishing"]
               /\ UNCHANGED <<contact, said, inbox, msg, seen, writes, late, order, bounds>>
      <4>1. writes[t].status # "SAME" => lock = Free
        BY <2>6 DEF BounceFlushes
      <4>2. \A u \in Tasks : u # Free
        BY ConsentAssumption
      <4>3. /\ pc'[t] = "finishing" /\ UNCHANGED writes
            /\ \A u \in Tasks \ {t} : pc'[u] = pc[u]
        BY <3>2
      <4>4. lock' = lock \/ (lock = Free /\ lock' = t)
        BY <3>2, <4>1
      <4> QED
        BY <4>2, <4>3, <4>4 DEF RowHeld
    <3> QED
      BY <2>6, <3>1, <3>2 DEF BounceFlushes
  <2>7. ASSUME NEW t \in Tasks, Commit(t) \/ ConfirmRaises(t) \/ JobFails(t)
        PROVE  RowHeld'
    BY <2>5, <2>7 DEF Commit, ConfirmRaises, JobFails, Rollback
  <2>8. ASSUME NEW t \in Tasks, NEW i \in 1..MaxMessages, Load(t, i)
        PROVE  RowHeld'
    BY <2>8 DEF Load, RowHeld
  <2>9. CASE \/ \E kind \in Kinds : Arrive(kind)
             \/ PauseContact \/ PauseBot \/ ResumeContact \/ ResumeBot \/ AdminSuppress
             \/ UNCHANGED vars
    <3>1. UNCHANGED <<lock, jobs>>
      BY <2>9 DEF Arrive, PauseContact, PauseBot, ResumeContact, ResumeBot, AdminSuppress,
                  Pausing, Resuming, vars
    <3> QED
      BY <3>1 DEF jobs, RowHeld
  <2> QED
    BY <2>1, <2>2, <2>3, <2>4, <2>6, <2>7, <2>8, <2>9 DEF Next, JobStep
<1> QED
  BY <1>1, <1>2, TypeInvariant, PTL DEF Spec

(* What an open STOP means to keep on the list is not taken off it.        *)
LEMMA EntryInvariant == Spec => []EntryStays
<1>1. Init => EntryStays
  BY DEF Init, EntryStays, NoWrite
<1>2. TypeInv /\ WritesFit /\ RowHeld /\ EntryStays /\ [Next]_vars => EntryStays'
  <2> SUFFICES ASSUME TypeInv, WritesFit, RowHeld, EntryStays, [Next]_vars
               PROVE  EntryStays'
    OBVIOUS
  <2>1. CASE Aside
    BY <2>1 DEF Aside, jobs, EntryStays
  <2>2. ASSUME NEW t \in Tasks, GoesOn(t)
        PROVE  EntryStays'
    <3>1. /\ UNCHANGED suppressed
          /\ \A u \in Tasks : writes'[u] = writes[u] \/ Fits(u, writes'[u])
      BY <2>2 DEF GoesOn, TypeInv, TypeOK
    <3> QED
      BY <3>1 DEF Fits, EntryStays
  <2>3. ASSUME NEW t \in Tasks, End(t)
        PROVE  /\ writes'[t] = NoWrite
               /\ \A u \in Tasks \ {t} : writes'[u] = writes[u]
    BY <2>3 DEF End, TypeInv, TypeOK
  <2>4. ASSUME NEW t \in Tasks, GivesUp(t)
        PROVE  EntryStays'
    BY <2>3, <2>4 DEF GivesUp, NoWrite, EntryStays
  <2>5. ASSUME NEW t \in Tasks, Commit(t)
        PROVE  EntryStays'
    <3>1. /\ End(t)
          /\ suppressed' <=> writes[t].entry = "ADD" \/ (suppressed /\ writes[t].entry # "DROP")
      BY <2>5 DEF Commit
    <3>2. writes[t].record \in {"NONE", "OPTED_IN", "OPTED_OUT"}
      BY DEF TypeInv, TypeOK
    <3>3. writes[t].entry = "DROP" => writes[t].record # "NONE"
      BY DEF WritesFit
    <3>4. ASSUME NEW u \in Tasks \ {t}, writes[u].record = "OPTED_OUT", writes[u].entry = "KEEP"
          PROVE  suppressed'
      BY <3>1, <3>3, <3>4 DEF RowHeld, EntryStays
    <3> QED
      BY <2>3, <3>1, <3>4 DEF NoWrite, EntryStays
  <2>6. ASSUME NEW t \in Tasks, NEW i \in 1..MaxMessages, Load(t, i)
        PROVE  EntryStays'
    BY <2>6 DEF Load, contact, EntryStays
  <2> QED
    BY <2>1, <2>2, <2>4, <2>5, <2>6, StepKinds
<1> QED
  BY <1>1, <1>2, TypeInvariant, WritesInvariant, RowInvariant, PTL DEF Spec

(* The worker takes a message from the queue once, and a job that raises   *)
(* leaves no record of it.                                                 *)
LEMMA OnceInvariant == Spec => []TakenOnce
<1>1. Init => TakenOnce
  BY DEF Init, TakenOnce
<1>2. TypeInv /\ TakenOnce /\ [Next]_vars => TakenOnce'
  <2> SUFFICES ASSUME TypeInv, TakenOnce, [Next]_vars
               PROVE  TakenOnce'
    OBVIOUS
  <2>1. /\ Len(said) \in Nat /\ inbox \subseteq 1..Len(said)
        /\ \A t \in Tasks : pc[t] # "idle" <=> msg[t] \in 1..Len(said)
        /\ \A r \in records : r[1] \in Nat
    BY ConsentAssumption DEF TypeInv, TypeOK
  <2>2. CASE Aside
    <3>1. /\ UNCHANGED <<records, pc, msg>>
          /\ Len(said') \in Nat /\ Len(said') >= Len(said)
          /\ inbox' \subseteq inbox \cup {Len(said) + 1}
      BY <2>1, <2>2 DEF Aside, jobs
    <3> QED
      BY <2>1, <3>1 DEF TakenOnce
  <2>3. ASSUME NEW t \in Tasks, GoesOn(t)
        PROVE  TakenOnce'
    <3>1. /\ UNCHANGED <<records, said, inbox, msg>>
          /\ \A u \in Tasks : pc'[u] = "idle" <=> pc[u] = "idle"
      BY <2>3 DEF GoesOn
    <3> QED
      BY <3>1 DEF TakenOnce
  <2>4. ASSUME NEW t \in Tasks, End(t)
        PROVE  /\ UNCHANGED <<said, inbox>>
               /\ pc'[t] = "idle" /\ msg'[t] = 0
               /\ \A u \in Tasks \ {t} : pc'[u] = pc[u] /\ msg'[u] = msg[u]
    BY <2>4 DEF End, TypeInv, TypeOK
  <2>5. ASSUME NEW t \in Tasks, GivesUp(t)
        PROVE  TakenOnce'
    <3>1. End(t) /\ UNCHANGED records
      BY <2>5 DEF GivesUp
    <3> QED
      BY <2>1, <2>4, <3>1 DEF TakenOnce
  <2>6. ASSUME NEW t \in Tasks, Commit(t)
        PROVE  TakenOnce'
    <3>1. /\ End(t) /\ pc[t] # "idle"
          /\ \A r \in records' : r \in records \/ r[1] = msg[t]
      BY <2>6 DEF Commit
    <3> QED
      BY <2>1, <2>4, <3>1 DEF TakenOnce
  <2>7. ASSUME NEW t \in Tasks, NEW i \in 1..MaxMessages, Load(t, i)
        PROVE  TakenOnce'
    <3>1. /\ UNCHANGED <<records, said>> /\ pc[t] = "idle"
          /\ i \in inbox /\ inbox' = inbox \ {i}
          /\ msg'[t] = i /\ \A u \in Tasks \ {t} : pc'[u] = pc[u] /\ msg'[u] = msg[u]
      BY <2>7 DEF Load, contact, TypeInv, TypeOK
    <3> QED
      BY <2>1, <3>1 DEF TakenOnce
  <2> QED
    BY <2>2, <2>3, <2>5, <2>6, <2>7, StepKinds
<1> QED
  BY <1>1, <1>2, TypeInvariant, PTL DEF Spec

(* A job's commit is the entry of its word, or a bounce, or nothing.       *)
LEMMA CommitEnters ==
  ASSUME TypeInv, WritesFit, NothingReopens, InTurn, NoWindowInTurn, InOrder,
         EntryStays, TakenOnce, NEW t \in Tasks, Commit(t)
  PROVE  Register!RegisterNext \/ UNCHANGED Register!registerVars
<1> DEFINE w == writes[t]
<1> DEFINE m == msg[t]
<1>1. /\ status' = IF w.status = "SAME" THEN status ELSE w.status
      /\ suppressed' = (w.entry = "ADD" \/ (suppressed /\ w.entry # "DROP"))
      /\ records' = records \cup {<<m, s>> : s \in {w.record} \ {"NONE"}}
      /\ UNCHANGED <<overlapped, overtaken>> /\ pc[t] # "idle"
  BY DEF Commit, End, order, StatusAfter
<1>2. /\ w.record \in {"NONE", "OPTED_IN", "OPTED_OUT"}
      /\ w.entry \in {"KEEP", "ADD", "DROP"}
      /\ m \in 1..MaxMessages /\ suppressed \in BOOLEAN
  BY <1>1, ConsentAssumption DEF TypeInv, TypeOK, IdleIsClean
<1>3. /\ \A g \in records : g[1] # m
      /\ ~ overlapped /\ ~ overtaken => \A g \in records : g[1] < m
  BY <1>1 DEF TakenOnce, InOrder
<1>4. w.record # "NONE" => Register!Enter(m, w.record)
  BY <1>1, <1>3 DEF Register!Enter
<1>5. CASE w.record = "OPTED_OUT"
  <2>1. w.entry # "DROP" /\ w.status = Changed(t, "OPTED_OUT")
    BY <1>5 DEF WritesFit
  <2>2. suppressed' = TRUE
    BY <1>1, <1>2, <1>5, <2>1 DEF EntryStays
  <2>3. Register!Becomes("OPTED_OUT")
    <3>1. CASE ~ overlapped
      BY <1>5, <3>1, CommitInTurn DEF Register!Becomes
    <3>2. CASE overlapped
      BY <1>1, <2>1, <3>2 DEF Changed, Register!Becomes
    <3> QED
      BY <3>1, <3>2
  <2>4. (\A g \in records : g[2] # "OPTED_IN") => status' \in Register!Withdrawn
    <3>1. CASE w.status = "SAME"
      <4>1. seen[t].status = "OPTED_OUT" /\ status' = status
        BY <1>1, <2>1, <3>1 DEF Changed
      <4> QED
        BY <1>1, <4>1 DEF NothingReopens, Opted, OptedOut, Withdrawn, Register!Withdrawn
    <3>2. CASE w.status # "SAME"
      BY <1>1, <2>1, <3>2 DEF Changed, Register!Withdrawn
    <3> QED
      BY <3>1, <3>2
  <2>5. Register!Withdraw(m)
    BY <1>4, <1>5, <2>2, <2>3, <2>4 DEF Register!Withdraw
  <2> QED
    BY <1>2, <2>5 DEF Register!RegisterNext
<1>6. CASE w.record = "OPTED_IN"
  <2>1. w.entry # "ADD" /\ w.status = Changed(t, "OPTED_IN")
    BY <1>6 DEF WritesFit
  <2>2. suppressed' \in {FALSE, suppressed}
    BY <1>1, <1>2, <2>1
  <2>3. Register!Becomes("OPTED_IN")
    <3>1. CASE ~ overlapped
      BY <1>6, <3>1, CommitInTurn DEF Register!Becomes
    <3>2. CASE overlapped
      BY <1>1, <2>1, <3>2 DEF Changed, Register!Becomes
    <3> QED
      BY <3>1, <3>2
  <2>4. Register!Subscribe(m)
    BY <1>4, <1>6, <2>2, <2>3 DEF Register!Subscribe
  <2> QED
    BY <1>2, <2>4 DEF Register!RegisterNext
<1>7. CASE w.record = "NONE"
  <2>1. records' = records
    BY <1>1, <1>7
  <2>2. /\ w.entry # "DROP" /\ w.status \in {"SAME", "SUPPRESSED"}
        /\ w.status = "SUPPRESSED" => seen[t].status # "OPTED_OUT"
    BY <1>7 DEF WritesFit
  <2>3. CASE w.status = "SAME" /\ w.entry = "KEEP"
    BY <1>1, <1>2, <2>1, <2>3 DEF Register!registerVars
  <2>4. CASE w.status = "SAME" /\ w.entry = "ADD"
    <3>1. Register!List
      BY <1>1, <2>1, <2>4 DEF Register!List
    <3> QED
      BY <3>1 DEF Register!RegisterNext
  <2>5. CASE w.status = "SUPPRESSED"
    <3>1. Register!Becomes("SUPPRESSED")
      BY <1>1, <2>5 DEF Register!Becomes
    <3>2. suppressed' = TRUE \/ (overlapped /\ UNCHANGED suppressed)
      BY <1>1, <1>2, <2>2, <2>5 DEF InTurn
    <3>3. ~ overlapped => status # "OPTED_OUT"
      BY <1>1, <2>2, <2>5 DEF InTurn
    <3>4. Register!Unreachable
      BY <1>1, <2>1, <3>1, <3>2, <3>3 DEF Register!Unreachable
    <3> QED
      BY <3>4 DEF Register!RegisterNext
  <2> QED
    BY <1>2, <2>2, <2>3, <2>4, <2>5
<1> QED
  BY <1>2, <1>5, <1>6, <1>7

(* The jobs implement the register: snapshots, row locks, rollbacks and    *)
(* the order jobs end in aside, every committed STOP withdraws and lists,  *)
(* only an opt-in takes the contact off the list, and each word is entered *)
(* once, in the order it was sent while jobs take turns: opt_out, opt_in,  *)
(* suppress and the commit that makes them last.                           *)
THEOREM ConsentImplementsRegister == Spec => ImplementsConsentRegister
<1> DEFINE Inv == /\ TypeInv /\ WritesFit /\ NothingReopens /\ InTurn /\ NoWindowInTurn
                  /\ InOrder /\ EntryStays /\ TakenOnce
<1>1. Init => Register!RegisterInit
  BY DEF Init, Register!RegisterInit
<1>2. Inv /\ TypeInv' /\ [Next]_vars => [Register!RegisterNext]_(Register!registerVars)
  <2> SUFFICES ASSUME Inv, TypeInv', [Next]_vars
               PROVE  Register!RegisterNext \/ UNCHANGED Register!registerVars
    OBVIOUS
  <2>1. CASE Aside
    <3>1. /\ UNCHANGED <<status, records, overlapped, overtaken>>
          /\ suppressed' = suppressed \/ suppressed' = TRUE
      <4>1. suppressed \in BOOLEAN /\ suppressed' \in BOOLEAN
        BY DEF TypeInv, TypeOK
      <4> QED
        BY <2>1, <4>1 DEF Aside, order
    <3>2. CASE suppressed' = suppressed
      BY <3>1, <3>2 DEF Register!registerVars
    <3>3. CASE suppressed' = TRUE
      BY <3>1, <3>3 DEF Register!List, Register!RegisterNext
    <3> QED
      BY <3>1, <3>2, <3>3
  <2>2. CASE \E t \in Tasks : GoesOn(t) \/ GivesUp(t)
    BY <2>2 DEF GoesOn, GivesUp, End, order, Register!registerVars
  <2>3. CASE \E t \in Tasks : Commit(t)
    BY <2>3, CommitEnters
  <2>4. ASSUME NEW t \in Tasks, NEW i \in 1..MaxMessages, Load(t, i)
        PROVE  Register!RegisterNext
    <3>1. /\ overlapped \in BOOLEAN /\ overtaken \in BOOLEAN
          /\ UNCHANGED <<status, suppressed, records>>
          /\ overlapped' \in {overlapped, TRUE} /\ overtaken' \in {overtaken, TRUE}
      BY <2>4 DEF Load, contact, TypeInv, TypeOK
    <3> QED
      BY <3>1 DEF Register!Overlap, Register!RegisterNext
  <2> QED
    BY <2>1, <2>2, <2>3, <2>4, StepKinds
<1> QED
  BY <1>1, <1>2, TypeInvariant, WritesInvariant, StopInvariant, TurnInvariant, OrderInvariant,
     EntryInvariant, OnceInvariant, PTL
  DEF Spec, ImplementsConsentRegister, Register!RegisterSpec

(* The register is promise enough: whatever implements it keeps the        *)
(* contact's last word in turn, and a STOP whatever overlaps.              *)
THEOREM RegisterKeepsConsent == ImplementsConsentRegister => [](LastWordStands /\ StopHolds)
<1> DEFINE Entered == /\ \A g \in records : g[1] \in 1..MaxMessages
                      /\ overlapped \in BOOLEAN /\ overtaken \in BOOLEAN
<1> DEFINE Inv == Entered /\ LastWordStands /\ StopHolds
<1>1. Register!RegisterInit => Inv
  BY DEF Register!RegisterInit, LastWordStands, NoWindowInTurn, StopHolds, Opted, OptedOut
<1>2. Inv /\ [Register!RegisterNext]_(Register!registerVars) => Inv'
  <2> SUFFICES ASSUME Inv, [Register!RegisterNext]_(Register!registerVars)
               PROVE  Inv'
    OBVIOUS
  <2>1. ASSUME NEW m \in 1..MaxMessages, NEW word, Register!Enter(m, word)
        PROVE  /\ Entered' /\ UNCHANGED <<overlapped, overtaken>>
               /\ Opted(word)' /\ \A s : Opted(s)' <=> Opted(s) \/ s = word
               /\ ~ overlapped /\ ~ overtaken =>
                    \A r \in records' : Newest(r)' => r = <<m, word>>
    <3>1. /\ records' = records \cup {<<m, word>>} /\ UNCHANGED <<overlapped, overtaken>>
          /\ ~ overlapped /\ ~ overtaken => \A g \in records : g[1] < m
      BY <2>1 DEF Register!Enter
    <3>2. ASSUME ~ overlapped, ~ overtaken, NEW r \in records', Newest(r)'
          PROVE  r = <<m, word>>
      <4>1. <<m, word>> \in records' /\ <<m, word>>[1] = m
        BY <3>1
      <4>2. \A q \in records' : q[1] <= r[1]
        BY <3>2 DEF Newest
      <4>3. m <= r[1]
        BY <4>1, <4>2
      <4>4. r \notin records
        BY <3>1, <3>2, <4>3, ConsentAssumption
      <4> QED
        BY <3>1, <4>4
    <3>3. Opted(word)' /\ \A s : Opted(s)' <=> Opted(s) \/ s = word
      <4>1. <<m, word>> \in records' /\ <<m, word>>[2] = word /\ records \subseteq records'
        BY <3>1
      <4>2. \A r \in records' : r \in records \/ r[2] = word
        BY <3>1
      <4> QED
        BY <4>1, <4>2 DEF Opted
    <3>4. Entered'
      BY <3>1
    <3> QED
      BY <3>1, <3>2, <3>3, <3>4
  <2>2. ASSUME NEW m \in 1..MaxMessages, Register!Withdraw(m)
        PROVE  Inv'
    <3>1. /\ Register!Enter(m, "OPTED_OUT") /\ suppressed'
          /\ status' = "OPTED_OUT" \/ (overlapped /\ UNCHANGED status)
          /\ ~ Opted("OPTED_IN") => OptedOut'
      BY <2>2 DEF Register!Withdraw, Register!Becomes, Register!Withdrawn, Opted, OptedOut
    <3>2. LastWordStands'
      BY <2>1, <3>1 DEF LastWordStands, NoWindowInTurn, OptedOut
    <3>3. StopHolds'
      BY <2>1, <3>1 DEF StopHolds, Opted
    <3> QED
      BY <2>1, <3>1, <3>2, <3>3
  <2>3. ASSUME NEW m \in 1..MaxMessages, Register!Subscribe(m)
        PROVE  Inv'
    <3>1. /\ Register!Enter(m, "OPTED_IN")
          /\ status' = "OPTED_IN" \/ (overlapped /\ UNCHANGED status)
      BY <2>3 DEF Register!Subscribe, Register!Becomes
    <3>2. LastWordStands'
      BY <2>1, <3>1 DEF LastWordStands, NoWindowInTurn, OptedOut
    <3>3. StopHolds'
      BY <2>1, <3>1 DEF StopHolds
    <3> QED
      BY <2>1, <3>1, <3>2, <3>3
  <2>4. CASE Register!Unreachable
    <3>1. /\ UNCHANGED <<records, overlapped, overtaken>>
          /\ status' = "SUPPRESSED" \/ (overlapped /\ UNCHANGED status)
          /\ suppressed' \/ (overlapped /\ UNCHANGED suppressed)
      BY <2>4 DEF Register!Unreachable, Register!Becomes
    <3> QED
      BY <3>1 DEF LastWordStands, NoWindowInTurn, StopHolds, Newest, Opted, OptedOut
  <2>5. CASE Register!List
    BY <2>5 DEF Register!List, LastWordStands, NoWindowInTurn, StopHolds, Newest, Opted, OptedOut
  <2>6. CASE Register!Overlap \/ UNCHANGED Register!registerVars
    <3>1. /\ UNCHANGED <<status, suppressed, records>>
          /\ (~ overlapped' => ~ overlapped) /\ (~ overtaken' => ~ overtaken)
      BY <2>6 DEF Register!Overlap, Register!registerVars
    <3>2. Entered'
      BY <2>6 DEF Register!Overlap, Register!registerVars
    <3>3. StopHolds'
      BY <3>1 DEF StopHolds, Opted, OptedOut
    <3>4. NoWindowInTurn' /\ (OptedOut' <=> OptedOut)
      BY <3>1 DEF LastWordStands, NoWindowInTurn, OptedOut
    <3>5. \A r \in records : Newest(r)' <=> Newest(r)
      BY <3>1 DEF Newest
    <3> QED
      BY <3>1, <3>2, <3>3, <3>4, <3>5 DEF LastWordStands
  <2> QED
    BY <2>2, <2>3, <2>4, <2>5, <2>6 DEF Register!RegisterNext
<1> QED
  BY <1>1, <1>2, PTL DEF ImplementsConsentRegister, Register!RegisterSpec
=================================================================================
