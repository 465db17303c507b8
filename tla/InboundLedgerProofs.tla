------------------------- MODULE InboundLedgerProofs -------------------------
(***************************************************************************)
(* Proofs about InboundLedger, for every set of events, handlers and       *)
(* workers, for jobs in Redis and local ones, and for every bound.         *)
(***************************************************************************)
EXTENDS InboundLedger, TLAPS

(* Only events with a committed claim have an owner.                       *)
OwnersClaimed ==
  \A e \in Events :
    \/ queue[e] > 0
    \/ \E h \in Handlers : Enqueuing(h, e)
    \/ \E w \in Workers : Running(w, e)
    => attempts[e] > 0

(* A row that a request saw is still there when it counts the repeat.      *)
BumpsExisting == \A h \in Handlers : hpc[h] = "bump" => attempts[cur[h]] > 0

(* The message row is the record that the effects were committed.          *)
RowsRecordCommits ==
  \A e \in Messages : /\ commits[e] <= 1
                      /\ commits[e] > 0 <=> e \in stored
                      /\ commits[e] > 0 => attempts[e] > 0

(* A worker past the insert of the message row is the first to commit it.  *)
OpenRowsNew ==
  \A w \in Workers :
    wpc[w] \in {"stored", "sent"} /\ job[w] \in Messages => job[w] \notin stored

(* The event has not reached a worker, or waits to be run again.           *)
Waiting(e) ==
  \/ attempts[e] = 0
  \/ queue[e] > 0
  \/ \E h \in Handlers : Enqueuing(h, e)

Unanswered(e) ==
  e \notin stored /\ (Waiting(e) \/ \E w \in Workers :
                        Running(w, e) /\ wpc[w] \in {"open", "stored"})

Uncommitted(e) ==
  Waiting(e) \/ \E w \in Workers :
    Running(w, e) /\ wpc[w] \in {"open", "stored", "sent"}

(* Every reply or commit that is not the last one was followed by a crash. *)
RepliesCounted ==
  \A e \in Messages : /\ replies[e] <= 1 + lost[e]
                      /\ Unanswered(e) => replies[e] <= lost[e]

CommitsCounted ==
  \A e \in Events \ Messages : /\ commits[e] <= 1 + lost[e]
                               /\ Uncommitted(e) => commits[e] <= lost[e]

IInv ==
  /\ TypeOK
  /\ OneOwner
  /\ OwnersClaimed
  /\ BumpsExisting
  /\ RowsRecordCommits
  /\ OpenRowsNew
  /\ RepliesCounted
  /\ CommitsCounted
------------------------------------------------------------------------------
(* Every variable keeps its type, whatever fails and in whatever order.    *)
THEOREM TypeCorrect == Spec => []TypeOK
<1>1. Init => TypeOK
  BY EventAssumption DEF Init, TypeOK, HandlerPC, WorkerPC
<1>2. TypeOK /\ [Next]_vars => TypeOK'
  <2> SUFFICES ASSUME TypeOK, [Next]_vars
               PROVE  TypeOK'
    OBVIOUS
  <2> USE EventAssumption DEF TypeOK, HandlerPC, WorkerPC, db, web, worker, history, bounds
  <2>1. ASSUME NEW h \in Handlers, NEW batch \in SUBSET Events, Deliver(h, batch)
        PROVE  TypeOK'
    BY <2>1 DEF Deliver
  <2>2. ASSUME NEW h \in Handlers, NEW e \in Events, Lookup(h, e)
        PROVE  TypeOK'
    BY <2>2 DEF Lookup
  <2>3. ASSUME NEW h \in Handlers, Bump(h)
        PROVE  TypeOK'
    BY <2>3 DEF Bump
  <2>4. ASSUME NEW h \in Handlers, Insert(h)
        PROVE  TypeOK'
    BY <2>4 DEF Insert, KeyIsFree
  <2>5. ASSUME NEW h \in Handlers, Enqueue(h)
        PROVE  TypeOK'
    BY <2>5 DEF Enqueue
  <2>6. ASSUME NEW h \in Handlers, Respond(h)
        PROVE  TypeOK'
    BY <2>6 DEF Respond
  <2>7. ASSUME NEW h \in Handlers, HandlerAborts(h)
        PROVE  TypeOK'
    BY <2>7 DEF HandlerAborts
  <2>8. ASSUME NEW w \in Workers, NEW e \in Events, TakeJob(w, e)
        PROVE  TypeOK'
    BY <2>8 DEF TakeJob
  <2>9. ASSUME NEW w \in Workers, Store(w)
        PROVE  TypeOK'
    BY <2>9 DEF Store, RowIsNew
  <2>10. ASSUME NEW w \in Workers, Reply(w)
        PROVE  TypeOK'
    BY <2>10 DEF Reply
  <2>11. ASSUME NEW w \in Workers, ReplyRaises(w)
        PROVE  TypeOK'
    BY <2>11 DEF ReplyRaises
  <2>12. ASSUME NEW w \in Workers, TaskRaises(w)
        PROVE  TypeOK'
    BY <2>12 DEF TaskRaises
  <2>13. ASSUME NEW w \in Workers, Commit(w)
        PROVE  TypeOK'
    BY <2>13 DEF Commit
  <2>14. ASSUME NEW w \in Workers, TaskFails(w)
        PROVE  TypeOK'
    BY <2>14 DEF TaskFails, AfterRollback
  <2>15. ASSUME NEW w \in Workers, Finish(w)
        PROVE  TypeOK'
    BY <2>15 DEF Finish
  <2>16. ASSUME NEW w \in Workers, WorkerCrash(w)
        PROVE  TypeOK'
    BY <2>16 DEF WorkerCrash
  <2>17. CASE UNCHANGED vars
    BY <2>17 DEF vars
  <2> QED
    BY <2>1, <2>2, <2>3, <2>4, <2>5, <2>6, <2>7, <2>8, <2>9, <2>10, <2>11, <2>12, <2>13, <2>14, <2>15, <2>16, <2>17 DEF Next, HandlerStep, WorkerStep
<1> QED
  BY <1>1, <1>2, PTL DEF Spec
------------------------------------------------------------------------------
(* The strengthened invariant holds initially and every step keeps it.     *)
LEMMA InductiveInvariant == Spec => []IInv
<1>1. Init => IInv
  <2> SUFFICES ASSUME Init PROVE IInv
    OBVIOUS
  <2>1. TypeOK
    BY EventAssumption DEF Init, TypeOK, HandlerPC, WorkerPC
  <2> QED
    BY <2>1, EventAssumption DEF Init, IInv, OneOwner, OwnersClaimed, BumpsExisting, RowsRecordCommits,
       OpenRowsNew, RepliesCounted, CommitsCounted, Enqueuing, Running, Uncommitted, Unanswered
<1>2. IInv /\ TypeOK' /\ [Next]_vars => IInv'
  <2> SUFFICES ASSUME IInv, TypeOK', [Next]_vars
               PROVE  IInv'
    OBVIOUS
  <2> USE EventAssumption DEF IInv, TypeOK, HandlerPC, WorkerPC, Enqueuing, Running,
                              db, web, worker, history, bounds
  <2>1. ASSUME NEW h \in Handlers, NEW batch \in SUBSET Events, Deliver(h, batch)
        PROVE  IInv'
    BY <2>1 DEF Deliver, OneOwner, OwnersClaimed, BumpsExisting, RowsRecordCommits, OpenRowsNew,
          RepliesCounted, CommitsCounted, Unanswered, Uncommitted, Waiting
  <2>2. ASSUME NEW h \in Handlers, NEW e \in Events, Lookup(h, e)
        PROVE  IInv'
    BY <2>2 DEF Lookup, OneOwner, OwnersClaimed, BumpsExisting, RowsRecordCommits, OpenRowsNew,
          RepliesCounted, CommitsCounted, Unanswered, Uncommitted, Waiting
  <2>3. ASSUME NEW h \in Handlers, Bump(h)
        PROVE  IInv'
    BY <2>3 DEF Bump, OneOwner, OwnersClaimed, BumpsExisting, RowsRecordCommits, OpenRowsNew,
          RepliesCounted, CommitsCounted, Unanswered, Uncommitted, Waiting
  <2>4. ASSUME NEW h \in Handlers, Insert(h)
        PROVE  IInv'
    <3>0. PICK e \in Events : e = cur[h]
      BY <2>4 DEF Insert
    <3>1. CASE ~ KeyIsFree(e)
      BY <2>4, <3>0, <3>1 DEF Insert, OneOwner, OwnersClaimed, BumpsExisting, RowsRecordCommits,
         OpenRowsNew, RepliesCounted, CommitsCounted, Unanswered, Uncommitted, Waiting
    <3>2. CASE KeyIsFree(e)
      <4>1. /\ attempts[e] = 0
            /\ attempts' = [attempts EXCEPT ![e] = 1]
            /\ hpc' = [hpc EXCEPT ![h] = "enqueue"]
            /\ UNCHANGED <<cur, queue, wpc, job, stored, commits, replies, lost>>
        BY <2>4, <3>0, <3>2 DEF Insert, KeyIsFree
      <4>2. /\ queue[e] = 0
            /\ \A g \in Handlers : ~ Enqueuing(g, e)
            /\ \A w \in Workers : ~ Running(w, e)
        BY <4>1 DEF OwnersClaimed
      <4>3. \A d \in Events, g \in Handlers :
              Enqueuing(g, d)' <=> (g = h /\ d = e) \/ Enqueuing(g, d)
        BY <4>1, <3>0, <2>4 DEF Insert
      <4>4. \A d \in Events, w \in Workers : Running(w, d)' <=> Running(w, d)
        BY <4>1
      <4>5. OneOwner'
        BY <4>1, <4>2, <4>3, <4>4 DEF OneOwner
      <4>6. OwnersClaimed'
        BY <4>1, <4>3, <4>4 DEF OwnersClaimed
      <4>7. BumpsExisting'
        BY <4>1 DEF BumpsExisting
      <4>8. RowsRecordCommits' /\ OpenRowsNew'
        BY <4>1 DEF RowsRecordCommits, OpenRowsNew
      <4>9. RepliesCounted' /\ CommitsCounted'
        BY <4>1, <4>3, <4>4 DEF RepliesCounted, CommitsCounted, Unanswered, Uncommitted, Waiting
      <4> QED
        BY <4>5, <4>6, <4>7, <4>8, <4>9
    <3> QED
      BY <3>1, <3>2
  <2>5. ASSUME NEW h \in Handlers, Enqueue(h)
        PROVE  IInv'
    <3>0. PICK e \in Events : e = cur[h]
      BY <2>5 DEF Enqueue
    <3>1. /\ Enqueuing(h, e)
          /\ queue' = [queue EXCEPT ![e] = @ + 1]
          /\ UNCHANGED <<attempts, cur, wpc, job, stored, commits, replies, lost>>
      BY <2>5, <3>0 DEF Enqueue
    <3>2. /\ queue[e] = 0 /\ attempts[e] > 0
          /\ \A w \in Workers : ~ Running(w, e)
      <4>1. attempts[e] > 0
        BY <3>1 DEF OwnersClaimed
      <4>2. \A w \in Workers : ~ Running(w, e)
        BY <3>1 DEF OneOwner
      <4>3. queue[e] \in Nat /\ ~ (queue[e] > 0)
        BY <3>1 DEF OneOwner
      <4>4. queue[e] = 0
        BY <4>3
      <4> QED
        BY <4>1, <4>2, <4>4
    <3>3. \A d \in Events, g \in Handlers : Enqueuing(g, d)' <=> g # h /\ Enqueuing(g, d)
      BY <2>5, <3>0 DEF Enqueue
    <3>4. OneOwner'
      BY <3>1, <3>2, <3>3 DEF OneOwner
    <3>5. OwnersClaimed' /\ RowsRecordCommits' /\ OpenRowsNew'
      BY <3>1, <3>2, <3>3 DEF OwnersClaimed, RowsRecordCommits, OpenRowsNew
    <3>6. BumpsExisting'
      BY <2>5 DEF Enqueue, BumpsExisting
    <3>7. RepliesCounted' /\ CommitsCounted'
      BY <3>1, <3>3 DEF RepliesCounted, CommitsCounted, Unanswered, Uncommitted, Waiting
    <3> QED
      BY <3>4, <3>5, <3>6, <3>7
  <2>6. ASSUME NEW h \in Handlers, Respond(h)
        PROVE  IInv'
    BY <2>6 DEF Respond, OneOwner, OwnersClaimed, BumpsExisting, RowsRecordCommits, OpenRowsNew,
          RepliesCounted, CommitsCounted, Unanswered, Uncommitted, Waiting
  <2>7. ASSUME NEW h \in Handlers, HandlerAborts(h)
        PROVE  IInv'
    BY <2>7 DEF HandlerAborts, OneOwner, OwnersClaimed, BumpsExisting, RowsRecordCommits, OpenRowsNew,
          RepliesCounted, CommitsCounted, Unanswered, Uncommitted, Waiting
  <2>8. ASSUME NEW w \in Workers, NEW e \in Events, TakeJob(w, e)
        PROVE  IInv'
    BY <2>8 DEF TakeJob, OneOwner, OwnersClaimed, BumpsExisting, RowsRecordCommits, OpenRowsNew,
          RepliesCounted, CommitsCounted, Unanswered, Uncommitted, Waiting
  <2>9. ASSUME NEW w \in Workers, Store(w)
        PROVE  IInv'
    BY <2>9 DEF Store, RowIsNew, OneOwner, OwnersClaimed, BumpsExisting, RowsRecordCommits, OpenRowsNew,
          RepliesCounted, CommitsCounted, Unanswered, Uncommitted, Waiting
  <2>10. ASSUME NEW w \in Workers, Reply(w)
        PROVE  IInv'
    <3>1. OneOwner' /\ OwnersClaimed' /\ BumpsExisting' /\ RowsRecordCommits' /\ OpenRowsNew'
      BY <2>10 DEF Reply, OneOwner, OwnersClaimed, BumpsExisting, RowsRecordCommits, OpenRowsNew
    <3>2. RepliesCounted'
      BY <2>10 DEF Reply, RepliesCounted, Unanswered, Waiting, OneOwner, OwnersClaimed, OpenRowsNew
    <3>3. CommitsCounted'
      BY <2>10 DEF Reply, CommitsCounted, Uncommitted, Waiting
    <3> QED
      BY <3>1, <3>2, <3>3
  <2>11. ASSUME NEW w \in Workers, ReplyRaises(w)
        PROVE  IInv'
    BY <2>11 DEF ReplyRaises, OneOwner, OwnersClaimed, BumpsExisting, RowsRecordCommits, OpenRowsNew,
          RepliesCounted, CommitsCounted, Unanswered, Uncommitted, Waiting
  <2>12. ASSUME NEW w \in Workers, TaskRaises(w)
        PROVE  IInv'
    BY <2>12 DEF TaskRaises, OneOwner, OwnersClaimed, BumpsExisting, RowsRecordCommits, OpenRowsNew,
          RepliesCounted, CommitsCounted, Unanswered, Uncommitted, Waiting
  <2>13. ASSUME NEW w \in Workers, Commit(w)
        PROVE  IInv'
    <3>0. PICK e \in Events : e = job[w]
      BY <2>13 DEF Commit
    <3>1. /\ wpc[w] \in {"stored", "sent"}
          /\ Running(w, e)
          /\ stored' = stored \cup ({e} \cap Messages)
          /\ commits' = [commits EXCEPT ![e] = @ + 1]
          /\ wpc' = [wpc EXCEPT ![w] = "done"]
          /\ UNCHANGED <<attempts, queue, hpc, cur, job, replies, lost>>
      BY <2>13, <3>0 DEF Commit
    <3>2. /\ attempts[e] > 0
          /\ e \in Messages => e \notin stored
      BY <3>1 DEF OwnersClaimed, OpenRowsNew
    <3>3. OneOwner' /\ OwnersClaimed' /\ BumpsExisting'
      BY <3>1 DEF OneOwner, OwnersClaimed, BumpsExisting
    <3>4. RowsRecordCommits'
      <4> SUFFICES ASSUME NEW m \in Messages
                   PROVE  /\ commits'[m] <= 1
                          /\ commits'[m] > 0 <=> m \in stored'
                          /\ commits'[m] > 0 => attempts'[m] > 0
        BY DEF RowsRecordCommits
      <4>1. CASE m = e
        <5>1. commits[e] \in Nat /\ commits[e] <= 1 /\ ~ (commits[e] > 0)
          BY <4>1, <3>1, <3>2 DEF RowsRecordCommits
        <5>2. commits'[e] = 1
          BY <5>1, <3>1
        <5> QED
          BY <4>1, <5>2, <3>1, <3>2
      <4>2. CASE m # e
        BY <4>2, <3>1 DEF RowsRecordCommits
      <4> QED
        BY <4>1, <4>2
    <3>5. OpenRowsNew'
      BY <3>1 DEF OpenRowsNew, OneOwner
    <3>6. RepliesCounted' /\ CommitsCounted'
      BY <3>1, <3>2 DEF RepliesCounted, CommitsCounted, Unanswered, Uncommitted, Waiting, OneOwner
    <3> QED
      BY <3>3, <3>4, <3>5, <3>6
  <2>14. ASSUME NEW w \in Workers, TaskFails(w)
        PROVE  IInv'
    BY <2>14 DEF TaskFails, AfterRollback, OneOwner, OwnersClaimed, BumpsExisting, RowsRecordCommits, OpenRowsNew,
          RepliesCounted, CommitsCounted, Unanswered, Uncommitted, Waiting
  <2>15. ASSUME NEW w \in Workers, Finish(w)
        PROVE  IInv'
    BY <2>15 DEF Finish, OneOwner, OwnersClaimed, BumpsExisting, RowsRecordCommits, OpenRowsNew,
          RepliesCounted, CommitsCounted, Unanswered, Uncommitted, Waiting
  <2>16. ASSUME NEW w \in Workers, WorkerCrash(w)
        PROVE  IInv'
    <3>0. PICK e \in Events : e = job[w]
      BY <2>16 DEF WorkerCrash
    <3>1. /\ Running(w, e)
          /\ queue' = [queue EXCEPT ![e] = @ + 1] \/ queue' = queue
          /\ wpc' = [wpc EXCEPT ![w] = "idle"]
          /\ job' = [job EXCEPT ![w] = None]
          /\ UNCHANGED <<attempts, hpc, cur, stored, commits, replies>>
      BY <2>16, <3>0 DEF WorkerCrash
    <3>2. \A d \in Events, v \in Workers : Running(v, d)' <=> v # w /\ Running(v, d)
      BY <3>1
    <3>3. /\ queue[e] = 0 /\ attempts[e] > 0
          /\ \A h \in Handlers : ~ Enqueuing(h, e)
          /\ \A v \in Workers : ~ Running(v, e)'
      <4>1. attempts[e] > 0
        BY <3>1 DEF OwnersClaimed
      <4>2. \A h \in Handlers : ~ Enqueuing(h, e)
        BY <3>1 DEF OneOwner
      <4>3. queue[e] \in Nat /\ ~ (queue[e] > 0)
        BY <3>1 DEF OneOwner
      <4>4. \A v \in Workers : Running(v, e) => v = w
        BY <3>1 DEF OneOwner
      <4>5. queue[e] = 0
        BY <4>3
      <4>6. \A v \in Workers : ~ Running(v, e)'
        BY <4>4, <3>1, <3>2
      <4> QED
        BY <4>1, <4>2, <4>5, <4>6
    <3>4. \A d \in Events : /\ queue'[d] <= 1
                            /\ queue'[d] # queue[d] => d = e
      BY <3>1, <3>3 DEF OneOwner
    <3>5. OneOwner'
      BY <3>1, <3>2, <3>3, <3>4 DEF OneOwner
    <3>6. OwnersClaimed' /\ BumpsExisting' /\ RowsRecordCommits' /\ OpenRowsNew'
      BY <3>1, <3>2, <3>3, <3>4 DEF OwnersClaimed, BumpsExisting, RowsRecordCommits, OpenRowsNew
    <3>7. RepliesCounted'
      BY <2>16, <3>0, <3>4 DEF WorkerCrash, RepliesCounted, Unanswered, Waiting
    <3>8. CommitsCounted'
      BY <2>16, <3>0, <3>4 DEF WorkerCrash, CommitsCounted, Uncommitted, Waiting
    <3> QED
      BY <3>5, <3>6, <3>7, <3>8
  <2>17. CASE UNCHANGED vars
    BY <2>17 DEF vars, OneOwner, OwnersClaimed, BumpsExisting, RowsRecordCommits, OpenRowsNew,
          RepliesCounted, CommitsCounted, Unanswered, Uncommitted, Waiting
  <2> QED
    BY <2>1, <2>2, <2>3, <2>4, <2>5, <2>6, <2>7, <2>8, <2>9, <2>10, <2>11, <2>12, <2>13, <2>14, <2>15, <2>16, <2>17 DEF Next, HandlerStep, WorkerStep
<1> QED
  BY <1>1, <1>2, TypeCorrect, PTL DEF Spec
------------------------------------------------------------------------------
(* One owner per event, effects committed once, and every second reply or  *)
(* second application of a status accounted for by a crash.                *)
THEOREM LedgerSafety == Spec => [](OneOwner /\ EffectsOnce /\ RepeatsPaidByCrashes)
<1>1. IInv => OneOwner /\ EffectsOnce /\ RepeatsPaidByCrashes
  BY DEF IInv, EffectsOnce, RepeatsPaidByCrashes, RepliesPaidByCrashes,
         StatusRepeatsPaidByCrashes, RowsRecordCommits, RepliesCounted, CommitsCounted
<1> QED
  BY <1>1, InductiveInvariant, PTL

(* The effects of a message reach the database at most once.               *)
COROLLARY EffectsCommittedOnce == Spec => []EffectsOnce
  BY LedgerSafety, PTL

(* What happens twice outside the database was paid for by a crash.        *)
COROLLARY RepeatsCounted == Spec => []RepeatsPaidByCrashes
  BY LedgerSafety, PTL

(* A committed message is never answered again.                            *)
THEOREM NeverAnsweredAgain == Spec => NoReplyAfterCommit
<1>1. IInv /\ [Next]_vars =>
        [\A e \in Messages : e \in stored => replies'[e] = replies[e]]_vars
  <2> SUFFICES ASSUME IInv, Next, NEW e \in Messages, e \in stored
               PROVE  replies'[e] = replies[e]
    OBVIOUS
  <2>1. ASSUME NEW w \in Workers, Reply(w)
        PROVE  replies'[e] = replies[e]
    <3>1. job[w] # e
      BY <2>1 DEF Reply, IInv, OpenRowsNew
    <3> QED
      BY <2>1, <3>1, EventAssumption DEF Reply, IInv, TypeOK
  <2>2. (\A w \in Workers : ~ Reply(w)) => UNCHANGED replies
    BY DEF Next, HandlerStep, WorkerStep, Deliver, Lookup, Bump, Insert, Enqueue, Respond,
           HandlerAborts, TakeJob, Store, ReplyRaises, TaskRaises, Commit, TaskFails,
           Finish, WorkerCrash, history
  <2> QED
    BY <2>1, <2>2
<1> QED
  BY <1>1, InductiveInvariant, PTL DEF Spec, NoReplyAfterCommit

(* The ledger, with all its failures, implements claim-once, apply-once.   *)
THEOREM LedgerImplementsEventOnce == Spec => ImplementsEventOnce
<1>1. Init => Abstract!AbstractInit
  BY EventAssumption DEF Init, Abstract!AbstractInit
<1>2. IInv /\ IInv' /\ [Next]_vars => [Abstract!AbstractNext]_(Abstract!abstractVars)
  <2> SUFFICES ASSUME IInv, IInv', [Next]_vars
               PROVE  [Abstract!AbstractNext]_(Abstract!abstractVars)
    OBVIOUS
  <2> USE EventAssumption DEF Abstract!AbstractNext, Abstract!abstractVars
  <2>1. ASSUME NEW h \in Handlers, Insert(h)
        PROVE  Abstract!AbstractNext \/ UNCHANGED Abstract!abstractVars
    <3>0. PICK e \in Events : e = cur[h]
      BY <2>1 DEF Insert, IInv, TypeOK
    <3>1. UNCHANGED commits
      BY <2>1 DEF Insert, history
    <3>2. CASE e \in Messages /\ KeyIsFree(e)
      <4>1. Abstract!ClaimOnce(e)
        BY <3>0, <3>1, <3>2, <2>1 DEF Insert, KeyIsFree, IInv, TypeOK, Abstract!ClaimOnce
      <4> QED
        BY <3>2, <4>1
    <3>3. CASE ~ (e \in Messages /\ KeyIsFree(e))
      BY <3>0, <3>1, <3>3, <2>1 DEF Insert, KeyIsFree, IInv, TypeOK
    <3> QED
      BY <3>2, <3>3
  <2>2. ASSUME NEW h \in Handlers, Bump(h)
        PROVE  UNCHANGED Abstract!abstractVars
    BY <2>2 DEF Bump, IInv, TypeOK, BumpsExisting, history
  <2>3. ASSUME NEW w \in Workers, Commit(w)
        PROVE  Abstract!AbstractNext \/ UNCHANGED Abstract!abstractVars
    <3>0. PICK e \in Events : e = job[w]
      BY <2>3 DEF Commit, IInv, TypeOK
    <3>1. UNCHANGED attempts /\ commits' = [commits EXCEPT ![e] = @ + 1]
      BY <3>0, <2>3 DEF Commit
    <3>2. CASE e \in Messages
      <4>1. e \notin stored /\ attempts[e] > 0
        BY <3>0, <3>2, <2>3 DEF Commit, IInv, OpenRowsNew, OwnersClaimed, Running
      <4>2. commits[e] \in Nat /\ commits[e] <= 1 /\ ~ (commits[e] > 0)
        BY <3>2, <4>1 DEF IInv, TypeOK, RowsRecordCommits
      <4>3. Abstract!ApplyOnce(e)
        <5>1. commits[e] = 0
          BY <4>2
        <5>2. commits'[e] = 1
          BY <3>1, <5>1 DEF IInv, TypeOK
        <5>3. \A d \in Messages : d # e => commits'[d] = commits[d]
          BY <3>1 DEF IInv, TypeOK
        <5>4. [d \in Messages |-> commits'[d]] =
                [[d \in Messages |-> commits[d]] EXCEPT ![e] = 1]
          BY <3>2, <5>2, <5>3
        <5> QED
          BY <3>1, <3>2, <4>1, <5>1, <5>4 DEF Abstract!ApplyOnce
      <4> QED
        BY <3>2, <4>3
    <3>3. CASE e \notin Messages
      BY <3>1, <3>3 DEF IInv, TypeOK
    <3> QED
      BY <3>2, <3>3
  <2>4. \/ UNCHANGED <<attempts, commits>>
        \/ \E h \in Handlers : Insert(h) \/ Bump(h)
        \/ \E w \in Workers : Commit(w)
    BY DEF Next, vars, HandlerStep, WorkerStep, Deliver, Lookup, Enqueue, Respond,
           HandlerAborts, TakeJob, Store, Reply, ReplyRaises, TaskRaises, TaskFails,
           Finish, WorkerCrash, db, history
  <2> QED
    BY <2>1, <2>2, <2>3, <2>4
<1> QED
  BY <1>1, <1>2, InductiveInvariant, PTL DEF Spec, ImplementsEventOnce, Abstract!AbstractSpec

(* The abstract ledger is promise enough: whatever implements it commits   *)
(* the effects of a message once, and only of one that was claimed.        *)
THEOREM EventOnceKeepsEffectsOnce ==
  ImplementsEventOnce =>
    [](EffectsOnce /\ \A e \in Messages : commits[e] > 0 => attempts[e] > 0)
<1> DEFINE Inv == \A e \in Messages : commits[e] = 0 \/ (commits[e] = 1 /\ attempts[e] > 0)
<1>1. Abstract!AbstractInit => Inv
  <2> SUFFICES ASSUME Abstract!AbstractInit, NEW e \in Messages
               PROVE  commits[e] = 0
    OBVIOUS
  <2>1. [d \in Messages |-> commits[d]] = [d \in Messages |-> 0]
    BY DEF Abstract!AbstractInit
  <2>2. [d \in Messages |-> commits[d]][e] = [d \in Messages |-> 0][e]
    BY <2>1
  <2> QED
    BY <2>2
<1>2. Inv /\ [Abstract!AbstractNext]_(Abstract!abstractVars) => Inv'
  <2> SUFFICES ASSUME Inv, [Abstract!AbstractNext]_(Abstract!abstractVars), NEW d \in Messages
               PROVE  commits'[d] = 0 \/ (commits'[d] = 1 /\ attempts'[d] > 0)
    OBVIOUS
  <2> DEFINE effects == [e \in Messages |-> commits[e]]
             claimed == {e \in Messages : attempts[e] > 0}
  <2>1. effects'[d] = commits'[d] /\ (d \in claimed' <=> attempts'[d] > 0)
    OBVIOUS
  <2>2. effects[d] = 0 \/ (effects[d] = 1 /\ d \in claimed)
    OBVIOUS
  <2>3. CASE UNCHANGED <<claimed, effects>>
    BY <2>1, <2>2, <2>3
  <2>4. ASSUME NEW e \in Messages, Abstract!ClaimOnce(e)
        PROVE  claimed' = claimed \cup {e} /\ effects' = effects
    BY <2>4 DEF Abstract!ClaimOnce
  <2>5. ASSUME NEW e \in Messages, Abstract!ApplyOnce(e)
        PROVE  claimed' = claimed /\ e \in claimed /\ effects' = [effects EXCEPT ![e] = 1]
    BY <2>5 DEF Abstract!ApplyOnce
  <2>6. \/ UNCHANGED <<claimed, effects>>
        \/ \E e \in Messages : Abstract!ClaimOnce(e) \/ Abstract!ApplyOnce(e)
    BY DEF Abstract!AbstractNext, Abstract!abstractVars
  <2> HIDE DEF effects, claimed
  <2>7. CASE \E e \in Messages : Abstract!ClaimOnce(e)
    BY <2>1, <2>2, <2>4, <2>7
  <2>8. CASE \E e \in Messages : Abstract!ApplyOnce(e)
    <3>1. DOMAIN effects = Messages
      BY DEF effects
    <3>2. PICK e \in Messages : /\ claimed' = claimed /\ e \in claimed
                                /\ effects' = [effects EXCEPT ![e] = 1]
      BY <2>5, <2>8
    <3>3. effects'[d] = IF d = e THEN 1 ELSE effects[d]
      BY <3>1, <3>2
    <3> QED
      BY <2>1, <2>2, <3>2, <3>3
  <2> QED
    BY <2>3, <2>6, <2>7, <2>8
<1>3. Inv => EffectsOnce /\ \A e \in Messages : commits[e] > 0 => attempts[e] > 0
  BY DEF EffectsOnce
<1> QED
  BY <1>1, <1>2, <1>3, PTL DEF ImplementsEventOnce, Abstract!AbstractSpec
==============================================================================
