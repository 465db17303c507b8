---------------------------- MODULE InboundLedger ----------------------------
(***************************************************************************)
(* The inbound path: a webhook request claims each event in the            *)
(* webhook_events ledger in a transaction of its own, then enqueues a job; *)
(* a worker runs the job as one database transaction, in the middle of     *)
(* which a reply leaves for WhatsApp.  Handlers, workers and the queue     *)
(* fail independently.                                                     *)
(*                                                                         *)
(*   app/api/webhooks.py               handle_webhook                      *)
(*   app/repositories/conversations.py WebhookEventRepository              *)
(*   app/workers/arq_runtime.py        TaskDispatcher                      *)
(*   app/workers/tasks.py              process_inbound_message_task,       *)
(*                                     process_status_update_task          *)
(*                                                                         *)
(* An operator whose name has an underscore is a plausible wrong version   *)
(* of the definition that follows it; it is not part of the specification  *)
(* and shows that the properties can tell the two apart.                   *)
(*                                                                         *)
(* An event is a model value.  Message text, payloads and the pipeline     *)
(* that chooses a reply are abstracted to three outcomes: no reply, a      *)
(* reply that was sent, a reply whose send raised.                         *)
(***************************************************************************)
EXTENDS Naturals, FiniteSets

CONSTANTS
  Events,         \* event keys Meta may deliver (messages and statuses)
  Messages,       \* those that are inbound messages
  OptOuts,        \* messages whose text is an opt-out keyword
  Handlers,       \* concurrent webhook requests
  Workers,        \* concurrent jobs (arq max_jobs, or local asyncio tasks)
  None,
  Durable,        \* TRUE: jobs are in Redis (arq); FALSE: asyncio.create_task
  MaxTries,       \* arq's limit on runs of one job
  DeadLetterAfter,\* tasks.py: attempts >= 3
  MaxDeliveries,  \* bound: webhook requests Meta makes
  MaxCrashes      \* bound: handlers and workers lost

ASSUME EventAssumption ==
  /\ Messages \subseteq Events
  /\ OptOuts \subseteq Messages
  /\ None \notin Events
  /\ Durable \in BOOLEAN
ASSUME BoundAssumption ==
  /\ MaxTries \in Nat \ {0}
  /\ DeadLetterAfter \in Nat
  /\ MaxDeliveries \in Nat
  /\ MaxCrashes \in Nat

VARIABLES
  (*************************************************************************)
  (* The database (committed rows).                                        *)
  (*************************************************************************)
  attempts,       \* webhook_events.attempts; 0 when there is no row
  processed,      \* webhook_events.processed
  stored,         \* inbound rows in messages, unique on meta_message_id
  optedOut,       \* opt-outs recorded
  deadLetters,    \* rows in dead_letters
  (*************************************************************************)
  (* The web process and the job queue.                                    *)
  (*************************************************************************)
  hpc, todo, cur, seen,
  queue,          \* jobs waiting, per event
  (*************************************************************************)
  (* The worker process.                                                   *)
  (*************************************************************************)
  wpc, job,
  runs,           \* times arq has started the job
  (*************************************************************************)
  (* History.                                                              *)
  (*************************************************************************)
  commits,        \* times the event's transaction committed
  replies,        \* replies accepted by WhatsApp
  lost,           \* runs cut short after a reply may have left
  deliveries, crashes

db      == <<attempts, processed, stored, optedOut, deadLetters>>
web     == <<hpc, todo, cur, seen>>
worker  == <<wpc, job, runs>>
history == <<commits, replies, lost>>
bounds  == <<deliveries, crashes>>
vars    == <<db, web, queue, worker, history, bounds>>

HandlerPC == {"idle", "next", "bump", "insert", "enqueue"}
WorkerPC  == {"idle", "open", "stored", "sent", "failing", "done"}

TypeOK ==
  /\ attempts \in [Events -> Nat]
  /\ processed \subseteq Events
  /\ stored \subseteq Messages
  /\ optedOut \subseteq OptOuts
  /\ deadLetters \subseteq Messages
  /\ hpc \in [Handlers -> HandlerPC]
  /\ todo \in [Handlers -> SUBSET Events]
  /\ cur \in [Handlers -> Events \cup {None}]
  /\ seen \in [Handlers -> Nat]
  /\ queue \in [Events -> Nat]
  /\ wpc \in [Workers -> WorkerPC]
  /\ job \in [Workers -> Events \cup {None}]
  /\ runs \in [Events -> Nat]
  /\ commits \in [Events -> Nat]
  /\ replies \in [Events -> Nat]
  /\ lost \in [Events -> Nat]
  /\ deliveries \in Nat
  /\ crashes \in Nat
  /\ \A h \in Handlers : hpc[h] \in {"bump", "insert", "enqueue"} => cur[h] \in Events
  /\ \A w \in Workers : wpc[w] # "idle" <=> job[w] \in Events

Init ==
  /\ attempts = [e \in Events |-> 0]
  /\ processed = {} /\ stored = {} /\ optedOut = {} /\ deadLetters = {}
  /\ hpc = [h \in Handlers |-> "idle"]
  /\ todo = [h \in Handlers |-> {}]
  /\ cur = [h \in Handlers |-> None]
  /\ seen = [h \in Handlers |-> 0]
  /\ queue = [e \in Events |-> 0]
  /\ wpc = [w \in Workers |-> "idle"]
  /\ job = [w \in Workers |-> None]
  /\ runs = [e \in Events |-> 0]
  /\ commits = [e \in Events |-> 0]
  /\ replies = [e \in Events |-> 0]
  /\ lost = [e \in Events |-> 0]
  /\ deliveries = 0 /\ crashes = 0

------------------------------------------------------------------------------
(***************************************************************************)
(* The webhook handler.                                                    *)
(***************************************************************************)

(* Meta posts a batch of events; it repeats a batch it has no answer for,  *)
(* and now and then one it has.                                            *)
Deliver(h, batch) ==
  /\ hpc[h] = "idle"
  /\ batch # {}
  /\ deliveries < MaxDeliveries
  /\ deliveries' = deliveries + 1
  /\ hpc' = [hpc EXCEPT ![h] = "next"]
  /\ todo' = [todo EXCEPT ![h] = batch]
  /\ UNCHANGED <<db, cur, seen, queue, worker, history, crashes>>

(* claim() first selects the row.  Messages are claimed before statuses.   *)
Lookup(h, e) ==
  /\ hpc[h] = "next"
  /\ e \in todo[h]
  /\ e \in Messages \/ todo[h] \cap Messages = {}
  /\ cur' = [cur EXCEPT ![h] = e]
  /\ seen' = [seen EXCEPT ![h] = attempts[e]]
  /\ hpc' = [hpc EXCEPT ![h] = IF attempts[e] > 0 THEN "bump" ELSE "insert"]
  /\ UNCHANGED <<db, todo, queue, worker, history, bounds>>

(* A row exists: attempts += 1 on the value that was read, return False.   *)
Bump(h) ==
  /\ hpc[h] = "bump"
  /\ attempts' = [attempts EXCEPT ![cur[h]] = seen[h] + 1]
  /\ todo' = [todo EXCEPT ![h] = @ \ {cur[h]}]
  /\ hpc' = [hpc EXCEPT ![h] = "next"]
  /\ UNCHANGED <<processed, stored, optedOut, deadLetters, cur, seen, queue,
                 worker, history, bounds>>

(* Whether an insert of e's row passes the unique constraint.              *)
KeyIsFree_NoConstraint(e) == TRUE
KeyIsFree(e) == attempts[e] = 0

(* No row was seen: insert it and commit, or lose the race (IntegrityError, *)
(* return False).                                                          *)
Insert(h) ==
  /\ hpc[h] = "insert"
  /\ IF KeyIsFree(cur[h])
     THEN /\ attempts' = [attempts EXCEPT ![cur[h]] = 1]
          /\ hpc' = [hpc EXCEPT ![h] = "enqueue"]
          /\ UNCHANGED todo
     ELSE /\ hpc' = [hpc EXCEPT ![h] = "next"]
          /\ todo' = [todo EXCEPT ![h] = @ \ {cur[h]}]
          /\ UNCHANGED attempts
  /\ UNCHANGED <<processed, stored, optedOut, deadLetters, cur, seen, queue,
                 worker, history, bounds>>

(* The claim is committed; only now is the job enqueued.                   *)
Enqueue(h) ==
  /\ hpc[h] = "enqueue"
  /\ queue' = [queue EXCEPT ![cur[h]] = @ + 1]
  /\ todo' = [todo EXCEPT ![h] = @ \ {cur[h]}]
  /\ hpc' = [hpc EXCEPT ![h] = "next"]
  /\ UNCHANGED <<db, cur, seen, worker, history, bounds>>

Respond(h) ==
  /\ hpc[h] = "next"
  /\ todo[h] = {}
  /\ hpc' = [hpc EXCEPT ![h] = "idle"]
  /\ UNCHANGED <<db, todo, cur, seen, queue, worker, history, bounds>>

(* The request dies: the database or Redis raised (HTTP 500) or the        *)
(* process stopped.  What was not committed is rolled back; the rest of    *)
(* the batch is not looked at.                                             *)
HandlerAborts(h) ==
  /\ hpc[h] # "idle"
  /\ crashes < MaxCrashes
  /\ crashes' = crashes + 1
  /\ hpc' = [hpc EXCEPT ![h] = "idle"]
  /\ todo' = [todo EXCEPT ![h] = {}]
  /\ UNCHANGED <<db, cur, seen, queue, worker, history, deliveries>>
------------------------------------------------------------------------------
(***************************************************************************)
(* The worker.  "open" and "stored" and "sent" are points inside the one   *)
(* session_scope of the task: nothing below is visible in the database     *)
(* until Commit.                                                           *)
(***************************************************************************)

TakeJob(w, e) ==
  /\ wpc[w] = "idle"
  /\ queue[e] > 0
  /\ queue' = [queue EXCEPT ![e] = @ - 1]
  /\ runs' = [runs EXCEPT ![e] = @ + 1]
  /\ job' = [job EXCEPT ![w] = e]
  /\ wpc' = [wpc EXCEPT ![w] = "open"]
  /\ UNCHANGED <<db, web, history, bounds>>

(* Rows another transaction has inserted and not yet committed make an     *)
(* insert of the same key wait.                                            *)
RowLocked(w) ==
  \E v \in Workers \ {w} : job[v] = job[w] /\ wpc[v] \in {"stored", "sent"}

(* The unique constraint on messages.meta_message_id.                      *)
RowIsNew_NoConstraint(e) == TRUE
RowIsNew(e) == e \notin stored

(* handle_inbound adds the inbound row; a status event adds none.          *)
Store(w) ==
  /\ wpc[w] = "open"
  /\ job[w] \in Messages => ~ RowLocked(w)
  /\ wpc' = [wpc EXCEPT ![w] =
               IF job[w] \in Messages => RowIsNew(job[w]) THEN "stored" ELSE "failing"]
  /\ UNCHANGED <<db, web, queue, job, runs, history, bounds>>

(* send_text returned: the customer has the reply, the database not yet.   *)
Reply(w) ==
  /\ wpc[w] = "stored"
  /\ job[w] \in Messages
  /\ replies' = [replies EXCEPT ![job[w]] = @ + 1]
  /\ wpc' = [wpc EXCEPT ![w] = "sent"]
  /\ UNCHANGED <<db, web, queue, job, runs, commits, lost, bounds>>

(* send_text raised.  The main path catches it and goes on without a       *)
(* reply; the opt-out confirmation and the fixed reply to an unsupported   *)
(* message type are sent outside any try.                                  *)
ReplyRaises(w) ==
  /\ wpc[w] = "stored"
  /\ job[w] \in Messages
  /\ \E next \in (IF job[w] \in OptOuts THEN {"failing"} ELSE {"sent", "failing"}) :
       wpc' = [wpc EXCEPT ![w] = next]
  /\ UNCHANGED <<db, web, queue, job, runs, history, bounds>>

(* Anything else in the task raises (a database error, a lost race on the  *)
(* contact row, a payload it cannot read).                                 *)
TaskRaises(w) ==
  /\ wpc[w] \in {"open", "stored", "sent"}
  /\ crashes < MaxCrashes
  /\ crashes' = crashes + 1
  /\ wpc' = [wpc EXCEPT ![w] = "failing"]
  /\ UNCHANGED <<db, web, queue, job, runs, history, deliveries>>

(* mark_processed, then session_scope commits everything at once.          *)
Commit(w) ==
  /\ \/ wpc[w] = "sent"
     \/ wpc[w] = "stored"
  /\ processed' = processed \cup {e \in {job[w]} : attempts[e] > 0}
  /\ stored' = stored \cup ({job[w]} \cap Messages)
  /\ optedOut' = optedOut \cup ({job[w]} \cap OptOuts)
  /\ commits' = [commits EXCEPT ![job[w]] = @ + 1]
  /\ wpc' = [wpc EXCEPT ![w] = "done"]
  /\ UNCHANGED <<attempts, deadLetters, web, queue, job, runs, replies, lost, bounds>>

(* What session_scope leaves of rows written in a transaction that raised. *)
AfterRollback(committed, pending) == committed

(* The except block: mark_failed reads attempts, a dead letter is written  *)
(* once they reach the limit -- and then the exception is raised on        *)
(* through session_scope, which rolls back.  A failed flush has already    *)
(* ended the transaction; status events have no except block.  arq does    *)
(* not run a job again because it raised.                                  *)
TaskFails_RunsAgain(w) ==
  /\ wpc[w] = "failing"
  /\ wpc' = [wpc EXCEPT ![w] = "open"]
  /\ UNCHANGED <<db, web, queue, job, runs, history, bounds>>

TaskFails(w) ==
  LET e == job[w]
      pending == {m \in {e} \cap Messages : attempts[m] >= DeadLetterAfter}
  IN /\ wpc[w] = "failing"
     /\ deadLetters' = AfterRollback(deadLetters, pending)
     /\ wpc' = [wpc EXCEPT ![w] = "idle"]
     /\ job' = [job EXCEPT ![w] = None]
     /\ UNCHANGED <<attempts, processed, stored, optedOut, web, queue, runs, history, bounds>>

(* The task returned: arq deletes the job.                                 *)
Finish(w) ==
  /\ wpc[w] = "done"
  /\ wpc' = [wpc EXCEPT ![w] = "idle"]
  /\ job' = [job EXCEPT ![w] = None]
  /\ UNCHANGED <<db, web, queue, runs, history, bounds>>

(* The worker stops before arq deleted the job: the transaction is gone    *)
(* (unless it had committed) and arq runs the job again, MaxTries times at *)
(* most.  The only copy of a local asyncio task dies with it.              *)
WorkerCrash(w) ==
  LET e == job[w]
  IN /\ wpc[w] # "idle"
     /\ crashes < MaxCrashes
     /\ crashes' = crashes + 1
     /\ queue' = IF Durable /\ runs[e] < MaxTries
                 THEN [queue EXCEPT ![e] = @ + 1] ELSE queue
     /\ lost' = IF wpc[w] \in {"sent", "failing", "done"}
                THEN [lost EXCEPT ![e] = @ + 1] ELSE lost
     /\ wpc' = [wpc EXCEPT ![w] = "idle"]
     /\ job' = [job EXCEPT ![w] = None]
     /\ UNCHANGED <<db, web, runs, commits, replies, deliveries>>
------------------------------------------------------------------------------
HandlerStep(h) ==
  \/ \E e \in Events : Lookup(h, e)
  \/ Bump(h)
  \/ Insert(h)
  \/ Enqueue(h)
  \/ Respond(h)

WorkerStep(w) ==
  \/ Store(w)
  \/ Reply(w)
  \/ ReplyRaises(w)
  \/ Commit(w)
  \/ TaskFails(w)
  \/ Finish(w)

Next ==
  \/ \E h \in Handlers, batch \in SUBSET Events : Deliver(h, batch)
  \/ \E h \in Handlers : HandlerStep(h) \/ HandlerAborts(h)
  \/ \E w \in Workers, e \in Events : TakeJob(w, e)
  \/ \E w \in Workers : WorkerStep(w) \/ TaskRaises(w) \/ WorkerCrash(w)

Spec == Init /\ [][Next]_vars

(* asyncio keeps running requests and jobs that are not blocked; arq polls *)
(* the queue and always hands a waiting job to an idle worker.  Nothing is *)
(* assumed of Meta, of failures or of which reply outcome happens.         *)
Fairness ==
  /\ \A h \in Handlers : WF_vars(HandlerStep(h))
  /\ \A w \in Workers : WF_vars(WorkerStep(w))
  /\ \A e \in Events : WF_vars(\E w \in Workers : TakeJob(w, e))

FairSpec == Spec /\ Fairness
------------------------------------------------------------------------------
(***************************************************************************)
(* Correctness.                                                            *)
(***************************************************************************)
Enqueuing(h, e) == hpc[h] = "enqueue" /\ cur[h] = e
Running(w, e)   == job[w] = e

(* An event has one owner at a time: the request that claimed it, or its   *)
(* one queued job, or the one worker running it, and only if its row was   *)
(* inserted.  Two racing requests, repeats of a batch and re-runs after a  *)
(* crash never make a second job (webhooks.py: claim, then enqueue).       *)
OneOwner ==
  /\ TypeOK
  /\ \A e \in Events :
       /\ queue[e] <= 1
       /\ \A g, h \in Handlers : Enqueuing(g, e) /\ Enqueuing(h, e) => g = h
       /\ \A v, w \in Workers : Running(v, e) /\ Running(w, e) => v = w
       /\ \A h \in Handlers, w \in Workers : ~ (Enqueuing(h, e) /\ Running(w, e))
       /\ queue[e] > 0 => /\ \A h \in Handlers : ~ Enqueuing(h, e)
                          /\ \A w \in Workers : ~ Running(w, e)

(* The effects of a message are committed at most once, even when a worker *)
(* dies between the commit and the moment arq forgets the job.             *)
EffectsOnce == \A e \in Messages : commits[e] <= 1

(* A customer gets a second answer to one message only if a worker died    *)
(* after the first answer had left; never because of a repeated delivery.  *)
RepliesPaidByCrashes == \A e \in Messages : replies[e] <= 1 + lost[e]

(* A status event has no row of its own to collide with: it can be applied *)
(* again, but only after a crash that followed the commit.                 *)
StatusRepeatsPaidByCrashes ==
  \A e \in Events \ Messages : commits[e] <= 1 + lost[e]

(* The two together: whatever happens twice outside the database was paid  *)
(* for by a crash, one crash a time.                                       *)
RepeatsPaidByCrashes == RepliesPaidByCrashes /\ StatusRepeatsPaidByCrashes

(* After the commit nothing more is sent for the message: a run repeated   *)
(* because arq was not told stops at the unique row, before its reply.     *)
NoReplyAfterCommit ==
  [][\A e \in Messages : e \in stored => replies'[e] = replies[e]]_vars

(* Once the queue has a job, it is eventually disposed of.     *)
JobsSettle ==
  \A e \in Events :
    queue[e] > 0 ~> (queue[e] = 0 /\ \A w \in Workers : ~ Running(w, e))

(* The ledger implements claim-once, apply-once.                           *)
Abstract == INSTANCE EventOnce WITH
  claimed <- {e \in Messages : attempts[e] > 0},
  effects <- [e \in Messages |-> commits[e]]

ImplementsEventOnce == Abstract!AbstractSpec
------------------------------------------------------------------------------
(***************************************************************************)
(* What the repository's documents say and the code does not do.           *)
(***************************************************************************)

(* docs/ACCEPTANCE_TESTS.md: duplicate deliveries are processed exactly    *)
(* once.  Here: an event delivered again is eventually processed.          *)
DuplicatesProcessed ==
  \A e \in Events : attempts[e] >= 2 ~> e \in processed
==============================================================================
