------------------------------ MODULE CampaignRun ------------------------------
(***************************************************************************)
(* Campaign execution.  A run is ONE database transaction, however many    *)
(* templates it sends: what it writes is invisible until it commits, and   *)
(* is gone if anything but a WhatsAppAPIError is raised, while every       *)
(* template it sent stays with the customer.  What is counted are calls of *)
(* send_template that left a template with WhatsApp, whether they returned,*)
(* raised because the answer was lost, or were cut off; the copies one     *)
(* call leaves when it retries are GraphClient's subject.                  *)
(*                                                                         *)
(*   app/services/campaign_service.py  stage_recipients, execute_campaign  *)
(*   app/repositories/campaigns.py     set_status, list_by_status, ...     *)
(*   app/workers/tasks.py              execute_campaign_task               *)
(*   scripts/send_campaign.py          the same service from a shell       *)
(*                                                                         *)
(* PostgreSQL at READ COMMITTED: set_status and touch_outbound flush an    *)
(* UPDATE, so a run holds its campaign's row from the start and each       *)
(* contact's row from its send until the end.  Two runs that wait for each *)
(* other are a deadlock; the server aborts one.                            *)
(*                                                                         *)
(* An operator whose name has an underscore is a plausible wrong version   *)
(* of the definition that follows it.                                      *)
(***************************************************************************)
EXTENDS Integers, FiniteSets

CONSTANTS
  Campaigns, Contacts,
  Executors,       \* jobs or shells that run a campaign
  CampaignOf,      \* the campaign an executor runs
  Position,        \* recipient id order, per campaign
  Undecryptable,   \* contacts whose phone number does not decrypt
  BatchSize,       \* bot.campaign.batch_size
  MinSample,       \* attempts before the failure rate counts (10 in the code)
  MaxFailureRate,  \* bot.campaign.max_failure_rate, in percent
  MaxRuns,         \* bound: times an executor starts
  MaxAborts,       \* bound: runs that raise or are killed
  MaxSuppressions  \* bound: contacts suppressed while runs are possible

Free == "free"

ASSUME CampaignAssumption ==
  /\ IsFiniteSet(Campaigns)
  /\ CampaignOf \in [Executors -> Campaigns]
  /\ Position \in [Campaigns -> [Contacts -> Nat]]
  /\ \A c \in Campaigns, j, k \in Contacts : Position[c][j] = Position[c][k] => j = k
  /\ Undecryptable \subseteq Contacts
  /\ Free \notin Executors /\ Free \notin Contacts
  /\ {BatchSize, MinSample} \subseteq Nat \ {0}
  /\ {MaxFailureRate, MaxRuns, MaxAborts, MaxSuppressions} \subseteq Nat

VARIABLES
  status,      \* campaigns.status, "NONE" before the campaign exists
  rcp,         \* campaign_recipients.status
  suppressed,  \* contacts in suppression_list
  campaignLock, contactLock,       \* row locks: an executor, or Free
  pc,
  left,        \* recipients of the loaded batch still to do
  cur,         \* recipient being sent to
  wr,          \* recipient statuses written and not committed; "NONE" if not
  sent, failed,
  runs, aborts,
  wire,        \* history: calls that left a template, per recipient
  undone,      \* history: those whose run was rolled back
  stray,       \* history: recipients marked FAILED although they got theirs
  late         \* history: calls that left one after the contact's suppression

db      == <<status, rcp, suppressed>>
locks   == <<campaignLock, contactLock>>
run     == <<pc, left, cur, wr, sent, failed, runs>>
history == <<wire, undone, stray, late>>
vars    == <<db, locks, run, aborts, history>>

CampaignStatus == {"NONE", "DRAFT", "PAUSED", "COMPLETED"}
RecipientStatus == {"NONE", "ELIGIBLE", "SENT", "FAILED", "REJECTED"}
PC == {"idle", "guarded", "running", "sending", "accepted", "lost", "pausing", "completing"}
InCall == {"sending", "accepted", "lost"}

TypeOK ==
  /\ status \in [Campaigns -> CampaignStatus]
  /\ rcp \in [Campaigns -> [Contacts -> RecipientStatus]]
  /\ suppressed \subseteq Contacts
  /\ campaignLock \in [Campaigns -> Executors \cup {Free}]
  /\ contactLock \in [Contacts -> Executors \cup {Free}]
  /\ pc \in [Executors -> PC]
  /\ left \in [Executors -> SUBSET Contacts]
  /\ cur \in [Executors -> Contacts \cup {Free}]
  /\ wr \in [Executors -> [Contacts -> RecipientStatus \ {"ELIGIBLE"}]]
  /\ sent \in [Executors -> Nat] /\ failed \in [Executors -> Nat]
  /\ runs \in [Executors -> Nat] /\ aborts \in Nat
  /\ wire \in [Campaigns -> [Contacts -> Nat]]
  /\ undone \in [Campaigns -> [Contacts -> Nat]]
  /\ stray \in [Campaigns -> SUBSET Contacts]
  /\ late \in [Contacts -> Nat]
  /\ \A x \in Executors : pc[x] \in InCall => cur[x] \in Contacts
  /\ \A c \in Campaigns :
       campaignLock[c] # Free => pc[campaignLock[c]] \notin {"idle", "guarded"}

Nobody == [k \in Contacts |-> "NONE"]
Zeroes == [c \in Campaigns |-> [k \in Contacts |-> 0]]

Init ==
  /\ status = [c \in Campaigns |-> "NONE"]
  /\ rcp = [c \in Campaigns |-> Nobody]
  /\ suppressed = {}
  /\ campaignLock = [c \in Campaigns |-> Free]
  /\ contactLock = [k \in Contacts |-> Free]
  /\ pc = [x \in Executors |-> "idle"]
  /\ left = [x \in Executors |-> {}]
  /\ cur = [x \in Executors |-> Free]
  /\ wr = [x \in Executors |-> Nobody]
  /\ sent = [x \in Executors |-> 0] /\ failed = [x \in Executors |-> 0]
  /\ runs = [x \in Executors |-> 0] /\ aborts = 0
  /\ wire = Zeroes /\ undone = Zeroes
  /\ stray = [c \in Campaigns |-> {}]
  /\ late = [k \in Contacts |-> 0]
--------------------------------------------------------------------------------
(***************************************************************************)
(* Staging, and suppressions arriving from elsewhere.                      *)
(***************************************************************************)

(* create_campaign and stage_recipients.  Suppressed contacts never pass   *)
(* the gate; others may fail it for reasons not modelled here (consent,    *)
(* template, language, quiet hours).                                       *)
Stage(c, rejected) ==
  /\ status[c] = "NONE"
  /\ suppressed \subseteq rejected
  /\ status' = [status EXCEPT ![c] = "DRAFT"]
  /\ rcp' = [rcp EXCEPT ![c] =
               [k \in Contacts |-> IF k \in rejected THEN "REJECTED" ELSE "ELIGIBLE"]]
  /\ UNCHANGED <<suppressed, locks, run, aborts, history>>

(* An opt-out, a hard bounce or an operator adds a suppression entry.      *)
Suppress(k) ==
  /\ k \notin suppressed
  /\ Cardinality(suppressed) < MaxSuppressions
  /\ suppressed' = suppressed \cup {k}
  /\ UNCHANGED <<status, rcp, locks, run, aborts, history>>
--------------------------------------------------------------------------------
(***************************************************************************)
(* One run, of executor x.                                                 *)
(***************************************************************************)
Mine(x) == CampaignOf[x]

(* Recipient statuses as this transaction sees them.                       *)
View(x) == [k \in Contacts |-> IF wr[x][k] = "NONE" THEN rcp[Mine(x)][k] ELSE wr[x][k]]

EligibleFor(x) == {k \in Contacts : View(x)[k] = "ELIGIBLE"}

(* list_by_status(ELIGIBLE, limit=batch_size), ordered by recipient id.    *)
Batch(x, eligible) ==
  {k \in eligible :
     Cardinality({j \in eligible : Position[Mine(x)][j] < Position[Mine(x)][k]}) < BatchSize}

FirstLeft(x) ==
  CHOOSE k \in left[x] : \A j \in left[x] : Position[Mine(x)][k] <= Position[Mine(x)][j]

(* Load the campaign and pass the status guard.  RUNNING is in the guard   *)
(* too, but no run ever commits it.                                        *)
Begin(x) ==
  /\ pc[x] = "idle"
  /\ runs[x] < MaxRuns
  /\ status[Mine(x)] \in {"DRAFT", "PAUSED"}
  /\ pc' = [pc EXCEPT ![x] = "guarded"]
  /\ runs' = [runs EXCEPT ![x] = @ + 1]
  /\ UNCHANGED <<db, locks, left, cur, wr, sent, failed, aborts, history>>

(* The flush of set_status(RUNNING) waits for the campaign's row.          *)
RowFree_NoFlush(c) == TRUE
RowFree(c) == campaignLock[c] = Free

(* set_status(RUNNING), then the first batch.                              *)
Enter(x) ==
  /\ pc[x] = "guarded"
  /\ RowFree(Mine(x))
  /\ campaignLock' = [campaignLock EXCEPT ![Mine(x)] = x]
  /\ left' = [left EXCEPT ![x] = Batch(x, EligibleFor(x))]
  /\ sent' = [sent EXCEPT ![x] = 0]
  /\ failed' = [failed EXCEPT ![x] = 0]
  /\ pc' = [pc EXCEPT ![x] = "running"]
  /\ UNCHANGED <<db, contactLock, cur, wr, runs, aborts, history>>

(* A recipient suppressed since staging is rejected, not sent to.          *)
RejectSuppressed_Skipped(x, k) ==
  /\ left' = [left EXCEPT ![x] = @ \ {k}]
  /\ UNCHANGED <<wr, failed>>
RejectSuppressed(x, k) ==
  /\ wr' = [wr EXCEPT ![x][k] = "REJECTED"]
  /\ left' = [left EXCEPT ![x] = @ \ {k}]
  /\ UNCHANGED failed

(* `continue` before the failure threshold is looked at.                   *)
FailUndecryptable(x, k) ==
  /\ wr' = [wr EXCEPT ![x][k] = "FAILED"]
  /\ failed' = [failed EXCEPT ![x] = @ + 1]
  /\ left' = [left EXCEPT ![x] = @ \ {k}]

MustReject_Unchecked(k) == FALSE
MustReject(k) == k \in suppressed

(* The final pre-send check of the next recipient.                         *)
Check(x) ==
  /\ pc[x] = "running"
  /\ left[x] # {}
  /\ LET k == FirstLeft(x)
     IN \/ /\ MustReject(k)
           /\ RejectSuppressed(x, k)
           /\ UNCHANGED <<pc, cur>>
        \/ /\ ~ MustReject(k)
           /\ k \in Undecryptable
           /\ FailUndecryptable(x, k)
           /\ UNCHANGED <<pc, cur>>
        \/ /\ ~ MustReject(k)
           /\ k \notin Undecryptable
           /\ cur' = [cur EXCEPT ![x] = k]
           /\ pc' = [pc EXCEPT ![x] = "sending"]
           /\ UNCHANGED <<wr, failed, left>>
  /\ UNCHANGED <<db, locks, sent, runs, aborts, history>>

ThresholdHit(s, f) == s + f >= MinSample /\ f * 100 >= MaxFailureRate * (s + f)

(* After an attempt: pause, or go on to the next recipient.                *)
AfterAttempt_NoThreshold(x, s, f) ==
  /\ pc' = [pc EXCEPT ![x] = "running"]
  /\ left' = [left EXCEPT ![x] = @ \ {cur[x]}]
AfterAttempt(x, s, f) ==
  /\ pc' = [pc EXCEPT ![x] = IF ThresholdHit(s, f) THEN "pausing" ELSE "running"]
  /\ left' = [left EXCEPT ![x] = @ \ {cur[x]}]

(* The template is with WhatsApp.  send_template returns, or every answer  *)
(* is lost and it raises in the end.                                       *)
Send(x) ==
  LET k == cur[x]
  IN /\ pc[x] = "sending"
     /\ wire' = [wire EXCEPT ![Mine(x)][k] = @ + 1]
     /\ late' = IF k \in suppressed THEN [late EXCEPT ![k] = @ + 1] ELSE late
     /\ \E answer \in {"accepted", "lost"} : pc' = [pc EXCEPT ![x] = answer]
     /\ UNCHANGED <<db, locks, left, cur, wr, sent, failed, runs, aborts, undone, stray>>

(* mark_sent, the message row, and touch_outbound, which waits for the     *)
(* contact's row.                                                          *)
Record(x) ==
  LET k == cur[x]
  IN /\ pc[x] = "accepted"
     /\ contactLock[k] \in {Free, x}
     /\ contactLock' = [contactLock EXCEPT ![k] = x]
     /\ wr' = [wr EXCEPT ![x][k] = "SENT"]
     /\ sent' = [sent EXCEPT ![x] = @ + 1]
     /\ AfterAttempt(x, sent[x] + 1, failed[x])
     /\ UNCHANGED <<db, campaignLock, cur, failed, runs, aborts, history>>

(* WhatsAppAPIError: the one exception the loop catches.  Meta refused the *)
(* template or never got it, or took it and the answer was lost: the       *)
(* recipient is FAILED in either case.                                     *)
SendRejected(x) ==
  LET k == cur[x]
  IN /\ pc[x] \in {"sending", "lost"}
     /\ wr' = [wr EXCEPT ![x][k] = "FAILED"]
     /\ failed' = [failed EXCEPT ![x] = @ + 1]
     /\ stray' = IF pc[x] = "lost" THEN [stray EXCEPT ![Mine(x)] = @ \cup {k}] ELSE stray
     /\ AfterAttempt(x, sent[x], failed[x] + 1)
     /\ UNCHANGED <<db, locks, cur, sent, runs, aborts, wire, undone, late>>

(* The batch is done: fetch the next, and complete if there is none.       *)
NextBatch(x) ==
  /\ pc[x] = "running"
  /\ left[x] = {}
  /\ left' = [left EXCEPT ![x] = Batch(x, EligibleFor(x))]
  /\ pc' = [pc EXCEPT ![x] = IF EligibleFor(x) = {} THEN "completing" ELSE "running"]
  /\ UNCHANGED <<db, locks, cur, wr, sent, failed, runs, aborts, history>>

Unlock(x) ==
  /\ campaignLock' = [c \in Campaigns |->
                        IF campaignLock[c] = x THEN Free ELSE campaignLock[c]]
  /\ contactLock' = [k \in Contacts |-> IF contactLock[k] = x THEN Free ELSE contactLock[k]]

Forget(x) ==
  /\ wr' = [wr EXCEPT ![x] = Nobody]
  /\ left' = [left EXCEPT ![x] = {}]
  /\ cur' = [cur EXCEPT ![x] = Free]
  /\ pc' = [pc EXCEPT ![x] = "idle"]

FinalStatus_Unconditional(x) == "COMPLETED"
FinalStatus(x) == IF pc[x] = "pausing" THEN "PAUSED" ELSE "COMPLETED"

(* The final status and the counters, then session_scope commits.          *)
Commit(x) ==
  /\ pc[x] \in {"pausing", "completing"}
  /\ status' = [status EXCEPT ![Mine(x)] = FinalStatus(x)]
  /\ rcp' = [rcp EXCEPT ![Mine(x)] = View(x)]
  /\ Unlock(x)
  /\ Forget(x)
  /\ UNCHANGED <<suppressed, sent, failed, runs, aborts, history>>

(* Whom an open run has left a template with.                              *)
SentBy(x) ==
  {k \in Contacts : \/ wr[x][k] = "SENT"
                    \/ pc[x] \in {"accepted", "lost"} /\ cur[x] = k
                    \/ wr[x][k] = "FAILED" /\ k \in stray[Mine(x)]}

(* The whole transaction is rolled back; what was sent was sent.           *)
Rollback(x) ==
  /\ undone' = [undone EXCEPT ![Mine(x)] =
                  [k \in Contacts |-> IF k \in SentBy(x) THEN @[k] + 1 ELSE @[k]]]
  /\ stray' = [stray EXCEPT ![Mine(x)] = @ \ {k \in Contacts : wr[x][k] = "FAILED"}]
  /\ Unlock(x)
  /\ Forget(x)
  /\ UNCHANGED <<db, sent, failed, runs, wire, late>>

(* CircuitOpenError, arq's job timeout, a database error or a crash.       *)
Abort(x) ==
  /\ pc[x] # "idle"
  /\ aborts < MaxAborts
  /\ aborts' = aborts + 1
  /\ Rollback(x)

WaitsFor(x, y) ==
  /\ x # y
  /\ \/ pc[x] = "accepted" /\ contactLock[cur[x]] = y
     \/ pc[x] = "guarded" /\ campaignLock[Mine(x)] = y

(* PostgreSQL's deadlock detector picks a victim.                          *)
DeadlockVictim(x) ==
  /\ \E cycle \in SUBSET Executors :
       x \in cycle /\ \A y \in cycle : \E z \in cycle : WaitsFor(y, z)
  /\ Rollback(x)
  /\ UNCHANGED aborts
--------------------------------------------------------------------------------
RunStep(x) ==
  Enter(x) \/ Check(x) \/ Send(x) \/ Record(x) \/ SendRejected(x) \/ NextBatch(x) \/ Commit(x)

Next ==
  \/ \E c \in Campaigns, rejected \in SUBSET Contacts : Stage(c, rejected)
  \/ \E k \in Contacts : Suppress(k)
  \/ \E x \in Executors : Begin(x) \/ RunStep(x) \/ Abort(x) \/ DeadlockVictim(x)

Spec == Init /\ [][Next]_vars

(* A run that can go on does; the server always resolves a deadlock.       *)
Fairness == \A x \in Executors : WF_vars(RunStep(x)) /\ WF_vars(DeadlockVictim(x))

FairSpec == Spec /\ Fairness
--------------------------------------------------------------------------------
InFlight(c, k) == {x \in Executors : Mine(x) = c /\ k \in SentBy(x)}
Settled(c) ==
  {k \in Contacts : rcp[c][k] = "SENT" \/ (rcp[c][k] = "FAILED" /\ k \in stray[c])}
Recorded(c, k) == IF k \in Settled(c) THEN 1 ELSE 0

(* Every call that left a template with WhatsApp is recorded as SENT, or   *)
(* as FAILED because its answer was lost, is in an open run, or was undone *)
(* by a rollback: none is recorded as SENT that was not sent, and one      *)
(* whose answer was lost is never ELIGIBLE or REJECTED in a run's books.   *)
SendsAccounted ==
  /\ TypeOK
  /\ \A c \in Campaigns, k \in Contacts :
       wire[c][k] = undone[c][k] + Recorded(c, k) + Cardinality(InFlight(c, k))
  /\ \A c \in Campaigns : \A k \in stray[c] :
       \/ rcp[c][k] = "FAILED"
       \/ \E x \in Executors : Mine(x) = c /\ wr[x][k] = "FAILED"

(* Two executors of one campaign, started together, never both call for a  *)
(* recipient and leave a template: a second call that does needs a         *)
(* rolled-back run (the row lock on campaigns serialises them), also when  *)
(* the first raised with its answer lost.                                  *)
SecondSendNeedsRollback ==
  \A c \in Campaigns, k \in Contacts : wire[c][k] <= 1 + undone[c][k]

(* Once a suppression commits, at most one more call per campaign leaves a *)
(* contact a template: the one a run had already cleared.  Runs of a       *)
(* campaign are serialised, and a run that starts later reads the          *)
(* suppression.                                                            *)
FewLateSends == \A k \in Contacts : late[k] <= Cardinality(Campaigns)

(* Nothing is sent by a run whose failure rate has reached the limit (when *)
(* every phone number decrypts).                                           *)
StopsAtThreshold ==
  \A x \in Executors : pc[x] = "sending" => ~ ThresholdHit(sent[x], failed[x])

(* A completed campaign has nobody left to send to.                        *)
CompletedIsDone ==
  \A c \in Campaigns :
    status[c] = "COMPLETED" => \A k \in Contacts : rcp[c][k] # "ELIGIBLE"

(* Runs implement the books of their campaigns: each recipient is due      *)
(* once, an open run's sends (calls that left a template) are recorded or  *)
(* lost as a whole, and what is recorded or completed stays so, whoever    *)
(* else runs the campaign.                                                 *)
Books == INSTANCE CampaignBooks WITH
  launched  <- {c \in Campaigns : status[c] # "NONE"},
  completed <- {c \in Campaigns : status[c] = "COMPLETED"},
  due  <- [c \in Campaigns |-> {k \in Contacts : rcp[c][k] = "ELIGIBLE"}],
  open <- [c \in Campaigns |-> {k \in Contacts : InFlight(c, k) # {}}],
  kept <- [c \in Campaigns |-> Settled(c)],
  got  <- wire,
  lost <- undone

ImplementsCampaignBooks == Books!BooksSpec

(* Every run ends, deadlocks between runs included.                        *)
RunsEnd == \A x \in Executors : pc[x] # "idle" ~> pc[x] = "idle"
================================================================================
