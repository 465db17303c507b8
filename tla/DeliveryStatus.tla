---------------------------- MODULE DeliveryStatus ----------------------------
(***************************************************************************)
(* What delivery reports do to one campaign message: its row in messages,  *)
(* the campaign recipient that mirrors it, and the contact it was sent to. *)
(*                                                                         *)
(*   app/repositories/conversations.py  update_delivery_status             *)
(*   app/services/conversation_service.py  handle_status                   *)
(*   app/workers/tasks.py               process_status_update_task         *)
(*   app/services/consent_service.py    suppress, opt_out, opt_in          *)
(*                                                                         *)
(* Reports reach the workers in any order, and each at most once (the      *)
(* ledger, see InboundLedger).  The message is already with Meta while the *)
(* transaction that records it is still open.  The database is PostgreSQL  *)
(* at READ COMMITTED: a task computes the new status from the row as it    *)
(* was when loaded, and an UPDATE waits for the row lock, then overwrites. *)
(*                                                                         *)
(* An operator whose name has an underscore is a plausible wrong version   *)
(* of the definition that follows it.                                      *)
(***************************************************************************)
EXTENDS Naturals, FiniteSetsExt

CONSTANTS
  Reports,      \* the statuses Meta reports for the message
  Tasks,        \* status jobs that run at the same time
  HardFailure,  \* TRUE: a FAILED report carries error code 131026 or 131047
  MaxFailures   \* bound: tasks that raise

Statuses  == {"SENT", "DELIVERED", "READ", "FAILED", "DELETED"}
Consents  == {"OPTED_IN", "OPTED_OUT", "SUPPRESSED"}
Free      == "free"   \* nobody holds the lock on the message row
NoReport  == "none"

ASSUME ReportAssumption ==
  /\ Reports \subseteq Statuses
  /\ Free \notin Tasks
  /\ HardFailure \in BOOLEAN
  /\ MaxFailures \in Nat

VARIABLES
  sender,       \* the sending transaction: "open", "committed", "rolledback"
  msg,          \* messages.delivery_status
  rcp,          \* campaign_recipients.status
  consent,      \* contacts.consent_status
  suppressed,   \* the contact is in suppression_list
  pc, report, seen, seenConsent,   \* per task; seen is the status as loaded
  lock,         \* task holding the message row lock, or Free
  had,          \* history: statuses the contact has had, as old jobs may have loaded
  excused,      \* history: why a bounce may leave the contact off the list
  applied,      \* history: reports whose transaction committed
  dropped,      \* history: reports for a message not found
  overlapped,   \* history: two status jobs have run side by side
  failures

contact == <<consent, suppressed, had>>
rows  == <<sender, msg, rcp, contact>>
tasks == <<pc, report, seen, seenConsent>>
vars  == <<rows, tasks, lock, excused, applied, dropped, overlapped, failures>>

TypeOK ==
  /\ sender \in {"open", "committed", "rolledback"}
  /\ msg \in Statuses
  /\ rcp \in {"SENT", "DELIVERED", "READ", "FAILED"}
  /\ had \subseteq Consents /\ consent \in had
  /\ suppressed \in BOOLEAN /\ excused \in BOOLEAN
  /\ pc \in [Tasks -> {"idle", "loaded", "applied", "mirrored"}]
  /\ report \in [Tasks -> Reports \cup {NoReport}]
  /\ seen \in [Tasks -> Statuses]
  /\ seenConsent \in [Tasks -> Consents]
  /\ lock \in Tasks \cup {Free}
  /\ applied \subseteq Reports
  /\ dropped \subseteq Reports
  /\ overlapped \in BOOLEAN
  /\ failures \in Nat
  /\ lock # Free => pc[lock] \in {"applied", "mirrored"}

Init ==
  /\ sender = "open" /\ msg = "SENT" /\ rcp = "SENT"
  /\ consent = "OPTED_IN" /\ had = {"OPTED_IN"}
  /\ suppressed = FALSE /\ excused = FALSE
  /\ pc = [t \in Tasks |-> "idle"]
  /\ report = [t \in Tasks |-> NoReport]
  /\ seen = [t \in Tasks |-> "SENT"]
  /\ seenConsent = [t \in Tasks |-> "OPTED_IN"]
  /\ lock = Free
  /\ applied = {} /\ dropped = {} /\ overlapped = FALSE /\ failures = 0
-------------------------------------------------------------------------------
(* The order table; a status it does not list ranks 0.                     *)
Rank(s) == CASE s = "SENT" -> 1 [] s = "DELIVERED" -> 2 [] s = "READ" -> 3 [] OTHER -> 0

Terminal(s) == s \in {"FAILED", "DELETED"}

(* The status update_delivery_status leaves, given the one it loaded.      *)
NewStatus_LastWins(old, new) == new
NewStatus(old, new) == IF Terminal(new) \/ Rank(new) >= Rank(old) THEN new ELSE old

(* The sending transaction ends; its rows become visible, or never do.     *)
SenderEnds(outcome) ==
  /\ sender = "open"
  /\ sender' = outcome
  /\ UNCHANGED <<msg, rcp, contact, tasks, lock, excused, applied, dropped, overlapped, failures>>

InProgress == {report[t] : t \in Tasks}
Waiting    == Reports \ (applied \cup dropped \cup InProgress)

(* get_by_meta_id; no row means "unknown_message", and the event is marked *)
(* processed all the same.                                                 *)
Load(t, r) ==
  /\ pc[t] = "idle"
  /\ r \in Waiting
  /\ IF sender = "committed"
     THEN /\ report' = [report EXCEPT ![t] = r]
          /\ seen' = [seen EXCEPT ![t] = msg]
          /\ pc' = [pc EXCEPT ![t] = "loaded"]
          /\ UNCHANGED dropped
     ELSE /\ dropped' = dropped \cup {r}
          /\ UNCHANGED <<report, seen, pc>>
  /\ overlapped' = (overlapped \/ \E u \in Tasks : pc[u] # "idle")
  /\ UNCHANGED <<rows, seenConsent, lock, excused, applied, failures>>

Changes(t) == NewStatus(seen[t], report[t]) # seen[t]

(* The flush: an UPDATE only if the attribute changed, and then the row    *)
(* stays locked until the transaction ends.                                *)
Apply(t) ==
  /\ pc[t] = "loaded"
  /\ Changes(t) => lock = Free
  /\ lock' = IF Changes(t) THEN t ELSE lock
  /\ pc' = [pc EXCEPT ![t] = "applied"]
  /\ UNCHANGED <<rows, report, seen, seenConsent, excused, applied, dropped, overlapped, failures>>

(* The recipient and the contact are read after the message.  A failure    *)
(* that finds an opted-out contact off the list has nothing to add to it.  *)
Mirror(t) ==
  /\ pc[t] = "applied"
  /\ seenConsent' = [seenConsent EXCEPT ![t] = consent]
  /\ excused' = IF report[t] = "FAILED" THEN consent = "OPTED_OUT" /\ ~ suppressed ELSE excused
  /\ pc' = [pc EXCEPT ![t] = "mirrored"]
  /\ UNCHANGED <<rows, report, seen, lock, applied, dropped, overlapped, failures>>

(* A permanent failure suppresses the contact unless it has opted out.     *)
Bounces_Inverted(t) ==
  report[t] = "FAILED" /\ HardFailure /\ seenConsent[t] = "OPTED_OUT"
Bounces(t) ==
  report[t] = "FAILED" /\ HardFailure /\ seenConsent[t] # "OPTED_OUT"

(* The status a transaction leaves: an attribute is written only if it     *)
(* differs from the row as the transaction loaded it.                      *)
Written(loaded, status) == IF loaded = status THEN consent ELSE status

(* What session_scope's commit leaves of the row lock.                     *)
Released_Kept(t) == lock
Released(t) == IF lock = t THEN Free ELSE lock

Commit(t) ==
  LET r == report[t]
  IN /\ pc[t] = "mirrored"
     /\ msg' = IF Changes(t) THEN NewStatus(seen[t], r) ELSE msg
     /\ rcp' = IF r \in {"DELIVERED", "READ", "FAILED"} THEN r ELSE rcp
     /\ consent' = IF Bounces(t) THEN Written(seenConsent[t], "SUPPRESSED") ELSE consent
     /\ had' = had \cup {consent'}
     /\ suppressed' = (suppressed \/ Bounces(t))
     /\ excused' = (excused /\ ~ Bounces(t))
     /\ applied' = applied \cup {r}
     /\ lock' = Released(t)
     /\ pc' = [pc EXCEPT ![t] = "idle"]
     /\ report' = [report EXCEPT ![t] = NoReport]
     /\ UNCHANGED <<sender, seen, seenConsent, dropped, overlapped, failures>>

(* The task raises: everything it wrote is rolled back, and its report is  *)
(* not tried again (the ledger has it as claimed).                         *)
TaskFails(t) ==
  /\ pc[t] \in {"loaded", "applied", "mirrored"}
  /\ failures < MaxFailures
  /\ failures' = failures + 1
  /\ pc' = [pc EXCEPT ![t] = "idle"]
  /\ report' = [report EXCEPT ![t] = NoReport]
  /\ dropped' = dropped \cup {report[t]}
  /\ lock' = Released(t)
  /\ UNCHANGED <<rows, seen, seenConsent, excused, applied, overlapped>>

(* The contact sends STOP or START in the meantime: the job of the message *)
(* ends, having loaded the contact with any status it has had (opt_out and *)
(* opt_in; their races with each other are the subject of ContactConsent). *)
OptOut ==
  /\ \E loaded \in had : consent' = Written(loaded, "OPTED_OUT")
  /\ had' = had \cup {consent'}
  /\ suppressed' = TRUE
  /\ UNCHANGED <<sender, msg, rcp, tasks, lock, excused, applied, dropped, overlapped, failures>>

OptIn ==
  /\ \E loaded \in had : consent' = Written(loaded, "OPTED_IN")
  /\ had' = had \cup {consent'}
  /\ suppressed' = FALSE
  /\ excused' = TRUE
  /\ UNCHANGED <<sender, msg, rcp, tasks, lock, applied, dropped, overlapped, failures>>

TaskStep(t) ==
  \/ \E r \in Reports : Load(t, r)
  \/ Apply(t)
  \/ Mirror(t)
  \/ Commit(t)

Next ==
  \/ \E outcome \in {"committed", "rolledback"} : SenderEnds(outcome)
  \/ \E t \in Tasks : TaskStep(t) \/ TaskFails(t)
  \/ OptOut \/ OptIn

Spec == Init /\ [][Next]_vars

(* arq runs what is queued, and a coroutine that is not waiting goes on.   *)
FairSpec == Spec /\ \A t \in Tasks : WF_vars(TaskStep(t))
-------------------------------------------------------------------------------
(* While status jobs take turns, and until a terminal report, the message  *)
(* stands at the furthest status applied, whatever order they came in.     *)
FurthestWins ==
  /\ TypeOK
  /\ sender = "committed" /\ ~ overlapped /\ (\A r \in applied : ~ Terminal(r)) =>
       Rank(msg) = Max({Rank(r) : r \in applied \cup {"SENT"}})

(* Until a terminal report, and however the jobs overlap, the campaign's   *)
(* recipient, which its figures are counted from, shows a delivery when    *)
(* its message does and is never ahead of it.  It may fall behind: it      *)
(* takes the report that the message ignores.                              *)
RecipientTrails ==
  (\A r \in applied : ~ Terminal(r)) =>
    (rcp = "SENT" <=> msg = "SENT") /\ Rank(rcp) <= Rank(msg)

(* A permanent delivery failure that was applied leaves the contact in the *)
(* suppression list, even when it races with the contact's own words.  Two *)
(* things excuse its absence: an opt-in since the failure was recorded (or *)
(* was read by a job that left the contact alone), and an opted-out        *)
(* contact that such a job found off the list (ContactConsent's NoWindow). *)
BouncesSuppress == "FAILED" \in applied /\ HardFailure => suppressed \/ excused

(* No report waits for ever behind another job's row lock.                 *)
ReportsSettle == <>(Reports \subseteq applied \cup dropped)
===============================================================================
