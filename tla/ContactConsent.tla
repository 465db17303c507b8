----------------------------- MODULE ContactConsent -----------------------------
(***************************************************************************)
(* One contact: consent, suppression and the bot's pause switches, under   *)
(* concurrent jobs for the messages it sends, a hard bounce and an         *)
(* operator.                                                               *)
(*                                                                         *)
(*   app/services/conversation_service.py  handle_inbound, handle_status   *)
(*   app/services/consent_service.py       opt_out, opt_in, suppress       *)
(*   app/repositories/contacts.py          ContactRepository,              *)
(*                                         SuppressionRepository           *)
(*   app/api/admin.py                      pause, resume, suppressions     *)
(*                                                                         *)
(* A job loads the contact, and keeps that snapshot: waiting for the row   *)
(* lock in touch_inbound does not refresh it, and an attribute that is set *)
(* to the value it had in the snapshot is not written.  PostgreSQL at READ *)
(* COMMITTED.  A message is its kind: STOP, a stop keyword; START, a       *)
(* re-subscribe keyword or a text the language model takes for one; HUMAN, *)
(* a request for a person; CHAT, anything else (an opt-out only the model  *)
(* recognises included: it is confirmed, and changes nothing).             *)
(*                                                                         *)
(* An operator whose name has an underscore is a plausible wrong version   *)
(* of the definition that follows it.                                      *)
(***************************************************************************)
EXTENDS Integers, Sequences, FiniteSets

CONSTANTS
  Tasks,         \* jobs that run at the same time
  Kinds,         \* what may arrive
  MaxMessages,   \* bound: messages and bounces
  MaxFailures,   \* bound: jobs that raise
  MaxPauses      \* bound: pauses by an operator

Free == "free"

ASSUME ConsentAssumption ==
  /\ Kinds \subseteq {"STOP", "START", "HUMAN", "CHAT", "BOUNCE"}
  /\ IsFiniteSet(Tasks) /\ Free \notin Tasks
  /\ {MaxMessages, MaxFailures, MaxPauses} \subseteq Nat

VARIABLES
  status,        \* contacts.consent_status
  paused,        \* contacts.bot_paused
  suppressed,    \* the contact has a row in suppression_list
  records,       \* consent_records: the message and the status it gave
  botPaused,     \* bot_state.paused
  lock,          \* job holding the contact row, or Free
  said, inbox,   \* what arrived, in order; what no job has taken
  pc, msg,
  seen,          \* the contact as the job loaded it
  writes,        \* what the job has flushed and not committed
  late,          \* history: answers since the last pause, less the jobs it found
  overlapped,    \* history: two jobs of the contact have run side by side
  overtaken,     \* history: a message was taken before an older one
  pauses, failures

contact == <<status, paused, suppressed, records, botPaused>>
jobs    == <<pc, msg, seen, writes>>
bounds  == <<pauses, failures>>
order   == <<overlapped, overtaken>>
vars    == <<contact, lock, said, inbox, jobs, late, order, bounds>>

Status  == {"UNKNOWN", "OPTED_IN", "OPTED_OUT", "SUPPRESSED"}
Silent  == paused \/ botPaused
Busy    == {t \in Tasks : pc[t] # "idle"}
NoWrite == [status |-> "SAME", record |-> "NONE", entry |-> "KEEP", pause |-> FALSE]

TypeOK ==
  /\ status \in Status /\ paused \in BOOLEAN /\ suppressed \in BOOLEAN
  /\ botPaused \in BOOLEAN
  /\ records \subseteq (1..MaxMessages) \X {"OPTED_IN", "OPTED_OUT"}
  /\ lock \in Tasks \cup {Free}
  /\ said \in Seq(Kinds) /\ inbox \subseteq DOMAIN said
  /\ pc \in [Tasks -> {"idle", "loaded", "touched", "confirming", "analysing",
                       "answering", "flushing", "finishing"}]
  /\ msg \in [Tasks -> 0..MaxMessages]
  /\ seen \in [Tasks -> [status : Status, paused : BOOLEAN]]
  /\ writes \in [Tasks -> [status : Status \cup {"SAME"},
                           record : {"NONE", "OPTED_IN", "OPTED_OUT"},
                           entry : {"KEEP", "ADD", "DROP"}, pause : BOOLEAN]]
  /\ overlapped \in BOOLEAN /\ overtaken \in BOOLEAN
  /\ late \in Int /\ pauses \in Nat /\ failures \in Nat
  /\ \A t \in Tasks : pc[t] # "idle" <=> msg[t] \in DOMAIN said
  /\ lock # Free => pc[lock] # "idle"

Init ==
  /\ status \in {"UNKNOWN", "OPTED_IN"}
  /\ paused = FALSE /\ suppressed = FALSE /\ records = {} /\ botPaused = FALSE
  /\ lock = Free
  /\ said = <<>> /\ inbox = {}
  /\ pc = [t \in Tasks |-> "idle"]
  /\ msg = [t \in Tasks |-> 0]
  /\ seen = [t \in Tasks |-> [status |-> "UNKNOWN", paused |-> FALSE]]
  /\ writes = [t \in Tasks |-> NoWrite]
  /\ overlapped = FALSE /\ overtaken = FALSE
  /\ late = 0 /\ pauses = 0 /\ failures = 0
---------------------------------------------------------------------------------
Kind(t) == said[msg[t]]

(* The contact writes, or Meta reports a permanent delivery failure.       *)
Arrive(kind) ==
  /\ Len(said) < MaxMessages
  /\ said' = Append(said, kind)
  /\ inbox' = inbox \cup {Len(said) + 1}
  /\ UNCHANGED <<contact, lock, jobs, late, order, bounds>>

(* Jobs run side by side: any waiting one is taken, not the oldest.        *)
Load(t, i) ==
  /\ pc[t] = "idle"
  /\ i \in inbox
  /\ inbox' = inbox \ {i}
  /\ msg' = [msg EXCEPT ![t] = i]
  /\ seen' = [seen EXCEPT ![t] = [status |-> status, paused |-> paused]]
  /\ pc' = [pc EXCEPT ![t] = "loaded"]
  /\ overlapped' = (overlapped \/ \E u \in Tasks : pc[u] # "idle")
  /\ overtaken' = (overtaken \/ \E j \in inbox : j < i)
  /\ UNCHANGED <<contact, lock, said, writes, late, bounds>>

(* touch_inbound flushes, and so waits for the contact's row.              *)
Touch(t) ==
  /\ pc[t] = "loaded" /\ Kind(t) # "BOUNCE"
  /\ lock = Free
  /\ lock' = t
  /\ pc' = [pc EXCEPT ![t] = "touched"]
  /\ UNCHANGED <<contact, said, inbox, msg, seen, writes, late, order, bounds>>

Changed(t, s) == IF seen[t].status = s THEN "SAME" ELSE s

(* What opt_out and opt_in write; the suppression list is read as it is    *)
(* now, the contact as it was loaded.                                      *)
Consent_StatusOnly(t, s) ==
  [status |-> Changed(t, s), record |-> s, entry |-> "KEEP", pause |-> FALSE]
Consent(t, s) ==
  [status |-> Changed(t, s), record |-> s, pause |-> FALSE,
   entry |-> CASE s = "OPTED_OUT" /\ ~ suppressed -> "ADD"
               [] s = "OPTED_IN" /\ suppressed -> "DROP"
               [] OTHER -> "KEEP"]

(* A stop keyword comes before the pause switches and the model.           *)
OptOut(t) ==
  /\ pc[t] = "touched" /\ Kind(t) = "STOP"
  /\ writes' = [writes EXCEPT ![t] = Consent(t, "OPTED_OUT")]
  /\ pc' = [pc EXCEPT ![t] = "confirming"]
  /\ UNCHANGED <<contact, lock, said, inbox, msg, seen, late, order, bounds>>

(* The confirmation leaves (what is sent is not modelled).                 *)
Confirm(t) ==
  /\ pc[t] = "confirming"
  /\ pc' = [pc EXCEPT ![t] = "finishing"]
  /\ UNCHANGED <<contact, lock, said, inbox, msg, seen, writes, late, order, bounds>>

(* bot_state is read now, bot_paused is the snapshot's.                    *)
Silenced_GlobalOnly(t) == botPaused
Silenced(t) == botPaused \/ seen[t].paused

PauseSwitches(t) ==
  /\ pc[t] = "touched" /\ Kind(t) # "STOP"
  /\ pc' = [pc EXCEPT ![t] = IF Silenced(t) THEN "finishing" ELSE "analysing"]
  /\ UNCHANGED <<contact, lock, said, inbox, msg, seen, writes, late, order, bounds>>

(* The intent decides: a re-subscription opts the contact in, a request    *)
(* for a person pauses the bot.                                            *)
Analyse(t) ==
  /\ pc[t] = "analysing"
  /\ writes' = [writes EXCEPT ![t] =
       CASE Kind(t) = "START" -> Consent(t, "OPTED_IN")
         [] Kind(t) = "HUMAN" -> [NoWrite EXCEPT !.pause = TRUE]
         [] OTHER -> NoWrite]
  /\ pc' = [pc EXCEPT ![t] = "answering"]
  /\ UNCHANGED <<contact, lock, said, inbox, msg, seen, late, order, bounds>>

(* compose chooses a text for every intent, and the reply leaves.          *)
Answer(t) ==
  /\ pc[t] = "answering"
  /\ late' = IF Silent THEN late + 1 ELSE late
  /\ pc' = [pc EXCEPT ![t] = "finishing"]
  /\ UNCHANGED <<contact, lock, said, inbox, msg, seen, writes, order, bounds>>

(* The send raised and was caught, or the service window has closed.       *)
NoAnswer(t) ==
  /\ pc[t] = "answering"
  /\ pc' = [pc EXCEPT ![t] = "finishing"]
  /\ UNCHANGED <<contact, lock, said, inbox, msg, seen, writes, late, order, bounds>>

HasOptedOut_Never(t) == FALSE
HasOptedOut(t) == seen[t].status = "OPTED_OUT"

(* handle_status on a hard bounce: consent from the snapshot, the list as  *)
(* it is now, and nothing flushed yet.                                     *)
BounceReads(t) ==
  /\ pc[t] = "loaded" /\ Kind(t) = "BOUNCE"
  /\ writes' = [writes EXCEPT ![t] =
       IF HasOptedOut(t) THEN NoWrite
       ELSE [NoWrite EXCEPT !.status = Changed(t, "SUPPRESSED"),
                            !.entry = IF suppressed THEN "KEEP" ELSE "ADD"]]
  /\ pc' = [pc EXCEPT ![t] = "flushing"]
  /\ UNCHANGED <<contact, lock, said, inbox, msg, seen, late, order, bounds>>

Released(t) == IF lock = t THEN Free ELSE lock

End(t) ==
  /\ pc' = [pc EXCEPT ![t] = "idle"]
  /\ msg' = [msg EXCEPT ![t] = 0]
  /\ writes' = [writes EXCEPT ![t] = NoWrite]
  /\ lock' = Released(t)
  /\ UNCHANGED <<said, inbox, seen, order>>

Rollback(t) == End(t) /\ UNCHANGED <<contact, late, pauses>>

(* Now the rows: an entry inserted meanwhile by someone else is a          *)
(* violation of the unique constraint.                                     *)
BounceFlushes(t) ==
  /\ pc[t] = "flushing"
  /\ writes[t].status # "SAME" => lock = Free
  /\ IF writes[t].entry = "ADD" /\ suppressed
     THEN Rollback(t) /\ UNCHANGED failures
     ELSE /\ lock' = IF writes[t].status # "SAME" THEN t ELSE lock
          /\ pc' = [pc EXCEPT ![t] = "finishing"]
          /\ UNCHANGED <<contact, said, inbox, msg, seen, writes, late, order, bounds>>

(* The status a commit leaves: only an attribute that was set is written.  *)
StatusAfter_WholeRow(t) ==
  IF writes[t].status = "SAME" THEN seen[t].status ELSE writes[t].status
StatusAfter(t) == IF writes[t].status = "SAME" THEN status ELSE writes[t].status

Commit(t) ==
  LET w == writes[t]
  IN /\ pc[t] = "finishing"
     /\ status' = StatusAfter(t)
     /\ suppressed' = (w.entry = "ADD" \/ (suppressed /\ w.entry # "DROP"))
     /\ records' = records \cup {<<msg[t], s>> : s \in {w.record} \ {"NONE"}}
     /\ paused' = (paused \/ w.pause)
     /\ late' = IF w.pause THEN - Cardinality(Busy \ {t}) ELSE late
     /\ End(t)
     /\ UNCHANGED <<botPaused, bounds>>

(* The opt-out confirmation is sent outside any try.                       *)
ConfirmRaises(t) == pc[t] = "confirming" /\ Rollback(t) /\ UNCHANGED failures

JobFails(t) ==
  /\ pc[t] # "idle"
  /\ failures < MaxFailures
  /\ failures' = failures + 1
  /\ Rollback(t)
---------------------------------------------------------------------------------
(***************************************************************************)
(* The operator.                                                           *)
(***************************************************************************)
Pausing ==
  /\ pauses < MaxPauses
  /\ pauses' = pauses + 1
  /\ late' = - Cardinality(Busy)
  /\ UNCHANGED <<status, suppressed, records, lock, said, inbox, jobs, order, failures>>

PauseContact == lock = Free /\ ~ paused /\ paused' = TRUE /\ Pausing /\ UNCHANGED botPaused
PauseBot     == ~ botPaused /\ botPaused' = TRUE /\ Pausing /\ UNCHANGED paused

Resuming ==
  UNCHANGED <<status, suppressed, records, lock, said, inbox, jobs, late, order, bounds>>

ResumeContact == lock = Free /\ paused /\ paused' = FALSE /\ Resuming /\ UNCHANGED botPaused
ResumeBot     == botPaused /\ botPaused' = FALSE /\ Resuming /\ UNCHANGED paused

(* POST /admin/suppressions adds the entry and leaves the contact alone;   *)
(* an insert of the same entry by an open job makes it wait.               *)
AdminSuppress ==
  /\ ~ suppressed
  /\ \A t \in Tasks : pc[t] # "flushing" => writes[t].entry # "ADD"
  /\ suppressed' = TRUE
  /\ UNCHANGED <<status, paused, records, botPaused, lock, said, inbox, jobs,
                 late, order, bounds>>

JobStep(t) ==
  \/ Touch(t) \/ OptOut(t) \/ Confirm(t) \/ ConfirmRaises(t) \/ PauseSwitches(t)
  \/ Analyse(t) \/ Answer(t) \/ NoAnswer(t) \/ BounceReads(t) \/ BounceFlushes(t)
  \/ Commit(t)

Next ==
  \/ \E kind \in Kinds : Arrive(kind)
  \/ \E t \in Tasks, i \in 1..MaxMessages : Load(t, i)
  \/ \E t \in Tasks : JobStep(t) \/ JobFails(t)
  \/ PauseContact \/ PauseBot \/ ResumeContact \/ ResumeBot \/ AdminSuppress

Spec == Init /\ [][Next]_vars
---------------------------------------------------------------------------------
Opted(s)  == \E r \in records : r[2] = s
OptedOut  == status \in {"OPTED_OUT", "SUPPRESSED"}
Newest(r) == \A q \in records : q[1] <= r[1]

(* consent_service.py: there is no window in which someone is opted out    *)
(* but still sendable.  This needs one job at a time.                      *)
NoWindowInTurn == ~ overlapped /\ OptedOut => suppressed

(* Processed one at a time and in order, the contact's last word stands:   *)
(* the newest consent record, which is what the eligibility gate reads,    *)
(* agrees with the contact and with the suppression list.                  *)
LastWordStands ==
  /\ NoWindowInTurn
  /\ ~ overlapped /\ ~ overtaken =>
    \A r \in records : Newest(r) =>
      IF r[2] = "OPTED_OUT" THEN OptedOut /\ suppressed
                            ELSE status \in {"OPTED_IN", "SUPPRESSED"}

(* Once a STOP has committed, no job with an older snapshot of the contact *)
(* makes it sendable again, whatever overlaps: that takes an opt-in.       *)
StopHolds ==
  Opted("OPTED_OUT") /\ ~ Opted("OPTED_IN") => suppressed /\ OptedOut

(* After a pause, by whomever, no message is answered but those that were  *)
(* already being processed then, and each of these once.                   *)
FewLateReplies == TypeOK /\ late <= 0

(* Snapshots, locks and rollbacks aside, the jobs enter the contact's      *)
(* words in a register: whatever overlaps, each committed STOP leaves the  *)
(* contact on the list, nothing but an opt-in takes it off, and a message  *)
(* is entered once; a status is only left as it was where jobs overlapped. *)
Register == INSTANCE ConsentRegister WITH
  Messages <- 1..MaxMessages, listed <- suppressed, given <- records,
  mixed <- overlapped, disordered <- overtaken
ImplementsConsentRegister == Register!RegisterSpec

(***************************************************************************)
(* What the docstring of consent_service.py says and concurrent jobs do    *)
(* not keep.                                                               *)
(***************************************************************************)

(* There is no window in which someone is opted out but still sendable.    *)
NoWindow == OptedOut => suppressed
=================================================================================
