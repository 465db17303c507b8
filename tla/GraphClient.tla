------------------------------ MODULE GraphClient ------------------------------
(***************************************************************************)
(* The WhatsApp client of one process: calls that run side by side, each   *)
(* with its retry loop, and the circuit breaker they share.                *)
(*                                                                         *)
(*   app/integrations/whatsapp_client.py   WhatsAppClient, CircuitBreaker  *)
(*                                                                         *)
(* A call is any use of _request: a text, a template, mark_as_read, the    *)
(* health check.  Time is what is left of the reset window and of each     *)
(* back-off, in seconds, so no clock has to be bounded.  Meta accepts a    *)
(* message or does not; it may accept one and the answer be lost.          *)
(*                                                                         *)
(* An operator whose name has an underscore is a plausible wrong version   *)
(* of the definition that follows it.                                      *)
(***************************************************************************)
EXTENDS Naturals, FiniteSets, FiniteSetsExt

CONSTANTS
  Calls,           \* calls that run at the same time
  FailThreshold,   \* meta_circuit_fail_threshold
  ResetSeconds,    \* meta_circuit_reset_seconds
  MaxRetries,      \* meta_max_retries
  MaxBackoff,      \* cap of the back-off (30 s)
  MaxRetryAfter    \* cap of a Retry-After header (60 s)

ASSUME GraphClientAssumption ==
  /\ IsFiniteSet(Calls)
  /\ FailThreshold \in Nat \ {0} /\ ResetSeconds \in Nat \ {0}
  /\ {MaxRetries, MaxBackoff, MaxRetryAfter} \subseteq Nat

VARIABLES
  failures,   \* breaker: failures since the last success, up to FailThreshold
  opened,     \* breaker: opened_at is set
  cooling,    \* seconds until opened_at is ResetSeconds old
  pc,         \* idle; sent: on the network; backoff: asleep between attempts
  attempt,
  delay,      \* seconds of the back-off left
  accepted,   \* copies of the call Meta has accepted
  lost,       \* of those, the ones whose answer did not arrive
  answer,     \* what the last call ended with
  faults,     \* history: faults of Meta since its last other answer
  hammered    \* history: attempts begun since the circuit is open

breaker == <<failures, opened, cooling>>
calls   == <<pc, attempt, delay, accepted, lost, answer>>
vars    == <<breaker, calls, faults, hammered>>

Answers == {"none", "sent", "raised", "refused"}

TypeOK ==
  /\ failures \in 0..FailThreshold /\ opened \in BOOLEAN
  /\ cooling \in 0..ResetSeconds
  /\ pc \in [Calls -> {"idle", "sent", "backoff"}]
  /\ attempt \in [Calls -> 0..MaxRetries]
  /\ delay \in [Calls -> Nat]
  /\ accepted \in [Calls -> Nat] /\ lost \in [Calls -> Nat]
  /\ answer \in [Calls -> Answers]
  /\ faults \in 0..FailThreshold /\ hammered \in Nat
  /\ \A c \in Calls :
       /\ pc[c] # "backoff" => delay[c] = 0
       /\ pc[c] = "idle" => attempt[c] = 0
       /\ pc[c] # "idle" => answer[c] = "none"

Init ==
  /\ failures = 0 /\ opened = FALSE /\ cooling = 0
  /\ pc = [c \in Calls |-> "idle"]
  /\ attempt = [c \in Calls |-> 0]
  /\ delay = [c \in Calls |-> 0]
  /\ accepted = [c \in Calls |-> 0] /\ lost = [c \in Calls |-> 0]
  /\ answer = [c \in Calls |-> "none"]
  /\ faults = 0 /\ hammered = 0
--------------------------------------------------------------------------------
(***************************************************************************)
(* The breaker.                                                            *)
(***************************************************************************)
IsOpen   == opened /\ cooling > 0
HalfOpen == opened /\ cooling = 0

RecordSuccess == failures' = 0 /\ opened' = FALSE /\ cooling' = 0

RecordFailure_Once ==
  /\ failures' = IF failures < FailThreshold THEN failures + 1 ELSE failures
  /\ opened' = (opened \/ failures' = FailThreshold)
  /\ cooling' = IF opened' /\ ~ opened THEN ResetSeconds ELSE cooling
RecordFailure ==
  /\ failures' = IF failures < FailThreshold THEN failures + 1 ELSE failures
  /\ IF failures' = FailThreshold THEN opened' = TRUE /\ cooling' = ResetSeconds
                                  ELSE UNCHANGED <<opened, cooling>>
--------------------------------------------------------------------------------
(***************************************************************************)
(* What Meta may answer, and what _map_error makes of it: the error code   *)
(* decides first, then the HTTP status.                                    *)
(***************************************************************************)
Errors == [status : {400, 429, 500}, code : {"permanent", "retryable", "other"}]

Retryable_ByStatus(e) == e.code = "retryable" \/ e.status \in {429, 500}
Retryable(e) ==
  e.code # "permanent" /\ (e.code = "retryable" \/ e.status \in {429, 500})

(* A back-off with full jitter, or what Retry-After asks for, both capped. *)
Backoffs(n) == (0..Min({2^n, MaxBackoff})) \cup (0..MaxRetryAfter)
--------------------------------------------------------------------------------
(***************************************************************************)
(* _request.                                                               *)
(***************************************************************************)
Ends(c, a) ==
  /\ pc' = [pc EXCEPT ![c] = "idle"]
  /\ answer' = [answer EXCEPT ![c] = a]
  /\ attempt' = [attempt EXCEPT ![c] = 0]
  /\ UNCHANGED delay

MayCall_Unchecked == TRUE
MayCall == ~ IsOpen

Call(c) ==
  /\ pc[c] = "idle" /\ MayCall
  /\ pc' = [pc EXCEPT ![c] = "sent"]
  /\ answer' = [answer EXCEPT ![c] = "none"]
  /\ accepted' = [accepted EXCEPT ![c] = 0]
  /\ lost' = [lost EXCEPT ![c] = 0]
  /\ hammered' = IF IsOpen THEN hammered + 1 ELSE 0
  /\ UNCHANGED <<breaker, attempt, delay, faults>>

(* The circuit is open: CircuitOpenError, and nothing is sent.             *)
Refuse(c) ==
  /\ pc[c] = "idle" /\ ~ MayCall
  /\ accepted' = [accepted EXCEPT ![c] = 0]
  /\ lost' = [lost EXCEPT ![c] = 0]
  /\ answer' = [answer EXCEPT ![c] = "refused"]
  /\ UNCHANGED <<breaker, pc, attempt, delay, faults, hammered>>

MayRetry_OneMore(c) == attempt[c] <= MaxRetries
MayRetry(c) == attempt[c] < MaxRetries

(* A failed attempt: sleep and try again, or raise the last error.         *)
RetryOrRaise(c) ==
  \/ /\ MayRetry(c)
     /\ pc' = [pc EXCEPT ![c] = "backoff"]
     /\ \E d \in Backoffs(attempt[c]) : delay' = [delay EXCEPT ![c] = d]
     /\ UNCHANGED <<attempt, answer>>
  \/ ~ MayRetry(c) /\ Ends(c, "raised")

Fault    == faults' = IF faults < FailThreshold THEN faults + 1 ELSE faults
NotFault == faults' = 0

(* Meta accepted the message and said so (whether or not with an id).      *)
Succeeds(c) ==
  /\ pc[c] = "sent"
  /\ accepted' = [accepted EXCEPT ![c] = @ + 1]
  /\ RecordSuccess /\ NotFault
  /\ Ends(c, "sent")
  /\ UNCHANGED <<lost, hammered>>

(* A timeout or transport error; Meta may have accepted the message.       *)
NetworkError(c, reached) ==
  /\ pc[c] = "sent"
  /\ accepted' = [accepted EXCEPT ![c] = @ + reached]
  /\ lost' = [lost EXCEPT ![c] = @ + reached]
  /\ RecordFailure /\ Fault
  /\ RetryOrRaise(c)
  /\ UNCHANGED hammered

ErrorAnswer(c, e) ==
  /\ pc[c] = "sent"
  /\ IF Retryable(e) THEN RecordFailure /\ RetryOrRaise(c)
                     ELSE RecordSuccess /\ Ends(c, "raised")
  /\ IF e.code = "retryable" \/ (e.code = "other" /\ e.status # 400) THEN Fault ELSE NotFault
  /\ UNCHANGED <<accepted, lost, hammered>>

(* The next attempt does not look at the breaker.                          *)
Ready(c) == delay[c] = 0

WakeUp(c) ==
  /\ pc[c] = "backoff" /\ Ready(c)
  /\ pc' = [pc EXCEPT ![c] = "sent"]
  /\ attempt' = [attempt EXCEPT ![c] = @ + 1]
  /\ hammered' = IF IsOpen THEN hammered + 1 ELSE 0
  /\ UNCHANGED <<breaker, delay, accepted, lost, answer, faults>>

(* A second passes; a sleeper may wake late.                               *)
Tick ==
  /\ cooling' = IF cooling > 0 THEN cooling - 1 ELSE 0
  /\ delay' = [c \in Calls |-> IF delay[c] > 0 THEN delay[c] - 1 ELSE 0]
  /\ UNCHANGED <<failures, opened, pc, attempt, accepted, lost, answer, faults, hammered>>

Answered(c) ==
  \/ Succeeds(c) \/ (\E reached \in {0, 1} : NetworkError(c, reached))
  \/ \E e \in Errors : ErrorAnswer(c, e)

Next ==
  \/ \E c \in Calls : Call(c) \/ Refuse(c) \/ Answered(c) \/ WakeUp(c)
  \/ Tick

Spec == Init /\ [][Next]_vars
--------------------------------------------------------------------------------
(* What a caller may conclude.  A message leaves once, plus once for every *)
(* answer that was lost; an error does not mean it was not delivered, a    *)
(* success and an open circuit say what happened.                          *)
CopiesAccounted ==
  /\ TypeOK
  /\ \A c \in Calls :
       /\ accepted[c] = lost[c] + (IF answer[c] = "sent" THEN 1 ELSE 0)
       /\ accepted[c] <= MaxRetries + 1
       /\ answer[c] = "refused" => accepted[c] = 0

(* "A permanent error is not an infrastructure fault; it must not push the *)
(* breaker toward open": the breaker has opened just when FailThreshold    *)
(* faults, of whatever calls, came with no other answer between them.      *)
OpensOnFaults == opened <=> faults = FailThreshold

(* The circuit stops new calls, not those it caught in their retry loop:   *)
(* while it stays open, each of these begins at most its MaxRetries.       *)
HammeringBounded == hammered <= Cardinality(Calls) * MaxRetries

(* One failed trial of the half-open circuit opens it again for the whole  *)
(* window, however many trials it let through.                             *)
FailedTrialReopens ==
  [][\A c \in Calls : HalfOpen /\ pc[c] = "sent" /\ pc'[c] # "sent" /\ faults' # 0
       => opened' /\ cooling' = ResetSeconds]_vars
================================================================================
