------------------------------ MODULE EventOnce ------------------------------
(***************************************************************************)
(* What the idempotency ledger promises about one business's webhook       *)
(* events, with no handlers, workers, queues or crashes: an event key is   *)
(* claimed at most once, and the database effects of an event (the inbound *)
(* message row, the contact and consent changes, the processed flag) are   *)
(* committed at most once, and only for an event that was claimed.         *)
(* InboundLedger is shown to implement this specification.                 *)
(***************************************************************************)
EXTENDS Naturals

CONSTANT Messages        \* the inbound message events

VARIABLES
  claimed,               \* events with a row in webhook_events
  effects                \* how many times each event's effects were committed

abstractVars == <<claimed, effects>>

AbstractInit ==
  /\ claimed = {}
  /\ effects = [e \in Messages |-> 0]

ClaimOnce(e) ==
  /\ e \notin claimed
  /\ claimed' = claimed \cup {e}
  /\ UNCHANGED effects

ApplyOnce(e) ==
  /\ e \in claimed
  /\ effects[e] = 0
  /\ effects' = [effects EXCEPT ![e] = 1]
  /\ UNCHANGED claimed

AbstractNext == \E e \in Messages : ClaimOnce(e) \/ ApplyOnce(e)

AbstractSpec == AbstractInit /\ [][AbstractNext]_abstractVars
==============================================================================
