---------------------------- MODULE EscalationProofs ----------------------------
(***************************************************************************)
(* Proofs about Escalation, for any jobs and requests at a time, and any   *)
(* number of messages, requests, expiries and failures.                    *)
(***************************************************************************)
EXTENDS Escalation, FiniteSetTheorems, WellFoundedInduction, TLAPS

(* A job takes at most one conversation id and one ticket id for its       *)
(* message, so ids do not run out.                                         *)
Unopened   == {t \in Tasks : pc[t] \in {"loaded", "found"}}
Unticketed == {t \in Tasks : pc[t] \in {"loaded", "found", "touching", "touched"}}

IdsLeft ==
  /\ messages \in 0..MaxMessages
  /\ nextConv + Cardinality(Unopened) <= messages + 1
  /\ nextTicket + Cardinality(Unticketed) <= messages + 1

(* What an actor at work has in hand.                                      *)
InHand ==
  /\ \A t \in Tasks : pc[t] \in {"touching", "touched", "finishing"} => mine[t] \in ConvIds
  /\ \A o \in Operators :
       /\ pc[o] # "idle" => about[o] \in TicketIds /\ ticket[about[o]].status # "NONE"
       /\ pc[o] # "found"
       /\ pc[o] \in {"touching", "touched"} => kind[o] = "resolve"
       /\ pc[o] \in {"touching", "touched", "finishing"} /\ kind[o] = "resolve" =>
            mine[o] \in ConvIds

(* A ticket that exists has a conversation.                                *)
TicketsFiled ==
  \A k \in TicketIds : IF ticket[k].status = "NONE" THEN ticket[k] = NoTicket
                                                    ELSE ticket[k].conv \in ConvIds

(* Who holds a row has come to where it is locked; a job that has come to  *)
(* the contact's holds it.                                                 *)
LocksHeld ==
  /\ \A a \in Actors : contactLock = a => pc[a] \in {"touched", "finishing"}
  /\ \A t \in Tasks : pc[t] \in {"touched", "finishing"} => contactLock = t
  /\ \A t \in Tasks, c \in ConvIds :
       convLock[c] = t => pc[t] \in {"touching", "touched", "finishing"}
  /\ \A o \in Operators, c \in ConvIds : convLock[c] = o => pc[o] = "finishing"
  /\ \A o \in Operators, k \in TicketIds :
       ticketLock[k] = o => pc[o] \in {"touching", "touched", "finishing"}

WorkInv == TypeOK /\ IdsLeft /\ InHand /\ TicketsFiled /\ LocksHeld
---------------------------------------------------------------------------------
(* A set of naturals that is not empty and has a bound has a greatest.     *)
LEMMA GreatestBelow ==
  ASSUME NEW n \in Nat, NEW T \in SUBSET (1..n), T # {}
  PROVE  Max(T) \in T
<1> DEFINE D == {n - x : x \in T}
<1>1. \A x \in T : x \in Nat /\ n - x \in Nat
  OBVIOUS
<1>2. D \in SUBSET Nat /\ D # {}
  BY <1>1
<1>3. PICK m \in D : \A d \in D : ~ (<<d, m>> \in OpToRel(<, Nat))
  <2> HIDE DEF D
  <2> QED
    BY <1>2, NatLessThanWellFounded, WFMin
<1>4. \A d \in D : ~ (d < m)
  BY <1>2, <1>3 DEF OpToRel
<1>5. PICK x \in T : m = n - x
  BY <1>3
<1>6. \A y \in T : x >= y
  <2> SUFFICES ASSUME NEW y \in T
               PROVE  x >= y
    OBVIOUS
  <2>1. ~ (n - y < n - x)
    BY <1>4, <1>5
  <2> HIDE DEF D
  <2> QED
    BY <2>1, <1>1
<1> QED
  BY <1>6 DEF Max

(* The conversation a job finds is live.                                   *)
LEMMA NewestIsLive ==
  ASSUME Live # {}
  PROVE  Max(Live) \in Live
  BY EscalationAssumption, GreatestBelow DEF Live, ConvIds

(* The ticket reused is one of those that may be.                          *)
LEMMA NewestIsReusable ==
  ASSUME NEW t, Reusable(t) # {}
  PROVE  Max(Reusable(t)) \in Reusable(t) /\ Max(Reusable(t)) \in TicketIds
<1>1. Reusable(t) \subseteq 1..MaxMessages
  BY DEF Reusable, Unresolved, TicketIds
<1> QED
  BY <1>1, EscalationAssumption, GreatestBelow DEF TicketIds

(* The cardinalities the bounds are about are numbers, and grow by one     *)
(* when a job begins.                                                      *)
LEMMA CountsAreNaturals ==
  /\ IsFiniteSet(Unopened) /\ IsFiniteSet(Unticketed)
  /\ Cardinality(Unopened) \in Nat /\ Cardinality(Unticketed) \in Nat
<1>1. IsFiniteSet(Unopened) /\ IsFiniteSet(Unticketed)
  BY EscalationAssumption, FS_Subset DEF Unopened, Unticketed
<1> QED
  BY <1>1, FS_CardinalityType

(* The same of the state after a step.                                     *)
LEMMA CountsAreNaturalsNext ==
  /\ IsFiniteSet(Unopened') /\ IsFiniteSet(Unticketed')
  /\ Cardinality(Unopened') \in Nat /\ Cardinality(Unticketed') \in Nat
<1>1. IsFiniteSet(Unopened') /\ IsFiniteSet(Unticketed')
  BY EscalationAssumption, FS_Subset DEF Unopened, Unticketed
<1> QED
  BY <1>1, FS_CardinalityType

(* A step by which no job gets further from its ids keeps room for them.   *)
LEMMA SmallerCount ==
  ASSUME NEW S, IsFiniteSet(S), NEW T \in SUBSET S
  PROVE  Cardinality(T) \in Nat /\ Cardinality(S) \in Nat /\ Cardinality(T) <= Cardinality(S)
  BY FS_Subset, FS_CardinalityType

(* A step that takes no id leaves the others their room.                   *)
LEMMA RoomIsKept ==
  ASSUME IdsLeft, UNCHANGED <<messages, nextConv, nextTicket>>,
         nextConv \in Nat, nextTicket \in Nat,
         Unopened' \subseteq Unopened, Unticketed' \subseteq Unticketed
  PROVE  IdsLeft'
<1>1. /\ Cardinality(Unopened') <= Cardinality(Unopened)
      /\ Cardinality(Unticketed') <= Cardinality(Unticketed)
  BY CountsAreNaturals, SmallerCount
<1> QED
  BY <1>1, CountsAreNaturals, CountsAreNaturalsNext, EscalationAssumption DEF IdsLeft
---------------------------------------------------------------------------------
(* The end of a transaction: what it wrote are rows, and it removed no     *)
(* ticket.                                                                 *)
RowsWritten ==
  /\ conv' \in [ConvIds -> ConvState] /\ due' \subseteq ConvIds
  /\ ticket' \in [TicketIds -> [conv : {0} \cup ConvIds,
                    status : {"NONE", "OPEN", "ACKNOWLEDGED", "RESOLVED"}]]
  /\ pausedFor' \in 0..ByHand
  /\ TicketsFiled'
  /\ \A k \in TicketIds : ticket[k].status # "NONE" => ticket'[k].status # "NONE"

(* The end of an actor's transaction keeps the invariant.                  *)
LEMMA EndKeeps ==
  ASSUME WorkInv, NEW a \in Actors, End(a), RowsWritten, UNCHANGED messages
  PROVE  WorkInv'
<1> USE EscalationAssumption DEF Actors
<1>1. /\ pc' = [pc EXCEPT ![a] = "idle"] /\ kind' = [kind EXCEPT ![a] = "none"]
      /\ mine' = [mine EXCEPT ![a] = 0] /\ about' = [about EXCEPT ![a] = 0]
      /\ seen' = [seen EXCEPT ![a] = Nothing] /\ expires' = [expires EXCEPT ![a] = 0]
      /\ contactLock' = IF contactLock = a THEN Free ELSE contactLock
      /\ convLock' = [c \in ConvIds |-> IF convLock[c] = a THEN Free ELSE convLock[c]]
      /\ ticketLock' = [k \in TicketIds |-> IF ticketLock[k] = a THEN Free ELSE ticketLock[k]]
      /\ UNCHANGED <<nextConv, nextTicket>>
  BY DEF End, Released, Goto
<1>2. TypeOK'
  <2>1. \A b \in Actors : Idle(b)' =>
          /\ contactLock' # b
          /\ \A c \in ConvIds : convLock'[c] # b
          /\ \A k \in TicketIds : ticketLock'[k] # b
    BY <1>1 DEF WorkInv, TypeOK, Idle
  <2>2. seen' \in [Actors -> [paused : BOOLEAN, state : ConvState, due : BOOLEAN,
                 status : {"NONE", "OPEN", "ACKNOWLEDGED", "RESOLVED"}]]
    BY <1>1 DEF WorkInv, TypeOK, Nothing, ConvState
  <2>3. /\ contactLock' \in Actors \cup {Free} /\ convLock' \in [ConvIds -> Actors \cup {Free}]
        /\ ticketLock' \in [TicketIds -> Operators \cup {Free}]
    BY <1>1 DEF WorkInv, TypeOK
  <2> QED
    BY <1>1, <2>1, <2>2, <2>3 DEF WorkInv, TypeOK, RowsWritten
<1>3. IdsLeft'
  <2>1. Unopened' \subseteq Unopened /\ Unticketed' \subseteq Unticketed
    BY <1>1 DEF WorkInv, TypeOK, Unopened, Unticketed
  <2> QED
    BY <1>1, <2>1, RoomIsKept DEF WorkInv, TypeOK
<1>4. InHand'
  BY <1>1 DEF WorkInv, TypeOK, InHand, RowsWritten
<1>5. LocksHeld'
  BY <1>1 DEF WorkInv, TypeOK, LocksHeld
<1> QED
  BY <1>2, <1>3, <1>4, <1>5 DEF WorkInv, RowsWritten

(* So does giving it up.                                                   *)
LEMMA RollbackKeeps ==
  ASSUME WorkInv, NEW a \in Actors, Rollback(a), UNCHANGED messages
  PROVE  WorkInv'
<1>1. RowsWritten
  BY DEF Rollback, RowsWritten, rows, WorkInv, TypeOK, TicketsFiled
<1> QED
  BY <1>1, EndKeeps DEF Rollback

(* A job about to file finds an id.                                        *)
LEMMA RoomForOne ==
  ASSUME WorkInv, NEW t \in Tasks, pc[t] = "touched"
  PROVE  nextTicket \in TicketIds
<1>1. t \in Unticketed
  BY DEF Unticketed
<1>2. Cardinality(Unticketed) >= 1
  <2>1. /\ IsFiniteSet(Unticketed \ {t})
        /\ Cardinality(Unticketed \ {t}) = Cardinality(Unticketed) - 1
    BY <1>1, CountsAreNaturals, FS_RemoveElement
  <2>2. Cardinality(Unticketed \ {t}) \in Nat
    BY <2>1, FS_CardinalityType
  <2> QED
    BY <2>1, <2>2, CountsAreNaturals
<1> QED
  BY <1>2, CountsAreNaturals, EscalationAssumption DEF WorkInv, TypeOK, IdsLeft, TicketIds

(* Refreshing a part of a snapshot leaves it one.                          *)
Snapshot == [paused : BOOLEAN, state : ConvState, due : BOOLEAN,
             status : {"NONE", "OPEN", "ACKNOWLEDGED", "RESOLVED"}]

(* A snapshot's pause is read again.                                       *)
LEMMA PausedSeen ==
  ASSUME NEW f \in [Actors -> Snapshot], NEW a \in Actors, NEW p \in BOOLEAN
  PROVE  /\ [f EXCEPT ![a].paused = p] \in [Actors -> Snapshot]
         /\ \A b \in Actors \ {a} : [f EXCEPT ![a].paused = p][b] = f[b]
  BY DEF Snapshot

(* A snapshot's conversation state is read again.                          *)
LEMMA StateSeen ==
  ASSUME NEW f \in [Actors -> Snapshot], NEW a \in Actors, NEW s \in ConvState
  PROVE  [f EXCEPT ![a].state = s] \in [Actors -> Snapshot]
  BY DEF Snapshot

(* Both are.                                                               *)
LEMMA StatePausedSeen ==
  ASSUME NEW f \in [Actors -> Snapshot], NEW a \in Actors, NEW s \in ConvState,
         NEW p \in BOOLEAN
  PROVE  [f EXCEPT ![a].state = s, ![a].paused = p] \in [Actors -> Snapshot]
  BY DEF Snapshot

(* Types, ids, tickets and locks are as they should in every state.        *)
LEMMA WorkInvariant == Spec => []WorkInv
<1> USE EscalationAssumption DEF Actors
<1>1. Init => WorkInv
  <2> SUFFICES ASSUME Init
               PROVE  WorkInv
    OBVIOUS
  <2>1. TypeOK
    BY DEF Init, TypeOK, ConvState, ConvIds, TicketIds, ByHand, NoTicket, Nothing, Idle
  <2>2. IdsLeft
    <3>1. Unopened = {} /\ Unticketed = {}
      BY DEF Init, Unopened, Unticketed
    <3> QED
      BY <3>1, FS_EmptySet DEF Init, IdsLeft
  <2>3. InHand /\ TicketsFiled /\ LocksHeld
    BY DEF Init, InHand, TicketsFiled, LocksHeld, NoTicket
  <2> QED
    BY <2>1, <2>2, <2>3 DEF WorkInv
<1>2. WorkInv /\ [Next]_vars => WorkInv'
  <2> SUFFICES ASSUME WorkInv, [Next]_vars
               PROVE  WorkInv'
    OBVIOUS
  <2>1. ASSUME NEW t \in Tasks, NEW k \in Kinds, Take(t, k)
        PROVE  WorkInv'
    <3>1. /\ pc[t] = "idle" /\ pc' = [pc EXCEPT ![t] = "loaded"]
          /\ kind' = [kind EXCEPT ![t] = k]
          /\ seen' = [seen EXCEPT ![t].paused = Paused]
          /\ messages < MaxMessages /\ messages' = messages + 1
          /\ UNCHANGED <<rows, nextConv, nextTicket, locks, mine, about, expires>>
      BY <2>1 DEF Take, Begin, Idle, Goto
    <3>2. TypeOK'
      <4>1. Paused \in BOOLEAN /\ seen \in [Actors -> Snapshot]
        BY DEF Paused, WorkInv, TypeOK, Snapshot
      <4>2. seen' \in [Actors -> Snapshot]
        BY <3>1, <4>1, PausedSeen
      <4> QED
        BY <3>1, <4>2 DEF WorkInv, TypeOK, Snapshot, rows, locks, Idle
    <3>3. IdsLeft'
      <4>1. Unopened' = Unopened \cup {t} /\ Unticketed' = Unticketed \cup {t}
        BY <3>1 DEF WorkInv, TypeOK, Unopened, Unticketed
      <4>2. t \notin Unopened /\ t \notin Unticketed
        BY <3>1 DEF Unopened, Unticketed
      <4>3. /\ Cardinality(Unopened') = Cardinality(Unopened) + 1
            /\ Cardinality(Unticketed') = Cardinality(Unticketed) + 1
        BY <4>1, <4>2, CountsAreNaturals, FS_AddElement
      <4> QED
        BY <3>1, <4>3, CountsAreNaturals DEF WorkInv, TypeOK, IdsLeft
    <3>4. InHand' /\ TicketsFiled' /\ LocksHeld'
      BY <3>1 DEF WorkInv, TypeOK, InHand, TicketsFiled, LocksHeld, rows, locks
    <3> QED
      BY <3>2, <3>3, <3>4 DEF WorkInv
  <2>2. ASSUME NEW t \in Tasks, GetActive(t)
        PROVE  WorkInv'
    <3>1. /\ pc[t] = "loaded" /\ pc' = [pc EXCEPT ![t] = "found"]
          /\ mine' \in [Actors -> {0} \cup ConvIds]
          /\ \A a \in Actors \ {t} : mine'[a] = mine[a]
          /\ seen' \in [Actors -> [paused : BOOLEAN, state : ConvState, due : BOOLEAN,
                 status : {"NONE", "OPEN", "ACKNOWLEDGED", "RESOLVED"}]]
          /\ UNCHANGED <<rows, nextConv, nextTicket, locks, kind, about, expires, messages>>
      <4>1. CASE Live = {}
        BY <2>2, <4>1 DEF GetActive, Goto, WorkInv, TypeOK, bounds
      <4>2. CASE Live # {}
        <5>1. Max(Live) \in ConvIds
          BY <4>2, NewestIsLive DEF Live
        <5> QED
          BY <2>2, <4>2, <5>1 DEF GetActive, Goto, WorkInv, TypeOK, bounds
      <4> QED
        BY <4>1, <4>2
    <3>2. TypeOK'
      BY <3>1 DEF WorkInv, TypeOK, rows, locks, Idle
    <3>3. IdsLeft'
      <4>1. Unopened' \subseteq Unopened /\ Unticketed' \subseteq Unticketed
        BY <3>1 DEF WorkInv, TypeOK, Unopened, Unticketed
      <4> QED
        BY <3>1, <4>1, RoomIsKept DEF WorkInv, TypeOK
    <3>4. InHand' /\ TicketsFiled' /\ LocksHeld'
      BY <3>1 DEF WorkInv, TypeOK, InHand, TicketsFiled, LocksHeld, rows, locks
    <3> QED
      BY <3>2, <3>3, <3>4 DEF WorkInv
  <2>3. ASSUME NEW t \in Tasks, OpenConversation(t)
        PROVE  WorkInv'
    <3>1. /\ pc[t] = "found" /\ pc' = [pc EXCEPT ![t] = "touching"]
          /\ expires' = [expires EXCEPT ![t] = Expired(t)]
          /\ LockConversation(t)
          /\ UNCHANGED <<rows, nextTicket, contactLock, ticketLock, kind, about, messages>>
      BY <2>3 DEF OpenConversation, Goto, bounds
    <3>2. t \in Unopened /\ Unopened' = Unopened \ {t} /\ Unticketed' = Unticketed
      BY <3>1 DEF WorkInv, TypeOK, Unopened, Unticketed
    <3>3. Cardinality(Unopened') = Cardinality(Unopened) - 1 /\ Cardinality(Unopened) >= 1
      BY <3>2, CountsAreNaturals, CountsAreNaturalsNext, FS_RemoveElement, FS_EmptySet
    <3>4. /\ nextConv \in ConvIds
          /\ nextConv' \in {nextConv, nextConv + 1}
          /\ nextConv' \in 1..MaxMessages + 1
      BY <2>3, <3>3, CountsAreNaturals DEF WorkInv, TypeOK, IdsLeft, OpenConversation, ConvIds
    <3>5. /\ mine' \in [Actors -> {0} \cup ConvIds] /\ mine'[t] \in ConvIds
          /\ \A a \in Actors \ {t} : mine'[a] = mine[a]
          /\ seen' \in [Actors -> [paused : BOOLEAN, state : ConvState, due : BOOLEAN,
                 status : {"NONE", "OPEN", "ACKNOWLEDGED", "RESOLVED"}]]
      <4>1. CASE MustCreate(t)
        <5>1. seen \in [Actors -> Snapshot] /\ "ACTIVE" \in ConvState
          BY DEF WorkInv, TypeOK, Snapshot, ConvState
        <5>2. [seen EXCEPT ![t].state = "ACTIVE"] \in [Actors -> Snapshot]
          BY <5>1, StateSeen
        <5>3. /\ mine' = [mine EXCEPT ![t] = nextConv]
              /\ seen' = [seen EXCEPT ![t].state = "ACTIVE"]
          BY <2>3, <4>1 DEF OpenConversation
        <5> QED
          BY <5>2, <5>3, <3>4 DEF WorkInv, TypeOK, Snapshot
      <4>2. CASE ~ MustCreate(t)
        BY <2>3, <4>2 DEF OpenConversation, MustCreate, WorkInv, TypeOK
      <4> QED
        BY <4>1, <4>2
    <3>6. /\ convLock' \in [ConvIds -> Actors \cup {Free}]
          /\ \A c \in ConvIds : convLock'[c] # convLock[c] => convLock'[c] = t
      BY <3>1 DEF LockConversation, WorkInv, TypeOK
    <3>7. TypeOK'
      BY <3>1, <3>4, <3>5, <3>6 DEF WorkInv, TypeOK, rows, Idle, Expired
    <3>8. IdsLeft'
      BY <3>1, <3>2, <3>3, <3>4, CountsAreNaturals DEF WorkInv, TypeOK, IdsLeft
    <3>9. InHand' /\ TicketsFiled' /\ LocksHeld'
      BY <3>1, <3>5, <3>6 DEF WorkInv, TypeOK, InHand, TicketsFiled, LocksHeld, rows
    <3> QED
      BY <3>7, <3>8, <3>9 DEF WorkInv
  <2>4. ASSUME NEW a \in Actors, LockContact(a)
        PROVE  WorkInv'
    <3>1. /\ pc[a] = "touching" /\ pc' = [pc EXCEPT ![a] = "touched"]
          /\ contactLock = Free /\ contactLock' = a
          /\ UNCHANGED <<rows, nextConv, nextTicket, convLock, ticketLock, kind, mine,
                 about, seen, expires, messages>>
      BY <2>4 DEF LockContact, Goto, bounds
    <3>2. TypeOK'
      BY <3>1 DEF WorkInv, TypeOK, rows, Idle
    <3>3. IdsLeft'
      <4>1. Unopened' \subseteq Unopened /\ Unticketed' \subseteq Unticketed
        BY <3>1 DEF WorkInv, TypeOK, Unopened, Unticketed
      <4> QED
        BY <3>1, <4>1, RoomIsKept DEF WorkInv, TypeOK
    <3>4. InHand' /\ TicketsFiled'
      BY <3>1 DEF WorkInv, TypeOK, InHand, TicketsFiled, rows
    <3>5. LocksHeld'
      BY <3>1 DEF WorkInv, TypeOK, LocksHeld
    <3> QED
      BY <3>2, <3>3, <3>4, <3>5 DEF WorkInv
  <2>5. ASSUME NEW t \in Tasks, NoTicketNeeded(t)
        PROVE  WorkInv'
    <3>1. /\ pc[t] = "touched" /\ pc' = [pc EXCEPT ![t] = "finishing"]
          /\ UNCHANGED <<rows, nextConv, nextTicket, locks, kind, mine, about, seen,
                 expires, messages>>
      BY <2>5 DEF NoTicketNeeded, Goto, bounds
    <3>2. TypeOK'
      BY <3>1 DEF WorkInv, TypeOK, rows, locks, Idle
    <3>3. IdsLeft'
      <4>1. Unopened' \subseteq Unopened /\ Unticketed' \subseteq Unticketed
        BY <3>1 DEF WorkInv, TypeOK, Unopened, Unticketed
      <4> QED
        BY <3>1, <4>1, RoomIsKept DEF WorkInv, TypeOK
    <3>4. InHand' /\ TicketsFiled' /\ LocksHeld'
      BY <3>1 DEF WorkInv, TypeOK, InHand, TicketsFiled, LocksHeld, rows, locks
    <3> QED
      BY <3>2, <3>3, <3>4 DEF WorkInv
  <2>6. ASSUME NEW t \in Tasks, Escalate(t)
        PROVE  WorkInv'
    <3>1. /\ pc[t] = "touched" /\ pc' = [pc EXCEPT ![t] = "finishing"]
          /\ UNCHANGED <<rows, nextConv, locks, kind, mine, seen, expires, messages>>
      BY <2>6 DEF Escalate, Goto, bounds
    <3>2. t \in Unticketed /\ Unticketed' = Unticketed \ {t} /\ Unopened' = Unopened
      BY <3>1 DEF WorkInv, TypeOK, Unopened, Unticketed
    <3>3. Cardinality(Unticketed') = Cardinality(Unticketed) - 1 /\ Cardinality(Unticketed) >= 1
      BY <3>2, CountsAreNaturals, CountsAreNaturalsNext, FS_RemoveElement, FS_EmptySet
    <3>4. /\ nextTicket \in TicketIds
          /\ nextTicket' \in {nextTicket, nextTicket + 1}
          /\ nextTicket' \in 1..MaxMessages + 1
      BY <2>6, <3>3, CountsAreNaturals DEF WorkInv, TypeOK, IdsLeft, Escalate, TicketIds
    <3>5. \E k \in TicketIds : about' = [about EXCEPT ![t] = k]
      <4>1. CASE Reusable(t) # {}
        <5>1. Max(Reusable(t)) \in TicketIds
          BY <4>1, NewestIsReusable
        <5> QED
          BY <2>6, <4>1, <5>1 DEF Escalate
      <4>2. CASE Reusable(t) = {}
        BY <2>6, <4>2, <3>4 DEF Escalate
      <4> QED
        BY <4>1, <4>2
    <3>6. TypeOK'
      BY <3>1, <3>4, <3>5 DEF WorkInv, TypeOK, rows, locks, Idle
    <3>7. IdsLeft'
      BY <3>1, <3>2, <3>3, <3>4, CountsAreNaturals DEF WorkInv, TypeOK, IdsLeft
    <3>8. InHand' /\ TicketsFiled' /\ LocksHeld'
      BY <3>1, <3>5 DEF WorkInv, TypeOK, InHand, TicketsFiled, LocksHeld, rows, locks
    <3> QED
      BY <3>6, <3>7, <3>8 DEF WorkInv
  <2>7. ASSUME NEW t \in Tasks, Commit(t)
        PROVE  WorkInv'
    <3>1. pc[t] = "finishing" /\ End(t) /\ UNCHANGED messages
      BY <2>7 DEF Commit, bounds
    <3>2. mine[t] \in ConvIds /\ about[t] \in {0} \cup TicketIds
      BY <3>1 DEF WorkInv, TypeOK, InHand
    <3>3. conv' \in [ConvIds -> ConvState]
      <4>1. State(t) \in ConvState
        BY <3>2 DEF State, WorkInv, TypeOK, ConvState
      <4>2. \A c \in ConvIds : conv[c] \in ConvState
        BY DEF WorkInv, TypeOK
      <4> QED
        BY <2>7, <4>1, <4>2 DEF Commit, ConvState
    <3>4. due' \subseteq ConvIds /\ pausedFor' \in 0..ByHand
      BY <2>7, <3>2 DEF Commit, WorkInv, TypeOK, TicketIds, ByHand
    <3>5. /\ ticket' \in [TicketIds -> [conv : {0} \cup ConvIds,
                    status : {"NONE", "OPEN", "ACKNOWLEDGED", "RESOLVED"}]]
          /\ TicketsFiled'
          /\ \A k \in TicketIds : ticket[k].status # "NONE" => ticket'[k].status # "NONE"
      BY <2>7, <3>2 DEF Commit, IsNew, WorkInv, TypeOK, TicketsFiled
    <3> QED
      BY <3>1, <3>3, <3>4, <3>5, EndKeeps DEF RowsWritten
  <2>8. ASSUME NEW t \in Tasks, JobFails(t)
        PROVE  WorkInv'
    BY <2>8, RollbackKeeps DEF JobFails
  <2>9. ASSUME NEW a \in Actors, DeadlockVictim(a)
        PROVE  WorkInv'
    BY <2>9, RollbackKeeps DEF DeadlockVictim, bounds
  <2>10. ASSUME NEW o \in Operators, NEW k \in TicketIds,
                NEW what \in {"resolve", "acknowledge"}, Request(o, k, what)
         PROVE  WorkInv'
    <3>1. /\ pc[o] = "idle" /\ pc' = [pc EXCEPT ![o] = "loaded"]
          /\ kind' = [kind EXCEPT ![o] = what]
          /\ about' = [about EXCEPT ![o] = k]
          /\ seen' = [seen EXCEPT ![o].status = ticket[k].status]
          /\ ticket[k] # NoTicket
          /\ UNCHANGED <<rows, nextConv, nextTicket, locks, mine, expires, messages>>
      BY <2>10 DEF Request, Begin, Idle, Goto
    <3>2. TypeOK'
      BY <3>1 DEF WorkInv, TypeOK, rows, locks, Idle
    <3>3. IdsLeft'
      <4>1. Unopened' \subseteq Unopened /\ Unticketed' \subseteq Unticketed
        BY <3>1 DEF WorkInv, TypeOK, Unopened, Unticketed
      <4> QED
        BY <3>1, <4>1, RoomIsKept DEF WorkInv, TypeOK
    <3>4. InHand' /\ TicketsFiled' /\ LocksHeld'
      BY <3>1 DEF WorkInv, TypeOK, InHand, TicketsFiled, LocksHeld, rows, locks
    <3> QED
      BY <3>2, <3>3, <3>4 DEF WorkInv
  <2>11. ASSUME NEW o \in Operators, WriteTicket(o)
         PROVE  WorkInv'
    <3> DEFINE k == about[o]
    <3>1. /\ pc[o] = "loaded" /\ k \in TicketIds /\ ticket[k].conv \in ConvIds
          /\ ticketLock' = [ticketLock EXCEPT ![k] = o]
          /\ UNCHANGED <<rows, nextConv, nextTicket, contactLock, convLock, kind,
                    about, expires, messages>>
      BY <2>11 DEF WriteTicket, bounds, WorkInv, InHand, TicketsFiled
    <3>2. \E l \in {"touching", "touched", "finishing"} :
            /\ pc' = [pc EXCEPT ![o] = l]
            /\ l # "finishing" => kind[o] = "resolve"
            /\ kind[o] = "resolve" => mine'[o] \in ConvIds
      BY <2>11, <3>1 DEF WriteTicket, Goto, WorkInv, TypeOK
    <3>3. /\ mine' \in [Actors -> {0} \cup ConvIds]
          /\ \A a \in Actors \ {o} : mine'[a] = mine[a]
          /\ seen' \in [Actors -> [paused : BOOLEAN, state : ConvState, due : BOOLEAN,
                 status : {"NONE", "OPEN", "ACKNOWLEDGED", "RESOLVED"}]]
      <4>1. /\ seen \in [Actors -> Snapshot] /\ Paused \in BOOLEAN
            /\ conv[ticket[k].conv] \in ConvState
        BY <3>1 DEF WorkInv, TypeOK, Snapshot, Paused
      <4>2. [seen EXCEPT ![o].state = conv[ticket[k].conv], ![o].paused = Paused]
              \in [Actors -> Snapshot]
        BY <4>1, StatePausedSeen
      <4>3. CASE kind[o] = "resolve"
        <5>1. /\ mine' = [mine EXCEPT ![o] = ticket[k].conv]
              /\ seen' = [seen EXCEPT ![o].state = conv[ticket[k].conv], ![o].paused = Paused]
          BY <2>11, <4>3 DEF WriteTicket
        <5> QED
          BY <3>1, <4>2, <5>1 DEF WorkInv, TypeOK, Snapshot
      <4>4. CASE kind[o] # "resolve"
        BY <2>11, <4>4 DEF WriteTicket, WorkInv, TypeOK
      <4> QED
        BY <4>3, <4>4
    <3>4. TypeOK'
      BY <3>1, <3>2, <3>3 DEF WorkInv, TypeOK, rows, Idle
    <3>5. IdsLeft'
      <4>1. Unopened' \subseteq Unopened /\ Unticketed' \subseteq Unticketed
        BY <3>2 DEF WorkInv, TypeOK, Unopened, Unticketed
      <4> QED
        BY <3>1, <4>1, RoomIsKept DEF WorkInv, TypeOK
    <3>6. InHand' /\ TicketsFiled'
      BY <3>1, <3>2, <3>3 DEF WorkInv, TypeOK, InHand, TicketsFiled, rows
    <3>7. LocksHeld'
      BY <3>1, <3>2 DEF WorkInv, TypeOK, LocksHeld
    <3> QED
      BY <3>4, <3>5, <3>6, <3>7 DEF WorkInv
  <2>12. ASSUME NEW o \in Operators, WriteConversation(o)
         PROVE  WorkInv'
    <3>1. /\ pc[o] = "touched" /\ pc' = [pc EXCEPT ![o] = "finishing"]
          /\ convLock' \in [ConvIds -> Actors \cup {Free}]
          /\ \A c \in ConvIds : convLock'[c] # convLock[c] => convLock'[c] = o
          /\ UNCHANGED <<rows, nextConv, nextTicket, contactLock, ticketLock, kind, mine,
                 about, seen, expires, messages>>
      BY <2>12 DEF WriteConversation, Goto, bounds, WorkInv, TypeOK
    <3>2. TypeOK'
      BY <3>1 DEF WorkInv, TypeOK, rows, Idle
    <3>3. IdsLeft'
      <4>1. Unopened' \subseteq Unopened /\ Unticketed' \subseteq Unticketed
        BY <3>1 DEF WorkInv, TypeOK, Unopened, Unticketed
      <4> QED
        BY <3>1, <4>1, RoomIsKept DEF WorkInv, TypeOK
    <3>4. InHand' /\ TicketsFiled' /\ LocksHeld'
      BY <3>1 DEF WorkInv, TypeOK, InHand, TicketsFiled, LocksHeld, rows
    <3> QED
      BY <3>2, <3>3, <3>4 DEF WorkInv
  <2>13. ASSUME NEW o \in Operators, CommitRequest(o)
         PROVE  WorkInv'
    <3>1. /\ pc[o] = "finishing" /\ End(o) /\ UNCHANGED <<due, messages>>
          /\ about[o] \in TicketIds /\ ticket[about[o]].status # "NONE"
          /\ kind[o] = "resolve" => mine[o] \in ConvIds
      BY <2>13 DEF CommitRequest, bounds, WorkInv, InHand
    <3>2. /\ conv' \in [ConvIds -> ConvState] /\ pausedFor' \in 0..ByHand
      BY <2>13, <3>1 DEF CommitRequest, Activates, WorkInv, TypeOK, ConvState, ByHand
    <3>3. /\ StatusAfter(o) \in {"OPEN", "ACKNOWLEDGED", "RESOLVED"}
          /\ ticket' = [ticket EXCEPT ![about[o]].status = StatusAfter(o)]
      BY <2>13, <3>1 DEF CommitRequest, StatusAfter, WorkInv, TypeOK
    <3>4. RowsWritten
      BY <3>1, <3>2, <3>3 DEF RowsWritten, WorkInv, TypeOK, TicketsFiled
    <3> QED
      BY <3>1, <3>4, EndKeeps
  <2>14. ASSUME PauseContact \/ ResumeContact
         PROVE  WorkInv'
    <3>1. /\ pausedFor' \in 0..ByHand
          /\ UNCHANGED <<conv, due, ticket, nextConv, nextTicket, locks, actors, messages>>
      BY <2>14 DEF PauseContact, ResumeContact, ByOperator, ByHand
    <3>2. IdsLeft'
      BY <3>1 DEF WorkInv, IdsLeft, Unopened, Unticketed, actors
    <3> QED
      BY <3>1, <3>2 DEF WorkInv, TypeOK, InHand, TicketsFiled, LocksHeld, Idle, locks, actors
  <2>15. ASSUME TimePasses
         PROVE  WorkInv'
    <3>1. /\ due' \subseteq ConvIds
          /\ UNCHANGED <<conv, ticket, pausedFor, nextConv, nextTicket, locks, actors, messages>>
      BY <2>15 DEF TimePasses, WorkInv, TypeOK, Live
    <3>2. IdsLeft'
      BY <3>1 DEF WorkInv, IdsLeft, Unopened, Unticketed, actors
    <3> QED
      BY <3>1, <3>2 DEF WorkInv, TypeOK, InHand, TicketsFiled, LocksHeld, Idle, locks, actors
  <2>16. CASE UNCHANGED vars
    <3>1. IdsLeft'
      BY <2>16 DEF WorkInv, IdsLeft, Unopened, Unticketed, actors, vars, bounds
    <3> QED
      BY <2>16, <3>1 DEF WorkInv, TypeOK, InHand, TicketsFiled, LocksHeld, Idle, rows, locks,
                        actors, vars
  <2> QED
    BY <2>1, <2>2, <2>3, <2>4, <2>5, <2>6, <2>7, <2>8, <2>9, <2>10, <2>11, <2>12, <2>13,
       <2>14, <2>15, <2>16 DEF Next, JobStep, RequestStep
<1> QED
  BY <1>1, <1>2, PTL DEF Spec
---------------------------------------------------------------------------------
(***************************************************************************)
(* One open ticket per conversation.  A job that is about to file a new    *)
(* one found none open, and until it commits it holds the contact's row,   *)
(* without which no other job files.                                       *)
(***************************************************************************)
Filing ==
  /\ \A t \in Tasks : pc[t] # "finishing" => about[t] = 0
  /\ \A t \in Tasks : pc[t] = "finishing" /\ IsNew(t) =>
       \A k \in Unresolved \ again : ticket[k].conv # mine[t]
  /\ \A k, l \in Unresolved \ again : ticket[k].conv = ticket[l].conv => k = l

(* A step that writes no ticket and takes no job to its ticket.            *)
NoFiling ==
  /\ UNCHANGED <<ticket, again>>
  /\ \A t \in Tasks :
       \/ pc'[t] = "finishing" /\ UNCHANGED <<pc[t], about[t], mine[t]>>
       \/ pc'[t] # "finishing" /\ about'[t] = 0

(* No job files a ticket beside an open one.                               *)
LEMMA FilingInvariant == Spec => []Filing
<1> USE EscalationAssumption DEF Actors
<1>1. Init => Filing
  BY DEF Init, Filing, Unresolved, NoTicket
<1>2. Filing /\ NoFiling => Filing'
  BY DEF Filing, NoFiling, Unresolved, IsNew
<1>3. WorkInv /\ Filing /\ [Next]_vars => Filing'
  <2> SUFFICES ASSUME WorkInv, Filing, [Next]_vars
               PROVE  Filing'
    OBVIOUS
  <2> USE DEF WorkInv, TypeOK, Filing
  <2>1. ASSUME NEW t \in Tasks, NEW k \in Kinds, Take(t, k)
        PROVE  Filing'
    BY <2>1, <1>2 DEF NoFiling, Take, Begin, Goto, Idle, rows
  <2>2. ASSUME NEW t \in Tasks, GetActive(t)
        PROVE  Filing'
    BY <2>2, <1>2 DEF NoFiling, GetActive, Goto, rows, races
  <2>3. ASSUME NEW t \in Tasks, OpenConversation(t)
        PROVE  Filing'
    BY <2>3, <1>2 DEF NoFiling, OpenConversation, Goto, rows, races
  <2>4. ASSUME NEW a \in Actors, LockContact(a)
        PROVE  Filing'
    BY <2>4, <1>2 DEF NoFiling, LockContact, Goto, rows, races
  <2>5. ASSUME NEW t \in Tasks, NoTicketNeeded(t)
        PROVE  Filing'
    BY <2>5 DEF NoTicketNeeded, Goto, rows, races, Unresolved, IsNew
  <2>6. ASSUME NEW t \in Tasks, Escalate(t)
        PROVE  Filing'
    <3>1. /\ pc' = [pc EXCEPT ![t] = "finishing"]
          /\ UNCHANGED <<ticket, again, mine>>
          /\ \A u \in Tasks \ {t} : about'[u] = about[u]
      BY <2>6 DEF Escalate, Goto, rows, races
    <3>2. IsNew(t)' => \A k \in Unresolved : ticket[k].conv # mine[t]
      <4>1. CASE Reusable(t) # {}
        <5>1. Max(Reusable(t)) \in Reusable(t)
          BY <4>1, NewestIsReusable
        <5>2. about'[t] \in Unresolved
          BY <2>6, <4>1, <5>1 DEF Escalate, Reusable
        <5> QED
          BY <3>1, <5>2 DEF IsNew, Unresolved, NoTicket
      <4>2. CASE Reusable(t) = {}
        BY <4>2 DEF Reusable
      <4> QED
        BY <4>1, <4>2
    <3> QED
      BY <3>1, <3>2 DEF Unresolved, IsNew
  <2>7. ASSUME NEW t \in Tasks, Commit(t)
        PROVE  Filing'
    <3>1. /\ pc[t] = "finishing" /\ UNCHANGED again
          /\ pc' = [pc EXCEPT ![t] = "idle"] /\ about' = [about EXCEPT ![t] = 0]
          /\ ticket' = IF IsNew(t)
                       THEN [ticket EXCEPT ![about[t]] = [conv |-> mine[t], status |-> "OPEN"]]
                       ELSE ticket
      BY <2>7 DEF Commit, End, Goto, races
    <3>2. \A u \in Tasks \ {t} : pc[u] # "finishing"
      BY <3>1 DEF LocksHeld
    <3>3. \A k \in Unresolved' :
            \/ k \in Unresolved /\ ticket'[k] = ticket[k]
            \/ IsNew(t) /\ k = about[t] /\ ticket'[k].conv = mine[t]
      <4>1. CASE IsNew(t)
        <5>1. about[t] \in TicketIds /\ \A k \in TicketIds \ {about[t]} : ticket'[k] = ticket[k]
          BY <3>1, <4>1 DEF IsNew
        <5>2. ticket'[about[t]].conv = mine[t]
          BY <3>1, <4>1, <5>1
        <5> QED
          BY <4>1, <5>1, <5>2 DEF Unresolved
      <4>2. CASE ~ IsNew(t)
        BY <3>1, <4>2 DEF Unresolved
      <4> QED
        BY <4>1, <4>2
    <3>4. \A k, l \in Unresolved' \ again : ticket'[k].conv = ticket'[l].conv => k = l
      BY <3>1, <3>3
    <3> QED
      BY <3>1, <3>2, <3>4
  <2>8. ASSUME NEW a \in Actors, Rollback(a)
        PROVE  Filing'
    BY <2>8, <1>2 DEF NoFiling, Rollback, End, Goto, rows, races
  <2>9. ASSUME NEW o \in Operators, NEW k \in TicketIds,
               NEW what \in {"resolve", "acknowledge"}, Request(o, k, what)
        PROVE  Filing'
    BY <2>9, <1>2 DEF NoFiling, Request, Begin, Goto, rows
  <2>10. ASSUME NEW o \in Operators, WriteTicket(o)
         PROVE  Filing'
    BY <2>10, <1>2 DEF NoFiling, WriteTicket, Goto, rows, races
  <2>11. ASSUME NEW o \in Operators, WriteConversation(o)
         PROVE  Filing'
    BY <2>11, <1>2 DEF NoFiling, WriteConversation, Goto, rows, races
  <2>12. ASSUME NEW o \in Operators, CommitRequest(o)
         PROVE  Filing'
    <3> DEFINE k == about[o]
    <3>1. /\ k \in TicketIds /\ ticket[k].status # "NONE"
          /\ ticket' = [ticket EXCEPT ![k].status = StatusAfter(o)]
          /\ again' = IF ticket[k].status = "RESOLVED" THEN again \cup {k} ELSE again
          /\ pc' = [pc EXCEPT ![o] = "idle"] /\ about' = [about EXCEPT ![o] = 0]
          /\ mine' = [mine EXCEPT ![o] = 0]
      BY <2>12 DEF CommitRequest, InHand, End, Goto
    <3>2. /\ StatusAfter(o) \in {"OPEN", "ACKNOWLEDGED", "RESOLVED"}
          /\ \A l \in TicketIds \ {k} : ticket'[l] = ticket[l]
          /\ ticket'[k].conv = ticket[k].conv /\ ticket'[k].status = StatusAfter(o)
      BY <3>1 DEF StatusAfter
    <3>3. /\ Unresolved' \ again' \subseteq Unresolved \ again
          /\ \A l \in TicketIds : ticket'[l].conv = ticket[l].conv
      BY <3>1, <3>2 DEF Unresolved
    <3>4. \A t \in Tasks : IsNew(t)' => IsNew(t)
      <4> SUFFICES ASSUME NEW t \in Tasks, IsNew(t)'
                   PROVE  IsNew(t)
        OBVIOUS
      <4>1. about[t] = about'[t] /\ about[t] \in TicketIds
        BY <3>1 DEF IsNew
      <4> QED
        BY <4>1, <3>2 DEF IsNew, NoTicket
    <3> QED
      BY <3>1, <3>3, <3>4
  <2>13. ASSUME PauseContact \/ ResumeContact \/ TimePasses \/ UNCHANGED vars
         PROVE  Filing'
    BY <2>13, <1>2 DEF NoFiling, PauseContact, ResumeContact, ByOperator, TimePasses, rows, races,
                       actors, vars
  <2> QED
    BY <2>1, <2>2, <2>3, <2>4, <2>5, <2>6, <2>7, <2>8, <2>9, <2>10, <2>11, <2>12, <2>13
    DEF Next, JobStep, RequestStep, JobFails, DeadlockVictim
<1> QED
  BY <1>1, <1>3, WorkInvariant, PTL DEF Spec

(* escalate keeps one unresolved ticket per conversation.                  *)
THEOREM OneTicketIsOpen == Spec => []OneOpenTicket
<1>1. WorkInv /\ Filing => OneOpenTicket
  BY DEF WorkInv, Filing, OneOpenTicket
<1> QED
  BY <1>1, WorkInvariant, FilingInvariant, PTL
---------------------------------------------------------------------------------
(***************************************************************************)
(* Waiting.  Only the holders of a conversation who still wait are jobs,   *)
(* for the contact's row; of that row, resolutions, for a conversation.    *)
(***************************************************************************)
(* Nobody waits for one at rest, and whoever waits in a circle is one of   *)
(* a job and a resolution that wait for each other.                        *)
THEOREM EveryWaitEnds == Spec => []WaitsEnd
<1>1. WorkInv => WaitsEnd
  <2> SUFFICES ASSUME WorkInv
               PROVE  WaitsEnd
    OBVIOUS
  <2> USE EscalationAssumption DEF Actors
  <2>1. ASSUME NEW a \in Actors, Blocker(a) # Free
        PROVE  /\ Blocker(a) \in Actors /\ ~ Idle(Blocker(a))
               /\ \/ /\ pc[a] = "loaded"
                     /\ Blocker(a) \in Operators
                     /\ pc[Blocker(a)] \in {"touching", "touched", "finishing"}
                  \/ /\ pc[a] = "found"
                     /\ pc[Blocker(a)] \in {"touching", "touched", "finishing"}
                     /\ Blocker(a) \in Operators => pc[Blocker(a)] = "finishing"
                  \/ /\ pc[a] = "touching"
                     /\ Blocker(a) = contactLock
                     /\ pc[Blocker(a)] \in {"touched", "finishing"}
                  \/ /\ pc[a] = "touched" /\ a \in Operators
                     /\ pc[Blocker(a)] \in {"touching", "touched", "finishing"}
                     /\ Blocker(a) \in Operators => pc[Blocker(a)] = "finishing"
    <3>1. CASE pc[a] = "loaded" /\ a \in Operators
      BY <2>1, <3>1 DEF Blocker, WorkInv, TypeOK, InHand, LocksHeld, Idle
    <3>2. CASE pc[a] = "found"
      BY <2>1, <3>2 DEF Blocker, WorkInv, TypeOK, InHand, LocksHeld, Idle
    <3>3. CASE pc[a] = "touching"
      BY <2>1, <3>3 DEF Blocker, WorkInv, TypeOK, InHand, LocksHeld, Idle
    <3>4. CASE pc[a] = "touched" /\ a \in Operators
      BY <2>1, <3>4 DEF Blocker, WorkInv, TypeOK, InHand, LocksHeld, Idle, Activates
    <3>5. CASE pc[a] \notin {"found", "touching"} /\ ~ (pc[a] = "loaded" /\ a \in Operators)
               /\ ~ (pc[a] = "touched" /\ a \in Operators)
      BY <2>1, <3>5 DEF Blocker
    <3> QED
      BY <3>1, <3>2, <3>3, <3>4, <3>5
  <2>2. ASSUME NEW S \in SUBSET Actors, S # {}, Stuck(S)
        PROVE  \E t \in S \cap Tasks, o \in S \cap Operators :
                 Blocker(t) = o /\ Blocker(o) = t
    <3>1. \A a \in S : Blocker(a) \in S /\ Blocker(a) # Free
      BY <2>2 DEF Stuck
    <3>2. \A a \in S : pc[a] # "finishing"
      BY <2>1, <3>1
    <3>3. ASSUME NEW a \in S, pc[a] = "touched"
          PROVE  a \in Operators /\ Blocker(a) \in Tasks /\ pc[Blocker(a)] = "touching"
      <4>1. /\ a \in Operators /\ Blocker(a) \in Actors
            /\ pc[Blocker(a)] \in {"touching", "touched"}
            /\ Blocker(a) \notin Operators
        BY <2>1, <3>1, <3>2, <3>3
      <4>2. Blocker(a) \in S /\ Blocker(a) \in Tasks
        BY <4>1, <3>1
      <4>3. pc[Blocker(a)] # "touched"
        BY <2>1, <3>1, <4>2
      <4> QED
        BY <4>1, <4>2, <4>3
    <3>4. \E a \in S : pc[a] = "touching"
      BY <2>1, <2>2, <3>1, <3>2, <3>3
    <3>5. PICK a \in S : pc[a] = "touching"
      BY <3>4
    <3>6. contactLock \in S /\ pc[contactLock] = "touched"
      BY <2>1, <3>1, <3>2, <3>5
    <3> QED
      BY <2>1, <3>1, <3>3, <3>6
  <2> QED
    BY <2>1, <2>2 DEF WaitsEnd
<1> QED
  BY <1>1, WorkInvariant, PTL
---------------------------------------------------------------------------------
(***************************************************************************)
(* The bot's silence.  It is resumed over every hand-over so far, and a    *)
(* hand-over pauses it: without a pause none is outstanding.               *)
(***************************************************************************)
NoneOutstanding == ~ Paused => handed \subseteq lifted

(* A hand-over keeps the bot silent until an operator resumes the          *)
(* contact.                                                                *)
THEOREM HandOversSilence == Spec => []HandOverSilences
<1>1. Init => NoneOutstanding
  BY DEF Init, NoneOutstanding
<1>2. NoneOutstanding /\ [Next]_vars => NoneOutstanding'
  <2> SUFFICES ASSUME NoneOutstanding, [Next]_vars
               PROVE  NoneOutstanding'
    OBVIOUS
  <2> USE DEF NoneOutstanding, Paused, Actors, hands
  <2>1. ASSUME NEW t \in Tasks, NEW k \in Kinds, Take(t, k)
        PROVE  NoneOutstanding'
    BY <2>1 DEF Take, Begin, Goto, Idle, rows
  <2>2. ASSUME NEW t \in Tasks, GetActive(t)
        PROVE  NoneOutstanding'
    BY <2>2 DEF GetActive, Goto, rows, races, hands
  <2>3. ASSUME NEW t \in Tasks, OpenConversation(t)
        PROVE  NoneOutstanding'
    BY <2>3 DEF OpenConversation, Goto, rows, races, hands
  <2>4. ASSUME NEW a \in Actors, LockContact(a)
        PROVE  NoneOutstanding'
    BY <2>4 DEF LockContact, Goto, rows, races, hands
  <2>5. ASSUME NEW t \in Tasks, NoTicketNeeded(t)
        PROVE  NoneOutstanding'
    BY <2>5 DEF NoTicketNeeded, Goto, rows, races, hands
  <2>6. ASSUME NEW t \in Tasks, Escalate(t)
        PROVE  NoneOutstanding'
    BY <2>6 DEF Escalate, Goto, rows, races, hands
  <2>7. ASSUME NEW t \in Tasks, Commit(t)
        PROVE  NoneOutstanding'
    BY <2>7 DEF Commit, Pauses
  <2>8. ASSUME NEW a \in Actors, Rollback(a)
        PROVE  NoneOutstanding'
    BY <2>8 DEF Rollback, End, Goto, rows, races, hands
  <2>9. ASSUME NEW o \in Operators, NEW k \in TicketIds,
               NEW what \in {"resolve", "acknowledge"}, Request(o, k, what)
        PROVE  NoneOutstanding'
    BY <2>9 DEF Request, Begin, Goto, Idle, rows
  <2>10. ASSUME NEW o \in Operators, WriteTicket(o)
         PROVE  NoneOutstanding'
    BY <2>10 DEF WriteTicket, Goto, rows, races, hands
  <2>11. ASSUME NEW o \in Operators, WriteConversation(o)
         PROVE  NoneOutstanding'
    BY <2>11 DEF WriteConversation, Goto, rows, races, hands
  <2>12. ASSUME NEW o \in Operators, CommitRequest(o)
         PROVE  NoneOutstanding'
    BY <2>12 DEF CommitRequest
  <2>13. ASSUME PauseContact \/ ResumeContact \/ TimePasses \/ UNCHANGED vars
         PROVE  NoneOutstanding'
    <3>1. CASE PauseContact
      BY <3>1, EscalationAssumption DEF PauseContact, ByHand
    <3>2. CASE ResumeContact
      BY <3>2 DEF ResumeContact, ByOperator
    <3>3. CASE TimePasses \/ UNCHANGED vars
      BY <3>3 DEF TimePasses, rows, vars
    <3> QED
      BY <2>13, <3>1, <3>2, <3>3
  <2> QED
    BY <2>1, <2>2, <2>3, <2>4, <2>5, <2>6, <2>7, <2>8, <2>9, <2>10, <2>11, <2>12, <2>13
    DEF Next, JobStep, RequestStep, JobFails, DeadlockVictim
<1>3. NoneOutstanding => HandOverSilences
  BY DEF NoneOutstanding, HandOverSilences
<1> QED
  BY <1>1, <1>2, <1>3, PTL DEF Spec

(* While jobs and requests take turns: a job about to pause has a ticket   *)
(* of its own or an open one, and a resolution knows of the pause there    *)
(* is.                                                                     *)
Fresh ==
  /\ \A k \in TicketIds : k >= nextTicket => ticket[k] = NoTicket
  /\ \A t \in Tasks : about[t] < nextTicket

ByTicket == pausedFor \notin {0, ByHand}

InTurn ==
  ~ crossed =>
    /\ \A t \in Tasks, o \in Operators : Idle(t) \/ Idle(o)
    /\ \A t \in Tasks : pc[t] = "finishing" /\ about[t] # 0 =>
         IsNew(t) \/ about[t] \in Unresolved
    /\ \A o \in Operators :
         pc[o] \in {"touching", "touched", "finishing"} /\ kind[o] = "resolve" /\ ByTicket =>
           seen[o].paused
    /\ ByTicket => pausedFor \in Unresolved

Listed == Fresh /\ InTurn

(* A contact paused by a ticket has that ticket on the list of open ones,  *)
(* while jobs and requests take turns.                                     *)
THEOREM SilencesAreListed == Spec => []SilenceIsListed
<1> USE EscalationAssumption DEF Actors
<1>1. Init => Listed
  BY DEF Init, Listed, Fresh, InTurn, ByTicket, Idle
<1>2. WorkInv /\ Filing /\ Listed /\ [Next]_vars => Listed'
  <2> SUFFICES ASSUME WorkInv, Filing, Listed, [Next]_vars
               PROVE  Listed'
    OBVIOUS
  <2> USE DEF WorkInv, TypeOK, Listed, Fresh, InTurn, ByTicket, Idle
  <2>1. ASSUME NEW t \in Tasks, NEW k \in Kinds, Take(t, k)
        PROVE  Listed'
    <3>1. ~ crossed' => ~ crossed /\ \A o \in Operators : pc[o] = "idle"
      BY <2>1 DEF Take
    <3>2. /\ pc[t] = "idle" /\ pc' = [pc EXCEPT ![t] = "loaded"]
          /\ UNCHANGED <<ticket, pausedFor, nextTicket, about>>
          /\ \A o \in Operators : seen'[o] = seen[o] /\ kind'[o] = kind[o]
      BY <2>1 DEF Take, Begin, Goto, rows
    <3> QED
      BY <3>1, <3>2 DEF Unresolved, IsNew
  <2>2. ASSUME NEW t \in Tasks, GetActive(t)
        PROVE  Listed'
    BY <2>2 DEF GetActive, Goto, rows, races, hands, Unresolved, IsNew
  <2>3. ASSUME NEW t \in Tasks, OpenConversation(t)
        PROVE  Listed'
    BY <2>3 DEF OpenConversation, Goto, rows, races, hands, Unresolved, IsNew
  <2>4. ASSUME NEW a \in Actors, LockContact(a)
        PROVE  Listed'
    BY <2>4 DEF LockContact, Goto, rows, races, hands, Unresolved, IsNew
  <2>5. ASSUME NEW t \in Tasks, NoTicketNeeded(t)
        PROVE  Listed'
    <3>1. /\ about[t] = 0 /\ pc[t] # "idle" /\ pc' = [pc EXCEPT ![t] = "finishing"]
          /\ UNCHANGED <<ticket, pausedFor, nextTicket, about, seen, kind, crossed>>
      BY <2>5 DEF NoTicketNeeded, Goto, rows, races, Filing
    <3> QED
      BY <3>1 DEF Unresolved, IsNew
  <2>6. ASSUME NEW t \in Tasks, Escalate(t)
        PROVE  Listed'
    <3>1. /\ pc[t] # "idle" /\ pc' = [pc EXCEPT ![t] = "finishing"]
          /\ UNCHANGED <<ticket, pausedFor, seen, kind, crossed>>
      BY <2>6 DEF Escalate, Goto, rows, races
    <3>2. \E k \in TicketIds :
            /\ about' = [about EXCEPT ![t] = k]
            /\ k < nextTicket' /\ nextTicket' >= nextTicket
            /\ k \in Unresolved \/ ticket[k] = NoTicket
      <4>1. CASE Reusable(t) # {}
        <5>1. Max(Reusable(t)) \in Reusable(t)
          BY <4>1, NewestIsReusable
        <5>2. /\ Max(Reusable(t)) \in Unresolved /\ Max(Reusable(t)) \in TicketIds
          BY <5>1 DEF Reusable, Unresolved
        <5>3. Max(Reusable(t)) < nextTicket
          BY <5>2 DEF Unresolved, NoTicket, TicketIds
        <5> QED
          BY <2>6, <4>1, <5>2, <5>3 DEF Escalate
      <4>2. CASE Reusable(t) = {}
        <5>1. about' = [about EXCEPT ![t] = nextTicket] /\ nextTicket' = nextTicket + 1
          BY <2>6, <4>2 DEF Escalate
        <5>2. nextTicket \in TicketIds
          BY <2>6, RoomForOne DEF Escalate
        <5>3. ticket[nextTicket] = NoTicket /\ nextTicket < nextTicket + 1
          BY <5>2 DEF TicketIds
        <5>4. nextTicket < nextTicket' /\ nextTicket' >= nextTicket
          BY <5>1
        <5> QED
          BY <5>1, <5>2, <5>3, <5>4
      <4> QED
        BY <4>1, <4>2
    <3>3. PICK k \in TicketIds :
            /\ about' = [about EXCEPT ![t] = k]
            /\ k < nextTicket' /\ nextTicket' >= nextTicket
            /\ k \in Unresolved \/ ticket[k] = NoTicket
      BY <3>2
    <3>4. nextTicket' \in Nat
      BY <2>6 DEF Escalate
    <3>5. Fresh'
      <4>1. \A u \in Tasks : about'[u] < nextTicket'
        BY <3>3, <3>4 DEF TicketIds
      <4>2. \A l \in TicketIds : l >= nextTicket' => ticket'[l] = NoTicket
        BY <3>1, <3>3, <3>4 DEF TicketIds
      <4> QED
        BY <4>1, <4>2
    <3>6. InTurn'
      BY <3>1, <3>3 DEF Unresolved, IsNew
    <3> QED
      BY <3>5, <3>6
  <2>7. ASSUME NEW t \in Tasks, Commit(t)
        PROVE  Listed'
    <3> DEFINE k == about[t]
    <3>1. /\ pc[t] = "finishing" /\ UNCHANGED <<crossed, nextTicket>>
          /\ pc' = [pc EXCEPT ![t] = "idle"] /\ about' = [about EXCEPT ![t] = 0]
          /\ ticket' = IF IsNew(t)
                       THEN [ticket EXCEPT ![k] = [conv |-> mine[t], status |-> "OPEN"]]
                       ELSE ticket
          /\ pausedFor' = IF Pauses(t) THEN k ELSE pausedFor
      BY <2>7 DEF Commit, End, Goto, races
    <3>2. \A u \in Tasks \ {t} : pc[u] # "finishing"
      BY <3>1 DEF LocksHeld
    <3>3. IsNew(t) => /\ k \in TicketIds /\ k < nextTicket
                      /\ \A l \in TicketIds \ {k} : ticket'[l] = ticket[l]
                      /\ ticket'[k].status = "OPEN"
      BY <3>1 DEF IsNew
    <3>4. Fresh'
      BY <3>1, <3>3 DEF TicketIds
    <3>5. ASSUME ~ crossed
          PROVE  /\ \A o \in Operators : pc[o] = "idle"
                 /\ k # 0 => k \in Unresolved'
                 /\ Unresolved \subseteq Unresolved'
      BY <3>1, <3>3, <3>5 DEF Unresolved
    <3>6. InTurn'
      BY <3>1, <3>2, <3>5 DEF Pauses
    <3> QED
      BY <3>4, <3>6
  <2>8. ASSUME NEW a \in Actors, Rollback(a)
        PROVE  Listed'
    BY <2>8 DEF Rollback, End, Goto, rows, races, hands, Unresolved, IsNew
  <2>9. ASSUME NEW o \in Operators, NEW k \in TicketIds,
               NEW what \in {"resolve", "acknowledge"}, Request(o, k, what)
        PROVE  Listed'
    <3>1. ~ crossed' => ~ crossed /\ \A t \in Tasks : pc[t] = "idle"
      BY <2>9 DEF Request
    <3>2. /\ pc[o] = "idle" /\ pc' = [pc EXCEPT ![o] = "loaded"]
          /\ UNCHANGED <<ticket, pausedFor, nextTicket>>
          /\ \A a \in Actors \ {o} : about'[a] = about[a] /\ kind'[a] = kind[a]
          /\ \A a \in Operators \ {o} : seen'[a] = seen[a]
      BY <2>9 DEF Request, Begin, Goto, rows
    <3> QED
      BY <3>1, <3>2 DEF Unresolved, IsNew
  <2>10. ASSUME NEW o \in Operators, WriteTicket(o)
         PROVE  Listed'
    <3>1. /\ pc[o] = "loaded" /\ UNCHANGED <<ticket, pausedFor, nextTicket, about, kind, crossed>>
          /\ \A a \in Actors \ {o} : pc'[a] = pc[a] /\ seen'[a] = seen[a]
      BY <2>10 DEF WriteTicket, Goto, rows, races
    <3>2. kind[o] = "resolve" => seen'[o].paused = Paused
      BY <2>10 DEF WriteTicket
    <3> QED
      BY <3>1, <3>2 DEF Unresolved, IsNew, Paused
  <2>11. ASSUME NEW o \in Operators, WriteConversation(o)
         PROVE  Listed'
    BY <2>11 DEF WriteConversation, Goto, rows, races, hands, Unresolved, IsNew
  <2>12. ASSUME NEW o \in Operators, CommitRequest(o)
         PROVE  Listed'
    <3> DEFINE k == about[o]
    <3>1. /\ k \in TicketIds /\ ticket[k].status # "NONE" /\ pc[o] = "finishing"
          /\ ticket' = [ticket EXCEPT ![k].status = StatusAfter(o)]
          /\ pausedFor' = IF Resumes(o) THEN 0 ELSE pausedFor
          /\ pc' = [pc EXCEPT ![o] = "idle"] /\ about' = [about EXCEPT ![o] = 0]
          /\ kind' = [kind EXCEPT ![o] = "none"] /\ UNCHANGED <<crossed, nextTicket>>
          /\ seen' = [seen EXCEPT ![o] = Nothing]
      BY <2>12 DEF CommitRequest, InHand, End, Goto
    <3>2. /\ StatusAfter(o) \in {"OPEN", "ACKNOWLEDGED", "RESOLVED"}
          /\ kind[o] # "resolve" /\ k \in Unresolved => StatusAfter(o) # "RESOLVED"
      BY <3>1 DEF StatusAfter, Unresolved
    <3>3. /\ \A l \in TicketIds \ {k} : ticket'[l] = ticket[l]
          /\ ticket'[k].status = StatusAfter(o)
      BY <3>1
    <3>4. Fresh'
      <4>1. k < nextTicket
        BY <3>1 DEF NoTicket, TicketIds
      <4> QED
        BY <3>1, <3>3, <4>1 DEF TicketIds
    <3>5. ASSUME ~ crossed, ByTicket'
          PROVE  pausedFor' \in Unresolved'
      <4>1. ~ Resumes(o) /\ pausedFor' = pausedFor /\ pausedFor \in Unresolved
        BY <3>1, <3>5
      <4>2. kind[o] # "resolve"
        BY <3>1, <3>5, <4>1 DEF Resumes
      <4> QED
        BY <3>2, <3>3, <4>1, <4>2 DEF Unresolved
    <3>6. InTurn'
      BY <3>1, <3>5
    <3> QED
      BY <3>4, <3>6
  <2>13. ASSUME PauseContact \/ ResumeContact \/ TimePasses \/ UNCHANGED vars
         PROVE  Listed'
    BY <2>13 DEF PauseContact, ResumeContact, ByOperator, TimePasses, rows, races, hands, actors, vars, Unresolved, IsNew
  <2> QED
    BY <2>1, <2>2, <2>3, <2>4, <2>5, <2>6, <2>7, <2>8, <2>9, <2>10, <2>11, <2>12, <2>13
    DEF Next, JobStep, RequestStep, JobFails, DeadlockVictim
<1>3. Listed => SilenceIsListed
  BY DEF Listed, InTurn, ByTicket, SilenceIsListed, Paused
<1> QED
  BY <1>1, <1>2, <1>3, WorkInvariant, FilingInvariant, PTL DEF Spec
---------------------------------------------------------------------------------
(***************************************************************************)
(* One live conversation.  While jobs take turns, what is live is what the *)
(* job at work serves or has set EXPIRED.                                  *)
(***************************************************************************)
FiledUnderRows ==
  /\ \A k \in TicketIds : ticket[k].status # "NONE" => conv[ticket[k].conv] # "NONE"
  /\ \A o \in Operators :
       pc[o] \in {"touching", "touched", "finishing"} /\ kind[o] = "resolve" =>
         conv[mine[o]] # "NONE"

ServesTheLive ==
  ~ overlapped /\ ~ revived =>
    /\ \A t, u \in Tasks : t = u \/ Idle(t) \/ Idle(u)
    /\ \A c, d \in Live : c = d
    /\ \A t \in Tasks : pc[t] = "found" => Live \subseteq {mine[t]}
    /\ \A t \in Tasks : pc[t] \in {"touching", "touched", "finishing"} =>
         Live \subseteq {mine[t], expires[t]}

OneLive == FiledUnderRows /\ ServesTheLive

(* While jobs take turns a contact has one live conversation.              *)
THEOREM OneConversationLives == Spec => []OneLiveConversation
<1> USE EscalationAssumption DEF Actors
<1>1. Init => OneLive
  BY DEF Init, OneLive, FiledUnderRows, ServesTheLive, Live, Idle, NoTicket
<1>2. WorkInv /\ OneLive /\ [Next]_vars => OneLive'
  <2> SUFFICES ASSUME WorkInv, OneLive, [Next]_vars
               PROVE  OneLive'
    OBVIOUS
  <2> USE DEF WorkInv, TypeOK, InHand, TicketsFiled, OneLive, FiledUnderRows, ServesTheLive, Idle
  <2>1. ASSUME NEW t \in Tasks, NEW k \in Kinds, Take(t, k)
        PROVE  OneLive'
    BY <2>1 DEF Take, Begin, Goto, Idle, rows, Live
  <2>2. ASSUME NEW t \in Tasks, GetActive(t)
        PROVE  OneLive'
    <3>1. /\ pc[t] = "loaded" /\ pc' = [pc EXCEPT ![t] = "found"]
          /\ \A b \in Actors \ {t} : mine'[b] = mine[b]
          /\ UNCHANGED <<conv, ticket, kind, expires, overlapped, revived>>
      BY <2>2 DEF GetActive, Goto, rows, races
    <3>2. Live # {} => mine'[t] \in Live
      <4> SUFFICES ASSUME Live # {}
                   PROVE  mine'[t] \in Live
        OBVIOUS
      <4>1. Max(Live) \in Live
        BY NewestIsLive
      <4> QED
        BY <2>2, <4>1 DEF GetActive
    <3> QED
      BY <3>1, <3>2 DEF Live
  <2>3. ASSUME NEW t \in Tasks, OpenConversation(t)
        PROVE  OneLive'
    <3>1. /\ pc[t] = "found" /\ pc' = [pc EXCEPT ![t] = "touching"]
          /\ expires' = [expires EXCEPT ![t] = Expired(t)]
          /\ \A b \in Actors \ {t} : mine'[b] = mine[b]
          /\ UNCHANGED <<conv, ticket, kind, overlapped, revived>>
      BY <2>3 DEF OpenConversation, Goto, rows, races
    <3>2. mine[t] # 0 => mine'[t] = mine[t] \/ expires'[t] = mine[t]
      BY <2>3, <3>1 DEF OpenConversation, MustCreate, Expired
    <3>3. 0 \notin Live
      BY DEF Live, ConvIds
    <3> QED
      BY <3>1, <3>2, <3>3 DEF Live
  <2>4. ASSUME NEW a \in Actors, LockContact(a)
        PROVE  OneLive'
    BY <2>4 DEF LockContact, Goto, rows, races, hands, Live
  <2>5. ASSUME NEW t \in Tasks, NoTicketNeeded(t)
        PROVE  OneLive'
    BY <2>5 DEF NoTicketNeeded, Goto, rows, races, hands, Live
  <2>6. ASSUME NEW t \in Tasks, Escalate(t)
        PROVE  OneLive'
    BY <2>6 DEF Escalate, Goto, rows, races, hands, Live
  <2>7. ASSUME NEW t \in Tasks, Commit(t)
        PROVE  OneLive'
    <3>1. /\ pc[t] = "finishing" /\ mine[t] \in ConvIds /\ UNCHANGED <<overlapped, revived>>
          /\ pc' = [pc EXCEPT ![t] = "idle"] /\ mine' = [mine EXCEPT ![t] = 0]
          /\ kind' = [kind EXCEPT ![t] = "none"] /\ expires' = [expires EXCEPT ![t] = 0]
          /\ ticket' = IF IsNew(t)
                       THEN [ticket EXCEPT ![about[t]] = [conv |-> mine[t], status |-> "OPEN"]]
                       ELSE ticket
      BY <2>7 DEF Commit, End, Goto, races
    <3>2. /\ State(t) \in ConvState \ {"NONE"}
          /\ \A c \in ConvIds : conv'[c] = IF c = mine[t] THEN State(t)
                                       ELSE IF c = expires[t] THEN "EXPIRED" ELSE conv[c]
      <4>1. State(t) \in ConvState \ {"NONE"}
        BY <3>1 DEF State, ConvState
      <4>2. conv' = [c \in ConvIds |-> IF c = mine[t] THEN State(t)
                                     ELSE IF c = expires[t] THEN "EXPIRED" ELSE conv[c]]
        BY <2>7 DEF Commit
      <4> QED
        BY <4>1, <4>2
    <3>3. FiledUnderRows'
      <4>1. /\ conv'[mine[t]] # "NONE"
            /\ \A c \in ConvIds : conv[c] # "NONE" => conv'[c] # "NONE"
        BY <3>1, <3>2
      <4>2. \A k \in TicketIds : ticket'[k].status # "NONE" =>
              \/ ticket'[k].conv = mine[t]
              \/ ticket'[k] = ticket[k]
        BY <3>1 DEF IsNew
      <4>3. \A k \in TicketIds : ticket'[k].status # "NONE" => conv'[ticket'[k].conv] # "NONE"
        BY <4>1, <4>2
      <4> QED
        BY <3>1, <4>1, <4>3
    <3>4. ServesTheLive'
      <4> SUFFICES ASSUME ~ overlapped, ~ revived
                   PROVE  ServesTheLive'
        BY <3>1
      <4>1. Live' \subseteq {mine[t]}
        BY <3>1, <3>2 DEF Live
      <4>2. \A u \in Tasks : pc'[u] = "idle"
        BY <3>1
      <4> QED
        BY <4>1, <4>2
    <3> QED
      BY <3>3, <3>4
  <2>8. ASSUME NEW a \in Actors, Rollback(a)
        PROVE  OneLive'
    BY <2>8 DEF Rollback, End, Goto, rows, races, hands, Live
  <2>9. ASSUME NEW o \in Operators, NEW k \in TicketIds,
               NEW what \in {"resolve", "acknowledge"}, Request(o, k, what)
        PROVE  OneLive'
    BY <2>9 DEF Request, Begin, Goto, Idle, rows, Live
  <2>10. ASSUME NEW o \in Operators, WriteTicket(o)
         PROVE  OneLive'
    <3>1. /\ pc[o] = "loaded" /\ UNCHANGED <<conv, ticket, kind, expires, overlapped, revived>>
          /\ \A a \in Actors \ {o} : pc'[a] = pc[a] /\ mine'[a] = mine[a]
          /\ kind[o] = "resolve" => mine'[o] = ticket[about[o]].conv
      BY <2>10 DEF WriteTicket, Goto, rows, races
    <3>2. FiledUnderRows'
      BY <3>1
    <3>3. ServesTheLive'
      BY <3>1 DEF Live
    <3> QED
      BY <3>2, <3>3
  <2>11. ASSUME NEW o \in Operators, WriteConversation(o)
         PROVE  OneLive'
    BY <2>11 DEF WriteConversation, Goto, rows, races, hands, Live
  <2>12. ASSUME NEW o \in Operators, CommitRequest(o)
         PROVE  OneLive'
    <3> DEFINE k == about[o]
    <3>1. /\ k \in TicketIds /\ ticket[k].status # "NONE" /\ pc[o] = "finishing"
          /\ ticket' = [ticket EXCEPT ![k].status = StatusAfter(o)]
          /\ conv' = IF Activates(o) THEN [conv EXCEPT ![mine[o]] = "ACTIVE"] ELSE conv
          /\ revived' = (revived \/ (Activates(o) /\ conv[mine[o]] = "EXPIRED"))
          /\ pc' = [pc EXCEPT ![o] = "idle"] /\ mine' = [mine EXCEPT ![o] = 0]
          /\ kind' = [kind EXCEPT ![o] = "none"] /\ expires' = [expires EXCEPT ![o] = 0]
          /\ UNCHANGED overlapped
      BY <2>12 DEF CommitRequest, End, Goto
    <3>2. Activates(o) => mine[o] \in ConvIds /\ conv[mine[o]] # "NONE"
      BY <3>1 DEF Activates
    <3>3. \A l \in TicketIds : /\ ticket'[l].conv = ticket[l].conv
                               /\ ticket'[l].status # "NONE" => ticket[l].status # "NONE"
      BY <3>1
    <3>4. \A c \in ConvIds : conv[c] # "NONE" => conv'[c] # "NONE"
      BY <3>1
    <3>5. FiledUnderRows'
      BY <3>1, <3>3, <3>4
    <3>6. ~ revived' => ~ revived /\ Live' = Live
      <4> SUFFICES ASSUME ~ revived'
                   PROVE  ~ revived /\ Live' = Live
        OBVIOUS
      <4>1. ~ revived /\ (Activates(o) => conv[mine[o]] # "EXPIRED")
        BY <3>1
      <4>2. Activates(o) => mine[o] \in Live
        BY <3>2, <4>1 DEF Live, ConvState
      <4> QED
        BY <3>1, <4>1, <4>2 DEF Live
    <3>7. ServesTheLive'
      BY <3>1, <3>6
    <3> QED
      BY <3>5, <3>7
  <2>13. ASSUME PauseContact \/ ResumeContact \/ TimePasses \/ UNCHANGED vars
         PROVE  OneLive'
    BY <2>13 DEF PauseContact, ResumeContact, ByOperator, TimePasses, rows, races, hands, actors, vars, Live
  <2> QED
    BY <2>1, <2>2, <2>3, <2>4, <2>5, <2>6, <2>7, <2>8, <2>9, <2>10, <2>11, <2>12, <2>13
    DEF Next, JobStep, RequestStep, JobFails, DeadlockVictim
<1>3. OneLive => OneLiveConversation
  <2> SUFFICES ASSUME OneLive, ~ overlapped, ~ revived
               PROVE  Cardinality(Live) <= 1
    BY DEF OneLiveConversation
  <2>1. Live = {} \/ \E c \in Live : Live = {c}
    BY DEF OneLive, ServesTheLive
  <2> QED
    <3>1. CASE Live = {}
      BY <3>1, FS_EmptySet
    <3>2. CASE \E c \in Live : Live = {c}
      <4>1. \E c : Live = {c}
        BY <3>2
      <4>2. Cardinality(Live) = 1
        BY <4>1, FS_Singleton
      <4> QED
        BY <4>2
    <3> QED
      BY <2>1, <3>1, <3>2
<1> QED
  BY <1>1, <1>2, <1>3, WorkInvariant, PTL DEF Spec
=================================================================================
