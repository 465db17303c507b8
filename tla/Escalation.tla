------------------------------- MODULE Escalation -------------------------------
(***************************************************************************)
(* One contact's conversations and escalation tickets, under concurrent    *)
(* jobs for the messages it sends and requests of operators.               *)
(*                                                                         *)
(*   app/services/escalation_service.py     escalate, resolve, acknowledge *)
(*   app/repositories/consent.py            EscalationRepository           *)
(*   app/repositories/conversations.py      ConversationRepository         *)
(*   app/services/conversation_service.py   handle_inbound                 *)
(*   app/api/admin.py                       escalations, contact pauses    *)
(*                                                                         *)
(* A session keeps the rows as it loaded them and writes only attributes   *)
(* whose value changed against that snapshot; a flushed row stays locked   *)
(* until the transaction ends, and other sessions see it only then         *)
(* (PostgreSQL, READ COMMITTED).  A job locks its conversation and then    *)
(* the contact; a resolution locks the ticket, the contact and then the    *)
(* conversation, so the two can deadlock.                                  *)
(*                                                                         *)
(* A message is what compose makes of it: CHAT, answered by the bot;       *)
(* UNSURE, escalated while the bot goes on answering; PERSON, escalated    *)
(* with the bot paused.                                                    *)
(*                                                                         *)
(* An operator whose name has an underscore is a plausible wrong version   *)
(* of the definition that follows it.                                      *)
(***************************************************************************)
EXTENDS Naturals, FiniteSets, FiniteSetsExt

CONSTANTS
  Tasks,             \* jobs that run at the same time
  Operators,         \* requests of operators that run at the same time
  MaxMessages,       \* bound: messages of the contact
  MaxRequests,       \* bound: requests of operators
  MaxExpiries,       \* bound: silences longer than conversation_expiry_hours
  MaxFailures        \* bound: jobs that raise

Actors == Tasks \cup Operators
Free   == "free"
Kinds  == {"CHAT", "UNSURE", "PERSON"}

ASSUME EscalationAssumption ==
  /\ IsFiniteSet(Tasks) /\ Tasks \cap Operators = {} /\ Free \notin Actors
  /\ {MaxMessages, MaxRequests, MaxExpiries, MaxFailures} \subseteq Nat

(* Ids are taken at the insert, and not given back by a rollback.          *)
ConvIds   == 1..MaxMessages
TicketIds == 1..MaxMessages
ByHand    == MaxMessages + 1          \* pause_reason of an operator's pause

VARIABLES
  conv,          \* conversations.state of each id; NONE: no such row
  due,           \* conversations whose expires_at has passed
  ticket,        \* escalations: conversation and status
  pausedFor,     \* contacts.pause_reason: a ticket, ByHand, or 0: not paused
  nextConv, nextTicket,
  contactLock, convLock, ticketLock,
  pc,
  kind,          \* the message of a job, the request of an operator
  mine,          \* the conversation a job serves
  about,         \* the ticket an actor works on
  seen,          \* what an actor loaded
  expires,       \* the conversation a job has set EXPIRED, or 0
  overlapped,    \* history: two jobs have run side by side
  crossed,       \* history: a job and an operator have run side by side
  revived,       \* history: a resolution has set an expired conversation ACTIVE
  again,         \* history: tickets a request has changed after their end
  handed,        \* history: tickets that have handed the contact to a person
  lifted,        \* history: those the bot was since resumed over
  messages, requests, expiries, failures

rows    == <<conv, due, ticket, pausedFor>>
locks   == <<contactLock, convLock, ticketLock>>
actors  == <<pc, kind, mine, about, seen, expires>>
races   == <<overlapped, crossed, revived, again>>
hands   == <<handed, lifted>>
bounds  == <<messages, requests, expiries, failures>>
vars    == <<rows, nextConv, nextTicket, locks, actors, races, hands, bounds>>

ConvState == {"NONE", "ACTIVE", "ESCALATED", "EXPIRED"}
NoTicket  == [conv |-> 0, status |-> "NONE"]
Nothing   == [paused |-> FALSE, state |-> "NONE", due |-> FALSE, status |-> "NONE"]

Live       == {c \in ConvIds : conv[c] \in {"ACTIVE", "ESCALATED"}}
Unresolved == {k \in TicketIds : ticket[k].status \in {"OPEN", "ACKNOWLEDGED"}}
Paused     == pausedFor # 0
Idle(a)    == pc[a] = "idle"

TypeOK ==
  /\ conv \in [ConvIds -> ConvState] /\ due \subseteq ConvIds
  /\ ticket \in [TicketIds -> [conv : {0} \cup ConvIds,
                    status : {"NONE", "OPEN", "ACKNOWLEDGED", "RESOLVED"}]]
  /\ pausedFor \in 0..ByHand
  /\ nextConv \in 1..MaxMessages + 1 /\ nextTicket \in 1..MaxMessages + 1
  /\ contactLock \in Actors \cup {Free}
  /\ convLock \in [ConvIds -> Actors \cup {Free}]
  /\ ticketLock \in [TicketIds -> Operators \cup {Free}]
  /\ pc \in [Actors -> {"idle", "loaded", "found", "touching", "touched",
                        "finishing"}]
  /\ kind \in [Actors -> Kinds \cup {"resolve", "acknowledge", "none"}]
  /\ mine \in [Actors -> {0} \cup ConvIds] /\ about \in [Actors -> {0} \cup TicketIds]
  /\ seen \in [Actors -> [paused : BOOLEAN, state : ConvState, due : BOOLEAN,
                 status : {"NONE", "OPEN", "ACKNOWLEDGED", "RESOLVED"}]]
  /\ expires \in [Actors -> {0} \cup ConvIds]
  /\ \A a \in Actors : Idle(a) =>
       /\ contactLock # a
       /\ \A c \in ConvIds : convLock[c] # a
       /\ \A k \in TicketIds : ticketLock[k] # a

Init ==
  /\ conv = [c \in ConvIds |-> "NONE"] /\ due = {}
  /\ ticket = [k \in TicketIds |-> NoTicket]
  /\ pausedFor = 0
  /\ nextConv = 1 /\ nextTicket = 1
  /\ contactLock = Free
  /\ convLock = [c \in ConvIds |-> Free]
  /\ ticketLock = [k \in TicketIds |-> Free]
  /\ pc = [a \in Actors |-> "idle"]
  /\ kind = [a \in Actors |-> "none"]
  /\ mine = [a \in Actors |-> 0]
  /\ about = [a \in Actors |-> 0]
  /\ seen = [a \in Actors |-> Nothing]
  /\ expires = [a \in Actors |-> 0]
  /\ overlapped = FALSE /\ crossed = FALSE /\ revived = FALSE /\ again = {}
  /\ handed = {} /\ lifted = {}
  /\ messages = 0 /\ requests = 0 /\ expiries = 0 /\ failures = 0
---------------------------------------------------------------------------------
Goto(a, label) == pc' = [pc EXCEPT ![a] = label]

Begin(a, k) ==
  /\ Idle(a)
  /\ kind' = [kind EXCEPT ![a] = k]
  /\ Goto(a, "loaded")

(* The transaction ends, and with it its locks.                            *)
Released_ContactOnly(a) ==
  /\ contactLock' = IF contactLock = a THEN Free ELSE contactLock
  /\ UNCHANGED <<convLock, ticketLock>>
Released(a) ==
  /\ contactLock' = IF contactLock = a THEN Free ELSE contactLock
  /\ convLock' = [c \in ConvIds |-> IF convLock[c] = a THEN Free ELSE convLock[c]]
  /\ ticketLock' = [k \in TicketIds |-> IF ticketLock[k] = a THEN Free ELSE ticketLock[k]]

End(a) ==
  /\ Released(a)
  /\ Goto(a, "idle")
  /\ kind' = [kind EXCEPT ![a] = "none"]
  /\ mine' = [mine EXCEPT ![a] = 0]
  /\ about' = [about EXCEPT ![a] = 0]
  /\ seen' = [seen EXCEPT ![a] = Nothing]
  /\ expires' = [expires EXCEPT ![a] = 0]
  /\ UNCHANGED <<nextConv, nextTicket>>

Rollback(a) == End(a) /\ UNCHANGED <<rows, races, hands>>
---------------------------------------------------------------------------------
(***************************************************************************)
(* A job: handle_inbound.                                                  *)
(***************************************************************************)
Take(t, k) ==
  /\ messages < MaxMessages
  /\ messages' = messages + 1
  /\ Begin(t, k)
  /\ seen' = [seen EXCEPT ![t].paused = Paused]
  /\ overlapped' = (overlapped \/ \E u \in Tasks : ~ Idle(u))
  /\ crossed' = (crossed \/ \E o \in Operators : ~ Idle(o))
  /\ UNCHANGED <<rows, nextConv, nextTicket, locks, mine, about, expires,
                 revived, again, hands, requests, expiries, failures>>

(* get_active: the newest conversation that is neither closed nor expired. *)
GetActive(t) ==
  /\ pc[t] = "loaded"
  /\ IF Live = {} THEN UNCHANGED <<mine, seen>>
     ELSE LET c == Max(Live)
          IN /\ mine' = [mine EXCEPT ![t] = c]
             /\ seen' = [seen EXCEPT ![t].state = conv[c], ![t].due = (c \in due)]
  /\ Goto(t, "found")
  /\ UNCHANGED <<rows, nextConv, nextTicket, locks, kind, about, expires,
                 races, hands, bounds>>

(* get_or_create and touch_inbound: the conversation found is extended, or *)
(* it is set EXPIRED and a new one created, or there was none.             *)
MustCreate(t) == mine[t] = 0 \/ seen[t].due

LockConversation(t) ==
  IF mine[t] = 0 THEN UNCHANGED convLock
  ELSE convLock[mine[t]] = Free /\ convLock' = [convLock EXCEPT ![mine[t]] = t]

Expired_Left(t) == 0
Expired(t) == IF seen[t].due THEN mine[t] ELSE 0

OpenConversation(t) ==
  /\ pc[t] = "found"
  /\ LockConversation(t)
  /\ expires' = [expires EXCEPT ![t] = Expired(t)]
  /\ IF MustCreate(t)
     THEN /\ mine' = [mine EXCEPT ![t] = nextConv]
          /\ nextConv' = nextConv + 1
          /\ seen' = [seen EXCEPT ![t].state = "ACTIVE"]
     ELSE UNCHANGED <<mine, nextConv, seen>>
  /\ Goto(t, "touching")
  /\ UNCHANGED <<rows, nextTicket, contactLock, ticketLock, kind, about, races,
                 hands, bounds>>

(* The contact's row: touch_inbound of a job, set_bot_paused of a request. *)
LockContact(a) ==
  /\ pc[a] = "touching"
  /\ contactLock = Free
  /\ contactLock' = a
  /\ Goto(a, "touched")
  /\ UNCHANGED <<rows, nextConv, nextTicket, convLock, ticketLock, kind, mine,
                 about, seen, expires, races, hands, bounds>>

(* A paused bot is silent; a chat needs no ticket.                         *)
NoTicketNeeded(t) ==
  /\ pc[t] = "touched"
  /\ seen[t].paused \/ kind[t] = "CHAT"
  /\ Goto(t, "finishing")
  /\ UNCHANGED <<rows, nextConv, nextTicket, locks, kind, mine, about, seen,
                 expires, races, hands, bounds>>

(* escalate: the newest unresolved ticket of the conversation, or a new    *)
(* one.                                                                    *)
Reusable_OpenOnly(t) ==
  {k \in Unresolved : ticket[k].conv = mine[t] /\ ticket[k].status = "OPEN"}
Reusable(t) == {k \in Unresolved : ticket[k].conv = mine[t]}

Escalate(t) ==
  /\ pc[t] = "touched"
  /\ ~ seen[t].paused /\ kind[t] # "CHAT"
  /\ IF Reusable(t) # {}
     THEN /\ about' = [about EXCEPT ![t] = Max(Reusable(t))]
          /\ UNCHANGED nextTicket
     ELSE /\ about' = [about EXCEPT ![t] = nextTicket]
          /\ nextTicket' = nextTicket + 1
  /\ Goto(t, "finishing")
  /\ UNCHANGED <<rows, nextConv, locks, kind, mine, seen, expires, races, hands,
                 bounds>>

(* mark_escalated writes the state only if the snapshot had another.       *)
IsNew(t)  == about[t] # 0 /\ ticket[about[t]] = NoTicket
Marks(t)  == IsNew(t) /\ seen[t].state # "ESCALATED"
State(t)  == IF Marks(t) THEN "ESCALATED"
             ELSE IF conv[mine[t]] = "NONE" THEN "ACTIVE" ELSE conv[mine[t]]
Pauses_NewOnly(t) == kind[t] = "PERSON" /\ about[t] # 0 /\ IsNew(t)
Pauses(t) == kind[t] = "PERSON" /\ about[t] # 0

Commit(t) ==
  /\ pc[t] = "finishing"
  /\ conv' = [c \in ConvIds |-> IF c = mine[t] THEN State(t)
                              ELSE IF c = expires[t] THEN "EXPIRED" ELSE conv[c]]
  /\ due' = due \ {mine[t]}
  /\ ticket' = IF IsNew(t)
               THEN [ticket EXCEPT ![about[t]] = [conv |-> mine[t], status |-> "OPEN"]]
               ELSE ticket
  /\ pausedFor' = IF Pauses(t) THEN about[t] ELSE pausedFor
  /\ handed' = handed \cup (IF kind[t] = "PERSON" THEN {about[t]} \ {0} ELSE {})
  /\ lifted' = IF pausedFor' # 0 THEN {} ELSE lifted
  /\ End(t)
  /\ UNCHANGED <<races, bounds>>

JobFails(t) ==
  /\ ~ Idle(t)
  /\ failures < MaxFailures
  /\ failures' = failures + 1
  /\ Rollback(t)
  /\ UNCHANGED <<messages, requests, expiries>>
---------------------------------------------------------------------------------
(***************************************************************************)
(* Requests of operators: resolve and acknowledge a ticket that exists.    *)
(***************************************************************************)
Request(o, k, what) ==
  /\ requests < MaxRequests
  /\ requests' = requests + 1
  /\ ticket[k] # NoTicket
  /\ Begin(o, what)
  /\ about' = [about EXCEPT ![o] = k]
  /\ seen' = [seen EXCEPT ![o].status = ticket[k].status]
  /\ crossed' = (crossed \/ \E t \in Tasks : ~ Idle(t))
  /\ UNCHANGED <<rows, nextConv, nextTicket, locks, mine, expires, overlapped,
                 revived, again, hands, messages, expiries, failures>>

(* The ticket is flushed; a resolution then loads conversation and contact.*)
WriteTicket(o) ==
  LET k == about[o]
      c == ticket[k].conv
  IN /\ pc[o] = "loaded"
     /\ ticketLock[k] = Free
     /\ ticketLock' = [ticketLock EXCEPT ![k] = o]
     /\ IF kind[o] = "resolve"
        THEN /\ mine' = [mine EXCEPT ![o] = c]
             /\ seen' = [seen EXCEPT ![o].state = conv[c], ![o].paused = Paused]
             /\ Goto(o, IF Paused THEN "touching" ELSE "touched")
        ELSE Goto(o, "finishing") /\ UNCHANGED <<mine, seen>>
     /\ UNCHANGED <<rows, nextConv, nextTicket, contactLock, convLock, kind,
                    about, expires, races, hands, bounds>>

(* set_state ACTIVE writes, and waits, only if the snapshot had another.   *)
Activates(o) == kind[o] = "resolve" /\ seen[o].state # "ACTIVE"

WriteConversation(o) ==
  /\ pc[o] = "touched"
  /\ IF Activates(o)
     THEN convLock[mine[o]] = Free /\ convLock' = [convLock EXCEPT ![mine[o]] = o]
     ELSE UNCHANGED convLock
  /\ Goto(o, "finishing")
  /\ UNCHANGED <<rows, nextConv, nextTicket, contactLock, ticketLock, kind, mine,
                 about, seen, expires, races, hands, bounds>>

StatusAfter(o) ==
  LET target == IF kind[o] = "resolve" THEN "RESOLVED" ELSE "ACKNOWLEDGED"
  IN IF seen[o].status = target THEN ticket[about[o]].status ELSE target

Resumes_Never(o) == FALSE
Resumes(o) == kind[o] = "resolve" /\ seen[o].paused

CommitRequest(o) ==
  LET k == about[o]
  IN /\ pc[o] = "finishing"
     /\ ticket' = [ticket EXCEPT ![k].status = StatusAfter(o)]
     /\ pausedFor' = IF Resumes(o) THEN 0 ELSE pausedFor
     /\ conv' = IF Activates(o) THEN [conv EXCEPT ![mine[o]] = "ACTIVE"] ELSE conv
     /\ lifted' = IF Resumes(o) THEN handed ELSE lifted
     /\ again' = IF ticket[k].status = "RESOLVED" THEN again \cup {k} ELSE again
     /\ revived' = (revived \/ (Activates(o) /\ conv[mine[o]] = "EXPIRED"))
     /\ End(o)
     /\ UNCHANGED <<due, overlapped, crossed, handed, bounds>>

(* The contact's pause and resume requests, one statement each.            *)
ByOperator ==
  /\ requests < MaxRequests
  /\ requests' = requests + 1
  /\ contactLock = Free
  /\ UNCHANGED <<conv, due, ticket, nextConv, nextTicket, locks, actors, races,
                 handed, messages, expiries, failures>>

PauseContact  == ByOperator /\ pausedFor' = ByHand /\ lifted' = {}
ResumeContact == ByOperator /\ Paused /\ pausedFor' = 0 /\ lifted' = handed
---------------------------------------------------------------------------------
(* conversation_expiry_hours pass without a message.                       *)
TimePasses ==
  /\ expiries < MaxExpiries
  /\ expiries' = expiries + 1
  /\ \A a \in Actors : Idle(a)
  /\ Live \ due # {}
  /\ due' = due \cup Live
  /\ UNCHANGED <<conv, ticket, pausedFor, nextConv, nextTicket, locks, actors,
                 races, hands, messages, requests, failures>>

(* Who holds the row an actor's next statement writes.                     *)
Blocker(a) ==
  CASE pc[a] = "loaded" /\ a \in Operators -> ticketLock[about[a]]
    [] pc[a] = "found" /\ mine[a] # 0 -> convLock[mine[a]]
    [] pc[a] = "touching" -> contactLock
    [] pc[a] = "touched" /\ a \in Operators /\ Activates(a) -> convLock[mine[a]]
    [] OTHER -> Free

(* The server ends one of two transactions that wait for each other.       *)
DeadlockVictim(a) ==
  /\ Blocker(a) # Free
  /\ Blocker(Blocker(a)) = a
  /\ Rollback(a)
  /\ UNCHANGED bounds

JobStep(t) ==
  \/ GetActive(t) \/ OpenConversation(t) \/ LockContact(t) \/ NoTicketNeeded(t)
  \/ Escalate(t) \/ Commit(t) \/ DeadlockVictim(t)

RequestStep(o) ==
  \/ WriteTicket(o) \/ LockContact(o) \/ WriteConversation(o)
  \/ CommitRequest(o) \/ DeadlockVictim(o)

Next ==
  \/ \E t \in Tasks : (\E k \in Kinds : Take(t, k)) \/ JobStep(t) \/ JobFails(t)
  \/ \E o \in Operators :
       \/ \E k \in TicketIds, what \in {"resolve", "acknowledge"} : Request(o, k, what)
       \/ RequestStep(o)
  \/ PauseContact \/ ResumeContact \/ TimePasses

Spec == Init /\ [][Next]_vars
---------------------------------------------------------------------------------
(* escalate: a customer who sends five angry messages gets one ticket.     *)
(* The look-up and the insert are not atomic; what makes it true is that   *)
(* touch_inbound has locked conversation and contact by then, and that an  *)
(* acknowledged ticket still counts.  One acknowledged after it was        *)
(* resolved is open again beside its successor.                            *)
OneOpenTicket ==
  /\ TypeOK
  /\ \A k, l \in Unresolved \ again : ticket[k].conv = ticket[l].conv => k = l

(* Without two jobs side by side and without a resolution that revives an  *)
(* expired conversation, the contact has one live conversation.            *)
OneLiveConversation == ~ overlapped /\ ~ revived => Cardinality(Live) <= 1

(* A ticket that handed the customer to a person keeps the bot silent, a   *)
(* reused one included, until an operator's request resumes the contact.   *)
HandOverSilences == (handed \cap Unresolved) \ lifted # {} => Paused

(* No silence without a ticket that says why: a contact paused by a ticket *)
(* has it on the list of open ones, unless a resolution ran while a job    *)
(* did (it loads the contact before the job's pause, and writes nothing).  *)
SilenceIsListed ==
  ~ crossed /\ Paused /\ pausedFor # ByHand => pausedFor \in Unresolved

(* Jobs and requests end although they lock the contact and a conversation *)
(* in opposite orders: whoever holds a lock is at work, and in every group *)
(* that waits only for itself a job and a resolution wait for each other,  *)
(* of which the server ends one; two jobs never do.                        *)
Stuck(S) == \A a \in S : Blocker(a) \in S

WaitsEnd ==
  /\ \A a \in Actors : Blocker(a) # Free => ~ Idle(Blocker(a))
  /\ \A S \in (SUBSET Actors) \ {{}} : Stuck(S) =>
       \E t \in S \cap Tasks, o \in S \cap Operators : Blocker(t) = o /\ Blocker(o) = t
=================================================================================
