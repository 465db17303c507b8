------------------------- MODULE DeliveryStatusProofs -------------------------
(***************************************************************************)
(* Proofs about DeliveryStatus, for any reports, any number of status jobs *)
(* at a time and any number of failures.                                   *)
(***************************************************************************)
EXTENDS DeliveryStatus, TLAPS

(* A job at work has a report of Meta's.                                   *)
ReportInHand == \A t \in Tasks : pc[t] # "idle" => report[t] \in Reports

TypeInv == TypeOK /\ ReportInHand

(* A job that read a failure and will leave the contact alone did so for a *)
(* contact that is listed, or whose absence is excused.                    *)
SparedIsListed ==
  \A t \in Tasks :
    pc[t] = "mirrored" /\ report[t] = "FAILED" /\ seenConsent[t] = "OPTED_OUT" =>
      suppressed \/ excused

BounceInv == BouncesSuppress /\ SparedIsListed

(* While jobs take turns there is one, and it computes from the row as it  *)
(* is.                                                                     *)
OneJobUpToDate ==
  ~ overlapped =>
    \A t \in Tasks : pc[t] # "idle" =>
      /\ seen[t] = msg
      /\ \A u \in Tasks \ {t} : pc[u] = "idle"

Ranks == {Rank(r) : r \in applied \cup {"SENT"}}

(* What FurthestWins says, without the maximum.                            *)
Furthest ==
  ~ overlapped /\ (\A r \in applied : ~ Terminal(r)) =>
    Rank(msg) \in Ranks /\ \A n \in Ranks : n <= Rank(msg)

-------------------------------------------------------------------------------
(* A rank is a number, and 0 only for what the table does not list.        *)
LEMMA RankIsNatural ==
  ASSUME NEW s \in Statuses
  PROVE  /\ Rank(s) \in 0..3
         /\ Rank(s) = 0 <=> Terminal(s)
  BY DEF Statuses, Rank, Terminal

(* The reports applied rank as numbers.                                    *)
LEMMA RanksAreNaturals ==
  ASSUME TypeOK
  PROVE  Ranks \subseteq Nat
<1>1. \A s \in applied \cup {"SENT"} : s \in Statuses
  BY ReportAssumption DEF TypeOK, Statuses
<1>2. \A s \in applied \cup {"SENT"} : Rank(s) \in Nat
  BY <1>1, RankIsNatural
<1> QED
  BY <1>2 DEF Ranks

(* The lock a task leaves is free, or another's.                           *)
LEMMA ReleasedIsNotOwn ==
  ASSUME TypeOK, NEW t \in Tasks
  PROVE  Released(t) \in (Tasks \cup {Free}) \ {t}
  BY ReportAssumption DEF Released, TypeOK

(* What a transaction leaves of the contact is a status.                   *)
LEMMA WrittenIsStatus ==
  ASSUME TypeOK, NEW loaded, NEW status \in Consents
  PROVE  Written(loaded, status) \in Consents
  BY DEF Written, TypeOK

(* The types, and that a job has its report.                               *)
LEMMA TypeInvariant == Spec => []TypeInv
<1>1. Init => TypeInv
  <2> SUFFICES ASSUME Init
               PROVE  TypeInv
    OBVIOUS
  <2>1. TypeOK
    BY DEF Init, TypeOK, Statuses, Consents
  <2>2. ReportInHand
    BY DEF Init, ReportInHand
  <2> QED
    BY <2>1, <2>2 DEF TypeInv
<1>2. TypeInv /\ [Next]_vars => TypeInv'
  <2> SUFFICES ASSUME TypeInv, [Next]_vars
               PROVE  TypeInv'
    OBVIOUS
  <2> USE ReportAssumption DEF TypeInv, TypeOK, ReportInHand
  <2>1. ASSUME NEW outcome \in {"committed", "rolledback"}, SenderEnds(outcome)
        PROVE  TypeInv'
    BY <2>1 DEF SenderEnds, tasks, contact
  <2>2. ASSUME NEW t \in Tasks, NEW r \in Reports, Load(t, r)
        PROVE  TypeInv'
    <3>1. lock # t
      BY <2>2 DEF Load
    <3>2. (overlapped \/ \E u \in Tasks : pc[u] # "idle") \in BOOLEAN
      OBVIOUS
    <3> QED
      BY <2>2, <3>1, <3>2 DEF Load, rows, contact
  <2>3. ASSUME NEW t \in Tasks, Apply(t)
        PROVE  TypeInv'
    BY <2>3 DEF Apply, rows, contact
  <2>4. ASSUME NEW t \in Tasks, Mirror(t)
        PROVE  TypeInv'
    <3>1. excused' \in BOOLEAN /\ consent \in Consents
      BY <2>4 DEF Mirror
    <3> QED
      BY <2>4, <3>1 DEF Mirror, rows, contact
  <2>5. ASSUME NEW t \in Tasks, Commit(t)
        PROVE  TypeInv'
    <3>1. /\ NewStatus(seen[t], report[t]) \in Statuses
          /\ Bounces(t) \in BOOLEAN
      BY <2>5 DEF Commit, NewStatus, Bounces, Statuses
    <3>2. Released(t) \in (Tasks \cup {Free}) \ {t}
      BY ReleasedIsNotOwn
    <3>3. suppressed' \in BOOLEAN /\ excused' \in BOOLEAN
      BY <2>5, <3>1 DEF Commit
    <3>4. Written(seenConsent[t], "SUPPRESSED") \in Consents
      BY WrittenIsStatus DEF Consents
    <3>5. had' \subseteq Consents /\ consent' \in had'
      BY <2>5, <3>4 DEF Commit
    <3> QED
      BY <2>5, <3>1, <3>2, <3>3, <3>5 DEF Commit, Released
  <2>6. ASSUME NEW t \in Tasks, TaskFails(t)
        PROVE  TypeInv'
    <3>1. Released(t) \in (Tasks \cup {Free}) \ {t}
      BY ReleasedIsNotOwn
    <3> QED
      BY <2>6, <3>1 DEF TaskFails, rows, contact, Released
  <2>7. CASE OptOut \/ OptIn
    <3>1. had' \subseteq Consents /\ consent' \in had'
      BY <2>7, WrittenIsStatus DEF OptOut, OptIn, Consents
    <3> QED
      BY <2>7, <3>1 DEF OptOut, OptIn, tasks
  <2>8. CASE UNCHANGED vars
    BY <2>8 DEF vars, rows, contact, tasks
  <2> QED
    BY <2>1, <2>2, <2>3, <2>4, <2>5, <2>6, <2>7, <2>8 DEF Next, TaskStep
<1> QED
  BY <1>1, <1>2, PTL DEF Spec

-------------------------------------------------------------------------------
(* A rank that is among some and not below any is their maximum.           *)
LEMMA MaxIsTheGreatest ==
  ASSUME NEW S \in SUBSET Nat, NEW m \in S, \A n \in S : n <= m
  PROVE  Max(S) = m
<1>1. \A x \in S : (\A y \in S : x >= y) => x = m
  OBVIOUS
<1>2. \A y \in S : m >= y
  OBVIOUS
<1> QED
  BY <1>1, <1>2 DEF Max

(* One job at a time: what it loaded is what it overwrites.                *)
LEMMA TurnsInvariant == Spec => []OneJobUpToDate
<1>1. Init => OneJobUpToDate
  BY DEF Init, OneJobUpToDate
<1>2. TypeOK /\ OneJobUpToDate /\ [Next]_vars => OneJobUpToDate'
  <2> SUFFICES ASSUME TypeOK, OneJobUpToDate, [Next]_vars, ~ overlapped'
               PROVE  \A t \in Tasks : pc'[t] # "idle" =>
                        /\ seen'[t] = msg'
                        /\ \A u \in Tasks \ {t} : pc'[u] = "idle"
    BY DEF OneJobUpToDate
  <2> USE DEF TypeOK, OneJobUpToDate
  <2>1. ASSUME NEW outcome \in {"committed", "rolledback"}, SenderEnds(outcome)
        PROVE  UNCHANGED <<pc, seen, msg, overlapped>>
    BY <2>1 DEF SenderEnds, tasks
  <2>2. ASSUME NEW t \in Tasks, NEW r \in Reports, Load(t, r)
        PROVE  /\ \A u \in Tasks : pc[u] = "idle"
               /\ pc'[t] # "idle" => seen'[t] = msg'
               /\ \A u \in Tasks \ {t} : pc'[u] = "idle"
    BY <2>2 DEF Load, rows
  <2>3. ASSUME NEW t \in Tasks, Apply(t) \/ Mirror(t)
        PROVE  /\ pc[t] # "idle" /\ UNCHANGED <<seen, msg, overlapped>>
               /\ \A u \in Tasks \ {t} : pc'[u] = pc[u]
    BY <2>3 DEF Apply, Mirror, rows
  <2>4. ASSUME NEW t \in Tasks, Commit(t) \/ TaskFails(t)
        PROVE  /\ pc[t] # "idle" /\ UNCHANGED overlapped /\ pc'[t] = "idle"
               /\ \A u \in Tasks \ {t} : pc'[u] = pc[u]
    BY <2>4 DEF Commit, TaskFails
  <2>5. CASE OptOut \/ OptIn \/ UNCHANGED vars
    BY <2>5 DEF OptOut, OptIn, vars, rows, tasks
  <2> QED
    BY <2>1, <2>2, <2>3, <2>4, <2>5 DEF Next, TaskStep
<1> QED
  BY <1>1, <1>2, TypeInvariant, PTL DEF Spec, TypeInv

(* A job that commits leaves the further of the row and its report.        *)
LEMMA FurthestInvariant == Spec => []Furthest
<1>1. Init => Furthest
  BY DEF Init, Furthest, Ranks, Rank
<1>2. TypeInv /\ OneJobUpToDate /\ Furthest /\ [Next]_vars => Furthest'
  <2> SUFFICES ASSUME TypeInv, OneJobUpToDate, Furthest, [Next]_vars, ~ overlapped',
                      \A r \in applied' : ~ Terminal(r)
               PROVE  Rank(msg') \in Ranks' /\ \A n \in Ranks' : n <= Rank(msg')
    BY DEF Furthest
  <2> USE DEF TypeInv, TypeOK
  <2>1. ASSUME NEW t \in Tasks, Commit(t)
        PROVE  Rank(msg') \in Ranks' /\ \A n \in Ranks' : n <= Rank(msg')
    <3> DEFINE r == report[t]
    <3>1. /\ ~ overlapped /\ pc[t] = "mirrored" /\ r \in Reports
          /\ applied' = applied \cup {r}
          /\ msg' = IF NewStatus(seen[t], r) # seen[t] THEN NewStatus(seen[t], r) ELSE msg
      BY <2>1 DEF Commit, Changes, ReportInHand
    <3>2. seen[t] = msg
      BY <3>1 DEF OneJobUpToDate
    <3>3. /\ Rank(msg) \in Ranks
          /\ \A n \in Ranks : n <= Rank(msg)
          /\ ~ Terminal(r)
      BY <3>1 DEF Furthest
    <3>4. Rank(r) \in 0..3 /\ Rank(msg) \in 0..3
      BY <3>1, RankIsNatural, ReportAssumption
    <3>5. msg' = IF Rank(r) >= Rank(msg) THEN r ELSE msg
      BY <3>1, <3>2, <3>3 DEF NewStatus
    <3>6. Ranks' = Ranks \cup {Rank(r)}
      BY <3>1 DEF Ranks
    <3>7. Ranks \subseteq Nat
      BY RanksAreNaturals
    <3>8. CASE Rank(r) >= Rank(msg)
      BY <3>3, <3>4, <3>5, <3>6, <3>7, <3>8
    <3>9. CASE ~ (Rank(r) >= Rank(msg))
      BY <3>3, <3>4, <3>5, <3>6, <3>7, <3>9
    <3> QED
      BY <3>8, <3>9
  <2>2. ASSUME NEW t \in Tasks, TaskFails(t)
        PROVE  UNCHANGED <<msg, applied, overlapped>>
    BY <2>2 DEF TaskFails, rows
  <2>3. ASSUME NEW t \in Tasks, NEW r \in Reports, Load(t, r)
        PROVE  UNCHANGED <<msg, applied>> /\ ~ overlapped
    BY <2>3 DEF Load, rows
  <2>4. ASSUME NEW t \in Tasks, Apply(t) \/ Mirror(t)
        PROVE  UNCHANGED <<msg, applied, overlapped>>
    BY <2>4 DEF Apply, Mirror, rows
  <2>5. CASE OptOut \/ OptIn \/ (\E o \in {"committed", "rolledback"} : SenderEnds(o)) \/ UNCHANGED vars
    <3>1. UNCHANGED <<msg, applied, overlapped>>
      BY <2>5 DEF OptOut, OptIn, SenderEnds, vars, rows
    <3> QED
      BY <3>1 DEF Furthest, Ranks
  <2>6. CASE UNCHANGED <<msg, applied>> /\ ~ overlapped
    BY <2>6 DEF Furthest, Ranks
  <2> QED
    BY <2>1, <2>2, <2>3, <2>4, <2>5, <2>6 DEF Next, TaskStep
<1> QED
  BY <1>1, <1>2, TypeInvariant, TurnsInvariant, PTL DEF Spec

(* While status jobs take turns, the message stands at the furthest status *)
(* applied, in whatever order reports came: update_delivery_status.        *)
THEOREM FurthestReportWins == Spec => []FurthestWins
<1>1. TypeInv /\ Furthest => FurthestWins
  <2> SUFFICES ASSUME TypeInv, Furthest, ~ overlapped, \A r \in applied : ~ Terminal(r)
               PROVE  TypeOK /\ Rank(msg) = Max(Ranks)
    BY DEF FurthestWins, Ranks, TypeInv
  <2>1. Ranks \subseteq Nat
    BY RanksAreNaturals DEF TypeInv
  <2>2. Rank(msg) \in Ranks /\ \A n \in Ranks : n <= Rank(msg)
    BY DEF Furthest
  <2> QED
    BY <2>1, <2>2, MaxIsTheGreatest DEF TypeInv
<1> QED
  BY <1>1, TypeInvariant, FurthestInvariant, PTL
-------------------------------------------------------------------------------
(* A report is at work in one job, once, and what is stored was reported.  *)
EachOnce ==
  /\ \A t, u \in Tasks : pc[t] # "idle" /\ pc[u] # "idle" /\ report[t] = report[u] => t = u
  /\ \A t \in Tasks : pc[t] # "idle" => report[t] \notin applied
  /\ \A t \in Tasks : pc[t] # "idle" => seen[t] \in applied \cup {"SENT"}
  /\ msg \in applied \cup {"SENT"} /\ rcp \in applied \cup {"SENT"}

(* Until a terminal report a message that was delivered once stays so,     *)
(* whatever snapshots of it there are, and its recipient is not ahead.     *)
NotAhead ==
  (\A r \in applied : ~ Terminal(r)) =>
    /\ rcp = "SENT" <=> msg = "SENT"
    /\ rcp = "READ" => msg = "READ"
    /\ \A t \in Tasks : pc[t] # "idle" /\ seen[t] # "SENT" => msg # "SENT"

(* A job that commits a report other than a terminal one writes it, unless *)
(* it has seen the message at least as far.                                *)
LEMMA CommitWrites ==
  ASSUME TypeInv, EachOnce, NEW t \in Tasks, Commit(t),
         \A r \in applied' : ~ Terminal(r)
  PROVE  /\ report[t] \in {"SENT", "DELIVERED", "READ"} \ applied
         /\ applied' = applied \cup {report[t]}
         /\ report[t] = "SENT" => UNCHANGED <<msg, rcp>>
         /\ report[t] # "SENT" => rcp' = report[t]
         /\ report[t] = "READ" => msg' = "READ"
         /\ report[t] = "DELIVERED" => \/ seen[t] = "SENT" /\ msg' = "DELIVERED"
                                       \/ seen[t] = "READ" /\ msg' = msg
<1> DEFINE r == report[t]
<1>1. /\ pc[t] # "idle" /\ r \in Reports /\ applied' = applied \cup {r}
      /\ msg' = IF NewStatus(seen[t], r) # seen[t] THEN NewStatus(seen[t], r) ELSE msg
      /\ rcp' = IF r \in {"DELIVERED", "READ", "FAILED"} THEN r ELSE rcp
  BY DEF Commit, Changes, TypeInv, ReportInHand
<1>2. r \in {"SENT", "DELIVERED", "READ"} \ applied
  BY <1>1, ReportAssumption DEF EachOnce, Statuses, Terminal
<1>3. seen[t] \in {"SENT", "DELIVERED", "READ"} \ ({r} \ {"SENT"})
  <2>1. seen[t] \in applied \cup {"SENT"}
    BY <1>1 DEF EachOnce
  <2>2. \A a \in applied : a \in Statuses /\ ~ Terminal(a)
    BY <1>1, ReportAssumption DEF TypeInv, TypeOK
  <2> QED
    BY <1>2, <2>1, <2>2 DEF Statuses, Terminal
<1>4. CASE r = "SENT"
  <2>1. NewStatus(seen[t], r) = seen[t]
    BY <1>3, <1>4 DEF NewStatus, Rank, Terminal
  <2> QED
    BY <1>1, <1>2, <1>4, <2>1
<1>5. CASE r = "DELIVERED"
  <2>1. NewStatus("SENT", "DELIVERED") = "DELIVERED" /\ NewStatus("READ", "DELIVERED") = "READ"
    BY DEF NewStatus, Rank, Terminal
  <2> QED
    BY <1>1, <1>2, <1>3, <1>5, <2>1
<1>6. CASE r = "READ"
  <2>1. NewStatus("SENT", "READ") = "READ" /\ NewStatus("DELIVERED", "READ") = "READ"
    BY DEF NewStatus, Rank, Terminal
  <2> QED
    BY <1>1, <1>2, <1>3, <1>6, <2>1
<1> QED
  BY <1>2, <1>4, <1>5, <1>6

(* No report is applied twice, and none makes a delivered message undone.  *)
LEMMA TrailInvariant == Spec => [](EachOnce /\ NotAhead)
<1> DEFINE Inv == EachOnce /\ NotAhead
<1>1. Init => Inv
  BY DEF Init, EachOnce, NotAhead
<1>2. TypeInv /\ Inv /\ [Next]_vars => Inv'
  <2> SUFFICES ASSUME TypeInv, EachOnce, NotAhead, [Next]_vars
               PROVE  Inv'
    OBVIOUS
  <2> USE DEF TypeInv, TypeOK
  <2>1. CASE /\ UNCHANGED <<msg, rcp, applied, report, seen>>
             /\ \A t \in Tasks : pc'[t] = "idle" <=> pc[t] = "idle"
    BY <2>1 DEF EachOnce, NotAhead
  <2>2. CASE \E t \in Tasks : Apply(t) \/ Mirror(t)
    <3>1. /\ UNCHANGED <<msg, rcp, applied, report, seen>>
          /\ \A t \in Tasks : pc'[t] = "idle" <=> pc[t] = "idle"
      BY <2>2 DEF Apply, Mirror, rows
    <3> QED
      BY <2>1, <3>1
  <2>3. CASE OptOut \/ OptIn \/ (\E o \in {"committed", "rolledback"} : SenderEnds(o)) \/ UNCHANGED vars
    <3>1. UNCHANGED <<msg, rcp, applied, report, seen, pc>>
      BY <2>3 DEF OptOut, OptIn, SenderEnds, vars, rows, tasks
    <3> QED
      BY <2>1, <3>1
  <2>4. ASSUME NEW t \in Tasks, NEW r \in Reports, Load(t, r)
        PROVE  Inv'
    <3>1. /\ r \notin applied /\ \A u \in Tasks : report[u] # r
          /\ UNCHANGED <<msg, rcp, applied>>
          /\ \A u \in Tasks \ {t} :
               pc'[u] = pc[u] /\ report'[u] = report[u] /\ seen'[u] = seen[u]
          /\ pc'[t] # "idle" => report'[t] = r /\ seen'[t] = msg
      BY <2>4 DEF Load, Waiting, InProgress, rows
    <3>2. EachOnce'
      BY <3>1 DEF EachOnce
    <3>3. NotAhead'
      BY <3>1 DEF NotAhead
    <3> QED
      BY <3>2, <3>3
  <2>5. ASSUME NEW t \in Tasks, TaskFails(t)
        PROVE  Inv'
    <3>1. /\ UNCHANGED <<msg, rcp, applied, seen>> /\ pc'[t] = "idle"
          /\ \A u \in Tasks \ {t} : pc'[u] = pc[u] /\ report'[u] = report[u]
      BY <2>5 DEF TaskFails, rows
    <3> QED
      BY <3>1 DEF EachOnce, NotAhead
  <2>6. ASSUME NEW t \in Tasks, Commit(t)
        PROVE  Inv'
    <3>1. /\ UNCHANGED seen /\ pc[t] # "idle" /\ pc'[t] = "idle"
          /\ \A u \in Tasks \ {t} : pc'[u] = pc[u] /\ report'[u] = report[u]
          /\ applied' = applied \cup {report[t]}
          /\ msg' \in {msg, seen[t], report[t]} /\ rcp' \in {rcp, report[t]}
      BY <2>6 DEF Commit, NewStatus
    <3>2. EachOnce'
      BY <3>1 DEF EachOnce
    <3>3. ASSUME \A r \in applied' : ~ Terminal(r)
          PROVE  /\ rcp' = "SENT" <=> msg' = "SENT"
                 /\ rcp' = "READ" => msg' = "READ"
                 /\ \A u \in Tasks : pc'[u] # "idle" /\ seen'[u] # "SENT" => msg' # "SENT"
      <4>1. /\ rcp = "SENT" <=> msg = "SENT"
            /\ rcp = "READ" => msg = "READ"
            /\ \A u \in Tasks : pc[u] # "idle" /\ seen[u] # "SENT" => msg # "SENT"
        BY <3>1, <3>3 DEF NotAhead
      <4> QED
        BY <2>6, <3>1, <3>3, <4>1, CommitWrites
    <3> QED
      BY <3>2, <3>3 DEF NotAhead
  <2> QED
    BY <2>2, <2>3, <2>4, <2>5, <2>6 DEF Next, TaskStep
<1> QED
  BY <1>1, <1>2, TypeInvariant, PTL DEF Spec

(* The recipient row, which a campaign's figures are counted from, shows a *)
(* delivery when the message does and is never ahead of it, however status *)
(* jobs overlap: handle_status and update_delivery_status.                 *)
THEOREM RecipientIsBehind == Spec => []RecipientTrails
<1>1. TypeInv /\ EachOnce /\ NotAhead => RecipientTrails
  <2> SUFFICES ASSUME TypeInv, EachOnce, NotAhead, \A r \in applied : ~ Terminal(r)
               PROVE  (rcp = "SENT" <=> msg = "SENT") /\ Rank(rcp) <= Rank(msg)
    BY DEF RecipientTrails
  <2>1. \A a \in applied \cup {"SENT"} : a \in {"SENT", "DELIVERED", "READ"}
    BY ReportAssumption DEF TypeInv, TypeOK, Statuses, Terminal
  <2>2. msg \in {"SENT", "DELIVERED", "READ"} /\ rcp \in {"SENT", "DELIVERED", "READ"}
    BY <2>1 DEF EachOnce
  <2>3. (rcp = "SENT" <=> msg = "SENT") /\ (rcp = "READ" => msg = "READ")
    BY DEF NotAhead
  <2> QED
    BY <2>2, <2>3 DEF Rank
<1> QED
  BY <1>1, TypeInvariant, TrailInvariant, PTL
-------------------------------------------------------------------------------
(* A bounce lists the contact; only an opt-in takes the entry off, and a   *)
(* job that leaves the contact alone has seen why.                         *)
LEMMA BounceInvariant == Spec => []BounceInv
<1>1. Init => BounceInv
  BY DEF Init, BounceInv, SparedIsListed, BouncesSuppress
<1>2. TypeInv /\ EachOnce /\ BounceInv /\ [Next]_vars => BounceInv'
  <2> SUFFICES ASSUME TypeInv, EachOnce, BounceInv, [Next]_vars
               PROVE  BounceInv'
    OBVIOUS
  <2> USE DEF TypeInv, TypeOK, BounceInv, BouncesSuppress, SparedIsListed
  <2>1. ASSUME NEW t \in Tasks, NEW r \in Reports, Load(t, r)
        PROVE  BounceInv'
    BY <2>1 DEF Load, rows, contact
  <2>2. ASSUME NEW t \in Tasks, Apply(t) \/ TaskFails(t)
        PROVE  BounceInv'
    BY <2>2 DEF Apply, TaskFails, rows, contact
  <2>3. ASSUME NEW t \in Tasks, Mirror(t)
        PROVE  BounceInv'
    <3>1. /\ pc[t] # "idle" /\ UNCHANGED <<suppressed, applied, report>>
          /\ seenConsent'[t] = consent
          /\ report[t] # "FAILED" => UNCHANGED excused
          /\ report[t] = "FAILED" => (excused' <=> consent = "OPTED_OUT" /\ ~ suppressed)
          /\ \A u \in Tasks \ {t} : pc'[u] = pc[u] /\ seenConsent'[u] = seenConsent[u]
      BY <2>3 DEF Mirror, rows, contact
    <3>2. report[t] = "FAILED" => "FAILED" \notin applied
      BY <3>1 DEF EachOnce
    <3>3. \A u \in Tasks \ {t} : pc[u] # "idle" /\ report[t] = "FAILED" => report[u] # "FAILED"
      BY <3>1 DEF EachOnce
    <3>4. BouncesSuppress'
      BY <3>1, <3>2
    <3>5. SparedIsListed'
      BY <3>1, <3>3
    <3> QED
      BY <3>4, <3>5
  <2>4. ASSUME NEW t \in Tasks, Commit(t)
        PROVE  BounceInv'
    <3>1. /\ pc[t] = "mirrored" /\ pc'[t] = "idle" /\ UNCHANGED seenConsent
          /\ applied' = applied \cup {report[t]}
          /\ suppressed' <=> suppressed \/ Bounces(t)
          /\ excused' <=> excused /\ ~ Bounces(t)
          /\ \A u \in Tasks \ {t} : pc'[u] = pc[u] /\ report'[u] = report[u]
      BY <2>4 DEF Commit, Bounces
    <3>2. suppressed \/ excused => suppressed' \/ excused'
      BY <3>1
    <3>3. BouncesSuppress'
      BY <3>1, <3>2 DEF Bounces
    <3>4. SparedIsListed'
      BY <3>1, <3>2
    <3> QED
      BY <3>3, <3>4
  <2>5. CASE OptOut \/ OptIn
    BY <2>5 DEF OptOut, OptIn, tasks
  <2>6. CASE (\E o \in {"committed", "rolledback"} : SenderEnds(o)) \/ UNCHANGED vars
    <3>1. UNCHANGED <<suppressed, excused, applied, pc, report, seenConsent>>
      BY <2>6 DEF SenderEnds, vars, rows, contact, tasks
    <3> QED
      BY <3>1
  <2> QED
    BY <2>1, <2>2, <2>3, <2>4, <2>5, <2>6 DEF Next, TaskStep
<1> QED
  BY <1>1, <1>2, TypeInvariant, TrailInvariant, PTL DEF Spec

(* A permanent failure that was applied leaves the contact listed, unless  *)
(* it has opted in since or was spared off the list as opted out:          *)
(* handle_status and suppress, racing with the contact's own words.        *)
THEOREM BouncesAreListed == Spec => []BouncesSuppress
<1>1. BounceInv => BouncesSuppress
  BY DEF BounceInv
<1> QED
  BY <1>1, BounceInvariant, PTL
===============================================================================
