---------------------------- MODULE SendGateProofs ----------------------------
(***************************************************************************)
(* Proofs about SendGate, for any contacts, configurations and imports, a  *)
(* day of any length and any number of acts and edits.                     *)
(***************************************************************************)
EXTENDS SendGate, TLAPS

(* The gate's answer for a contact, on what it looked at when staged.      *)
Allowed(c) ==
  Decision(staged.config, TemplateOf(staged.config), staged.status[c], FALSE, FALSE,
           staged.hour) = "ok"

(* Whoever is to be sent to, or may have been, has passed the gate; an     *)
(* opted-in status it saw has its record.                                  *)
StagedAllowed ==
  \A c \in Contacts :
    /\ rcp[c] \in {"ELIGIBLE", "SENT", "FAILED"} => Allowed(c)
    /\ campaign # "NONE" /\ staged.status[c] = "OPTED_IN" => c \in evidence

(* A name that is free has no recipients, so nothing is staged twice.      *)
FreeNameIsEmpty == campaign = "NONE" => \A c \in Contacts : rcp[c] = "NONE"

(* The list holds exactly the contacts last heard to withdraw.             *)
ListIsLastWord == \A c \in Contacts : word[c] \in {"stop", "bounce", "operator"} <=> c \in listed

(* A status OPTED_IN has its record.                                       *)
StatusOnRecord == \A c \in Contacts : status[c] = "OPTED_IN" => c \in evidence

(* Whose template is being posted had, at the check, not withdrawn.        *)
CheckedWord == sending # Nobody => wordThen \notin {"stop", "bounce", "operator"}

GateInv ==
  TypeOK /\ ListIsLastWord /\ StatusOnRecord /\ FreeNameIsEmpty /\ StagedAllowed /\ CheckedWord
-------------------------------------------------------------------------------
(* What passes the gate passes it outside quiet hours, and opted in where  *)
(* that is needed.                                                         *)
LEMMA GateRefuses ==
  ASSUME NEW cfg, NEW t, NEW s, NEW now,
         Decision(cfg, t, s, FALSE, FALSE, now) = "ok"
  PROVE  /\ ~ WithinQuietHours(now, cfg.quiet)
         /\ NeedsOptIn(t) => s = "OPTED_IN"
  BY DEF Decision

(* The gate's whole table: a template may leave exactly when none of the   *)
(* refusals of evaluate_send_eligibility applies, whatever their order;    *)
(* and of the refusals that do, an opt-out and an entry on the list are    *)
(* named before any that a later attempt could get past.                   *)
THEOREM GateIsExact ==
  ASSUME NEW cfg, NEW t, NEW s, NEW onList \in BOOLEAN, NEW already \in BOOLEAN, NEW now
  PROVE  LET answer == Decision(cfg, t, s, onList, already, now) IN
         /\ answer = "ok" <=>
              /\ ~ onList /\ s \notin {"OPTED_OUT", "SUPPRESSED"}
              /\ cfg.campaigns /\ ~ already
              /\ t # NoTemplate /\ t.status = "APPROVED"
              /\ NeedsOptIn(t) => s = "OPTED_IN"
              /\ t.language \in cfg.languages
              /\ ~ WithinQuietHours(now, cfg.quiet)
         /\ onList <=> answer = "suppressed"
         /\ ~ onList /\ s \in {"OPTED_OUT", "SUPPRESSED"} <=> answer = "opted_out"
         /\ answer = "quiet_hours" =>
              /\ cfg.campaigns /\ ~ already /\ t.status = "APPROVED"
              /\ NeedsOptIn(t) => s = "OPTED_IN"
  BY DEF Decision

(* Rows of an import are what they do to contacts that are not listed.     *)
LEMMA ImportKeeps ==
  ASSUME TypeOK, ListIsLastWord, StatusOnRecord, NEW row \in Rows, ImportRow(row)
  PROVE  /\ status' \in [Contacts -> Statuses] /\ listed' \subseteq Contacts
         /\ word' \in [Contacts -> Words] /\ evidence' \subseteq Contacts
         /\ ListIsLastWord' /\ StatusOnRecord' /\ evidence \subseteq evidence'
<1>1. CASE UNCHANGED people
  BY <1>1 DEF people, TypeOK, ListIsLastWord, StatusOnRecord
<1>2. CASE ~ Refused(row, listed) /\ row.consent \notin {"UNKNOWN", "other"}
  <2>1. row.phone \in Contacts /\ row.phone \notin listed /\ row.consent \in Statuses
    BY <1>2, SendGateAssumption DEF Refused
  <2>2. /\ Says(row.phone, IF row.consent = "OPTED_OUT" THEN "stop" ELSE "import")
        /\ status' = [status EXCEPT ![row.phone] = row.consent]
        /\ evidence' = IF row.consent = "OPTED_IN" THEN evidence \cup {row.phone} ELSE evidence
        /\ listed' = IF row.consent = "OPTED_OUT" THEN listed \cup {row.phone} ELSE listed
    BY <1>2 DEF ImportRow
  <2> QED
    BY <2>1, <2>2 DEF Says, TypeOK, Words, ListIsLastWord, StatusOnRecord
<1> QED
  BY <1>1, <1>2 DEF ImportRow

(* What is said of consent keeps the types and the two facts about it.     *)
LEMMA ConsentKeeps ==
  ASSUME TypeOK, ListIsLastWord, StatusOnRecord,
         Import \/ \E c \in Contacts : OptOut(c) \/ OptIn(c) \/ Bounce(c) \/ AdminSuppress(c)
  PROVE  /\ status' \in [Contacts -> Statuses] /\ listed' \subseteq Contacts
         /\ word' \in [Contacts -> Words] /\ evidence' \subseteq Contacts
         /\ ListIsLastWord' /\ StatusOnRecord' /\ evidence \subseteq evidence'
         /\ UNCHANGED <<hour, config, serving, runs>>
<1>1. UNCHANGED <<hour, config, serving, runs>>
  BY DEF Import, OptOut, OptIn, Bounce, AdminSuppress, Act
<1>2. CASE Import
  BY <1>1, <1>2, ImportKeeps DEF Import
<1>3. ASSUME NEW c \in Contacts, OptOut(c)
      PROVE  /\ status' \in [Contacts -> Statuses] /\ listed' \subseteq Contacts
             /\ word' \in [Contacts -> Words] /\ evidence' \subseteq Contacts
             /\ ListIsLastWord' /\ StatusOnRecord' /\ evidence \subseteq evidence'
  BY <1>3 DEF OptOut, Says, TypeOK, Statuses, Words, ListIsLastWord, StatusOnRecord
<1>4. ASSUME NEW c \in Contacts, OptIn(c)
      PROVE  /\ status' \in [Contacts -> Statuses] /\ listed' \subseteq Contacts
             /\ word' \in [Contacts -> Words] /\ evidence' \subseteq Contacts
             /\ ListIsLastWord' /\ StatusOnRecord' /\ evidence \subseteq evidence'
  BY <1>4 DEF OptIn, Says, TypeOK, Statuses, Words, ListIsLastWord, StatusOnRecord
<1>5. ASSUME NEW c \in Contacts, Bounce(c)
      PROVE  /\ status' \in [Contacts -> Statuses] /\ listed' \subseteq Contacts
             /\ word' \in [Contacts -> Words] /\ evidence' \subseteq Contacts
             /\ ListIsLastWord' /\ StatusOnRecord' /\ evidence \subseteq evidence'
  BY <1>5 DEF Bounce, Says, TypeOK, Statuses, Words, ListIsLastWord, StatusOnRecord
<1>6. ASSUME NEW c \in Contacts, AdminSuppress(c)
      PROVE  /\ status' \in [Contacts -> Statuses] /\ listed' \subseteq Contacts
             /\ word' \in [Contacts -> Words] /\ evidence' \subseteq Contacts
             /\ ListIsLastWord' /\ StatusOnRecord' /\ evidence \subseteq evidence'
  BY <1>6 DEF AdminSuppress, Says, TypeOK, Statuses, Words, ListIsLastWord, StatusOnRecord
<1> QED
  BY <1>1, <1>2, <1>3, <1>4, <1>5, <1>6
-------------------------------------------------------------------------------
(* The gate's invariant: consent on record, recipients allowed.            *)
LEMMA GateInvariant == Spec => []GateInv
<1>1. Init => GateInv
  BY SendGateAssumption, SendRulesAssumption
  DEF Init, Unstaged, GateInv, TypeOK, Statuses, Words, ListIsLastWord, StatusOnRecord,
      FreeNameIsEmpty, StagedAllowed, CheckedWord
<1>2. GateInv /\ [Next]_vars => GateInv'
  <2> SUFFICES ASSUME GateInv, [Next]_vars
               PROVE  GateInv'
    OBVIOUS
  <2>1. CASE Tick
    <3>1. hour' \in 0..Day - 1
      BY <2>1, SendRulesAssumption DEF Tick, GateInv, TypeOK
    <3> QED
      BY <2>1, <3>1 DEF Tick, people, runs, GateInv, TypeOK, ListIsLastWord, StatusOnRecord,
                       FreeNameIsEmpty, StagedAllowed, Allowed, CheckedWord, sends
  <2>2. CASE EditConfig
    BY <2>2 DEF EditConfig, people, runs, GateInv, TypeOK, ListIsLastWord, StatusOnRecord,
                FreeNameIsEmpty, StagedAllowed, Allowed, CheckedWord, sends
  <2>3. CASE Deploy
    BY <2>3 DEF Deploy, people, runs, GateInv, TypeOK, ListIsLastWord, StatusOnRecord,
                FreeNameIsEmpty, StagedAllowed, Allowed, CheckedWord, sends
  <2>4. CASE Import \/ \E c \in Contacts : OptOut(c) \/ OptIn(c) \/ Bounce(c) \/ AdminSuppress(c)
    BY <2>4, ConsentKeeps
    DEF runs, GateInv, TypeOK, FreeNameIsEmpty, StagedAllowed, Allowed, CheckedWord, sends
  <2>5. ASSUME NEW c \in Contacts, Check(c)
        PROVE  GateInv'
    <3>1. CASE MustReject(c)
      BY <2>5, <3>1 DEF Check, people, GateInv, TypeOK, ListIsLastWord, StatusOnRecord,
                  FreeNameIsEmpty, StagedAllowed, Allowed, CheckedWord, sends
    <3>2. CASE ~ MustReject(c)
      <4>1. word[c] \notin {"stop", "bounce", "operator"}
        BY <3>2 DEF MustReject, GateInv, ListIsLastWord
      <4> QED
        BY <2>5, <3>2, <4>1 DEF Check, people, GateInv, TypeOK, ListIsLastWord, StatusOnRecord,
                    FreeNameIsEmpty, StagedAllowed, Allowed, CheckedWord
    <3> QED
      BY <3>1, <3>2
  <2>10. ASSUME NEW outcome \in {"SENT", "FAILED"}, SendEnds(outcome)
         PROVE  GateInv'
    BY <2>10 DEF SendEnds, people, GateInv, TypeOK, ListIsLastWord, StatusOnRecord, Words,
                 FreeNameIsEmpty, StagedAllowed, Allowed, CheckedWord
  <2>6. ASSUME NEW file \in SUBSET Contacts, NEW dry \in BOOLEAN, Launch(file, dry)
        PROVE  GateInv'
    <3>1. UNCHANGED <<hour, config, serving, people, sends>> /\ sending = Nobody
      BY <2>6 DEF Launch, GateInv, TypeOK
    <3>2. ListIsLastWord' /\ StatusOnRecord'
      BY <3>1 DEF people, GateInv, ListIsLastWord, StatusOnRecord
    <3>3. /\ campaign' \in {"DRAFT", "RUNNING"}
          /\ runner' \in Configs /\ ConfigValid(runner')
      BY <2>6 DEF Launch, GateInv, TypeOK
    <3>4. CASE campaign = "NONE"
      <4>1. StageFile(file, config)
        BY <2>6, <3>4 DEF Launch, MayStage
      <4>2. /\ rcp' \in [Contacts -> {"NONE", "ELIGIBLE", "REJECTED", "SENT", "FAILED"}]
            /\ staged' = [hour |-> hour, config |-> config, status |-> status]
        BY <4>1 DEF StageFile, Stage, GateInv, TypeOK
      <4>3. ASSUME NEW c \in Contacts, rcp'[c] \in {"ELIGIBLE", "SENT", "FAILED"}
            PROVE  Decision(config, TemplateOf(config), status[c], FALSE, FALSE, hour) = "ok"
        <5>1. Stage(c, config) = "ELIGIBLE"
          BY <3>4, <4>1, <4>3 DEF StageFile, Stage, GateInv, FreeNameIsEmpty
        <5>2. Decision(config, TemplateOf(config), status[c], c \in listed, FALSE, hour) = "ok"
          BY <5>1 DEF Stage
        <5>3. c \notin listed
          BY <5>2 DEF Decision
        <5> QED
          BY <5>2, <5>3 DEF Decision
      <4>4. StagedAllowed'
        BY <3>1, <4>2, <4>3 DEF people, GateInv, StatusOnRecord, StagedAllowed, Allowed, CheckedWord, sends
      <4> QED
        BY <3>1, <3>2, <3>3, <4>2, <4>4 DEF people, sends, GateInv, TypeOK, FreeNameIsEmpty, CheckedWord
    <3>5. CASE campaign # "NONE"
      <4>1. UNCHANGED <<rcp, staged>>
        BY <2>6, <3>5 DEF Launch, MayStage
      <4> QED
        BY <3>1, <3>2, <3>3, <3>5, <4>1
        DEF people, GateInv, TypeOK, FreeNameIsEmpty, StagedAllowed, Allowed, CheckedWord, sends
    <3> QED
      BY <3>4, <3>5
  <2>7. CASE RunJob
    BY <2>7 DEF RunJob, people, GateInv, TypeOK, ListIsLastWord, StatusOnRecord,
                FreeNameIsEmpty, StagedAllowed, Allowed, CheckedWord, sends
  <2>8. CASE Finish
    BY <2>8, SendGateAssumption
    DEF Finish, people, GateInv, TypeOK, ListIsLastWord, StatusOnRecord,
        FreeNameIsEmpty, StagedAllowed, Allowed, CheckedWord, sends
  <2>9. CASE UNCHANGED vars
    BY <2>9 DEF vars, people, runs, GateInv, TypeOK, ListIsLastWord, StatusOnRecord,
                FreeNameIsEmpty, StagedAllowed, Allowed, CheckedWord, sends
  <2> QED
    BY <2>1, <2>2, <2>3, <2>4, <2>5, <2>6, <2>7, <2>8, <2>9, <2>10 DEF Next
<1> QED
  BY <1>1, <1>2, PTL DEF Spec

(* Consent and suppressions are on record, whoever wrote them.             *)
THEOREM ConsentIsOnRecord == Spec => []ConsentOnRecord
<1>1. GateInv => ConsentOnRecord
  BY DEF GateInv, ListIsLastWord, StatusOnRecord, ConsentOnRecord
<1> QED
  BY <1>1, GateInvariant, PTL

(* What was staged within quiet hours is never sent.                       *)
THEOREM NightStagingIsRefused == Spec => []NightStagingSendsNothing
<1>1. GateInv => NightStagingSendsNothing
  <2> SUFFICES ASSUME GateInv, NEW c \in Contacts, rcp[c] \in {"ELIGIBLE", "SENT", "FAILED"}
               PROVE  ~ WithinQuietHours(staged.hour, staged.config.quiet)
    BY DEF NightStagingSendsNothing, GateInv, TypeOK
  <2>1. Allowed(c)
    BY DEF GateInv, StagedAllowed
  <2> QED
    BY <2>1, GateRefuses DEF Allowed
<1> QED
  BY <1>1, GateInvariant, PTL

(* No template leaves, or may have left, without the consent the gate saw, *)
(* nor to a contact who had withdrawn when the run looked at the list.     *)
THEOREM SendsNeededConsent == Spec => SendsHadConsent
<1>1. GateInv /\ [Next]_vars =>
        [\A c \in Contacts : Leaves(c) =>
           /\ wordThen \notin {"stop", "bounce", "operator"}
           /\ Decision(staged.config, TemplateOf(staged.config), staged.status[c],
                       FALSE, FALSE, staged.hour) = "ok"
           /\ TemplateOf(runner) = TemplateOf(staged.config) /\ NeedsOptIn(TemplateOf(runner))
                => staged.status[c] = "OPTED_IN" /\ c \in evidence]_vars
  <2> SUFFICES ASSUME GateInv, Next, NEW c \in Contacts, Leaves(c)
               PROVE  /\ wordThen \notin {"stop", "bounce", "operator"}
                      /\ Allowed(c)
                      /\ TemplateOf(runner) = TemplateOf(staged.config)
                           /\ NeedsOptIn(TemplateOf(runner))
                         => staged.status[c] = "OPTED_IN" /\ c \in evidence
    BY DEF Allowed
  <2>1. sending # Nobody
    <3>1. ASSUME NEW k \in Contacts, Check(k)
          PROVE  FALSE
      BY <3>1 DEF Check, Leaves, GateInv, TypeOK
    <3>2. ASSUME NEW file \in SUBSET Contacts, NEW dry \in BOOLEAN, Launch(file, dry)
          PROVE  FALSE
      <4>1. CASE MayStage
        BY <3>2, <4>1 DEF Launch, MayStage, Leaves, GateInv, FreeNameIsEmpty
      <4>2. CASE ~ MayStage
        BY <3>2, <4>2 DEF Launch, Leaves
      <4> QED
        BY <4>1, <4>2
    <3>3. ASSUME NEW outcome \in {"SENT", "FAILED"}, SendEnds(outcome)
          PROVE  sending # Nobody
      BY <3>3 DEF SendEnds
    <3>4. CASE \/ Tick \/ EditConfig \/ Deploy \/ Import \/ RunJob \/ Finish
               \/ \E k \in Contacts : OptOut(k) \/ OptIn(k) \/ Bounce(k) \/ AdminSuppress(k)
      <4>1. rcp' = rcp
        BY <3>4 DEF Tick, EditConfig, Deploy, OptOut, OptIn, Bounce, AdminSuppress, Import, Act,
                    RunJob, Finish, runs
      <4> QED
        BY <4>1 DEF Leaves
    <3> QED
      BY <3>1, <3>2, <3>3, <3>4 DEF Next
  <2>2. rcp[c] = "ELIGIBLE" /\ campaign # "NONE"
    BY <2>1 DEF Leaves, GateInv, TypeOK
  <2>3. wordThen \notin {"stop", "bounce", "operator"}
    BY <2>1 DEF GateInv, CheckedWord
  <2>4. Allowed(c) /\ (staged.status[c] = "OPTED_IN" => c \in evidence)
    BY <2>2 DEF GateInv, StagedAllowed
  <2>5. NeedsOptIn(TemplateOf(staged.config)) => staged.status[c] = "OPTED_IN"
    BY <2>4, GateRefuses DEF Allowed
  <2> QED
    BY <2>3, <2>4, <2>5
<1> QED
  BY <1>1, GateInvariant, PTL DEF Spec, SendsHadConsent
-------------------------------------------------------------------------------
(***************************************************************************)
(* Quiet hours, at any moment and for any window.                          *)
(***************************************************************************)
IsWindow(q) == q.enabled \in BOOLEAN /\ {q.start, q.end} \subseteq 0..Day - 1

(* A moment is a day and a time of that day.                               *)
LEMMA DayAndTime ==
  ASSUME NEW m \in Int
  PROVE  m = (m \div Day) * Day + TimeOfDay(m) /\ m \div Day \in Int /\ TimeOfDay(m) \in 0..Day - 1
  BY SendRulesAssumption DEF TimeOfDay

(* Such a moment has that time of day.                                     *)
LEMMA TimeOfMoment ==
  ASSUME NEW t \in 0..Day - 1, NEW k \in Int
  PROVE  TimeOfDay(k * Day + t) = t
  BY SendRulesAssumption DEF TimeOfDay

(* At most a day later the time of day has moved on, or started again.     *)
LEMMA TimeMovesOn ==
  ASSUME NEW m \in Int, NEW d \in 0..Day
  PROVE  TimeOfDay(m + d) = IF TimeOfDay(m) + d < Day THEN TimeOfDay(m) + d
                                                     ELSE TimeOfDay(m) + d - Day
<1> DEFINE k == m \div Day
           t == TimeOfDay(m)
<1>1. m = k * Day + t /\ k \in Int /\ t \in 0..Day - 1
  BY DayAndTime
<1> HIDE DEF k, t
<1>2. CASE t + d < Day
  <2>1. t + d \in 0..Day - 1
    BY <1>1, <1>2, SendRulesAssumption
  <2>2. m + d = k * Day + (t + d)
    BY <1>1, SendRulesAssumption
  <2>3. TimeOfDay(m + d) = t + d
    BY <1>1, <2>1, <2>2, TimeOfMoment
  <2> QED
    BY <1>2, <2>3 DEF t
<1>3. CASE ~ (t + d < Day)
  <2>1. t + d - Day \in 0..Day - 1
    BY <1>1, <1>3, SendRulesAssumption
  <2>2. m + d = (k + 1) * Day + (t + d - Day)
    BY <1>1, SendRulesAssumption
  <2>3. TimeOfDay(m + d) = t + d - Day
    BY <1>1, <2>1, <2>2, TimeOfMoment
  <2> QED
    BY <1>3, <2>3 DEF t
<1> QED
  BY <1>2, <1>3

(* The times passed on the way from the window's start are those the code  *)
(* compares with its ends, of which it asks first how they lie.            *)
LEMMA WindowIsQuiet ==
  ASSUME NEW m \in Int, NEW q, IsWindow(q)
  PROVE  WithinQuietHours(m, q) = InWindow(m, q)
<1> DEFINE t == TimeOfDay(m)
           far(x) == IF q.start <= x THEN x - q.start ELSE x - q.start + Day
<1>1. /\ t \in 0..Day - 1 /\ q.start \in 0..Day - 1 /\ q.end \in 0..Day - 1
      /\ Day \in Nat \ {0} /\ q.enabled \in BOOLEAN
  BY DayAndTime, SendRulesAssumption DEF IsWindow
<1>2. ASSUME NEW d \in 0..Day - 1, NEW x \in 0..Day - 1
      PROVE  TimeOfDay(q.start + d) = x <=> d = far(x)
  <2>1. TimeOfDay(q.start) = q.start
    BY <1>1 DEF TimeOfDay
  <2>2. q.start \in Int /\ d \in 0..Day
    BY <1>1
  <2>3. TimeOfDay(q.start + d) = IF q.start + d < Day THEN q.start + d ELSE q.start + d - Day
    BY <2>1, <2>2, TimeMovesOn
  <2> QED
    BY <1>1, <2>3
<1>3. far(t) \in 0..Day - 1 /\ far(q.end) \in 0..Day - 1
  BY <1>1
<1>4. InWindow(m, q) <=> q.enabled /\ far(t) < far(q.end)
  <2>1. InWindow(m, q) <=> q.enabled /\ \E d \in 0..Day - 1 :
                             d = far(t) /\ \A e \in 0..d : e # far(q.end)
    <3>1. InWindow(m, q) <=> q.enabled /\ \E d \in 0..Day - 1 :
                               /\ TimeOfDay(q.start + d) = t
                               /\ \A e \in 0..d : TimeOfDay(q.start + e) # q.end
      BY DEF InWindow, TimeOfDay
    <3> HIDE DEF far, t
    <3>2. \A d \in 0..Day - 1 : 0..d \subseteq 0..Day - 1
      BY <1>1
    <3> QED
      BY <1>1, <1>2, <3>1, <3>2
  <2> HIDE DEF far, t
  <2> QED
    BY <1>1, <1>3, <2>1
<1>5. WithinQuietHours(m, q) <=> q.enabled /\ far(t) < far(q.end)
  BY <1>1 DEF WithinQuietHours
<1>6. WithinQuietHours(m, q) \in BOOLEAN /\ InWindow(m, q) \in BOOLEAN
  BY <1>1 DEF WithinQuietHours, InWindow
<1> QED
  BY <1>4, <1>5, <1>6

(* The least of a set is what none of it is below.                         *)
LEMMA LeastIsMin ==
  ASSUME NEW T \in SUBSET Int, NEW m \in T, \A n \in T : m <= n
  PROVE  Min(T) = m
<1>1. \A x \in T : (\A y \in T : x <= y) => x = m
  OBVIOUS
<1> QED
  BY <1>1 DEF Min

(* Whatever the moment and the window, a business-initiated message is     *)
(* refused exactly on the way from the window's start to its end, and the  *)
(* time next_allowed_send_time names is the first one out of it.           *)
THEOREM ScheduleIsExact ==
  ASSUME NEW m \in Int, NEW q, IsWindow(q)
  PROVE  /\ WithinQuietHours(m, q) = InWindow(m, q)
         /\ NextAllowedSendTime(m, q) = Min({n \in m..m + Day : ~ InWindow(n, q)})
<1> DEFINE t == TimeOfDay(m)
           T == {n \in m..m + Day : ~ InWindow(n, q)}
           next == NextAllowedSendTime(m, q)
<1>1. /\ t \in 0..Day - 1 /\ q.start \in 0..Day - 1 /\ q.end \in 0..Day - 1
      /\ Day \in Nat \ {0} /\ q.enabled \in BOOLEAN
  BY DayAndTime, SendRulesAssumption DEF IsWindow
<1>2. ASSUME NEW d \in 0..Day
      PROVE  InWindow(m + d, q) <=>
               LET s == IF t + d < Day THEN t + d ELSE t + d - Day
               IN q.enabled /\ IF q.start <= q.end THEN q.start <= s /\ s < q.end
                                                   ELSE s >= q.start \/ s < q.end
  <2>1. m + d \in Int
    BY <1>1
  <2>2. InWindow(m + d, q) = WithinQuietHours(m + d, q)
    BY <2>1, WindowIsQuiet
  <2>3. TimeOfDay(m + d) = IF t + d < Day THEN t + d ELSE t + d - Day
    BY TimeMovesOn
  <2> QED
    BY <2>2, <2>3 DEF WithinQuietHours
<1>3. WithinQuietHours(m, q) <=> InWindow(m, q)
  BY WindowIsQuiet
<1>4. next \in m..m + Day /\ ~ InWindow(next, q)
  <2>1. CASE ~ WithinQuietHours(m, q)
    BY <1>1, <1>3, <2>1 DEF NextAllowedSendTime
  <2>2. CASE WithinQuietHours(m, q)
    <3> DEFINE d == IF q.end <= t THEN q.end - t + Day ELSE q.end - t
    <3>1. next = m + d /\ d \in 0..Day
      BY <1>1, <2>2 DEF NextAllowedSendTime
    <3>2. (IF t + d < Day THEN t + d ELSE t + d - Day) = q.end
      BY <1>1
    <3>3. ~ InWindow(m + d, q)
      <4> HIDE DEF d
      <4> QED
        BY <1>1, <1>2, <3>1, <3>2
    <3> QED
      BY <1>1, <3>1, <3>3
  <2> QED
    BY <2>1, <2>2
<1>5. ASSUME NEW n \in T
      PROVE  next <= n
  <2>1. CASE ~ WithinQuietHours(m, q)
    BY <1>1, <2>1 DEF NextAllowedSendTime
  <2>2. CASE WithinQuietHours(m, q)
    <3> DEFINE d == n - m
    <3>1. d \in 0..Day /\ n = m + d /\ ~ InWindow(m + d, q)
      BY <1>1
    <3>2. /\ q.enabled
          /\ IF q.start <= q.end THEN q.start <= t /\ t < q.end ELSE t >= q.start \/ t < q.end
          /\ next = IF q.end <= t THEN m - t + q.end + Day ELSE m - t + q.end
      BY <1>1, <2>2 DEF NextAllowedSendTime, WithinQuietHours
    <3> HIDE DEF d, t, next
    <3> QED
      BY <1>1, <1>2, <3>1, <3>2
  <2> QED
    BY <2>1, <2>2
<1>6. T \in SUBSET Int
  BY <1>1
<1>7. Min(T) = next
  <2> HIDE DEF T, next
  <2>1. next \in T
    BY <1>4 DEF T
  <2> QED
    BY <1>5, <1>6, <2>1, LeastIsMin
<1> QED
  BY <1>7, WindowIsQuiet

(* The schedule of every configuration that is ever loaded, at every hour. *)
THEOREM QuietHoursAreExact == Spec => []QuietHoursExact
<1>1. GateInv => QuietHoursExact
  <2> SUFFICES ASSUME GateInv
               PROVE  QuietHoursExact
    OBVIOUS
  <2>1. hour \in Int /\ IsWindow(config.quiet)
    BY SendGateAssumption DEF GateInv, TypeOK, IsWindow
  <2> QED
    BY <2>1, ScheduleIsExact DEF QuietHoursExact
<1> QED
  BY <1>1, GateInvariant, PTL
===============================================================================
