------------------------------- MODULE SendGate -------------------------------
(***************************************************************************)
(* What stands between a contact's consent and a template sent to it: the  *)
(* gate at staging, the check before each send, the importer, the edits of *)
(* the configuration and the clock.                                        *)
(*                                                                         *)
(*   app/services/campaign_service.py    create, stage, execute            *)
(*   app/services/consent_service.py     check_eligibility, opt_out, ...   *)
(*   scripts/send_campaign.py            run_campaign_cli                  *)
(*   scripts/import_contacts.py          import_contacts_from_csv          *)
(*   app/workers/tasks.py                execute_campaign_task             *)
(*                                                                         *)
(* One campaign name is used, and one run of it at a time: how runs race,  *)
(* abort and are paused is the subject of CampaignRun, how jobs of a       *)
(* contact race that of ContactConsent; here each act of a contact, the    *)
(* operator or the importer is one committed transaction, taken in turn    *)
(* with the others, though not with a run, which awaits Meta between its   *)
(* check of a recipient and the end of the send.  The importer and the     *)
(* command line load the configuration when they start, the worker when it *)
(* is deployed.                                                            *)
(***************************************************************************)
EXTENDS SendRules, FiniteSets

CONSTANTS
  Contacts,
  Configs,           \* contents the configuration files may have
  FirstConfig,
  Rows,              \* rows an import file may hold: [phone, consent, at]
  MaxActs,           \* bound: acts of contacts, operators and the importer
  MaxEdits           \* bound: edits of the configuration

Nobody   == "nobody"
Statuses == {"UNKNOWN", "PENDING", "OPTED_IN", "OPTED_OUT", "SUPPRESSED"}

(* Ends of quiet hours are HH:MM; a file with others is as good as none.   *)
ASSUME SendGateAssumption ==
  /\ IsFiniteSet(Contacts) /\ Nobody \notin Contacts
  /\ FirstConfig \in Configs /\ ConfigValid(FirstConfig)
  /\ \A cfg \in Configs : /\ cfg.quiet.enabled \in BOOLEAN
                          /\ {cfg.quiet.start, cfg.quiet.end} \subseteq 0..Day - 1
  /\ Rows \subseteq [phone : Contacts \cup {"missing", "invalid"},
                     consent : Statuses \cup {"other"},
                     at : {"none", "past", "future", "garbled"}]
  /\ MaxActs \in Nat /\ MaxEdits \in Nat

VARIABLES
  hour,          \* the time of day
  config,        \* the configuration files
  serving,       \* what the worker loaded from them
  status,        \* contacts.consent_status
  listed,        \* suppression_entries
  campaign,      \* campaigns.status; NONE: the name is free
  rcp,           \* campaign_recipients.status of each contact; NONE: no row
  runner,        \* what the run in progress has loaded
  sending,       \* the recipient that passed the last check, or Nobody
  word,          \* history: what was last said about each contact's consent
  evidence,      \* history: contacts with an OPTED_IN row in consent_records
  wordThen,      \* history: the last word said of it at that check
  staged,        \* history: the hour, configuration and statuses at staging
  acts, edits

Unstaged == [hour |-> 0, config |-> FirstConfig, status |-> [c \in Contacts |-> "UNKNOWN"]]

people == <<status, listed, word, evidence>>
sends  == <<sending, wordThen>>
runs   == <<campaign, rcp, runner, sends, staged>>
vars   == <<hour, config, serving, people, runs, acts, edits>>

Words == {"none", "start", "stop", "bounce", "operator", "import"}

TypeOK ==
  /\ hour \in 0..Day - 1
  /\ config \in Configs /\ serving \in Configs /\ ConfigValid(serving)
  /\ status \in [Contacts -> Statuses] /\ listed \subseteq Contacts
  /\ campaign \in {"NONE", "DRAFT", "RUNNING", "COMPLETED"}
  /\ rcp \in [Contacts -> {"NONE", "ELIGIBLE", "REJECTED", "SENT", "FAILED"}]
  /\ sending # Nobody => sending \in Contacts /\ rcp[sending] = "ELIGIBLE" /\ campaign = "RUNNING"
  /\ wordThen \in Words
  /\ runner \in Configs /\ ConfigValid(runner)
  /\ word \in [Contacts -> Words] /\ evidence \subseteq Contacts
  /\ staged.hour \in 0..Day - 1 /\ staged.config \in Configs
  /\ staged.status \in [Contacts -> Statuses]
  /\ campaign = "COMPLETED" => \A c \in Contacts : rcp[c] # "ELIGIBLE"

Init ==
  /\ hour \in 0..Day - 1
  /\ config = FirstConfig /\ serving = FirstConfig
  /\ status = [c \in Contacts |-> "UNKNOWN"] /\ listed = {}
  /\ campaign = "NONE"
  /\ rcp = [c \in Contacts |-> "NONE"]
  /\ runner = FirstConfig /\ sending = Nobody /\ wordThen = "none"
  /\ word = [c \in Contacts |-> "none"] /\ evidence = {}
  /\ staged = Unstaged
  /\ acts = 0 /\ edits = 0
--------------------------------------------------------------------------------
(***************************************************************************)
(* Time and configuration.                                                 *)
(***************************************************************************)
Tick ==
  /\ hour' = (hour + 1) % Day
  /\ UNCHANGED <<config, serving, people, runs, acts, edits>>

EditConfig ==
  /\ edits < MaxEdits
  /\ config' \in Configs \ {config}
  /\ edits' = edits + 1
  /\ UNCHANGED <<hour, serving, people, runs, acts>>

Deploy ==
  /\ ConfigValid(config) /\ serving # config
  /\ serving' = config
  /\ UNCHANGED <<hour, config, people, runs, acts, edits>>
--------------------------------------------------------------------------------
(***************************************************************************)
(* Consent.                                                                *)
(***************************************************************************)
Act == acts < MaxActs /\ acts' = acts + 1
       /\ UNCHANGED <<hour, config, serving, runs, edits>>

Says(c, w) == word' = [word EXCEPT ![c] = w]

OptOut(c) ==
  /\ Act /\ Says(c, "stop")
  /\ status' = [status EXCEPT ![c] = "OPTED_OUT"]
  /\ listed' = listed \cup {c}
  /\ UNCHANGED evidence

OptIn(c) ==
  /\ Act /\ Says(c, "start")
  /\ status' = [status EXCEPT ![c] = "OPTED_IN"]
  /\ evidence' = evidence \cup {c}
  /\ listed' = listed \ {c}

(* A hard bounce; an opted-out contact is left as it is.                   *)
Bounce(c) ==
  /\ status[c] # "OPTED_OUT"
  /\ Act /\ Says(c, "bounce")
  /\ status' = [status EXCEPT ![c] = "SUPPRESSED"]
  /\ listed' = listed \cup {c}
  /\ UNCHANGED evidence

(* An operator's entry leaves the contact's status alone.                  *)
AdminSuppress(c) ==
  /\ Act /\ Says(c, "operator")
  /\ listed' = listed \cup {c}
  /\ UNCHANGED <<status, evidence>>

(* One row of an import: refused without a usable phone, for a contact on  *)
(* the list, and with a time of consent that is garbled or in the future.  *)
(* A status it does not know counts as UNKNOWN, which changes nothing.     *)
Refused_EvenListed(row, list) ==
  row.phone \notin Contacts \/ row.at \in {"future", "garbled"}
Refused(row, list) ==
  row.phone \notin Contacts \/ row.phone \in list \/ row.at \in {"future", "garbled"}

ImportRow(row) ==
  LET c == row.phone IN
  IF Refused(row, listed) \/ row.consent \in {"UNKNOWN", "other"}
  THEN UNCHANGED people
  ELSE /\ Says(c, IF row.consent = "OPTED_OUT" THEN "stop" ELSE "import")
       /\ status' = [status EXCEPT ![c] = row.consent]
       /\ evidence' = IF row.consent = "OPTED_IN" THEN evidence \cup {c} ELSE evidence
       /\ listed' = IF row.consent = "OPTED_OUT" THEN listed \cup {c} ELSE listed

(* Later rows of the same phone are refused, so a file is its rows.        *)
Import == Act /\ \E row \in Rows : ImportRow(row)
--------------------------------------------------------------------------------
(***************************************************************************)
(* The campaign.                                                           *)
(***************************************************************************)
(* check_eligibility and stage_recipients: each contact of the file once,  *)
(* judged at the hour of staging.                                          *)
Stage(c, cfg) ==
  IF Decision(cfg, TemplateOf(cfg), status[c], c \in listed, FALSE, hour) = "ok"
  THEN "ELIGIBLE" ELSE "REJECTED"

StageFile(file, cfg) ==
  /\ rcp' = [c \in Contacts |-> IF c \in file /\ rcp[c] = "NONE" THEN Stage(c, cfg) ELSE rcp[c]]
  /\ staged' = [hour |-> hour, config |-> cfg, status |-> status]

(* run_campaign_cli: a new name is created and staged, a known one is only *)
(* run; a dry run leaves what it staged.  The template must be approved to *)
(* create a campaign and to run one.                                       *)
MayStage == campaign = "NONE"

Launch(file, dry) ==
  /\ campaign \in {"NONE", "DRAFT"}
  /\ ConfigValid(config) /\ Sendable(TemplateOf(config))
  /\ IF MayStage THEN StageFile(file, config) ELSE UNCHANGED <<rcp, staged>>
  /\ IF dry THEN /\ campaign' = IF campaign = "NONE" THEN "DRAFT" ELSE campaign
                 /\ UNCHANGED runner
            ELSE campaign' = "RUNNING" /\ runner' = config
  /\ UNCHANGED <<hour, config, serving, people, sends, acts, edits>>

(* execute_campaign_task: a job of the worker runs what was staged.        *)
RunJob ==
  /\ campaign = "DRAFT"
  /\ Sendable(TemplateOf(serving))
  /\ campaign' = "RUNNING" /\ runner' = serving
  /\ UNCHANGED <<hour, config, serving, people, rcp, sends, staged, acts, edits>>

(* The last check before a send looks at the list only.                    *)
MustReject_Never(c) == FALSE
MustReject(c) == c \in listed

Check(c) ==
  /\ campaign = "RUNNING" /\ sending = Nobody /\ rcp[c] = "ELIGIBLE"
  /\ IF MustReject(c)
     THEN rcp' = [rcp EXCEPT ![c] = "REJECTED"] /\ UNCHANGED sends
     ELSE /\ sending' = c /\ wordThen' = word[c]
          /\ UNCHANGED rcp
  /\ UNCHANGED <<hour, config, serving, people, campaign, runner, staged, acts, edits>>

(* The awaited send comes back, or raises: it is FAILED then, although an  *)
(* answer that was lost may have left a copy with Meta.                    *)
SendEnds(outcome) ==
  /\ sending # Nobody
  /\ rcp' = [rcp EXCEPT ![sending] = outcome]
  /\ sending' = Nobody /\ wordThen' = "none"
  /\ UNCHANGED <<hour, config, serving, people, campaign, runner, staged, acts, edits>>

Finish ==
  /\ campaign = "RUNNING"
  /\ \A c \in Contacts : rcp[c] # "ELIGIBLE"
  /\ campaign' = "COMPLETED" /\ runner' = FirstConfig
  /\ UNCHANGED <<hour, config, serving, people, rcp, sends, staged, acts, edits>>

Next ==
  \/ Tick \/ EditConfig \/ Deploy
  \/ \E c \in Contacts : OptOut(c) \/ OptIn(c) \/ Bounce(c) \/ AdminSuppress(c) \/ Check(c)
  \/ \E outcome \in {"SENT", "FAILED"} : SendEnds(outcome)
  \/ Import
  \/ \E file \in SUBSET Contacts, dry \in BOOLEAN : Launch(file, dry)
  \/ RunJob \/ Finish

Spec == Init /\ [][Next]_vars
--------------------------------------------------------------------------------
Leaves(c) == rcp[c] = "ELIGIBLE" /\ rcp'[c] \in {"SENT", "FAILED"}

(* A template that leaves, or may have, was allowed by the whole gate when *)
(* it was staged and, if the registry still says of it what it said then   *)
(* and it needs an opt-in, to a contact that had opted in, for which a     *)
(* consent record exists; and nothing that was said before the run's last  *)
(* check by the contact, a bounce, an operator or an import of an opt-out  *)
(* had withdrawn it.  A word that commits between that check and the send  *)
(* is too late (CampaignRun's FewLateSends), and an import as PENDING or   *)
(* SUPPRESSED withdraws without an entry on the list and is not seen.      *)
SendsHadConsent ==
  [][\A c \in Contacts : Leaves(c) =>
       /\ wordThen \notin {"stop", "bounce", "operator"}
       /\ Decision(staged.config, TemplateOf(staged.config), staged.status[c],
                   FALSE, FALSE, staged.hour) = "ok"
       /\ TemplateOf(runner) = TemplateOf(staged.config) /\ NeedsOptIn(TemplateOf(runner))
            => staged.status[c] = "OPTED_IN" /\ c \in evidence]_vars

(* Quiet hours are looked at when a campaign is staged, never again: what  *)
(* was staged within them, by a dry run too, is refused for good, since a  *)
(* known name is not staged again and a new run finds no one left.         *)
NightStagingSendsNothing ==
  campaign # "NONE" /\ WithinQuietHours(staged.hour, staged.config.quiet)
    => \A c \in Contacts : rcp[c] \in {"NONE", "REJECTED"}

(* The window is the times passed on the way from its start to its end,    *)
(* however it lies to midnight, and the next allowed time is the first one *)
(* outside it.                                                             *)
InWindow(m, q) ==
  q.enabled /\ \E d \in 0..Day - 1 :
    (q.start + d) % Day = m % Day /\ \A e \in 0..d : (q.start + e) % Day # q.end

QuietHoursExact ==
  LET q == config.quiet IN
  /\ WithinQuietHours(hour, q) = InWindow(hour, q)
  /\ NextAllowedSendTime(hour, q) = Min({m \in hour..hour + Day : ~ InWindow(m, q)})

(* Who is listed has, by the last word said of it, withdrawn, bounced or   *)
(* been suppressed by the operator, and an opted-in status has its consent *)
(* record.  (Each word is one transaction here, taken in turn; what        *)
(* overlapping jobs of a contact leave is the subject of ContactConsent.   *)
(* An import as SUPPRESSED or PENDING leaves no entry on the list.)        *)
ConsentOnRecord ==
  /\ TypeOK
  /\ \A c \in Contacts :
       /\ c \in listed => word[c] \in {"stop", "bounce", "operator"}
       /\ status[c] = "OPTED_IN" => c \in evidence
================================================================================
