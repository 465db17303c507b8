# A TLA+ model of the WhatsApp bot platform

This directory specifies the parts of the platform whose correctness depends on
the order in which several actors act (webhook requests, background jobs,
campaign runs and operators, over one PostgreSQL database, a job queue and
Meta's API, any of which may fail between two steps), and the decisions on
which a customer's consent, a reply or a send depends. TLC checks the modules on
small instances; TLAPS proves the theorems of eight modules of proofs for every
instance.

## 1. The system

| Component | State it keeps | Operations | Interacts by |
| --- | --- | --- | --- |
| Webhook handler (`app/api/webhooks.py`) | none between requests | verify, parse, claim each event, enqueue a job | one transaction per claim; the queue |
| Parser (`webhook_parser.py`) | none | payload to messages, statuses, errors | called by the handler |
| Idempotency ledger (`WebhookEventRepository`) | `webhook_events` (unique key, `attempts`, `processed`) | `claim`, `mark_processed`, `mark_failed`, purge | called by the handler and by tasks |
| Dispatcher and queue (`arq_runtime.py`) | Redis jobs, or asyncio tasks of the web process | enqueue, run, re-run a lost job | at-least-once when Redis is there |
| Tasks (`tasks.py`, `core/db.py`) | one session per task | inbound, status, campaign, two housekeeping tasks | `session_scope` commits at the end or rolls everything back |
| Conversation pipeline (`conversation_service.py`) | `contacts`, `conversations`, `messages` | `handle_inbound`, `handle_status` | calls consent, escalation, intent, response, WhatsApp |
| Intent, response, model client (`intent_service.py`, `response_service.py`, `llm_client.py`) | none | keywords, screening, retrieval, model call, validation, composition | called by the pipeline |
| Knowledge (`knowledge_service.py`) | the index, built when a worker starts | chunk, index, search | called by the intent service |
| Consent (`consent_service.py`, `contacts.py`) | `contacts.consent_status`, `consent_records`, `suppression_list` | `opt_out`, `opt_in`, `suppress`, eligibility | pipeline, campaigns, operator, imports |
| Compliance rules (`rules.py`) | none | keywords, quiet hours, service window, the send gate | pipeline, staging |
| Campaigns (`campaign_service.py`, `campaigns.py`, `scripts/send_campaign.py`) | `campaigns`, `campaign_recipients` | create, stage, execute | row locks; consent; WhatsApp |
| Escalations (`escalation_service.py`) | `escalations`, pause flag, conversation state | escalate, acknowledge, resolve | pipeline, operator |
| WhatsApp client (`whatsapp_client.py`) | circuit breaker, retry loop | send text and templates | every sender of a process shares it |
| Operator API (`admin.py`) | `bot_state` | pause, resume, suppress, resolve, templates | the same rows as the jobs |
| Imports (`scripts/import_contacts.py`) | none | one transaction per file | contacts, consent records, suppression |
| Configuration (`config_loader.py`, `config_schema.py`) | files | read once by each process | everything |
| Security, logging, dashboard, other scripts | files | start-up and reporting | - |

What is hard in it:

* **Claim, then enqueue, then work** are three transactions. A failure between
  any two leaves a claimed event; the ledger then hides every redelivery.
* **A send in the middle of a transaction.** Replies and templates cannot be
  rolled back; the rows that record them can.
* **Stale snapshots.** SQLAlchemy keeps a loaded row for the session and writes
  only attributes whose value changed; waiting for a row lock refreshes
  nothing (READ COMMITTED, no version column, no `FOR UPDATE`).
* **Order.** Jobs of one contact or one message run side by side, in any order.
* **Long transactions.** A campaign run is one transaction and keeps the row of
  every contact it messaged locked until it ends.
* **Locks in different orders.** A job locks conversation then contact, a
  resolution ticket, contact, conversation.
* **Decisions made early.** The send gate is evaluated when a recipient is
  staged; the send happens later, maybe under another configuration.
* **Retries that repeat.** A lost answer of Meta is followed by another POST,
  and the breaker that should stop them is read by other calls only.
* **A model in the loop.** Its answer is any object; everything it says passes
  coercion, validation and composition before a customer reads it.

Per component, what makes it correct: one owner per event and effects at most
once (ledger); the furthest status wins and a bounce suppresses until the
contact opts in again (status); every call that left a template is accounted
for, a second one only after a rollback, no sending past the failure threshold
(campaigns); what leaves had consent when it was allowed (gate); a STOP holds,
and nobody is opted out and still sendable (consent); a paused bot is silent
(pauses); one open ticket per conversation and no lost hand-over (escalation); a
bounded number of copies, and an open circuit that only outstanding retries pass
(client); grounded answers, words that match what is recorded, and a person for
whoever needs one (pipeline).

## 2. The modules

| Module | Models | Proofs |
| --- | --- | --- |
| `EventOnce` | what the ledger promises: claim once, apply once | - |
| `InboundLedger` | webhook handler, ledger, queue, worker, failures | `InboundLedgerProofs` |
| `DeliveryStatus` | reports on one campaign message, its recipient row and contact | `DeliveryStatusProofs` |
| `CampaignBooks` | what campaign runs promise about recipients: sends kept or lost whole, nobody due twice, a completed campaign closed | - |
| `CampaignRun` | runs of campaigns as long transactions under row locks | `CampaignRunProofs` |
| `ConsentRegister` | what the jobs of a contact promise: its words entered one by one, what each leaves of status and list | - |
| `ContactConsent` | one contact's consent, suppression and pauses | `ContactConsentProofs` |
| `Escalation` | conversations, tickets and pauses of one contact | `EscalationProofs` |
| `GraphClient` | calls to Meta: retries, back-off, circuit breaker | `GraphClientProofs` |
| `SendRules` | keywords, quiet hours, templates, the send gate (operators) | in `SendGateProofs` |
| `SendGate` | staging, launching and sending over clock, configuration and consent; uses `SendRules` | `SendGateProofs` |
| `WebhookParser` | payload to items (operators) | in `MessageTurnProofs` |
| `Knowledge` | the chunker and the index (operators) | in `MessageTurnProofs` |
| `ReplyRules` | analysis, validation and composition of a reply (operators) | in `MessageTurnProofs` |
| `MessageTurn` | a customer's turn from payload to reply; composes the four operator modules | `MessageTurnProofs` |

`MC...` modules extend them and give the constants values. An operator with an
underscore in its name (`RowIsNew_NoConstraint`) is a plausible wrong version of
the definition after it. It is not part of the specification; it shows that a
property notices the difference. `PROJECT.json` maps every definition to the
lines it stands for, lists the hazards with their properties, and pairs each
checked property with such a wrong version. Each module's type invariant is a
property of its run or the first conjunct of one.

### InboundLedger

A request (`Handlers`) takes a batch (`Deliver`) and, event by event, reads the
ledger row (`Lookup`), then either counts the repeat on the value it read
(`Bump`) or inserts the row (`Insert`, where the unique constraint decides a
race), and enqueues the job only after the claim has committed (`Enqueue`). A
worker takes a job, inserts the message row (`Store`, which waits for an
uncommitted row with the same id), sends (`Reply`, `ReplyRaises`) and commits
(`Commit`). `TaskFails` is the `except` block followed by the rollback that the
re-raised exception causes. `WorkerCrash` is a lost worker: arq runs the job
again, up to `MaxTries`, and an asyncio task is gone. arq does not run a job
again because it raised. `commits`, `replies` and `lost` are history variables.

### DeliveryStatus

The message is with Meta while the transaction that records it is open
(`sender`), so a report may find no row (`dropped`). A status job loads the row
(`Load`), compares ranks with what it loaded and takes the row lock only if it
changes something (`Apply`), reads recipient and contact (`Mirror`), and
commits. The recipient row takes the status of the report even when the message
row ignored it, so it may fall behind the message; it does not get ahead of it
(`RecipientTrails`). The message row itself may be moved backwards by a job that
loaded it early.

`OptOut` and `OptIn` are the contact's own STOP and START in the meantime. Their
jobs hold the contact as loaded at any earlier time (`had`), and write the
status only if it differs from that (`Written`); START takes the entry off the
list. So a bounce that was applied suppresses the contact unless `excused`: an
opt-in has come since, or the status job found the contact opted out, left it
alone (`handle_status`, line 420), and it had no entry (`NoWindow`'s state).

### CampaignRun

`Begin` is the guard on the status as loaded, `Enter` the flush of RUNNING,
which waits for the campaign's row. Each recipient goes through `Check`, and a
call of the client. `Send` is a call that leaves a template with WhatsApp: it
returns (`accepted`), and `Record` writes the rows and locks the contact's; or
every answer is lost (`lost`) and the client raises the same WhatsAppAPIError as
for a refusal. `SendRejected` catches it and marks the recipient FAILED in
either case; `stray` keeps who got a template all the same. `wire` counts such
calls; how many copies one of them leaves by retrying is `GraphClient`'s subject
(`CopiesAccounted`). `Commit` makes the run visible; `Abort` and
`DeadlockVictim` roll it back, counting in `undone` what customers keep. RUNNING
is never committed, so the statuses are NONE, DRAFT, PAUSED, COMPLETED. `Books`
maps this state to `CampaignBooks`: due are the ELIGIBLE rows as committed, open
the templates of runs in flight, kept the SENT rows and the FAILED ones that got
theirs (`Settled`), lost what rollbacks have undone. Locks, batches, thresholds
and deadlocks are gone there.

### ContactConsent

A job loads the contact (`seen`) and waits for its row (`Touch`). A stop word
is handled first; then the pause switches, of which only the bot's own is read
afresh; then the intent. `writes` is what the transaction has flushed: the
status if it differs from the snapshot, an entry added or dropped, a consent
record, a pause. A hard bounce does not lock the row until it flushes.
`Register` maps this state to `ConsentRegister`: listed is `suppressed`, given
are the `records`, and whether jobs ever overlapped or were overtaken is kept.
Snapshots, row locks, rollbacks and pauses are gone there: a job's transaction
is one entry, at its commit.

### Escalation

A job takes a message (`Take`), looks for the contact's newest live
conversation (`GetActive`), opens one if there is none or it has expired
(`OpenConversation`, which locks an existing one in `touch_inbound`), locks the
contact, and escalates or not. `Escalate` reuses an unresolved ticket of the
conversation or makes one; `Commit` writes ticket, conversation state and pause.
An operator's request loads the ticket and flushes it (`WriteTicket`), resumes
the contact and reactivates the conversation if its snapshots say so. All
locks are rows, held to the end of the transaction; `DeadlockVictim` is the
server's choice. `overlapped`, `crossed`, `revived`, `again`, `handed` and
`lifted` are history, for properties whose premise they are.

### GraphClient

A call passes the breaker once (`MayCall`), is `sent`, and gets an answer: a
success, an error by its HTTP status and Meta code (`Retryable`), or none, in
which case Meta may or may not have accepted it (`NetworkError`). Retryable ones
sleep (`backoff`, at most `MaxBackoff` or the server's Retry-After) and go again
without looking at the breaker. `breaker` is shared by all calls of a process;
the window passes by `Tick`.

### SendRules and SendGate

`SendRules` has the decision operators: normalised keyword matching, quiet hours
over minutes of a day of `Day` units, the gate (`Decision`) in the order of its
early returns. `SendGate` runs them: configurations are edited on disk, read by
the script at each launch and by a worker when it is deployed (`serving`);
`Launch` stages a list of contacts and records each one's decision, a dry run
too; a known campaign name is not staged again. `Check` looks at the suppression
list only, and then the send is awaited: until `SendEnds` (SENT, or FAILED,
which a lost answer gives too) the contact may withdraw, the clock may pass and
the files may change, and the template leaves all the same. `wordThen` is what
had been said when the run looked. `word` is the last thing said for a contact;
contacts speak, bounce, are suppressed by an operator or imported from a CSV
row.

### WebhookParser, Knowledge, ReplyRules and MessageTurn

The parser reads a payload item by item (`Read`, `ReadEach`): each becomes a
message with a type and a text, a status or an error, or is left out. An account
error whose code passes `isdigit` and not `int` raises outside every `try`
(`ErrorRaises`), and then nothing of the payload is kept (`ReadAll`); the
chunker's buffers are kept as sizes and the places of the sentences they
hold; an analysis is an intent, a confidence, a flag, a proposed text and
sources. `MessageTurn` takes a payload (`Receive`), and runs each message through
stop words, switches, unreadable types, keywords and the injection screen
(`Sift`), retrieval (`Search`: any choice of at most `TopK` chunks), the model
with its retries (`Ask`: any of `RawAnswers`, a failure, or an unexpected
exception), validation and composition (`Conclude`), and the send, in or out of
the service window, guarded or not. One turn at a time: overlapping jobs are
the subject of `ContactConsent` and `Escalation`. Between turns an operator may
suppress the contact, switch its bot, or close its ticket (`SuppressContact`,
`SwitchContact`, `CloseTicket`).

A job that raises is rolled back and disposed of (`JobFails`): `tasks.py:202`
raises again, and neither arq nor the asyncio fallback runs such a job a second
time. A worker that dies or is shut down (`WorkerDies`) leaves the job to be run
again, up to `MaxTries`. The branch for a conversation that a human handles
(`conversation_service.py:281`) is left out: nothing in the repository sets
HUMAN_HANDLING. A text of white space (`White`) ends the turn without a reply,
also where an absent one is answered with regret.

## 3. What the runs show

| Run | Question | Instance |
| --- | --- | --- |
| `ledger` | Does claim-then-enqueue keep one owner per event and effects at most once? Does it implement `EventOnce`? Is every job disposed of? | 2 requests, 2 workers, one message and one status event, 2 deliveries, 1 failure anywhere |
| `ledger_duplicate_lost` | "Duplicate webhook deliveries are processed exactly once" | fails: claimed and lost events stay unprocessed |
| `status` | Does the furthest report win when jobs take turns; is a recipient never ahead of its message however they overlap; does an applied bounce suppress until the contact opts in again; do reports settle? | 2 jobs, 4 reports, 1 failing job, any STOPs and STARTs |
| `campaign_one` | Are calls that left a template accounted for, those whose answers were lost too; is a second send always a rolled-back first; does the threshold stop a run; is COMPLETED complete; does a suppression let at most one more call out? Do the runs implement `CampaignBooks`? | 2 executors of one campaign, 3 contacts, batches of 2, 2 starts each, 1 abort, 1 contact suppressed on the way |
| `campaign_two` | Do runs end although two campaigns lock contacts in opposite orders? | 2 campaigns, 3 contacts of which one does not decrypt, 1 suppressed on the way |
| `consent` | What holds of consent in turn, and what however jobs overlap? Who is still answered after a pause? Do the jobs implement `ConsentRegister`? | 2 jobs, 3 arrivals of 5 kinds, an operator, 1 failing job |
| `consent_window` | "no window in which someone is opted out but still sendable" | fails for a START that loaded the contact before the STOP committed |
| `escalation` | Is there one open ticket per conversation; does a hand-over silence the bot until an operator resumes it; does a silence have a ticket; does every wait end? | 2 jobs, 3 messages, 2 operators' requests, 1 expiry, 1 failing job |
| `client` | How many copies may Meta accept; what opens the circuit; how much passes an open one; does one failed trial close it again? | 3 calls, 1 retry each, threshold 4, window 2, Retry-After up to 1 |
| `gate` | What was a template that leaves checked against; are quiet hours exact on every hour and window; is consent on record? | 2 contacts, 1 campaign, 3 events of the contacts, 1 edit, a day of 3 |
| `turn` | Does model text leave only where grounded; do words match deeds; is a person reached; does a payload's work end though its jobs raise and its workers die? Do the chunker and the parser keep what they must? | 19 payloads (each kind of message alone, and batches), two providers, all answers of a small model, 1 retry, 2 tries |
| `told_unsubscribed` | "Opt-out takes effect immediately and writes to a permanent suppression list" | fails for an opt-out that only the model recognises |

`ChunksCover` and `BatchesSurvive` say something of operators, for all texts of
up to three paragraphs around the chunk's size (`Texts`) and all batches of up to
four of eight items (`Batches`); TLC evaluates them where nothing has happened
yet (`AtFirst`). Both are proved for texts and batches of any length.

Deadlock checking is off where bounded deliveries, runs, messages or calls let an
instance really come to rest, and on in `gate` and `turn`, where the clock and the
customer go on.

**Bounds.** Races need two actors, so two requests, workers, executors or jobs;
a third adds no new pair. Two deliveries are a first and a repeat; one failure
can fall anywhere; the proofs lift these bounds. Three contacts
with batches of two give a second batch, and a failure threshold reached before
and after a batch ends (`MinSample` is 10 in the code and 2 here). Two starts
and one abort give a failed run and its repetition. One suppression
(`MaxSuppressions`) can commit at every point of a run; a second contact's is
another instance of it, and the proofs lift the bound. The two executors of one
campaign are alike, so `campaign_one` is checked up to swapping them
(`EqualExecutors`); the run of a liveness property, `campaign_two`, is not. Three arrivals let two jobs
be overtaken by a third. Two requests against two jobs give a resolution that
crosses a hand-over and an acknowledgement after a resolution. Three calls with a
threshold of four open the circuit across calls, and let two trials through a
half-open circuit while a third call retries. A day of three units holds an
empty window, one that wraps and one that does not; one edit is a configuration
that differs between script and worker. Chunks of 5 with a minimum of 2 meet
texts of 1 to 7 on both sides of every comparison.

**Fairness.** Weak fairness per request, job and run: asyncio resumes a
coroutine whose await is done, arq polls the queue, PostgreSQL serves lock
waiters and resolves deadlocks; a model call has a timeout. Nothing is assumed
of Meta, of customers, of operators, or of failures. `Escalation` states waiting
as a safety property (`WaitsEnd`): nobody waits for someone at rest, and in every
closed group of waiters the server finds a pair to break.

**Also seen while modelling**, in the model's behaviour and no run's question:

* The dead letter is written in the session the same exception rolls back
  (`tasks.py:190`); `models.py:420` promises it to operators.
* A failed opt-out confirmation rolls the opt-out back
  (`conversation_service.py:262`; `docs/ACCEPTANCE_TESTS.md:9`).
* Two status jobs that loaded the same row can move a message backwards (line 233
  of `repositories/conversations.py`, whose line 221 says "never move backwards"),
  and the recipient row takes reports the message row ignores (`RecipientTrails`
  bounds how far they differ).
* A template whose every answer was lost is recorded as FAILED, whether or not
  Meta accepted it (`campaign_service.py:346`, `whatsapp_client.py:293`).
* A run that aborts after a send sends again when repeated
  (`campaign_service.py:8`, 313), numbers that do not decrypt skip the failure
  threshold (line 302), and a second executor that passed the guard resumes a
  campaign that paused itself.
* `campaign_service.py:4` and `rules.py:194` speak of a gate before every send;
  it is evaluated at staging only. A campaign staged in quiet hours is refused
  for good (`NightStagingSendsNothing`), where `docs/COMPLIANCE.md:33` has it
  "postponed or rejected"; and line 32 has recipients' time zones, where the code
  takes the business's. One that is staged by a dry run in the day, or still
  running when the window starts, sends in the night.
* A contact imported as SUPPRESSED or PENDING gets no suppression entry and is
  still sent what was staged before (`SendsHadConsent` excludes it by name).
* An OPT_IN that only the model guessed is recorded with the evidence of an
  explicit keyword, safety flags or not (`conversation_service.py:325`), where
  `consent_service.py:8` says "Consent is never inferred".
* `parse_webhook` "Never raises" (`webhook_parser.py:317`) and a malformed item
  "never aborts the whole batch" (line 6), but an account error's code such as a
  superscript digit passes `isdigit` and not `int` (line 399): the payload is
  answered 500 and its other items are lost. `BatchesSurvive` says that nothing
  else raises.
* `docs/ARCHITECTURE.md:9` has a rule-based fallback when the model is down; the
  code answers "unavailable" and escalates.
* The comment at `whatsapp_client.py:94` speaks of a trial; all concurrent calls
  are trials. A 2xx without a message id stores an empty id, of which the second
  collides with the unique constraint after the message has left.
* A text that is one chunk below the minimum is dropped (`or not chunks` is never
  true there), and two files of the same stem share chunk ids.
* Where the two confidence thresholds are equal, an answer of a disabled intent
  becomes UNKNOWN, which needs no grounding, at a confidence that still passes the
  reply's threshold: `_post_validate` lowers to the escalation threshold and not
  below it (`intent_service.py:236`). `AnswersGrounded` says what then remains.
* `should_escalate`, `features.llm_responses`, `llm_concurrent` and two of the gate's
  codes are reached by nothing; template rows edited by the operator are read by
  nothing; re-indexing by the API reaches no worker.

## 4. What is proved

For every value of the constants, from the named assumptions of each module
only. They say that sets of actors are disjoint, that counters are naturals,
that quiet hours lie in the day (HH:MM), that a model's object has a flag for a
person and a number for its confidence (IntentResult refuses others), that no
paragraph or sentence of a text is empty, and, where a property counts them,
that the jobs or campaigns at a time are finitely many. The table gives each
theorem, the property it proves, and what had to be added to the property to
make it inductive.

| Module | Theorem | Property | The argument |
| --- | --- | --- | --- |
| `InboundLedgerProofs` | `TypeCorrect` | | |
| | `LedgerSafety` | `OneOwner` | an event with a job has a ledger row, a request that bumps saw a row, the message row is exactly a commit, and replies are counted against commits, open sends and lost runs (`IInv`) |
| | `EffectsCommittedOnce`, `RepeatsCounted` | `EffectsOnce`, `RepeatsPaidByCrashes` | corollaries |
| | `NeverAnsweredAgain` | `NoReplyAfterCommit` | the row blocks the second `Store` |
| | `LedgerImplementsEventOnce` | `ImplementsEventOnce` | the refinement, step by step |
| | `EventOnceKeepsEffectsOnce` | | what `EventOnce` promises is enough: whatever implements it commits an event at most once, and only a claimed one |
| `DeliveryStatusProofs` | `BouncesAreListed` | `BouncesSuppress` | only an opt-in takes an entry off, and excuses it; a job that read the contact and left it alone saw it opted out, so it was listed, or excuses it too |
| | `FurthestReportWins` | `FurthestWins` | one job in turn computes from the row as it is; the row's rank is that of a report and not below any |
| | `RecipientIsBehind` | `RecipientTrails` | a report is at work in one job only (`EachOnce`); until a terminal report a message that was delivered once stays so, whatever snapshots there are, and a job that takes the message back from READ takes the recipient back with it (`NotAhead`) |
| `CampaignRunProofs` | `TemplatesAreAccounted` | `SendsAccounted` | a run at work holds its campaign's row, and what it has left is eligible and unwritten (`RunInv`); then calls that left a template = undone + recorded + in flight, where recorded is SENT, or FAILED and `stray`; an undecided recipient is not stray, and a rollback takes its run's strays back |
| | `RepeatsNeedRollback` | `SecondSendNeedsRollback` | from the account: recorded and in flight exclude each other |
| | `LateSendsAreFew` | `FewLateSends` | late calls plus campaigns that have cleared the contact are at most the campaigns |
| | `CompletionIsFinal` | `CompletedIsDone` | a run that will complete has nobody left, and nobody else may write |
| | `RunsImplementBooks` | `ImplementsCampaignBooks` | the refinement, step by step: a run's templates are exactly the open ones of its campaign (it alone holds the row), a pausing run has sent something, and one that completes leaves nobody due |
| | `BooksKeepSends` | | the books are promise enough: whatever implements `CampaignBooks` keeps `SecondSendNeedsRollback` and `CompletedIsDone`, because the books balance (`BooksBalance`) |
| | `RunsAreTyped` | | |
| | `RunsStopAtThreshold` | `StopsAtThreshold` | a run that goes on compared last; assumes that every number decrypts (`Undecryptable = {}`), since the others skip the comparison |
| `ContactConsentProofs` | `ConsentIsTyped` | | |
| | `StopIsKept` | `StopHolds` | what a transaction flushed fits its record (`WritesFit`); without an opt-in nobody drops an entry |
| | `LastWordIsKept` | `LastWordStands` | in turn, the one job has the contact as it is, and its message is newer than every record |
| | `PausesTakeEffect` | `FewLateReplies` | late answers plus the jobs past the switch, or that loaded the contact before it, are at most those charged when it was set |
| | `ConsentImplementsRegister` | `ImplementsConsentRegister` | the refinement, step by step: a job that will commit a record holds the contact's row (`RowHeld`), so what a STOP leaves on the list is there when it commits (`EntryStays`), and a message is taken by one job (`TakenOnce`) |
| | `RegisterKeepsConsent` | | the register is promise enough: whatever implements it keeps `LastWordStands` and `StopHolds` |
| `EscalationProofs` | `OneTicketIsOpen` | `OneOpenTicket` | a job about to file a new ticket found none open, and holds the contact's row until it commits |
| | `HandOversSilence` | `HandOverSilences` | without a pause, every hand-over so far was lifted |
| | `SilencesAreListed` | `SilenceIsListed` | in turn, a job about to pause has a ticket of its own or an open one, and a resolution saw the pause |
| | `OneConversationLives` | `OneLiveConversation` | in turn, what is live is what the job serves or has set EXPIRED |
| | `EveryWaitEnds` | `WaitsEnd` | whoever holds a row has come to the statement that locks it (`LocksHeld`); the order of locks leaves one circle |
| `GraphClientProofs` | `ClientTypeCorrect` | | |
| | `CopiesAreAccounted` | `CopiesAccounted` | lost answers are counted by attempts |
| | `BreakerOpensOnFaults`, `TrialsReopen` | `OpensOnFaults`, `FailedTrialReopens` | the counter is the faults since the last other answer |
| | `OpenCircuitLetsRetriesOnly` | `HammeringBounded` | an attempt that passes an open circuit is one of the numbers of a call, none counted twice |
| `SendGateProofs` | `ConsentIsOnRecord` | `ConsentOnRecord` | each word that lists or delists writes what it says, in turn (`GateInv`); that an opted-out contact is listed is not claimed: overlapping jobs refute it (`NoWindow`) |
| | `NightStagingIsRefused` | `NightStagingSendsNothing` | an eligible recipient is one the gate let pass under the configuration it was staged with |
| | `SendsNeededConsent` | `SendsHadConsent` | the same, and whoever passed the last look at the list was not on it then (`wordThen`) |
| | `GateIsExact` | | the gate's early returns as one table, for any template, status and hour |
| | `ScheduleIsExact`, `QuietHoursAreExact` | `QuietHoursExact` | for a day of any length: the window as a number of steps round the day, before and after midnight, and the next allowed time as the least one out of it |
| `MessageTurnProofs` | `ComposedReply`, `CheckedAnswer` | | what `compose` and the validation do to any analysis, by the order of their branches |
| | `AnswersAreGrounded` | `AnswersGrounded` | how a reply that is about to leave was decided (`Outcome`): by a stop word, a keyword, the screen, the model or its failure, from the contact as it was loaded (`TurnInv`) |
| | `WordsAreDeeds` | `WordsMatchDeeds` | each of those writes what it says; retries start from what is saved |
| | `PeopleAreAlwaysReached` | `PeopleAreReached` | each of those escalates, or is a case the property excludes |
| | `EveryTextIsKept`, `ChunksAlwaysCover` | `ChunksCover` | by induction over the chunker's loops: chunks and buffer are a row of whole chunks in order that keeps the places read so far (`Line`); a flush, a cut and a split keep it, and no chunk that holds a sentence of the minimal length is dropped |
| | `EveryBatchSurvives`, `BatchesAlwaysSurvive` | `BatchesSurvive` | where an account error raises, nothing is left; else by induction over the parser's loop: what it has after k items is what each of them gives alone, in a row (`ReadSoFar`, `Concatenation`), under keys that tell them apart (`KeysTell`) |

Type invariants are proved with them: they are the first conjunct of `OneOwner`,
`FurthestWins`, `FewLateReplies`, `OneOpenTicket`, `CopiesAccounted`,
`SendsAccounted`, `WordsMatchDeeds` and of the invariants `RunInv`, `TypeInv`,
`GateInv`, `WorkInv`, `TurnInv`. `EscalationProofs` also shows that the bound on
messages never keeps a job from taking an id (`IdsLeft`), which the type of
`nextTicket` needs.

The library's induction theorems take an operator as a parameter, which the
provers cannot instantiate. The proofs about the chunker and the parser do
without: a set of numbers has a least one because `<` is well founded on them
(`LeastNatural`), so a set with 0 and with each successor below n holds all
numbers up to n (`SetInduction`). The same gives, for any step, the function
that `FoldLeft` chooses (`FoldExists`), and so the state of a loop after k
rounds (`ParagraphRuns`, `SplitRuns`, `PackingRuns`, `FilterRuns`,
`ReadingRuns`).

Only model-checked: liveness (`JobsSettle`, `ReportsSettle`, `RunsEnd`,
`TurnsEnd`), which is out of the prover's reach, as is `ENABLED`. Every other
property of a passing run is stated by a theorem.

## 5. What is not modelled, and the plan

Left out for good: signature checks, encryption, prompts, ranking and wording,
extraction of JSON from a model's text, logging, settings, the dashboard, the
schema, statistics and listings, demonstration data. Message content is its kind
or a sequence of words, and the outcome of a send is accepted or raised.
Contacts exist before a module starts. The two housekeeping tasks are never
scheduled by `WorkerSettings`. BM25 and cosine scores are any choice of chunks,
since no property depends on which are found. Of the configuration schema, only
what a decision reads is modelled; field formats and lengths are not.

What is left of the plan is the composition of inbound jobs, consent and a
campaign run: how long a STOP can wait for a campaign that holds the contact's
row. Today `CampaignRun` bounds what such a run still sends (`FewLateSends`), and
`ContactConsent` waits for a row that only its own jobs and the operator hold.
