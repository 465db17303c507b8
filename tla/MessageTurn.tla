------------------------------ MODULE MessageTurn ------------------------------
(***************************************************************************)
(* The turns of one customer: from a webhook's payload to the reply.  It   *)
(* composes the operators of WebhookParser, SendRules, Knowledge and       *)
(* ReplyRules in the order the pipeline calls them.                        *)
(*                                                                         *)
(*   app/services/conversation_service.py   handle_inbound, _send_reply    *)
(*   app/services/intent_service.py         analyse                        *)
(*   app/integrations/llm_client.py         OllamaClient.analyse,          *)
(*                                          DeterministicClient.analyse    *)
(*   app/workers/tasks.py                   process_inbound_message_task   *)
(*                                                                         *)
(* Turns follow one another here: how the jobs of a contact overlap is the *)
(* subject of ContactConsent and Escalation, how events are claimed and    *)
(* jobs lost that of InboundLedger, how a request is repeated that of      *)
(* GraphClient.  A job is one transaction: contact is its view, saved what *)
(* is committed; a reply that has left is not taken back.                  *)
(***************************************************************************)
EXTENDS WebhookParser, SendRules, Knowledge, ReplyRules

CONSTANTS
  Payloads,          \* payloads Meta may post
  Bot,               \* keywords: [stop, start, person]
  Supported,         \* supported_message_types
  Injections,        \* texts the screening patterns match
  Facts, Files,      \* the business's knowledge
  Texts,             \* texts a file may hold
  Batches,           \* items a payload may have
  Providers,         \* {"ollama", "deterministic"}
  RawAnswers,        \* objects a model may answer with
  Guesses,           \* [intent, flag] the rule-based provider may see
  MaxLlmRetries,     \* llm_max_retries
  MaxTries           \* a job's tries

ASSUME MessageTurnAssumption ==
  /\ {MaxLlmRetries, MaxTries} \subseteq Nat /\ MaxTries > 0
  /\ Providers \subseteq {"ollama", "deterministic"}
  /\ \A p \in Payloads : \A i \in ToSet(p.items) : i.is \in {"message", "status", "error", "junk"}
  /\ \A a \in RawAnswers : a.person \in BOOLEAN /\ a.confidence \in Int
  /\ {f.text : f \in Files} \subseteq Texts /\ Texts \subseteq AllTexts
  /\ Batches \subseteq AllBatches

VARIABLES
  provider,      \* the provider the worker was built with
  pausedAll,     \* bot_state
  saved,         \* the contact, as committed: [status, listed, paused, waiting]
  inbox,         \* messages claimed and not yet handled
  pc,            \* idle, loaded, searched, asking, sending, ended
  contact,       \* the contact, as the job sees it
  hits,          \* what retrieval found
  attempt,       \* requests the model has failed
  raw,           \* the model's object, NoAnalysis when none was asked
  failed,        \* llm_failed
  reply,         \* what is to be sent
  guarded,       \* whether a failure to send it is caught
  told,          \* whether it left
  tries          \* how many workers have died of the job

turn == <<contact, hits, attempt, raw, failed, reply, guarded, told>>
vars == <<provider, pausedAll, saved, inbox, pc, turn, tries>>

Silence  == Fixed("silence")
Knowing  == Index(Facts, Files)
Message  == Head(inbox)
Contacts == [status : {"UNKNOWN", "OPTED_IN", "OPTED_OUT"}, listed : BOOLEAN,
             paused : BOOLEAN, waiting : BOOLEAN]

TypeOK ==
  /\ provider \in Providers /\ pausedAll \in BOOLEAN
  /\ saved \in Contacts /\ contact \in Contacts
  /\ pc \in {"idle", "loaded", "searched", "asking", "sending", "ended"}
  /\ hits \in Findable(Knowing)
  /\ attempt \in 0..MaxLlmRetries /\ tries \in 0..MaxTries - 1
  /\ failed \in BOOLEAN /\ guarded \in BOOLEAN /\ told \in BOOLEAN
  /\ pc = "idle" => contact = saved /\ reply = Silence /\ ~ told
  /\ pc # "idle" => inbox # <<>>

Init ==
  /\ provider \in Providers /\ pausedAll = FALSE
  /\ saved \in {[status |-> s, listed |-> s = "OPTED_OUT", paused |-> FALSE, waiting |-> FALSE] :
                  s \in {"UNKNOWN", "OPTED_OUT"}}
  /\ inbox = <<>> /\ pc = "idle"
  /\ contact = saved /\ hits = {} /\ attempt = 0 /\ raw = NoAnalysis /\ failed = FALSE
  /\ reply = Silence /\ guarded = TRUE /\ told = FALSE
  /\ tries = 0
--------------------------------------------------------------------------------
(***************************************************************************)
(* Between turns.                                                          *)
(***************************************************************************)
(* A payload that makes the parser raise is answered 500, with nothing     *)
(* claimed.                                                                *)
Receive ==
  /\ inbox = <<>>
  /\ \E p \in Payloads :
       /\ ~ ParseWebhook(p).raises
       /\ inbox' = ParseWebhook(p).messages
  /\ UNCHANGED <<provider, pausedAll, saved, pc, turn, tries>>

SwitchAll ==
  /\ pausedAll' = ~ pausedAll
  /\ UNCHANGED <<provider, saved, inbox, pc, turn, tries>>

(* What an operator makes of the contact between turns: suppressed, with   *)
(* its bot switched off or on, or its ticket closed and its bot resumed.   *)
Administer(c) ==
  /\ pc = "idle"
  /\ saved' = c /\ contact' = c
  /\ UNCHANGED <<provider, pausedAll, inbox, pc, hits, attempt, raw, failed, reply, guarded,
                 told, tries>>

SuppressContact == Administer([saved EXCEPT !.listed = TRUE])
SwitchContact   == Administer([saved EXCEPT !.paused = ~ @])
CloseTicket     == saved.waiting /\ Administer([saved EXCEPT !.waiting = FALSE, !.paused = FALSE])
--------------------------------------------------------------------------------
(***************************************************************************)
(* How a job ends.                                                         *)
(***************************************************************************)
Reset ==
  /\ pc' = "idle" /\ hits' = {} /\ attempt' = 0 /\ raw' = NoAnalysis /\ failed' = FALSE
  /\ reply' = Silence /\ guarded' = TRUE /\ told' = FALSE

Commit ==
  /\ pc = "ended"
  /\ saved' = contact /\ inbox' = Tail(inbox) /\ tries' = 0
  /\ Reset
  /\ UNCHANGED <<provider, pausedAll, contact>>

(* The exception leaves the task: rollback, and the queue disposes of the  *)
(* job, whose message is not handled again.                                *)
JobFails_RunsAgain ==
  /\ contact' = saved
  /\ Reset
  /\ UNCHANGED <<provider, pausedAll, saved, inbox, tries>>
JobFails ==
  /\ contact' = saved
  /\ inbox' = Tail(inbox) /\ tries' = 0
  /\ Reset
  /\ UNCHANGED <<provider, pausedAll, saved>>

(* The worker dies or is shut down: rollback, and the job runs again while *)
(* it has tries left.                                                      *)
WorkerDies ==
  /\ tries + 1 < MaxTries
  /\ contact' = saved
  /\ tries' = tries + 1
  /\ Reset
  /\ UNCHANGED <<provider, pausedAll, saved, inbox>>
--------------------------------------------------------------------------------
(***************************************************************************)
(* handle_inbound, up to the analysis.                                     *)
(***************************************************************************)
Load ==
  /\ pc = "idle" /\ inbox # <<>>
  /\ IF Message.from
     THEN /\ pc' = "loaded"
          /\ UNCHANGED <<provider, pausedAll, saved, inbox, turn, tries>>
     ELSE JobFails                            \* normalise_phone refuses it

OptedOut(c) == [c EXCEPT !.status = "OPTED_OUT", !.listed = TRUE]
OptedIn(c)  == [c EXCEPT !.status = "OPTED_IN", !.listed = FALSE]

Stops_UnlessPaused(m) == Matches(m.text, Bot.stop) /\ ~ pausedAll /\ ~ contact.paused
Stops(m) == Matches(m.text, Bot.stop)

(* A text of white space only, the one that holds this token.              *)
White == << <<"">> >>

Unreadable(m) == m.type = "unsupported" \/ (m.type \notin Supported /\ m.text = <<>>)

(* The stop word comes before the switches; it and the regret over a type  *)
(* are sent with nothing to catch a failure.  A conversation that a human  *)
(* handles would be left alone too, but nothing puts one in that state.    *)
Sift ==
  /\ pc = "loaded"
  /\ \/ /\ Stops(Message)
        /\ contact' = OptedOut(contact)
        /\ reply' = Fixed("unsubscribed") /\ guarded' = FALSE
        /\ pc' = "sending"
     \/ /\ ~ Stops(Message) /\ (pausedAll \/ contact.paused)
        /\ pc' = "ended" /\ UNCHANGED <<contact, reply, guarded>>
     \/ /\ ~ Stops(Message) /\ ~ pausedAll /\ ~ contact.paused
        /\ IF Unreadable(Message)
           THEN reply' = Fixed("unsupported") /\ guarded' = FALSE /\ pc' = "sending"
           ELSE /\ pc' = IF Message.text \in {<<>>, White} THEN "ended" ELSE "searched"
                /\ UNCHANGED <<reply, guarded>>
        /\ UNCHANGED contact
  /\ UNCHANGED <<provider, pausedAll, saved, inbox, hits, attempt, raw, failed, told, tries>>
--------------------------------------------------------------------------------
(***************************************************************************)
(* From the analysis to the reply.                                         *)
(***************************************************************************)
(* A request for consent dated in the future is an error.                  *)
OptInRaises(a) == a.intent = "OPT_IN" /\ Message.at = "future"

Conclude(a, llmFailed, found) ==
  LET r == IF llmFailed THEN Unavailable ELSE Compose(a, Ids(found))
      c == IF a.intent = "OPT_IN" THEN OptedIn(contact) ELSE contact
  IN IF OptInRaises(a) THEN JobFails
     ELSE /\ contact' = [c EXCEPT !.waiting = @ \/ r.escalate, !.paused = @ \/ r.pause]
          /\ reply' = r /\ failed' = llmFailed /\ pc' = "sending"
          /\ UNCHANGED <<provider, pausedAll, saved, inbox, attempt, guarded, told, tries>>

(* Keywords and the screening decide before a model is asked.              *)
Search ==
  /\ pc = "searched"
  /\ \E found \in Findable(Knowing) :
       LET intent == KeywordIntent(Message.text, Bot) IN
       IF intent # "NONE" \/ Message.text \in Injections
       THEN /\ Conclude(IF intent # "NONE" THEN ByKeyword(intent) ELSE Screened, FALSE, found)
            /\ UNCHANGED <<hits, raw>>
       ELSE /\ hits' = found /\ pc' = "asking"
            /\ UNCHANGED <<provider, pausedAll, saved, inbox, contact, attempt, raw, failed,
                           reply, guarded, told, tries>>

Answer(object) ==
  /\ raw' = object
  /\ Conclude(PostValidate(Coerced(object), Ids(hits)), FALSE, hits)
  /\ UNCHANGED hits

(* DeterministicClient: flags and intent from words of the message; of the *)
(* intents it takes for factual, an answer that quotes the first chunk of  *)
(* the prompt.                                                             *)
Factual == (GroundingRequired \ {"ORDER_STATUS"}) \cup {"SUPPORT_REQUEST"}
RuleBased(guess, first) ==
  LET quotes == guess.intent \in Factual /\ guess.flag = "none" /\ Shown(first)
  IN Analysis(guess.intent,
              IF guess.intent = "UNKNOWN" \/ (guess.intent \in Factual /\ guess.flag = "none"
                                              /\ ~ quotes) THEN 0 ELSE ReplyAt,
              guess.flag # "none" \/ guess.intent \in AlwaysEscalate, guess.flag,
              IF quotes THEN "answer" ELSE "empty", IF quotes THEN {first.id} ELSE {})

NoChunk == [id |-> <<>>, size |-> MaxContext + 1]

(* OllamaClient: no answer in time or an error status is tried again; an   *)
(* answer without usable JSON is not; one that is not HTTP JSON at all is  *)
(* a ValueError nobody expects.                                            *)
Ask ==
  /\ pc = "asking"
  /\ \/ /\ provider = "ollama" /\ \E object \in RawAnswers : Answer(object)
     \/ /\ provider = "deterministic"
        /\ \E guess \in Guesses, first \in (IF hits = {} THEN {NoChunk} ELSE hits) :
             Answer(RuleBased(guess, first))
     \/ /\ provider = "ollama" /\ attempt < MaxLlmRetries
        /\ attempt' = attempt + 1
        /\ UNCHANGED <<provider, pausedAll, saved, inbox, pc, contact, hits, raw, failed, reply,
                       guarded, told, tries>>
     \/ /\ provider = "ollama"                \* the last retry, or an unusable answer
        /\ Conclude(NoAnalysis, TRUE, hits)
        /\ UNCHANGED <<hits, raw>>
     \/ provider = "ollama" /\ JobFails
--------------------------------------------------------------------------------
(***************************************************************************)
(* _send_reply.                                                            *)
(***************************************************************************)
(* service_window_open: nothing leaves a day or more after the message.    *)
WindowOpen == Message.at # "late"

Send ==
  /\ pc = "sending"
  /\ \/ /\ told' = WindowOpen /\ pc' = "ended"
        /\ UNCHANGED <<provider, pausedAll, saved, inbox, contact, hits, attempt, raw, failed,
                       reply, guarded, tries>>
     \/ /\ WindowOpen /\ guarded /\ pc' = "ended"
        /\ UNCHANGED <<provider, pausedAll, saved, inbox, turn, tries>>
     \/ WindowOpen /\ ~ guarded /\ JobFails

(* At any point, the database or the job's timeout; or the worker.  A      *)
(* death on the last try is found out when the job would run once more,    *)
(* and disposes of it too.                                                 *)
Breaks == pc # "idle" /\ (JobFails \/ WorkerDies)

Step == Load \/ Sift \/ Search \/ Ask \/ Send \/ Commit
Next == Receive \/ SwitchAll \/ SuppressContact \/ SwitchContact \/ CloseTicket \/ Step \/ Breaks

(* The worker goes on with a job it has, and takes the next one.           *)
Fairness == WF_vars(Step)
Spec == Init /\ [][Next]_vars /\ Fairness
--------------------------------------------------------------------------------
Left == pc = "ended" /\ told
Keyword == KeywordIntent(Message.text, Bot)
Guess == Coerced(raw).intent

(* A text of the model's own only leaves if the model flagged nothing and  *)
(* asked for no person, with the confidence a reply takes, on sources that *)
(* were found; never for an enabled intent that has a fixed text, nor, if  *)
(* it states facts, without a source; and, where the two thresholds        *)
(* differ, never for an intent that is not enabled, on nothing found or on *)
(* made-up sources only.                                                   *)
AnswersGrounded ==
  Left /\ reply.byModel =>
    /\ raw.flag \notin Flags /\ ~ raw.person
    /\ Coerced(raw).confidence >= ReplyAt
    /\ reply.sources \subseteq Ids(hits)
    /\ Guess \in EnabledIntents =>
         /\ Guess \notin FixedIntents
         /\ Guess \in GroundingRequired => reply.sources # {}
    /\ EscalateAt < ReplyAt =>
         /\ Guess \in EnabledIntents
         /\ hits # {} \/ Guess \in NeedsNoContext
         /\ raw.sources = {} \/ raw.sources \cap Ids(hits) # {}

(* What is said of consent is what is recorded: whoever sends a stop word, *)
(* paused or not, is on the list when the turn ends and told nothing else; *)
(* who is told of a subscription has one; and consent changes on a keyword *)
(* or a model's guess of OPT_IN only.                                      *)
WordsMatchDeeds ==
  /\ TypeOK
  /\ pc = "ended" =>
    /\ Matches(Message.text, Bot.stop) =>
         /\ contact.listed /\ contact.status = "OPTED_OUT"
         /\ told => reply.text = "unsubscribed"
    /\ told /\ reply.text = "unsubscribed" => contact.listed \/ Guess = "OPT_OUT"
    /\ told /\ reply.text = "subscribed" => contact.status = "OPTED_IN" /\ ~ contact.listed
    /\ contact.status # saved.status \/ contact.listed # saved.listed =>
         "OPT_OUT" = Keyword \/ "OPT_IN" \in {Keyword, Guess}

(* "Opt-out takes effect immediately and writes to a permanent suppression *)
(* list", "consent decisions are never delegated to a model": whoever is   *)
(* told of an unsubscription is on the list.                               *)
ToldIsUnsubscribed == Left /\ reply.text = "unsubscribed" => contact.listed

(* Whoever asks for a person, raises a flag, complains, or meets a model   *)
(* that is down, has a ticket when the turn ends, whether or not the reply *)
(* could be sent; only the switches, and words of consent, come before.    *)
PeopleAreReached ==
  pc = "ended" /\ reply # Silence /\ reply.text # "unsupported" =>
    \/ contact.waiting
    \/ Keyword \in {"OPT_OUT", "OPT_IN"}
    \/ /\ Keyword = "NONE" /\ ~ failed /\ Message.text \notin Injections
       /\ raw.flag \notin Flags
       /\ Guess \in EnabledIntents => Guess \notin AlwaysEscalate \cup {"CANCELLATION"}

(* Whatever text a file holds, its chunks keep it: a cut, a flush and a    *)
(* length below the minimum lose no sentence that fits a chunk, repeat     *)
(* none and move none.  One state is enough to ask it in.                  *)
AtFirst == inbox = <<>> /\ saved.status = "UNKNOWN" /\ ~ saved.paused /\ ~ pausedAll
ChunksCover == AtFirst => \A text \in Texts : KeepsText(text)

(* A webhook's batch is read item by item, whatever else is in it, unless  *)
(* an account error makes parse_webhook raise: then, and only then,        *)
(* nothing of it is.                                                       *)
BatchesSurvive == AtFirst => \A items \in Batches : BatchSurvives(items)

(* A payload's work ends, whatever its jobs raise, its provider does or    *)
(* its workers die of: a job that raises is not run again, and one whose   *)
(* worker dies only so many times.                                         *)
TurnsEnd == inbox # <<>> ~> inbox = <<>>
================================================================================
