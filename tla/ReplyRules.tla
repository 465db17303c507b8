------------------------------- MODULE ReplyRules -------------------------------
(***************************************************************************)
(* What becomes of a model's answer, as operators.                         *)
(*                                                                         *)
(*   app/integrations/llm_client.py      answers of a provider             *)
(*   app/domain/schemas.py               IntentResult                      *)
(*   app/services/intent_service.py      _post_validate                    *)
(*   app/services/response_service.py    compose                           *)
(*                                                                         *)
(* Confidence is a whole number of 0..Top.  A text is named for what it    *)
(* says, not spelt out.                                                    *)
(*                                                                         *)
(* An operator whose name has an underscore is a plausible wrong version   *)
(* of the definition that follows it.                                      *)
(***************************************************************************)
EXTENDS Integers, FiniteSetsExt

CONSTANTS
  Top,               \* full confidence
  ReplyAt,           \* thresholds.reply
  EscalateAt,        \* thresholds.escalate
  EnabledIntents,
  EmergencyText      \* whether emergency.enabled

Intents ==
  {"GREETING", "PRODUCT_INQUIRY", "PRICING_INQUIRY", "AVAILABILITY", "BOOKING_REQUEST",
   "ORDER_STATUS", "SUPPORT_REQUEST", "COMPLAINT", "CANCELLATION", "REFUND_REQUEST",
   "LOCATION_HOURS", "HUMAN_AGENT_REQUEST", "OPT_IN", "OPT_OUT", "UNKNOWN"}
Flags ==
  {"SELF_HARM", "PROMPT_INJECTION", "LEGAL_ADVICE", "ABUSE", "RESTRICTED_TOPIC", "MEDICAL_ADVICE",
   "FINANCIAL_ADVICE", "PII_REQUEST", "OUT_OF_SCOPE"}

(* BotConfig refuses thresholds out of order, and intents without these.   *)
ASSUME ReplyRulesAssumption ==
  /\ {Top, ReplyAt, EscalateAt} \subseteq Nat
  /\ EscalateAt <= ReplyAt /\ ReplyAt <= Top
  /\ EnabledIntents \subseteq Intents
  /\ {"OPT_OUT", "HUMAN_AGENT_REQUEST"} \subseteq EnabledIntents
  /\ EmergencyText \in BOOLEAN

AlwaysEscalate    == {"COMPLAINT", "HUMAN_AGENT_REQUEST", "REFUND_REQUEST"}
GroundingRequired == {"PRODUCT_INQUIRY", "PRICING_INQUIRY", "AVAILABILITY", "ORDER_STATUS",
                      "LOCATION_HOURS"}
NeedsNoContext    == {"GREETING", "OPT_IN", "OPT_OUT", "HUMAN_AGENT_REQUEST"}
--------------------------------------------------------------------------------
(***************************************************************************)
(* An analysis is [intent, confidence, person, flag, text, sources]: flag  *)
(* is the first safety flag or "none"; the proposed text is empty, an      *)
(* answer of which sanitise_reply leaves something, or a leak: nothing but *)
(* the phrases and the markdown that it takes out.                         *)
(***************************************************************************)
Analysis(i, c, p, f, t, s) ==
  [intent |-> i, confidence |-> c, person |-> p, flag |-> f, text |-> t, sources |-> s]

(* IntentResult: a value a model made up is coerced, not refused, and a    *)
(* flag asks for a person.                                                 *)
Coerced(raw) ==
  LET flag == IF raw.flag \in Flags THEN raw.flag ELSE "none"
  IN Analysis(IF raw.intent \in Intents THEN raw.intent ELSE "UNKNOWN",
              Max({0, Min({Top, raw.confidence})}), raw.person \/ flag # "none",
              flag, raw.text, raw.sources)

(* The answers that never reach a model.                                   *)
ByKeyword(intent) ==
  Analysis(intent, Top, intent = "HUMAN_AGENT_REQUEST", "none", "empty", {})
Screened == Analysis("UNKNOWN", 0, TRUE, "PROMPT_INJECTION", "empty", {})
NoAnalysis == Analysis("UNKNOWN", 0, FALSE, "none", "empty", {})

(* _post_validate, over the ids of the chunks retrieved: confidence falls  *)
(* to the escalation threshold, not below it.                              *)
Disabled(a)   == a.intent \notin EnabledIntents
Ungrounded(a, hits) == hits = {} /\ a.intent \notin NeedsNoContext
Invented(a, hits)   == a.sources # {} /\ a.sources \cap hits = {}

PostValidate(a, hits) ==
  [a EXCEPT
     !.intent     = IF Disabled(a) THEN "UNKNOWN" ELSE @,
     !.confidence = IF Disabled(a) \/ Ungrounded(a, hits) \/ Invented(a, hits)
                    THEN Min({@, EscalateAt}) ELSE @,
     !.sources    = @ \cap hits]

--------------------------------------------------------------------------------
(***************************************************************************)
(* compose: [text, escalate, pause, byModel, sources].                     *)
(***************************************************************************)
Fixed(text) ==
  [text |-> text, escalate |-> FALSE, pause |-> FALSE, byModel |-> FALSE, sources |-> {}]
ToPerson(text) == [Fixed(text) EXCEPT !.escalate = TRUE]
Handed(text)   == [ToPerson(text) EXCEPT !.pause = TRUE]

Unavailable == ToPerson("unavailable")

Flagged(a) ==
  CASE a.flag = "SELF_HARM" -> ToPerson(IF EmergencyText THEN "emergency" ELSE "no knowledge")
    [] a.flag = "PROMPT_INJECTION" -> ToPerson("no knowledge")
    [] a.flag \in {"LEGAL_ADVICE", "ABUSE"} -> ToPerson("sorry")
    [] OTHER -> ToPerson(IF a.intent = "COMPLAINT" THEN "sorry" ELSE "no knowledge")

(* Consent and consequential intents have fixed texts.                     *)
FixedIntents ==
  {"OPT_OUT", "OPT_IN", "HUMAN_AGENT_REQUEST", "COMPLAINT", "REFUND_REQUEST", "CANCELLATION"}
OfIntent(a) ==
  CASE a.intent = "OPT_OUT"             -> Fixed("unsubscribed")
    [] a.intent = "OPT_IN"              -> Fixed("subscribed")
    [] a.intent = "HUMAN_AGENT_REQUEST" -> Handed("of course")
    [] a.intent = "COMPLAINT"           -> Handed("sorry")
    [] OTHER                            -> ToPerson("acknowledged")

Blocked_Never(a, hits) == FALSE
Blocked(a, hits) == a.intent \in GroundingRequired /\ (hits = {} \/ a.sources = {})

Answered(a, hits) ==
  IF a.confidence < EscalateAt \/ a.person THEN ToPerson("no knowledge")
  ELSE IF a.confidence < ReplyAt THEN Fixed("clarify")
  ELSE IF Blocked(a, hits) \/ a.text # "answer" THEN ToPerson("no knowledge")
  ELSE [Fixed("answer") EXCEPT !.byModel = TRUE, !.sources = a.sources]

Compose_IntentFirst(a, hits) ==
  IF a.intent \in FixedIntents THEN OfIntent(a)
  ELSE IF a.flag # "none" THEN Flagged(a)
  ELSE Answered(a, hits)
Compose(a, hits) ==
  IF a.flag # "none" THEN Flagged(a)
  ELSE IF a.intent \in FixedIntents THEN OfIntent(a)
  ELSE IF a.intent = "GREETING" /\ a.text = "empty" THEN Fixed("greeting")
  ELSE Answered(a, hits)
=================================================================================
