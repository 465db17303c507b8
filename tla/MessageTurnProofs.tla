--------------------------- MODULE MessageTurnProofs ---------------------------
(***************************************************************************)
(* Proofs about MessageTurn, for any payloads, keywords, knowledge and     *)
(* answers of a model, any thresholds and intents a configuration may      *)
(* have, and any number of retries and tries.                              *)
(***************************************************************************)
EXTENDS MessageTurn, FiniteSetTheorems, WellFoundedInduction, TLAPS

(* The consent and the switches that an analysis and its reply leave.      *)
After(a, r) ==
  [(IF a.intent = "OPT_IN" THEN OptedIn(saved) ELSE saved)
     EXCEPT !.waiting = @ \/ r.escalate, !.paused = @ \/ r.pause]

(* What the model's object has become when a reply is composed.            *)
Checked == PostValidate(Coerced(raw), Ids(hits))

(* Before a reply is decided nothing is said, and the contact is as it was *)
(* loaded.                                                                 *)
Undecided ==
  contact = saved /\ reply = Silence /\ ~ told /\ ~ failed /\ raw = NoAnalysis

(* How a turn that got past the keywords and the screening was decided.    *)
Decided ==
  \/ /\ Keyword \in {"OPT_IN", "HUMAN_AGENT_REQUEST"} /\ ~ failed /\ raw = NoAnalysis
     /\ reply = OfIntent(ByKeyword(Keyword)) /\ contact = After(ByKeyword(Keyword), reply)
  \/ /\ Keyword = "NONE" /\ Message.text \in Injections /\ ~ failed /\ raw = NoAnalysis
     /\ reply = Flagged(Screened) /\ contact = After(Screened, reply)
  \/ /\ Keyword = "NONE" /\ Message.text \notin Injections /\ ~ failed
     /\ reply = Compose(Checked, Ids(hits)) /\ contact = After(Checked, reply)
  \/ /\ Keyword = "NONE" /\ Message.text \notin Injections /\ failed /\ raw = NoAnalysis
     /\ reply = Unavailable /\ contact = After(NoAnalysis, reply)

(* Where the reply of a turn comes from.                                   *)
Outcome ==
  \/ /\ Stops(Message) /\ ~ failed /\ raw = NoAnalysis
     /\ reply = Fixed("unsubscribed") /\ contact = OptedOut(saved)
  \/ ~ Stops(Message) /\ pc = "ended" /\ Undecided
  \/ /\ ~ Stops(Message) /\ ~ failed /\ raw = NoAnalysis
     /\ reply = Fixed("unsupported") /\ contact = saved
  \/ ~ Stops(Message) /\ Decided

(* The object of a model that is asked is one of those it may answer with, *)
(* or what the rule-based provider makes of its guess.                     *)
RawTyped == raw.person \in BOOLEAN /\ raw.confidence \in Int

TurnInv ==
  /\ TypeOK /\ RawTyped
  /\ pc \in {"idle", "loaded", "searched", "asking"} => Undecided
  /\ pc \in {"searched", "asking"} => ~ Stops(Message)
  /\ pc = "asking" => Keyword = "NONE" /\ Message.text \notin Injections
  /\ pc \in {"sending", "ended"} => Outcome
--------------------------------------------------------------------------------
(***************************************************************************)
(* The operators of a reply.                                               *)
(***************************************************************************)
(* The least and the greatest of two numbers.                              *)
LEMMA MinOfTwo ==
  ASSUME NEW x \in Int, NEW y \in Int
  PROVE  Min({x, y}) = IF x <= y THEN x ELSE y
<1> DEFINE m == IF x <= y THEN x ELSE y
<1>1. \A z \in {x, y} : (\A w \in {x, y} : z <= w) <=> z = m
  OBVIOUS
<1>2. m \in {x, y}
  OBVIOUS
<1> HIDE DEF m
<1>3. Min({x, y}) = CHOOSE z \in {x, y} : z = m
  BY <1>1 DEF Min
<1> QED
  BY <1>2, <1>3 DEF m

(* The same of the greatest.                                               *)
LEMMA MaxOfTwo ==
  ASSUME NEW x \in Int, NEW y \in Int
  PROVE  Max({x, y}) = IF x >= y THEN x ELSE y
<1> DEFINE m == IF x >= y THEN x ELSE y
<1>1. \A z \in {x, y} : (\A w \in {x, y} : z >= w) <=> z = m
  OBVIOUS
<1>2. m \in {x, y}
  OBVIOUS
<1> HIDE DEF m
<1>3. Max({x, y}) = CHOOSE z \in {x, y} : z = m
  BY <1>1 DEF Max
<1> QED
  BY <1>2, <1>3 DEF m

(* The texts that are not the model's.                                     *)
LEMMA FixedReplies ==
  ASSUME NEW t
  PROVE  /\ ~ Fixed(t).escalate /\ ~ Fixed(t).byModel /\ Fixed(t).text = t
         /\ ToPerson(t).escalate /\ ~ ToPerson(t).byModel /\ ToPerson(t).text = t
         /\ Handed(t).escalate /\ ~ Handed(t).byModel /\ Handed(t).text = t
  BY DEF Fixed, ToPerson, Handed

(* Each says whether to hand over and whether to pause.                    *)
LEMMA FixedTyped ==
  ASSUME NEW t
  PROVE  /\ Fixed(t).escalate \in BOOLEAN /\ Fixed(t).pause \in BOOLEAN
         /\ ToPerson(t).escalate \in BOOLEAN /\ ToPerson(t).pause \in BOOLEAN
         /\ Handed(t).escalate \in BOOLEAN /\ Handed(t).pause \in BOOLEAN
  BY DEF Fixed, ToPerson, Handed

(* A flag brings a person, whatever the intent, and a text of its own.     *)
LEMMA FlaggedReply ==
  ASSUME NEW a
  PROVE  \/ Flagged(a) = ToPerson("emergency") \/ Flagged(a) = ToPerson("no knowledge")
         \/ Flagged(a) = ToPerson("sorry")
  BY DEF Flagged

(* So does each fixed intent but the two of consent, whose words are       *)
(* theirs alone.                                                           *)
LEMMA IntentReply ==
  ASSUME NEW a
  PROVE  \/ a.intent = "OPT_OUT" /\ OfIntent(a) = Fixed("unsubscribed")
         \/ a.intent = "OPT_IN" /\ OfIntent(a) = Fixed("subscribed")
         \/ /\ a.intent \notin {"OPT_OUT", "OPT_IN"}
            /\ \/ OfIntent(a) = Handed("of course") \/ OfIntent(a) = Handed("sorry")
               \/ OfIntent(a) = ToPerson("acknowledged")
  BY DEF OfIntent

(* The model's text itself, as it would leave.                             *)
Own(a) == [Fixed("answer") EXCEPT !.byModel = TRUE, !.sources = a.sources]

(* It is the only reply that is the model's, and brings no person.         *)
LEMMA OwnReply ==
  ASSUME NEW a
  PROVE  /\ Own(a).text = "answer" /\ Own(a).sources = a.sources
         /\ Own(a).escalate \in BOOLEAN /\ Own(a).pause \in BOOLEAN
  BY DEF Own, Fixed

(* The rest: the model's text, with all it takes, or a fixed one.          *)
LEMMA AnsweredReply ==
  ASSUME NEW a, NEW found
  PROVE  \/ Answered(a, found) = ToPerson("no knowledge") \/ Answered(a, found) = Fixed("clarify")
         \/ /\ Answered(a, found) = Own(a)
            /\ ~ a.person /\ ~ (a.confidence < EscalateAt) /\ ~ (a.confidence < ReplyAt)
            /\ a.intent \in GroundingRequired => found # {} /\ a.sources # {}
  BY DEF Answered, Blocked, Own

(* Whatever is composed says whether to hand over.                         *)
LEMMA ComposeTyped ==
  ASSUME NEW a, NEW found
  PROVE  Compose(a, found).escalate \in BOOLEAN /\ Compose(a, found).pause \in BOOLEAN
<1>1. CASE a.flag # "none"
  <2>1. Compose(a, found) = Flagged(a)
    BY <1>1 DEF Compose
  <2> QED
    BY <1>1, <2>1, FlaggedReply, FixedTyped
<1>2. CASE a.flag = "none" /\ a.intent \in FixedIntents
  <2>1. Compose(a, found) = OfIntent(a)
    BY <1>2 DEF Compose
  <2> QED
    BY <1>2, <2>1, IntentReply, FixedTyped
<1>3. CASE a.flag = "none" /\ a.intent \notin FixedIntents
  <2>1. Compose(a, found) = Fixed("greeting") \/ Compose(a, found) = Answered(a, found)
    BY <1>3 DEF Compose
  <2>2. Answered(a, found).escalate \in BOOLEAN /\ Answered(a, found).pause \in BOOLEAN
    <3>1. \/ Answered(a, found) = ToPerson("no knowledge") \/ Answered(a, found) = Fixed("clarify")
          \/ Answered(a, found) = Own(a)
      BY AnsweredReply
    <3> QED
      BY <3>1, FixedTyped, OwnReply
  <2> QED
    BY <2>1, <2>2, FixedTyped
<1> QED
  BY <1>1, <1>2, <1>3

(* compose lets a text of the model's own out only for an analysis without *)
(* a flag and without a fixed text, and brings a person to each flag and   *)
(* each fixed intent but those of consent.                                 *)
THEOREM ComposedReply ==
  ASSUME NEW a, NEW found
  PROVE  LET r == Compose(a, found) IN
         /\ r.byModel =>
              /\ a.flag = "none" /\ a.intent \notin FixedIntents /\ ~ a.person
              /\ ~ (a.confidence < ReplyAt)
              /\ r.sources = a.sources
              /\ a.intent \in GroundingRequired => found # {} /\ a.sources # {}
         /\ a.flag # "none" => r.escalate
         /\ a.intent \in FixedIntents \ {"OPT_IN", "OPT_OUT"} => r.escalate
         /\ r.text = "unsubscribed" => a.intent = "OPT_OUT"
         /\ r.text = "subscribed" => a.intent = "OPT_IN"
         /\ r.text # "unsupported"
<1> DEFINE r == Compose(a, found)
<1>1. CASE a.flag # "none"
  <2>1. r = Flagged(a)
    BY <1>1 DEF Compose
  <2>2. r = ToPerson("emergency") \/ r = ToPerson("no knowledge") \/ r = ToPerson("sorry")
    BY <2>1, FlaggedReply
  <2> HIDE DEF r
  <2>3. ~ r.byModel /\ r.escalate
    BY <2>2, FixedReplies
  <2>4. r.text # "unsubscribed" /\ r.text # "subscribed" /\ r.text # "unsupported"
    BY <2>2, FixedReplies
  <2> QED
    BY <1>1, <2>3, <2>4 DEF r
<1>2. CASE a.flag = "none" /\ a.intent \in FixedIntents
  <2>1. r = OfIntent(a)
    BY <1>2 DEF Compose
  <2>2. \/ a.intent = "OPT_OUT" /\ r = Fixed("unsubscribed")
        \/ a.intent = "OPT_IN" /\ r = Fixed("subscribed")
        \/ /\ a.intent \notin {"OPT_OUT", "OPT_IN"}
           /\ r = Handed("of course") \/ r = Handed("sorry") \/ r = ToPerson("acknowledged")
    BY <2>1, IntentReply
  <2> HIDE DEF r
  <2>3. CASE a.intent = "OPT_OUT" /\ r = Fixed("unsubscribed")
    <3>1. ~ r.byModel /\ r.text = "unsubscribed"
      BY <2>3, FixedReplies
    <3> QED
      BY <1>2, <2>3, <3>1 DEF r
  <2>4. CASE a.intent = "OPT_IN" /\ r = Fixed("subscribed")
    <3>1. ~ r.byModel /\ r.text = "subscribed"
      BY <2>4, FixedReplies
    <3> QED
      BY <1>2, <2>4, <3>1 DEF r
  <2>5. CASE r = Handed("of course") \/ r = Handed("sorry") \/ r = ToPerson("acknowledged")
    <3>1. ~ r.byModel /\ r.escalate
      BY <2>5, FixedReplies
    <3>2. r.text # "unsubscribed" /\ r.text # "subscribed" /\ r.text # "unsupported"
      BY <2>5, FixedReplies
    <3> QED
      BY <1>2, <3>1, <3>2 DEF r
  <2> QED
    BY <2>2, <2>3, <2>4, <2>5
<1>3. CASE a.flag = "none" /\ a.intent \notin FixedIntents
  <2>1. CASE a.intent = "GREETING" /\ a.text = "empty"
    <3>1. r = Fixed("greeting")
      BY <1>3, <2>1 DEF Compose
    <3>2. ~ r.byModel /\ r.text = "greeting"
      BY <3>1, FixedReplies
    <3> QED
      BY <1>3, <3>2
  <2>2. CASE ~ (a.intent = "GREETING" /\ a.text = "empty")
    <3>1. r = Answered(a, found)
      BY <1>3, <2>2 DEF Compose
    <3>2. CASE r = ToPerson("no knowledge") \/ r = Fixed("clarify")
      <4>1. ~ r.byModel /\ r.text \notin {"unsubscribed", "subscribed", "unsupported"}
        BY <3>2, FixedReplies
      <4> QED
        BY <1>3, <4>1
    <3>3. CASE ~ (r = ToPerson("no knowledge") \/ r = Fixed("clarify"))
      <4>1. /\ r = Own(a) /\ ~ a.person /\ ~ (a.confidence < ReplyAt)
            /\ a.intent \in GroundingRequired => found # {} /\ a.sources # {}
        BY <3>1, <3>3, AnsweredReply
      <4>2. r.sources = a.sources /\ r.text = "answer"
        BY <4>1, OwnReply
      <4> QED
        BY <1>3, <4>1, <4>2
    <3> QED
      BY <3>2, <3>3
  <2> QED
    BY <2>1, <2>2
<1> QED
  BY <1>1, <1>2, <1>3

(* What IntentResult and _post_validate leave of a model's object: a flag  *)
(* stays, an enabled intent stays, and where the thresholds differ nothing *)
(* that was lowered passes the reply's threshold.                          *)
THEOREM CheckedAnswer ==
  ASSUME NEW object, object.person \in BOOLEAN, object.confidence \in Int, NEW found
  PROVE  LET c == Coerced(object)
             a == PostValidate(c, found) IN
         /\ c.intent \in Intents
         /\ c.confidence \in 0..Top /\ a.confidence \in 0..Top /\ a.confidence <= c.confidence
         /\ a.person = (object.person \/ object.flag \in Flags)
         /\ a.flag = IF object.flag \in Flags THEN object.flag ELSE "none"
         /\ a.intent = IF c.intent \in EnabledIntents THEN c.intent ELSE "UNKNOWN"
         /\ a.sources = object.sources \cap found
         /\ EscalateAt < ReplyAt /\ ~ (a.confidence < ReplyAt) =>
              /\ c.intent \in EnabledIntents
              /\ found # {} \/ c.intent \in NeedsNoContext
              /\ object.sources = {} \/ object.sources \cap found # {}
<1> DEFINE c == Coerced(object)
           a == PostValidate(c, found)
<1>1. /\ Top \in Nat /\ ReplyAt \in Nat /\ EscalateAt \in Nat
      /\ EscalateAt <= ReplyAt /\ ReplyAt <= Top
  BY ReplyRulesAssumption
<1>2. /\ c.intent = IF object.intent \in Intents THEN object.intent ELSE "UNKNOWN"
      /\ c.confidence = Max({0, Min({Top, object.confidence})})
      /\ c.person = (object.person \/ object.flag \in Flags)
      /\ c.flag = IF object.flag \in Flags THEN object.flag ELSE "none"
      /\ c.sources = object.sources
      /\ c = Analysis(c.intent, c.confidence, c.person, c.flag, c.text, c.sources)
  BY DEF Coerced, Analysis, Flags
<1>3. c.confidence \in 0..Top
  <2>1. Min({Top, object.confidence}) \in Int /\ Min({Top, object.confidence}) <= Top
    BY <1>1, MinOfTwo
  <2> QED
    BY <1>1, <1>2, <2>1, MaxOfTwo
<1> DEFINE low == Disabled(c) \/ Ungrounded(c, found) \/ Invented(c, found)
<1> HIDE DEF c
<1>4. /\ a.intent = IF Disabled(c) THEN "UNKNOWN" ELSE c.intent
      /\ a.confidence = IF low THEN Min({c.confidence, EscalateAt}) ELSE c.confidence
      /\ a.person = c.person /\ a.flag = c.flag
      /\ a.sources = c.sources \cap found
  BY <1>2 DEF PostValidate, Analysis
<1>5. Min({c.confidence, EscalateAt}) = IF c.confidence <= EscalateAt THEN c.confidence
                                                                      ELSE EscalateAt
  BY <1>1, <1>3, MinOfTwo
<1>6. a.confidence \in 0..Top /\ a.confidence <= c.confidence
  BY <1>1, <1>3, <1>4, <1>5
<1>7. EscalateAt < ReplyAt /\ ~ (a.confidence < ReplyAt) => ~ low
  BY <1>1, <1>3, <1>4, <1>5
<1>8. c.intent \in Intents
  BY <1>2 DEF Intents
<1> QED
  BY <1>2, <1>3, <1>4, <1>6, <1>7, <1>8 DEF c, Disabled, Ungrounded, Invented
--------------------------------------------------------------------------------
(***************************************************************************)
(* The turn.                                                               *)
(***************************************************************************)
(* The message of a turn stays until it ends.                              *)
LEMMA SameMessage ==
  ASSUME inbox' = inbox
  PROVE  Message' = Message /\ Keyword' = Keyword /\ Stops(Message)' = Stops(Message)
  BY DEF Message, Keyword, Stops

(* A contact stays one, whatever is done to it.                            *)
LEMMA ContactTyped ==
  ASSUME NEW c \in Contacts, NEW e \in BOOLEAN, NEW p \in BOOLEAN
  PROVE  /\ OptedIn(c) \in Contacts /\ OptedOut(c) \in Contacts
         /\ [c EXCEPT !.waiting = @ \/ e, !.paused = @ \/ p] \in Contacts
  BY DEF Contacts, OptedIn, OptedOut

(* A reset leaves a job's variables as an idle job has them.               *)
LEMMA ResetTyped ==
  ASSUME Reset
  PROVE  /\ pc' = "idle" /\ hits' \in Findable(Knowing) /\ attempt' \in 0..MaxLlmRetries
         /\ failed' \in BOOLEAN /\ guarded' \in BOOLEAN /\ told' \in BOOLEAN
         /\ RawTyped' /\ ~ told' /\ ~ failed' /\ raw' = NoAnalysis /\ reply' = Silence
<1>1. {} \in Findable(Knowing)
  BY FS_EmptySet, KnowledgeAssumption DEF Findable
<1>2. 0 \in 0..MaxLlmRetries
  BY MessageTurnAssumption
<1>3. NoAnalysis.person \in BOOLEAN /\ NoAnalysis.confidence \in Int
  BY DEF NoAnalysis, Analysis
<1> QED
  BY <1>1, <1>2, <1>3 DEF Reset, RawTyped

(* A job that fails or dies leaves the contact as it was, and nothing said *)
LEMMA JobFailsKeeps ==
  ASSUME TurnInv, JobFails \/ WorkerDies
  PROVE  TurnInv'
<1>1. /\ contact' = saved /\ UNCHANGED <<provider, pausedAll, saved>> /\ Reset
      /\ tries' \in 0..MaxTries - 1
  BY MessageTurnAssumption DEF JobFails, WorkerDies, TurnInv, TypeOK
<1>2. TypeOK' /\ Undecided' /\ RawTyped'
  BY <1>1, ResetTyped DEF TurnInv, TypeOK, Undecided, Silence, Knowing
<1> QED
  BY <1>1, <1>2, ResetTyped DEF TurnInv

(* What concluding leaves, unless it raises.                               *)
LEMMA Concludes ==
  ASSUME TurnInv, Undecided, NEW a, NEW f \in BOOLEAN, NEW found, Conclude(a, f, found), ~ JobFails
  PROVE  /\ reply' = IF f THEN Unavailable ELSE Compose(a, Ids(found))
         /\ contact' = After(a, reply') /\ contact' \in Contacts
         /\ failed' = f /\ pc' = "sending"
         /\ UNCHANGED <<provider, pausedAll, saved, inbox, attempt, guarded, told, tries>>
<1> DEFINE r == IF f THEN Unavailable ELSE Compose(a, Ids(found))
           c == IF a.intent = "OPT_IN" THEN OptedIn(contact) ELSE contact
<1>1. /\ contact' = [c EXCEPT !.waiting = @ \/ r.escalate, !.paused = @ \/ r.pause]
      /\ reply' = r /\ failed' = f /\ pc' = "sending"
      /\ UNCHANGED <<provider, pausedAll, saved, inbox, attempt, guarded, told, tries>>
  BY DEF Conclude
<1>2. r.escalate \in BOOLEAN /\ r.pause \in BOOLEAN
  BY ComposeTyped, FixedTyped DEF Unavailable
<1>3. contact = saved /\ saved \in Contacts /\ c \in Contacts
  BY ContactTyped DEF Undecided, TurnInv, TypeOK
<1> HIDE DEF r, c
<1>4. contact' \in Contacts
  BY <1>1, <1>2, <1>3, ContactTyped
<1>5. contact' = After(a, reply')
  BY <1>1, <1>3 DEF After, c
<1> QED
  BY <1>1, <1>4, <1>5 DEF r

(* The analysis of a keyword's intent, and of a screened text, are such    *)
(* that what is composed of them needs nothing found.                      *)
LEMMA WithoutModel ==
  ASSUME NEW found
  PROVE  /\ \A intent \in {"OPT_IN", "HUMAN_AGENT_REQUEST"} :
              Compose(ByKeyword(intent), found) = OfIntent(ByKeyword(intent))
         /\ Compose(Screened, found) = Flagged(Screened)
  BY DEF Compose, ByKeyword, Screened, Analysis, FixedIntents

(* Every text has one of four keywords' intents, and a stop word its own.  *)
LEMMA Keywords ==
  /\ Keyword \in {"OPT_OUT", "OPT_IN", "HUMAN_AGENT_REQUEST", "NONE"}
  /\ Stops(Message) <=> Keyword = "OPT_OUT"
  BY DEF Keyword, KeywordIntent, Stops

(* Concluding with an answer of a model, or of the rule-based provider.    *)
LEMMA AnswerKeeps ==
  ASSUME TurnInv, pc = "asking", NEW object, object.person \in BOOLEAN, object.confidence \in Int,
         Answer(object)
  PROVE  TurnInv'
<1>1. CASE JobFails
  BY <1>1, JobFailsKeeps
<1>2. CASE ~ JobFails
  <2> DEFINE a == PostValidate(Coerced(object), Ids(hits))
  <2>1. Undecided /\ ~ Stops(Message) /\ Keyword = "NONE" /\ Message.text \notin Injections
    BY DEF TurnInv
  <2>2. /\ reply' = Compose(a, Ids(hits)) /\ contact' = After(a, reply') /\ contact' \in Contacts
        /\ failed' = FALSE /\ pc' = "sending"
        /\ UNCHANGED <<provider, pausedAll, saved, inbox, attempt, guarded, told, tries>>
        /\ raw' = object /\ hits' = hits
    BY <1>2, <2>1, Concludes DEF Answer
  <2>3. TypeOK' /\ RawTyped'
    BY <2>2 DEF TurnInv, TypeOK, RawTyped, Knowing
  <2>4. Checked' = a
    BY <2>2 DEF Checked
  <2>5. Decided'
    <3>1. contact' = After(Checked, reply)'
      BY <2>2, <2>4 DEF After
    <3> QED
      BY <2>1, <2>2, <2>4, <3>1, SameMessage DEF Decided
  <2> QED
    BY <2>1, <2>2, <2>3, <2>5, SameMessage DEF TurnInv, Outcome
<1> QED
  BY <1>1, <1>2

(* Every step keeps it.                                                    *)
LEMMA TurnInvariant == Spec => []TurnInv
<1>1. Init => TurnInv
  <2> SUFFICES ASSUME Init
               PROVE  TurnInv
    OBVIOUS
  <2>1. saved \in Contacts
    <3>1. PICK s \in {"UNKNOWN", "OPTED_OUT"} :
            saved = [status |-> s, listed |-> s = "OPTED_OUT", paused |-> FALSE, waiting |-> FALSE]
      BY DEF Init
    <3>2. (s = "OPTED_OUT") \in BOOLEAN
      OBVIOUS
    <3> QED
      BY <3>1, <3>2 DEF Contacts
  <2>2. {} \in Findable(Knowing)
    BY FS_EmptySet, KnowledgeAssumption DEF Findable
  <2>3. 0 \in 0..MaxLlmRetries /\ 0 \in 0..MaxTries - 1
    BY MessageTurnAssumption
  <2>4. TypeOK
    BY <2>1, <2>2, <2>3 DEF Init, TypeOK
  <2>5. RawTyped /\ Undecided /\ pc = "idle"
    BY DEF Init, RawTyped, Undecided, NoAnalysis, Analysis
  <2> QED
    BY <2>4, <2>5 DEF TurnInv
<1>2. TurnInv /\ [Next]_vars => TurnInv'
  <2> SUFFICES ASSUME TurnInv, [Next]_vars
               PROVE  TurnInv'
    OBVIOUS
  <2>1. CASE Receive
    <3>1. pc = "idle" /\ UNCHANGED <<provider, pausedAll, saved, pc, turn, tries>>
      BY <2>1 DEF Receive, TurnInv, TypeOK
    <3> QED
      BY <3>1 DEF turn, TurnInv, TypeOK, RawTyped, Undecided, Silence, Knowing
  <2>2. CASE SwitchAll
    <3>1. pausedAll' \in BOOLEAN /\ UNCHANGED <<provider, saved, inbox, pc, turn, tries>>
      BY <2>2 DEF SwitchAll, TurnInv, TypeOK
    <3>2. TypeOK' /\ RawTyped' /\ (Undecided' <=> Undecided) /\ (Outcome' <=> Outcome)
      BY <3>1, SameMessage
      DEF turn, TurnInv, TypeOK, RawTyped, Undecided, Silence, Knowing, Outcome, Decided, Checked,
          After
    <3> QED
      BY <3>1, <3>2, SameMessage DEF TurnInv
  <2>3. CASE SuppressContact \/ SwitchContact \/ CloseTicket
    <3>1. /\ pc = "idle" /\ contact' = saved' /\ saved' \in Contacts
          /\ UNCHANGED <<provider, pausedAll, inbox, pc, hits, attempt, raw, failed, reply,
                         guarded, told, tries>>
      <4>1. CASE SuppressContact
        BY <4>1 DEF SuppressContact, Administer, TurnInv, TypeOK, Contacts
      <4>2. CASE SwitchContact
        BY <4>2 DEF SwitchContact, Administer, TurnInv, TypeOK, Contacts
      <4>3. CASE CloseTicket
        BY <4>3 DEF CloseTicket, Administer, TurnInv, TypeOK, Contacts
      <4> QED
        BY <2>3, <4>1, <4>2, <4>3
    <3> QED
      BY <3>1 DEF TurnInv, TypeOK, RawTyped, Undecided, Silence, Knowing
  <2>4. CASE Load
    <3>1. CASE JobFails
      BY <3>1, JobFailsKeeps
    <3>2. CASE ~ JobFails
      <4>1. /\ pc = "idle" /\ inbox # <<>> /\ pc' = "loaded"
            /\ UNCHANGED <<provider, pausedAll, saved, inbox, turn, tries>>
        BY <2>4, <3>2 DEF Load
      <4> QED
        BY <4>1 DEF turn, TurnInv, TypeOK, RawTyped, Undecided, Silence, Knowing
    <3> QED
      BY <3>1, <3>2
  <2>5. CASE Sift
    <3>1. /\ pc = "loaded" /\ Undecided /\ TypeOK /\ RawTyped
          /\ UNCHANGED <<provider, pausedAll, saved, inbox, hits, attempt, raw, failed, told, tries>>
      BY <2>5 DEF Sift, TurnInv
    <3>2. CASE Stops(Message)
      <4>1. /\ contact' = OptedOut(contact) /\ reply' = Fixed("unsubscribed")
            /\ guarded' = FALSE /\ pc' = "sending"
        BY <2>5, <3>2 DEF Sift
      <4>2. TypeOK' /\ RawTyped'
        BY <3>1, <4>1, ContactTyped DEF TypeOK, RawTyped, Knowing
      <4> QED
        BY <3>1, <3>2, <4>1, <4>2, SameMessage DEF TurnInv, Outcome, Undecided, OptedOut
    <3>3. CASE ~ Stops(Message)
      <4>1. \/ /\ pc' = "ended" \/ pc' = "searched"
               /\ UNCHANGED <<contact, reply, guarded>>
            \/ /\ pc' = "sending" /\ reply' = Fixed("unsupported") /\ guarded' = FALSE
               /\ UNCHANGED contact
        BY <2>5, <3>3 DEF Sift
      <4>2. TypeOK' /\ RawTyped'
        BY <3>1, <4>1 DEF TypeOK, RawTyped, Knowing
      <4>3. CASE (pc' = "ended" \/ pc' = "searched") /\ UNCHANGED <<contact, reply, guarded>>
        <5>1. Undecided'
          BY <3>1, <4>3 DEF Undecided, Silence
        <5> QED
          BY <3>1, <3>3, <4>2, <4>3, <5>1, SameMessage DEF TurnInv, Outcome
      <4>4. CASE pc' = "sending" /\ reply' = Fixed("unsupported") /\ UNCHANGED contact
        BY <3>1, <3>3, <4>2, <4>4, SameMessage DEF TurnInv, Outcome, Undecided
      <4> QED
        BY <4>1, <4>3, <4>4
    <3> QED
      BY <3>2, <3>3
  <2>6. CASE Search
    <3>1. /\ pc = "searched" /\ Undecided /\ ~ Stops(Message) /\ TypeOK /\ RawTyped
          /\ Keyword # "OPT_OUT" /\ raw.person \in BOOLEAN
      BY <2>6, Keywords DEF Search, TurnInv, RawTyped
    <3>2. PICK found \in Findable(Knowing) :
            IF Keyword # "NONE" \/ Message.text \in Injections
            THEN /\ Conclude(IF Keyword # "NONE" THEN ByKeyword(Keyword) ELSE Screened,
                             FALSE, found)
                 /\ UNCHANGED <<hits, raw>>
            ELSE /\ hits' = found /\ pc' = "asking"
                 /\ UNCHANGED <<provider, pausedAll, saved, inbox, contact, attempt, raw, failed,
                                reply, guarded, told, tries>>
      BY <2>6 DEF Search, Keyword
    <3>3. CASE JobFails
      BY <3>3, JobFailsKeeps
    <3>4. CASE ~ JobFails /\ (Keyword # "NONE" \/ Message.text \in Injections)
      <4> DEFINE a == IF Keyword # "NONE" THEN ByKeyword(Keyword) ELSE Screened
      <4>1. /\ reply' = Compose(a, Ids(found)) /\ contact' = After(a, reply')
            /\ contact' \in Contacts /\ failed' = FALSE /\ pc' = "sending"
            /\ UNCHANGED <<provider, pausedAll, saved, inbox, attempt, guarded, told, tries>>
            /\ UNCHANGED <<hits, raw>>
        <5>1. Conclude(a, FALSE, found) /\ UNCHANGED <<hits, raw>>
          BY <3>2, <3>4
        <5> HIDE DEF a
        <5> QED
          BY <3>1, <3>4, <5>1, Concludes
      <4>2. TypeOK' /\ RawTyped'
        BY <3>1, <4>1 DEF TypeOK, RawTyped, Knowing
      <4>3. Keyword \in {"OPT_IN", "HUMAN_AGENT_REQUEST", "NONE"} /\ raw' = NoAnalysis
        BY <3>1, <4>1, Keywords DEF Undecided
      <4>4. CASE Keyword # "NONE"
        <5>1. reply' = OfIntent(ByKeyword(Keyword)) /\ contact' = After(ByKeyword(Keyword), reply')
          BY <4>1, <4>3, <4>4, WithoutModel
        <5>2. contact' = After(ByKeyword(Keyword), reply)'
          BY <4>1, <5>1, SameMessage DEF After
        <5>3. Decided'
          BY <4>1, <4>3, <4>4, <5>1, <5>2, SameMessage DEF Decided
        <5> QED
          BY <3>1, <4>1, <4>2, <5>3, SameMessage DEF TurnInv, Outcome
      <4>5. CASE Keyword = "NONE"
        <5>1. reply' = Flagged(Screened) /\ contact' = After(Screened, reply')
          BY <4>1, <4>5, WithoutModel
        <5>2. contact' = After(Screened, reply)'
          BY <4>1, <5>1 DEF After
        <5>3. Decided'
          BY <3>4, <4>1, <4>3, <4>5, <5>1, <5>2, SameMessage DEF Decided
        <5> QED
          BY <3>1, <4>1, <4>2, <5>3, SameMessage DEF TurnInv, Outcome
      <4> QED
        BY <4>4, <4>5
    <3>5. CASE ~ (Keyword # "NONE" \/ Message.text \in Injections)
      <4>1. /\ hits' = found /\ pc' = "asking"
            /\ UNCHANGED <<provider, pausedAll, saved, inbox, contact, attempt, raw, failed,
                           reply, guarded, told, tries>>
        BY <3>2, <3>5
      <4>2. TypeOK' /\ RawTyped' /\ Undecided'
        BY <3>1, <4>1 DEF TypeOK, RawTyped, Undecided, Silence, Knowing
      <4> QED
        BY <3>1, <3>5, <4>1, <4>2, SameMessage DEF TurnInv
    <3> QED
      BY <3>3, <3>4, <3>5
  <2>7. CASE Ask
    <3>1. pc = "asking" /\ Undecided /\ TypeOK /\ RawTyped /\ ~ Stops(Message)
          /\ Keyword = "NONE" /\ Message.text \notin Injections
      BY <2>7 DEF Ask, TurnInv
    <3>2. ASSUME NEW object \in RawAnswers, Answer(object)
          PROVE  TurnInv'
      BY <3>1, <3>2, AnswerKeeps, MessageTurnAssumption
    <3>3. ASSUME NEW guess, NEW first, Answer(RuleBased(guess, first))
          PROVE  TurnInv'
      <4>1. RuleBased(guess, first).person \in BOOLEAN /\ RuleBased(guess, first).confidence \in Int
        BY ReplyRulesAssumption DEF RuleBased, Analysis
      <4> QED
        BY <3>1, <3>3, <4>1, AnswerKeeps
    <3>4. CASE /\ attempt < MaxLlmRetries /\ attempt' = attempt + 1
               /\ UNCHANGED <<provider, pausedAll, saved, inbox, pc, contact, hits, raw, failed,
                              reply, guarded, told, tries>>
      <4>1. attempt' \in 0..MaxLlmRetries
        BY <3>1, <3>4, MessageTurnAssumption DEF TypeOK
      <4>2. TypeOK' /\ RawTyped' /\ Undecided'
        BY <3>1, <3>4, <4>1 DEF TypeOK, RawTyped, Undecided, Silence, Knowing
      <4> QED
        BY <3>1, <3>4, <4>2, SameMessage DEF TurnInv
    <3>5. CASE Conclude(NoAnalysis, TRUE, hits) /\ UNCHANGED <<hits, raw>> /\ ~ JobFails
      <4>1. /\ reply' = Unavailable /\ contact' = After(NoAnalysis, reply')
            /\ contact' \in Contacts /\ failed' = TRUE /\ pc' = "sending"
            /\ UNCHANGED <<provider, pausedAll, saved, inbox, attempt, guarded, told, tries>>
            /\ UNCHANGED <<hits, raw>>
        BY <3>1, <3>5, Concludes
      <4>2. TypeOK' /\ RawTyped'
        BY <3>1, <4>1 DEF TypeOK, RawTyped, Knowing
      <4>3. contact' = After(NoAnalysis, reply)' /\ raw' = NoAnalysis
        BY <3>1, <4>1 DEF After, Undecided
      <4>4. Decided'
        BY <3>1, <4>1, <4>3, SameMessage DEF Decided
      <4> QED
        BY <3>1, <4>1, <4>2, <4>4, SameMessage DEF TurnInv, Outcome
    <3> QED
      BY <2>7, <3>2, <3>3, <3>4, <3>5, JobFailsKeeps DEF Ask
  <2>8. CASE Send
    <3>1. CASE JobFails
      BY <3>1, JobFailsKeeps
    <3>2. CASE ~ JobFails
      <4>1. /\ pc = "sending" /\ Outcome /\ TypeOK /\ RawTyped /\ pc' = "ended"
            /\ told' \in BOOLEAN
            /\ UNCHANGED <<provider, pausedAll, saved, inbox, contact, hits, attempt, raw, failed,
                           reply, guarded, tries>>
        BY <2>8, <3>2 DEF Send, TurnInv, TypeOK, turn, WindowOpen
      <4>2. TypeOK' /\ RawTyped'
        BY <4>1 DEF TypeOK, RawTyped, Knowing
      <4>3. Outcome'
        BY <4>1, SameMessage DEF Outcome, Decided, Checked, After
      <4> QED
        BY <4>1, <4>2, <4>3 DEF TurnInv
    <3> QED
      BY <3>1, <3>2
  <2>9. CASE Commit
    <3>1. /\ Reset /\ saved' = contact /\ contact' = contact /\ contact \in Contacts
          /\ tries' \in 0..MaxTries - 1 /\ UNCHANGED <<provider, pausedAll>>
      BY <2>9, MessageTurnAssumption DEF Commit, TurnInv, TypeOK
    <3>2. TypeOK' /\ Undecided' /\ RawTyped'
      BY <3>1, ResetTyped DEF TurnInv, TypeOK, Undecided, Silence, Knowing
    <3> QED
      BY <3>1, <3>2, ResetTyped DEF TurnInv
  <2>10. CASE Breaks
    BY <2>10, JobFailsKeeps DEF Breaks
  <2>11. CASE UNCHANGED vars
    <3>1. TypeOK' /\ RawTyped' /\ (Undecided' <=> Undecided) /\ (Outcome' <=> Outcome)
      BY <2>11, SameMessage
      DEF vars, turn, TurnInv, TypeOK, RawTyped, Undecided, Silence, Knowing, Outcome, Decided,
          Checked, After
    <3> QED
      BY <2>11, <3>1, SameMessage DEF TurnInv, vars
  <2> QED
    BY <2>1, <2>2, <2>3, <2>4, <2>5, <2>6, <2>7, <2>8, <2>9, <2>10, <2>11 DEF Next, Step
<1> QED
  BY <1>1, <1>2, PTL DEF Spec
--------------------------------------------------------------------------------
(***************************************************************************)
(* What the invariant says of a turn that has ended.                       *)
(***************************************************************************)
(* What a keyword or the screening decides is not the model's, and brings  *)
(* a person to whoever asks for one or is screened.                        *)
LEMMA KeywordReply ==
  ASSUME NEW k \in {"OPT_IN", "HUMAN_AGENT_REQUEST"}
  PROVE  /\ ByKeyword(k).intent = k
         /\ ~ OfIntent(ByKeyword(k)).byModel
         /\ k # "OPT_IN" => OfIntent(ByKeyword(k)).escalate
         /\ OfIntent(ByKeyword(k)).text # "unsubscribed"
         /\ OfIntent(ByKeyword(k)).text = "subscribed" => k = "OPT_IN"
<1> DEFINE a == ByKeyword(k)
<1>1. a.intent = k /\ a.flag = "none" /\ Compose(a, {}) = OfIntent(a)
  BY WithoutModel DEF ByKeyword, Analysis
<1>2. k \in FixedIntents
  BY DEF FixedIntents
<1> HIDE DEF a
<1>3. /\ ~ OfIntent(a).byModel
      /\ k # "OPT_IN" => OfIntent(a).escalate
      /\ OfIntent(a).text # "unsubscribed"
      /\ OfIntent(a).text = "subscribed" => k = "OPT_IN"
  BY <1>1, <1>2, ComposedReply
<1> QED
  BY <1>1, <1>3 DEF a

(* The same of a screened text.                                            *)
LEMMA ScreenedReply ==
  /\ Screened.intent = "UNKNOWN" /\ ~ Flagged(Screened).byModel /\ Flagged(Screened).escalate
  /\ Flagged(Screened).text # "unsubscribed" /\ Flagged(Screened).text # "subscribed"
<1>1. Screened.intent = "UNKNOWN" /\ Screened.flag # "none"
  BY DEF Screened, Analysis
<1>2. Compose(Screened, {}) = Flagged(Screened)
  BY WithoutModel
<1> QED
  BY <1>1, <1>2, ComposedReply

(* What an analysis leaves of the contact.                                 *)
LEMMA AfterFields ==
  ASSUME saved \in Contacts, NEW a, NEW r
  PROVE  /\ After(a, r).status = IF a.intent = "OPT_IN" THEN "OPTED_IN" ELSE saved.status
         /\ After(a, r).listed = IF a.intent = "OPT_IN" THEN FALSE ELSE saved.listed
         /\ r.escalate => After(a, r).waiting
  BY DEF After, OptedIn, Contacts

(* What a reply that was decided says of consent, and to whom it brings a  *)
(* person.                                                                 *)
LEMMA DecidedWell ==
  ASSUME TurnInv, Decided
  PROVE  /\ \E a : /\ contact = After(a, reply)
                   /\ a.intent = "OPT_IN" => "OPT_IN" \in {Keyword, Guess}
                   /\ reply.text = "subscribed" => a.intent = "OPT_IN"
         /\ reply.text = "unsubscribed" => Guess = "OPT_OUT"
         /\ \/ reply.escalate
            \/ Keyword = "OPT_IN"
            \/ /\ Keyword = "NONE" /\ ~ failed /\ Message.text \notin Injections
               /\ raw.flag \notin Flags
               /\ Guess \in EnabledIntents => Guess \notin AlwaysEscalate \cup {"CANCELLATION"}
<1>1. CASE /\ Keyword \in {"OPT_IN", "HUMAN_AGENT_REQUEST"}
           /\ reply = OfIntent(ByKeyword(Keyword)) /\ contact = After(ByKeyword(Keyword), reply)
  BY <1>1, KeywordReply
<1>2. CASE reply = Flagged(Screened) /\ contact = After(Screened, reply)
  BY <1>2, ScreenedReply
<1>3. CASE /\ Keyword = "NONE" /\ Message.text \notin Injections /\ ~ failed
           /\ reply = Compose(Checked, Ids(hits)) /\ contact = After(Checked, reply)
  <2> DEFINE a == Checked
  <2>1. /\ a.flag # "none" => reply.escalate
        /\ a.intent \in FixedIntents \ {"OPT_IN", "OPT_OUT"} => reply.escalate
        /\ reply.text = "unsubscribed" => a.intent = "OPT_OUT"
        /\ reply.text = "subscribed" => a.intent = "OPT_IN"
    BY <1>3, ComposedReply
  <2>2. /\ a.flag = IF raw.flag \in Flags THEN raw.flag ELSE "none"
        /\ a.intent = IF Guess \in EnabledIntents THEN Guess ELSE "UNKNOWN"
    BY CheckedAnswer DEF TurnInv, RawTyped, Checked, Guess
  <2> HIDE DEF a
  <2>3. contact = After(a, reply)
    BY <1>3 DEF a
  <2>4. raw.flag \in Flags => a.flag # "none"
    BY <2>2 DEF Flags
  <2>5. \A i \in AlwaysEscalate \cup {"CANCELLATION"} : i \in FixedIntents \ {"OPT_IN", "OPT_OUT"}
    BY DEF AlwaysEscalate, FixedIntents
  <2>6. /\ a.intent = "OPT_IN" => Guess = "OPT_IN"
        /\ a.intent = "OPT_OUT" => Guess = "OPT_OUT"
    BY <2>2
  <2> QED
    BY <1>3, <2>1, <2>2, <2>3, <2>4, <2>5, <2>6
<1>4. CASE reply = Unavailable /\ contact = After(NoAnalysis, reply)
  <2>1. NoAnalysis.intent = "UNKNOWN"
    BY DEF NoAnalysis, Analysis
  <2>2. reply.escalate /\ reply.text = "unavailable"
    BY <1>4, FixedReplies DEF Unavailable
  <2> QED
    BY <1>4, <2>1, <2>2
<1> QED
  BY <1>1, <1>2, <1>3, <1>4 DEF Decided

(* A text of the model's own has the grounds the configuration asks for,   *)
(* whatever the model answers: _post_validate and compose.                 *)
THEOREM AnswersAreGrounded == Spec => []AnswersGrounded
<1>1. TurnInv => AnswersGrounded
  <2> SUFFICES ASSUME TurnInv, pc = "ended", told, reply.byModel
               PROVE  AnswersGrounded
    BY DEF AnswersGrounded, Left
  <2> DEFINE found == Ids(hits)
             a == Checked
  <2>1. reply = Compose(a, found)
    <3>1. Outcome
      BY DEF TurnInv
    <3>2. ~ Fixed("unsubscribed").byModel /\ ~ Fixed("unsupported").byModel
          /\ ~ Unavailable.byModel
      BY FixedReplies DEF Unavailable
    <3> QED
      BY <3>1, <3>2, KeywordReply, ScreenedReply DEF Outcome, Decided, Undecided
  <2>2. raw.person \in BOOLEAN /\ raw.confidence \in Int
    BY DEF TurnInv, RawTyped
  <2>3. /\ a.flag = "none" /\ a.intent \notin FixedIntents /\ ~ a.person
        /\ ~ (a.confidence < ReplyAt)
        /\ reply.sources = a.sources
        /\ a.intent \in GroundingRequired => a.sources # {}
    BY <2>1, ComposedReply
  <2>4. /\ Guess \in Intents
        /\ Coerced(raw).confidence \in 0..Top /\ a.confidence \in 0..Top
        /\ a.confidence <= Coerced(raw).confidence
        /\ a.person = (raw.person \/ raw.flag \in Flags)
        /\ a.intent = IF Guess \in EnabledIntents THEN Guess ELSE "UNKNOWN"
        /\ a.sources = raw.sources \cap found
        /\ EscalateAt < ReplyAt /\ ~ (a.confidence < ReplyAt) =>
             /\ Guess \in EnabledIntents
             /\ found # {} \/ Guess \in NeedsNoContext
             /\ raw.sources = {} \/ raw.sources \cap found # {}
    BY <2>2, CheckedAnswer DEF Checked, Guess
  <2> HIDE DEF a, found
  <2>5. raw.flag \notin Flags /\ ~ raw.person
    BY <2>2, <2>3, <2>4
  <2>6. Coerced(raw).confidence >= ReplyAt
    BY <2>3, <2>4, ReplyRulesAssumption
  <2>7. reply.sources \subseteq Ids(hits)
    BY <2>3, <2>4 DEF found
  <2>8. Guess \in EnabledIntents =>
          Guess \notin FixedIntents /\ (Guess \in GroundingRequired => reply.sources # {})
    BY <2>3, <2>4
  <2>9. hits = {} => found = {}
    BY DEF found, Ids
  <2> QED
    BY <2>3, <2>4, <2>5, <2>6, <2>7, <2>8, <2>9 DEF AnswersGrounded, found
<1> QED
  BY <1>1, TurnInvariant, PTL

(* What a customer is told of its consent is what is recorded of it: the   *)
(* stop word before the switches, compose and the consent service.         *)
THEOREM WordsAreDeeds == Spec => []WordsMatchDeeds
<1>1. TurnInv => WordsMatchDeeds
  <2> SUFFICES ASSUME TurnInv, pc = "ended"
               PROVE  WordsMatchDeeds
    BY DEF WordsMatchDeeds, TurnInv
  <2>1. TypeOK /\ Outcome /\ saved \in Contacts /\ (Stops(Message) <=> Keyword = "OPT_OUT")
    BY Keywords DEF TurnInv, TypeOK
  <2>2. CASE Stops(Message) /\ reply = Fixed("unsubscribed") /\ contact = OptedOut(saved)
    <3>1. contact.listed /\ contact.status = "OPTED_OUT"
      BY <2>1, <2>2 DEF OptedOut, Contacts
    <3>2. reply.text = "unsubscribed"
      BY <2>2, FixedReplies
    <3> QED
      BY <2>1, <2>2, <3>1, <3>2 DEF WordsMatchDeeds
  <2>3. CASE ~ Stops(Message) /\ Undecided
    BY <2>1, <2>3 DEF WordsMatchDeeds, Undecided, Stops
  <2>4. CASE ~ Stops(Message) /\ reply = Fixed("unsupported") /\ contact = saved
    <3>1. reply.text = "unsupported"
      BY <2>4, FixedReplies
    <3> QED
      BY <2>1, <2>4, <3>1 DEF WordsMatchDeeds, Stops
  <2>5. CASE ~ Stops(Message) /\ Decided
    <3>1. PICK a : /\ contact = After(a, reply)
                   /\ a.intent = "OPT_IN" => "OPT_IN" \in {Keyword, Guess}
                   /\ reply.text = "subscribed" => a.intent = "OPT_IN"
      BY <2>5, DecidedWell
    <3>2. reply.text = "unsubscribed" => Guess = "OPT_OUT"
      BY <2>5, DecidedWell
    <3>3. /\ contact.status = IF a.intent = "OPT_IN" THEN "OPTED_IN" ELSE saved.status
          /\ contact.listed = IF a.intent = "OPT_IN" THEN FALSE ELSE saved.listed
      BY <2>1, <3>1, AfterFields
    <3> QED
      BY <2>1, <2>5, <3>1, <3>2, <3>3 DEF WordsMatchDeeds, Stops
  <2> QED
    BY <2>1, <2>2, <2>3, <2>4, <2>5 DEF Outcome
<1> QED
  BY <1>1, TurnInvariant, PTL

(* Nobody who asks for a person, raises a flag, complains or meets a model *)
(* that is down is left without a ticket: compose, and handle_inbound when *)
(* the model fails.                                                        *)
THEOREM PeopleAreAlwaysReached == Spec => []PeopleAreReached
<1>1. TurnInv => PeopleAreReached
  <2> SUFFICES ASSUME TurnInv, pc = "ended", reply # Silence, reply.text # "unsupported"
               PROVE  PeopleAreReached
    BY DEF PeopleAreReached
  <2>1. Outcome /\ saved \in Contacts /\ (Stops(Message) <=> Keyword = "OPT_OUT")
    BY Keywords DEF TurnInv, TypeOK
  <2>2. CASE Stops(Message)
    BY <2>1, <2>2 DEF PeopleAreReached
  <2>3. CASE Decided
    <3>1. reply.escalate => contact.waiting
      BY <2>1, <2>3, DecidedWell, AfterFields
    <3> QED
      BY <2>3, <3>1, DecidedWell DEF PeopleAreReached
  <2>4. CASE reply = Fixed("unsupported")
    BY <2>4, FixedReplies
  <2> QED
    BY <2>1, <2>2, <2>3, <2>4 DEF Outcome, Undecided
<1> QED
  BY <1>1, TurnInvariant, PTL
--------------------------------------------------------------------------------
(***************************************************************************)
(* The chunker.  Its loops are FoldLeft's, whose definition chooses a      *)
(* function of the sets of positions seen so far: such a function exists   *)
(* for any step, so the first k positions are the loop's state after k     *)
(* rounds, and what every round keeps holds at the end.                    *)
(***************************************************************************)
(* Some number of a set of numbers is the least.                           *)
LEMMA LeastNatural ==
  ASSUME NEW T \in SUBSET Nat, T # {}
  PROVE  \E m \in T : \A n \in T : m <= n
<1>1. PICK m \in T : \A n \in T : ~ (<<n, m>> \in OpToRel(<, Nat))
  BY NatLessThanWellFounded, WFMin
<1>2. \A n \in T : ~ (n < m)
  BY <1>1 DEF OpToRel
<1> QED
  BY <1>2

(* What no member exceeds is the maximum.                                  *)
LEMMA MaxIs ==
  ASSUME NEW S \in SUBSET Int, NEW m \in S, \A n \in S : m >= n
  PROVE  Max(S) = m
<1>1. \A z \in S : (\A w \in S : z >= w) <=> z = m
  OBVIOUS
<1>2. Max(S) = CHOOSE z \in S : z = m
  BY <1>1 DEF Max
<1> QED
  BY <1>2

(* A step to be repeated over the first n numbers, and its results on sets *)
(* of them, the largest last.                                              *)
Steps(n, St) == [St \X (1..n) -> St]
Folding(f, n, St, base, step) ==
  /\ f \in [SUBSET (1..n) -> St]
  /\ f[{}] = base
  /\ \A s \in SUBSET (1..n), k \in 1..n :
       k \in s /\ (\A j \in s : j <= k) => f[s] = step[<<f[s \ {k}], k>>]

(* Any step has such results: those on sets without n + 1 give the others. *)
LEMMA FoldingExists ==
  ASSUME NEW n \in Nat, NEW St, NEW base \in St, NEW step \in Steps(n, St)
  PROVE  \E f : Folding(f, n, St, base, step)
<1> DEFINE P(k) == \E f : Folding(f, k, St, base, step)
<1>1. P(0)
  <2>1. Folding([s \in SUBSET (1..0) |-> base], 0, St, base, step)
    BY DEF Folding
  <2> QED
    BY <2>1
<1>2. ASSUME NEW k \in Nat, k < n, P(k)
      PROVE  P(k + 1)
  <2>1. PICK f : Folding(f, k, St, base, step)
    BY <1>2
  <2> DEFINE g == [s \in SUBSET (1..(k + 1)) |->
                     IF k + 1 \in s THEN step[<<f[s \ {k + 1}], k + 1>>] ELSE f[s]]
  <2>2. \A s \in SUBSET (1..(k+1)) : s \ {k+1} \in SUBSET (1..k)
    BY <1>2
  <2>3. \A s \in SUBSET (1..(k+1)) : k + 1 \notin s => s \in SUBSET (1..k)
    BY <1>2
  <2>3a. k + 1 \in 1..n
    BY <1>2
  <2>4. g \in [SUBSET (1..(k + 1)) -> St]
    BY <2>1, <2>2, <2>3, <2>3a DEF Folding, Steps
  <2>5. g[{}] = base
    BY <2>1 DEF Folding
  <2>6. ASSUME NEW s \in SUBSET (1..(k+1)), NEW i \in 1..(k+1), i \in s, \A j \in s : j <= i
        PROVE g[s] = step[<<g[s \ {i}], i>>]
    <3>1. CASE i = k + 1
      <4>1. s \ {i} \in SUBSET (1..(k+1)) /\ k + 1 \notin s \ {i}
        BY <3>1
      <4> QED
      BY <2>6, <3>1, <2>2, <4>1
    <3>2. CASE i # k + 1
      <4>1. k + 1 \notin s /\ i \in 1..k
        BY <2>6, <3>2, <1>2
      <4>2. s \in SUBSET (1..k) /\ s \ {i} \in SUBSET (1..k) /\ s \ {i} \in SUBSET (1..(k+1)) /\ k + 1 \notin s \ {i}
        BY <4>1, <2>3
      <4>3. f[s] = step[<<f[s \ {i}], i>>]
        BY <2>1, <2>6, <4>1, <4>2 DEF Folding
      <4> QED
        BY <4>1, <4>2, <4>3
    <3> QED
      BY <3>1, <3>2
  <2> HIDE DEF g
  <2>7. Folding(g, k + 1, St, base, step)
    BY <2>4, <2>5, <2>6 DEF Folding
  <2> QED
    BY <2>7
<1> HIDE DEF P
<1>3. ASSUME ~ P(n) PROVE FALSE
  <2> DEFINE T == {k \in Nat : k <= n /\ ~ P(k)}
  <2>1. PICK m \in T : \A k \in T : m <= k
    <3>1. T \in SUBSET Nat /\ T # {}
      BY <1>3
    <3> HIDE DEF T
    <3> QED
      BY <3>1, LeastNatural
  <2>2. m \in Nat /\ m <= n /\ ~ P(m)
    OBVIOUS
  <2>3. m # 0
    BY <1>1, <2>2
  <2>4. m - 1 \in Nat /\ m - 1 < n /\ m - 1 + 1 = m
    BY <2>2, <2>3
  <2>5. P(m - 1)
    BY <2>1, <2>4
  <2>6. P(m - 1 + 1)
    BY <2>4, <2>5, <1>2
  <2> QED
    BY <2>6, <2>4, <2>2
<1> QED
  BY <1>3 DEF P

(* What holds of 0 and of a next number holds up to n.                     *)
LEMMA SetInduction ==
  ASSUME NEW n \in Nat, NEW G, 0 \in G, \A k \in Nat : k < n /\ k \in G => k + 1 \in G
  PROVE  \A k \in 0..n : k \in G
<1> SUFFICES ASSUME NEW i \in 0..n, i \notin G PROVE FALSE
  OBVIOUS
<1> DEFINE T == {k \in Nat : k <= n /\ k \notin G}
<1>1. PICK m \in T : \A k \in T : m <= k
  <2>1. T \in SUBSET Nat /\ T # {}
    OBVIOUS
  <2> HIDE DEF T
  <2> QED
    BY <2>1, LeastNatural
<1>2. m \in Nat \ {0}
  OBVIOUS
<1>3. m - 1 \in Nat /\ m - 1 < n /\ m - 1 \in G
  BY <1>1, <1>2
<1> QED
  BY <1>2, <1>3

(* A set of the first n numbers has a maximum.                             *)
LEMMA MaxInRange ==
  ASSUME NEW n \in Nat, NEW S \in SUBSET (1..n), S # {}
  PROVE  Max(S) \in S /\ \A j \in S : j <= Max(S)
<1> DEFINE T == {d \in Nat : n - d \in S}
<1>1. \A j \in S : j \in Nat /\ n - j \in T
  <2> SUFFICES ASSUME NEW j \in S PROVE j \in Nat /\ n - j \in T
    OBVIOUS
  <2>1. j \in 1..n
    OBVIOUS
  <2>2. n - (n - j) = j /\ n - j \in Nat
    BY <2>1
  <2> QED
    BY <2>1, <2>2
<1>2. PICK m \in T : \A k \in T : m <= k
  <2>1. T \in SUBSET Nat /\ T # {}
    BY <1>1
  <2> HIDE DEF T
  <2> QED
    BY <2>1, LeastNatural
<1>3. n - m \in S /\ m \in Nat
  OBVIOUS
<1>4. \A j \in S : j <= n - m
  <2> SUFFICES ASSUME NEW j \in S PROVE j <= n - m
    OBVIOUS
  <2>1. j \in Nat /\ m <= n - j
    BY <1>1, <1>2
  <2> QED
    BY <1>3, <2>1
<1>5. S \in SUBSET Int
  OBVIOUS
<1> HIDE DEF T
<1>6. Max(S) = n - m
  BY <1>3, <1>4, <1>5, MaxIs
<1> QED
  BY <1>3, <1>4, <1>6

(* The first k + 1 numbers are the first k and their maximum.              *)
LEMMA FirstMany ==
  ASSUME NEW n \in Nat, NEW k \in Nat, k < n
  PROVE  /\ 1..k \in SUBSET (1..n) /\ 1..(k + 1) \in SUBSET (1..n) /\ 1..(k + 1) # {}
         /\ Max(1..(k + 1)) = k + 1 /\ (1..(k + 1)) \ {k + 1} = 1..k
         /\ 1..0 = {}
<1>1. Max(1..(k + 1)) = k + 1
  <2>1. 1..(k + 1) \in SUBSET Int /\ k + 1 \in 1..(k + 1) /\ \A j \in 1..(k + 1) : k + 1 >= j
    OBVIOUS
  <2> QED
    BY <2>1, MaxIs
<1> QED
  BY <1>1

(* The results as FoldLeft asks for them.                                  *)
Folds(f, n, St, base, step) ==
  /\ f \in [SUBSET (1..n) -> St] /\ f[{}] = base
  /\ \A s \in SUBSET (1..n) : s # {} =>
       Max(s) \in 1..n /\ f[s] = step[<<f[s \ {Max(s)}], Max(s)>>]

(* Any step has those too, so FoldLeft's CHOOSE finds them.                *)
LEMMA FoldExists ==
  ASSUME NEW n \in Nat, NEW St, NEW base \in St, NEW step \in Steps(n, St)
  PROVE  \E f : Folds(f, n, St, base, step)
<1>1. PICK f : Folding(f, n, St, base, step)
  BY FoldingExists
<1>2. ASSUME NEW s \in SUBSET (1..n), s # {}
      PROVE  Max(s) \in 1..n /\ f[s] = step[<<f[s \ {Max(s)}], Max(s)>>]
  <2>1. Max(s) \in s /\ \A j \in s : j <= Max(s)
    BY <1>2, MaxInRange
  <2> QED
    BY <1>1, <2>1 DEF Folding
<1> QED
  BY <1>1, <1>2 DEF Folding, Folds

(* What buffers and chunks are made of.                                    *)
Chunk == [size : Nat, holds : Seq(Nat \X Nat)]
States == [chunks : Seq(Chunk), buffer : Chunk]

(* A text has sentences, and a sentence is a chunk.                        *)
LEMMA SentenceTyped ==
  ASSUME NEW text \in AllTexts, NEW p \in 1..Len(text)
  PROVE  /\ text[p] \in Seq(Nat \ {0}) /\ Len(text[p]) \in Nat \ {0} /\ p \in Nat
         /\ DOMAIN text[p] = 1..Len(text[p])
         /\ \A i \in 1..Len(text[p]) :
              text[p][i] \in Nat \ {0} /\ Sentence(text, p, i) \in Chunk
<1>1. text[p] \in Seq(Nat \ {0}) /\ text[p] # <<>> /\ p \in Nat
  BY DEF AllTexts
<1>2. Len(text[p]) \in Nat \ {0} /\ DOMAIN text[p] = 1..Len(text[p])
  BY <1>1
<1>3. ASSUME NEW i \in 1..Len(text[p])
      PROVE  text[p][i] \in Nat \ {0} /\ Sentence(text, p, i) \in Chunk
  <2>1. text[p][i] \in Nat \ {0}
    BY <1>1
  <2>2. << <<p, i>> >> \in Seq(Nat \X Nat)
    BY <1>1
  <2> QED
    BY <2>1, <2>2 DEF Sentence, Chunk
<1> QED
  BY <1>1, <1>2, <1>3

(* Chunks are joined, packed and closed into chunks.                       *)
LEMMA JoinedTyped ==
  ASSUME NEW b \in Chunk, NEW piece \in Chunk, NEW gap \in Nat
  PROVE  Joined(b, piece, gap) \in Chunk
<1>1. b.size \in Nat /\ piece.size \in Nat /\ b.holds \o piece.holds \in Seq(Nat \X Nat)
  BY DEF Chunk
<1> QED
  BY <1>1 DEF Joined, Chunk

(* The empty buffer is a chunk.                                            *)
LEMMA NothingTyped == Nothing \in Chunk
  BY DEF Nothing, Chunk

(* A buffer and chunks stay such.                                          *)
LEMMA PackedTyped ==
  ASSUME NEW st \in States, NEW piece \in Chunk, NEW gap \in Nat
  PROVE  Packed(st, piece, gap) \in States /\ Closed(st) \in States
<1>1. st.chunks \in Seq(Chunk) /\ st.buffer \in Chunk
  BY DEF States
<1>2. Flushed(st.chunks, st.buffer) \in Seq(Chunk)
  BY <1>1 DEF Flushed
<1>3. Cut(piece) \in Chunk
  BY KnowledgeAssumption DEF Cut, Chunk
<1>4. Joined(st.buffer, piece, gap) \in Chunk
  BY <1>1, JoinedTyped
<1>5. [st EXCEPT !.buffer = Joined(@, piece, gap)] \in States
  BY <1>4 DEF States
<1> QED
  BY <1>2, <1>3, <1>5, NothingTyped DEF Packed, Closed, States

(* A paragraph's sentences are joined one after the other.                 *)
LEMMA ParagraphRuns ==
  ASSUME NEW text \in AllTexts, NEW p \in 1..Len(text)
  PROVE  \E g : /\ g[0] = Nothing
                /\ \A k \in Nat : k < Len(text[p]) =>
                     g[k + 1] = Joined(g[k], Sentence(text, p, k + 1), 1)
                /\ Paragraph(text, p) = g[Len(text[p])]
<1> DEFINE
  n == Len(text[p])
  idx == [s \in DOMAIN text[p] |-> s]
  Body(f) == [s \in SUBSET (DOMAIN idx) |->
                IF s = {} THEN Nothing ELSE Joined(f[s \ {Max(s)}], Sentence(text, p, idx[Max(s)]), 1)]
  iter == CHOOSE f : f = Body(f)
<1>1. Paragraph(text, p) = iter[DOMAIN idx]
  BY DEF Paragraph, FoldLeft, MapThenFoldSet
<1>2. n \in Nat /\ DOMAIN idx = 1..n
  BY SentenceTyped
<1>3. \E f : f = Body(f)
  <2>1. PICK step \in Steps(n, Chunk) :
          \A b \in Chunk, i \in 1..n : step[<<b, i>>] = Joined(b, Sentence(text, p, i), 1)
    <3> DEFINE st == [bs \in Chunk \X (1..n) |-> Joined(bs[1], Sentence(text, p, bs[2]), 1)]
    <3>1. st \in [Chunk \X (1..n) -> Chunk]
      BY SentenceTyped, JoinedTyped
    <3>2. \A b \in Chunk, i \in 1..n : st[<<b, i>>] = Joined(b, Sentence(text, p, i), 1)
      OBVIOUS
    <3> HIDE DEF st
    <3> QED
      BY <3>1, <3>2 DEF Steps
  <2>2. PICK f : Folds(f, n, Chunk, Nothing, step)
    BY <1>2, NothingTyped, FoldExists
  <2>3. f = Body(f)
    BY <1>2, <2>1, <2>2 DEF Folds
  <2> QED
    BY <2>3
<1>4. iter = Body(iter)
  BY <1>3
<1> HIDE DEF iter
<1> DEFINE g == [k \in 0..n |-> iter[1..k]]
<1>5. g[0] = Nothing
  BY <1>2, <1>4
<1>6. \A k \in Nat : k < n => g[k + 1] = Joined(g[k], Sentence(text, p, k + 1), 1)
  <2> SUFFICES ASSUME NEW k \in Nat, k < n
               PROVE  g[k + 1] = Joined(g[k], Sentence(text, p, k + 1), 1)
    OBVIOUS
  <2>1. /\ 1..(k + 1) \in SUBSET (1..n) /\ 1..(k + 1) # {}
        /\ Max(1..(k + 1)) = k + 1 /\ (1..(k + 1)) \ {k + 1} = 1..k
    BY <1>2, FirstMany
  <2>2. k \in 0..n /\ k + 1 \in 0..n /\ k + 1 \in 1..n
    BY <1>2
  <2>3. iter[1..(k + 1)] = Joined(iter[1..k], Sentence(text, p, k + 1), 1)
    BY <1>2, <1>4, <2>1, <2>2
  <2> QED
    BY <2>2, <2>3
<1>7. Paragraph(text, p) = g[n]
  BY <1>1, <1>2
<1> HIDE DEF g
<1> QED
  BY <1>5, <1>6, <1>7


(* Chunks in the order of the text, and whole: sentences of the text in    *)
(* order, none longer than the chunk.                                      *)
Earlier(c, d) == \A a \in Holds(c), b \in Holds(d) : Before(a, b)
Ordered(c) == \A m, n \in DOMAIN c.holds : m < n => Before(c.holds[m], c.holds[n])
Whole(text, c) ==
  /\ c \in Chunk /\ Ordered(c)
  /\ \A a \in Holds(c) : a \in Places(text) /\ text[a[1]][a[2]] <= c.size

(* A place is that of a sentence.                                          *)
LEMMA PlaceTyped ==
  ASSUME NEW text \in AllTexts, NEW a \in Places(text)
  PROVE  /\ \E p \in 1..Len(text) : \E i \in 1..Len(text[p]) : a = <<p, i>>
         /\ text[a[1]][a[2]] \in Nat \ {0}
<1>1. PICK p \in DOMAIN text : a \in {p} \X DOMAIN text[p]
  BY DEF Places
<1>2. p \in 1..Len(text)
  BY DEF AllTexts
<1>3. PICK i \in DOMAIN text[p] : a = <<p, i>>
  BY <1>1
<1> QED
  BY <1>2, <1>3, SentenceTyped

(* The empty buffer is whole, and so is a sentence.                        *)
LEMMA NothingWhole ==
  ASSUME NEW text
  PROVE  Whole(text, Nothing) /\ Holds(Nothing) = {}
<1>1. Nothing.holds = <<>> /\ DOMAIN Nothing.holds = {}
  BY DEF Nothing
<1> QED
  BY <1>1, NothingTyped DEF Whole, Ordered, Holds

(* A sentence is whole and has a place.                                    *)
LEMMA SentenceWhole ==
  ASSUME NEW text \in AllTexts, NEW p \in 1..Len(text), NEW i \in 1..Len(text[p])
  PROVE  /\ Whole(text, Sentence(text, p, i)) /\ Holds(Sentence(text, p, i)) = {<<p, i>>}
         /\ Sentence(text, p, i).size = text[p][i] /\ text[p][i] \in Nat \ {0}
         /\ <<p, i>> \in Places(text)
<1> DEFINE c == Sentence(text, p, i)
           h == << <<p, i>> >>
<1>1. c.size = text[p][i] /\ c.holds = h
  BY DEF Sentence
<1>2. DOMAIN h = {1} /\ h[1] = <<p, i>>
  OBVIOUS
<1>3. Holds(c) = {<<p, i>>}
  BY <1>1, <1>2 DEF Holds
<1>4. Ordered(c)
  BY <1>1, <1>2 DEF Ordered
<1>5. c \in Chunk /\ text[p][i] \in Nat \ {0} /\ i \in DOMAIN text[p]
  BY SentenceTyped
<1>6. p \in DOMAIN text
  BY DEF AllTexts
<1>7. <<p, i>> \in Places(text)
  BY <1>5, <1>6 DEF Places
<1> HIDE DEF c
<1>8. Whole(text, c)
  BY <1>1, <1>3, <1>4, <1>5, <1>7 DEF Whole
<1> QED
  BY <1>1, <1>3, <1>5, <1>7, <1>8 DEF c

(* Two sequences one after the other.                                      *)
LEMMA Concatenated ==
  ASSUME NEW S, NEW s \in Seq(S), NEW t \in Seq(S)
  PROVE  /\ s \o t \in Seq(S) /\ Len(s) \in Nat /\ Len(t) \in Nat
         /\ DOMAIN s = 1..Len(s) /\ DOMAIN t = 1..Len(t)
         /\ DOMAIN (s \o t) = 1..(Len(s) + Len(t))
         /\ \A i \in 1..Len(s) : (s \o t)[i] = s[i]
         /\ \A i \in 1..(Len(s) + Len(t)) : i > Len(s) =>
              i - Len(s) \in 1..Len(t) /\ (s \o t)[i] = t[i - Len(s)]
         /\ \A i \in 1..Len(t) :
              Len(s) + i \in 1..(Len(s) + Len(t)) /\ (s \o t)[Len(s) + i] = t[i]
OBVIOUS

(* What is joined is whole, and holds what both did.                       *)
LEMMA JoinedWhole ==
  ASSUME NEW text \in AllTexts, NEW b, NEW piece, NEW gap \in Nat,
         Whole(text, b), Whole(text, piece), Earlier(b, piece), piece.size > 0
  PROVE  /\ Whole(text, Joined(b, piece, gap))
         /\ Holds(Joined(b, piece, gap)) = Holds(b) \cup Holds(piece)
         /\ Joined(b, piece, gap) # Nothing /\ Joined(b, piece, gap).size > 0
         /\ b # Nothing => Joined(b, piece, gap).size = b.size + gap + piece.size
<1> DEFINE c == Joined(b, piece, gap)
<1>1. CASE b = Nothing
  <2>1. c = piece
    BY <1>1 DEF Joined
  <2>2. piece # Nothing
    BY DEF Nothing
  <2> QED
    BY <1>1, <2>1, <2>2, NothingWhole
<1>2. CASE b # Nothing
  <2> DEFINE s == b.holds
             t == piece.holds
  <2>1. /\ b.size \in Nat /\ piece.size \in Nat
        /\ s \in Seq(Nat \X Nat) /\ t \in Seq(Nat \X Nat)
    BY DEF Whole, Chunk
  <2>2. c.size = b.size + gap + piece.size /\ c.holds = s \o t
    BY <1>2 DEF Joined
  <2>3. c \in Chunk
    BY JoinedTyped DEF Whole
  <2> HIDE DEF c, s, t
  <2>4. /\ Len(s) \in Nat /\ Len(t) \in Nat
        /\ DOMAIN s = 1..Len(s) /\ DOMAIN t = 1..Len(t)
        /\ DOMAIN (s \o t) = 1..(Len(s) + Len(t))
        /\ \A i \in 1..Len(s) : (s \o t)[i] = s[i]
        /\ \A i \in 1..(Len(s) + Len(t)) : i > Len(s) =>
             i - Len(s) \in 1..Len(t) /\ (s \o t)[i] = t[i - Len(s)]
        /\ \A i \in 1..Len(t) :
             Len(s) + i \in 1..(Len(s) + Len(t)) /\ (s \o t)[Len(s) + i] = t[i]
    BY <2>1, Concatenated
  <2>5. Holds(b) = {s[i] : i \in 1..Len(s)} /\ Holds(piece) = {t[i] : i \in 1..Len(t)}
    BY <2>4 DEF Holds, s, t
  <2>6. Holds(c) = {(s \o t)[i] : i \in 1..(Len(s) + Len(t))}
    BY <2>2, <2>4 DEF Holds
  <2>7. Holds(c) = Holds(b) \cup Holds(piece)
    <3>1. \A i \in 1..(Len(s) + Len(t)) : (s \o t)[i] \in Holds(b) \cup Holds(piece)
      <4> SUFFICES ASSUME NEW i \in 1..(Len(s) + Len(t))
                   PROVE  (s \o t)[i] \in Holds(b) \cup Holds(piece)
        OBVIOUS
      <4>1. CASE i > Len(s)
        BY <2>4, <2>5, <4>1
      <4>2. CASE ~ i > Len(s)
        <5>1. i \in 1..Len(s)
          BY <2>4, <4>2
        <5> QED
          BY <2>4, <2>5, <5>1
      <4> QED
        BY <4>1, <4>2
    <3>2. \A i \in 1..Len(s) : i \in 1..(Len(s) + Len(t))
      BY <2>4
    <3>3. Holds(b) \subseteq Holds(c)
      BY <2>4, <2>5, <2>6, <3>2
    <3>4. Holds(piece) \subseteq Holds(c)
      BY <2>4, <2>5, <2>6
    <3> QED
      BY <2>6, <3>1, <3>3, <3>4
  <2>8. Ordered(c)
    <3> SUFFICES ASSUME NEW m \in 1..(Len(s) + Len(t)), NEW n \in 1..(Len(s) + Len(t)), m < n
                 PROVE  Before((s \o t)[m], (s \o t)[n])
      BY <2>2, <2>4 DEF Ordered
    <3>1. CASE n <= Len(s)
      <4>1. m \in 1..Len(s) /\ n \in 1..Len(s)
        BY <2>4, <3>1
      <4>2. Before(s[m], s[n])
        BY <2>4, <4>1 DEF Whole, Ordered, s
      <4> QED
        BY <2>4, <4>1, <4>2
    <3>2. CASE m <= Len(s) /\ n > Len(s)
      <4>1. m \in 1..Len(s) /\ n - Len(s) \in 1..Len(t)
        BY <2>4, <3>2
      <4>2. Before(s[m], t[n - Len(s)])
        BY <2>5, <4>1 DEF Earlier
      <4> QED
        BY <2>4, <3>2, <4>1, <4>2
    <3>3. CASE m > Len(s)
      <4>1. n > Len(s)
        BY <2>4, <3>3
      <4>2. m - Len(s) \in 1..Len(t) /\ n - Len(s) \in 1..Len(t)
        BY <2>4, <3>3, <4>1
      <4>3. m - Len(s) < n - Len(s)
        BY <2>4
      <4>4. Before(t[m - Len(s)], t[n - Len(s)])
        BY <2>4, <4>2, <4>3 DEF Whole, Ordered, t
      <4> QED
        BY <2>4, <3>3, <4>1, <4>4
    <3> QED
      BY <2>4, <3>1, <3>2, <3>3
  <2>9. \A a \in Holds(c) : a \in Places(text) /\ text[a[1]][a[2]] <= c.size
    <3> SUFFICES ASSUME NEW a \in Holds(b) \cup Holds(piece)
                 PROVE  a \in Places(text) /\ text[a[1]][a[2]] <= c.size
      BY <2>7
    <3>1. a \in Places(text) /\ (text[a[1]][a[2]] <= b.size \/ text[a[1]][a[2]] <= piece.size)
      BY DEF Whole
    <3>2. text[a[1]][a[2]] \in Nat
      BY <3>1, PlaceTyped
    <3> QED
      BY <2>1, <2>2, <3>1, <3>2
  <2>10. Whole(text, c)
    BY <2>3, <2>8, <2>9 DEF Whole
  <2>11. c.size > 0
    BY <2>1, <2>2
  <2>12. c # Nothing
    BY <2>11 DEF Nothing
  <2> QED
    BY <2>2, <2>7, <2>10, <2>11, <2>12 DEF c
<1> QED
  BY <1>1, <1>2

(* A paragraph is whole, and holds each of its sentences.                  *)
LEMMA ParagraphWhole ==
  ASSUME NEW text \in AllTexts, NEW p \in 1..Len(text)
  PROVE  /\ Whole(text, Paragraph(text, p)) /\ Paragraph(text, p).size > 0
         /\ Holds(Paragraph(text, p)) = {<<p, i>> : i \in 1..Len(text[p])}
<1> DEFINE n == Len(text[p])
           S(i) == Sentence(text, p, i)
           Is(c, k) == /\ Whole(text, c) /\ Holds(c) = {<<p, i>> : i \in 1..k}
                       /\ k > 0 => c.size > 0
<1>1. PICK g : /\ g[0] = Nothing
               /\ \A k \in Nat : k < n => g[k + 1] = Joined(g[k], S(k + 1), 1)
               /\ Paragraph(text, p) = g[n]
  BY ParagraphRuns
<1> DEFINE G == {k \in Nat : Is(g[k], k)}
<1>2. n \in Nat \ {0}
  BY SentenceTyped
<1>3. 0 \in G
  BY <1>1, NothingWhole
<1>4. ASSUME NEW k \in Nat, k < n, k \in G
      PROVE  k + 1 \in G
  <2> DEFINE b == g[k]
             piece == S(k + 1)
  <2>1. Is(b, k)
    BY <1>4
  <2>2. k + 1 \in 1..n
    BY <1>2, <1>4
  <2>3. Whole(text, piece) /\ Holds(piece) = {<<p, k + 1>>} /\ piece.size \in Nat \ {0}
    <3> DEFINE i == k + 1
    <3>1. i \in 1..Len(text[p])
      BY <2>2
    <3> HIDE DEF i
    <3>2. /\ Whole(text, S(i)) /\ Holds(S(i)) = {<<p, i>>}
          /\ S(i).size = text[p][i] /\ text[p][i] \in Nat \ {0}
      BY <3>1, SentenceWhole
    <3> QED
      BY <3>2 DEF i
  <2>4. g[k + 1] = Joined(b, piece, 1)
    BY <1>1, <1>4
  <2> HIDE DEF b, piece
  <2>5. Earlier(b, piece)
    <3> SUFFICES ASSUME NEW i \in 1..k PROVE Before(<<p, i>>, <<p, k + 1>>)
      BY <2>1, <2>3 DEF Earlier
    <3> QED
      BY DEF Before
  <2>6. piece.size > 0
    BY <2>3
  <2>7. /\ Whole(text, Joined(b, piece, 1)) /\ Joined(b, piece, 1).size > 0
        /\ Holds(Joined(b, piece, 1)) = Holds(b) \cup Holds(piece)
    BY <2>1, <2>3, <2>5, <2>6, JoinedWhole
  <2>8. {<<p, i>> : i \in 1..k} \cup {<<p, k + 1>>} = {<<p, i>> : i \in 1..(k + 1)}
    <3>1. 1..(k + 1) = 1..k \cup {k + 1}
      OBVIOUS
    <3> QED
      BY <3>1
  <2>9. Is(g[k + 1], k + 1)
    BY <2>1, <2>3, <2>4, <2>7, <2>8
  <2> QED
    BY <2>9
<1>5. n \in G
  <2>1. \A k \in 0..n : k \in G
    <3> HIDE DEF G, n
    <3> QED
      BY <1>2, <1>3, <1>4, SetInduction
  <2> QED
    BY <1>2, <2>1
<1> QED
  BY <1>1, <1>2, <1>5

(* A row of chunks keeps the places D: whole chunks that are not too long, *)
(* in order, with every sentence of D that fits one.                       *)
Fit(text, c) == Whole(text, c) /\ c.size <= MaxChunk
Line(text, row, D) ==
  /\ row \in Seq(Chunk)
  /\ \A i \in 1..Len(row) : Fit(text, row[i]) /\ Holds(row[i]) \subseteq D
  /\ \A i, j \in 1..Len(row) : i < j => Earlier(row[i], row[j])
  /\ \A a \in D : text[a[1]][a[2]] <= MaxChunk => \E i \in 1..Len(row) : a \in Holds(row[i])
Row(st) == Append(st.chunks, st.buffer)

(* A sequence and what is appended to it.                                  *)
LEMMA Appended ==
  ASSUME NEW S, NEW s \in Seq(S), NEW e \in S
  PROVE  /\ Append(s, e) \in Seq(S) /\ Len(s) \in Nat /\ Len(Append(s, e)) = Len(s) + 1
         /\ \A i \in 1..Len(s) : i \in 1..(Len(s) + 1) /\ Append(s, e)[i] = s[i]
         /\ Len(s) + 1 \in 1..(Len(s) + 1) /\ Append(s, e)[Len(s) + 1] = e
         /\ \A i \in 1..(Len(s) + 1) : i = Len(s) + 1 \/ (i \in 1..Len(s) /\ i < Len(s) + 1)
OBVIOUS

(* An empty buffer at the end adds nothing.                                *)
LEMMA LineRests ==
  ASSUME NEW text, NEW row, NEW D, Line(text, row, D)
  PROVE  Line(text, Append(row, Nothing), D)
<1> DEFINE r == Append(row, Nothing)
           n == Len(row)
<1>1. /\ r \in Seq(Chunk) /\ n \in Nat /\ Len(r) = n + 1
      /\ \A i \in 1..n : i \in 1..(n + 1) /\ r[i] = row[i]
      /\ r[n + 1] = Nothing
      /\ \A i \in 1..(n + 1) : i = n + 1 \/ (i \in 1..n /\ i < n + 1)
  BY Appended, NothingTyped DEF Line
<1>2. Fit(text, Nothing) /\ Holds(Nothing) = {}
  BY NothingWhole, KnowledgeAssumption DEF Fit, Nothing
<1> HIDE DEF r, n
<1>3. \A i \in 1..n : Fit(text, row[i]) /\ Holds(row[i]) \subseteq D
  BY DEF Line, n
<1>4. \A i \in 1..(n + 1) : Fit(text, r[i]) /\ Holds(r[i]) \subseteq D
  BY <1>1, <1>2, <1>3
<1>5. \A i, j \in 1..(n + 1) : i < j => Earlier(r[i], r[j])
  <2> SUFFICES ASSUME NEW i \in 1..(n + 1), NEW j \in 1..(n + 1), i < j
               PROVE  Earlier(r[i], r[j])
    OBVIOUS
  <2>1. i \in 1..n
    BY <1>1
  <2>2. CASE j = n + 1
    BY <1>1, <1>2, <2>2 DEF Earlier
  <2>3. CASE j \in 1..n
    <3>1. Earlier(row[i], row[j])
      BY <2>1, <2>3 DEF Line, n
    <3> QED
      BY <1>1, <2>1, <2>3, <3>1
  <2> QED
    BY <1>1, <2>2, <2>3
<1>6. \A a \in D : text[a[1]][a[2]] <= MaxChunk => \E i \in 1..(n + 1) : a \in Holds(r[i])
  <2> SUFFICES ASSUME NEW a \in D, text[a[1]][a[2]] <= MaxChunk
               PROVE  \E i \in 1..(n + 1) : a \in Holds(r[i])
    OBVIOUS
  <2>1. PICK i \in 1..n : a \in Holds(row[i])
    BY DEF Line, n
  <2> QED
    BY <1>1, <2>1
<1> QED
  BY <1>1, <1>4, <1>5, <1>6 DEF Line, r

(* Nor does its loss take anything.                                        *)
LEMMA LineWakes ==
  ASSUME NEW text, NEW row \in Seq(Chunk), NEW D, Line(text, Append(row, Nothing), D)
  PROVE  Line(text, row, D)
<1> DEFINE r == Append(row, Nothing)
           n == Len(row)
<1>1. /\ r \in Seq(Chunk) /\ n \in Nat /\ Len(r) = n + 1
      /\ \A i \in 1..n : i \in 1..(n + 1) /\ r[i] = row[i]
      /\ r[n + 1] = Nothing
      /\ \A i \in 1..(n + 1) : i = n + 1 \/ (i \in 1..n /\ i < n + 1)
  BY Appended, NothingTyped
<1>2. Holds(Nothing) = {}
  BY NothingWhole
<1>3. Line(text, r, D)
  OBVIOUS
<1> HIDE DEF r
<1>4. \A i \in 1..n : Fit(text, row[i]) /\ Holds(row[i]) \subseteq D
  <2> HIDE DEF n
  <2> QED
    BY <1>1, <1>3 DEF Line
<1>5. \A i, j \in 1..n : i < j => Earlier(row[i], row[j])
  <2> HIDE DEF n
  <2> QED
    BY <1>1, <1>3 DEF Line
<1>6. \A a \in D : text[a[1]][a[2]] <= MaxChunk => \E i \in 1..n : a \in Holds(row[i])
  <2> SUFFICES ASSUME NEW a \in D, text[a[1]][a[2]] <= MaxChunk
               PROVE  \E i \in 1..n : a \in Holds(row[i])
    OBVIOUS
  <2> HIDE DEF n
  <2>1. PICK i \in 1..(n + 1) : a \in Holds(r[i])
    BY <1>1, <1>3 DEF Line
  <2> QED
    BY <1>1, <1>2, <2>1
<1> QED
  BY <1>4, <1>5, <1>6 DEF Line

(* The last chunk takes more of the text.                                  *)
LEMMA LineJoins ==
  ASSUME NEW text, NEW chunks \in Seq(Chunk), NEW b \in Chunk, NEW D,
         Line(text, Append(chunks, b), D),
         NEW c, NEW H, Fit(text, c), Holds(c) = Holds(b) \cup H,
         \A a \in D, e \in H : Before(a, e)
  PROVE  Line(text, Append(chunks, c), D \cup H)
<1> DEFINE r == Append(chunks, b)
           q == Append(chunks, c)
           n == Len(chunks)
<1>1. /\ r \in Seq(Chunk) /\ n \in Nat /\ Len(r) = n + 1
      /\ \A i \in 1..n : i \in 1..(n + 1) /\ r[i] = chunks[i]
      /\ r[n + 1] = b /\ n + 1 \in 1..(n + 1)
      /\ \A i \in 1..(n + 1) : i = n + 1 \/ (i \in 1..n /\ i < n + 1)
  BY Appended
<1>2. /\ q \in Seq(Chunk) /\ Len(q) = n + 1
      /\ \A i \in 1..n : q[i] = chunks[i]
      /\ q[n + 1] = c
  BY Appended DEF Fit, Whole
<1>3. Line(text, r, D)
  OBVIOUS
<1> HIDE DEF r, q, n
<1>4. \A i \in 1..n : Fit(text, r[i]) /\ Holds(r[i]) \subseteq D
  BY <1>1, <1>3 DEF Line
<1>5. \A i \in 1..(n + 1) : Fit(text, q[i]) /\ Holds(q[i]) \subseteq D \cup H
  <2>1. Holds(b) \subseteq D
    BY <1>1, <1>3 DEF Line
  <2> QED
    BY <1>1, <1>2, <1>4, <2>1
<1>6. \A i, j \in 1..(n + 1) : i < j => Earlier(q[i], q[j])
  <2> SUFFICES ASSUME NEW i \in 1..(n + 1), NEW j \in 1..(n + 1), i < j
               PROVE  Earlier(q[i], q[j])
    OBVIOUS
  <2>1. i \in 1..n
    BY <1>1
  <2>2. Earlier(r[i], r[j])
    BY <1>1, <1>3 DEF Line
  <2>3. CASE j = n + 1
    <3>1. Earlier(r[i], c)
      BY <1>1, <1>4, <2>1, <2>2, <2>3 DEF Earlier
    <3> QED
      BY <1>1, <1>2, <2>1, <2>3, <3>1
  <2>4. CASE j \in 1..n
    BY <1>1, <1>2, <2>1, <2>2, <2>4
  <2> QED
    BY <1>1, <2>3, <2>4
<1>7. \A a \in D \cup H : text[a[1]][a[2]] <= MaxChunk => \E i \in 1..(n + 1) : a \in Holds(q[i])
  <2> SUFFICES ASSUME NEW a \in D \cup H, text[a[1]][a[2]] <= MaxChunk
               PROVE  \E i \in 1..(n + 1) : a \in Holds(q[i])
    OBVIOUS
  <2>1. CASE a \in H
    BY <1>1, <1>2, <2>1
  <2>2. CASE a \in D
    <3>1. PICK i \in 1..(n + 1) : a \in Holds(r[i])
      BY <1>1, <1>3, <2>2 DEF Line
    <3> QED
      BY <1>1, <1>2, <3>1
  <2> QED
    BY <2>1, <2>2
<1> QED
  BY <1>2, <1>5, <1>6, <1>7 DEF Line, q

(* What fits no chunk is not missed.                                       *)
LEMMA LineMisses ==
  ASSUME NEW text, NEW row, NEW D, Line(text, row, D),
         NEW E, \A a \in E : ~ (text[a[1]][a[2]] <= MaxChunk)
  PROVE  Line(text, row, D \cup E)
BY DEF Line

(* A flush keeps the row.                                                  *)
LEMMA FlushedKeeps ==
  ASSUME NEW text, NEW st \in States, NEW D, Line(text, Row(st), D)
  PROVE  /\ Flushed(st.chunks, st.buffer) \in Seq(Chunk)
         /\ Line(text, Flushed(st.chunks, st.buffer), D)
         /\ Line(text, Append(Flushed(st.chunks, st.buffer), Nothing), D)
<1>1. st.chunks \in Seq(Chunk) /\ st.buffer \in Chunk
  BY DEF States
<1>2. CASE st.buffer = Nothing
  BY <1>1, <1>2, LineWakes DEF Flushed, Row
<1>3. CASE st.buffer # Nothing
  <2>1. Flushed(st.chunks, st.buffer) = Row(st)
    BY <1>3 DEF Flushed, Row
  <2>2. Line(text, Append(Row(st), Nothing), D)
    BY LineRests
  <2> QED
    BY <2>1, <2>2 DEF Line
<1> QED
  BY <1>2, <1>3

(* And so does the flush at the end.                                       *)
LEMMA ClosedKeeps ==
  ASSUME NEW text, NEW st \in States, NEW D, Line(text, Row(st), D)
  PROVE  /\ Closed(st) \in States /\ Line(text, Row(Closed(st)), D)
         /\ Closed(st).chunks \in Seq(Chunk) /\ Line(text, Closed(st).chunks, D)
<1>1. Closed(st) \in States
  BY NothingTyped, PackedTyped
<1>2. Closed(st).chunks = Flushed(st.chunks, st.buffer) /\ Closed(st).buffer = Nothing
  BY DEF Closed
<1> QED
  BY <1>1, <1>2, FlushedKeeps DEF Row

(* A piece that is packed adds the places it holds.                        *)
LEMMA PackedKeeps ==
  ASSUME NEW text \in AllTexts, NEW st \in States, NEW D, Line(text, Row(st), D),
         NEW piece, NEW gap \in Nat, Whole(text, piece), piece.size > 0,
         \A a \in D, e \in Holds(piece) : Before(a, e),
         piece.size > MaxChunk => \A a \in Holds(piece) : ~ (text[a[1]][a[2]] <= MaxChunk)
  PROVE  /\ Packed(st, piece, gap) \in States
         /\ Line(text, Row(Packed(st, piece, gap)), D \cup Holds(piece))
<1> DEFINE next == Packed(st, piece, gap)
<1>1. st.chunks \in Seq(Chunk) /\ st.buffer \in Chunk /\ piece \in Chunk
  BY DEF States, Whole
<1>2. /\ st.buffer.size \in Nat /\ piece.size \in Nat /\ MaxChunk \in Nat
  BY <1>1, KnowledgeAssumption DEF Chunk
<1>3. next \in States
  BY <1>1, PackedTyped
<1>4. CASE st.buffer.size + piece.size + gap > MaxChunk
  <2> DEFINE flushed == Flushed(st.chunks, st.buffer)
  <2>1. next.chunks = flushed /\ next.buffer = Cut(piece)
    BY <1>4 DEF Packed
  <2>2. flushed \in Seq(Chunk) /\ Line(text, Append(flushed, Nothing), D)
    BY FlushedKeeps
  <2>3. Holds(Nothing) = {}
    BY NothingWhole
  <2> HIDE DEF flushed
  <2>4. CASE piece.size <= MaxChunk
    <3>1. Cut(piece) = piece /\ Fit(text, piece)
      BY <2>4 DEF Cut, Fit
    <3>2. Holds(piece) = Holds(Nothing) \cup Holds(piece)
      BY <2>3
    <3>3. Line(text, Append(flushed, piece), D \cup Holds(piece))
      BY <2>2, <3>1, <3>2, NothingTyped, LineJoins
    <3> QED
      BY <1>3, <2>1, <3>1, <3>3 DEF Row
  <2>5. CASE ~ piece.size <= MaxChunk
    <3> DEFINE cut == Cut(piece)
               E == Holds(piece)
    <3>1. cut.size = MaxChunk /\ cut.holds = <<>> /\ cut \in Chunk
      BY <1>2, <2>5 DEF Cut, Chunk
    <3>2. DOMAIN cut.holds = {}
      BY <3>1
    <3> HIDE DEF cut
    <3>3. Holds(cut) = {} /\ Ordered(cut)
      BY <3>2 DEF Holds, Ordered
    <3>4. Fit(text, cut)
      BY <1>2, <3>1, <3>3 DEF Fit, Whole
    <3>5. Holds(cut) = Holds(Nothing) \cup {}
      BY <2>3, <3>3
    <3>6. Line(text, Append(flushed, cut), D \cup {})
      BY <2>2, <3>4, <3>5, NothingTyped, LineJoins
    <3>7. D \cup {} = D
      OBVIOUS
    <3>8. \A a \in E : ~ (text[a[1]][a[2]] <= MaxChunk)
      BY <1>2, <2>5
    <3> HIDE DEF E
    <3>9. Line(text, Append(flushed, cut), D \cup E)
      BY <3>6, <3>7, <3>8, LineMisses
    <3> QED
      BY <1>3, <2>1, <3>9 DEF Row, cut, E
  <2> QED
    BY <2>4, <2>5
<1>5. CASE ~ (st.buffer.size + piece.size + gap > MaxChunk)
  <2> DEFINE c == Joined(st.buffer, piece, gap)
  <2>1. next.chunks = st.chunks /\ next.buffer = c
    BY <1>1, <1>5 DEF Packed, States
  <2>2. Whole(text, st.buffer) /\ Holds(st.buffer) \subseteq D
    <3>1. /\ Len(Row(st)) \in 1..Len(Row(st))
          /\ Row(st)[Len(Row(st))] = st.buffer
      BY <1>1 DEF Row
    <3> QED
      BY <3>1 DEF Line, Fit
  <2>3. Earlier(st.buffer, piece)
    BY <2>2 DEF Earlier
  <2>4. /\ Whole(text, c) /\ Holds(c) = Holds(st.buffer) \cup Holds(piece)
        /\ st.buffer # Nothing => c.size = st.buffer.size + gap + piece.size
    BY <2>2, <2>3, JoinedWhole
  <2>5. st.buffer = Nothing => c = piece
    BY DEF Joined
  <2>6. c.size <= MaxChunk
    BY <1>2, <1>5, <2>4, <2>5
  <2> HIDE DEF c
  <2>7. Line(text, Append(st.chunks, st.buffer), D)
    BY DEF Row
  <2>8. Line(text, Append(st.chunks, c), D \cup Holds(piece))
    BY <1>1, <2>4, <2>6, <2>7, LineJoins DEF Fit
  <2> QED
    BY <1>3, <2>1, <2>8 DEF Row
<1> QED
  BY <1>4, <1>5

(* A paragraph that is split is packed sentence by sentence.               *)
LEMMA SplitRuns ==
  ASSUME NEW text \in AllTexts, NEW p \in 1..Len(text), NEW state \in States
  PROVE  \E g : /\ g[0] = Closed(state)
                /\ \A k \in Nat : k < Len(text[p]) =>
                     g[k + 1] = Packed(g[k], Sentence(text, p, k + 1), 1)
                /\ Split(state, text, p) = Closed(g[Len(text[p])])
<1> DEFINE
  n == Len(text[p])
  idx == [s \in DOMAIN text[p] |-> s]
  Body(f) == [s \in SUBSET (DOMAIN idx) |->
                IF s = {} THEN Closed(state)
                          ELSE Packed(f[s \ {Max(s)}], Sentence(text, p, idx[Max(s)]), 1)]
  iter == CHOOSE f : f = Body(f)
<1>1. Split(state, text, p) = Closed(iter[DOMAIN idx])
  BY DEF Split, FoldLeft, MapThenFoldSet
<1>2. n \in Nat /\ DOMAIN idx = 1..n
  BY SentenceTyped
<1>3. \E f : f = Body(f)
  <2>1. PICK step \in Steps(n, States) :
          \A st \in States, i \in 1..n : step[<<st, i>>] = Packed(st, Sentence(text, p, i), 1)
    <3> DEFINE stp == [bs \in States \X (1..n) |-> Packed(bs[1], Sentence(text, p, bs[2]), 1)]
    <3>1. \A st \in States, i \in 1..n : Packed(st, Sentence(text, p, i), 1) \in States
      BY SentenceTyped, PackedTyped
    <3>2. stp \in [States \X (1..n) -> States]
      BY <3>1
    <3>3. \A st \in States, i \in 1..n : stp[<<st, i>>] = Packed(st, Sentence(text, p, i), 1)
      OBVIOUS
    <3> HIDE DEF stp
    <3> QED
      BY <3>2, <3>3 DEF Steps
  <2>2. Closed(state) \in States
    BY NothingTyped, PackedTyped
  <2>3. PICK f : Folds(f, n, States, Closed(state), step)
    BY <1>2, <2>2, FoldExists
  <2>4. f = Body(f)
    BY <1>2, <2>1, <2>3 DEF Folds
  <2> QED
    BY <2>4
<1>4. iter = Body(iter)
  BY <1>3
<1> HIDE DEF iter
<1> DEFINE g == [k \in 0..n |-> iter[1..k]]
<1>5. g[0] = Closed(state)
  BY <1>2, <1>4
<1>6. \A k \in Nat : k < n => g[k + 1] = Packed(g[k], Sentence(text, p, k + 1), 1)
  <2> SUFFICES ASSUME NEW k \in Nat, k < n
               PROVE  g[k + 1] = Packed(g[k], Sentence(text, p, k + 1), 1)
    OBVIOUS
  <2>1. /\ 1..(k + 1) \in SUBSET (1..n) /\ 1..(k + 1) # {}
        /\ Max(1..(k + 1)) = k + 1 /\ (1..(k + 1)) \ {k + 1} = 1..k
    BY <1>2, FirstMany
  <2>2. k \in 0..n /\ k + 1 \in 0..n /\ k + 1 \in 1..n
    BY <1>2
  <2>3. iter[1..(k + 1)] = Packed(iter[1..k], Sentence(text, p, k + 1), 1)
    BY <1>2, <1>4, <2>1, <2>2
  <2> QED
    BY <2>2, <2>3
<1>7. Split(state, text, p) = Closed(g[n])
  BY <1>1, <1>2
<1> HIDE DEF g
<1> QED
  BY <1>5, <1>6, <1>7

(* A buffer and chunks stay such when a paragraph is taken.                *)
LEMMA TakeTyped ==
  ASSUME NEW text \in AllTexts, NEW p \in 1..Len(text), NEW state \in States
  PROVE  Take(state, text, p) \in States
<1> DEFINE n == Len(text[p])
           S(i) == Sentence(text, p, i)
<1>1. PICK g : /\ g[0] = Closed(state)
               /\ \A k \in Nat : k < n => g[k + 1] = Packed(g[k], S(k + 1), 1)
               /\ Split(state, text, p) = Closed(g[n])
  BY SplitRuns
<1> DEFINE G == {k \in Nat : g[k] \in States}
<1>2. n \in Nat
  BY SentenceTyped
<1>3. 0 \in G
  BY <1>1, NothingTyped, PackedTyped
<1>4. ASSUME NEW k \in Nat, k < n, k \in G
      PROVE  k + 1 \in G
  <2>1. k + 1 \in 1..n
    BY <1>2, <1>4
  <2>2. S(k + 1) \in Chunk
    BY <2>1, SentenceTyped
  <2>3. g[k] \in States /\ g[k + 1] = Packed(g[k], S(k + 1), 1)
    BY <1>1, <1>4
  <2> HIDE DEF S
  <2>4. g[k + 1] \in States
    BY <2>2, <2>3, PackedTyped
  <2> QED
    BY <2>4
<1>5. g[n] \in States
  <2>1. \A k \in 0..n : k \in G
    <3> HIDE DEF G, n
    <3> QED
      BY <1>2, <1>3, <1>4, SetInduction
  <2> QED
    BY <1>2, <2>1
<1>6. Split(state, text, p) \in States
  BY <1>1, <1>5, NothingTyped, PackedTyped
<1>7. Packed(state, Paragraph(text, p), 2) \in States
  BY ParagraphWhole, PackedTyped DEF Whole
<1> QED
  BY <1>6, <1>7 DEF Take

(* The buffer and the chunks a text begins with.                           *)
Blank == [chunks |-> <<>>, buffer |-> Nothing]

(* A text is packed paragraph by paragraph, from nothing.                  *)
LEMMA PackingRuns ==
  ASSUME NEW text \in AllTexts
  PROVE  \E g : /\ g[0] = Blank
                /\ \A k \in Nat : k < Len(text) => g[k + 1] = Take(g[k], text, k + 1)
                /\ Packing(text) = Closed(g[Len(text)]).chunks
<1> DEFINE
  n == Len(text)
  idx == [p \in DOMAIN text |-> p]
  Body(f) == [s \in SUBSET (DOMAIN idx) |->
                IF s = {} THEN [chunks |-> <<>>, buffer |-> Nothing]
                          ELSE Take(f[s \ {Max(s)}], text, idx[Max(s)])]
  iter == CHOOSE f : f = Body(f)
<1>1. Packing(text) = Closed(iter[DOMAIN idx]).chunks
  BY DEF Packing, FoldLeft, MapThenFoldSet
<1>2. n \in Nat /\ DOMAIN idx = 1..n
  BY DEF AllTexts
<1>3. \E f : f = Body(f)
  <2>1. PICK step \in Steps(n, States) :
          \A st \in States, i \in 1..n : step[<<st, i>>] = Take(st, text, i)
    <3> DEFINE stp == [bs \in States \X (1..n) |-> Take(bs[1], text, bs[2])]
    <3>1. \A st \in States, i \in 1..n : Take(st, text, i) \in States
      BY TakeTyped
    <3>2. stp \in [States \X (1..n) -> States]
      BY <3>1
    <3>3. \A st \in States, i \in 1..n : stp[<<st, i>>] = Take(st, text, i)
      OBVIOUS
    <3> HIDE DEF stp
    <3> QED
      BY <3>2, <3>3 DEF Steps
  <2>2. Blank \in States
    BY NothingTyped DEF Blank, States
  <2>3. PICK f : Folds(f, n, States, Blank, step)
    BY <1>2, <2>2, FoldExists
  <2>4. f = Body(f)
    BY <1>2, <2>1, <2>3 DEF Folds, Blank
  <2> QED
    BY <2>4
<1>4. iter = Body(iter)
  BY <1>3
<1> HIDE DEF iter
<1> DEFINE g == [k \in 0..n |-> iter[1..k]]
<1>5. g[0] = Blank
  BY <1>2, <1>4 DEF Blank
<1>6. \A k \in Nat : k < n => g[k + 1] = Take(g[k], text, k + 1)
  <2> SUFFICES ASSUME NEW k \in Nat, k < n
               PROVE  g[k + 1] = Take(g[k], text, k + 1)
    OBVIOUS
  <2>1. /\ 1..(k + 1) \in SUBSET (1..n) /\ 1..(k + 1) # {}
        /\ Max(1..(k + 1)) = k + 1 /\ (1..(k + 1)) \ {k + 1} = 1..k
    BY <1>2, FirstMany
  <2>2. k \in 0..n /\ k + 1 \in 0..n /\ k + 1 \in 1..n
    BY <1>2
  <2>3. iter[1..(k + 1)] = Take(iter[1..k], text, k + 1)
    BY <1>2, <1>4, <2>1, <2>2
  <2> QED
    BY <2>2, <2>3
<1>7. Packing(text) = Closed(g[n]).chunks
  BY <1>1, <1>2
<1> HIDE DEF g
<1> QED
  BY <1>5, <1>6, <1>7

(* What is long enough is appended to what is kept.                        *)
LEMMA FilterRuns ==
  ASSUME NEW chunks \in Seq(Chunk)
  PROVE  \E g : /\ g[0] = <<>>
                /\ \A k \in Nat : k < Len(chunks) =>
                     g[k + 1] = IF chunks[k + 1].size >= MinChunk
                                THEN Append(g[k], chunks[k + 1]) ELSE g[k]
                /\ LongEnough(chunks) = g[Len(chunks)]
<1> DEFINE
  n == Len(chunks)
  Body(f) == [s \in SUBSET (DOMAIN chunks) |->
                IF s = {} THEN <<>>
                ELSE IF chunks[Max(s)].size >= MinChunk
                     THEN Append(f[s \ {Max(s)}], chunks[Max(s)]) ELSE f[s \ {Max(s)}]]
  iter == CHOOSE f : f = Body(f)
<1>1. LongEnough(chunks) = iter[DOMAIN chunks]
  BY DEF LongEnough, FoldLeft, MapThenFoldSet
<1>2. n \in Nat /\ DOMAIN chunks = 1..n
  OBVIOUS
<1>3. \E f : f = Body(f)
  <2>1. PICK step \in Steps(n, Seq(Chunk)) :
          \A st \in Seq(Chunk), i \in 1..n :
            step[<<st, i>>] = IF chunks[i].size >= MinChunk THEN Append(st, chunks[i]) ELSE st
    <3> DEFINE stp == [bs \in Seq(Chunk) \X (1..n) |->
                         IF chunks[bs[2]].size >= MinChunk
                         THEN Append(bs[1], chunks[bs[2]]) ELSE bs[1]]
    <3>1. \A st \in Seq(Chunk), i \in 1..n : Append(st, chunks[i]) \in Seq(Chunk)
      OBVIOUS
    <3>2. stp \in [Seq(Chunk) \X (1..n) -> Seq(Chunk)]
      BY <3>1
    <3>3. \A st \in Seq(Chunk), i \in 1..n :
            stp[<<st, i>>] = IF chunks[i].size >= MinChunk THEN Append(st, chunks[i]) ELSE st
      OBVIOUS
    <3> HIDE DEF stp
    <3> QED
      BY <3>2, <3>3 DEF Steps
  <2>2. <<>> \in Seq(Chunk)
    OBVIOUS
  <2>3. PICK f : Folds(f, n, Seq(Chunk), <<>>, step)
    BY <1>2, <2>2, FoldExists
  <2>4. f = Body(f)
    BY <1>2, <2>1, <2>3 DEF Folds
  <2> QED
    BY <2>4
<1>4. iter = Body(iter)
  BY <1>3
<1> HIDE DEF iter
<1> DEFINE g == [k \in 0..n |-> iter[1..k]]
<1>5. g[0] = <<>>
  BY <1>2, <1>4
<1>6. \A k \in Nat : k < n =>
        g[k + 1] = IF chunks[k + 1].size >= MinChunk
                   THEN Append(g[k], chunks[k + 1]) ELSE g[k]
  <2> SUFFICES ASSUME NEW k \in Nat, k < n
               PROVE  g[k + 1] = IF chunks[k + 1].size >= MinChunk
                                 THEN Append(g[k], chunks[k + 1]) ELSE g[k]
    OBVIOUS
  <2>1. /\ 1..(k + 1) \in SUBSET (1..n) /\ 1..(k + 1) # {}
        /\ Max(1..(k + 1)) = k + 1 /\ (1..(k + 1)) \ {k + 1} = 1..k
    BY <1>2, FirstMany
  <2>2. k \in 0..n /\ k + 1 \in 0..n /\ k + 1 \in 1..n
    BY <1>2
  <2>3. iter[1..(k + 1)] = IF chunks[k + 1].size >= MinChunk
                           THEN Append(iter[1..k], chunks[k + 1]) ELSE iter[1..k]
    BY <1>2, <1>4, <2>1, <2>2
  <2> QED
    BY <2>2, <2>3
<1>7. LongEnough(chunks) = g[n]
  BY <1>1, <1>2
<1> HIDE DEF g
<1> QED
  BY <1>5, <1>6, <1>7

(* Places up to a paragraph of a text, and up to a sentence of the next.   *)
Done(text, k) == {a \in Places(text) : a[1] <= k}
Begun(p, i) == {<<p, j>> : j \in 1..i}

(* A paragraph that is taken, split or not, adds the places of all of its  *)
(* sentences.                                                              *)
LEMMA TakeKeeps ==
  ASSUME NEW text \in AllTexts, NEW p \in 1..Len(text), NEW state \in States,
         NEW D, Line(text, Row(state), D), \A a \in D, i \in 1..Len(text[p]) : Before(a, <<p, i>>)
  PROVE  /\ Take(state, text, p) \in States
         /\ Line(text, Row(Take(state, text, p)), D \cup Begun(p, Len(text[p])))
<1> DEFINE n == Len(text[p])
           S(i) == Sentence(text, p, i)
           Is(st, k) == st \in States /\ Line(text, Row(st), D \cup Begun(p, k))
<1>0. n \in Nat \ {0}
  BY SentenceTyped
<1>1. CASE Paragraph(text, p).size > MaxChunk
  <2>1. PICK g : /\ g[0] = Closed(state)
                 /\ \A k \in Nat : k < n => g[k + 1] = Packed(g[k], S(k + 1), 1)
                 /\ Split(state, text, p) = Closed(g[n])
    BY SplitRuns
  <2> DEFINE G == {k \in Nat : Is(g[k], k)}
  <2>2. 0 \in G
    <3>1. D \cup Begun(p, 0) = D
      BY DEF Begun
    <3>2. Closed(state) \in States /\ Line(text, Row(Closed(state)), D)
      BY ClosedKeeps
    <3> QED
      BY <2>1, <3>1, <3>2
  <2>3. ASSUME NEW k \in Nat, k < n, k \in G
        PROVE  k + 1 \in G
    <3> DEFINE i == k + 1
               E == D \cup Begun(p, k)
    <3>1. i \in 1..n /\ i \in Nat
      BY <1>0, <2>3
    <3>2. g[k] \in States /\ Line(text, Row(g[k]), E) /\ g[i] = Packed(g[k], S(i), 1)
      BY <2>1, <2>3
    <3>3. \A a \in E : Before(a, <<p, i>>)
      <4> SUFFICES ASSUME NEW a \in D \cup Begun(p, k) PROVE Before(a, <<p, i>>)
        OBVIOUS
      <4>1. CASE a \in D
        <5>1. \A j \in 1..n : Before(a, <<p, j>>)
          BY <4>1
        <5> HIDE DEF i
        <5> QED
          BY <3>1, <5>1
      <4>2. CASE a \in Begun(p, k)
        <5>1. PICK j \in 1..k : a = <<p, j>>
          BY <4>2 DEF Begun
        <5> QED
          BY <5>1 DEF Before
      <4> QED
        BY <4>1, <4>2
    <3>4. E \cup {<<p, i>>} = D \cup Begun(p, i)
      <4>1. 1..i = 1..k \cup {i}
        OBVIOUS
      <4> QED
        BY <4>1 DEF Begun
    <3> HIDE DEF i, E
    <3>5. /\ Whole(text, S(i)) /\ Holds(S(i)) = {<<p, i>>}
          /\ S(i).size = text[p][i] /\ text[p][i] \in Nat \ {0}
      BY <3>1, SentenceWhole
    <3> DEFINE piece == S(i)
    <3>6. /\ Whole(text, piece) /\ piece.size > 0
          /\ \A a \in E, e \in Holds(piece) : Before(a, e)
          /\ piece.size > MaxChunk => \A a \in Holds(piece) : ~ (text[a[1]][a[2]] <= MaxChunk)
      BY <3>3, <3>5, KnowledgeAssumption
    <3>7. Holds(piece) = {<<p, i>>} /\ g[i] = Packed(g[k], piece, 1)
      BY <3>2, <3>5
    <3> HIDE DEF piece
    <3>8. Packed(g[k], piece, 1) \in States /\ Line(text, Row(Packed(g[k], piece, 1)), E \cup Holds(piece))
      BY <3>2, <3>6, PackedKeeps
    <3>9. Is(g[i], i)
      BY <3>4, <3>7, <3>8
    <3>10. i \in G
      BY <3>1, <3>9
    <3> QED
      BY <3>10 DEF i
  <2>4. Is(g[n], n)
    <3>1. n \in G
      <4> HIDE DEF G, n
      <4>1. \A k \in 0..n : k \in G
        BY <1>0, <2>2, <2>3, SetInduction
      <4> QED
        BY <1>0, <4>1
    <3> QED
      BY <3>1
  <2>5. Is(Closed(g[n]), n)
    BY <2>4, ClosedKeeps
  <2> QED
    BY <1>1, <2>1, <2>5 DEF Take
<1>2. CASE ~ Paragraph(text, p).size > MaxChunk
  <2> DEFINE piece == Paragraph(text, p)
  <2>1. Whole(text, piece) /\ piece.size > 0 /\ Holds(piece) = Begun(p, n)
    BY ParagraphWhole DEF Begun
  <2>2. \A a \in D, e \in Holds(piece) : Before(a, e)
    BY <2>1 DEF Begun
  <2>3. piece.size > MaxChunk => \A a \in Holds(piece) : ~ (text[a[1]][a[2]] <= MaxChunk)
    BY <1>2
  <2>4. Take(state, text, p) = Packed(state, piece, 2)
    BY <1>2 DEF Take
  <2> HIDE DEF piece
  <2>5. /\ Packed(state, piece, 2) \in States
        /\ Line(text, Row(Packed(state, piece, 2)), D \cup Holds(piece))
    BY <2>1, <2>2, <2>3, PackedKeeps
  <2> QED
    BY <2>1, <2>4, <2>5
<1> QED
  BY <1>1, <1>2

(* What is packed keeps every place of the text.                           *)
LEMMA PackingKeeps ==
  ASSUME NEW text \in AllTexts
  PROVE  Line(text, Packing(text), Places(text))
<1> DEFINE n == Len(text)
           Is(st, k) == st \in States /\ Line(text, Row(st), Done(text, k))
<1>1. PICK g : /\ g[0] = Blank
               /\ \A k \in Nat : k < n => g[k + 1] = Take(g[k], text, k + 1)
               /\ Packing(text) = Closed(g[n]).chunks
  BY PackingRuns
<1> DEFINE G == {k \in Nat : Is(g[k], k)}
<1>2. n \in Nat
  BY DEF AllTexts
<1>3. 0 \in G
  <2>1. Done(text, 0) = {}
    BY PlaceTyped DEF Done
  <2>2. Line(text, <<>>, {})
    BY DEF Line
  <2>3. Line(text, Row(Blank), {})
    BY <2>2, LineRests DEF Row, Blank
  <2>4. Blank \in States
    BY NothingTyped DEF Blank, States
  <2> QED
    BY <1>1, <2>1, <2>3, <2>4
<1>4. ASSUME NEW k \in Nat, k < n, k \in G
      PROVE  k + 1 \in G
  <2> DEFINE p == k + 1
             D == Done(text, k)
  <2>1. p \in 1..n /\ p \in Nat
    BY <1>2, <1>4
  <2>2. g[k] \in States /\ Line(text, Row(g[k]), D) /\ g[p] = Take(g[k], text, p)
    BY <1>1, <1>4
  <2>3. \A a \in D, i \in 1..Len(text[p]) : Before(a, <<p, i>>)
    <3> SUFFICES ASSUME NEW a \in D, NEW i \in 1..Len(text[p]) PROVE Before(a, <<p, i>>)
      OBVIOUS
    <3>1. a[1] <= k /\ a[1] \in Nat
      BY PlaceTyped DEF Done
    <3> QED
      BY <3>1 DEF Before
  <2>4. D \cup Begun(p, Len(text[p])) = Done(text, p)
    <3>1. ASSUME NEW i \in 1..Len(text[p])
          PROVE  <<p, i>> \in Done(text, p)
      <4>1. p \in 1..Len(text)
        BY <2>1
      <4> HIDE DEF p
      <4>2. <<p, i>> \in Places(text)
        BY <4>1, SentenceWhole
      <4> QED
        BY <2>1, <4>2 DEF Done
    <3>2. ASSUME NEW a \in Done(text, p)
          PROVE  a \in D \/ a \in Begun(p, Len(text[p]))
      <4>1. PICK q \in 1..Len(text) : \E i \in 1..Len(text[q]) : a = <<q, i>>
        BY PlaceTyped DEF Done
      <4>2. PICK i \in 1..Len(text[q]) : a = <<q, i>>
        BY <4>1
      <4>3. q <= p /\ a \in Places(text)
        BY <4>2 DEF Done
      <4>4. CASE q = p
        <5> HIDE DEF p
        <5> QED
          BY <4>2, <4>4 DEF Begun
      <4>5. CASE q # p
        BY <4>2, <4>3, <4>5 DEF Done
      <4> QED
        BY <4>4, <4>5
    <3>3. D \subseteq Done(text, p)
      <4> SUFFICES ASSUME NEW a \in D PROVE a \in Done(text, p)
        OBVIOUS
      <4>1. a \in Places(text) /\ a[1] <= k /\ a[1] \in Nat
        BY PlaceTyped DEF Done
      <4> QED
        BY <4>1 DEF Done
    <3> HIDE DEF p, D
    <3>4. Begun(p, Len(text[p])) \subseteq Done(text, p)
      BY <3>1 DEF Begun
    <3> QED
      BY <3>2, <3>3, <3>4
  <2>5. p \in 1..Len(text)
    BY <2>1
  <2> HIDE DEF p, D
  <2>6. Take(g[k], text, p) \in States /\ Line(text, Row(Take(g[k], text, p)), D \cup Begun(p, Len(text[p])))
    BY <2>2, <2>3, <2>5, TakeKeeps
  <2>7. Is(g[p], p)
    BY <2>2, <2>4, <2>6
  <2>8. p \in G
    BY <2>1, <2>7
  <2> QED
    BY <2>8 DEF p
<1>5. Is(g[n], n)
  <2>1. \A k \in 0..n : k \in G
    <3> HIDE DEF G, n
    <3> QED
      BY <1>2, <1>3, <1>4, SetInduction
  <2> QED
    BY <1>2, <2>1
<1>6. Done(text, n) = Places(text)
  <2> SUFFICES ASSUME NEW a \in Places(text) PROVE a[1] <= n
    BY DEF Done
  <2> QED
    BY <1>2, PlaceTyped
<1> QED
  BY <1>1, <1>5, <1>6, ClosedKeeps

(* A chunk that is long enough is kept, in its order.                      *)
LEMMA LongEnoughKeeps ==
  ASSUME NEW text, NEW D, NEW row, Line(text, row, D)
  PROVE  /\ LongEnough(row) \in Seq(Chunk)
         /\ \A i \in 1..Len(LongEnough(row)) :
              Fit(text, LongEnough(row)[i]) /\ LongEnough(row)[i].size >= MinChunk
         /\ \A i, j \in 1..Len(LongEnough(row)) :
              i < j => Earlier(LongEnough(row)[i], LongEnough(row)[j])
         /\ \A j \in 1..Len(row) : row[j].size >= MinChunk =>
              \E i \in 1..Len(LongEnough(row)) : LongEnough(row)[i] = row[j]
<1> DEFINE
  n == Len(row)
  Is(kept, k) ==
    /\ kept \in Seq(Chunk)
    /\ \A i \in 1..Len(kept) : /\ \E j \in 1..k : kept[i] = row[j]
                               /\ kept[i].size >= MinChunk
    /\ \A i, j \in 1..Len(kept) : i < j => Earlier(kept[i], kept[j])
    /\ \A j \in 1..k : row[j].size >= MinChunk => \E i \in 1..Len(kept) : kept[i] = row[j]
<1>1. row \in Seq(Chunk) /\ n \in Nat /\ \A j \in 1..n : row[j] \in Chunk
  BY DEF Line
<1>2. PICK g : /\ g[0] = <<>>
               /\ \A k \in Nat : k < n =>
                    g[k + 1] = IF row[k + 1].size >= MinChunk
                               THEN Append(g[k], row[k + 1]) ELSE g[k]
               /\ LongEnough(row) = g[n]
  BY <1>1, FilterRuns
<1> DEFINE G == {k \in Nat : Is(g[k], k)}
<1>3. 0 \in G
  <2>1. <<>> \in Seq(Chunk) /\ 1..Len(<<>>) = {} /\ 1..0 = {}
    OBVIOUS
  <2>2. Is(<<>>, 0)
    BY <2>1
  <2> HIDE DEF Is
  <2> QED
    BY <1>2, <2>2
<1>4. ASSUME NEW k \in Nat, k < n, k \in G
      PROVE  k + 1 \in G
  <2> DEFINE kept == g[k]
             m == Len(kept)
             c == row[k + 1]
             next == g[k + 1]
  <2>1. Is(kept, k)
    BY <1>4
  <2>2. k + 1 \in 1..n /\ c \in Chunk /\ \A j \in 1..k : j \in 1..n /\ j < k + 1
    BY <1>1, <1>4
  <2>3. \A j \in 1..(k + 1) : j \in 1..k \/ j = k + 1
    OBVIOUS
  <2>4. k + 1 \in 1..(k + 1) /\ \A j \in 1..k : j \in 1..(k + 1)
    OBVIOUS
  <2>5. next = IF c.size >= MinChunk THEN Append(kept, c) ELSE kept
    BY <1>2, <1>4
  <2>6. CASE c.size >= MinChunk
    <3>1. /\ next \in Seq(Chunk) /\ m \in Nat /\ Len(next) = m + 1
          /\ \A i \in 1..m : i \in 1..(m + 1) /\ next[i] = kept[i]
          /\ m + 1 \in 1..(m + 1) /\ next[m + 1] = c
          /\ \A i \in 1..(m + 1) : i = m + 1 \/ (i \in 1..m /\ i < m + 1)
      <4> HIDE DEF c, kept, next
      <4> QED
        BY <2>1, <2>2, <2>5, <2>6, Appended DEF m
    <3>2. \A i \in 1..m : /\ \E j \in 1..k : kept[i] = row[j]
                          /\ kept[i].size >= MinChunk
      BY <2>1
    <3> HIDE DEF m
    <3>3. \A i \in 1..(m + 1) : /\ \E j \in 1..(k + 1) : next[i] = row[j]
                                /\ next[i].size >= MinChunk
      <4> HIDE DEF kept, next
      <4> QED
        BY <2>4, <2>6, <3>1, <3>2
    <3>4. \A i, j \in 1..(m + 1) : i < j => Earlier(next[i], next[j])
      <4> SUFFICES ASSUME NEW i \in 1..(m + 1), NEW j \in 1..(m + 1), i < j
                   PROVE  Earlier(next[i], next[j])
        OBVIOUS
      <4>1. i \in 1..m
        BY <3>1
      <4>2. CASE j = m + 1
        <5>1. PICK l \in 1..k : kept[i] = row[l]
          BY <3>2, <4>1
        <5>2. Earlier(row[l], c)
          BY <2>2, <5>1 DEF Line
        <5> HIDE DEF kept, next, c
        <5> QED
          BY <3>1, <4>1, <4>2, <5>1, <5>2
      <4>3. CASE j \in 1..m
        <5>1. Earlier(kept[i], kept[j])
          BY <2>1, <4>1, <4>3 DEF m
        <5> HIDE DEF kept, next
        <5> QED
          BY <3>1, <4>1, <4>3, <5>1
      <4> QED
        BY <3>1, <4>2, <4>3
    <3>5. \A j \in 1..(k + 1) : row[j].size >= MinChunk => \E i \in 1..(m + 1) : next[i] = row[j]
      <4> SUFFICES ASSUME NEW j \in 1..(k + 1), row[j].size >= MinChunk
                   PROVE  \E i \in 1..(m + 1) : next[i] = row[j]
        OBVIOUS
      <4>1. CASE j = k + 1
        BY <3>1, <4>1
      <4>2. CASE j \in 1..k
        <5>1. PICK i \in 1..m : kept[i] = row[j]
          BY <2>1, <4>2 DEF m
        <5> HIDE DEF kept, next
        <5> QED
          BY <3>1, <5>1
      <4> QED
        BY <2>3, <4>1, <4>2
    <3> HIDE DEF next
    <3>6. Is(next, k + 1)
      BY <3>1, <3>3, <3>4, <3>5
    <3> QED
      BY <3>6 DEF next
  <2>7. CASE ~ c.size >= MinChunk
    <3>1. next = kept
      BY <2>5, <2>7
    <3>2. \A i \in 1..m : \E j \in 1..(k + 1) : kept[i] = row[j]
      BY <2>1, <2>4
    <3>3. \A j \in 1..(k + 1) : row[j].size >= MinChunk => \E i \in 1..m : kept[i] = row[j]
      <4> SUFFICES ASSUME NEW j \in 1..(k + 1), row[j].size >= MinChunk
                   PROVE  \E i \in 1..m : kept[i] = row[j]
        OBVIOUS
      <4>1. j \in 1..k
        BY <2>3, <2>7
      <4> QED
        BY <2>1, <4>1
    <3>4. Is(kept, k + 1)
      BY <2>1, <3>2, <3>3
    <3> HIDE DEF Is
    <3>5. Is(g[k + 1], k + 1)
      BY <3>1, <3>4
    <3> QED
      BY <3>5
  <2> QED
    BY <2>6, <2>7
<1>5. Is(g[n], n)
  <2>1. n \in G
    <3> HIDE DEF G, n
    <3>1. \A k \in 0..n : k \in G
      BY <1>1, <1>3, <1>4, SetInduction
    <3> QED
      BY <1>1, <3>1
  <2> QED
    BY <2>1
<1> DEFINE kept == LongEnough(row)
<1>6. Is(kept, n)
  BY <1>2, <1>5
<1>7. \A j \in 1..n : Fit(text, row[j])
  BY DEF Line
<1> HIDE DEF kept, n
<1>8. \A i \in 1..Len(kept) : Fit(text, kept[i])
  BY <1>6, <1>7
<1> QED
  BY <1>6, <1>8 DEF kept, n

(* However long its paragraphs and sentences, a text is kept: chunks stay  *)
(* within their bounds and in order, and a sentence that fits a chunk and  *)
(* is long enough to be one is in one of them (KnowledgeService's          *)
(* _chunk_text).                                                           *)
THEOREM EveryTextIsKept == \A text \in AllTexts : KeepsText(text)
<1> SUFFICES ASSUME NEW text \in AllTexts PROVE KeepsText(text)
  OBVIOUS
<1> DEFINE row == Packing(text)
           kept == Chunks(text)
<1>1. Line(text, row, Places(text))
  BY PackingKeeps
<1>2. /\ kept \in Seq(Chunk)
      /\ \A i \in 1..Len(kept) : Fit(text, kept[i]) /\ kept[i].size >= MinChunk
      /\ \A i, j \in 1..Len(kept) : i < j => Earlier(kept[i], kept[j])
      /\ \A j \in 1..Len(row) : row[j].size >= MinChunk =>
           \E i \in 1..Len(kept) : kept[i] = row[j]
  BY <1>1, LongEnoughKeeps DEF Chunks
<1>3. DOMAIN kept = 1..Len(kept)
  BY <1>2
<1> HIDE DEF kept, row
<1>4. \A i \in 1..Len(kept) :
        /\ kept[i].size \in MinChunk..MaxChunk
        /\ \A m, n \in DOMAIN kept[i].holds : m < n => Before(kept[i].holds[m], kept[i].holds[n])
  <2> SUFFICES ASSUME NEW i \in 1..Len(kept)
               PROVE  kept[i].size \in MinChunk..MaxChunk /\ Ordered(kept[i])
    BY DEF Ordered
  <2>1. Fit(text, kept[i]) /\ kept[i].size >= MinChunk
    BY <1>2
  <2>2. kept[i].size \in Nat
    BY <2>1 DEF Fit, Whole, Chunk
  <2> QED
    BY <2>1, <2>2, KnowledgeAssumption DEF Fit, Whole
<1>5. \A i, j \in 1..Len(kept) :
        i < j => \A a \in Holds(kept[i]), b \in Holds(kept[j]) : Before(a, b)
  BY <1>2 DEF Earlier
<1>6. \A at \in Places(text) :
        text[at[1]][at[2]] \in MinChunk..MaxChunk => \E i \in 1..Len(kept) : at \in Holds(kept[i])
  <2> SUFFICES ASSUME NEW at \in Places(text), text[at[1]][at[2]] \in MinChunk..MaxChunk
               PROVE  \E i \in 1..Len(kept) : at \in Holds(kept[i])
    OBVIOUS
  <2>1. PICK j \in 1..Len(row) : at \in Holds(row[j])
    BY <1>1, KnowledgeAssumption DEF Line
  <2>2. /\ text[at[1]][at[2]] <= row[j].size /\ row[j].size \in Nat
        /\ text[at[1]][at[2]] >= MinChunk /\ text[at[1]][at[2]] \in Nat
    BY <1>1, <2>1, PlaceTyped DEF Line, Fit, Whole, Chunk
  <2>3. row[j].size >= MinChunk
    BY <2>2, KnowledgeAssumption
  <2>4. PICK i \in 1..Len(kept) : kept[i] = row[j]
    BY <1>2, <2>3
  <2> QED
    BY <2>1, <2>4
<1> QED
  BY <1>3, <1>4, <1>5, <1>6 DEF KeepsText, kept

(* So are the texts a file may hold.                                       *)
THEOREM ChunksAlwaysCover == Spec => []ChunksCover
<1>1. ChunksCover
  <2>1. \A text \in Texts : text \in AllTexts
    BY MessageTurnAssumption
  <2> QED
    BY <2>1, EveryTextIsKept DEF ChunksCover
<1>2. []ChunksCover
  BY <1>1, PTL
<1> QED
  BY <1>2, PTL
--------------------------------------------------------------------------------
(***************************************************************************)
(* The parser.  Its loop is a FoldLeft as well; the concatenation that the *)
(* property compares it with chooses a function too, and the messages read *)
(* so far are such a function.                                             *)
(***************************************************************************)
Results ==
  [messages : Seq({ParseMessage(i) : i \in AllItems}),
   statuses : Seq({ParseStatus(i) : i \in AllItems}),
   errors : Nat, malformed : Nat, raises : BOOLEAN]

LEMMA UnreadTyped == Unread \in Results
BY DEF Unread, Results

(* The four ways to read an item.                                          *)
LEMMA ReadCases ==
  ASSUME NEW r \in Results, NEW item \in AllItems
  PROVE  /\ item.is = "message" /\ Parsed(item) =>
              Read(r, item) =
                [messages |-> Append(r.messages, ParseMessage(item)), statuses |-> r.statuses,
                 errors |-> r.errors, malformed |-> r.malformed, raises |-> r.raises]
         /\ item.is = "status" /\ Parsed(item) =>
              Read(r, item) =
                [messages |-> r.messages, statuses |-> Append(r.statuses, ParseStatus(item)),
                 errors |-> r.errors, malformed |-> r.malformed, raises |-> r.raises]
         /\ item.is = "error" =>
              Read(r, item) =
                [messages |-> r.messages, statuses |-> r.statuses, errors |-> r.errors + 1,
                 malformed |-> r.malformed, raises |-> r.raises]
         /\ item.is # "error" /\ ~ (item.is \in {"message", "status"} /\ Parsed(item)) =>
              Read(r, item) =
                [messages |-> r.messages, statuses |-> r.statuses, errors |-> r.errors,
                 malformed |-> r.malformed + 1, raises |-> r.raises]
<1>1. r = [messages |-> r.messages, statuses |-> r.statuses, errors |-> r.errors,
           malformed |-> r.malformed, raises |-> r.raises]
  BY DEF Results
<1>2. CASE item.is = "message" /\ Parsed(item)
  <2>1. Read(r, item) = [r EXCEPT !.messages = Append(@, ParseMessage(item))]
    BY <1>2 DEF Read
  <2> QED
    BY <1>1, <1>2, <2>1
<1>3. CASE item.is = "status" /\ Parsed(item)
  <2>1. Read(r, item) = [r EXCEPT !.statuses = Append(@, ParseStatus(item))]
    BY <1>3 DEF Read
  <2> QED
    BY <1>1, <1>3, <2>1
<1>4. CASE item.is = "error"
  <2>1. Read(r, item) = [r EXCEPT !.errors = @ + 1]
    BY <1>4 DEF Read
  <2> QED
    BY <1>1, <1>4, <2>1
<1>5. CASE item.is # "error" /\ ~ (item.is \in {"message", "status"} /\ Parsed(item))
  <2>1. Read(r, item) = [r EXCEPT !.malformed = @ + 1]
    BY <1>5 DEF Read
  <2> QED
    BY <1>1, <1>5, <2>1
<1> QED
  BY <1>2, <1>3, <1>4, <1>5

LEMMA Grown ==
  ASSUME NEW T, NEW q \in Seq(T), NEW x \in T
  PROVE  /\ Append(q, x) \in Seq(T) /\ Append(q, x) = q \o <<x>>
         /\ Len(Append(q, x)) = Len(q) + 1 /\ Len(q) \in Nat
         /\ q \o <<>> = q /\ Append(<<>>, x) = <<x>>
OBVIOUS

(* What is read from so many items.                                        *)
Counted(r) == Len(r.messages) + Len(r.statuses) + r.errors + r.malformed

LEMMA OneMore ==
  ASSUME NEW r, NEW x,
         Len(r.messages) \in Nat, Len(r.statuses) \in Nat, r.errors \in Nat, r.malformed \in Nat,
         \/ /\ Len(x.messages) = Len(r.messages) + 1 /\ Len(x.statuses) = Len(r.statuses)
            /\ x.errors = r.errors /\ x.malformed = r.malformed
         \/ /\ Len(x.messages) = Len(r.messages) /\ Len(x.statuses) = Len(r.statuses) + 1
            /\ x.errors = r.errors /\ x.malformed = r.malformed
         \/ /\ Len(x.messages) = Len(r.messages) /\ Len(x.statuses) = Len(r.statuses)
            /\ x.errors = r.errors + 1 /\ x.malformed = r.malformed
         \/ /\ Len(x.messages) = Len(r.messages) /\ Len(x.statuses) = Len(r.statuses)
            /\ x.errors = r.errors /\ x.malformed = r.malformed + 1
  PROVE  Counted(x) = Counted(r) + 1
<1> DEFINE
  a == Len(r.messages)  b == Len(r.statuses)  c == r.errors  d == r.malformed
  w == Len(x.messages)  u == Len(x.statuses)  y == x.errors  z == x.malformed
<1> SUFFICES w + u + y + z = (a + b + c + d) + 1
  BY DEF Counted
<1>1. a \in Nat /\ b \in Nat /\ c \in Nat /\ d \in Nat
  OBVIOUS
<1>2. \/ w = a + 1 /\ u = b /\ y = c /\ z = d
      \/ w = a /\ u = b + 1 /\ y = c /\ z = d
      \/ w = a /\ u = b /\ y = c + 1 /\ z = d
      \/ w = a /\ u = b /\ y = c /\ z = d + 1
  OBVIOUS
<1> HIDE DEF a, b, c, d, w, u, y, z
<1> QED
  BY <1>1, <1>2

(* An item that is read adds what it would give alone, and counts once.    *)
LEMMA ReadAdds ==
  ASSUME NEW r \in Results, NEW item \in AllItems
  PROVE  /\ Read(r, item) \in Results
         /\ Read(r, item).messages = r.messages \o Read(Unread, item).messages
         /\ Read(r, item).statuses = r.statuses \o Read(Unread, item).statuses
         /\ Counted(Read(r, item)) = Counted(r) + 1
         /\ Read(r, item).raises = r.raises
<1> DEFINE
  M == {ParseMessage(i) : i \in AllItems}
  S == {ParseStatus(i) : i \in AllItems}
  m == ParseMessage(item)
  s == ParseStatus(item)
<1>1. /\ r.messages \in Seq(M) /\ r.statuses \in Seq(S)
      /\ r.errors \in Nat /\ r.malformed \in Nat /\ r.raises \in BOOLEAN
  BY DEF Results
<1>2. m \in M /\ s \in S
  OBVIOUS
<1>4. Unread.messages = <<>> /\ Unread.statuses = <<>> /\ Unread.errors = 0
      /\ Unread.malformed = 0 /\ Unread.raises = FALSE
  BY DEF Unread
<1> HIDE DEF M, S, m, s
<1>5. /\ Append(r.messages, m) \in Seq(M) /\ Append(r.messages, m) = r.messages \o <<m>>
      /\ Len(Append(r.messages, m)) = Len(r.messages) + 1 /\ Len(r.messages) \in Nat
      /\ r.messages \o <<>> = r.messages /\ Append(<<>>, m) = <<m>>
  BY <1>1, <1>2, Grown
<1>6. /\ Append(r.statuses, s) \in Seq(S) /\ Append(r.statuses, s) = r.statuses \o <<s>>
      /\ Len(Append(r.statuses, s)) = Len(r.statuses) + 1 /\ Len(r.statuses) \in Nat
      /\ r.statuses \o <<>> = r.statuses /\ Append(<<>>, s) = <<s>>
  BY <1>1, <1>2, Grown
<1>7. CASE item.is = "message" /\ Parsed(item)
  <2>1. Read(r, item) =
          [messages |-> Append(r.messages, m), statuses |-> r.statuses, errors |-> r.errors,
           malformed |-> r.malformed, raises |-> r.raises]
    BY <1>7, ReadCases DEF m
  <2>2. Read(Unread, item) =
          [messages |-> Append(<<>>, m), statuses |-> <<>>, errors |-> 0, malformed |-> 0,
           raises |-> FALSE]
    BY <1>4, <1>7, ReadCases, UnreadTyped DEF m
  <2>3. Read(r, item) \in Results
    BY <1>1, <1>5, <1>6, <2>1 DEF Results, M, S
  <2>4. /\ Read(r, item).messages = Append(r.messages, m) /\ Read(r, item).statuses = r.statuses
        /\ Read(r, item).errors = r.errors /\ Read(r, item).malformed = r.malformed
    BY <2>1
  <2>5. /\ Read(Unread, item).messages = <<m>> /\ Read(Unread, item).statuses = <<>>
        /\ Read(Unread, item).errors = 0 /\ Read(Unread, item).malformed = 0
    BY <1>5, <1>6, <2>2
  <2>6. Read(r, item).raises = r.raises
    BY <2>1
  <2>7. Counted(Read(r, item)) = Counted(r) + 1
    <3>1. /\ Len(Read(r, item).messages) = Len(r.messages) + 1
          /\ Len(Read(r, item).statuses) = Len(r.statuses)
      BY <1>5, <1>6, <2>4
    <3> QED
      BY <1>1, <1>5, <1>6, <2>4, <3>1, OneMore
  <2>8. /\ Read(r, item).messages = r.messages \o Read(Unread, item).messages
        /\ Read(r, item).statuses = r.statuses \o Read(Unread, item).statuses
    BY <1>5, <1>6, <2>4, <2>5
  <2> QED
    BY <2>3, <2>6, <2>7, <2>8
<1>8. CASE item.is = "status" /\ Parsed(item)
  <2>1. Read(r, item) =
          [messages |-> r.messages, statuses |-> Append(r.statuses, s), errors |-> r.errors,
           malformed |-> r.malformed, raises |-> r.raises]
    BY <1>8, ReadCases DEF s
  <2>2. Read(Unread, item) =
          [messages |-> <<>>, statuses |-> Append(<<>>, s), errors |-> 0, malformed |-> 0,
           raises |-> FALSE]
    BY <1>4, <1>8, ReadCases, UnreadTyped DEF s
  <2>3. Read(r, item) \in Results
    BY <1>1, <1>5, <1>6, <2>1 DEF Results, M, S
  <2>4. /\ Read(r, item).messages = r.messages /\ Read(r, item).statuses = Append(r.statuses, s)
        /\ Read(r, item).errors = r.errors /\ Read(r, item).malformed = r.malformed
    BY <2>1
  <2>5. /\ Read(Unread, item).messages = <<>> /\ Read(Unread, item).statuses = <<s>>
        /\ Read(Unread, item).errors = 0 /\ Read(Unread, item).malformed = 0
    BY <1>5, <1>6, <2>2
  <2>6. Read(r, item).raises = r.raises
    BY <2>1
  <2>7. Counted(Read(r, item)) = Counted(r) + 1
    <3>1. /\ Len(Read(r, item).messages) = Len(r.messages)
          /\ Len(Read(r, item).statuses) = Len(r.statuses) + 1
      BY <1>5, <1>6, <2>4
    <3> QED
      BY <1>1, <1>5, <1>6, <2>4, <3>1, OneMore
  <2>8. /\ Read(r, item).messages = r.messages \o Read(Unread, item).messages
        /\ Read(r, item).statuses = r.statuses \o Read(Unread, item).statuses
    BY <1>5, <1>6, <2>4, <2>5
  <2> QED
    BY <2>3, <2>6, <2>7, <2>8
<1>9. CASE item.is = "error"
  <2>1. Read(r, item) =
          [messages |-> r.messages, statuses |-> r.statuses, errors |-> r.errors + 1,
           malformed |-> r.malformed, raises |-> r.raises]
    BY <1>9, ReadCases
  <2>2. Read(Unread, item) =
          [messages |-> <<>>, statuses |-> <<>>, errors |-> 0 + 1, malformed |-> 0,
           raises |-> FALSE]
    BY <1>4, <1>9, ReadCases, UnreadTyped
  <2>3. Read(r, item) \in Results
    BY <1>1, <2>1 DEF Results, M, S
  <2>4. /\ Read(r, item).messages = r.messages /\ Read(r, item).statuses = r.statuses
        /\ Read(r, item).errors = r.errors + 1 /\ Read(r, item).malformed = r.malformed
    BY <2>1
  <2>5. /\ Read(Unread, item).messages = <<>> /\ Read(Unread, item).statuses = <<>>
        /\ Read(Unread, item).errors = 1 /\ Read(Unread, item).malformed = 0
    BY <1>5, <1>6, <2>2
  <2>6. Read(r, item).raises = r.raises
    BY <2>1
  <2>7. Counted(Read(r, item)) = Counted(r) + 1
    <3>1. /\ Len(Read(r, item).messages) = Len(r.messages)
          /\ Len(Read(r, item).statuses) = Len(r.statuses)
      BY <1>5, <1>6, <2>4
    <3> QED
      BY <1>1, <1>5, <1>6, <2>4, <3>1, OneMore
  <2>8. /\ Read(r, item).messages = r.messages \o Read(Unread, item).messages
        /\ Read(r, item).statuses = r.statuses \o Read(Unread, item).statuses
    BY <1>5, <1>6, <2>4, <2>5
  <2> QED
    BY <2>3, <2>6, <2>7, <2>8
<1>10. CASE item.is # "error" /\ ~ (item.is \in {"message", "status"} /\ Parsed(item))
  <2>1. Read(r, item) =
          [messages |-> r.messages, statuses |-> r.statuses, errors |-> r.errors,
           malformed |-> r.malformed + 1, raises |-> r.raises]
    BY <1>10, ReadCases
  <2>2. Read(Unread, item) =
          [messages |-> <<>>, statuses |-> <<>>, errors |-> 0, malformed |-> 0 + 1,
           raises |-> FALSE]
    BY <1>4, <1>10, ReadCases, UnreadTyped
  <2>3. Read(r, item) \in Results
    BY <1>1, <2>1 DEF Results, M, S
  <2>4. /\ Read(r, item).messages = r.messages /\ Read(r, item).statuses = r.statuses
        /\ Read(r, item).errors = r.errors /\ Read(r, item).malformed = r.malformed + 1
    BY <2>1
  <2>5. /\ Read(Unread, item).messages = <<>> /\ Read(Unread, item).statuses = <<>>
        /\ Read(Unread, item).errors = 0 /\ Read(Unread, item).malformed = 1
    BY <1>5, <1>6, <2>2
  <2>6. Read(r, item).raises = r.raises
    BY <2>1
  <2>7. Counted(Read(r, item)) = Counted(r) + 1
    <3>1. /\ Len(Read(r, item).messages) = Len(r.messages)
          /\ Len(Read(r, item).statuses) = Len(r.statuses)
      BY <1>5, <1>6, <2>4
    <3> QED
      BY <1>1, <1>5, <1>6, <2>4, <3>1, OneMore
  <2>8. /\ Read(r, item).messages = r.messages \o Read(Unread, item).messages
        /\ Read(r, item).statuses = r.statuses \o Read(Unread, item).statuses
    BY <1>5, <1>6, <2>4, <2>5
  <2> QED
    BY <2>3, <2>6, <2>7, <2>8
<1> QED
  BY <1>7, <1>8, <1>9, <1>10

(* What is read after k items is what was read before with the k-th.       *)
LEMMA ReadingRuns ==
  ASSUME NEW items \in AllBatches
  PROVE  \E g : /\ g[0] = Unread
                /\ \A k \in Nat : k < Len(items) => g[k + 1] = Read(g[k], items[k + 1])
                /\ ReadEach(items) = g[Len(items)]
<1> DEFINE
  n == Len(items)
  Body(f) == [s \in SUBSET (DOMAIN items) |->
                IF s = {} THEN Unread ELSE Read(f[s \ {Max(s)}], items[Max(s)])]
  iter == CHOOSE f : f = Body(f)
<1>1. ReadEach(items) = iter[DOMAIN items]
  BY DEF ReadEach, FoldLeft, MapThenFoldSet
<1>2. n \in Nat /\ DOMAIN items = 1..n /\ \A i \in 1..n : items[i] \in AllItems
  BY DEF AllBatches
<1>3. \E f : f = Body(f)
  <2>1. PICK step \in Steps(n, Results) :
          \A r \in Results, i \in 1..n : step[<<r, i>>] = Read(r, items[i])
    <3> DEFINE stp == [ri \in Results \X (1..n) |-> Read(ri[1], items[ri[2]])]
    <3>1. \A r \in Results, i \in 1..n : Read(r, items[i]) \in Results
      BY <1>2, ReadAdds
    <3>2. stp \in [Results \X (1..n) -> Results]
      BY <3>1
    <3>3. \A r \in Results, i \in 1..n : stp[<<r, i>>] = Read(r, items[i])
      OBVIOUS
    <3> HIDE DEF stp
    <3> QED
      BY <3>2, <3>3 DEF Steps
  <2>2. PICK f : Folds(f, n, Results, Unread, step)
    BY <1>2, UnreadTyped, FoldExists
  <2>3. f = Body(f)
    BY <1>2, <2>1, <2>2 DEF Folds
  <2> QED
    BY <2>3
<1>4. iter = Body(iter)
  BY <1>3
<1> HIDE DEF iter
<1> DEFINE g == [k \in 0..n |-> iter[1..k]]
<1>5. g[0] = Unread
  BY <1>2, <1>4
<1>6. \A k \in Nat : k < n => g[k + 1] = Read(g[k], items[k + 1])
  <2> SUFFICES ASSUME NEW k \in Nat, k < n PROVE g[k + 1] = Read(g[k], items[k + 1])
    OBVIOUS
  <2>1. /\ 1..(k + 1) \in SUBSET (1..n) /\ 1..(k + 1) # {}
        /\ Max(1..(k + 1)) = k + 1 /\ (1..(k + 1)) \ {k + 1} = 1..k
    BY <1>2, FirstMany
  <2>2. k \in 0..n /\ k + 1 \in 0..n /\ k + 1 \in 1..n
    BY <1>2
  <2>3. iter[1..(k + 1)] = Read(iter[1..k], items[k + 1])
    BY <1>2, <1>4, <2>1, <2>2
  <2> QED
    BY <2>2, <2>3
<1>7. ReadEach(items) = g[n]
  BY <1>1, <1>2
<1> HIDE DEF g
<1> QED
  BY <1>5, <1>6, <1>7

(* A batch of one.                                                         *)
LEMMA OneRead ==
  ASSUME NEW item \in AllItems
  PROVE  /\ ErrorRaises(item) => ReadAll(<<item>>).raises
         /\ ~ ErrorRaises(item) => ReadAll(<<item>>) = Read(Unread, item)
<1>1. /\ <<item>> \in AllBatches /\ Len(<<item>>) = 1 /\ <<item>>[1] = item
      /\ ToSet(<<item>>) = {item}
  BY DEF AllBatches, ToSet
<1>2. PICK g : /\ g[0] = Unread
               /\ \A k \in Nat : k < Len(<<item>>) => g[k + 1] = Read(g[k], <<item>>[k + 1])
               /\ ReadEach(<<item>>) = g[Len(<<item>>)]
  BY <1>1, ReadingRuns
<1>3. g[0 + 1] = Read(g[0], <<item>>[0 + 1])
  BY <1>1, <1>2
<1>4. ReadEach(<<item>>) = Read(Unread, item)
  BY <1>1, <1>2, <1>3
<1> QED
  BY <1>1, <1>4 DEF ReadAll, Unread

(* Two rows that add the same, each to what came before, are one.          *)
Adding(h, seqs, n) ==
  \A i \in 1..n : h[i] = IF i = 1 THEN seqs[i] ELSE h[i - 1] \o seqs[i]

LEMMA OneRow ==
  ASSUME NEW n \in Nat, NEW seqs, NEW f, NEW g, Adding(f, seqs, n), Adding(g, seqs, n)
  PROVE  \A i \in 1..n : f[i] = g[i]
<1> DEFINE G == {k \in Nat : k \in 1..n => f[k] = g[k]}
<1>1. 0 \in G
  OBVIOUS
<1>2. ASSUME NEW k \in Nat, k < n, k \in G PROVE k + 1 \in G
  <2>1. k + 1 \in 1..n /\ (k # 0 => k \in 1..n /\ k + 1 # 1 /\ k + 1 - 1 = k)
    BY <1>2
  <2>2. /\ f[k + 1] = IF k + 1 = 1 THEN seqs[k + 1] ELSE f[k] \o seqs[k + 1]
        /\ g[k + 1] = IF k + 1 = 1 THEN seqs[k + 1] ELSE g[k] \o seqs[k + 1]
    BY <2>1 DEF Adding
  <2> QED
    BY <1>2, <2>1, <2>2
<1> HIDE DEF G
<1>3. \A k \in 0..n : k \in G
  BY <1>1, <1>2, SetInduction
<1> QED
  BY <1>3 DEF G

(* A function that adds a sequence at each place ends as their             *)
(* concatenation.                                                          *)
LEMMA Flattening ==
  ASSUME NEW n \in Nat, n > 0, NEW seqs, Len(seqs) = n,
         NEW f, f = [i \in 1..n |-> f[i]], Adding(f, seqs, n)
  PROVE  FlattenSeq(seqs) = f[n]
<1> DEFINE
  Body(h) == [i \in 1..n |-> IF i = 1 THEN seqs[i] ELSE h[i - 1] \o seqs[i]]
  flat == CHOOSE h : h = Body(h)
<1>1. FlattenSeq(seqs) = flat[n]
  BY DEF FlattenSeq
<1>2. \E h : h = Body(h)
  <2>1. f = Body(f)
    BY DEF Adding
  <2> HIDE DEF Body
  <2> QED
    BY <2>1
<1>3. flat = Body(flat)
  BY <1>2
<1> HIDE DEF flat
<1>4. Adding(flat, seqs, n)
  BY <1>3 DEF Adding
<1> HIDE DEF Body
<1>5. \A i \in 1..n : f[i] = flat[i]
  BY <1>4, OneRow
<1> QED
  BY <1>1, <1>5

(* What has been read after k items is what those gave one by one.         *)
LEMMA ReadSoFar ==
  ASSUME NEW items \in AllBatches,
         NEW g, g[0] = Unread,
         \A k \in Nat : k < Len(items) => g[k + 1] = Read(g[k], items[k + 1])
  PROVE  \A k \in 0..Len(items) : g[k] \in Results /\ Counted(g[k]) = k
<1> DEFINE
  n == Len(items)
  G == {k \in Nat : k <= n => g[k] \in Results /\ Counted(g[k]) = k}
<1>1. n \in Nat /\ \A i \in 1..n : items[i] \in AllItems
  BY DEF AllBatches
<1>2. 0 \in G
  <2>1. Counted(Unread) = 0
    BY DEF Counted, Unread
  <2> QED
    BY <2>1, UnreadTyped
<1>3. ASSUME NEW k \in Nat, k < n, k \in G PROVE k + 1 \in G
  <2>1. k + 1 \in 1..n /\ g[k] \in Results /\ Counted(g[k]) = k
    BY <1>1, <1>3
  <2>2. g[k + 1] = Read(g[k], items[k + 1]) /\ items[k + 1] \in AllItems
    BY <1>1, <1>3, <2>1
  <2>3. /\ Read(g[k], items[k + 1]) \in Results
        /\ Counted(Read(g[k], items[k + 1])) = Counted(g[k]) + 1
    BY <2>1, <2>2, ReadAdds
  <2>4. g[k + 1] \in Results /\ Counted(g[k + 1]) = k + 1
    BY <2>1, <2>2, <2>3
  <2> QED
    BY <2>4
<1> HIDE DEF G
<1>4. \A k \in 0..n : k \in G
  BY <1>1, <1>2, <1>3, SetInduction
<1> QED
  BY <1>1, <1>4 DEF G

(* The concatenation of what each item gives alone.                        *)
LEMMA Concatenation ==
  ASSUME NEW n \in Nat, NEW f, NEW seqs, f[0] = <<>>,
         seqs = [i \in 1..n |-> seqs[i]],
         \A i \in 1..n : <<>> \o seqs[i] = seqs[i],
         \A k \in Nat : k < n => f[k + 1] = f[k] \o seqs[k + 1]
  PROVE  FlattenSeq(seqs) = f[n]
<1> DEFINE h == [i \in 1..n |-> f[i]]
<1>1. Len(seqs) = n
  OBVIOUS
<1>2. CASE n = 0
  <2>1. seqs = <<>>
    BY <1>2
  <2>2. FlattenSeq(seqs) = seqs
    BY <1>1, <1>2 DEF FlattenSeq
  <2> QED
    BY <1>2, <2>1, <2>2
<1>3. CASE n > 0
  <2>1. Adding(h, seqs, n)
    <3> SUFFICES ASSUME NEW i \in 1..n
                 PROVE  h[i] = IF i = 1 THEN seqs[i] ELSE h[i - 1] \o seqs[i]
      BY DEF Adding
    <3>1. i - 1 \in Nat /\ i - 1 < n /\ i - 1 + 1 = i
      OBVIOUS
    <3>2. f[i] = f[i - 1] \o seqs[i]
      BY <3>1
    <3>3. CASE i = 1
      <4>1. f[i - 1] = <<>> /\ <<>> \o seqs[i] = seqs[i]
        BY <3>3
      <4> QED
        BY <3>2, <3>3, <4>1
    <3>4. CASE i # 1
      <4>1. i - 1 \in 1..n
        BY <3>4
      <4> QED
        BY <3>2, <3>4, <4>1
    <3> QED
      BY <3>3, <3>4
  <2>2. h = [i \in 1..n |-> h[i]]
    OBVIOUS
  <2>3. h[n] = f[n]
    BY <1>3
  <2> HIDE DEF h
  <2>4. FlattenSeq(seqs) = h[n]
    BY <1>1, <1>3, <2>1, <2>2, Flattening
  <2> QED
    BY <2>3, <2>4
<1> QED
  BY <1>2, <1>3

(* Two items the ledger takes for one are one, or two steps of a message's *)
(* status that are the same.                                               *)
LEMMA KeysTell ==
  ASSUME NEW i \in AllItems, NEW j \in AllItems,
         Parsed(i), Parsed(j), KeyOf(i) = KeyOf(j)
  PROVE  /\ i.is = j.is /\ i.id = j.id
         /\ i.is = "status" => i.type = j.type
         /\ i.id = "none" => i = j
<1>1. \A x \in AllItems : Parsed(x) =>
        \/ x.is = "message" /\ x.id = "none" /\ KeyOf(x) = <<"msg", x>>
        \/ x.is = "message" /\ x.id # "none" /\ KeyOf(x) = <<x.id>>
        \/ x.is = "status" /\ x.id # "none" /\ KeyOf(x) = <<x.id, ":", x.type>>
  BY DEF Parsed, KeyOf, ParseMessage, ParseStatus, StatusIsKnown
<1>2. /\ \A a : Len(<<a>>) = 1 /\ <<a>>[1] = a
      /\ \A a, b : Len(<<a, b>>) = 2 /\ <<a, b>>[2] = b
      /\ \A a, b, c : Len(<<a, b, c>>) = 3 /\ <<a, b, c>>[1] = a /\ <<a, b, c>>[3] = c
  OBVIOUS
<1>3. \A x \in AllItems : Parsed(x) =>
        \/ x.is = "message" /\ x.id = "none" /\ Len(KeyOf(x)) = 2 /\ KeyOf(x)[2] = x
        \/ x.is = "message" /\ x.id # "none" /\ Len(KeyOf(x)) = 1 /\ KeyOf(x)[1] = x.id
        \/ /\ x.is = "status" /\ x.id # "none" /\ Len(KeyOf(x)) = 3
           /\ KeyOf(x)[1] = x.id /\ KeyOf(x)[3] = x.type
  <2> SUFFICES ASSUME NEW x \in AllItems, Parsed(x)
               PROVE  \/ x.is = "message" /\ x.id = "none" /\ Len(KeyOf(x)) = 2 /\ KeyOf(x)[2] = x
                      \/ x.is = "message" /\ x.id # "none" /\ Len(KeyOf(x)) = 1 /\ KeyOf(x)[1] = x.id
                      \/ /\ x.is = "status" /\ x.id # "none" /\ Len(KeyOf(x)) = 3
                         /\ KeyOf(x)[1] = x.id /\ KeyOf(x)[3] = x.type
    OBVIOUS
  <2>1. CASE x.is = "message" /\ x.id = "none" /\ KeyOf(x) = <<"msg", x>>
    BY <1>2, <2>1
  <2>2. CASE x.is = "message" /\ x.id # "none" /\ KeyOf(x) = <<x.id>>
    BY <1>2, <2>2
  <2>3. CASE x.is = "status" /\ x.id # "none" /\ KeyOf(x) = <<x.id, ":", x.type>>
    BY <1>2, <2>3
  <2> QED
    BY <1>1, <2>1, <2>2, <2>3
<1>4. PICK k : k = KeyOf(i) /\ k = KeyOf(j)
  OBVIOUS
<1>5. /\ \/ i.is = "message" /\ i.id = "none" /\ Len(k) = 2 /\ k[2] = i
         \/ i.is = "message" /\ i.id # "none" /\ Len(k) = 1 /\ k[1] = i.id
         \/ i.is = "status" /\ i.id # "none" /\ Len(k) = 3 /\ k[1] = i.id /\ k[3] = i.type
      /\ \/ j.is = "message" /\ j.id = "none" /\ Len(k) = 2 /\ k[2] = j
         \/ j.is = "message" /\ j.id # "none" /\ Len(k) = 1 /\ k[1] = j.id
         \/ j.is = "status" /\ j.id # "none" /\ Len(k) = 3 /\ k[1] = j.id /\ k[3] = j.type
  BY <1>3, <1>4
<1>6. /\ ~ (Len(k) = 1 /\ Len(k) = 2) /\ ~ (Len(k) = 1 /\ Len(k) = 3)
      /\ ~ (Len(k) = 2 /\ Len(k) = 3)
  OBVIOUS
<1> QED
  BY <1>5, <1>6

(* Where no account error raises, of any batch the parser makes what its   *)
(* items give alone, in their order, and no item is lost, counted twice or *)
(* taken for another.                                                      *)
LEMMA QuietBatchSurvives ==
  ASSUME NEW items \in AllBatches, \A i \in DOMAIN items : ~ ErrorRaises(items[i])
  PROVE  LET all == ReadEach(items)
             one(i) == ReadAll(<<items[i]>>)
         IN /\ ~ all.raises /\ \A i \in DOMAIN items : ~ one(i).raises
            /\ Len(all.messages) + Len(all.statuses) + all.errors + all.malformed = Len(items)
            /\ all.messages = FlattenSeq([i \in DOMAIN items |-> one(i).messages])
            /\ all.statuses = FlattenSeq([i \in DOMAIN items |-> one(i).statuses])
<1> DEFINE
  n == Len(items)
  one(i) == ReadAll(<<items[i]>>)
<1>1. n \in Nat /\ DOMAIN items = 1..n /\ \A i \in 1..n : items[i] \in AllItems
  BY DEF AllBatches
<1>2. PICK g : /\ g[0] = Unread
               /\ \A k \in Nat : k < n => g[k + 1] = Read(g[k], items[k + 1])
               /\ ReadEach(items) = g[n]
  BY ReadingRuns
<1>3. \A k \in 0..n : g[k] \in Results /\ Counted(g[k]) = k
  BY <1>2, ReadSoFar
<1>4. \A i \in 1..n : one(i) = Read(Unread, items[i]) /\ one(i) \in Results
  BY <1>1, OneRead, ReadAdds, UnreadTyped
<1>5. ASSUME NEW k \in Nat, k < n
      PROVE  /\ g[k + 1].messages = g[k].messages \o one(k + 1).messages
             /\ g[k + 1].statuses = g[k].statuses \o one(k + 1).statuses
             /\ g[k + 1].raises = g[k].raises
  <2>1. k \in 0..n /\ k + 1 \in 1..n
    BY <1>1, <1>5
  <2>2. g[k + 1] = Read(g[k], items[k + 1]) /\ one(k + 1) = Read(Unread, items[k + 1])
    BY <1>2, <1>4, <1>5, <2>1
  <2> HIDE DEF one
  <2>3. /\ Read(g[k], items[k + 1]).messages
             = g[k].messages \o Read(Unread, items[k + 1]).messages
        /\ Read(g[k], items[k + 1]).statuses
             = g[k].statuses \o Read(Unread, items[k + 1]).statuses
        /\ Read(g[k], items[k + 1]).raises = g[k].raises
    BY <1>1, <1>3, <2>1, ReadAdds
  <2> QED
    BY <2>2, <2>3
<1>6. Len(g[n].messages) + Len(g[n].statuses) + g[n].errors + g[n].malformed = n
  <2>1. n \in 0..n
    BY <1>1
  <2>2. Counted(g[n]) = n
    BY <1>3, <2>1
  <2> QED
    BY <2>2 DEF Counted
<1> HIDE DEF one, n
<1>7. g[n].messages = FlattenSeq([i \in 1..n |-> one(i).messages])
  <2> DEFINE
    f == [k \in 0..n |-> g[k].messages]
    each == [i \in 1..n |-> one(i).messages]
    M == {ParseMessage(i) : i \in AllItems}
  <2>1. f[0] = <<>>
    BY <1>1, <1>2 DEF Unread
  <2>2. \A i \in 1..n : <<>> \o each[i] = each[i]
    <3>1. \A i \in 1..n : each[i] \in Seq(M)
      BY <1>4 DEF Results
    <3>2. \A q \in Seq(M) : <<>> \o q = q
      OBVIOUS
    <3> HIDE DEF each, M
    <3> QED
      BY <3>1, <3>2
  <2>3. \A k \in Nat : k < n => f[k + 1] = f[k] \o each[k + 1]
    <3> SUFFICES ASSUME NEW k \in Nat, k < n PROVE f[k + 1] = f[k] \o each[k + 1]
      OBVIOUS
    <3>1. k \in 0..n /\ k + 1 \in 0..n /\ k + 1 \in 1..n
      BY <1>1
    <3>2. g[k + 1].messages = g[k].messages \o one(k + 1).messages
      BY <1>5
    <3> QED
      BY <3>1, <3>2
  <2>4. f[n] = g[n].messages /\ each = [i \in 1..n |-> each[i]]
    BY <1>1
  <2> HIDE DEF f, each, M
  <2>5. FlattenSeq(each) = f[n]
    BY <1>1, <2>1, <2>2, <2>3, <2>4, Concatenation
  <2> QED
    BY <2>4, <2>5 DEF each
<1>8. g[n].statuses = FlattenSeq([i \in 1..n |-> one(i).statuses])
  <2> DEFINE
    f == [k \in 0..n |-> g[k].statuses]
    each == [i \in 1..n |-> one(i).statuses]
    S == {ParseStatus(i) : i \in AllItems}
  <2>1. f[0] = <<>>
    BY <1>1, <1>2 DEF Unread
  <2>2. \A i \in 1..n : <<>> \o each[i] = each[i]
    <3>1. \A i \in 1..n : each[i] \in Seq(S)
      BY <1>4 DEF Results
    <3>2. \A q \in Seq(S) : <<>> \o q = q
      OBVIOUS
    <3> HIDE DEF each, S
    <3> QED
      BY <3>1, <3>2
  <2>3. \A k \in Nat : k < n => f[k + 1] = f[k] \o each[k + 1]
    <3> SUFFICES ASSUME NEW k \in Nat, k < n PROVE f[k + 1] = f[k] \o each[k + 1]
      OBVIOUS
    <3>1. k \in 0..n /\ k + 1 \in 0..n /\ k + 1 \in 1..n
      BY <1>1
    <3>2. g[k + 1].statuses = g[k].statuses \o one(k + 1).statuses
      BY <1>5
    <3> QED
      BY <3>1, <3>2
  <2>4. f[n] = g[n].statuses /\ each = [i \in 1..n |-> each[i]]
    BY <1>1
  <2> HIDE DEF f, each, S
  <2>5. FlattenSeq(each) = f[n]
    BY <1>1, <2>1, <2>2, <2>3, <2>4, Concatenation
  <2> QED
    BY <2>4, <2>5 DEF each
<1>9. ~ g[n].raises /\ \A i \in 1..n : ~ one(i).raises
  <2> DEFINE G == {k \in Nat : k <= n => g[k].raises = FALSE}
  <2>1. 0 \in G
    BY <1>2 DEF Unread
  <2>2. ASSUME NEW k \in Nat, k < n, k \in G PROVE k + 1 \in G
    <3>1. g[k].raises = FALSE
      BY <1>1, <2>2
    <3>2. g[k + 1].raises = FALSE
      BY <1>5, <2>2, <3>1
    <3> QED
      BY <3>2
  <2> HIDE DEF G
  <2>3. n \in G
    <3>1. \A k \in 0..n : k \in G
      BY <1>1, <2>1, <2>2, SetInduction
    <3> QED
      BY <1>1, <3>1
  <2>4. \A i \in 1..n : one(i).raises = FALSE
    <3>1. \A i \in 1..n : Read(Unread, items[i]).raises = Unread.raises
      BY <1>1, UnreadTyped, ReadAdds
    <3> QED
      BY <1>4, <3>1 DEF Unread
  <2>5. g[n].raises = FALSE
    BY <1>1, <2>3 DEF G
  <2> QED
    BY <2>4, <2>5
<1> QED
  BY <1>1, <1>2, <1>6, <1>7, <1>8, <1>9, Zenon DEF one, n

(* Of any batch the parser makes what its items give alone, unless an      *)
(* account error raises, and then it makes nothing of any; nothing else    *)
(* raises, and no item is taken for another.                               *)
THEOREM EveryBatchSurvives == \A items \in AllBatches : BatchSurvives(items)
<1> SUFFICES ASSUME NEW items \in AllBatches PROVE BatchSurvives(items)
  OBVIOUS
<1> DEFINE
  n == Len(items)
  one(i) == ReadAll(<<items[i]>>)
<1>1. /\ n \in Nat /\ DOMAIN items = 1..n /\ \A i \in 1..n : items[i] \in AllItems
      /\ ToSet(items) = {items[i] : i \in 1..n}
  BY DEF AllBatches, ToSet
<1>2. \A i \in 1..n : ErrorRaises(items[i]) => items[i].is = "error" /\ one(i).raises
  BY <1>1, OneRead DEF ErrorRaises
<1>3. \A i, j \in ToSet(items) :
        Parsed(i) /\ Parsed(j) /\ KeyOf(i) = KeyOf(j) =>
          /\ i.is = j.is /\ i.id = j.id
          /\ i.is = "status" => i.type = j.type
          /\ i.id = "none" => i = j
  BY <1>1, KeysTell
<1>4. CASE \E i \in 1..n : ErrorRaises(items[i])
  <2>1. ReadAll(items).raises = TRUE
    BY <1>1, <1>4 DEF ReadAll, Unread
  <2> QED
    BY <1>1, <1>2, <1>3, <1>4, <2>1, Zenon DEF BatchSurvives, one
<1>5. CASE \A i \in 1..n : ~ ErrorRaises(items[i])
  <2>1. ReadAll(items) = ReadEach(items)
    BY <1>1, <1>5 DEF ReadAll
  <2>2. /\ ~ ReadAll(items).raises /\ \A i \in DOMAIN items : ~ one(i).raises
        /\ Len(ReadAll(items).messages) + Len(ReadAll(items).statuses)
             + ReadAll(items).errors + ReadAll(items).malformed = Len(items)
        /\ ReadAll(items).messages = FlattenSeq([i \in DOMAIN items |-> one(i).messages])
        /\ ReadAll(items).statuses = FlattenSeq([i \in DOMAIN items |-> one(i).statuses])
    BY <1>1, <1>5, <2>1, QuietBatchSurvives
  <2> QED
    BY <1>3, <2>2, Zenon DEF BatchSurvives, one
<1> QED
  BY <1>4, <1>5

(* So do those of a run.                                                   *)
THEOREM BatchesAlwaysSurvive == Spec => []BatchesSurvive
<1>1. BatchesSurvive
  BY EveryBatchSurvives, MessageTurnAssumption DEF BatchesSurvive
<1> QED
  BY <1>1, PTL
================================================================================
