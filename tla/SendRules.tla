------------------------------- MODULE SendRules -------------------------------
(***************************************************************************)
(* The deterministic rules of consent and sending, as operators.           *)
(*                                                                         *)
(*   app/domain/rules.py           keywords, schedule, eligibility         *)
(*   app/domain/config_schema.py   what a loaded configuration satisfies   *)
(*   app/core/config_loader.py     AppConfig                               *)
(*                                                                         *)
(* A text is a sequence of tokens, and a token the sequence of words that  *)
(* its normalisation leaves: none for an emoji, one for "STOP!", two for   *)
(* "don't".  A moment is a number of time units since a midnight, of which *)
(* a day has Day; the units are those of the business's time zone.         *)
(*                                                                         *)
(* An operator whose name has an underscore is a plausible wrong version   *)
(* of the definition that follows it.                                      *)
(***************************************************************************)
EXTENDS Integers, Sequences, FiniteSetsExt, SequencesExt

CONSTANTS
  Day,               \* units of time in a day
  MaxOptOutWords     \* a longer text holds no command (MAX_OPTOUT_WORDS)

ASSUME SendRulesAssumption == Day \in Nat \ {0} /\ MaxOptOutWords \in Nat
--------------------------------------------------------------------------------
(***************************************************************************)
(* Keywords.                                                               *)
(***************************************************************************)
(* normalise_keyword_text: punctuation becomes a space, so "don't stop"    *)
(* is three words.                                                         *)
Normalise(text) == FlattenSeq(text)

(* The candidate as whole, adjacent words.                                 *)
Contained(phrase, words) ==
  \E i \in 0..Len(words) - Len(phrase) :
    SubSeq(words, i + 1, i + Len(phrase)) = phrase

(* A keyword of punctuation only never matches.                            *)
Matches(text, keywords) ==
  LET words == Normalise(text)
  IN /\ words # <<>>
     /\ \E k \in keywords :
          /\ Normalise(k) # <<>>
          /\ \/ words = Normalise(k)
             \/ Len(words) <= MaxOptOutWords /\ Contained(Normalise(k), words)

(* A request for a person counts in a text of any length.                  *)
AsksForPerson(text, keywords) ==
  \E k \in keywords : Normalise(k) # <<>> /\ Contained(Normalise(k), Normalise(text))

(* classify_deterministic: stop words first, then opt-in, then a person.   *)
KeywordIntent(text, bot) ==
  IF Matches(text, bot.stop) THEN "OPT_OUT"
  ELSE IF Matches(text, bot.start) THEN "OPT_IN"
  ELSE IF AsksForPerson(text, bot.person) THEN "HUMAN_AGENT_REQUEST"
  ELSE "NONE"
--------------------------------------------------------------------------------
(***************************************************************************)
(* The schedule.                                                           *)
(***************************************************************************)
TimeOfDay(m) == m % Day

(* Quiet hours may cross midnight; equal ends are an empty window.         *)
WithinQuietHours_NoWrap(m, quiet) ==
  quiet.enabled /\ quiet.start <= TimeOfDay(m) /\ TimeOfDay(m) < quiet.end
WithinQuietHours(m, quiet) ==
  LET t == TimeOfDay(m)
  IN quiet.enabled /\ IF quiet.start <= quiet.end
                      THEN quiet.start <= t /\ t < quiet.end
                      ELSE t >= quiet.start \/ t < quiet.end

NextAllowedSendTime(m, quiet) ==
  LET candidate == m - TimeOfDay(m) + quiet.end
  IN IF ~ WithinQuietHours(m, quiet) THEN m
     ELSE IF candidate <= m THEN candidate + Day ELSE candidate

--------------------------------------------------------------------------------
(***************************************************************************)
(* The gate: evaluate_send_eligibility, over a configuration               *)
(*   [quiet, campaigns, languages, templates]                              *)
(* and a template [language, status, category, requires].  Its first       *)
(* refusal decides.  The consent purpose it also looks at can only be      *)
(* MARKETING or absent (check_eligibility asks for no other).              *)
(***************************************************************************)
NoTemplate == [language |-> "none", status |-> "PENDING", category |-> "UTILITY",
               requires |-> TRUE]

NeedsOptIn(t) == t.category = "MARKETING" \/ t.requires

Decision_NoQuiet(cfg, t, status, suppressed, already, now) ==
  IF suppressed \/ status \in {"OPTED_OUT", "SUPPRESSED"} \/ ~ cfg.campaigns \/ already
       \/ t.status # "APPROVED" \/ (NeedsOptIn(t) /\ status # "OPTED_IN") THEN "denied" ELSE "ok"
Decision(cfg, t, status, suppressed, already, now) ==
  IF suppressed THEN "suppressed"
  ELSE IF status \in {"OPTED_OUT", "SUPPRESSED"} THEN "opted_out"
  ELSE IF ~ cfg.campaigns THEN "campaigns_disabled"
  ELSE IF already THEN "duplicate"
  ELSE IF t = NoTemplate THEN "no_template"
  ELSE IF t.status # "APPROVED" THEN "template_not_approved"
  ELSE IF NeedsOptIn(t) /\ status # "OPTED_IN" THEN "no_opt_in"
  ELSE IF t.language \notin cfg.languages THEN "unsupported_language"
  ELSE IF WithinQuietHours(now, cfg.quiet) THEN "quiet_hours"
  ELSE "ok"

(* Of the entries of a name the registry's first is taken, whatever its    *)
(* language.                                                               *)
TemplateOf(cfg) == IF cfg.templates = <<>> THEN NoTemplate ELSE Head(cfg.templates)
Sendable(t) == t # NoTemplate /\ t.status = "APPROVED"

(* What AppConfig.load accepts; a process does not start with another.     *)
ConfigValid(cfg) ==
  /\ IsInjective([i \in DOMAIN cfg.templates |-> cfg.templates[i].language])
  /\ \A t \in ToSet(cfg.templates) :
       /\ t.category = "MARKETING" => t.requires
       /\ t.language \in cfg.languages
================================================================================
