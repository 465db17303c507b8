\* A customer told of an unsubscription nobody recorded.
SPECIFICATION Spec
CONSTANTS
  Day = 3
  MaxOptOutWords = 4
  MaxChunk = 5
  MinChunk = 2
  MaxContext = 8
  TopK = 2
  Top = 3
  ReplyAt = 2
  EscalateAt = 1
  EnabledIntents = {"GREETING", "PRICING_INQUIRY", "SUPPORT_REQUEST", "COMPLAINT", "OPT_IN", "OPT_OUT", "HUMAN_AGENT_REQUEST", "CANCELLATION", "UNKNOWN"}
  EmergencyText = TRUE
  Supported = {"text", "interactive_list_reply", "location"}
  Payloads <- MCPayloads
  Bot <- MCBot
  Injections <- MCInjections
  Facts <- MCFacts
  Files <- MCFiles
  Texts <- MCTexts
  Batches <- MCBatches
  Providers = {"ollama", "deterministic"}
  RawAnswers <- MCRawAnswers
  Guesses <- MCGuesses
  MaxLlmRetries = 1
  MaxTries = 2
INVARIANT ToldIsUnsubscribed
