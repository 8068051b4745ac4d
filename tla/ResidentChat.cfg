SPECIFICATION Spec
CONSTANTS
  a = a
  b = b
  mem = mem
  MaxPrompt = 3
  Prompt <- MCPrompt
  Token <- MCToken
  AugHead <- MCAugHead
  AugLast <- MCAugLast
  SideText <- MCSideText
  Episode <- MCEpisode
  Kind = {"plain","single","frames","replay"}
  REWIND_BOUND = 2
  MaxTokens = 1
INVARIANTS AnswersPrompt RecordMatches
PROPERTY ServesFresh
