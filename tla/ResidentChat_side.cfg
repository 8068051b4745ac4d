SPECIFICATION SideSpec
CONSTANTS
  a = a
  b = b
  mem = mem
  MaxPrompt = 3
  Prompt <- MCPrompt
  Token <- MCToken
  AugHead <- MCAugHead
  AugLast <- MCAugLast
  SideText <- MCSideText
  Episode <- MCEpisode
  Kind = {"plain"}
  REWIND_BOUND = 2
  MaxTokens = 1
INVARIANTS PromptFidelity
