SPECIFICATION Spec
CONSTANTS
  Episodes <- MCEpisodes
  Secrets <- MCSecrets
  Gone = 0
  MinTokens = 2
  Spare = 3
  MaxTargets = 1
  Turns = {"t1", "t2"}
  Posts = {}
  Layers = 1
  Caller <- MCCaller
  Size = {0, 1, 2}
  MaxPayload = 1
  MaxNtt = 1
  MaxRounds = 2
  MaxTime = 4
  blue = blue
  green = green
  addr = addr
  None = None
  Fact <- MCFact
  Addr <- MCAddr
  Curated <- MCCurated
  Body <- MCBody
  MaxTurns = 2
  MaxEdits = 2
  MaxCrashes = 1
  Memory <- MCMemory
  Live = {green}
  Strict = {blue}
  Sidecar = {blue, green}
  NPos <- MCNPos
  NSecret = 2
  NHead = 1
  Jmax = 3
  JudgeK = 2
  JudgeR = 1
  Configs <- MCConfigs
  View <- MCView
  MaxDraft = 1
  Surface <- MCSurface
  Piped <- MCPiped
  Pmax = 6
  Prompt = {1, 3, 6, 7}
  Rail <- MCRail
  Thought <- MCThought
  MaxAnswer = 2
  N = 4
  QBits = 7
  Q1 = 97
  Q2 = 89
  QMax = 3
  Jobs <- MCJobs
  Setup <- MCSetup
  Parts = {"handle"}
INVARIANTS NoLateWrite
CHECK_DEADLOCK FALSE
