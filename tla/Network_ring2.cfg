SPECIFICATION NetSpec
CONSTANTS
  Protocols = {"ring2", "disk"}
  w1 = w1
  w2 = w2
  Conn = {}
  Remote <- MCNobody
  Block = {}
  Via <- MCNobody
  Absent = Absent
  Unknown = Unknown
  a = a
  b = b
  c = c
  x = x
  e = e
  nobody = nobody
  other = other
  NoText = NoText
  Cut = Cut
  Node = {}
  Addr = {}
  Roster <- MCNobody
  Peers <- MCNobody
  Stored = {}
  Own <- MCNobody
  MaxFailures = 0
  Key = {"k"}
  Data = {"x", "y"}
  None = "none"
  MaxBatch = 2
  MaxCalls = 3
  MaxConn = 2
  Off <- MCOff
  NoOff = NoOff
  Blank = "x"
  Hash <- MCHash
  nslot = 3
  hcap = 8
INVARIANTS ReadsWhatWasWritten CacheExact
PROPERTIES CallsReturn ImplementsLru
CHECK_DEADLOCK FALSE
