SPECIFICATION NetSpec
CONSTANTS
  Protocols = {"garner", "swarm"}
  w1 = w1
  w2 = w2
  Conn = {w1, w2}
  Remote <- MCRemote
  Block <- MCBlock
  Via <- MCVia
  Absent = Absent
  Unknown = Unknown
  a = a
  b = b
  c = c
  x = x
  e = e
  nobody = nobody
  other = other
  NoText = NoText
  Cut = Cut
  Node = {a, b, c}
  Addr = {x, e}
  Roster <- MCRoster
  Peers <- MCPeers
  Stored <- MCStored
  Own <- MCOwn
  MaxFailures = 1
  Key = {}
  Data = {"x"}
  None = "none"
  MaxBatch = 1
  MaxCalls = 0
  MaxConn = 0
  Off = {}
  NoOff = NoOff
  Blank = "x"
  Hash <- MCNobody
  nslot = 1
  hcap = 2
INVARIANTS NoneStranded UsedOnce OnlyAccepted
PROPERTIES Settles Replicates Obtains
CHECK_DEADLOCK FALSE
