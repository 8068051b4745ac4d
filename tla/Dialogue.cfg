SPECIFICATION Spec
CONSTANTS
    d1 = d1
    d2 = d2
    srv = srv
    tool = tool
    Dialogues <- MCDialogues
    Handles <- MCHandles
    Receipts <- MCReceipts
    KeyOf <- MCKeyOf
    Server = srv
    Paths = {"pa", "pb"}
    ServerPath = "pa"
    Words = {"w"}
    MaxPrompt = 1
    MaxTurn = 1
    Width = 2
    MaxUnits = 12
    MaxFaults = 1
    MaxTools = 2
    Existing <- MCExisting
SYMMETRY MCSymmetry
INVARIANTS LedgerExact Converge Attested
CHECK_DEADLOCK FALSE
