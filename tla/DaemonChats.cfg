SPECIFICATION Spec
CONSTANTS
    c1 = c1
    c2 = c2
    Chats <- MCChats
    Dialogues = {"d1"}
    Lanes = {"generic", "resident", "qwen36"}
    Delegating = TRUE
    MaxTokens = 2
    Room = 1
    MaxEvents = 1
    MaxReceipts = 1
SYMMETRY MCSymmetry
INVARIANTS NothingLeaks EndsAsTold MintedIsStored OneDecodes
CHECK_DEADLOCK FALSE
