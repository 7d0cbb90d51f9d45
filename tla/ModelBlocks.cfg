SPECIFICATION BoundedSpec
CONSTANTS
    Block = {"kIf", "kSwitch"}
    Plain = {"kCall", "kReturn", "kCoYield"}
    Place = {"p"}
    MaxMessages = 7
INVARIANTS OwnBlockStands ClosedBlocksHoldWork MessagesAreBracketed
PROPERTIES RecordedWorkStays FinalizePrunes
CHECK_DEADLOCK FALSE
