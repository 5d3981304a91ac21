SPECIFICATION FairSpec
CONSTANTS
    MaxDepth = 6  StackSize = 8
    PageSize = 4  AddressSpace = 16  MaxPages = 3
    Requests = {5, 9, 12, 13, 15}
INVARIANTS OwnStack ThrewMatchesReturn HeapBacked
PROPERTIES JumpSpec JumpLands
CHECK_DEADLOCK FALSE
