SPECIFICATION Spec
CONSTANTS
    MaxDepth = 1  StackSize = 2
    PageSize = 4  AddressSpace = 16  MaxPages = 3
    Requests = {5, 9, 12, 13, 15}
INVARIANTS TargetIsCeiling
CHECK_DEADLOCK FALSE
