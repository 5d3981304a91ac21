SPECIFICATION Spec
CONSTANTS
    s1 = s1  s2 = s2  s3 = s3
    Slot = {s1, s2, s3}
    Text = {1}
    Callback = {1, 2}
    ExitCode = {0, 2}
    GetProp = {"fs", "args"}
    SetProp = {"result"}
    Method = {"_makeFuncWrapper"}
    Index = {1}
    Written <- Nulls
    Count = {1}
    IdBound = 11
    CallBound = 2
SYMMETRY Symmetry
INVARIANTS TypeOK RefsKeepMeaning LockFreeForGuest EventsStayOwn
CHECK_DEADLOCK FALSE
