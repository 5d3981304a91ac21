SPECIFICATION Spec
CONSTANTS
    s1 = s1  s2 = s2  s3 = s3
    Slot = {s1, s2, s3}
    Text = {}
    Callback = {1}
    ExitCode = {0, 2}
    GetProp = {"fs"}
    SetProp = {}
    Method = {"_makeFuncWrapper"}
    Index = {}
    Written <- Nulls
    Count = {1}
    IdBound = 11
    CallBound = 1
PROPERTY ExitIsFinal
CHECK_DEADLOCK FALSE
