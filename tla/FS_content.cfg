SPECIFICATION Spec
CONSTANTS
    f1 = f1  f2 = f2
    unreadable = unreadable  x = x  z = z
    Nil = Nil  Unreadable = unreadable
    Byte = {x, z}  Zero = z
    File = {f1, f2}
    Path <- One  PathArg <- One
    Address = {a1}
    MaxFilesystemBytes = 2  MaxOpenFiles = 5
    MaxFD = 4  MaxInt64 = 3  FdBound = 5  SeekBound = 4
    FdArg = {3}  NewFdArg = {}
    AppendArg = {TRUE, FALSE}  OpenMode <- DataModes  IOVecs <- DataVectors
    Size = {0, 1, 2}  Delta <- DataDeltas  MapRequest <- WideRequests
SYMMETRY Symmetry
INVARIANTS TypeOK QuotaExact RefsCoverHolders
PROPERTIES AppendKeepsContent FailureIsClean LeakOnlyByClobber MunmapAllOrNothing LedgerSpec
           WritesEndAtOffset
CHECK_DEADLOCK FALSE
