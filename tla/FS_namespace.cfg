SPECIFICATION Spec
CONSTANTS
    f1 = f1  f2 = f2
    unreadable = unreadable  x = x  z = z
    Nil = Nil  Unreadable = unreadable
    Byte = {x, z}  Zero = z
    File = {f1, f2}
    Path <- Nested  PathArg <- NestedArg
    Address = {}
    MaxFilesystemBytes = 2  MaxOpenFiles = 5
    MaxFD = 5  MaxInt64 = 7  FdBound = 5  SeekBound = 0
    FdArg <- DupFds  NewFdArg = {0, 5}
    AppendArg = {}  OpenMode <- NameModes  IOVecs <- NoVectors
    Size <- DupSizes  Delta = {}  MapRequest <- NoRequests
SYMMETRY Symmetry
INVARIANTS QuotaExact RefsCoverHolders LinkedIffNamed DescriptorLimit FilesHaveParents
PROPERTY LeakOnlyByClobber
