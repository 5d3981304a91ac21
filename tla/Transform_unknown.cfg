SPECIFICATION Spec
CONSTANTS
    Bits = 5  Group = 2  Area = 48
    InvokeNames <- MCInvokeNames
    Signature <- MCSignature
    Case <- UnknownCase
    SourceOf <- MCSourceOf
INVARIANTS UnknownImportsKept
CHECK_DEADLOCK FALSE
