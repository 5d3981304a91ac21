SPECIFICATION Spec
CONSTANTS
    Bits = 5  Group = 2  Area = 48
    InvokeNames <- MCInvokeNames
    Signature <- MCSignature
    Case <- MCCase
    SourceOf <- MCSourceOf
INVARIANTS StaysValid ImportsAnswered StartRunsProgram NumbersKept ArgumentsReadBack
CHECK_DEADLOCK FALSE
