SPECIFICATION Spec
CONSTANTS
    a = a  b = b
    Fetcher = {a, b}
    Items = 3
    Quick = {1, 2}
    Unsafe = {3}
    MaxCrashes = 1
INVARIANTS TypeOK OutputsWhole DoneMeansInstalled NoLitter
PROPERTY Terminates
CHECK_DEADLOCK FALSE
