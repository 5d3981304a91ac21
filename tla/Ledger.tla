------------------------------- MODULE Ledger -------------------------------
(***************************************************************************)
(* What the in-memory filesystem promises about the bytes it keeps          *)
(* (README.md:19, "a bounded in-memory filesystem"; README.md:102, the      *)
(* maxFilesystemBytes limit): every file object, named or not, has a size,  *)
(* the sizes together never pass the quota, and one operation changes the   *)
(* size of at most one object.  The program keeps a running counter,        *)
(* fileSystem.bytes; here there is none, the total is counted afresh.       *)
(***************************************************************************)
EXTENDS Integers, FiniteSets

CONSTANTS
    File,    \* identities of file objects
    Quota    \* plugin.maxFilesystemBytes

\* What the facts of LedgerProofs take for granted.
LedgerAssumption == IsFiniteSet(File) /\ Quota \in Nat

VARIABLE size    \* size[f]: bytes of content held by file object f

-----------------------------------------------------------------------------
Sizes == [File -> 0..Quota]

\* One cell for each byte that is held, so that a total is a cardinality.
Cells(s) == {c \in File \X (1..Quota) : c[2] <= s[c[1]]}

Total(s) == Cardinality(Cells(s))

-----------------------------------------------------------------------------
Init == size = [f \in File |-> 0]

\* A file object grows, shrinks, or is released (n = 0), within the quota.
Resize(f, n) ==
    /\ size' = [size EXCEPT ![f] = n]
    /\ Total(size') <= Quota

Next == \E f \in File, n \in 0..Quota : Resize(f, n)

Spec == Init /\ [][Next]_size
=============================================================================
