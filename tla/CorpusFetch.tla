---------------------------- MODULE CorpusFetch ----------------------------
(***************************************************************************)
(* The corpus fetcher, cmd/corpusfetch/main.go: processes that walk the     *)
(* lock file and, for each selected item whose output does not already have *)
(* the pinned digest, download an archive to a temporary file, check it,    *)
(* extract one member to a second temporary file, check that, and rename it *)
(* onto the output.  Any number of them may run on one directory, and each  *)
(* can be killed between any two steps and started again.                   *)
(*                                                                          *)
(* Contents are told apart by what the checks tell apart.  The network, the *)
(* archive's author and the filesystem underneath are external: what they   *)
(* answer is any of the outcomes the code distinguishes.  Temporary names   *)
(* are random; two processes never share one.                               *)
(***************************************************************************)
EXTENDS Integers, FiniteSets

CONSTANTS
    Fetcher,     \* processes
    Items,       \* number of entries in the lock file
    Quick,       \* the entries in the quick tier
    Unsafe,      \* the entries whose output is not a plain file name
    MaxCrashes   \* bound of the model

ASSUME FetchAssumption ==
    /\ IsFiniteSet(Fetcher)
    /\ Items \in Nat /\ Quick \subseteq 1..Items /\ Unsafe \subseteq 1..Items
    /\ MaxCrashes \in Nat

VARIABLES
    output,    \* output[i]: content of item i's output
    archive,   \* archive[f]: content of f's temporary archive
    member,    \* member[f]: content of f's temporary member
    pc,        \* pc[f]: where f is
    item,      \* item[f]: the entry f works on
    full,      \* full[f]: was f started with -full?
    litter,    \* temporary files that nobody will remove
    crashes    \* processes killed so far

files == <<output, archive, member>>
vars == <<output, archive, member, pc, item, full, litter, crashes>>

-----------------------------------------------------------------------------
\* "wanted" has the pinned digest and the Wasm magic, "notWasm" the digest
\* only; "stale" is a whole Wasm file that an earlier lock file pinned.
Absent == "absent"
MemberContents == {"wanted", "notWasm", "other"}
ArchiveContents == {"pinned", "other", "oversize"}

\* Mutant: a file that is there is taken for the pinned one.
IsThere(c) == c # Absent

DigestMatches(c) == c \in {"wanted", "notWasm"}

\* Mutant: the digest of the member is not compared.
WasmOnly(c) == c # "notWasm"

Acceptable(c) == DigestMatches(c) /\ c # "notWasm"

Selected(f, i) == full[f] \/ i \in Quick

-----------------------------------------------------------------------------
Init ==
    /\ output \in [1..Items -> {Absent, "stale", "wanted"}]
    /\ archive = [f \in Fetcher |-> Absent]
    /\ member = [f \in Fetcher |-> Absent]
    /\ pc = [f \in Fetcher |-> "next"]
    /\ item = [f \in Fetcher |-> 1]
    /\ full \in [Fetcher -> BOOLEAN]
    /\ litter = 0
    /\ crashes = 0

Goto(f, from, to) ==
    /\ pc[f] = from
    /\ pc' = [pc EXCEPT ![f] = to]
    /\ UNCHANGED <<full, litter, crashes>>

NextItem(f) == item[f] + 1

\* The loop of run moves on: an entry of the other tier, or a cached output.
Skip(f) ==
    /\ item[f] <= Items
    /\ \/ ~Selected(f, item[f])
       \/ item[f] \notin Unsafe /\ DigestMatches(output[item[f]])
    /\ Goto(f, "next", "next")
    /\ item' = [item EXCEPT ![f] = NextItem(f)]
    /\ UNCHANGED files

Finish(f) ==
    /\ item[f] > Items
    /\ Goto(f, "next", "done")
    /\ UNCHANGED <<files, item>>

Request(f) ==
    /\ item[f] <= Items /\ Selected(f, item[f])
    /\ item[f] \notin Unsafe /\ ~DigestMatches(output[item[f]])
    /\ Goto(f, "next", "request")
    /\ UNCHANGED <<files, item>>

\* Mutant: a failed item is tried again.
BackToItem == "next"

\* An error ends the whole run.
AfterError == "failed"

\* Every error return runs the deferred removals.
Fail(f, from) ==
    /\ Goto(f, from, AfterError)
    /\ archive' = [archive EXCEPT ![f] = Absent]
    /\ member' = [member EXCEPT ![f] = Absent]
    /\ UNCHANGED <<output, item>>

Reject(f) ==
    /\ item[f] <= Items /\ Selected(f, item[f]) /\ item[f] \in Unsafe
    /\ Fail(f, "next")

\* The server answers 200, or anything else within the client's five minutes.
Answer(f) ==
    \/ /\ Goto(f, "request", "receive")
       /\ archive' = [archive EXCEPT ![f] = "partial"]
       /\ UNCHANGED <<output, member, item>>
    \/ Fail(f, "request")

Receive(f) ==
    \/ /\ Goto(f, "receive", "check")
       /\ \E c \in ArchiveContents : archive' = [archive EXCEPT ![f] = c]
       /\ UNCHANGED <<output, member, item>>
    \/ Fail(f, "receive")

\* The size and digest of the archive; then the member is looked for.
CheckArchive(f) ==
    \/ /\ archive[f] = "pinned"
       /\ Goto(f, "check", "extract")
       /\ member' = [member EXCEPT ![f] = "partial"]
       /\ UNCHANGED <<output, archive, item>>
    \/ Fail(f, "check")

Extract(f) ==
    \/ /\ Goto(f, "extract", "validate")
       /\ \E c \in MemberContents : member' = [member EXCEPT ![f] = c]
       /\ UNCHANGED <<output, archive, item>>
    \/ Fail(f, "extract")

\* The digest, the magic, and chmod.
Validate(f) ==
    \/ /\ Acceptable(member[f])
       /\ Goto(f, "validate", "rename")
       /\ UNCHANGED <<files, item>>
    \/ Fail(f, "validate")

\* Mutant: the archive's name is passed, which is in scope too.
InstallsArchive(f) == archive[f]

\* What the rename puts in the place of the output.
Installed(f) == member[f]

Rename(f) ==
    \/ /\ Goto(f, "rename", "tidy")
       /\ output' = [output EXCEPT ![item[f]] = Installed(f)]
       /\ member' = [member EXCEPT ![f] = Absent]
       /\ UNCHANGED <<archive, item>>
    \/ Fail(f, "rename")

\* Mutant: the archive stays.
ArchiveKept(f) == archive

ArchiveRemoved(f) == [archive EXCEPT ![f] = Absent]

\* The deferred removals after a success; the member is no longer there.
Tidy(f) ==
    /\ Goto(f, "tidy", "next")
    /\ archive' = ArchiveRemoved(f)
    /\ item' = [item EXCEPT ![f] = NextItem(f)]
    /\ UNCHANGED <<output, member>>

Over == {"done", "failed", "killed"}
Temporary(f) == {<<k, f>> : k \in ((IF archive[f] # Absent THEN {"archive"} ELSE {})
                                 \cup (IF member[f] # Absent THEN {"member"} ELSE {}))}

\* Killed: no deferred call runs.
Kill(f) ==
    /\ pc[f] \notin Over /\ crashes < MaxCrashes
    /\ pc' = [pc EXCEPT ![f] = "killed"]
    /\ crashes' = crashes + 1
    /\ litter' = litter + Cardinality(Temporary(f))
    /\ archive' = [archive EXCEPT ![f] = Absent]
    /\ member' = [member EXCEPT ![f] = Absent]
    /\ UNCHANGED <<output, item, full>>

\* Started again after being killed.
Restart(f) ==
    /\ Goto(f, "killed", "next")
    /\ item' = [item EXCEPT ![f] = 1]
    /\ UNCHANGED files

Step(f) ==
    \/ Skip(f) \/ Finish(f) \/ Request(f) \/ Reject(f) \/ Answer(f) \/ Receive(f)
    \/ CheckArchive(f) \/ Extract(f) \/ Validate(f) \/ Rename(f) \/ Tidy(f)

Next == \E f \in Fetcher : Step(f) \/ Kill(f) \/ Restart(f)

\* A process that is not killed goes on; every request is answered or times
\* out (main.go:65).
Spec == Init /\ [][Next]_vars /\ \A f \in Fetcher : WF_vars(Step(f))

-----------------------------------------------------------------------------
(* Correctness *)

\* Every variable has its type (main.go:22-37, and the local state of run).
TypeOK ==
    /\ output \in [1..Items -> MemberContents \cup {Absent, "stale", "partial"}]
    /\ archive \in [Fetcher -> ArchiveContents \cup {Absent, "partial"}]
    /\ member \in [Fetcher -> MemberContents \cup {Absent, "partial"}]
    /\ pc \in [Fetcher -> Over \cup {"next", "request", "receive", "check", "extract",
                                     "validate", "rename", "tidy"}]
    /\ item \in [Fetcher -> 1..(Items + 1)]
    /\ full \in [Fetcher -> BOOLEAN]
    /\ litter \in Nat /\ crashes \in 0..MaxCrashes

\* "validates ... and atomically installs" (README.md:140-141): whoever is
\* killed, and however many fetchers race, an output is what it was or a whole
\* file that passed every check.
OutputsWhole == \A i \in 1..Items : output[i] \in {Absent, "stale", "wanted"}

\* A fetcher that reports success leaves every item it was asked for in place,
\* also while others still fetch the same items.
DoneMeansInstalled ==
    \A f \in Fetcher, i \in 1..Items :
        pc[f] = "done" /\ Selected(f, i) => output[i] = "wanted"

\* Temporary files are left behind by killed processes only.
NoLitter ==
    /\ \A f \in Fetcher : pc[f] \in Over => Temporary(f) = {}
    /\ \A f \in Fetcher : pc[f] \in {"next", "request"} => Temporary(f) = {}
    /\ litter <= 2 * crashes

\* A fetcher that is not killed for ever after ends, with success or an error:
\* no retry, race or failed check keeps it going.
Terminates == \A f \in Fetcher : <>[](pc[f] \in Over)
=============================================================================
