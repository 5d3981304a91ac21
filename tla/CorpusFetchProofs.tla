------------------------- MODULE CorpusFetchProofs -------------------------
(***************************************************************************)
(* The fetcher's safety properties, for every number of fetchers, items and *)
(* kills.  What makes them inductive is where a fetcher is: what it has on  *)
(* disk at each place, and what it has already installed (Progress).        *)
(***************************************************************************)
EXTENDS CorpusFetch, FiniteSetTheorems, TLAPS

Steps == Over \cup {"next", "request", "receive", "check", "extract",
                    "validate", "rename", "tidy"}

\* The temporary files a fetcher has at each place.
Files ==
    \A f \in Fetcher :
        /\ archive[f] # Absent =>
              pc[f] \in {"receive", "check", "extract", "validate", "rename", "tidy"}
        /\ member[f] # Absent => pc[f] \in {"extract", "validate", "rename"}
        /\ pc[f] = "rename" => member[f] = "wanted"

\* What a fetcher has passed by is installed.
Progress ==
    \A f \in Fetcher :
        /\ pc[f] \notin {"failed", "killed"} =>
              \A i \in 1..Items : i < item[f] /\ Selected(f, i) => output[i] = "wanted"
        /\ pc[f] \in Steps \ (Over \cup {"next"}) => item[f] <= Items
        /\ pc[f] = "tidy" => output[item[f]] = "wanted"
        /\ pc[f] = "done" => item[f] > Items

IInv == TypeOK /\ OutputsWhole /\ Files /\ Progress

LitterBound == litter <= 2 * crashes

-----------------------------------------------------------------------------
\* At most the archive and the member.
LEMMA TwoTemporaries ==
    ASSUME NEW f \in Fetcher
    PROVE  Cardinality(Temporary(f)) \in 0..2
<1> DEFINE A == IF archive[f] # Absent THEN {"archive"} ELSE {}
           M == IF member[f] # Absent THEN {"member"} ELSE {}
           Both == {<<"archive", f>>, <<"member", f>>}
<1>1. Temporary(f) \subseteq Both
  BY DEF Temporary
<1>2. IsFiniteSet({<<"archive", f>>}) /\ Cardinality({<<"archive", f>>}) = 1
  BY FS_Singleton
<1>3. IsFiniteSet(Both) /\ Cardinality(Both) = 2
  <2>1. Both = {<<"archive", f>>} \cup {<<"member", f>>}
    OBVIOUS
  <2>2. <<"member", f>> \notin {<<"archive", f>>}
    OBVIOUS
  <2>3. Cardinality({<<"archive", f>>} \cup {<<"member", f>>}) = 1 + 1
    BY <1>2, <2>2, FS_AddElement
  <2>4. IsFiniteSet({<<"archive", f>>} \cup {<<"member", f>>})
    BY <1>2, FS_AddElement
  <2> HIDE DEF Both
  <2> QED
    BY <2>1, <2>3, <2>4
<1>4. IsFiniteSet(Temporary(f)) /\ Cardinality(Temporary(f)) <= Cardinality(Both)
  BY <1>1, <1>3, FS_Subset
<1>5. Cardinality(Temporary(f)) \in Nat
  BY <1>4, FS_CardinalityType
<1> QED
  BY <1>3, <1>4, <1>5

LEMMA InitIInv == Init => IInv /\ LitterBound
  BY FetchAssumption
  DEF Init, IInv, LitterBound, TypeOK, OutputsWhole, Files, Progress, Absent, Over, Steps,
      MemberContents, ArchiveContents, Selected
-----------------------------------------------------------------------------
(* One lemma per kind of step *)

\* An error return.
LEMMA FailStep ==
    ASSUME IInv, NEW f \in Fetcher, NEW from, from \notin Over, Fail(f, from)
    PROVE  IInv'
<1> USE FetchAssumption DEF IInv, Fail, Goto, AfterError, Absent, Over
<1>1. TypeOK'
  BY DEF TypeOK
<1>2. OutputsWhole'
  BY DEF OutputsWhole
<1>3. Files'
  BY DEF TypeOK, Files
<1>4. Progress'
  BY DEF TypeOK, Progress, Selected, Steps
<1> QED
  BY <1>1, <1>2, <1>3, <1>4

\* A step that moves on to the next item, or to the end, with no file changed.
LEMMA LoopStep ==
    ASSUME IInv, NEW f \in Fetcher, Skip(f) \/ Finish(f) \/ Request(f)
    PROVE  IInv'
<1> USE FetchAssumption DEF IInv, Skip, Finish, Request, Goto, NextItem, files, Absent, Over
<1>1. TypeOK'
  <2>1. item' \in [Fetcher -> 1..(Items + 1)]
    BY DEF TypeOK
  <2>2. pc' \in [Fetcher -> Steps]
    BY DEF TypeOK, Steps
  <2> QED
    BY <2>1, <2>2 DEF TypeOK, Steps
<1>2. OutputsWhole'
  BY DEF OutputsWhole
<1>3. Files'
  BY DEF TypeOK, Files
<1>4. Progress'
  BY DEF TypeOK, OutputsWhole, DigestMatches, Progress, Selected, Steps
<1> QED
  BY <1>1, <1>2, <1>3, <1>4

\* A step of the download or of the extraction.
LEMMA WorkStep ==
    ASSUME IInv, NEW f \in Fetcher, NEW from \in Steps \ (Over \cup {"next", "tidy", "rename"}),
           NEW to \in {"receive", "check", "extract", "validate", "rename"},
           Goto(f, from, to),
           NEW a \in ArchiveContents \cup {"partial"}, NEW m \in MemberContents \cup {"partial"},
           UNCHANGED <<output, item>>,
           archive' = archive \/ archive' = [archive EXCEPT ![f] = a],
           member' = member \/ member' = [member EXCEPT ![f] = m],
           to \in {"receive", "check"} => member' = member /\ from # "extract" /\ from # "validate",
           to = "rename" => member' = member /\ Acceptable(member[f]),
           to \in {"extract", "validate", "rename"} => archive' = archive
    PROVE  IInv'
<1> USE FetchAssumption DEF IInv, Goto, Absent, Over, Steps
<1>1. TypeOK'
  BY DEF TypeOK
<1>2. OutputsWhole'
  BY DEF OutputsWhole
<1>3. Files'
  BY DEF TypeOK, Files, Acceptable, DigestMatches, MemberContents, ArchiveContents
<1>4. Progress'
  BY DEF TypeOK, Progress, Selected
<1> QED
  BY <1>1, <1>2, <1>3, <1>4

\* The rename, and the removal of the archive after it.
LEMMA InstallStep ==
    ASSUME IInv, NEW f \in Fetcher,
           Tidy(f) \/ (Goto(f, "rename", "tidy")
                       /\ output' = [output EXCEPT ![item[f]] = Installed(f)]
                       /\ member' = [member EXCEPT ![f] = Absent]
                       /\ UNCHANGED <<archive, item>>)
    PROVE  IInv'
<1> USE FetchAssumption DEF IInv, Tidy, ArchiveRemoved, NextItem, Installed, Goto, Absent, Over
<1>1. TypeOK'
  <2>1. item' \in [Fetcher -> 1..(Items + 1)]
    <3>1. item \in [Fetcher -> 1..(Items + 1)] /\ (pc[f] = "tidy" => item[f] <= Items)
      BY DEF TypeOK, Progress, Steps
    <3>2. pc[f] = "tidy" => item[f] + 1 \in 1..(Items + 1)
      BY <3>1
    <3> QED
      BY <3>1, <3>2
  <2>2. output' \in [1..Items -> MemberContents \cup {Absent, "stale", "partial"}]
    BY DEF TypeOK, Files, MemberContents
  <2> QED
    BY <2>1, <2>2 DEF TypeOK
<1>2. OutputsWhole'
  BY DEF TypeOK, OutputsWhole, Files
<1>3. Files'
  BY DEF TypeOK, Files
<1>4. Progress'
  BY DEF TypeOK, Progress, Selected, Steps, Files
<1> QED
  BY <1>1, <1>2, <1>3, <1>4

\* A kill and a restart.
LEMMA KillStep ==
    ASSUME IInv, NEW f \in Fetcher, Kill(f) \/ Restart(f)
    PROVE  IInv'
<1> USE FetchAssumption, TwoTemporaries DEF IInv, Kill, Restart, Goto, files, Absent, Over
<1>1. TypeOK'
  <2>1. litter' \in Nat /\ crashes' \in 0..MaxCrashes
    <3>1. litter \in Nat /\ crashes \in 0..MaxCrashes
      BY DEF TypeOK
    <3>2. CASE Kill(f)
      <4>1. crashes < MaxCrashes /\ crashes' = crashes + 1
            /\ litter' = litter + Cardinality(Temporary(f))
        BY <3>2
      <4>2. Cardinality(Temporary(f)) \in 0..2
        BY TwoTemporaries
      <4> QED
        BY ONLY <3>1, <4>1, <4>2, FetchAssumption
    <3>3. CASE Restart(f)
      BY <3>1, <3>3
    <3> QED
      BY <3>2, <3>3
  <2>2. item' \in [Fetcher -> 1..(Items + 1)]
    <3>1. item \in [Fetcher -> 1..(Items + 1)] /\ 1 \in 1..(Items + 1)
      BY DEF TypeOK
    <3> QED
      BY <3>1
  <2> QED
    BY <2>1, <2>2 DEF TypeOK
<1>2. OutputsWhole'
  BY DEF OutputsWhole
<1>3. Files'
  BY DEF TypeOK, Files
<1>4. Progress'
  BY DEF TypeOK, Progress, Selected, Steps
<1> QED
  BY <1>1, <1>2, <1>3, <1>4

\* Every step keeps the invariant.
LEMMA StepIInv ==
    ASSUME IInv, [Next]_vars
    PROVE  IInv'
<1> USE DEF Goto, Over, Steps
<1>1. ASSUME NEW f \in Fetcher, Step(f) PROVE IInv'
  <2>1. CASE Skip(f) \/ Finish(f) \/ Request(f)
    BY <2>1, LoopStep
  <2>2. CASE Reject(f)
    BY <2>2, FailStep DEF Reject
  <2>3. CASE Answer(f)
    BY <2>3, FailStep, WorkStep DEF Answer
  <2>4. CASE Receive(f)
    BY <2>4, FailStep, WorkStep DEF Receive
  <2>5. CASE CheckArchive(f)
    BY <2>5, FailStep, WorkStep DEF CheckArchive
  <2>6. CASE Extract(f)
    BY <2>6, FailStep, WorkStep DEF Extract
  <2>7. CASE Validate(f)
    BY <2>7, FailStep, WorkStep DEF Validate, files
  <2>8. CASE Rename(f)
    BY <2>8, FailStep, InstallStep DEF Rename
  <2>9. CASE Tidy(f)
    BY <2>9, InstallStep
  <2> QED
    BY <1>1, <2>1, <2>2, <2>3, <2>4, <2>5, <2>6, <2>7, <2>8, <2>9 DEF Step
<1>2. CASE UNCHANGED vars
  BY <1>2 DEF vars, IInv, TypeOK, OutputsWhole, Files, Progress, Selected
<1> QED
  BY <1>1, <1>2, KillStep DEF Next

\* A kill leaves at most two files; nothing else leaves any.
LEMMA LitterStep ==
    ASSUME IInv, LitterBound, [Next]_vars
    PROVE  LitterBound'
<1> USE DEF LitterBound
<1>1. ASSUME NEW f \in Fetcher, Kill(f) PROVE LitterBound'
  <2>1. crashes \in Nat /\ litter \in Nat
    BY FetchAssumption DEF IInv, TypeOK
  <2>2. crashes' = crashes + 1 /\ litter' = litter + Cardinality(Temporary(f))
    BY <1>1 DEF Kill
  <2>3. Cardinality(Temporary(f)) \in 0..2
    BY TwoTemporaries
  <2> QED
    BY <2>1, <2>2, <2>3
<1>2. ASSUME NEW f \in Fetcher, Step(f) \/ Restart(f) PROVE UNCHANGED <<litter, crashes>>
  BY <1>2 DEF Step, Restart, Skip, Finish, Request, Reject, Answer, Receive, CheckArchive,
              Extract, Validate, Rename, Tidy, Fail, Goto
<1>3. CASE UNCHANGED vars
  BY <1>3 DEF vars
<1> QED
  BY <1>1, <1>2, <1>3 DEF Next

THEOREM Invariance == Spec => [](IInv /\ LitterBound)
<1>1. IInv /\ LitterBound /\ [Next]_vars => (IInv /\ LitterBound)'
  BY StepIInv, LitterStep
<1> QED
  BY <1>1, InitIInv, PTL DEF Spec

-----------------------------------------------------------------------------
(* The properties of CorpusFetch *)

\* Every variable keeps its type.
THEOREM TypeCorrect == Spec => []TypeOK
<1>1. IInv => TypeOK
  BY DEF IInv
<1> QED
  BY <1>1, Invariance, PTL

\* No output is ever torn, or a file that did not pass every check
\* (main.go:74, 179, 189, 195).
THEOREM InstallsAtomically == Spec => []OutputsWhole
<1>1. IInv => OutputsWhole
  BY DEF IInv
<1> QED
  BY <1>1, Invariance, PTL

\* A run that ends with success has installed what it was asked for, and no
\* other run takes it away (main.go:66-83).
THEOREM SuccessMeansInstalled == Spec => []DoneMeansInstalled
<1>1. IInv => DoneMeansInstalled
  BY FetchAssumption DEF IInv, TypeOK, Progress, DoneMeansInstalled
<1> QED
  BY <1>1, Invariance, PTL

\* Only kills leave temporary files behind, two each (main.go:117, 168).
THEOREM RemovesTemporaries == Spec => []NoLitter
<1>1. IInv /\ LitterBound => NoLitter
  BY DEF IInv, Files, LitterBound, NoLitter, Temporary, Over
<1> QED
  BY <1>1, Invariance, PTL
=============================================================================
