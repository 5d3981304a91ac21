---------------------------- MODULE HolderProofs ----------------------------
(***************************************************************************)
(* No file is released under a name, a descriptor or a mapping that holds   *)
(* it, references leak in the two known ways only, the descriptor limit is  *)
(* kept and no file loses its directory: for every number of files, paths,  *)
(* descriptors and mappings.                                                *)
(*                                                                          *)
(* A handler changes what at most one descriptor or one mapping points to,  *)
(* and moves the counts of the file it pointed to and of the file it points *)
(* to now (Moved).  How many descriptors hold a file moves by the same      *)
(* amount (SlackMoves), so that the slack of every file stays, except where *)
(* a handler forgets what was pointed to before.  In the same way a handler *)
(* gives, takes or moves at most one name, and the marks with it (Named).   *)
(*                                                                          *)
(* What the calls do to the content of files: appended files keep what they *)
(* hold, failing calls leave no trace but the vectors before the one that   *)
(* failed, and munmap writes all of a mapping or nothing.  Every step is of *)
(* one of five kinds (NextEffect): it keeps the content of each file or     *)
(* drops it with the file or by truncation (Plain), resizes one file        *)
(* (Resizes), writes through one descriptor (Writes), or ends a mapping     *)
(* (Munmap).  These three properties are read off the kinds.  That a write  *)
(* ends at the offset is shown vector by vector (PutAllOutcome).            *)
(***************************************************************************)
EXTENDS FileSystemProofs, SequenceTheorems, FiniteSetTheorems

\* The places of table t that point to f.
Hold(t, f) == {x \in DOMAIN t : t[x] = f}
Hit(h, f) == IF h = f THEN 1 ELSE 0

\* A finite set that gains or loses one element.
LEMMA OneElement ==
    ASSUME NEW A, NEW B, NEW x, IsFiniteSet(A), B \ {x} = A \ {x}
    PROVE  /\ IsFiniteSet(B)
           /\ Cardinality(B) = Cardinality(A) + (IF x \in B THEN 1 ELSE 0)
                               - (IF x \in A THEN 1 ELSE 0)
<1>1. Cardinality(A) \in Nat
  BY FS_CardinalityType
<1>2. CASE x \in B
  <2>1. B = A \cup {x}
    BY <1>2
  <2>2. /\ IsFiniteSet(B)
        /\ Cardinality(B) = IF x \in A THEN Cardinality(A) ELSE Cardinality(A) + 1
    BY <2>1, FS_AddElement
  <2> QED
    BY <1>1, <1>2, <2>2
<1>3. CASE x \notin B
  <2>1. B = A \ {x}
    BY <1>3
  <2>2. /\ IsFiniteSet(B)
        /\ Cardinality(B) = IF x \in A THEN Cardinality(A) - 1 ELSE Cardinality(A)
    BY <2>1, FS_RemoveElement
  <2> QED
    BY <1>1, <1>3, <2>2
<1> QED
  BY <1>2, <1>3

-----------------------------------------------------------------------------
(* What points to a file *)

Targets == File \cup {Nil}

\* Points, Maps and Refs tell all that the holders' properties speak of.
Pointed ==
    /\ Points \in [FD -> Targets] /\ Maps \in [Address -> Targets]
    /\ Refs \in [File -> Int]
    /\ \A d \in FD : Points[d] = Nil <=> fds[d] = Nil
    /\ \A d \in FD : fds[d] # Nil => Points[d] = fds[d].file
    /\ \A a \in Address : Maps[a] = Nil <=> mappings[a] = Nil
    /\ \A a \in Address : mappings[a] # Nil => Maps[a] = mappings[a].file
    /\ \A f \in File : /\ Handles(f) = Hold(Points, f)
                       /\ Views(f) = Hold(Maps, f)
                       /\ Slack(f) = Refs[f] - Cardinality(Hold(Points, f))
                                     - Cardinality(Hold(Maps, f))
    /\ OpenFDs = {d \in FD : Points[d] # Nil}

LEMMA TypedPointed == TypeOK => Pointed
<1> SUFFICES ASSUME TypeOK PROVE Pointed
  OBVIOUS
<1>1. \A d \in FD : fds[d] # Nil => fds[d].file \in File
  BY DEF TypeOK, Handle
<1>2. \A a \in Address : mappings[a] # Nil => mappings[a].file \in File
  BY DEF TypeOK, Mapping
<1>3. Nil \notin File
  BY FileAssumption
<1>4. /\ Points \in [FD -> Targets]
      /\ \A d \in FD : Points[d] = Nil <=> fds[d] = Nil
      /\ \A d \in FD : fds[d] # Nil => Points[d] = fds[d].file
  BY <1>1, <1>3 DEF Points, Targets
<1>5. /\ Maps \in [Address -> Targets]
      /\ \A a \in Address : Maps[a] = Nil <=> mappings[a] = Nil
      /\ \A a \in Address : mappings[a] # Nil => Maps[a] = mappings[a].file
  BY <1>2, <1>3 DEF Maps, Targets
<1>6. Refs \in [File -> Int] /\ \A f \in File : Refs[f] = inode[f].refs
  BY DEF Refs, TypeOK, Object
<1>7. ASSUME NEW f \in File
      PROVE  Handles(f) = Hold(Points, f) /\ Views(f) = Hold(Maps, f)
  <2>1. Handles(f) = Hold(Points, f)
    BY <1>3, <1>4 DEF Handles, Hold
  <2>2. Views(f) = Hold(Maps, f)
    BY <1>3, <1>5 DEF Views, Hold
  <2> QED
    BY <2>1, <2>2
<1>8. \A f \in File : Slack(f) = Refs[f] - Cardinality(Hold(Points, f))
                                 - Cardinality(Hold(Maps, f))
  BY <1>6, <1>7 DEF Slack
<1>9. OpenFDs = {d \in FD : Points[d] # Nil}
  BY <1>4 DEF OpenFDs
<1> QED
  BY <1>4, <1>5, <1>6, <1>7, <1>8, <1>9 DEF Pointed

LEMMA TypedPointedNext == TypeOK' => Pointed'
  BY TypedPointed, PTL

LEMMA IInvPointed == ASSUME IInv PROVE Pointed
  BY TypedPointed DEF IInv

-----------------------------------------------------------------------------
(* The handlers *)

\* Descriptor d points to h, and the counts know of h and forget lost.
Repoints(d, h, lost) ==
    /\ Points' = [Points EXCEPT ![d] = h]
    /\ Maps' = Maps
    /\ \A f \in File : Refs'[f] = Refs[f] + Hit(h, f) - Hit(lost, f)
    /\ h # Nil /\ Points[d] = Nil => ~AtDescriptorLimit

Remaps(a, h, lost) ==
    /\ Maps' = [Maps EXCEPT ![a] = h]
    /\ Points' = Points
    /\ \A f \in File : Refs'[f] = Refs[f] + Hit(h, f) - Hit(lost, f)

\* An open takes a descriptor that is in use.
Clobbers == nextFD' # nextFD /\ fds[nextFD] # Nil

Moved ==
    \/ UNCHANGED <<Points, Maps, Refs>>
    \/ \E d \in FD, h, lost \in Targets :
          /\ Repoints(d, h, lost)
          /\ lost = Points[d] \/ (lost = Nil /\ Clobbers)
    \/ \E a \in Address, h, lost \in Targets :
          /\ Remaps(a, h, lost)
          /\ lost = Maps[a] \/ (lost = Nil /\ ret' = "PANIC")

LEMMA QuietMoved == ASSUME Quiet PROVE Moved
  BY DEF Quiet, Moved

LEMMA FailMoved ==
    ASSUME IInv, NEW e, Fail(e)
    PROVE  Moved
  BY DEF Fail, Reply, state, Moved, Points, Maps, Refs

\* Settling an object keeps its count of references and its mark.
LEMMA SettledKeeps ==
    ASSUME NEW o \in Object
    PROVE  Settled(o).refs = o.refs /\ Settled(o).linked = o.linked
  BY DEF Settled, Dead, Released, Object

\* Object f gets the count n.
LEMMA RefsUpdate ==
    ASSUME IInv, NEW f \in File, NEW o, inode' = [inode EXCEPT ![f] = o]
    PROVE  Refs' = [Refs EXCEPT ![f] = o.refs] /\ Refs[f] = inode[f].refs
  BY DEF IInv, TypeOK, Refs

LEMMA OpenMoved ==
    ASSUME IInv, NEW p \in PathArg, NEW mode \in OpenMode, SyscallOpenat(p, mode)
    PROVE  Moved
<1>1. CASE Fail(OpenError(p, mode))
  BY <1>1, FailMoved
<1>2. CASE ~Fail(OpenError(p, mode))
  <2>1. PICK f \in File, o \in Object, h \in Handle :
           /\ Opened(p, f) /\ files' = [files EXCEPT ![p] = f]
           /\ o.linked /\ o.refs = inode[f].refs + 1
           /\ o.data \in {<< >>, inode[f].data}
           /\ inode' = [inode EXCEPT ![f] = o]
           /\ bytes' = bytes - (Len(inode[f].data) - Len(o.data))
           /\ h.file = f /\ fds' = [fds EXCEPT ![nextFD] = h]
    BY <1>2, OpenChanges
  <2>2. /\ nextFD \in FD /\ nextFD' = nextFD + 1 /\ nextFD' \in 3..FdBound
        /\ mappings' = mappings /\ OpenError(p, mode) = "OK" /\ p \in Path
    BY <1>2, OpenChanges
  <2>3. nextFD' # nextFD /\ ~AtDescriptorLimit
    <3>1. nextFD \in Int
      BY <2>2, LimitAssumption DEF FD
    <3>2. nextFD' # nextFD
      BY <2>2, <3>1
    <3>3. ~AtDescriptorLimit
      BY <2>2, ArgAssumption DEF OpenError
    <3> QED
      BY <3>2, <3>3
  <2>4. Points' = [Points EXCEPT ![nextFD] = f] /\ Maps' = Maps
    <3>1. h # Nil /\ fds \in [FD -> Handle \cup {Nil}]
      BY ArgAssumption DEF IInv, TypeOK
    <3> QED
      BY <2>1, <2>2, <3>1 DEF Points, Maps
  <2>5. \A x \in File : Refs'[x] = Refs[x] + Hit(f, x) - 0
    <3>1. Refs' = [Refs EXCEPT ![f] = Refs[f] + 1]
      <4>1. Refs' = [Refs EXCEPT ![f] = o.refs]
        BY <2>1, RefsUpdate
      <4>2. o.refs = Refs[f] + 1
        BY <2>1 DEF Refs
      <4> QED
        BY <4>1, <4>2
    <3> QED
      BY <3>1, IInvPointed DEF Pointed, Hit
  <2>6. Repoints(nextFD, f, Nil) /\ f \in Targets /\ Nil \in Targets
    <3>1. \A x \in File : Hit(Nil, x) = 0
      BY FileAssumption DEF Hit
    <3> QED
      BY <2>3, <2>4, <2>5, <3>1 DEF Repoints, Targets
  <2>7. Points[nextFD] = Nil \/ Clobbers
    BY <2>2, <2>3 DEF Clobbers, Points
  <2> QED
    BY <2>2, <2>6, <2>7 DEF Moved
<1> QED
  BY <1>1, <1>2

LEMMA NamesMoved ==
    ASSUME IInv, NEW p \in PathArg,
           SyscallMkdirat(p) \/ SyscallRmdir(p) \/ SyscallUnlinkat(p)
    PROVE  Moved
<1>1. CASE Fail(MkdirError(p)) \/ Fail(RmdirError(p)) \/ Fail(UnlinkError(p))
  BY <1>1, FailMoved
<1>2. CASE UNCHANGED <<fds, mappings, inode>>
  BY <1>2 DEF Moved, Points, Maps, Refs
<1>3. CASE SyscallUnlinkat(p) /\ ~Fail(UnlinkError(p))
  <2> DEFINE f == files[p]
             o == [inode[f] EXCEPT !.linked = FALSE]
  <2>1. p \in Path /\ f \in File
    BY <1>3, ArgAssumption DEF SyscallUnlinkat, UnlinkError, IInv, TypeOK
  <2>2. inode' = [inode EXCEPT ![f] = Settled(o)] /\ UNCHANGED <<fds, mappings>>
    BY <1>3 DEF SyscallUnlinkat
  <2>3. o \in Object /\ o.refs = inode[f].refs
    BY <2>1, ObjectFacts DEF Object
  <2>4. Settled(o).refs = inode[f].refs
    <3> HIDE DEF o
    <3> QED
      BY <2>3, SettledKeeps
  <2>5. Refs' = [Refs EXCEPT ![f] = Refs[f]]
    <3> HIDE DEF o, f
    <3> QED
      BY <2>1, <2>2, <2>4, RefsUpdate
  <2>6. Refs' = Refs
    <3> HIDE DEF f
    <3> QED
      BY <2>5, IInvPointed DEF Pointed
  <2> QED
    BY <2>2, <2>6 DEF Moved, Points, Maps
<1> QED
  BY <1>1, <1>2, <1>3 DEF SyscallMkdirat, SyscallRmdir, SyscallUnlinkat

LEMMA RenameMoved ==
    ASSUME IInv, NEW old \in PathArg, NEW new \in PathArg, SyscallRenameat(old, new)
    PROVE  Moved
<1>1. CASE Fail(RenameError(old, new))
  BY <1>1, FailMoved
<1>2. CASE UNCHANGED <<fds, mappings, inode>>
  BY <1>2 DEF Moved, Points, Maps, Refs
<1>3. CASE /\ RenameError(old, new) = "OK"
           /\ RenameFile(old, new)
           /\ UNCHANGED <<fds, mappings>> /\ files[new] # Nil
  <2> DEFINE g == files[new]
             o == [inode[g] EXCEPT !.linked = FALSE]
  <2>1. g \in File
    BY <1>3, ArgAssumption DEF RenameError, IInv, TypeOK
  <2>2. inode' = [inode EXCEPT ![g] = Settled(o)]
    BY <1>3 DEF RenameFile
  <2>3. o \in Object /\ o.refs = inode[g].refs
    BY <2>1, ObjectFacts DEF Object
  <2>4. Settled(o).refs = inode[g].refs
    <3> HIDE DEF o
    <3> QED
      BY <2>3, SettledKeeps
  <2>5. Refs' = [Refs EXCEPT ![g] = Refs[g]]
    <3> HIDE DEF o, g
    <3> QED
      BY <2>1, <2>2, <2>4, RefsUpdate
  <2>6. Refs' = Refs
    <3> HIDE DEF g
    <3> QED
      BY <2>5, IInvPointed DEF Pointed
  <2> QED
    BY <1>3, <2>6 DEF Moved, Points, Maps
<1> QED
  BY <1>1, <1>2, <1>3 DEF SyscallRenameat, RenameFile, RenameDir

\* Letting a holder of f go takes one off its count.
LEMMA UnreferencedRefs ==
    ASSUME IInv, NEW f \in File
    PROVE  /\ Settled(Unreferenced(f)).refs = Refs[f] - 1
           /\ Settled(Unreferenced(f)) \in Object
<1>1. Unreferenced(f) \in Object /\ Unreferenced(f).refs = inode[f].refs - 1
  BY UnreferencedType, ObjectFacts DEF Unreferenced, Object
<1> QED
  BY <1>1, SettledKeeps, SettledType DEF Refs

LEMMA ReferencedRefs ==
    ASSUME IInv, NEW f \in File, inode' = Referenced(f)
    PROVE  Refs' = [Refs EXCEPT ![f] = @ + 1]
<1> DEFINE o == [inode[f] EXCEPT !.refs = @ + 1]
<1>1. o.refs = inode[f].refs + 1
  BY ObjectFacts DEF Object
<1>2. inode' = [inode EXCEPT ![f] = o]
  BY ObjectFacts DEF Referenced, Typed
<1> HIDE DEF o
<1>3. Refs' = [Refs EXCEPT ![f] = o.refs]
  BY <1>2, RefsUpdate
<1>4. o.refs = Refs[f] + 1
  BY <1>1 DEF Refs
<1> QED
  BY <1>3, <1>4

LEMMA CloseMoved ==
    ASSUME IInv, NEW d \in FD, WasiFDClose(d)
    PROVE  Moved
<1>1. CASE Reply("OK") \/ Fail(DescriptorError(d))
  <2>1. DescriptorError(d) \in Replies
    BY DEF DescriptorError, Replies
  <2> QED
    BY <1>1, <2>1, ReplyStep, FailStep, QuietMoved DEF Replies
<1>2. CASE ~Reply("OK") /\ ~Fail(DescriptorError(d))
  <2> DEFINE f == fds[d].file
  <2>1. fds[d] # Nil /\ f \in File /\ Points[d] = f
    BY <1>2, HandleFacts DEF WasiFDClose, DescriptorError, Points
  <2>2. /\ inode' = [inode EXCEPT ![f] = Settled(Unreferenced(f))]
        /\ fds' = [fds EXCEPT ![d] = Nil] /\ mappings' = mappings
    BY <1>2 DEF WasiFDClose
  <2>3. Points' = [Points EXCEPT ![d] = Nil] /\ Maps' = Maps
    BY <2>2 DEF Points, Maps, IInv, TypeOK
  <2>4. Refs' = [Refs EXCEPT ![f] = Refs[f] - 1]
    <3> HIDE DEF f
    <3> QED
      BY <2>1, <2>2, RefsUpdate, UnreferencedRefs
  <2> HIDE DEF f
  <2>5. Repoints(d, Nil, f)
    <3>1. \A x \in File : Refs'[x] = Refs[x] + Hit(Nil, x) - Hit(f, x)
      BY <2>1, <2>4, IInvPointed, FileAssumption DEF Pointed, Hit
    <3> QED
      BY <2>3, <3>1 DEF Repoints
  <2> QED
    BY <2>1, <2>5 DEF Moved, Targets
<1> QED
  BY <1>1, <1>2

LEMMA DupMoved ==
    ASSUME IInv, NEW d \in FD, NEW from, SyscallDup(d, from)
    PROVE  Moved
<1>1. CASE Fail(DupError(d))
  BY <1>1, FailMoved
<1>2. CASE DupError(d) = "OK" /\ ~Fail(DupError(d))
  <2> DEFINE f == fds[d].file
  <2>1. fds[d] # Nil /\ f \in File /\ ~AtDescriptorLimit
    BY <1>2, HandleFacts DEF DupError
  <2>2. PICK c \in FD : fds[c] = Nil /\ fds' = [fds EXCEPT ![c] = fds[d]]
    BY <1>2 DEF SyscallDup, FirstFree
  <2>3. inode' = Referenced(f) /\ mappings' = mappings
    BY <1>2 DEF SyscallDup
  <2>4. /\ Points' = [Points EXCEPT ![c] = f] /\ Maps' = Maps
        /\ Points[c] = Nil
    BY <2>1, <2>2, <2>3 DEF Points, Maps, IInv, TypeOK
  <2> HIDE DEF f
  <2>5. \A x \in File : Refs'[x] = Refs[x] + Hit(f, x) - Hit(Nil, x)
    BY <2>1, <2>3, ReferencedRefs, IInvPointed, FileAssumption DEF Pointed, Hit
  <2>6. Repoints(c, f, Nil)
    BY <2>1, <2>4, <2>5 DEF Repoints
  <2> QED
    BY <2>1, <2>4, <2>6 DEF Moved, Targets
<1> QED
  BY <1>1, <1>2 DEF SyscallDup

LEMMA Dup3Moved ==
    ASSUME IInv, NEW d \in FD, NEW e \in FD, SyscallDup3(d, e)
    PROVE  Moved
<1>1. CASE Fail(Dup3Error(d, e))
  BY <1>1, FailMoved
<1>2. CASE Dup3Error(d, e) = "OK" /\ ~Fail(Dup3Error(d, e))
  <2> DEFINE f == fds[d].file
             g == fds[e].file
  <2>1. /\ fds[d] # Nil /\ f \in File
        /\ fds[e] = Nil => ~AtDescriptorLimit
    BY <1>2, HandleFacts DEF Dup3Error
  <2>2. fds' = [fds EXCEPT ![e] = fds[d]] /\ mappings' = mappings
    BY <1>2 DEF SyscallDup3
  <2>3. /\ Points' = [Points EXCEPT ![e] = f] /\ Maps' = Maps
        /\ Points[e] = IF fds[e] = Nil THEN Nil ELSE g
    BY <2>1, <2>2 DEF Points, Maps, IInv, TypeOK
  <2>4. \A x \in File : Refs'[x] = Refs[x] + Hit(f, x) - Hit(Points[e], x)
    <3>1. CASE fds[e] = Nil
      <4>1. inode' = Referenced(f) /\ Points[e] = Nil
        BY <1>2, <2>3, <3>1 DEF SyscallDup3
      <4> HIDE DEF f
      <4> QED
        BY <2>1, <4>1, ReferencedRefs, IInvPointed, FileAssumption DEF Pointed, Hit
    <3>2. CASE fds[e] # Nil
      <4> DEFINE o == Settled(Unreferenced(g))
                 between == [inode EXCEPT ![g] = o]
      <4>1. g \in File /\ Points[e] = g
        BY <2>3, <3>2, HandleFacts
      <4>2. inode' = [between EXCEPT ![f].refs = @ + 1]
        BY <1>2, <3>2 DEF SyscallDup3
      <4>3. o \in Object /\ o.refs = Refs[g] - 1
        BY <4>1, UnreferencedRefs
      <4>4. /\ between \in [File -> Object]
            /\ \A x \in File : between[x].refs = IF x = g THEN Refs[g] - 1 ELSE Refs[x]
        <5> HIDE DEF o, g
        <5> QED
          BY <4>1, <4>3 DEF IInv, TypeOK, Refs
      <4> HIDE DEF between, f, g
      <4>5. \A x \in File : Refs'[x] = IF x = f THEN between[x].refs + 1
                                       ELSE between[x].refs
        <5>1. inode' = [between EXCEPT ![f] = [between[f] EXCEPT !.refs = @ + 1]]
          BY <2>1, <4>2, <4>4
        <5>2. [between[f] EXCEPT !.refs = @ + 1].refs = between[f].refs + 1
          BY <2>1, <4>4 DEF Object
        <5> QED
          BY <2>1, <4>4, <5>1, <5>2 DEF Refs
      <4>6. ASSUME NEW x \in File
            PROVE  Refs'[x] = Refs[x] + Hit(f, x) - Hit(g, x)
        <5>1. Refs[x] \in Int /\ Refs[g] \in Int
          BY <4>1, IInvPointed DEF Pointed
        <5> QED
          BY <4>4, <4>5, <5>1 DEF Hit
      <4> QED
        BY <4>1, <4>6
    <3> QED
      BY <3>1, <3>2
  <2> HIDE DEF f, g
  <2>5. Repoints(e, f, Points[e])
    <3>1. Points[e] = Nil => fds[e] = Nil
      BY IInvPointed DEF Pointed
    <3> QED
      BY <2>1, <2>3, <2>4, <3>1 DEF Repoints
  <2>6. Points[e] \in Targets
    BY IInvPointed DEF Pointed
  <2> QED
    BY <2>1, <2>5, <2>6 DEF Moved, Targets
<1> QED
  BY <1>1, <1>2 DEF SyscallDup3

LEMMA MmapMoved ==
    ASSUME IInv, NEW d \in FD, NEW req \in MapRequest, Mmap(d, req)
    PROVE  Moved
<1>1. CASE Fail(MmapError(d, req)) \/ Fail("EINVAL") \/ Fail("EFAULT")
  BY <1>1, FailMoved
<1>2. CASE ~Fail(MmapError(d, req)) /\ ~Fail("EINVAL") /\ ~Fail("EFAULT")
  <2> DEFINE f == fds[d].file
  <2>1. f \in File /\ inode' = Referenced(f) /\ fds' = fds
    BY <1>2, MmapChanges
  <2>2. PICK a \in Address, m \in Mapping :
           /\ mappings[a] = Nil /\ m.file = fds[d].file
           /\ mappings' = [mappings EXCEPT ![a] = m]
    BY <1>2, MmapChanges
  <2>3. Maps' = [Maps EXCEPT ![a] = f] /\ Points' = Points /\ Maps[a] = Nil
    <3>1. m # Nil
      BY ArgAssumption
    <3> QED
      BY <2>1, <2>2, <3>1 DEF Maps, Points, IInv, TypeOK
  <2> HIDE DEF f
  <2>4. \A x \in File : Refs'[x] = Refs[x] + Hit(f, x) - Hit(Nil, x)
    BY <2>1, ReferencedRefs, IInvPointed, FileAssumption DEF Pointed, Hit
  <2>5. Remaps(a, f, Nil)
    BY <2>3, <2>4 DEF Remaps
  <2> QED
    BY <2>1, <2>3, <2>5 DEF Moved, Targets
<1> QED
  BY <1>1, <1>2

LEMMA MunmapMoved ==
    ASSUME IInv, NEW a \in Address, Munmap(a)
    PROVE  Moved
<1> DEFINE m == mappings[a]
           f == m.file
           data == IF WritesBack(m) THEN Overwritten(inode[f].data, m.offset, m.view)
                   ELSE inode[f].data
           o == [Unreferenced(f) EXCEPT !.data = data]
<1>1. CASE m = Nil
  BY <1>1 DEF Munmap, Reply, state, Moved, Points, Maps, Refs
<1>2. CASE m # Nil
  <2>1. mappings' = [mappings EXCEPT ![a] = Nil] /\ fds' = fds
    BY <1>2 DEF Munmap
  <2>2. f \in File /\ Maps[a] = f
    BY <1>2 DEF IInv, TypeOK, Mapping, Maps
  <2>3. Maps' = [Maps EXCEPT ![a] = Nil] /\ Points' = Points
    BY <2>1 DEF Maps, Points, IInv, TypeOK
  <2>4. CASE WritesBack(m) /\ MapEnd(m) < 0
    <3>1. ret' = "PANIC" /\ inode' = inode
      BY <1>2, <2>4 DEF Munmap, Return
    <3>2. \A x \in File : Refs'[x] = Refs[x] + Hit(Nil, x) - Hit(Nil, x)
      BY <3>1, IInvPointed, FileAssumption DEF Pointed, Hit, Refs
    <3>3. Remaps(a, Nil, Nil)
      BY <2>3, <3>2 DEF Remaps
    <3> QED
      BY <3>1, <3>3 DEF Moved, Targets
  <2>5. CASE ~(WritesBack(m) /\ MapEnd(m) < 0)
    <3>1. inode' = [inode EXCEPT ![f] = Settled(o)]
      BY <1>2, <2>5 DEF Munmap
    <3>2. o.refs = inode[f].refs - 1
      <4> HIDE DEF data, f
      <4> QED
        BY <2>2, ObjectFacts DEF Unreferenced, Object
    <3>3. Settled(o).refs = Refs[f] - 1
      <4>1. Settled(o).refs = o.refs
        <5> HIDE DEF o
        <5> QED
          BY DEF Settled, Dead, Released
      <4> QED
        BY <2>2, <3>2, <4>1 DEF Refs
    <3>4. Refs' = [Refs EXCEPT ![f] = Refs[f] - 1]
      <4> HIDE DEF f, o
      <4> QED
        BY <2>2, <3>1, <3>3, RefsUpdate
    <3> HIDE DEF f, o
    <3>5. \A x \in File : Refs'[x] = Refs[x] + Hit(Nil, x) - Hit(f, x)
      BY <2>2, <3>4, IInvPointed, FileAssumption DEF Pointed, Hit
    <3>6. Remaps(a, Nil, f)
      BY <2>3, <3>5 DEF Remaps
    <3> QED
      BY <2>2, <3>6 DEF Moved, Targets
  <2> QED
    BY <2>4, <2>5
<1> QED
  BY <1>1, <1>2

\* Every step moves what at most one descriptor or mapping points to, and the
\* counts with it.
LEMMA NextMoved ==
    ASSUME IInv, [Next]_vars
    PROVE  Moved
<1>1. CASE PathCall
  <2>1. PICK p \in PathArg :
           \/ \E mode \in OpenMode : SyscallOpenat(p, mode)
           \/ SyscallMkdirat(p)
           \/ SyscallRmdir(p)
           \/ SyscallUnlinkat(p)
           \/ \E q \in PathArg : SyscallRenameat(p, q)
           \/ SyscallFaccessat(p)
           \/ \E n \in Size : SyscallTruncate(p, n)
    BY <1>1 DEF PathCall
  <2>2. CASE \E mode \in OpenMode : SyscallOpenat(p, mode)
    BY <2>2, OpenMoved
  <2>3. CASE SyscallMkdirat(p) \/ SyscallRmdir(p) \/ SyscallUnlinkat(p)
    BY <2>3, NamesMoved
  <2>4. CASE \E q \in PathArg : SyscallRenameat(p, q)
    BY <2>4, RenameMoved
  <2>5. CASE SyscallFaccessat(p)
    BY <2>5, FaccessatStep, QuietMoved
  <2>6. CASE \E n \in Size : SyscallTruncate(p, n)
    BY <2>6, TruncateStep, QuietMoved
  <2> QED
    BY <2>1, <2>2, <2>3, <2>4, <2>5, <2>6
<1>2. CASE DescriptorCall
  <2>1. PICK d \in FdArg :
           \/ WasiFDClose(d)
           \/ \E e \in NewFdArg : SyscallDup(d, e) \/ SyscallDup3(d, e)
           \/ \E append \in AppendArg : SetFlags(d, append)
           \/ \E delta \in Delta, whence \in {"set", "cur", "end"} :
                 WasiFDSeek(d, delta, whence)
           \/ CheckFD(d)
           \/ WasiFDStatGet(d)
    BY <1>2 DEF DescriptorCall
  <2>2. d \in FD
    BY ArgTypes
  <2>3. CASE WasiFDClose(d)
    BY <2>2, <2>3, CloseMoved
  <2>4. CASE \E e \in NewFdArg : SyscallDup(d, e) \/ SyscallDup3(d, e)
    BY <2>2, <2>4, ArgTypes, DupMoved, Dup3Moved
  <2>5. CASE \E append \in AppendArg : SetFlags(d, append)
    BY <2>2, <2>5, ArgTypes, SetFlagsStep, QuietMoved
  <2>6. CASE \E delta \in Delta, whence \in {"set", "cur", "end"} :
                WasiFDSeek(d, delta, whence)
    BY <2>2, <2>6, SeekStep, QuietMoved
  <2>7. CASE CheckFD(d) \/ WasiFDStatGet(d)
    BY <2>2, <2>7, CheckStep, QuietMoved
  <2> QED
    BY <2>1, <2>3, <2>4, <2>5, <2>6, <2>7
<1>3. CASE ContentCall
  BY <1>3, ContentStep, QuietMoved
<1>4. CASE MappingCall
  <2>1. CASE \E d \in FdArg, req \in MapRequest : Mmap(d, req)
    BY <2>1, ArgTypes, MmapMoved
  <2>2. CASE \E a \in Address : Munmap(a)
    BY <2>2, MunmapMoved
  <2>3. CASE \E a \in Address, i \in 1..MaxFilesystemBytes, b \in Byte :
                GuestStore(a, i, b)
    BY <2>3, GuestStoreStep, QuietMoved
  <2> QED
    BY <1>4, <2>1, <2>2, <2>3 DEF MappingCall
<1>5. CASE UNCHANGED vars
  BY <1>5 DEF vars, Moved, Points, Maps, Refs
<1> QED
  BY <1>1, <1>2, <1>3, <1>4, <1>5 DEF Next

-----------------------------------------------------------------------------
(* The invariant *)

\* The holders of a file can be counted, and there are no more than its count
\* of references says.
HInv ==
    /\ \A f \in File : IsFiniteSet(Hold(Maps, f))
    /\ RefsCoverHolders
    /\ DescriptorLimit

LEMMA FiniteFD ==
    /\ IsFiniteSet(FD) /\ IsFiniteSet(OpenFDs)
    /\ \A f : IsFiniteSet(Hold(Points, f))
<1>1. IsFiniteSet(FD)
  BY LimitAssumption, FS_Interval DEF FD
<1>2. OpenFDs \in SUBSET FD /\ \A f : Hold(Points, f) \in SUBSET FD
  BY DEF OpenFDs, Hold, Points
<1> QED
  BY <1>1, <1>2, FS_Subset

\* How far the slack of a file moves.
LEMMA SlackMoves ==
    ASSUME IInv, TypeOK', HInv, Moved, NEW f \in File
    PROVE  /\ IsFiniteSet(Hold(Maps, f)')
           /\ Slack(f) \in Int /\ Slack(f)' \in Int
           /\ Slack(f)' >= Slack(f)
           /\ Slack(f)' # Slack(f) => ret' = "PANIC" \/ Clobbers
<1>1. Pointed /\ Pointed' /\ Nil \notin File
  BY IInvPointed, TypedPointedNext, FileAssumption
<1> DEFINE P == Cardinality(Hold(Points, f))
           M == Cardinality(Hold(Maps, f))
<1>2. /\ IsFiniteSet(Hold(Points, f)) /\ IsFiniteSet(Hold(Maps, f))
      /\ P \in Nat /\ M \in Nat /\ Refs[f] \in Int
      /\ Slack(f) = Refs[f] - P - M
  BY <1>1, FiniteFD, FS_CardinalityType DEF HInv, Pointed
<1>3. Slack(f)' = Refs'[f] - Cardinality(Hold(Points', f)) - Cardinality(Hold(Maps', f))
  BY <1>1 DEF Pointed, Hold
<1>4. CASE UNCHANGED <<Points, Maps, Refs>>
  BY <1>2, <1>3, <1>4 DEF Hold
<1>5. ASSUME NEW d \in FD, NEW h \in Targets, NEW lost \in Targets,
             Repoints(d, h, lost),
             lost = Points[d] \/ (lost = Nil /\ Clobbers)
      PROVE  /\ IsFiniteSet(Hold(Maps', f)) /\ Slack(f)' \in Int
             /\ Slack(f)' >= Slack(f)
             /\ Slack(f)' # Slack(f) => Clobbers
  <2>1. /\ Points' = [Points EXCEPT ![d] = h] /\ Maps' = Maps
        /\ Refs'[f] = Refs[f] + Hit(h, f) - Hit(lost, f)
    BY <1>5 DEF Repoints
  <2>2. Cardinality(Hold(Points', f)) = P + Hit(h, f) - Hit(Points[d], f)
    <3> DEFINE A == Hold(Points, f)
               B == Hold(Points', f)
    <3>1. d \in DOMAIN Points
      BY DEF Points
    <3>2. /\ B \ {d} = A \ {d} /\ IsFiniteSet(A)
          /\ Hit(h, f) = IF d \in B THEN 1 ELSE 0
          /\ Hit(Points[d], f) = IF d \in A THEN 1 ELSE 0
      BY <1>2, <2>1, <3>1 DEF Hold, Hit
    <3> HIDE DEF A, B
    <3>3. /\ IsFiniteSet(B)
          /\ Cardinality(B) = Cardinality(A) + (IF d \in B THEN 1 ELSE 0)
                              - (IF d \in A THEN 1 ELSE 0)
      BY <3>2, OneElement
    <3>4. Cardinality(B) = Cardinality(A) + Hit(h, f) - Hit(Points[d], f)
      BY <3>2, <3>3
    <3> QED
      BY <3>3, <3>4 DEF A, B
  <2>3. /\ Hit(h, f) \in {0, 1} /\ Hit(lost, f) \in {0, 1}
        /\ Hit(Points[d], f) \in {0, 1}
    BY DEF Hit
  <2>4. Hit(lost, f) = Hit(Points[d], f) \/ (Hit(lost, f) = 0 /\ Clobbers)
    BY <1>1, <1>5 DEF Hit
  <2> HIDE DEF P, M
  <2>5. Slack(f)' = Slack(f) + Hit(Points[d], f) - Hit(lost, f)
    BY <1>2, <1>3, <2>1, <2>2, <2>3 DEF M
  <2> QED
    BY <1>2, <2>1, <2>3, <2>4, <2>5
<1>6. ASSUME NEW a \in Address, NEW h \in Targets, NEW lost \in Targets,
             Remaps(a, h, lost),
             lost = Maps[a] \/ (lost = Nil /\ ret' = "PANIC")
      PROVE  /\ IsFiniteSet(Hold(Maps', f)) /\ Slack(f)' \in Int
             /\ Slack(f)' >= Slack(f)
             /\ Slack(f)' # Slack(f) => ret' = "PANIC"
  <2>1. /\ Maps' = [Maps EXCEPT ![a] = h] /\ Points' = Points
        /\ Refs'[f] = Refs[f] + Hit(h, f) - Hit(lost, f)
    BY <1>6 DEF Remaps
  <2>2. /\ IsFiniteSet(Hold(Maps', f))
        /\ Cardinality(Hold(Maps', f)) = M + Hit(h, f) - Hit(Maps[a], f)
    <3> DEFINE A == Hold(Maps, f)
               B == Hold(Maps', f)
    <3>1. a \in DOMAIN Maps
      BY DEF Maps
    <3>2. /\ B \ {a} = A \ {a} /\ IsFiniteSet(A)
          /\ Hit(h, f) = IF a \in B THEN 1 ELSE 0
          /\ Hit(Maps[a], f) = IF a \in A THEN 1 ELSE 0
      BY <1>2, <2>1, <3>1 DEF Hold, Hit
    <3> HIDE DEF A, B
    <3>3. /\ IsFiniteSet(B)
          /\ Cardinality(B) = Cardinality(A) + (IF a \in B THEN 1 ELSE 0)
                              - (IF a \in A THEN 1 ELSE 0)
      BY <3>2, OneElement
    <3>4. Cardinality(B) = Cardinality(A) + Hit(h, f) - Hit(Maps[a], f)
      BY <3>2, <3>3
    <3> QED
      BY <3>3, <3>4 DEF A, B
  <2>3. /\ Hit(h, f) \in {0, 1} /\ Hit(lost, f) \in {0, 1}
        /\ Hit(Maps[a], f) \in {0, 1}
    BY DEF Hit
  <2>4. Hit(lost, f) = Hit(Maps[a], f) \/ (Hit(lost, f) = 0 /\ ret' = "PANIC")
    BY <1>1, <1>6 DEF Hit
  <2> HIDE DEF P, M
  <2>5. Slack(f)' = Slack(f) + Hit(Maps[a], f) - Hit(lost, f)
    BY <1>2, <1>3, <2>1, <2>2, <2>3 DEF P
  <2> QED
    BY <1>2, <2>2, <2>3, <2>4, <2>5
<1>7. Hold(Maps, f)' = Hold(Maps', f) /\ Slack(f) \in Int
  BY <1>2 DEF Hold
<1> QED
  BY <1>4, <1>5, <1>6, <1>7, <1>2 DEF Moved

\* One descriptor more is one that the limit admits.
LEMMA LimitKept ==
    ASSUME IInv, TypeOK', DescriptorLimit, Moved
    PROVE  DescriptorLimit'
<1>1. Pointed /\ Pointed' /\ Nil \notin File
  BY IInvPointed, TypedPointedNext, FileAssumption
<1>2. /\ OpenFDs = {d \in FD : Points[d] # Nil}
      /\ OpenFDs' = {d \in FD : Points'[d] # Nil}
      /\ Points \in [FD -> Targets]
  BY <1>1 DEF Pointed
<1>3. IsFiniteSet(OpenFDs) /\ Cardinality(OpenFDs) \in Nat /\ MaxOpenFiles \in Nat
  BY FiniteFD, FS_CardinalityType, LimitAssumption
<1>4. CASE Points' = Points
  <2>1. OpenFDs' = OpenFDs
    BY <1>2, <1>4
  <2> QED
    BY <2>1 DEF DescriptorLimit
<1>5. ASSUME NEW d \in FD, NEW h \in Targets, NEW lost \in Targets,
             Repoints(d, h, lost)
      PROVE  DescriptorLimit'
  <2>1. Points' = [Points EXCEPT ![d] = h]
    BY <1>5 DEF Repoints
  <2>2. CASE OpenFDs' \in SUBSET OpenFDs
    <3>1. Cardinality(OpenFDs') <= Cardinality(OpenFDs) /\ Cardinality(OpenFDs') \in Nat
      BY <1>3, <2>2, FS_Subset, FS_CardinalityType
    <3> QED
      BY <1>3, <3>1 DEF DescriptorLimit
  <2>3. CASE OpenFDs' \notin SUBSET OpenFDs
    <3>1. /\ h # Nil /\ Points[d] = Nil
          /\ OpenFDs' = OpenFDs \cup {d}
      BY <1>2, <2>1, <2>3
    <3>2. /\ Cardinality(OpenFDs') <= Cardinality(OpenFDs) + 1
          /\ Cardinality(OpenFDs') \in Nat
      <4>1. Cardinality(OpenFDs \cup {d}) =
              IF d \in OpenFDs THEN Cardinality(OpenFDs) ELSE Cardinality(OpenFDs) + 1
        BY <1>3, FS_AddElement, Zenon
      <4> QED
        BY <1>3, <3>1, <4>1
    <3>3. ~(Cardinality(OpenFDs) + 3 >= MaxOpenFiles)
      BY <1>5, <3>1 DEF Repoints, AtDescriptorLimit
    <3> QED
      BY <1>3, <3>2, <3>3 DEF DescriptorLimit
  <2> QED
    BY <2>2, <2>3
<1> QED
  BY <1>4, <1>5 DEF Moved, Remaps

LEMMA InitHInv == Init => HInv
<1> SUFFICES ASSUME Init PROVE HInv
  OBVIOUS
<1>1. Pointed /\ Nil \notin File
  BY InitIInv, IInvPointed, FileAssumption
<1>2. /\ \A d \in FD : Points[d] = Nil
      /\ \A a \in Address : Maps[a] = Nil
      /\ \A f \in File : Refs[f] = 0
  BY DEF Init, Points, Maps, Refs, Released
<1>3. OpenFDs = {} /\ \A f \in File : Hold(Points, f) = {} /\ Hold(Maps, f) = {}
  BY <1>1, <1>2 DEF Pointed, Hold
<1>4. IsFiniteSet({}) /\ Cardinality({}) = 0
  BY FS_EmptySet
<1>5. ASSUME NEW f \in File
      PROVE  IsFiniteSet(Hold(Maps, f)) /\ Slack(f) = 0
  <2>1. Hold(Points, f) = {} /\ Hold(Maps, f) = {} /\ Refs[f] = 0
    BY <1>2, <1>3
  <2>2. Slack(f) = Refs[f] - Cardinality(Hold(Points, f)) - Cardinality(Hold(Maps, f))
    BY <1>1 DEF Pointed
  <2> QED
    BY <1>4, <2>1, <2>2
<1>6. DescriptorLimit
  BY <1>3, <1>4, LimitAssumption DEF DescriptorLimit
<1>7. RefsCoverHolders
  BY <1>5 DEF RefsCoverHolders
<1> QED
  BY <1>5, <1>6, <1>7 DEF HInv

LEMMA NextHInv ==
    ASSUME IInv, TypeOK', HInv, [Next]_vars
    PROVE  /\ HInv'
           /\ \A f \in File : Slack(f)' # Slack(f) => ret' = "PANIC" \/ Clobbers
<1>1. Moved
  BY NextMoved
<1>2. \A f \in File : /\ IsFiniteSet(Hold(Maps, f)')
                      /\ Slack(f) \in Int /\ Slack(f)' \in Int
                      /\ Slack(f)' >= Slack(f)
                      /\ Slack(f)' # Slack(f) => ret' = "PANIC" \/ Clobbers
  BY <1>1, SlackMoves
<1>3. DescriptorLimit'
  BY <1>1, LimitKept DEF HInv
<1>4. \A f \in File : Slack(f)' >= 0
  BY <1>2 DEF HInv, RefsCoverHolders
<1> QED
  BY <1>2, <1>3, <1>4 DEF HInv, RefsCoverHolders

\* HInv holds in every reachable state.
THEOREM HoldersInvariance == Spec => []HInv
<1>1. Init => HInv
  BY InitHInv
<1>2. IInv /\ TypeOK' /\ HInv /\ [Next]_vars => HInv'
  BY NextHInv
<1> QED
  BY <1>1, <1>2, Invariance, TypeCorrect, PTL DEF Spec

\* The tests before a file's bytes are given back (filesystem.go:241, 424, 461,
\* 845, 1157) never free a file that a descriptor or a mapping still points to,
\* in whatever order names and holders go.
THEOREM HoldersAreCovered == Spec => []RefsCoverHolders
<1>1. HInv => RefsCoverHolders
  BY DEF HInv
<1> QED
  BY <1>1, HoldersInvariance, PTL

\* The limit that open, dup and dup3 test before they add a descriptor holds
\* in every state (plugin.maxOpenFiles, stdio included).
THEOREM WithinDescriptorLimit == Spec => []DescriptorLimit
<1>1. HInv => DescriptorLimit
  BY DEF HInv
<1> QED
  BY <1>1, HoldersInvariance, PTL

\* No call leaks a reference but an open that takes a descriptor in use and a
\* munmap that panics.
THEOREM LeaksAreKnown == Spec => LeakOnlyByClobber
<1>1. IInv /\ TypeOK' /\ HInv /\ [Next]_vars
        => [(\E f \in File : Slack(f)' # Slack(f))
             => ret' = "PANIC" \/ (nextFD' # nextFD /\ fds[nextFD] # Nil)]_vars
  BY NextHInv DEF Clobbers
<1> QED
  BY <1>1, HoldersInvariance, Invariance, TypeCorrect, PTL DEF Spec, LeakOnlyByClobber
-----------------------------------------------------------------------------
(* Names *)

\* Path p names f, which it did already or which no path named before.
Gives(p, f) ==
    /\ files[p] = f \/ (files[p] = Nil /\ ~Linked[f] /\ Parent(p) \in dirs)
    /\ files' = [files EXCEPT ![p] = f]
    /\ Linked' = [Linked EXCEPT ![f] = TRUE]
    /\ dirs' = dirs

\* Path p names nothing any more.
Takes(p) ==
    /\ files[p] # Nil
    /\ files' = [files EXCEPT ![p] = Nil]
    /\ Linked' = [Linked EXCEPT ![files[p]] = FALSE]
    /\ dirs' = dirs

\* What old named is named new, and what new named has no name.
Renames(old, new) ==
    /\ files[old] # Nil /\ Parent(new) \in dirs
    /\ files' = Renamed(old, new)
    /\ Linked' = IF files[new] = Nil THEN Linked
                 ELSE [Linked EXCEPT ![files[new]] = FALSE]
    /\ dirs' = dirs

\* The names stay, and only directories with nothing in them go.
Redirects ==
    /\ UNCHANGED <<files, Linked>>
    /\ \A q \in dirs \ dirs' : ~HasChildren(q)

Named ==
    \/ Redirects
    \/ \E p \in Path, f \in File : Gives(p, f)
    \/ \E p \in Path : Takes(p)
    \/ \E old, new \in Path : Renames(old, new)

LEMMA QuietNamed == ASSUME Quiet PROVE Named
  BY DEF Quiet, Named, Redirects

LEMMA FailNamed ==
    ASSUME NEW e, Reply(e) \/ Fail(e)
    PROVE  Named
  BY DEF Fail, Reply, state, Named, Redirects, Linked

\* Object f gets the mark of o.
LEMMA LinkedUpdate ==
    ASSUME IInv, NEW f \in File, NEW o, inode' = [inode EXCEPT ![f] = o]
    PROVE  Linked' = [Linked EXCEPT ![f] = o.linked] /\ Linked[f] = inode[f].linked
  BY DEF IInv, TypeOK, Linked

\* A handler that settles an object without touching its name.
LEMMA SettledNamed ==
    ASSUME IInv, NEW f \in File, NEW o \in Object, o.linked = inode[f].linked,
           inode' = [inode EXCEPT ![f] = Settled(o)],
           UNCHANGED <<files, dirs>>
    PROVE  Named
<1>1. Linked' = [Linked EXCEPT ![f] = Settled(o).linked]
  BY LinkedUpdate
<1>2. Linked[f] = Settled(o).linked
  BY SettledKeeps DEF Linked
<1>3. Linked' = Linked
  BY <1>1, <1>2 DEF Linked
<1> QED
  BY <1>3 DEF Named, Redirects

\* A handler that counts a holder does not touch the names either.
LEMMA ReferencedNamed ==
    ASSUME IInv, NEW f \in File, inode' = Referenced(f), UNCHANGED <<files, dirs>>
    PROVE  Named
<1> DEFINE o == [inode[f] EXCEPT !.refs = @ + 1]
<1>1. o.linked = inode[f].linked
  BY ObjectFacts DEF Object
<1>2. inode' = [inode EXCEPT ![f] = o]
  BY ObjectFacts DEF Referenced, Typed
<1> HIDE DEF o
<1>3. Linked' = Linked
  BY <1>1, <1>2, LinkedUpdate DEF Linked
<1> QED
  BY <1>3 DEF Named, Redirects

LEMMA OpenNamed ==
    ASSUME IInv, NEW p \in PathArg, NEW mode \in OpenMode, SyscallOpenat(p, mode)
    PROVE  Named
<1>1. CASE Fail(OpenError(p, mode))
  BY <1>1, FailNamed
<1>2. CASE ~Fail(OpenError(p, mode))
  <2>1. PICK f \in File, o \in Object, h \in Handle :
           /\ Opened(p, f) /\ files' = [files EXCEPT ![p] = f]
           /\ o.linked /\ o.refs = inode[f].refs + 1
           /\ o.data \in {<< >>, inode[f].data}
           /\ inode' = [inode EXCEPT ![f] = o]
           /\ bytes' = bytes - (Len(inode[f].data) - Len(o.data))
           /\ h.file = f /\ fds' = [fds EXCEPT ![nextFD] = h]
    BY <1>2, OpenChanges
  <2>2. OpenError(p, mode) = "OK" /\ p \in Path /\ dirs' = dirs
    BY <1>2, OpenChanges
  <2>3. Linked' = [Linked EXCEPT ![f] = TRUE]
    <3>1. o.linked = TRUE
      BY <2>1 DEF Object
    <3> QED
      BY <2>1, <3>1, LinkedUpdate
  <2>4. files[p] = f \/ (files[p] = Nil /\ ~Linked[f] /\ Parent(p) \in dirs)
    <3>1. CASE files[p] = Nil
      <4>1. inode[f] = Released
        BY <2>1, <3>1 DEF Opened, Unused
      <4>2. Parent(p) \in dirs
        BY <2>2, <3>1 DEF OpenError
      <4> QED
        BY <3>1, <4>1, <4>2 DEF Linked, Released
    <3>2. CASE files[p] # Nil
      BY <2>1, <3>2 DEF Opened
    <3> QED
      BY <3>1, <3>2
  <2> QED
    BY <2>1, <2>2, <2>3, <2>4 DEF Named, Gives
<1> QED
  BY <1>1, <1>2

LEMMA MkdirNamed ==
    ASSUME NEW p, SyscallMkdirat(p)
    PROVE  Named
<1>1. CASE Fail(MkdirError(p))
  BY <1>1, FailNamed
<1>2. CASE UNCHANGED <<files, inode>> /\ dirs' = dirs \cup {p}
  BY <1>2 DEF Named, Redirects, Linked
<1> QED
  BY <1>1, <1>2 DEF SyscallMkdirat

LEMMA RmdirNamed ==
    ASSUME NEW p, SyscallRmdir(p)
    PROVE  Named
<1>1. CASE Fail(RmdirError(p))
  BY <1>1, FailNamed
<1>2. CASE /\ UNCHANGED <<files, inode>> /\ dirs' = dirs \ {p}
           /\ RmdirError(p) = "OK"
  BY <1>2 DEF Named, Redirects, Linked, RmdirError
<1> QED
  BY <1>1, <1>2 DEF SyscallRmdir

\* An object that loses its name: what unlink and rename do to it.
Nameless(f) == [inode[f] EXCEPT !.linked = FALSE]

LEMMA NamelessLinked ==
    ASSUME IInv, NEW f \in File, inode' = [inode EXCEPT ![f] = Settled(Nameless(f))]
    PROVE  Linked' = [Linked EXCEPT ![f] = FALSE]
<1> DEFINE o == Settled(Nameless(f))
<1>1. Nameless(f) \in Object /\ Nameless(f).linked = FALSE
  BY ObjectFacts DEF Nameless, Object
<1>2. o.linked = FALSE
  BY <1>1, SettledKeeps
<1> HIDE DEF o
<1>3. Linked' = [Linked EXCEPT ![f] = o.linked]
  BY LinkedUpdate DEF o
<1> QED
  BY <1>2, <1>3

LEMMA UnlinkNamed ==
    ASSUME IInv, NEW p \in PathArg, SyscallUnlinkat(p)
    PROVE  Named
<1>1. CASE Fail(UnlinkError(p))
  BY <1>1, FailNamed
<1>2. CASE ~Fail(UnlinkError(p))
  <2>1. p \in Path /\ files[p] # Nil /\ files[p] \in File
    BY <1>2, ArgAssumption DEF SyscallUnlinkat, UnlinkError, IInv, TypeOK
  <2>2. /\ inode' = [inode EXCEPT ![files[p]] = Settled(Nameless(files[p]))]
        /\ files' = [files EXCEPT ![p] = Nil] /\ dirs' = dirs
    BY <1>2 DEF SyscallUnlinkat, Nameless
  <2>3. Linked' = [Linked EXCEPT ![files[p]] = FALSE]
    BY <2>1, <2>2, NamelessLinked
  <2> QED
    BY <2>1, <2>2, <2>3 DEF Named, Takes
<1> QED
  BY <1>1, <1>2

LEMMA RenameNamed ==
    ASSUME IInv, NEW old \in PathArg, NEW new \in PathArg, SyscallRenameat(old, new)
    PROVE  Named
<1>1. CASE Fail(RenameError(old, new))
  BY <1>1, FailNamed
<1>2. CASE /\ RenameError(old, new) = "OK"
           /\ RenameFile(old, new) \/ RenameDir(old, new)
  <2>1. old \in Path /\ new \in Path /\ Parent(new) \in dirs
    BY <1>2, ArgAssumption DEF RenameError
  <2>2. CASE RenameFile(old, new)
    <3>1. files[old] # Nil /\ files' = Renamed(old, new) /\ dirs' = dirs
      BY <2>2 DEF RenameFile
    <3>2. CASE files[new] = Nil
      <4>1. Linked' = Linked
        BY <2>2, <3>2 DEF RenameFile, Linked
      <4> QED
        BY <2>1, <3>1, <3>2, <4>1 DEF Named, Renames
    <3>3. CASE files[new] # Nil
      <4>1. files[new] \in File
        BY <2>1, <3>3 DEF IInv, TypeOK
      <4>2. inode' = [inode EXCEPT ![files[new]] = Settled(Nameless(files[new]))]
        BY <2>2, <3>3 DEF RenameFile, Nameless
      <4>3. Linked' = [Linked EXCEPT ![files[new]] = FALSE]
        BY <4>1, <4>2, NamelessLinked
      <4> QED
        BY <2>1, <3>1, <3>3, <4>3 DEF Named, Renames
    <3> QED
      BY <3>2, <3>3
  <2>3. CASE RenameDir(old, new)
    <3>1. files[old] = Nil /\ UNCHANGED <<files, inode>>
          /\ dirs' = (dirs \cup {new}) \ {old}
      BY <2>3 DEF RenameDir
    <3>2. ~HasChildren(old)
      BY <1>2, <3>1 DEF RenameError
    <3> QED
      BY <3>1, <3>2 DEF Named, Redirects, Linked
  <2> QED
    BY <1>2, <2>2, <2>3
<1> QED
  BY <1>1, <1>2 DEF SyscallRenameat

LEMMA CloseNamed ==
    ASSUME IInv, NEW d \in FD, WasiFDClose(d)
    PROVE  Named
<1>1. CASE Reply("OK") \/ Fail(DescriptorError(d))
  BY <1>1, FailNamed
<1>2. CASE ~Reply("OK") /\ ~Fail(DescriptorError(d))
  <2>1. fds[d].file \in File
    BY <1>2, HandleFacts DEF WasiFDClose, DescriptorError
  <2>2. /\ inode' = [inode EXCEPT ![fds[d].file] = Settled(Unreferenced(fds[d].file))]
        /\ UNCHANGED <<files, dirs>>
    BY <1>2 DEF WasiFDClose
  <2>3. /\ Unreferenced(fds[d].file) \in Object
        /\ Unreferenced(fds[d].file).linked = inode[fds[d].file].linked
    BY <2>1, UnreferencedType, ObjectFacts DEF Unreferenced, Object
  <2> QED
    BY <2>1, <2>2, <2>3, SettledNamed
<1> QED
  BY <1>1, <1>2

LEMMA DupNamed ==
    ASSUME IInv, NEW d \in FD, NEW from, SyscallDup(d, from)
    PROVE  Named
<1>1. CASE Fail(DupError(d))
  BY <1>1, FailNamed
<1>2. CASE /\ DupError(d) = "OK" /\ inode' = Referenced(fds[d].file)
           /\ UNCHANGED <<files, dirs>>
  <2>1. fds[d].file \in File
    BY <1>2, HandleFacts DEF DupError
  <2> QED
    BY <1>2, <2>1, ReferencedNamed
<1> QED
  BY <1>1, <1>2 DEF SyscallDup

LEMMA Dup3Named ==
    ASSUME IInv, NEW d \in FD, NEW e \in FD, SyscallDup3(d, e)
    PROVE  Named
<1>1. CASE Fail(Dup3Error(d, e))
  BY <1>1, FailNamed
<1>2. CASE Dup3Error(d, e) = "OK" /\ ~Fail(Dup3Error(d, e))
  <2> DEFINE f == fds[d].file
             g == fds[e].file
             o == Settled(Unreferenced(g))
             between == [inode EXCEPT ![g] = o]
  <2>1. f \in File /\ UNCHANGED <<files, dirs>>
    BY <1>2, HandleFacts DEF SyscallDup3, Dup3Error
  <2>2. CASE fds[e] = Nil
    <3>1. inode' = Referenced(f)
      BY <1>2, <2>2 DEF SyscallDup3
    <3> QED
      BY <2>1, <3>1, ReferencedNamed
  <2>3. CASE fds[e] # Nil
    <3>1. g \in File
      BY <2>3, HandleFacts
    <3>2. inode' = [between EXCEPT ![f].refs = @ + 1]
      BY <1>2, <2>3 DEF SyscallDup3
    <3>3. o \in Object /\ o.linked = inode[g].linked
      BY <3>1, UnreferencedType, ObjectFacts, SettledKeeps, SettledType
      DEF Unreferenced, Object
    <3>4. /\ between \in [File -> Object]
          /\ \A x \in File : between[x].linked = inode[x].linked
      <4> HIDE DEF o, g
      <4> QED
        BY <3>1, <3>3 DEF IInv, TypeOK
    <3> HIDE DEF between, f, g, o
    <3>5. inode' = [between EXCEPT ![f] = [between[f] EXCEPT !.refs = @ + 1]]
      BY <2>1, <3>2, <3>4
    <3>6. [between[f] EXCEPT !.refs = @ + 1].linked = between[f].linked
      BY <2>1, <3>4 DEF Object
    <3>7. Linked' = Linked
      BY <2>1, <3>4, <3>5, <3>6 DEF Linked
    <3> QED
      BY <2>1, <3>7 DEF Named, Redirects
  <2> QED
    BY <2>2, <2>3
<1> QED
  BY <1>1, <1>2 DEF SyscallDup3

LEMMA MmapNamed ==
    ASSUME IInv, NEW d \in FD, NEW req \in MapRequest, Mmap(d, req)
    PROVE  Named
<1>1. CASE Fail(MmapError(d, req)) \/ Fail("EINVAL") \/ Fail("EFAULT")
  BY <1>1, FailNamed
<1>2. CASE ~Fail(MmapError(d, req)) /\ ~Fail("EINVAL") /\ ~Fail("EFAULT")
  <2>1. /\ fds[d].file \in File /\ inode' = Referenced(fds[d].file)
        /\ UNCHANGED <<files, dirs>>
    BY <1>2, MmapChanges
  <2> QED
    BY <2>1, ReferencedNamed
<1> QED
  BY <1>1, <1>2

LEMMA MunmapNamed ==
    ASSUME IInv, NEW a \in Address, Munmap(a)
    PROVE  Named
<1> DEFINE m == mappings[a]
           f == m.file
           data == IF WritesBack(m) THEN Overwritten(inode[f].data, m.offset, m.view)
                   ELSE inode[f].data
           o == [Unreferenced(f) EXCEPT !.data = data]
<1>1. CASE m = Nil
  BY <1>1, FailNamed DEF Munmap
<1>2. CASE m # Nil
  <2>1. f \in File /\ UNCHANGED <<files, dirs>>
    BY <1>2 DEF Munmap, IInv, TypeOK, Mapping
  <2>2. CASE inode' = inode
    BY <2>1, <2>2 DEF Named, Redirects, Linked
  <2>3. CASE inode' = [inode EXCEPT ![f] = Settled(o)]
    <3>1. o.linked = inode[f].linked
      <4> HIDE DEF data, f
      <4> QED
        BY <2>1, ObjectFacts DEF Unreferenced, Object
    <3>2. Settled(o).linked = o.linked
      <4> HIDE DEF o, f
      <4> QED
        BY <2>1, <3>1, ObjectFacts DEF Settled, Dead, Released, Object
    <3>3. Linked' = [Linked EXCEPT ![f] = Settled(o).linked]
      <4> HIDE DEF o, f
      <4> QED
        BY <2>1, <2>3, LinkedUpdate
    <3> HIDE DEF o, f
    <3>4. Linked' = Linked
      BY <2>1, <3>1, <3>2, <3>3 DEF Linked
    <3> QED
      BY <2>1, <3>4 DEF Named, Redirects
  <2> QED
    BY <1>2, <2>2, <2>3 DEF Munmap
<1> QED
  BY <1>1, <1>2

\* Every step keeps the names, or gives, takes or moves one of them.
LEMMA NextNamed ==
    ASSUME IInv, [Next]_vars
    PROVE  Named
<1>1. CASE PathCall
  <2>1. PICK p \in PathArg :
           \/ \E mode \in OpenMode : SyscallOpenat(p, mode)
           \/ SyscallMkdirat(p)
           \/ SyscallRmdir(p)
           \/ SyscallUnlinkat(p)
           \/ \E q \in PathArg : SyscallRenameat(p, q)
           \/ SyscallFaccessat(p)
           \/ \E n \in Size : SyscallTruncate(p, n)
    BY <1>1 DEF PathCall
  <2>2. CASE \E mode \in OpenMode : SyscallOpenat(p, mode)
    BY <2>2, OpenNamed
  <2>3. CASE SyscallMkdirat(p) \/ SyscallRmdir(p) \/ SyscallUnlinkat(p)
    BY <2>3, MkdirNamed, RmdirNamed, UnlinkNamed
  <2>4. CASE \E q \in PathArg : SyscallRenameat(p, q)
    BY <2>4, RenameNamed
  <2>5. CASE SyscallFaccessat(p)
    BY <2>5, FaccessatStep, QuietNamed
  <2>6. CASE \E n \in Size : SyscallTruncate(p, n)
    BY <2>6, TruncateStep, QuietNamed
  <2> QED
    BY <2>1, <2>2, <2>3, <2>4, <2>5, <2>6
<1>2. CASE DescriptorCall
  <2>1. PICK d \in FdArg :
           \/ WasiFDClose(d)
           \/ \E e \in NewFdArg : SyscallDup(d, e) \/ SyscallDup3(d, e)
           \/ \E append \in AppendArg : SetFlags(d, append)
           \/ \E delta \in Delta, whence \in {"set", "cur", "end"} :
                 WasiFDSeek(d, delta, whence)
           \/ CheckFD(d)
           \/ WasiFDStatGet(d)
    BY <1>2 DEF DescriptorCall
  <2>2. d \in FD
    BY ArgTypes
  <2>3. CASE WasiFDClose(d)
    BY <2>2, <2>3, CloseNamed
  <2>4. CASE \E e \in NewFdArg : SyscallDup(d, e) \/ SyscallDup3(d, e)
    BY <2>2, <2>4, ArgTypes, DupNamed, Dup3Named
  <2>5. CASE \E append \in AppendArg : SetFlags(d, append)
    BY <2>2, <2>5, ArgTypes, SetFlagsStep, QuietNamed
  <2>6. CASE \E delta \in Delta, whence \in {"set", "cur", "end"} :
                WasiFDSeek(d, delta, whence)
    BY <2>2, <2>6, SeekStep, QuietNamed
  <2>7. CASE CheckFD(d) \/ WasiFDStatGet(d)
    BY <2>2, <2>7, CheckStep, QuietNamed
  <2> QED
    BY <2>1, <2>3, <2>4, <2>5, <2>6, <2>7
<1>3. CASE ContentCall
  BY <1>3, ContentStep, QuietNamed
<1>4. CASE MappingCall
  <2>1. CASE \E d \in FdArg, req \in MapRequest : Mmap(d, req)
    BY <2>1, ArgTypes, MmapNamed
  <2>2. CASE \E a \in Address : Munmap(a)
    BY <2>2, MunmapNamed
  <2>3. CASE \E a \in Address, i \in 1..MaxFilesystemBytes, b \in Byte :
                GuestStore(a, i, b)
    BY <2>3, GuestStoreStep, QuietNamed
  <2> QED
    BY <1>4, <2>1, <2>2, <2>3 DEF MappingCall
<1>5. CASE UNCHANGED vars
  BY <1>5 DEF vars, Named, Redirects, Linked
<1> QED
  BY <1>1, <1>2, <1>3, <1>4, <1>5 DEF Next

\* A file is a child of its directory, in the sense of strings.HasPrefix.
LEMMA ParentHolds ==
    ASSUME NEW p \in Path, files[p] # Nil, NEW q, Parent(p) = q
    PROVE  HasChildren(q)
<1>1. p \in Seq(STRING) /\ p # << >>
  BY ArgAssumption DEF Root
<1>2. Len(p) \in Nat /\ Len(p) >= 1
  BY <1>1
<1>3. q = SubSeq(p, 1, Len(p) - 1) /\ Len(q) = Len(p) - 1
  BY <1>1, <1>2 DEF Parent
<1>4. Below(p, q)
  BY <1>2, <1>3 DEF Below
<1> QED
  BY <1>4 DEF HasChildren

\* LinkedIffNamed and FilesHaveParents, read off files and the marks.
NamesAgree(table, mark) ==
    \A f \in File :
        /\ mark[f] <=> \E p \in Path : table[p] = f
        /\ \A p, q \in Path : table[p] = f /\ table[q] = f => p = q

LEMMA NamesAgreeMeaning == LinkedIffNamed <=> NamesAgree(files, Linked)
  BY DEF LinkedIffNamed, NamesAgree, Linked

LEMMA NamesAgreeMeaningNext == (LinkedIffNamed <=> NamesAgree(files, Linked))'
  BY NamesAgreeMeaning, PTL

LEMMA NextLinked ==
    ASSUME IInv, LinkedIffNamed, Named
    PROVE  LinkedIffNamed'
<1>1. NamesAgree(files, Linked) /\ Nil \notin File
  BY NamesAgreeMeaning, FileAssumption
<1>2. files \in [Path -> File \cup {Nil}] /\ Linked \in [File -> BOOLEAN]
  BY DEF IInv, TypeOK, Linked, Object
<1>3. NamesAgree(files', Linked')
  <2>1. CASE Redirects
    BY <1>1, <2>1 DEF Redirects
  <2>2. CASE \E p \in Path, f \in File : Gives(p, f)
    BY <1>1, <1>2, <2>2 DEF Gives, NamesAgree
  <2>3. CASE \E p \in Path : Takes(p)
    BY <1>1, <1>2, <2>3 DEF Takes, NamesAgree
  <2>4. CASE \E old, new \in Path : Renames(old, new)
    BY <1>1, <1>2, <2>4 DEF Renames, Renamed, NamesAgree
  <2> QED
    BY <2>1, <2>2, <2>3, <2>4 DEF Named
<1> QED
  BY <1>3, NamesAgreeMeaningNext

LEMMA NextParents ==
    ASSUME IInv, FilesHaveParents, Named
    PROVE  FilesHaveParents'
<1>1. files \in [Path -> File \cup {Nil}]
  BY DEF IInv, TypeOK
<1>2. CASE Redirects
  BY <1>2, ParentHolds DEF Redirects, FilesHaveParents
<1>3. CASE \E p \in Path, f \in File : Gives(p, f)
  BY <1>1, <1>3, FileAssumption DEF Gives, FilesHaveParents
<1>4. CASE \E p \in Path : Takes(p)
  BY <1>1, <1>4 DEF Takes, FilesHaveParents
<1>5. CASE \E old, new \in Path : Renames(old, new)
  BY <1>1, <1>5 DEF Renames, Renamed, FilesHaveParents
<1> QED
  BY <1>2, <1>3, <1>4, <1>5 DEF Named

\* An object's mark says whether a path names it, and no object has two
\* paths: what unlink, rename, close, dup3 and munmap rely on when they decide
\* whether a file's bytes go back (filesystem.go:241, 424, 461, 845, 1157).
THEOREM MarksMeanNames == Spec => []LinkedIffNamed
<1>1. Init => LinkedIffNamed
  BY FileAssumption DEF Init, LinkedIffNamed, Released
<1>2. IInv /\ LinkedIffNamed /\ [Next]_vars => LinkedIffNamed'
  BY NextNamed, NextLinked
<1> QED
  BY <1>1, <1>2, Invariance, PTL DEF Spec

\* No file loses its directory: the search for children by string prefix that
\* rmdir and rename make (filesystem.go:402, 473) finds every file of it.
THEOREM ParentsStay == Spec => []FilesHaveParents
<1>1. Init => FilesHaveParents
  BY DEF Init, FilesHaveParents
<1>2. IInv /\ FilesHaveParents /\ [Next]_vars => FilesHaveParents'
  BY NextNamed, NextParents
<1> QED
  BY <1>1, <1>2, Invariance, PTL DEF Spec

-----------------------------------------------------------------------------
(* Content *)

\* Content t begins with content s.
Continues(s, t) ==
    /\ s \in Seq(Byte) /\ t \in Seq(Byte) /\ Len(s) <= Len(t)
    /\ \A i \in 1..Len(s) : t[i] = s[i]

LEMMA ContinuesSelf ==
    ASSUME NEW s \in Seq(Byte)
    PROVE  Continues(s, s)
  BY DEF Continues

LEMMA ContinuesOn ==
    ASSUME NEW s, NEW t, NEW u, Continues(s, t), Continues(t, u)
    PROVE  Continues(s, u)
  BY DEF Continues

LEMMA ContinuesPrefix ==
    ASSUME NEW s, NEW t, Continues(s, t)
    PROVE  IsPrefixOf(s, t)
<1> DEFINE u == SubSeq(t, 1, Len(s))
<1>1. s \in Seq(Byte) /\ t \in Seq(Byte) /\ Len(s) \in Nat /\ Len(s) <= Len(t)
  BY DEF Continues
<1>2. u \in Seq(Byte) /\ Len(u) = Len(s) /\ \A i \in 1..Len(s) : u[i] = t[i]
  BY <1>1
<1>3. \A i \in 1..Len(s) : u[i] = s[i]
  BY <1>2 DEF Continues
<1> HIDE DEF u
<1>4. u = s
  BY <1>1, <1>2, <1>3
<1> QED
  BY <1>1, <1>4 DEF IsPrefixOf, u

\* A file that grows begins with what it held.
LEMMA ResizedContinues ==
    ASSUME NEW d \in Seq(Byte), NEW n \in Nat, Len(d) <= n
    PROVE  Continues(d, Resized(d, n))
<1>1. Resized(d, n) \in Seq(Byte) /\ Len(Resized(d, n)) = n
  BY ResizedType
<1>2. \A i \in 1..Len(d) : Resized(d, n)[i] = d[i]
  BY DEF Resized
<1> QED
  BY <1>1, <1>2 DEF Continues

\* So does a file that is written at its end.
LEMMA AppendedContinues ==
    ASSUME NEW d \in Seq(Byte), NEW v \in Seq(Byte)
    PROVE  Continues(d, Overwritten(d, Len(d), v))
<1> DEFINE u == Overwritten(d, Len(d), v)
<1>1. u \in Seq(Byte) /\ Len(u) = Larger(Len(d), Len(d) + Len(v))
  BY OverwrittenType
<1>2. \A i \in 1..Len(d) : u[i] = d[i]
  BY DEF Overwritten, Larger
<1> QED
  BY <1>1, <1>2 DEF Continues, Larger

\* What is copied in is there.
LEMMA OverwrittenHolds ==
    ASSUME NEW d \in Seq(Byte), NEW v \in Seq(Byte), NEW at \in Nat
    PROVE  Holds(Overwritten(d, at, v), at, v)
<1> DEFINE u == Overwritten(d, at, v)
           w == SubSeq(u, at + 1, at + Len(v))
<1>1. Len(v) \in Nat /\ Len(d) \in Nat
  OBVIOUS
<1>2. /\ u \in Seq(Byte) /\ Len(u) = Larger(Len(d), at + Len(v))
      /\ at + Len(v) <= Len(u)
  BY <1>1, OverwrittenType DEF Larger
<1>3. ASSUME NEW i \in 1..Len(v)
      PROVE  u[at + i] = v[i]
  <2>1. at + i \in 1..Larger(Len(d), at + Len(v)) /\ at + i > at
        /\ at + i <= at + Len(v) /\ (at + i) - at = i
    BY <1>1 DEF Larger
  <2> QED
    BY <2>1 DEF Overwritten
<1> HIDE DEF u
<1>4. w \in Seq(Byte) /\ Len(w) = Len(v) /\ \A i \in 1..Len(v) : w[i] = u[at + i]
  BY <1>1, <1>2, SubSeqProperties
<1> HIDE DEF w
<1>5. w = v
  BY <1>1, <1>3, <1>4
<1> QED
  BY <1>2, <1>5 DEF Holds, u, w

-----------------------------------------------------------------------------
(* Writes *)

\* A write never shortens what it writes to, and one that appends leaves it.
Grows(s, t, append) ==
    /\ t \in Seq(Byte) /\ Len(s) <= Len(t)
    /\ append => Continues(s, t)

LEMMA PutGrows ==
    ASSUME NEW t, Sound(t), NEW append \in BOOLEAN,
           NEW v \in Seq(Byte), Len(v) <= MaxInt64
    PROVE  Grows(t.data, Put(t, v, append).data, append)
<1> DEFINE size == Len(t.data)
           at   == Start(t, append)
           end  == Wrap64(at + Len(v))
           used == t.used + end - size
           grown == IF end > size THEN used ELSE t.used
<1>1. /\ t.data \in Seq(Byte) /\ size \in Nat /\ t.offset \in Int64
      /\ size <= MaxFilesystemBytes
  BY DEF Sound, Transfer
<1>2. at \in Int64 /\ at \in Int /\ (append => at = size)
  BY <1>1, LimitAssumption DEF Start, Int64
<1>3. end \in Int
  BY <1>2, LimitAssumption DEF Wrap64
<1>4. CASE Put(t, v, append).data = t.data
  BY <1>1, <1>4, ContinuesSelf DEF Grows
<1>5. CASE Put(t, v, append).data = Resized(t.data, Larger(size, end))
  <2>1. Larger(size, end) \in Nat /\ size <= Larger(size, end)
    BY <1>1, <1>3 DEF Larger
  <2> QED
    BY <1>1, <1>5, <2>1, ResizedContinues DEF Grows, Continues
<1>6. CASE ~(at < 0) /\ Put(t, v, append).data = Overwritten(t.data, at, v)
  <2>1. at \in Nat
    BY <1>2, <1>6
  <2>2. /\ Overwritten(t.data, at, v) \in Seq(Byte)
        /\ size <= Len(Overwritten(t.data, at, v))
    <3>1. Len(Overwritten(t.data, at, v)) = Larger(size, at + Len(v))
      BY <1>1, <2>1, OverwrittenType
    <3> QED
      BY <1>1, <2>1, <3>1, OverwrittenType DEF Larger
  <2>3. append => Continues(t.data, Overwritten(t.data, at, v))
    BY <1>1, <1>2, AppendedContinues
  <2> QED
    BY <1>6, <2>2, <2>3 DEF Grows
<1>7. t = [data |-> t.data, offset |-> t.offset, used |-> t.used, errno |-> t.errno]
  BY DEF Sound, Transfer
<1>8. \/ Put(t, v, append) = t
      \/ Put(t, v, append) = [t EXCEPT !.offset = at, !.errno = "EINVAL"]
      \/ Put(t, v, append)
           = [data |-> Resized(t.data, Larger(size, end)), offset |-> at,
              used |-> grown, errno |-> "PANIC"]
      \/ /\ ~(at < 0)
         /\ Put(t, v, append)
              = [data |-> Overwritten(t.data, at, v), offset |-> end,
                 used |-> grown, errno |-> "OK"]
  BY DEF Put
<1> HIDE DEF size, at, end, used, grown
<1>9. CASE Put(t, v, append) = [t EXCEPT !.offset = at, !.errno = "EINVAL"]
  <2>1. Put(t, v, append)
          = [data |-> t.data, offset |-> at, used |-> t.used, errno |-> "EINVAL"]
    BY <1>7, <1>9
  <2> QED
    BY <1>4, <2>1
<1> QED
  BY <1>4, <1>5, <1>6, <1>8, <1>9

LEMMA PutAllGrows ==
    ASSUME NEW t, Sound(t), NEW append \in BOOLEAN,
           NEW iov \in IOVecs, iov # Unreadable
    PROVE  Grows(t.data, PutAll(t, iov, append).data, append)
<1> DEFINE first == IF Len(iov) >= 1 THEN Put(t, iov[1], append) ELSE t
<1>1. /\ iov \in Seq(Seq(Byte)) /\ Len(iov) \in Nat
      /\ \A i \in 1..Len(iov) : iov[i] \in Seq(Byte) /\ Len(iov[i]) <= MaxInt64
  <2>1. iov \in Seq(Seq(Byte)) /\ \A i \in DOMAIN iov : Len(iov[i]) <= MaxInt64
    BY ArgAssumption
  <2> QED
    BY <2>1
<1>2. Sound(first) /\ Grows(t.data, first.data, append)
  <2>1. CASE Len(iov) >= 1
    <3>1. iov[1] \in Seq(Byte) /\ Len(iov[1]) <= MaxInt64
      BY <1>1, <2>1
    <3> QED
      BY <2>1, <3>1, PutKeeps, PutGrows
  <2>2. CASE ~(Len(iov) >= 1)
    <3>1. t.data \in Seq(Byte)
      BY DEF Sound, Transfer
    <3> QED
      BY <2>2, <3>1, ContinuesSelf DEF Grows
  <2> QED
    BY <2>1, <2>2
<1>3. CASE Len(iov) >= 2
  <2>1. iov[2] \in Seq(Byte) /\ Len(iov[2]) <= MaxInt64
    BY <1>1, <1>3
  <2>2. PutAll(t, iov, append) = Put(first, iov[2], append)
    BY <1>3 DEF PutAll
  <2> HIDE DEF first
  <2>3. Grows(first.data, Put(first, iov[2], append).data, append)
    BY <1>2, <2>1, PutGrows
  <2>4. t.data \in Seq(Byte)
    BY DEF Sound, Transfer
  <2> QED
    BY <1>2, <2>2, <2>3, <2>4, ContinuesOn DEF Grows
<1>4. CASE ~(Len(iov) >= 2)
  <2>1. PutAll(t, iov, append) = first
    BY <1>4 DEF PutAll
  <2> QED
    BY <1>2, <2>1
<1> QED
  BY <1>3, <1>4

\* What a write through a descriptor leaves.
LEMMA WrittenGrows ==
    ASSUME IInv, NEW d \in FD, fds[d] # Nil, NEW iov \in IOVecs,
           iov # Unreadable, NEW at \in Int64
    PROVE  Grows(ObjectOf(d).data, Written(d, iov, at).data, fds[d].append)
<1> DEFINE t == [data |-> ObjectOf(d).data, offset |-> at, used |-> bytes,
                 errno |-> "OK"]
<1>1. fds[d].file \in File /\ fds[d].append \in BOOLEAN
  BY HandleFacts DEF Handle
<1>2. Sound(t) /\ t.data = ObjectOf(d).data
  BY <1>1, ObjectFacts DEF Sound, Transfer, ObjectOf, Object, Replies
<1>3. Written(d, iov, at) = PutAll(t, iov, fds[d].append)
  BY DEF Written
<1> HIDE DEF t
<1>4. Grows(t.data, PutAll(t, iov, fds[d].append).data, fds[d].append)
  BY <1>1, <1>2, PutAllGrows
<1> QED
  BY <1>2, <1>3, <1>4

-----------------------------------------------------------------------------
(* Where a write ends *)

\* Two vectors, the second behind the first, leave what one would.
LEMMA OverwrittenTwice ==
    ASSUME NEW d \in Seq(Byte), NEW v \in Seq(Byte), NEW w \in Seq(Byte), NEW at \in Nat
    PROVE  Overwritten(Overwritten(d, at, v), at + Len(v), w) = Overwritten(d, at, v \o w)
<1> DEFINE l == Len(d)
           m == Len(v)
           n == Len(w)
           u == v \o w
           o == Overwritten(d, at, v)
           p == Overwritten(o, at + m, w)
           q == Overwritten(d, at, u)
<1>1. l \in Nat /\ m \in Nat /\ n \in Nat
  OBVIOUS
<1>2. /\ Len(u) = m + n
      /\ \A j \in 1..(m + n) : u[j] = IF j <= m THEN v[j] ELSE w[j - m]
  BY ConcatProperties
<1>3. o \in Seq(Byte) /\ Len(o) = Larger(l, at + m)
  BY <1>1, OverwrittenType
<1>4. \A i \in 1..Larger(l, at + m) :
        o[i] = IF i > at /\ i <= at + m THEN v[i - at]
               ELSE IF i <= l THEN d[i] ELSE Zero
  BY DEF Overwritten
<1>5. Larger(Larger(l, at + m), at + m + n) = Larger(l, at + m + n)
      /\ Larger(l, at + m + n) \in Nat
  BY <1>1 DEF Larger
<1>6. p = [i \in 1..Larger(l, at + m + n) |->
             IF i > at + m /\ i <= at + m + n THEN w[i - (at + m)]
             ELSE IF i <= Larger(l, at + m) THEN o[i] ELSE Zero]
  <2> HIDE DEF o
  <2> QED
    BY <1>3, <1>5 DEF Overwritten
<1>7. q = [i \in 1..Larger(l, at + m + n) |->
             IF i > at /\ i <= at + m + n THEN u[i - at]
             ELSE IF i <= l THEN d[i] ELSE Zero]
  <2>1. at + Len(u) = at + m + n
    BY <1>1, <1>2
  <2> HIDE DEF u
  <2> QED
    BY <2>1 DEF Overwritten
<1>8. ASSUME NEW i \in 1..Larger(l, at + m + n)
      PROVE  (IF i > at + m /\ i <= at + m + n THEN w[i - (at + m)]
              ELSE IF i <= Larger(l, at + m) THEN o[i] ELSE Zero)
             = (IF i > at /\ i <= at + m + n THEN u[i - at]
                ELSE IF i <= l THEN d[i] ELSE Zero)
  <2>1. i \in Nat /\ i >= 1
    BY <1>5
  <2> HIDE DEF u, o, l, m, n
  <2>2. CASE i > at + m /\ i <= at + m + n
    <3>1. i - at \in 1..(m + n) /\ ~(i - at <= m) /\ (i - at) - m = i - (at + m) /\ i > at
      BY <1>1, <2>1, <2>2
    <3> QED
      BY <1>2, <2>2, <3>1
  <2>3. CASE i > at /\ i <= at + m
    <3>1. /\ i - at \in 1..(m + n) /\ i - at <= m /\ i <= at + m + n /\ ~(i > at + m)
          /\ i \in 1..Larger(l, at + m) /\ i <= Larger(l, at + m)
      BY <1>1, <2>1, <2>3 DEF Larger
    <3>2. o[i] = v[i - at] /\ u[i - at] = v[i - at]
      BY <1>2, <1>4, <2>3, <3>1
    <3> QED
      BY <2>3, <3>1, <3>2
  <2>4. CASE ~(i > at) \/ i > at + m + n
    <3>1. ~(i > at + m /\ i <= at + m + n) /\ ~(i > at /\ i <= at + m + n)
          /\ ~(i > at /\ i <= at + m)
      BY <1>1, <2>1, <2>4
    <3>2. CASE i <= Larger(l, at + m)
      <4>1. i \in 1..Larger(l, at + m)
        BY <1>1, <2>1, <3>2 DEF Larger
      <4> QED
        BY <1>4, <3>1, <3>2, <4>1
    <3>3. CASE ~(i <= Larger(l, at + m))
      <4>1. ~(i <= l)
        BY <1>1, <2>1, <3>3 DEF Larger
      <4> QED
        BY <3>1, <3>3, <4>1
    <3> QED
      BY <3>2, <3>3
  <2> QED
    BY <1>1, <2>1, <2>2, <2>3, <2>4
<1>9. p = q
  <2> HIDE DEF p, q, o, u, l, m, n
  <2> QED
    BY <1>6, <1>7, <1>8
<1> QED
  BY <1>9

\* How one vector of a write comes out.
PutEnds(t, v, append, r) ==
    LET at == Start(t, append) IN
    \/ /\ r.errno = "OK" /\ at \in Nat /\ r.offset = at + Len(v)
       /\ r.data = Overwritten(t.data, at, v)
    \/ r.errno = "EINVAL" /\ r.offset = at /\ r.data = t.data
    \/ r.errno = "PANIC" /\ t.offset < 0 /\ ~append

LEMMA PutOutcome ==
    ASSUME NEW t, Sound(t), t.errno = "OK", NEW append \in BOOLEAN,
           NEW v \in Seq(Byte), Len(v) <= MaxInt64
    PROVE  PutEnds(t, v, append, Put(t, v, append))
<1> DEFINE size == Len(t.data)
           at   == Start(t, append)
           end  == Wrap64(at + Len(v))
           used == t.used + end - size
           grown == IF end > size THEN used ELSE t.used
           r == Put(t, v, append)
<1>1. /\ t.data \in Seq(Byte) /\ size \in Nat /\ size <= MaxFilesystemBytes
      /\ t.offset \in Int64 /\ Len(v) \in Nat
      /\ t = [data |-> t.data, offset |-> t.offset, used |-> t.used, errno |-> t.errno]
  BY DEF Sound, Transfer
<1>2. /\ at \in Int64 /\ at \in Int
      /\ at < 0 => t.offset < 0 /\ ~append
  BY <1>1, LimitAssumption DEF Start, Int64
<1>3. at + Len(v) \in Int /\ -MaxInt64 - 1 <= at + Len(v) /\ at + Len(v) <= 2 * MaxInt64
  BY <1>1, <1>2, LimitAssumption DEF Int64
<1>4. /\ end \in Int64 /\ (at + Len(v) \in Int64 => end = at + Len(v))
      /\ (at + Len(v) > MaxInt64 => end < 0) /\ end \in Int
  BY <1>3, Wrap64Type, LimitAssumption DEF Int64
<1>5. \/ r = [t EXCEPT !.offset = at, !.errno = "EINVAL"]
      \/ /\ at < 0
         /\ r = [data |-> Resized(t.data, Larger(size, end)), offset |-> at,
                 used |-> grown, errno |-> "PANIC"]
      \/ /\ ~(at < 0) /\ ~(end < 0)
         /\ r = [data |-> Overwritten(t.data, at, v), offset |-> end,
                 used |-> grown, errno |-> "OK"]
  BY DEF Put
<1>6. CASE r = [t EXCEPT !.offset = at, !.errno = "EINVAL"]
  <2>1. r = [data |-> t.data, offset |-> at, used |-> t.used, errno |-> "EINVAL"]
    BY <1>1, <1>6
  <2>2. r.errno = "EINVAL" /\ r.offset = at /\ r.data = t.data
    BY <2>1
  <2> QED
    BY <2>2 DEF PutEnds
<1>7. CASE /\ at < 0
           /\ r = [data |-> Resized(t.data, Larger(size, end)), offset |-> at,
                   used |-> grown, errno |-> "PANIC"]
  <2>1. r.errno = "PANIC" /\ t.offset < 0 /\ ~append
    <3> HIDE DEF grown, end, at
    <3> QED
      BY <1>2, <1>7
  <2> QED
    BY <2>1 DEF PutEnds
<1>8. CASE /\ ~(at < 0) /\ ~(end < 0)
           /\ r = [data |-> Overwritten(t.data, at, v), offset |-> end,
                   used |-> grown, errno |-> "OK"]
  <2>1. at \in Nat
    BY <1>2, <1>8
  <2>2. end = at + Len(v)
    <3>1. ~(at + Len(v) > MaxInt64)
      BY <1>4, <1>8
    <3>2. at + Len(v) \in Int64
      BY <1>1, <1>3, <2>1, <3>1, LimitAssumption DEF Int64
    <3> QED
      BY <1>4, <3>2
  <2>3. r.errno = "OK" /\ r.offset = at + Len(v) /\ r.data = Overwritten(t.data, at, v)
    <3> HIDE DEF grown, end, at
    <3> QED
      BY <1>8, <2>2
  <2> QED
    BY <2>1, <2>3 DEF PutEnds
<1> QED
  BY <1>5, <1>6, <1>7, <1>8

\* How a write of several vectors comes out.
WriteEnds(t, iov, append, r) ==
    LET begin == IF append /\ iov # << >> THEN Len(t.data) ELSE t.offset IN
    IF r.errno = "PANIC" THEN t.offset < 0 /\ ~append
    ELSE \E k \in 0..Len(iov) :
           /\ r.errno = "OK" => k = Len(iov)
           /\ r.data = IF k = 0 THEN t.data
                       ELSE Overwritten(t.data, begin, FirstVectors(iov, k))
           /\ r.offset = begin + Len(FirstVectors(iov, k))

LEMMA PutAllOutcome ==
    ASSUME NEW t, Sound(t), t.errno = "OK", NEW append \in BOOLEAN,
           NEW iov \in IOVecs, iov # Unreadable
    PROVE  WriteEnds(t, iov, append, PutAll(t, iov, append))
<1> DEFINE begin == IF append /\ iov # << >> THEN Len(t.data) ELSE t.offset
           first == Put(t, iov[1], append)
           r == PutAll(t, iov, append)
<1>1. /\ iov \in Seq(Seq(Byte)) /\ Len(iov) \in {0, 1, 2}
      /\ \A i \in 1..Len(iov) : iov[i] \in Seq(Byte) /\ Len(iov[i]) <= MaxInt64
  <2>1. /\ iov \in Seq(Seq(Byte)) /\ \A i \in DOMAIN iov : Len(iov[i]) <= MaxInt64
        /\ Len(iov) <= 2
    BY ArgAssumption
  <2>2. Len(iov) \in Nat /\ DOMAIN iov = 1..Len(iov)
    BY <2>1
  <2>3. \A n \in Nat : n <= 2 => n \in {0, 1, 2}
    OBVIOUS
  <2>4. \A i \in 1..Len(iov) : iov[i] \in Seq(Byte)
    BY <2>1, ElementOfSeq
  <2> QED
    BY <2>1, <2>2, <2>3, <2>4
<1>2. t.data \in Seq(Byte) /\ t.offset \in Int
  BY LimitAssumption DEF Sound, Transfer, Int64
<1>3. CASE Len(iov) = 0
  <2>1. iov = << >> /\ r = t
    BY <1>1, <1>3, EmptySeq DEF PutAll
  <2>2. begin = t.offset /\ FirstVectors(iov, 0) = << >> /\ 0 \in 0..Len(iov)
    BY <1>3, <2>1 DEF FirstVectors
  <2>3. t.offset = begin + Len(FirstVectors(iov, 0))
    BY <1>2, <2>2
  <2> QED
    BY <1>3, <2>1, <2>2, <2>3 DEF WriteEnds
<1>4. CASE Len(iov) \in {1, 2}
  <2>1. /\ iov # << >> /\ iov[1] \in Seq(Byte) /\ Len(iov[1]) <= MaxInt64
        /\ Len(iov) >= 1
    BY <1>1, <1>4
  <2>2. Start(t, append) = begin
    BY <2>1 DEF Start
  <2>3. PutEnds(t, iov[1], append, first) /\ Sound(first)
    BY <2>1, PutOutcome, PutKeeps
  <2>4. \/ /\ first.errno = "OK" /\ begin \in Nat /\ first.offset = begin + Len(iov[1])
           /\ first.data = Overwritten(t.data, begin, iov[1])
        \/ first.errno = "EINVAL" /\ first.offset = begin /\ first.data = t.data
        \/ first.errno = "PANIC" /\ t.offset < 0 /\ ~append
    BY <2>2, <2>3 DEF PutEnds
  <2>5. FirstVectors(iov, 0) = << >> /\ FirstVectors(iov, 1) = iov[1]
        /\ FirstVectors(iov, 2) = iov[1] \o iov[2]
    BY DEF FirstVectors
  <2>6. begin \in Int /\ begin = begin + Len(<< >>)
    BY <1>2
  <2>7. 0 \in 0..Len(iov) /\ 1 \in 0..Len(iov)
    BY <1>4
  <2>8. Len(iov) = 2 => r = Put(first, iov[2], append)
    BY DEF PutAll
  <2>9. Len(iov) = 1 => r = first
    BY DEF PutAll
  <2> HIDE DEF first, r, begin
  <2>10. CASE first.errno = "PANIC" \/ first.errno = "EINVAL"
    <3>1. r = first
      BY <1>4, <2>8, <2>9, <2>10 DEF Put
    <3>2. CASE first.errno = "PANIC"
      BY <2>4, <3>1, <3>2 DEF WriteEnds, r
    <3>3. CASE first.errno = "EINVAL"
      <4>1. /\ r.errno = "EINVAL" /\ r.data = t.data
            /\ r.offset = begin + Len(FirstVectors(iov, 0))
        BY <2>4, <2>5, <2>6, <3>1, <3>3
      <4> QED
        BY <2>7, <4>1 DEF WriteEnds, r, begin
    <3> QED
      BY <2>10, <3>2, <3>3
  <2>11. CASE first.errno = "OK" /\ Len(iov) = 1
    <3>1. /\ r.errno = "OK" /\ r.data = Overwritten(t.data, begin, FirstVectors(iov, 1))
          /\ r.offset = begin + Len(FirstVectors(iov, 1))
      BY <2>4, <2>5, <2>9, <2>11
    <3> QED
      BY <2>7, <2>11, <3>1 DEF WriteEnds, r, begin
  <2>12. CASE first.errno = "OK" /\ Len(iov) = 2
    <3> DEFINE v == iov[1]
               w == iov[2]
               m == Len(v)
    <3>1. /\ begin \in Nat /\ first.offset = begin + m
          /\ v \in Seq(Byte) /\ first.data = Overwritten(t.data, begin, v)
      BY <2>1, <2>4, <2>12
    <3>2. w \in Seq(Byte) /\ Len(w) <= MaxInt64
      BY <1>1, <2>12
    <3>3. /\ r = Put(first, w, append)
          /\ FirstVectors(iov, 1) = v /\ FirstVectors(iov, 2) = v \o w
      BY <2>5, <2>8, <2>12
    <3> HIDE DEF v, w
    <3>4. m \in Nat /\ Len(w) \in Nat /\ Len(v \o w) = m + Len(w)
      BY <3>1, <3>2
    <3>5. Start(first, append) = begin + m
      <4>1. CASE append
        <5>1. begin = Len(t.data)
          BY <2>1, <4>1 DEF begin
        <5>2. Len(first.data) = Larger(Len(t.data), begin + m)
          BY <1>2, <3>1, OverwrittenType
        <5> QED
          BY <3>1, <3>4, <4>1, <5>1, <5>2 DEF Start, Larger
      <4>2. CASE ~append
        BY <3>1, <4>2 DEF Start
      <4> QED
        BY <4>1, <4>2
    <3>6. PutEnds(first, w, append, r)
      BY <2>3, <2>12, <3>2, <3>3, PutOutcome
    <3>7. \/ /\ r.errno = "OK" /\ r.offset = begin + m + Len(w)
             /\ r.data = Overwritten(first.data, begin + m, w)
          \/ r.errno = "EINVAL" /\ r.offset = begin + m /\ r.data = first.data
      <4>1. ~(first.offset < 0)
        BY <3>1, <3>4
      <4> QED
        BY <3>5, <3>6, <4>1 DEF PutEnds
    <3>8. CASE r.errno = "OK"
      <4>1. Overwritten(Overwritten(t.data, begin, v), begin + Len(v), w)
              = Overwritten(t.data, begin, v \o w)
        BY <1>2, <3>1, <3>2, OverwrittenTwice
      <4>2. r.data = Overwritten(t.data, begin, FirstVectors(iov, 2))
        <5>1. r.data = Overwritten(first.data, begin + m, w)
          BY <3>7, <3>8
        <5> QED
          BY <3>1, <3>3, <4>1, <5>1
      <4>3. r.offset = begin + Len(FirstVectors(iov, 2))
        <5>1. r.offset = begin + m + Len(w)
          BY <3>7, <3>8
        <5>2. \A i, j, k \in Nat : i + j + k = i + (j + k)
          OBVIOUS
        <5>3. r.offset = begin + (m + Len(w))
          BY <3>1, <3>4, <5>1, <5>2
        <5> QED
          BY <3>3, <3>4, <5>3
      <4>4. 2 \in 0..Len(iov)
        BY <2>12
      <4> QED
        BY <2>12, <3>8, <4>2, <4>3, <4>4 DEF WriteEnds, r, begin
    <3>9. CASE r.errno = "EINVAL"
      <4>1. /\ r.data = Overwritten(t.data, begin, FirstVectors(iov, 1))
            /\ r.offset = begin + Len(FirstVectors(iov, 1))
        BY <3>1, <3>3, <3>7, <3>9
      <4> QED
        BY <2>7, <3>9, <4>1 DEF WriteEnds, r, begin
    <3> QED
      BY <3>7, <3>8, <3>9
  <2> QED
    BY <1>4, <2>4, <2>10, <2>11, <2>12
<1> QED
  BY <1>1, <1>3, <1>4

\* The same of a descriptor's write, from its file and for the offset aimed at.
LEMMA WrittenOutcome ==
    ASSUME IInv, NEW d \in FD, NEW iov \in IOVecs, WriteError(d, iov) = "OK",
           NEW at \in Int64
    PROVE  LET r == Written(d, iov, at) IN
           IF r.errno = "PANIC" THEN at < 0 /\ ~fds[d].append
           ELSE \E k \in 0..Len(iov) :
                  /\ r.errno = "OK" => k = Len(iov)
                  /\ r.data = WithFirst(d, iov, at, k)
                  /\ r.offset = WriteBegin(d, iov, at) + Len(FirstVectors(iov, k))
<1> DEFINE t == [data |-> ObjectOf(d).data, offset |-> at, used |-> bytes,
                 errno |-> "OK"]
           r == Written(d, iov, at)
<1>1. /\ fds[d] # Nil /\ iov # Unreadable
      /\ fds[d].file \in File /\ fds[d].append \in BOOLEAN
  BY HandleFacts DEF Handle, WriteError
<1>2. Sound(t) /\ t.data = ObjectOf(d).data /\ t.offset = at /\ t.errno = "OK"
  BY <1>1, ObjectFacts DEF Sound, Transfer, ObjectOf, Object, Replies
<1>3. r = PutAll(t, iov, fds[d].append)
  BY DEF Written
<1> HIDE DEF t, r
<1>4. WriteEnds(t, iov, fds[d].append, r)
  BY <1>1, <1>2, <1>3, PutAllOutcome
<1>5. IF r.errno = "PANIC" THEN at < 0 /\ ~fds[d].append
      ELSE \E k \in 0..Len(iov) :
             /\ r.errno = "OK" => k = Len(iov)
             /\ r.data = WithFirst(d, iov, at, k)
             /\ r.offset = WriteBegin(d, iov, at) + Len(FirstVectors(iov, k))
  BY <1>2, <1>4 DEF WriteEnds, WithFirst, WriteBegin
<1> QED
  BY <1>5 DEF r

\* What storing it makes of the file and the offset.
LEMMA StoreEnds ==
    ASSUME IInv, NEW d \in FD, fds[d] # Nil, NEW t, NEW offset, Store(d, t, offset)
    PROVE  /\ ObjectOf(d).data' = t.data /\ fds'[d].offset = offset /\ ret' = t.errno
<1>1. fds[d] \in Handle /\ fds[d].file \in File /\ inode[fds[d].file] \in Object
  BY HandleFacts, ObjectFacts
<1>2. /\ fds' = [fds EXCEPT ![d].offset = offset] /\ ret' = t.errno
      /\ inode' = [inode EXCEPT ![fds[d].file].data = t.data]
  BY DEF Store, Return
<1>3. fds'[d].file = fds[d].file /\ fds'[d].offset = offset
  BY <1>1, <1>2 DEF IInv, TypeOK, Handle
<1>4. inode'[fds[d].file].data = t.data
  BY <1>1, <1>2 DEF IInv, TypeOK, Object
<1> QED
  BY <1>2, <1>3, <1>4 DEF ObjectOf

-----------------------------------------------------------------------------
(* The kinds of step *)

\* No file has new content, no mapping ends, and an errno means no change.
Plain ==
    /\ \A g \in File : inode'[g].data \in {inode[g].data, << >>}
    /\ \A a \in Address : mappings[a] # Nil => mappings'[a] # Nil
    /\ ret' \in {"OK", "PANIC"} \/ UNCHANGED state

\* One file is given a size.
Resizes ==
    /\ \E f \in File, n \in Nat : \A g \in File :
          inode'[g].data = IF g = f THEN Resized(inode[f].data, n)
                           ELSE inode[g].data
    /\ ret' = "OK" /\ mappings' = mappings

\* One file is written through a descriptor that may write.
Writes ==
    /\ \E d \in FD, c \in Seq(Byte) :
          /\ fds[d] # Nil /\ fds[d].access # "read"
          /\ Grows(ObjectOf(d).data, c, fds[d].append)
          /\ \A g \in File : inode'[g].data = IF g = fds[d].file THEN c
                                              ELSE inode[g].data
    /\ Quiet /\ mappings' = mappings

LEMMA ReplyPlain ==
    ASSUME NEW e, Reply(e) \/ Fail(e)
    PROVE  Plain
  BY DEF Reply, Fail, state, Plain

\* A handler that leaves objects and mappings alone.
LEMMA IdlePlain ==
    ASSUME UNCHANGED <<mappings, inode>>, ret' = "OK"
    PROVE  Plain
  BY DEF Plain

\* A handler that settles an object keeps its content or drops it.
LEMMA SettledData ==
    ASSUME IInv, NEW f \in File, NEW o \in Object, o.data = inode[f].data,
           inode' = [inode EXCEPT ![f] = Settled(o)]
    PROVE  \A g \in File : inode'[g].data \in {inode[g].data, << >>}
<1>1. Settled(o).data \in {o.data, << >>}
  BY DEF Settled, Released
<1>2. \A g \in File : inode'[g] = IF g = f THEN Settled(o) ELSE inode[g]
  BY DEF IInv, TypeOK
<1> QED
  BY <1>1, <1>2

\* A handler that counts a holder keeps all content.
LEMMA ReferencedData ==
    ASSUME IInv, NEW f \in File, inode' = Referenced(f)
    PROVE  \A g \in File : inode'[g].data = inode[g].data
<1> DEFINE o == [inode[f] EXCEPT !.refs = @ + 1]
<1>1. o.data = inode[f].data
  BY ObjectFacts DEF Object
<1>2. inode' = [inode EXCEPT ![f] = o]
  BY ObjectFacts DEF Referenced, Typed
<1> HIDE DEF o
<1> QED
  BY <1>1, <1>2 DEF IInv, TypeOK

LEMMA OpenPlain ==
    ASSUME IInv, NEW p \in PathArg, NEW mode \in OpenMode, SyscallOpenat(p, mode)
    PROVE  Plain
<1>1. CASE Fail(OpenError(p, mode))
  BY <1>1, ReplyPlain
<1>2. CASE ~Fail(OpenError(p, mode))
  <2>1. PICK f \in File, o \in Object, h \in Handle :
           /\ Opened(p, f) /\ files' = [files EXCEPT ![p] = f]
           /\ o.linked /\ o.refs = inode[f].refs + 1
           /\ o.data \in {<< >>, inode[f].data}
           /\ inode' = [inode EXCEPT ![f] = o]
           /\ bytes' = bytes - (Len(inode[f].data) - Len(o.data))
           /\ h.file = f /\ fds' = [fds EXCEPT ![nextFD] = h]
    BY <1>2, OpenChanges
  <2>2. ret' = "OK" /\ mappings' = mappings
    BY <1>2, OpenChanges
  <2>3. \A g \in File : inode'[g] = IF g = f THEN o ELSE inode[g]
    BY <2>1 DEF IInv, TypeOK
  <2> QED
    BY <2>1, <2>2, <2>3 DEF Plain
<1> QED
  BY <1>1, <1>2

LEMMA DirsPlain ==
    ASSUME NEW p, SyscallMkdirat(p) \/ SyscallRmdir(p)
    PROVE  Plain
<1>1. CASE Fail(MkdirError(p)) \/ Fail(RmdirError(p))
  BY <1>1, ReplyPlain
<1>2. CASE UNCHANGED <<mappings, inode>> /\ ret' = "OK"
  BY <1>2, IdlePlain
<1> QED
  BY <1>1, <1>2 DEF SyscallMkdirat, SyscallRmdir, Return

\* An object loses its name and nothing else.
LEMMA NamelessPlain ==
    ASSUME IInv, NEW f \in File, inode' = [inode EXCEPT ![f] = Settled(Nameless(f))],
           ret' = "OK", mappings' = mappings
    PROVE  Plain
<1>1. Nameless(f) \in Object /\ Nameless(f).data = inode[f].data
  BY ObjectFacts DEF Nameless, Object
<1> QED
  BY <1>1, SettledData DEF Plain

LEMMA UnlinkPlain ==
    ASSUME IInv, NEW p \in PathArg, SyscallUnlinkat(p)
    PROVE  Plain
<1>1. CASE Fail(UnlinkError(p))
  BY <1>1, ReplyPlain
<1>2. CASE ~Fail(UnlinkError(p))
  <2>1. files[p] \in File
    BY <1>2, ArgAssumption DEF SyscallUnlinkat, UnlinkError, IInv, TypeOK
  <2>2. /\ inode' = [inode EXCEPT ![files[p]] = Settled(Nameless(files[p]))]
        /\ mappings' = mappings /\ ret' = "OK"
    BY <1>2 DEF SyscallUnlinkat, Nameless, Return
  <2> QED
    BY <2>1, <2>2, NamelessPlain
<1> QED
  BY <1>1, <1>2

LEMMA RenamePlain ==
    ASSUME IInv, NEW old \in PathArg, NEW new \in PathArg, SyscallRenameat(old, new)
    PROVE  Plain
<1>1. CASE Fail(RenameError(old, new))
  BY <1>1, ReplyPlain
<1>2. CASE /\ RenameError(old, new) = "OK"
           /\ RenameFile(old, new) \/ RenameDir(old, new)
           /\ mappings' = mappings /\ ret' = "OK"
  <2>1. CASE inode' = inode
    BY <1>2, <2>1, IdlePlain
  <2>2. CASE RenameFile(old, new) /\ files[new] # Nil
    <3>1. files[new] \in File
      BY <1>2, <2>2, ArgAssumption DEF RenameError, IInv, TypeOK
    <3>2. inode' = [inode EXCEPT ![files[new]] = Settled(Nameless(files[new]))]
      BY <2>2 DEF RenameFile, Nameless
    <3> QED
      BY <1>2, <3>1, <3>2, NamelessPlain
  <2> QED
    BY <1>2, <2>1, <2>2 DEF RenameFile, RenameDir
<1> QED
  BY <1>1, <1>2 DEF SyscallRenameat, Return

LEMMA ClosePlain ==
    ASSUME IInv, NEW d \in FD, WasiFDClose(d)
    PROVE  Plain
<1>1. CASE Reply("OK") \/ Fail(DescriptorError(d))
  BY <1>1, ReplyPlain
<1>2. CASE ~Reply("OK") /\ ~Fail(DescriptorError(d))
  <2>1. fds[d].file \in File
    BY <1>2, HandleFacts DEF WasiFDClose, DescriptorError
  <2>2. /\ inode' = [inode EXCEPT ![fds[d].file] = Settled(Unreferenced(fds[d].file))]
        /\ mappings' = mappings /\ ret' = "OK"
    BY <1>2 DEF WasiFDClose, Return
  <2>3. \A g \in File : inode'[g].data \in {inode[g].data, << >>}
    BY <2>1, <2>2, UnreferencedType, SettledData
  <2> QED
    BY <2>2, <2>3 DEF Plain
<1> QED
  BY <1>1, <1>2

LEMMA DupPlain ==
    ASSUME IInv, NEW d \in FD, NEW from, SyscallDup(d, from)
    PROVE  Plain
<1>1. CASE Fail(DupError(d))
  BY <1>1, ReplyPlain
<1>2. CASE /\ DupError(d) = "OK" /\ inode' = Referenced(fds[d].file)
           /\ mappings' = mappings /\ ret' = "OK"
  <2>1. fds[d].file \in File
    BY <1>2, HandleFacts DEF DupError
  <2> QED
    BY <1>2, <2>1, ReferencedData DEF Plain
<1> QED
  BY <1>1, <1>2 DEF SyscallDup, Return

LEMMA Dup3Plain ==
    ASSUME IInv, NEW d \in FD, NEW e \in FD, SyscallDup3(d, e)
    PROVE  Plain
<1>1. CASE Fail(Dup3Error(d, e))
  BY <1>1, ReplyPlain
<1>2. CASE Dup3Error(d, e) = "OK" /\ ~Fail(Dup3Error(d, e))
  <2> DEFINE f == fds[d].file
             g == fds[e].file
             o == Settled(Unreferenced(g))
             between == [inode EXCEPT ![g] = o]
  <2>1. f \in File /\ mappings' = mappings /\ ret' = "OK"
    BY <1>2, HandleFacts DEF SyscallDup3, Dup3Error, Return
  <2>2. CASE fds[e] = Nil
    <3>1. inode' = Referenced(f)
      BY <1>2, <2>2 DEF SyscallDup3
    <3> HIDE DEF f
    <3> QED
      BY <2>1, <3>1, ReferencedData DEF Plain
  <2>3. CASE fds[e] # Nil
    <3>1. g \in File
      BY <2>3, HandleFacts
    <3>2. inode' = [between EXCEPT ![f].refs = @ + 1]
      BY <1>2, <2>3 DEF SyscallDup3
    <3>3. o \in Object /\ o.data \in {inode[g].data, << >>}
      BY <3>1, UnreferencedType, SettledType DEF Settled, Released
    <3>4. /\ between \in [File -> Object]
          /\ \A x \in File : between[x].data \in {inode[x].data, << >>}
      <4> HIDE DEF o, g
      <4> QED
        BY <3>1, <3>3 DEF IInv, TypeOK
    <3> HIDE DEF between, f, g, o
    <3>5. inode' = [between EXCEPT ![f] = [between[f] EXCEPT !.refs = @ + 1]]
      BY <2>1, <3>2, <3>4
    <3>6. [between[f] EXCEPT !.refs = @ + 1].data = between[f].data
      BY <2>1, <3>4 DEF Object
    <3>7. \A x \in File : inode'[x].data = between[x].data
      BY <2>1, <3>4, <3>5, <3>6
    <3> QED
      BY <2>1, <3>4, <3>7 DEF Plain
  <2> QED
    BY <2>2, <2>3
<1> QED
  BY <1>1, <1>2 DEF SyscallDup3

\* The calls that change at most a handle, and those that change nothing.
LEMMA HandlePlain ==
    ASSUME NEW d, NEW append, NEW delta, NEW whence, NEW iov, NEW at,
           \/ SetFlags(d, append) \/ WasiFDSeek(d, delta, whence)
           \/ CheckFD(d) \/ WasiFDStatGet(d)
           \/ WasiFDRead(d, iov) \/ WasiPread(d, iov, at)
    PROVE  Plain
<1>1. CASE \E e : Reply(e) \/ Fail(e)
  BY <1>1, ReplyPlain
<1>2. CASE UNCHANGED <<mappings, inode>> /\ ret' = "OK"
  BY <1>2, IdlePlain
<1>3. CASE CheckFD(d) \/ WasiFDStatGet(d) \/ WasiPread(d, iov, at)
  BY <1>1, <1>3 DEF CheckFD, WasiFDStatGet, WasiPread
<1>4. CASE SetFlags(d, append) \/ WasiFDSeek(d, delta, whence) \/ WasiFDRead(d, iov)
  BY <1>1, <1>2, <1>4 DEF SetFlags, WasiFDSeek, WasiFDRead, Return
<1> QED
  BY <1>3, <1>4

LEMMA MmapPlain ==
    ASSUME IInv, NEW d \in FD, NEW req \in MapRequest, Mmap(d, req)
    PROVE  Plain
<1>1. CASE Fail(MmapError(d, req)) \/ Fail("EINVAL") \/ Fail("EFAULT")
  BY <1>1, ReplyPlain
<1>2. CASE ~Fail(MmapError(d, req)) /\ ~Fail("EINVAL") /\ ~Fail("EFAULT")
  <2>1. fds[d].file \in File /\ inode' = Referenced(fds[d].file) /\ ret' = "OK"
    BY <1>2, MmapChanges
  <2>2. PICK a \in Address, m \in Mapping :
           /\ mappings[a] = Nil /\ m.file = fds[d].file
           /\ mappings' = [mappings EXCEPT ![a] = m]
    BY <1>2, MmapChanges
  <2>3. \A b \in Address : mappings[b] # Nil => mappings'[b] # Nil
    BY <2>2 DEF IInv, TypeOK
  <2> QED
    BY <2>1, <2>3, ReferencedData DEF Plain
<1> QED
  BY <1>1, <1>2

LEMMA GuestStorePlain ==
    ASSUME IInv, NEW a \in Address, NEW i \in Nat, NEW b \in Byte, GuestStore(a, i, b)
    PROVE  Plain
<1>1. Maps' = Maps
  BY GuestStoreStep DEF Quiet
<1>2. ASSUME NEW c \in Address, mappings[c] # Nil
      PROVE  mappings'[c] # Nil
  <2>1. Maps[c] # Nil
    BY <1>2, IInvPointed DEF Pointed
  <2>2. Maps'[c] # Nil
    BY <1>1, <2>1
  <2> QED
    BY <2>2 DEF Maps
<1>3. inode' = inode /\ ret' = "OK"
  BY DEF GuestStore, Return
<1> QED
  BY <1>2, <1>3 DEF Plain

LEMMA ResizeResizes ==
    ASSUME IInv, NEW f \in File, NEW n \in Nat, ResizeTo(f, n)
    PROVE  Resizes
<1> DEFINE o == [inode[f] EXCEPT !.data = Resized(@, n)]
<1>1. o.data = Resized(inode[f].data, n)
  BY ObjectFacts DEF Object
<1>2. inode' = [inode EXCEPT ![f] = o]
  BY ObjectFacts DEF ResizeTo, Typed
<1> HIDE DEF o
<1>3. \A g \in File : inode'[g].data = IF g = f THEN Resized(inode[f].data, n)
                                       ELSE inode[g].data
  BY <1>1, <1>2 DEF IInv, TypeOK
<1>4. ret' = "OK" /\ mappings' = mappings
  BY DEF ResizeTo, Return
<1> QED
  BY <1>3, <1>4 DEF Resizes

LEMMA FtruncateEffect ==
    ASSUME IInv, NEW d \in FD, NEW n \in Int, SyscallFtruncate(d, n)
    PROVE  Plain \/ Resizes
<1>1. CASE Fail(FtruncateError(d, n))
  BY <1>1, ReplyPlain
<1>2. CASE FtruncateError(d, n) = "OK" /\ ResizeTo(fds[d].file, n)
  <2>1. fds[d] # Nil /\ n \in Nat
    BY <1>2 DEF FtruncateError
  <2> QED
    BY <1>2, <2>1, HandleFacts, ResizeResizes
<1> QED
  BY <1>1, <1>2 DEF SyscallFtruncate

LEMMA TruncateEffect ==
    ASSUME IInv, NEW p \in PathArg, NEW n \in Size, SyscallTruncate(p, n)
    PROVE  Plain \/ Resizes
<1>1. CASE Fail(TruncateError(p, n))
  BY <1>1, ReplyPlain
<1>2. CASE TruncateError(p, n) = "OK" /\ ResizeTo(files[p], n)
  <2>1. n \in Int
    BY ArgAssumption DEF Int64
  <2>2. p \in Path /\ files[p] # Nil /\ n \in Nat
    BY <1>2, <2>1, ArgAssumption DEF TruncateError
  <2>3. files[p] \in File
    BY <2>2 DEF IInv, TypeOK
  <2> QED
    BY <1>2, <2>2, <2>3, ResizeResizes
<1> QED
  BY <1>1, <1>2 DEF SyscallTruncate

LEMMA AllocateEffect ==
    ASSUME IInv, NEW d \in FD, NEW at \in Delta, NEW n \in Size, Allocate(d, at, n)
    PROVE  Plain \/ Resizes
<1>1. CASE Fail(AllocateError(d, at, n)) \/ Reply("OK")
  BY <1>1, ReplyPlain
<1>2. CASE SyscallFtruncate(d, at + n)
  <2>1. at + n \in Int
    BY ArgAssumption DEF Int64
  <2> QED
    BY <1>2, <2>1, FtruncateEffect
<1> QED
  BY <1>1, <1>2 DEF Allocate

LEMMA StoreWrites ==
    ASSUME IInv, NEW d \in FD, NEW iov \in IOVecs, NEW at \in Int64,
           NEW offset, WriteError(d, iov) = "OK",
           Store(d, Written(d, iov, at), offset), Quiet
    PROVE  Writes
<1> DEFINE f == fds[d].file
           c == Written(d, iov, at).data
           o == [inode[f] EXCEPT !.data = c]
<1>1. fds[d] # Nil /\ fds[d].access # "read" /\ iov # Unreadable /\ f \in File
  BY HandleFacts DEF WriteError
<1>2. Grows(ObjectOf(d).data, c, fds[d].append) /\ c \in Seq(Byte)
  BY <1>1, WrittenGrows DEF Grows
<1>3. o.data = c
  BY <1>1, ObjectFacts DEF Object
<1>4. inode' = [inode EXCEPT ![f] = o] /\ mappings' = mappings
  BY <1>1, ObjectFacts DEF Store, Typed
<1> HIDE DEF o, c
<1>5. \A g \in File : inode'[g].data = IF g = f THEN c ELSE inode[g].data
  BY <1>1, <1>3, <1>4 DEF IInv, TypeOK
<1> QED
  BY <1>1, <1>2, <1>4, <1>5 DEF Writes

LEMMA WriteEffect ==
    ASSUME IInv, NEW d \in FD, NEW iov \in IOVecs, WasiFDWrite(d, iov)
    PROVE  Plain \/ Writes
<1>1. CASE Fail(WriteError(d, iov))
  BY <1>1, ReplyPlain
<1>2. CASE /\ WriteError(d, iov) = "OK"
           /\ Store(d, Written(d, iov, fds[d].offset),
                    Written(d, iov, fds[d].offset).offset)
  <2>1. fds[d].offset \in Int64
    BY <1>2, HandleFacts DEF WriteError, Handle
  <2>2. Quiet
    BY WriteStep
  <2> QED
    BY <1>2, <2>1, <2>2, StoreWrites
<1> QED
  BY <1>1, <1>2 DEF WasiFDWrite

LEMMA PwriteEffect ==
    ASSUME IInv, NEW d \in FD, NEW iov \in IOVecs, NEW at \in Delta,
           WasiPwrite(d, iov, at)
    PROVE  Plain \/ Writes
<1>1. CASE Fail(PositionedError(d, at)) \/ Fail(WriteError(d, iov))
  BY <1>1, ReplyPlain
<1>2. CASE /\ WriteError(d, iov) = "OK"
           /\ Store(d, Written(d, iov, at), fds[d].offset)
  <2>1. at \in Int64 /\ Quiet
    BY PwriteStep, ArgAssumption
  <2> QED
    BY <1>2, <2>1, StoreWrites
<1> QED
  BY <1>1, <1>2 DEF WasiPwrite

\* Every step is of one of the kinds.
LEMMA NextEffect ==
    ASSUME IInv, [Next]_vars
    PROVE  Plain \/ Resizes \/ Writes \/ \E a \in Address : Munmap(a)
<1>1. CASE PathCall
  <2>1. PICK p \in PathArg :
           \/ \E mode \in OpenMode : SyscallOpenat(p, mode)
           \/ SyscallMkdirat(p)
           \/ SyscallRmdir(p)
           \/ SyscallUnlinkat(p)
           \/ \E q \in PathArg : SyscallRenameat(p, q)
           \/ SyscallFaccessat(p)
           \/ \E n \in Size : SyscallTruncate(p, n)
    BY <1>1 DEF PathCall
  <2>2. CASE \E mode \in OpenMode : SyscallOpenat(p, mode)
    BY <2>2, OpenPlain
  <2>3. CASE SyscallMkdirat(p) \/ SyscallRmdir(p) \/ SyscallUnlinkat(p)
    BY <2>3, DirsPlain, UnlinkPlain
  <2>4. CASE \E q \in PathArg : SyscallRenameat(p, q)
    BY <2>4, RenamePlain
  <2>5. CASE SyscallFaccessat(p)
    BY <2>5, ReplyPlain DEF SyscallFaccessat
  <2>6. CASE \E n \in Size : SyscallTruncate(p, n)
    BY <2>6, TruncateEffect
  <2> QED
    BY <2>1, <2>2, <2>3, <2>4, <2>5, <2>6
<1>2. CASE DescriptorCall
  <2>1. PICK d \in FdArg :
           \/ WasiFDClose(d)
           \/ \E e \in NewFdArg : SyscallDup(d, e) \/ SyscallDup3(d, e)
           \/ \E append \in AppendArg : SetFlags(d, append)
           \/ \E delta \in Delta, whence \in {"set", "cur", "end"} :
                 WasiFDSeek(d, delta, whence)
           \/ CheckFD(d)
           \/ WasiFDStatGet(d)
    BY <1>2 DEF DescriptorCall
  <2>2. d \in FD
    BY ArgTypes
  <2>3. CASE WasiFDClose(d)
    BY <2>2, <2>3, ClosePlain
  <2>4. CASE \E e \in NewFdArg : SyscallDup(d, e) \/ SyscallDup3(d, e)
    BY <2>2, <2>4, ArgTypes, DupPlain, Dup3Plain
  <2>5. CASE \E append, delta, whence :
                \/ SetFlags(d, append) \/ WasiFDSeek(d, delta, whence)
                \/ CheckFD(d) \/ WasiFDStatGet(d)
    BY <2>5, HandlePlain
  <2> QED
    BY <2>1, <2>3, <2>4, <2>5
<1>3. CASE ContentCall
  <2>1. PICK d \in FdArg :
           \/ \E n \in Size : SyscallFtruncate(d, n)
           \/ \E at \in Delta, n \in Size : Allocate(d, at, n)
           \/ \E iov \in IOVecs :
                 \/ d \notin {1, 2} /\ WasiFDWrite(d, iov)
                 \/ d # 0 /\ WasiFDRead(d, iov)
                 \/ \E at \in Delta : WasiPwrite(d, iov, at) \/ WasiPread(d, iov, at)
    BY <1>3 DEF ContentCall
  <2>2. d \in FD /\ Size \subseteq Int
    BY ArgTypes, ArgAssumption DEF Int64
  <2>3. CASE \E n \in Size : SyscallFtruncate(d, n)
    BY <2>2, <2>3, FtruncateEffect
  <2>4. CASE \E at \in Delta, n \in Size : Allocate(d, at, n)
    BY <2>2, <2>4, AllocateEffect
  <2>5. CASE \E iov \in IOVecs : WasiFDWrite(d, iov)
    BY <2>2, <2>5, WriteEffect
  <2>6. CASE \E iov \in IOVecs, at \in Delta : WasiPwrite(d, iov, at)
    BY <2>2, <2>6, PwriteEffect
  <2>7. CASE \E iov, at : WasiFDRead(d, iov) \/ WasiPread(d, iov, at)
    BY <2>7, HandlePlain
  <2> QED
    BY <2>1, <2>3, <2>4, <2>5, <2>6, <2>7
<1>4. CASE MappingCall
  <2>1. CASE \E d \in FdArg, req \in MapRequest : Mmap(d, req)
    BY <2>1, ArgTypes, MmapPlain
  <2>2. CASE \E a \in Address, i \in 1..MaxFilesystemBytes, b \in Byte :
                GuestStore(a, i, b)
    BY <2>2, GuestStorePlain, LimitAssumption
  <2> QED
    BY <1>4, <2>1, <2>2 DEF MappingCall
<1>5. CASE UNCHANGED vars
  BY <1>5 DEF vars, state, Plain
<1> QED
  BY <1>1, <1>2, <1>3, <1>4, <1>5 DEF Next

\* The end of a mapping, the panic included.
LEMMA MunmapEffect ==
    ASSUME IInv, NEW a \in Address, Munmap(a), mappings[a] # Nil
    PROVE  /\ mappings[a] \in Mapping /\ mappings[a].file \in File
           /\ mappings' = [mappings EXCEPT ![a] = Nil]
           /\ \/ ret' = "PANIC" /\ inode' = inode
              \/ /\ ret' = "OK"
                 /\ \E o :
                       /\ o.data = IF WritesBack(mappings[a])
                                   THEN Overwritten(inode[mappings[a].file].data,
                                          mappings[a].offset, mappings[a].view)
                                   ELSE inode[mappings[a].file].data
                       /\ inode' = [inode EXCEPT ![mappings[a].file] = Settled(o)]
<1> DEFINE m == mappings[a]
           data == IF WritesBack(m) THEN Overwritten(inode[m.file].data, m.offset, m.view)
                   ELSE inode[m.file].data
           o == [Unreferenced(m.file) EXCEPT !.data = data]
<1>1. m \in Mapping /\ m.file \in File
  BY DEF IInv, TypeOK, Mapping
<1>2. o.data = data
  <2> HIDE DEF data, m
  <2> QED
    BY <1>1, UnreferencedType DEF Object
<1>3. mappings' = [mappings EXCEPT ![a] = Nil]
  BY DEF Munmap
<1>4. \/ ret' = "PANIC" /\ inode' = inode
      \/ ret' = "OK" /\ inode' = [inode EXCEPT ![m.file] = Settled(o)]
  BY DEF Munmap, Return
<1> HIDE DEF o
<1> QED
  BY <1>1, <1>2, <1>3, <1>4

-----------------------------------------------------------------------------
(* The properties *)

LEMMA NextClean ==
    ASSUME IInv, TypeOK', [Next]_vars, ret' \notin {"OK", "PANIC"}
    PROVE  /\ UNCHANGED <<files, dirs, nextFD, mappings>>
           /\ OpenFDs' = OpenFDs
           /\ \A f \in File :
                 /\ inode'[f].refs = inode[f].refs
                 /\ inode'[f].linked = inode[f].linked
                 /\ Len(inode'[f].data) >= Len(inode[f].data)
<1>1. \A f \in File : Len(inode[f].data) \in Nat
  BY ObjectFacts DEF Object
<1>2. CASE UNCHANGED state
  BY <1>1, <1>2 DEF state, OpenFDs
<1>3. CASE Writes
  <2>1. PICK d \in FD, c \in Seq(Byte) :
           /\ Len(ObjectOf(d).data) <= Len(c)
           /\ \A g \in File : inode'[g].data = IF g = fds[d].file THEN c
                                               ELSE inode[g].data
    BY <1>3 DEF Writes, Grows
  <2>2. Quiet /\ mappings' = mappings
    BY <1>3 DEF Writes
  <2>3. \A f \in File : Len(inode'[f].data) >= Len(inode[f].data)
    BY <1>1, <2>1 DEF ObjectOf
  <2>4. \A f \in File : /\ inode'[f].refs = inode[f].refs
                        /\ inode'[f].linked = inode[f].linked
    <3>1. Refs' = Refs /\ Linked' = Linked
      BY <2>2 DEF Quiet
    <3>2. ASSUME NEW f \in File
          PROVE  /\ inode'[f].refs = inode[f].refs
                 /\ inode'[f].linked = inode[f].linked
      <4>1. Refs'[f] = Refs[f] /\ Linked'[f] = Linked[f]
        BY <3>1
      <4> QED
        BY <4>1 DEF Refs, Linked
    <3> QED
      BY <3>2
  <2>5. OpenFDs' = OpenFDs
    BY <2>2, IInvPointed, TypedPointedNext DEF Quiet, Pointed
  <2> QED
    BY <2>2, <2>3, <2>4, <2>5 DEF Quiet
<1>4. CASE \E a \in Address : Munmap(a)
  BY <1>4 DEF Munmap, Reply, Return
<1> QED
  BY <1>2, <1>3, <1>4, NextEffect DEF Plain, Resizes

LEMMA NextAppends ==
    ASSUME IInv, [Next]_vars, NEW f \in File,
           \A d \in Handles(f) : fds[d].access = "read" \/ fds[d].append,
           \A a \in Views(f) : ~mappings[a].writeback,
           Len(inode'[f].data) >= Len(inode[f].data)
    PROVE  IsPrefixOf(inode[f].data, inode'[f].data)
<1>1. inode[f].data \in Seq(Byte) /\ Len(inode[f].data) \in Nat
  BY ObjectFacts DEF Object
<1>2. CASE inode'[f].data \in {inode[f].data, << >>}
  <2>1. Continues(inode[f].data, inode'[f].data)
    <3>1. CASE inode'[f].data = inode[f].data
      BY <1>1, <3>1, ContinuesSelf
    <3>2. CASE inode'[f].data = << >>
      <4>1. Len(inode[f].data) = 0 /\ << >> \in Seq(Byte) /\ Len(<< >>) = 0
        BY <1>1, <3>2
      <4> QED
        BY <1>1, <3>2, <4>1 DEF Continues
    <3> QED
      BY <1>2, <3>1, <3>2
  <2> QED
    BY <2>1, ContinuesPrefix
<1>3. CASE Resizes
  <2>1. PICK h \in File, n \in Nat : \A g \in File :
           inode'[g].data = IF g = h THEN Resized(inode[h].data, n)
                            ELSE inode[g].data
    BY <1>3 DEF Resizes
  <2>2. CASE f = h
    <3>1. inode'[f].data = Resized(inode[f].data, n)
      BY <2>1, <2>2
    <3>2. Len(inode[f].data) <= n
      BY <1>1, <3>1, ResizedType
    <3> QED
      BY <1>1, <3>1, <3>2, ResizedContinues, ContinuesPrefix
  <2> QED
    BY <1>2, <2>1, <2>2
<1>4. CASE Writes
  <2>1. PICK d \in FD, c \in Seq(Byte) :
           /\ fds[d] # Nil /\ fds[d].access # "read"
           /\ Grows(ObjectOf(d).data, c, fds[d].append)
           /\ \A g \in File : inode'[g].data = IF g = fds[d].file THEN c
                                               ELSE inode[g].data
    BY <1>4 DEF Writes
  <2>2. CASE f = fds[d].file
    <3>1. d \in Handles(f)
      BY <2>1, <2>2 DEF Handles
    <3>2. Continues(inode[f].data, inode'[f].data)
      BY <2>1, <2>2, <3>1 DEF Grows, ObjectOf
    <3> QED
      BY <3>2, ContinuesPrefix
  <2> QED
    BY <1>2, <2>1, <2>2
<1>5. ASSUME NEW a \in Address, Munmap(a)
      PROVE  inode'[f].data \in {inode[f].data, << >>}
  <2>1. CASE mappings[a] = Nil
    BY <1>5, <2>1 DEF Munmap, Reply, state
  <2>2. CASE mappings[a] # Nil /\ inode' = inode
    BY <2>2
  <2>3. CASE mappings[a] # Nil /\ inode' # inode
    <3>1. PICK o :
             /\ o.data = IF WritesBack(mappings[a])
                         THEN Overwritten(inode[mappings[a].file].data,
                                mappings[a].offset, mappings[a].view)
                         ELSE inode[mappings[a].file].data
             /\ inode' = [inode EXCEPT ![mappings[a].file] = Settled(o)]
      BY <1>5, <2>3, MunmapEffect
    <3>2. CASE mappings[a].file = f
      <4>1. a \in Views(f)
        BY <2>3, <3>2 DEF Views
      <4>2. o.data = inode[f].data
        BY <3>1, <3>2, <4>1 DEF WritesBack
      <4>3. inode'[f] = Settled(o)
        BY <3>1, <3>2 DEF IInv, TypeOK
      <4> QED
        BY <4>2, <4>3 DEF Settled, Released
    <3>3. CASE mappings[a].file # f
      BY <3>1, <3>3 DEF IInv, TypeOK
    <3> QED
      BY <3>2, <3>3
  <2> QED
    BY <2>1, <2>2, <2>3
<1> QED
  BY <1>2, <1>3, <1>4, <1>5, NextEffect DEF Plain

LEMMA NextUnmaps ==
    ASSUME IInv, [Next]_vars, NEW a \in Address,
           mappings[a] # Nil, mappings'[a] = Nil, ret' = "OK"
    PROVE  LET m == mappings[a]
               old == inode[m.file].data
               new == inode'[m.file].data
           IN \/ inode'[m.file] = Released
              \/ new = old
              \/ m.writeback /\ Holds(new, m.offset, m.view)
<1> DEFINE m == mappings[a]
           old == inode[m.file].data
<1>1. Munmap(a)
  <2>1. PICK b \in Address : Munmap(b)
    BY NextEffect DEF Plain, Resizes, Writes
  <2>2. mappings[b] # Nil
    BY <2>1 DEF Munmap, Reply, state
  <2>3. mappings' = [mappings EXCEPT ![b] = Nil]
    BY <2>1, <2>2, MunmapEffect
  <2> QED
    BY <2>1, <2>3 DEF IInv, TypeOK
<1>2. m \in Mapping /\ m.file \in File
  BY <1>1, MunmapEffect
<1>3. PICK o :
         /\ o.data = IF WritesBack(m) THEN Overwritten(old, m.offset, m.view)
                     ELSE old
         /\ inode' = [inode EXCEPT ![m.file] = Settled(o)]
  BY <1>1, MunmapEffect
<1>4. inode'[m.file] = Settled(o)
  BY <1>2, <1>3 DEF IInv, TypeOK
<1>5. CASE Dead(o)
  BY <1>4, <1>5 DEF Settled
<1>6. CASE ~Dead(o) /\ ~WritesBack(m)
  BY <1>3, <1>4, <1>6 DEF Settled
<1>7. CASE ~Dead(o) /\ WritesBack(m)
  <2>1. inode'[m.file].data = Overwritten(old, m.offset, m.view)
    BY <1>3, <1>4, <1>7 DEF Settled
  <2>2. old \in Seq(Byte) /\ m.view \in Seq(Byte) /\ m.offset \in Nat
    BY <1>2, ObjectFacts, LimitAssumption DEF Object, Mapping
  <2>3. Holds(inode'[m.file].data, m.offset, m.view)
    BY <2>1, <2>2, OverwrittenHolds
  <2> QED
    BY <1>7, <2>3 DEF WritesBack
<1> QED
  BY <1>5, <1>6, <1>7

\* A call that answers with an errno leaves names, descriptors, mappings and
\* references as they were and shortens no file: a write that fails at its
\* second vector included (filesystem.go:743-773).
THEOREM FailuresAreClean == Spec => FailureIsClean
<1>1. IInv /\ TypeOK' /\ [Next]_vars
        => [ret' \notin {"OK", "PANIC"} =>
              /\ UNCHANGED <<files, dirs, nextFD, mappings>>
              /\ OpenFDs' = OpenFDs
              /\ \A f \in File :
                    /\ inode'[f].refs = inode[f].refs
                    /\ inode'[f].linked = inode[f].linked
                    /\ Len(inode'[f].data) >= Len(inode[f].data)]_vars
  BY NextClean
<1> QED
  BY <1>1, Invariance, TypeCorrect, PTL DEF Spec, FailureIsClean

\* What is in a file that is only appended to stays there: each vector of a
\* write goes to the end the file has then (filesystem.go:743-770), positioned
\* writes included.
THEOREM AppendsKeep == Spec => AppendKeepsContent
<1>1. IInv /\ [Next]_vars
        => [\A f \in File :
              (/\ \A d \in Handles(f) : fds[d].access = "read" \/ fds[d].append
               /\ \A a \in Views(f) : ~mappings[a].writeback
               /\ Len(inode'[f].data) >= Len(inode[f].data))
              => IsPrefixOf(inode[f].data, inode'[f].data)]_vars
  BY NextAppends
<1> QED
  BY <1>1, Invariance, PTL DEF Spec, AppendKeepsContent

\* munmap writes back the whole mapping where it was mapped, or leaves the
\* file's content alone (filesystem.go:1123-1161).
THEOREM UnmapsWhole == Spec => MunmapAllOrNothing
<1>1. IInv /\ [Next]_vars
        => [\A a \in Address :
              mappings[a] # Nil /\ mappings'[a] = Nil /\ ret' = "OK" =>
                LET m == mappings[a]
                    old == inode[m.file].data
                    new == inode'[m.file].data
                IN \/ inode'[m.file] = Released
                   \/ new = old
                   \/ /\ m.writeback
                      /\ Holds(new, m.offset, m.view)]_vars
  BY NextUnmaps
<1> QED
  BY <1>1, Invariance, PTL DEF Spec, MunmapAllOrNothing
\* A write of several vectors leaves some first ones of them, and the offset
\* where they end, fd_pwrite the same and the offset alone; only an offset below
\* zero makes a write panic (filesystem.go:743-773, 1009-1037).
THEOREM WritesEnd == Spec => WritesEndAtOffset
<1>1. ASSUME IInv, NEW d \in FdArg, NEW iov \in IOVecs,
             WriteError(d, iov) = "OK", WasiFDWrite(d, iov)
      PROVE  IF ret' = "PANIC" THEN fds[d].offset < 0 /\ ~fds[d].append
             ELSE \E k \in 0..Len(iov) :
                    /\ ret' = "OK" => k = Len(iov)
                    /\ ObjectOf(d).data' = WithFirst(d, iov, fds[d].offset, k)
                    /\ fds'[d].offset = WriteBegin(d, iov, fds[d].offset)
                                        + Len(FirstVectors(iov, k))
  <2> DEFINE t == Written(d, iov, fds[d].offset)
  <2>1. d \in FD /\ fds[d] # Nil /\ Store(d, t, t.offset)
    BY <1>1, ArgAssumption DEF WasiFDWrite, WriteError, Fail
  <2>2. fds[d].offset \in Int64
    BY <1>1, <2>1, HandleFacts DEF Handle
  <2>3. ObjectOf(d).data' = t.data /\ fds'[d].offset = t.offset /\ ret' = t.errno
    <3> HIDE DEF t
    <3> QED
      BY <1>1, <2>1, StoreEnds
  <2> QED
    BY <1>1, <2>1, <2>2, <2>3, WrittenOutcome
<1>2. ASSUME IInv, NEW d \in FdArg, NEW iov \in IOVecs, WriteError(d, iov) = "OK",
             NEW at \in Delta, at >= 0, WasiPwrite(d, iov, at)
      PROVE  /\ ret' # "PANIC" /\ fds'[d].offset = fds[d].offset
             /\ \E k \in 0..Len(iov) :
                  /\ ret' = "OK" => k = Len(iov)
                  /\ ObjectOf(d).data' = WithFirst(d, iov, at, k)
  <2> DEFINE t == Written(d, iov, at)
  <2>1. d \in FD /\ fds[d] # Nil
    BY <1>2, ArgAssumption DEF WriteError
  <2>2. at \in Int64 /\ ~(at < 0)
    BY <1>2, ArgAssumption, LimitAssumption DEF Int64
  <2>3. PositionedError(d, at) = "OK"
    BY <2>1, <2>2 DEF PositionedError
  <2>4. Store(d, t, fds[d].offset)
    BY <1>2, <2>3 DEF WasiPwrite, Fail
  <2>5. /\ ObjectOf(d).data' = t.data /\ fds'[d].offset = fds[d].offset
        /\ ret' = t.errno
    <3> HIDE DEF t
    <3> QED
      BY <1>2, <2>1, <2>4, StoreEnds
  <2> QED
    BY <1>2, <2>1, <2>2, <2>5, WrittenOutcome
<1>3. IInv /\ [Next]_vars
        => [\A d \in FdArg, iov \in IOVecs :
              /\ WriteError(d, iov) = "OK"
              /\ UNCHANGED <<files, dirs, nextFD, mappings>>
              /\ ret' \in {"OK", "EINVAL", "PANIC"}
             => /\ WasiFDWrite(d, iov) =>
                     IF ret' = "PANIC" THEN fds[d].offset < 0 /\ ~fds[d].append
                     ELSE \E k \in 0..Len(iov) :
                            /\ ret' = "OK" => k = Len(iov)
                            /\ ObjectOf(d).data' = WithFirst(d, iov, fds[d].offset, k)
                            /\ fds'[d].offset = WriteBegin(d, iov, fds[d].offset)
                                                + Len(FirstVectors(iov, k))
                /\ \A at \in Delta : at >= 0 /\ WasiPwrite(d, iov, at) =>
                     /\ ret' # "PANIC" /\ fds'[d].offset = fds[d].offset
                     /\ \E k \in 0..Len(iov) :
                          /\ ret' = "OK" => k = Len(iov)
                          /\ ObjectOf(d).data' = WithFirst(d, iov, at, k)]_vars
  BY <1>1, <1>2
<1> QED
  BY <1>3, Invariance, PTL DEF Spec, WritesEndAtOffset
=============================================================================
