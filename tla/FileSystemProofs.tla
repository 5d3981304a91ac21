-------------------------- MODULE FileSystemProofs --------------------------
(***************************************************************************)
(* FileSystem keeps its types, its byte count is exact, and it implements   *)
(* the ledger of Ledger.tla: for every number of files, paths, descriptors  *)
(* and mappings, every quota and every set of arguments.                    *)
(*                                                                          *)
(* The inductive invariant is IInv.  Each handler either leaves the sizes   *)
(* of the file objects and the byte count alone or gives one object a new   *)
(* size and moves the count by the difference (Accounted); TotalUpdate of   *)
(* LedgerProofs says that the total then moves by the same difference.      *)
(***************************************************************************)
EXTENDS FileSystem, TLAPS

LP == INSTANCE LedgerProofs WITH Quota <- MaxFilesystemBytes, size <- Sizes

-----------------------------------------------------------------------------
(* The ledger's lemmas, for the file sizes *)

LEMMA SameCardinality ==
    ASSUME NEW S
    PROVE  Account!Cardinality(S) = LP!Cardinality(S)
  BY DEF Account!Cardinality, LP!Cardinality

LEMMA LedgerConstants == LP!LedgerAssumption
  BY FileAssumption, LimitAssumption
  DEF LP!LedgerAssumption, LP!IsFiniteSet, IsFiniteSet

\* TotalUpdate, with the names this module uses.
LEMMA QuotaUpdate ==
    ASSUME NEW s \in Account!Sizes, NEW f \in File, NEW n \in 0..MaxFilesystemBytes
    PROVE  /\ [s EXCEPT ![f] = n] \in Account!Sizes
           /\ Account!Total([s EXCEPT ![f] = n]) = Account!Total(s) - s[f] + n
<1>1. s \in LP!Sizes
  BY DEF Account!Sizes, LP!Sizes
<1>2. LP!Total([s EXCEPT ![f] = n]) = LP!Total(s) - s[f] + n
  BY <1>1, LP!TotalUpdate, LedgerConstants
<1>3. Account!Total([s EXCEPT ![f] = n]) = Account!Total(s) - s[f] + n
  BY <1>2, SameCardinality DEF LP!Total, Account!Total, LP!Cells, Account!Cells
<1> QED
  BY <1>3 DEF Account!Sizes

\* Totals are natural numbers.
LEMMA QuotaTotal ==
    ASSUME NEW s \in Account!Sizes
    PROVE  Account!Total(s) \in Nat
<1>1. s \in LP!Sizes
  BY DEF Account!Sizes, LP!Sizes
<1>2. LP!Total(s) \in Nat
  BY <1>1, LP!TotalIsNat, LedgerConstants
<1> QED
  BY <1>2, SameCardinality DEF LP!Total, Account!Total, LP!Cells, Account!Cells

\* No file, no byte.
LEMMA QuotaOfNothing ==
    Account!Total([f \in File |-> 0]) = 0
<1>1. LP!Total([f \in File |-> 0]) = 0
  BY LP!TotalOfNothing, LedgerConstants
<1> QED
  BY <1>1, SameCardinality DEF LP!Total, Account!Total, LP!Cells, Account!Cells

-----------------------------------------------------------------------------
(* The invariant *)

\* The inductive invariant: besides the types and the exact count, no object
\* alone is larger than the quota, without which the cells do not see it all.
IInv == TypeOK /\ QuotaExact /\ Sizes \in Account!Sizes

\* TypeOK without the byte count, whose type follows from QuotaExact.
Typed ==
    /\ files \in [Path -> File \cup {Nil}]
    /\ dirs \subseteq Path \cup {Root}
    /\ fds \in [FD -> Handle \cup {Nil}]
    /\ nextFD \in 3..FdBound
    /\ mappings \in [Address -> Mapping \cup {Nil}]
    /\ inode \in [File -> Object]
    /\ ret \in Replies

\* Object f has n bytes now, and the count has moved by the difference.
Moves(f, n) ==
    /\ Sizes' = [Sizes EXCEPT ![f] = n]
    /\ bytes' = bytes - Sizes[f] + n
    /\ bytes' <= MaxFilesystemBytes

Accounted ==
    \/ UNCHANGED <<Sizes, bytes>>
    \/ \E f \in File, n \in 0..MaxFilesystemBytes : Moves(f, n)

\* The file each descriptor and each mapping points to, and each object's
\* count of references and its mark.
Points == [d \in FD |-> IF fds[d] = Nil THEN Nil ELSE fds[d].file]
Maps == [a \in Address |-> IF mappings[a] = Nil THEN Nil ELSE mappings[a].file]
Refs == [f \in File |-> inode[f].refs]
Linked == [f \in File |-> inode[f].linked]

\* No name, holder, count of references or mark changes.
Quiet == UNCHANGED <<files, dirs, nextFD, Points, Maps, Refs, Linked>>

\* What a handler must be shown to do is enough for the invariant.
LEMMA AccountedKeepsIInv ==
    ASSUME IInv, Typed', Accounted
    PROVE  IInv' /\ [Account!Next]_Sizes
<1>1. CASE UNCHANGED <<Sizes, bytes>>
  BY <1>1, QuotaTotal DEF IInv, TypeOK, Typed, QuotaExact
<1>2. CASE \E f \in File, n \in 0..MaxFilesystemBytes : Moves(f, n)
  <2>1. PICK f \in File, n \in 0..MaxFilesystemBytes : Moves(f, n)
    BY <1>2
  <2>2. /\ Sizes' \in Account!Sizes
        /\ Account!Total(Sizes') = Account!Total(Sizes) - Sizes[f] + n
    BY <2>1, QuotaUpdate DEF IInv, Moves
  <2>3. bytes' = Account!Total(Sizes') /\ bytes' <= MaxFilesystemBytes
    BY <2>1, <2>2 DEF Moves, IInv, QuotaExact
  <2>4. bytes' \in Nat
    BY <2>2, <2>3, QuotaTotal
  <2>5. Account!Resize(f, n)
    BY <2>1, <2>3 DEF Moves, Account!Resize
  <2> QED
    BY <2>2, <2>3, <2>4, <2>5 DEF IInv, TypeOK, Typed, QuotaExact, Account!Next
<1> QED
  BY <1>1, <1>2 DEF Accounted

-----------------------------------------------------------------------------
(* Content and objects *)

\* Growing or cutting content to n bytes makes it n bytes long.
LEMMA ResizedType ==
    ASSUME NEW d \in Seq(Byte), NEW n \in Nat
    PROVE  Resized(d, n) \in Seq(Byte) /\ Len(Resized(d, n)) = n
<1>1. \A i \in 1..n : (IF i <= Len(d) THEN d[i] ELSE Zero) \in Byte
  BY ArgAssumption
<1> QED
  BY <1>1 DEF Resized

\* Copying v into content makes it long enough to hold v, and no longer.
LEMMA OverwrittenType ==
    ASSUME NEW d \in Seq(Byte), NEW v \in Seq(Byte), NEW at \in Nat
    PROVE  /\ Overwritten(d, at, v) \in Seq(Byte)
           /\ Len(Overwritten(d, at, v)) = Larger(Len(d), at + Len(v))
<1> DEFINE n == Larger(Len(d), at + Len(v))
<1>1. n \in Nat
  BY DEF Larger
<1>2. \A i \in 1..n : (IF i > at /\ i <= at + Len(v) THEN v[i - at]
                       ELSE IF i <= Len(d) THEN d[i] ELSE Zero) \in Byte
  BY ArgAssumption
<1> QED
  BY <1>1, <1>2 DEF Overwritten

\* A settled object holds what it held, less what is reclaimed.
LEMMA SettledType ==
    ASSUME NEW o \in Object
    PROVE  /\ Settled(o) \in Object
           /\ Len(o.data) \in Nat /\ Reclaimed(o) \in 0..Len(o.data)
           /\ Len(Settled(o).data) = Len(o.data) - Reclaimed(o)
<1>1. Len(o.data) \in Nat
  BY DEF Object
<1>2. Released \in Object /\ Len(Released.data) = 0
  BY DEF Released, Object
<1>3. CASE Dead(o)
  <2>1. Settled(o) = Released /\ Reclaimed(o) = Len(o.data)
    BY <1>3 DEF Settled, Reclaimed
  <2> QED
    BY <1>1, <1>2, <2>1
<1>4. CASE ~Dead(o)
  <2>1. Settled(o) = o /\ Reclaimed(o) = 0
    BY <1>4 DEF Settled, Reclaimed
  <2> QED
    BY <1>1, <2>1
<1> QED
  BY <1>3, <1>4

\* Replacing one object changes one size.
LEMMA InodeUpdate ==
    ASSUME Typed, NEW f \in File, NEW o \in Object, inode' = [inode EXCEPT ![f] = o]
    PROVE  /\ inode' \in [File -> Object]
           /\ Sizes' = [Sizes EXCEPT ![f] = Len(o.data)]
           /\ Sizes[f] = Len(inode[f].data)
  BY DEF Typed, Sizes

\* What IInv says of one object.
LEMMA ObjectFacts ==
    ASSUME IInv, NEW f \in File
    PROVE  /\ inode[f] \in Object
           /\ Len(inode[f].data) \in 0..MaxFilesystemBytes
           /\ bytes \in Nat /\ bytes <= MaxFilesystemBytes
           /\ Sizes[f] = Len(inode[f].data)
           /\ Typed
  BY DEF IInv, TypeOK, Typed, Sizes, Account!Sizes, QuotaExact

\* Giving f the object o, and the count the difference, is accounted for when
\* o is no larger than f was.
LEMMA Shrinks ==
    ASSUME IInv, NEW f \in File, NEW o \in Object,
           Len(o.data) <= Len(inode[f].data),
           inode' = [inode EXCEPT ![f] = o],
           bytes' = bytes - (Len(inode[f].data) - Len(o.data))
    PROVE  inode' \in [File -> Object] /\ Accounted
<1>1. Len(o.data) \in Nat
  BY DEF Object
<1>2. Len(o.data) \in 0..MaxFilesystemBytes
  BY <1>1, ObjectFacts, LimitAssumption
<1>3. /\ Len(inode[f].data) \in 0..MaxFilesystemBytes
      /\ bytes \in Nat /\ bytes <= MaxFilesystemBytes
      /\ Typed
  BY ObjectFacts
<1>4. /\ inode' \in [File -> Object]
      /\ Sizes' = [Sizes EXCEPT ![f] = Len(o.data)]
      /\ Sizes[f] = Len(inode[f].data)
  BY <1>3, InodeUpdate
<1>5. bytes' = bytes - Sizes[f] + Len(o.data) /\ bytes' <= MaxFilesystemBytes
  BY <1>1, <1>3, <1>4, LimitAssumption
<1> QED
  BY <1>2, <1>4, <1>5 DEF Accounted, Moves

\* Releasing a holder or a name: the bytes of a dead object are taken off.
LEMMA Settles ==
    ASSUME IInv, NEW f \in File, NEW o \in Object, o.data = inode[f].data,
           inode' = [inode EXCEPT ![f] = Settled(o)],
           bytes' = bytes - Reclaimed(o)
    PROVE  inode' \in [File -> Object] /\ Accounted
<1>1. /\ Settled(o) \in Object
      /\ Len(o.data) \in Nat /\ Reclaimed(o) \in 0..Len(o.data)
      /\ Len(Settled(o).data) = Len(o.data) - Reclaimed(o)
  BY SettledType
<1>2. bytes' = bytes - (Len(inode[f].data) - Len(Settled(o).data))
  BY <1>1, ObjectFacts
<1>3. Len(Settled(o).data) <= Len(inode[f].data)
  BY <1>1
<1> QED
  BY <1>1, <1>2, <1>3, Shrinks

\* Counting a holder more changes no size.
LEMMA CountsHolder ==
    ASSUME IInv, NEW f \in File, inode' = Referenced(f), bytes' = bytes
    PROVE  inode' \in [File -> Object] /\ Accounted
<1> DEFINE o == [inode[f] EXCEPT !.refs = @ + 1]
<1>1. o \in Object /\ o.data = inode[f].data
  BY ObjectFacts DEF Object
<1>2. inode' = [inode EXCEPT ![f] = o]
  BY ObjectFacts DEF Referenced, Typed
<1>3. Sizes' = Sizes
  BY <1>1, <1>2, InodeUpdate, ObjectFacts DEF Sizes
<1> QED
  BY <1>1, <1>2, <1>3, InodeUpdate, ObjectFacts DEF Accounted

-----------------------------------------------------------------------------
(* The handlers: each keeps the types and is accounted for *)

LEMMA ReplyStep ==
    ASSUME IInv, NEW e \in Replies, Reply(e)
    PROVE  Typed' /\ Accounted /\ Quiet
  BY DEF IInv, TypeOK, Typed, Reply, Return, state, Accounted, Sizes, Quiet,
         Points, Maps, Refs, Linked

LEMMA FailStep ==
    ASSUME IInv, NEW e \in Replies, Fail(e)
    PROVE  Typed' /\ Accounted /\ Quiet
  BY ReplyStep DEF Fail

\* What a successful open does: the object and the handle it leaves.
LEMMA OpenChanges ==
    ASSUME IInv, NEW p \in PathArg, NEW mode \in OpenMode,
           SyscallOpenat(p, mode), ~Fail(OpenError(p, mode))
    PROVE  /\ OpenError(p, mode) = "OK" /\ p \in Path
           /\ nextFD \in FD /\ nextFD' = nextFD + 1 /\ nextFD' \in 3..FdBound
           /\ ret' = "OK" /\ UNCHANGED <<dirs, mappings>>
           /\ \E f \in File, o \in Object, h \in Handle :
                 /\ Opened(p, f) /\ files' = [files EXCEPT ![p] = f]
                 /\ o.linked /\ o.refs = inode[f].refs + 1
                 /\ o.data \in {<< >>, inode[f].data}
                 /\ inode' = [inode EXCEPT ![f] = o]
                 /\ bytes' = bytes - (Len(inode[f].data) - Len(o.data))
                 /\ h.file = f /\ fds' = [fds EXCEPT ![nextFD] = h]
<1>1. OpenError(p, mode) = "OK" /\ p \in Path
  BY ArgAssumption DEF SyscallOpenat, OpenError
<1>2. mode.access \in Access /\ mode.append \in BOOLEAN /\ mode.trunc \in BOOLEAN
  BY ArgAssumption
<1>3. PICK f \in File :
         LET data == IF mode.trunc THEN << >> ELSE inode[f].data IN
          /\ Opened(p, f)
          /\ files' = [files EXCEPT ![p] = f]
          /\ inode' = [inode EXCEPT ![f] =
                 [data |-> data, linked |-> TRUE, refs |-> @.refs + 1]]
          /\ bytes' = bytes - (Len(inode[f].data) - Len(data))
          /\ fds' = [fds EXCEPT ![nextFD] =
                 [file |-> f, access |-> mode.access, append |-> mode.append,
                  offset |-> IF mode.append THEN Len(data) ELSE 0]]
  BY DEF SyscallOpenat
<1> DEFINE data == IF mode.trunc THEN << >> ELSE inode[f].data
           o == [data |-> data, linked |-> TRUE, refs |-> inode[f].refs + 1]
           h == [file |-> f, access |-> mode.access, append |-> mode.append,
                 offset |-> IF mode.append THEN Len(data) ELSE 0]
<1>4. /\ o \in Object /\ Len(o.data) \in Nat
      /\ o.data \in {<< >>, inode[f].data}
  BY <1>2, ObjectFacts DEF Object
<1>5. h \in Handle /\ h.file = f
  <2>1. Len(data) \in Nat /\ Len(data) <= MaxInt64
    BY ObjectFacts, LimitAssumption
  <2> QED
    BY <1>2, <2>1, LimitAssumption DEF Handle, Int64
<1>6. nextFD \in 3..FdBound /\ nextFD < FdBound /\ nextFD' = nextFD + 1
  BY ObjectFacts DEF SyscallOpenat, Typed, Fail
<1>7. nextFD \in FD /\ nextFD' \in 3..FdBound
  BY <1>6, LimitAssumption DEF FD
<1>8. /\ inode' = [inode EXCEPT ![f] = o] /\ o.linked /\ o.refs = inode[f].refs + 1
      /\ Opened(p, f) /\ files' = [files EXCEPT ![p] = f]
      /\ bytes' = bytes - (Len(inode[f].data) - Len(o.data))
      /\ fds' = [fds EXCEPT ![nextFD] = h]
  BY <1>3, ObjectFacts DEF Typed
<1>9. UNCHANGED <<dirs, mappings>> /\ ret' = "OK"
  BY DEF SyscallOpenat, Return
<1> HIDE DEF o, h
<1> QED
  BY <1>1, <1>4, <1>5, <1>6, <1>7, <1>8, <1>9

LEMMA OpenStep ==
    ASSUME IInv, NEW p \in PathArg, NEW mode \in OpenMode, SyscallOpenat(p, mode)
    PROVE  Typed' /\ Accounted
<1>1. CASE Fail(OpenError(p, mode))
  <2>1. OpenError(p, mode) \in Replies
    BY DEF OpenError, Replies
  <2> QED
    BY <1>1, <2>1, FailStep
<1>2. CASE ~Fail(OpenError(p, mode))
  <2>1. PICK f \in File, o \in Object, h \in Handle :
           /\ Opened(p, f) /\ files' = [files EXCEPT ![p] = f]
           /\ o.linked /\ o.refs = inode[f].refs + 1
           /\ o.data \in {<< >>, inode[f].data}
           /\ inode' = [inode EXCEPT ![f] = o]
           /\ bytes' = bytes - (Len(inode[f].data) - Len(o.data))
           /\ h.file = f /\ fds' = [fds EXCEPT ![nextFD] = h]
    BY <1>2, OpenChanges
  <2>2. /\ p \in Path /\ nextFD \in FD /\ nextFD' \in 3..FdBound
        /\ ret' = "OK" /\ UNCHANGED <<dirs, mappings>>
    BY <1>2, OpenChanges
  <2>3. inode' \in [File -> Object] /\ Accounted
    <3>1. Len(o.data) <= Len(inode[f].data)
      BY <2>1, ObjectFacts
    <3> QED
      BY <2>1, <3>1, Shrinks
  <2>4. fds' \in [FD -> Handle \cup {Nil}] /\ files' \in [Path -> File \cup {Nil}]
    BY <2>1, <2>2, ObjectFacts DEF Typed
  <2> QED
    BY <2>2, <2>3, <2>4 DEF IInv, TypeOK, Typed, Replies
<1> QED
  BY <1>1, <1>2

LEMMA MkdirStep ==
    ASSUME IInv, NEW p \in PathArg, SyscallMkdirat(p)
    PROVE  Typed' /\ Accounted
<1>1. CASE Fail(MkdirError(p))
  <2>1. MkdirError(p) \in Replies
    BY DEF MkdirError, Replies
  <2> QED
    BY <1>1, <2>1, FailStep
<1>2. CASE MkdirError(p) = "OK" /\ ~Fail(MkdirError(p))
  <2>1. p \in Path
    BY <1>2, ArgAssumption DEF MkdirError
  <2>2. dirs' \subseteq Path \cup {Root}
    BY <1>2, <2>1 DEF SyscallMkdirat, IInv, TypeOK
  <2>3. ret' = "OK" /\ UNCHANGED <<files, fds, nextFD, bytes, mappings, inode>>
    BY <1>2 DEF SyscallMkdirat, Return
  <2> QED
    BY <2>2, <2>3 DEF IInv, TypeOK, Typed, Accounted, Sizes, Replies
<1> QED
  BY <1>1, <1>2 DEF SyscallMkdirat

LEMMA RmdirStep ==
    ASSUME IInv, NEW p \in PathArg, SyscallRmdir(p)
    PROVE  Typed' /\ Accounted
<1>1. CASE Fail(RmdirError(p))
  <2>1. RmdirError(p) \in Replies
    BY DEF RmdirError, Replies
  <2> QED
    BY <1>1, <2>1, FailStep
<1>2. CASE RmdirError(p) = "OK" /\ ~Fail(RmdirError(p))
  <2>1. dirs' \subseteq Path \cup {Root}
    BY <1>2 DEF SyscallRmdir, IInv, TypeOK
  <2>2. ret' = "OK" /\ UNCHANGED <<files, fds, nextFD, bytes, mappings, inode>>
    BY <1>2 DEF SyscallRmdir, Return
  <2> QED
    BY <2>1, <2>2 DEF IInv, TypeOK, Typed, Accounted, Sizes, Replies
<1> QED
  BY <1>1, <1>2 DEF SyscallRmdir

LEMMA UnlinkStep ==
    ASSUME IInv, NEW p \in PathArg, SyscallUnlinkat(p)
    PROVE  Typed' /\ Accounted
<1>1. CASE Fail(UnlinkError(p))
  <2>1. UnlinkError(p) \in Replies
    BY DEF UnlinkError, Replies
  <2> QED
    BY <1>1, <2>1, FailStep
<1>2. CASE UnlinkError(p) = "OK" /\ ~Fail(UnlinkError(p))
  <2> DEFINE f == files[p]
             o == [inode[f] EXCEPT !.linked = FALSE]
  <2>1. p \in Path /\ f \in File
    BY <1>2, ArgAssumption DEF UnlinkError, IInv, TypeOK
  <2>2. o \in Object /\ o.data = inode[f].data
    BY <2>1, ObjectFacts DEF Object
  <2>3. inode' = [inode EXCEPT ![f] = Settled(o)] /\ bytes' = bytes - Reclaimed(o)
    BY <1>2 DEF SyscallUnlinkat
  <2>4. inode' \in [File -> Object] /\ Accounted
    <3> HIDE DEF o
    <3> QED
      BY <2>1, <2>2, <2>3, Settles
  <2>5. files' \in [Path -> File \cup {Nil}]
    BY <1>2, <2>1 DEF SyscallUnlinkat, IInv, TypeOK
  <2>6. ret' = "OK" /\ UNCHANGED <<dirs, fds, nextFD, mappings>>
    BY <1>2 DEF SyscallUnlinkat, Return
  <2> QED
    BY <2>4, <2>5, <2>6 DEF IInv, TypeOK, Typed, Replies
<1> QED
  BY <1>1, <1>2 DEF SyscallUnlinkat

LEMMA RenameStep ==
    ASSUME IInv, NEW old \in PathArg, NEW new \in PathArg, SyscallRenameat(old, new)
    PROVE  Typed' /\ Accounted
<1>1. CASE Fail(RenameError(old, new))
  <2>1. RenameError(old, new) \in Replies
    BY DEF RenameError, Replies
  <2> QED
    BY <1>1, <2>1, FailStep
<1>2. CASE /\ RenameError(old, new) = "OK"
           /\ RenameFile(old, new) \/ RenameDir(old, new)
           /\ ret' = "OK"
           /\ UNCHANGED <<fds, nextFD, mappings>>
  <2>1. old \in Path /\ new \in Path
    BY <1>2, ArgAssumption DEF RenameError
  <2>2. CASE RenameFile(old, new)
    <3>1. files' \in [Path -> File \cup {Nil}]
      BY <2>1, <2>2 DEF RenameFile, Renamed, IInv, TypeOK
    <3>2. inode' \in [File -> Object] /\ Accounted
      <4>1. CASE files[new] = Nil
        BY <2>2, <4>1, ObjectFacts DEF RenameFile, IInv, TypeOK, Accounted, Sizes
      <4>2. CASE files[new] # Nil
        <5> DEFINE g == files[new]
                   o == [inode[g] EXCEPT !.linked = FALSE]
        <5>1. g \in File
          BY <2>1, <4>2 DEF IInv, TypeOK
        <5>2. o \in Object /\ o.data = inode[g].data
          BY <5>1, ObjectFacts DEF Object
        <5>3. inode' = [inode EXCEPT ![g] = Settled(o)] /\ bytes' = bytes - Reclaimed(o)
          BY <2>2, <4>2 DEF RenameFile
        <5> HIDE DEF o
        <5> QED
          BY <5>1, <5>2, <5>3, Settles
      <4> QED
        BY <4>1, <4>2
    <3>3. dirs' = dirs
      BY <2>2 DEF RenameFile
    <3> QED
      BY <1>2, <3>1, <3>2, <3>3 DEF IInv, TypeOK, Typed, Replies
  <2>3. CASE RenameDir(old, new)
    <3>1. dirs' \subseteq Path \cup {Root}
      BY <2>1, <2>3 DEF RenameDir, IInv, TypeOK
    <3>2. UNCHANGED <<files, inode, bytes>>
      BY <2>3 DEF RenameDir
    <3> QED
      BY <1>2, <3>1, <3>2 DEF IInv, TypeOK, Typed, Replies, Accounted, Sizes
  <2> QED
    BY <1>2, <2>2, <2>3
<1> QED
  BY <1>1, <1>2 DEF SyscallRenameat, Return

LEMMA FaccessatStep ==
    ASSUME IInv, NEW p \in PathArg, SyscallFaccessat(p)
    PROVE  Typed' /\ Accounted /\ Quiet
<1> DEFINE e == IF p = Unreadable THEN "EFAULT"
                ELSE IF p \in Path /\ files[p] = Nil /\ p \notin dirs THEN "ENOENT"
                ELSE "OK"
<1>1. e \in Replies
  BY DEF Replies
<1>2. Reply(e)
  BY DEF SyscallFaccessat
<1> QED
  BY <1>1, <1>2, ReplyStep

\* One holder fewer, in IInv's terms.
LEMMA UnreferencedType ==
    ASSUME IInv, NEW f \in File
    PROVE  Unreferenced(f) \in Object /\ Unreferenced(f).data = inode[f].data
  BY ObjectFacts DEF Unreferenced, Object

\* A descriptor's handle, when there is one.
LEMMA HandleFacts ==
    ASSUME IInv, NEW d \in FD, fds[d] # Nil
    PROVE  fds[d] \in Handle /\ fds[d].file \in File
  BY DEF IInv, TypeOK, Handle

LEMMA CloseStep ==
    ASSUME IInv, NEW d \in FD, WasiFDClose(d)
    PROVE  Typed' /\ Accounted
<1>1. CASE Reply("OK")
  BY <1>1, ReplyStep DEF Replies
<1>2. CASE Fail(DescriptorError(d))
  <2>1. DescriptorError(d) \in Replies
    BY DEF DescriptorError, Replies
  <2> QED
    BY <1>2, <2>1, FailStep
<1>3. CASE ~Reply("OK") /\ ~Fail(DescriptorError(d))
  <2> DEFINE f == fds[d].file
  <2>1. fds[d] # Nil /\ f \in File
    BY <1>3, HandleFacts DEF WasiFDClose, DescriptorError
  <2>2. /\ inode' = [inode EXCEPT ![f] = Settled(Unreferenced(f))]
        /\ bytes' = bytes - Reclaimed(Unreferenced(f))
    BY <1>3 DEF WasiFDClose
  <2>3. inode' \in [File -> Object] /\ Accounted
    BY <2>1, <2>2, UnreferencedType, Settles
  <2>4. fds' \in [FD -> Handle \cup {Nil}]
    BY <1>3 DEF WasiFDClose, IInv, TypeOK
  <2>5. ret' = "OK" /\ UNCHANGED <<files, dirs, nextFD, mappings>>
    BY <1>3 DEF WasiFDClose, Return
  <2> QED
    BY <2>3, <2>4, <2>5 DEF IInv, TypeOK, Typed, Replies
<1> QED
  BY <1>1, <1>2, <1>3

LEMMA DupStep ==
    ASSUME IInv, NEW d \in FD, NEW from \in FD, SyscallDup(d, from)
    PROVE  Typed' /\ Accounted
<1>1. CASE Fail(DupError(d))
  <2>1. DupError(d) \in Replies
    BY DEF DupError, Replies
  <2> QED
    BY <1>1, <2>1, FailStep
<1>2. CASE DupError(d) = "OK" /\ ~Fail(DupError(d))
  <2>1. fds[d] # Nil /\ fds[d] \in Handle /\ fds[d].file \in File
    BY <1>2, HandleFacts DEF DupError
  <2>2. PICK c \in FD : fds' = [fds EXCEPT ![c] = fds[d]]
    BY <1>2 DEF SyscallDup
  <2>3. fds' \in [FD -> Handle \cup {Nil}]
    BY <2>1, <2>2 DEF IInv, TypeOK
  <2>4. /\ inode' = Referenced(fds[d].file) /\ ret' = "OK"
        /\ UNCHANGED <<files, dirs, nextFD, bytes, mappings>>
    BY <1>2 DEF SyscallDup, Return
  <2>5. inode' \in [File -> Object] /\ Accounted
    BY <2>1, <2>4, CountsHolder
  <2> QED
    BY <2>3, <2>4, <2>5 DEF IInv, TypeOK, Typed, Replies
<1> QED
  BY <1>1, <1>2 DEF SyscallDup

LEMMA Dup3Step ==
    ASSUME IInv, NEW d \in FD, NEW e \in FD, SyscallDup3(d, e)
    PROVE  Typed' /\ Accounted
<1>1. CASE Fail(Dup3Error(d, e))
  <2>1. Dup3Error(d, e) \in Replies
    BY DEF Dup3Error, Replies
  <2> QED
    BY <1>1, <2>1, FailStep
<1>2. CASE Dup3Error(d, e) = "OK" /\ ~Fail(Dup3Error(d, e))
  <2>1. fds[d] # Nil /\ fds[d] \in Handle /\ fds[d].file \in File
    BY <1>2, HandleFacts DEF Dup3Error
  <2>2. /\ fds' = [fds EXCEPT ![e] = fds[d]] /\ ret' = "OK"
        /\ UNCHANGED <<files, dirs, nextFD, mappings>>
    BY <1>2 DEF SyscallDup3, Return
  <2>3. fds' \in [FD -> Handle \cup {Nil}]
    BY <2>1, <2>2 DEF IInv, TypeOK
  <2>4. inode' \in [File -> Object] /\ Accounted
    <3>1. CASE fds[e] = Nil
      <4>1. inode' = Referenced(fds[d].file) /\ bytes' = bytes
        BY <1>2, <3>1 DEF SyscallDup3
      <4> QED
        BY <2>1, <4>1, CountsHolder
    <3>2. CASE fds[e] # Nil
      <4> DEFINE f == fds[d].file
                 g == fds[e].file
                 o == Unreferenced(g)
                 mid == [inode EXCEPT ![g] = Settled(o)]
                 h == [mid[f] EXCEPT !.refs = @ + 1]
      <4>1. g \in File /\ o \in Object /\ o.data = inode[g].data
        BY <3>2, HandleFacts, UnreferencedType
      <4>2. /\ Settled(o) \in Object /\ Reclaimed(o) \in 0..Len(inode[g].data)
            /\ Len(Settled(o).data) = Len(inode[g].data) - Reclaimed(o)
        BY <4>1, SettledType
      <4>3. mid \in [File -> Object]
        BY <4>1, <4>2, ObjectFacts DEF Typed
      <4>4. h \in Object /\ h.data = mid[f].data
        BY <2>1, <4>3 DEF Object
      <4>5. inode' = [mid EXCEPT ![f] = h] /\ bytes' = bytes - Reclaimed(o)
        BY <1>2, <2>1, <3>2, <4>3 DEF SyscallDup3
      <4>6. inode' \in [File -> Object]
        BY <4>3, <4>4, <4>5
      <4>7. \A x \in File : inode'[x].data = mid[x].data
        BY <2>1, <4>3, <4>4, <4>5
      <4>8. Sizes' = [x \in File |-> Len(mid[x].data)]
        BY <4>7 DEF Sizes
      <4>9. Len(inode[g].data) \in 0..MaxFilesystemBytes
        BY <4>1, ObjectFacts
      <4>10. [x \in File |-> Len(mid[x].data)]
                = [Sizes EXCEPT ![g] = Len(Settled(o).data)]
        BY <4>1, ObjectFacts DEF Sizes, Typed
      <4>11. /\ bytes \in Nat /\ bytes <= MaxFilesystemBytes
             /\ Sizes[g] = Len(inode[g].data)
        BY <4>1, ObjectFacts
      <4>12. Moves(g, Len(Settled(o).data))
        <5>1. bytes' = bytes - Sizes[g] + Len(Settled(o).data)
          BY <4>2, <4>5, <4>9, <4>11
        <5>2. bytes' <= MaxFilesystemBytes
          BY <4>2, <4>5, <4>9, <4>11, LimitAssumption
        <5> QED
          BY <4>8, <4>10, <5>1, <5>2 DEF Moves
      <4>13. Len(Settled(o).data) \in 0..MaxFilesystemBytes
        BY <4>2, <4>9, LimitAssumption
      <4> QED
        BY <4>1, <4>6, <4>12, <4>13 DEF Accounted
    <3> QED
      BY <3>1, <3>2
  <2> QED
    BY <2>2, <2>3, <2>4 DEF IInv, TypeOK, Typed, Replies
<1> QED
  BY <1>1, <1>2 DEF SyscallDup3

LEMMA SetFlagsStep ==
    ASSUME IInv, NEW d \in FD, NEW append \in BOOLEAN, SetFlags(d, append)
    PROVE  Typed' /\ Accounted /\ Quiet
<1>1. CASE Fail(DescriptorError(d))
  <2>1. DescriptorError(d) \in Replies
    BY DEF DescriptorError, Replies
  <2> QED
    BY <1>1, <2>1, FailStep
<1>2. CASE DescriptorError(d) = "OK" /\ ~Fail(DescriptorError(d))
  <2>1. fds[d] \in Handle
    BY <1>2, HandleFacts DEF DescriptorError
  <2>2. [fds[d] EXCEPT !.append = append] \in Handle
    BY <2>1 DEF Handle
  <2>3. fds' \in [FD -> Handle \cup {Nil}]
    BY <1>2, <2>2 DEF SetFlags, IInv, TypeOK
  <2>4. ret' = "OK" /\ UNCHANGED <<files, dirs, nextFD, bytes, mappings, inode>>
    BY <1>2 DEF SetFlags, Return
  <2>5. Points' = Points
    <3>1. fds' = [fds EXCEPT ![d] = [fds[d] EXCEPT !.append = append]]
      BY <1>2 DEF SetFlags, IInv, TypeOK
    <3>2. [fds[d] EXCEPT !.append = append].file = fds[d].file
      BY <2>1 DEF Handle
    <3> QED
      BY <1>2, <2>2, <3>1, <3>2, ArgAssumption DEF DescriptorError, Points, IInv, TypeOK
  <2> QED
    BY <2>3, <2>4, <2>5
    DEF IInv, TypeOK, Typed, Replies, Accounted, Sizes, Quiet, Maps, Refs, Linked
<1> QED
  BY <1>1, <1>2 DEF SetFlags

\* A sum of two int64 values, wrapped, is an int64.
LEMMA Wrap64Type ==
    ASSUME NEW n \in Int, -2 * MaxInt64 - 2 <= n, n <= 2 * MaxInt64 + 1
    PROVE  Wrap64(n) \in Int64 /\ (n \in Int64 => Wrap64(n) = n)
           /\ (n > MaxInt64 => Wrap64(n) < 0)
  BY LimitAssumption DEF Wrap64, Int64

\* A descriptor's offset can be set to any int64.
LEMMA OffsetUpdate ==
    ASSUME IInv, NEW d \in FD, fds[d] # Nil, NEW offset \in Int64,
           fds' = [fds EXCEPT ![d].offset = offset]
    PROVE  fds' \in [FD -> Handle \cup {Nil}] /\ Points' = Points
<1> DEFINE h == [fds[d] EXCEPT !.offset = offset]
<1>1. h \in Handle /\ h.file = fds[d].file
  BY HandleFacts DEF Handle
<1>2. fds' = [fds EXCEPT ![d] = h] /\ h # Nil
  BY <1>1, ArgAssumption
<1> HIDE DEF h
<1> QED
  BY <1>1, <1>2 DEF IInv, TypeOK, Points

LEMMA SeekStep ==
    ASSUME IInv, NEW d \in FD, NEW delta \in Delta,
           NEW whence \in {"set", "cur", "end"}, WasiFDSeek(d, delta, whence)
    PROVE  Typed' /\ Accounted /\ Quiet
<1>1. CASE Fail(SeekError(d, delta, whence))
  <2>1. SeekError(d, delta, whence) \in Replies
    BY DEF SeekError, Replies
  <2> QED
    BY <1>1, <2>1, FailStep
<1>2. CASE /\ SeekError(d, delta, whence) = "OK"
           /\ ~Fail(SeekError(d, delta, whence)) /\ ~Fail("EFAULT")
  <2>1. fds[d] # Nil /\ fds[d] \in Handle /\ fds[d].file \in File
    BY <1>2, HandleFacts DEF SeekError
  <2>2. SeekBase(d, whence) \in Int64
    <3>1. Len(ObjectOf(d).data) \in Int64
      BY <2>1, ObjectFacts, LimitAssumption DEF ObjectOf, Int64
    <3>2. fds[d].offset \in Int64 /\ 0 \in Int64
      BY <2>1, LimitAssumption DEF Handle, Int64
    <3> QED
      BY <3>1, <3>2 DEF SeekBase
  <2>3. delta \in Int64
    BY ArgAssumption
  <2>4. Wrap64(SeekBase(d, whence) + delta) \in Int64
    BY <2>2, <2>3, Wrap64Type, LimitAssumption DEF Int64
  <2>5. fds' = [fds EXCEPT ![d].offset = Wrap64(SeekBase(d, whence) + delta)]
    BY <1>2 DEF WasiFDSeek
  <2>6. fds' \in [FD -> Handle \cup {Nil}] /\ Points' = Points
    BY <2>1, <2>4, <2>5, OffsetUpdate
  <2>7. ret' = "OK" /\ UNCHANGED <<files, dirs, nextFD, bytes, mappings, inode>>
    BY <1>2 DEF WasiFDSeek, Return
  <2> QED
    BY <2>6, <2>7
    DEF IInv, TypeOK, Typed, Replies, Accounted, Sizes, Quiet, Maps, Refs, Linked
<1>3. CASE Fail("EFAULT")
  BY <1>3, FailStep DEF Replies
<1> QED
  BY <1>1, <1>2, <1>3 DEF WasiFDSeek

LEMMA CheckStep ==
    ASSUME IInv, NEW d \in FD, CheckFD(d) \/ WasiFDStatGet(d)
    PROVE  Typed' /\ Accounted /\ Quiet
<1>1. DescriptorError(d) \in Replies /\ "OK" \in Replies /\ "EFAULT" \in Replies
  BY DEF DescriptorError, Replies
<1>2. CASE Fail("EFAULT")
  BY <1>1, <1>2, FailStep
<1> QED
  BY <1>1, <1>2, ReplyStep DEF CheckFD, WasiFDStatGet

\* A file resized within the quota.
LEMMA ResizeStep ==
    ASSUME IInv, NEW f \in File, NEW n \in 0..MaxFilesystemBytes,
           ResizeError(f, n) = "OK", ResizeTo(f, n)
    PROVE  Typed' /\ Accounted /\ Quiet
<1> DEFINE o == [inode[f] EXCEPT !.data = Resized(@, n)]
<1>1. /\ inode[f] \in Object /\ inode[f].data \in Seq(Byte)
      /\ Len(inode[f].data) \in 0..MaxFilesystemBytes
      /\ bytes \in Nat /\ bytes <= MaxFilesystemBytes /\ Typed
  BY ObjectFacts DEF Object
<1>2. o \in Object /\ Len(o.data) = n
  <2>1. n \in Nat
    BY LimitAssumption
  <2>2. Resized(inode[f].data, n) \in Seq(Byte) /\ Len(Resized(inode[f].data, n)) = n
    BY <1>1, <2>1, ResizedType
  <2> QED
    BY <1>1, <2>2 DEF Object
<1>3. inode' = [inode EXCEPT ![f] = o]
  BY <1>1 DEF ResizeTo, Typed
<1>4. /\ inode' \in [File -> Object]
      /\ Sizes' = [Sizes EXCEPT ![f] = Len(o.data)]
      /\ Sizes[f] = Len(inode[f].data)
  <2> HIDE DEF o
  <2> QED
    BY <1>1, <1>2, <1>3, InodeUpdate
<1>5. bytes' = bytes + n - Len(inode[f].data)
  BY DEF ResizeTo
<1>6. bytes + n - Len(inode[f].data) <= MaxFilesystemBytes
  <2>1. ~(bytes + n - Len(inode[f].data) > MaxFilesystemBytes)
    BY DEF ResizeError
  <2>2. bytes \in Int /\ n \in Int /\ Len(inode[f].data) \in Int
    BY <1>1, LimitAssumption
  <2> DEFINE total == bytes + n - Len(inode[f].data)
  <2>3. total \in Int
    BY <2>2
  <2>4. ~(total > MaxFilesystemBytes)
    BY <2>1, Zenon
  <2>5. MaxFilesystemBytes \in Int
    BY LimitAssumption
  <2>6. total <= MaxFilesystemBytes
    <3> HIDE DEF total
    <3> QED
      BY <2>3, <2>4, <2>5
  <2> QED
    BY <2>6
<1>7. Moves(f, n)
  <2>1. bytes' = bytes - Sizes[f] + n /\ bytes' <= MaxFilesystemBytes
    BY <1>1, <1>4, <1>5, <1>6, LimitAssumption
  <2> QED
    BY <1>2, <1>4, <2>1 DEF Moves
<1>8. ret' = "OK" /\ UNCHANGED <<files, dirs, fds, nextFD, mappings>>
  BY DEF ResizeTo, Return
<1>9. Refs' = Refs /\ Linked' = Linked
  <2>1. o.refs = inode[f].refs /\ o.linked = inode[f].linked
    BY <1>1 DEF Object
  <2> HIDE DEF o
  <2> QED
    BY <1>1, <1>3, <2>1 DEF Refs, Linked, Typed
<1> QED
  BY <1>4, <1>7, <1>8, <1>9
  DEF IInv, TypeOK, Typed, Replies, Accounted, Quiet, Points, Maps

LEMMA FtruncateStep ==
    ASSUME IInv, NEW d \in FD, NEW n \in Int, SyscallFtruncate(d, n)
    PROVE  Typed' /\ Accounted /\ Quiet
<1>1. CASE Fail(FtruncateError(d, n))
  <2>1. FtruncateError(d, n) \in Replies
    BY DEF FtruncateError, ResizeError, Replies
  <2> QED
    BY <1>1, <2>1, FailStep
<1>2. CASE FtruncateError(d, n) = "OK" /\ ResizeTo(fds[d].file, n)
  <2>1. fds[d] # Nil /\ n \in 0..MaxFilesystemBytes
    BY <1>2, LimitAssumption DEF FtruncateError
  <2>2. ResizeError(fds[d].file, n) = "OK"
    BY <1>2, <2>1 DEF FtruncateError
  <2> QED
    BY <1>2, <2>1, <2>2, HandleFacts, ResizeStep
<1> QED
  BY <1>1, <1>2 DEF SyscallFtruncate

LEMMA TruncateStep ==
    ASSUME IInv, NEW p \in PathArg, NEW n \in Size, SyscallTruncate(p, n)
    PROVE  Typed' /\ Accounted /\ Quiet
<1>1. CASE Fail(TruncateError(p, n))
  <2>1. TruncateError(p, n) \in Replies
    BY DEF TruncateError, ResizeError, Replies
  <2> QED
    BY <1>1, <2>1, FailStep
<1>2. CASE TruncateError(p, n) = "OK" /\ ResizeTo(files[p], n)
  <2>1. n \in Int
    BY ArgAssumption DEF Int64
  <2>2. p \in Path /\ files[p] # Nil /\ n \in 0..MaxFilesystemBytes
    BY <1>2, <2>1, ArgAssumption, LimitAssumption DEF TruncateError
  <2>3. ResizeError(files[p], n) = "OK" /\ files[p] \in File
    BY <1>2, <2>2 DEF TruncateError, IInv, TypeOK
  <2> QED
    BY <1>2, <2>2, <2>3, ResizeStep
<1> QED
  BY <1>1, <1>2 DEF SyscallTruncate

LEMMA AllocateStep ==
    ASSUME IInv, NEW d \in FD, NEW at \in Delta, NEW n \in Size, Allocate(d, at, n)
    PROVE  Typed' /\ Accounted /\ Quiet
<1>1. CASE Fail(AllocateError(d, at, n))
  <2>1. AllocateError(d, at, n) \in Replies
    BY DEF AllocateError, DescriptorError, Replies
  <2> QED
    BY <1>1, <2>1, FailStep
<1>2. CASE Reply("OK")
  BY <1>2, ReplyStep DEF Replies
<1>3. CASE SyscallFtruncate(d, at + n)
  <2>1. at + n \in Int
    BY ArgAssumption DEF Int64
  <2> QED
    BY <1>3, <2>1, FtruncateStep
<1> QED
  BY <1>1, <1>2, <1>3 DEF Allocate

\* What one vector keeps of a write in progress: the types, a length within
\* the quota, and the count moving with the length.
Sound(t) ==
    /\ t \in Transfer
    /\ Len(t.data) <= MaxFilesystemBytes /\ t.used <= MaxFilesystemBytes

Balance(t) == t.used - Len(t.data)

LEMMA PutKeeps ==
    ASSUME NEW t, Sound(t), NEW append \in BOOLEAN,
           NEW v \in Seq(Byte), Len(v) <= MaxInt64
    PROVE  Sound(Put(t, v, append)) /\ Balance(Put(t, v, append)) = Balance(t)
<1> DEFINE size == Len(t.data)
           at   == Start(t, append)
           end  == Wrap64(at + Len(v))
           used == t.used + end - size
           grown == IF end > size THEN used ELSE t.used
<1>1. /\ t.data \in Seq(Byte) /\ size \in Nat /\ size <= MaxFilesystemBytes
      /\ t.offset \in Int64 /\ t.used \in Int /\ t.used <= MaxFilesystemBytes
      /\ t.errno \in Replies /\ Len(v) \in Nat
      /\ t = [data |-> t.data, offset |-> t.offset, used |-> t.used, errno |-> t.errno]
  BY DEF Sound, Transfer
<1>2. at \in Int64
  BY <1>1, LimitAssumption DEF Start, Int64
<1>3. at + Len(v) \in Int /\ -MaxInt64 - 1 <= at + Len(v) /\ at + Len(v) <= 2 * MaxInt64
  BY <1>1, <1>2, LimitAssumption DEF Int64
<1>7. /\ end \in Int64 /\ (at + Len(v) \in Int64 => end = at + Len(v))
      /\ (at + Len(v) > MaxInt64 => end < 0)
  BY <1>3, Wrap64Type, LimitAssumption
<1>8. end \in Int
  BY <1>7, LimitAssumption DEF Int64
<1>4. CASE t.errno # "OK"
  BY <1>4 DEF Put
<1>5. CASE /\ t.errno = "OK"
           /\ end < 0 \/ end > MaxFilesystemBytes \/ used > MaxFilesystemBytes
  <2>1. Put(t, v, append) = [t EXCEPT !.offset = at, !.errno = "EINVAL"]
    BY <1>5 DEF Put
  <2>2. Put(t, v, append)
          = [data |-> t.data, offset |-> at, used |-> t.used, errno |-> "EINVAL"]
    BY <1>1, <2>1
  <2> HIDE DEF at
  <2> QED
    BY <1>1, <1>2, <2>2 DEF Sound, Balance, Transfer, Replies
<1>6. CASE /\ t.errno = "OK"
           /\ ~(end < 0 \/ end > MaxFilesystemBytes \/ used > MaxFilesystemBytes)
  <2>1. end \in 0..MaxFilesystemBytes /\ used <= MaxFilesystemBytes /\ end \in Int64
    <3>1. ~(end < 0) /\ ~(end > MaxFilesystemBytes) /\ ~(used > MaxFilesystemBytes)
      BY <1>6
    <3>2. used \in Int
      BY <1>1, <1>8
    <3> HIDE DEF end, used
    <3> QED
      BY <1>7, <1>8, <3>1, <3>2, LimitAssumption
  <2>2. grown = t.used + Larger(size, end) - size /\ grown <= MaxFilesystemBytes
        /\ grown \in Int
    BY <1>1, <1>8, <2>1, LimitAssumption DEF Larger
  <2>3. Larger(size, end) \in Nat /\ Larger(size, end) <= MaxFilesystemBytes
    BY <1>1, <2>1, LimitAssumption DEF Larger
  <2>4. CASE at < 0
    <3>1. Put(t, v, append)
            = [data |-> Resized(t.data, Larger(size, end)), offset |-> at,
               used |-> grown, errno |-> "PANIC"]
      BY <1>6, <2>4 DEF Put
    <3>2. /\ Resized(t.data, Larger(size, end)) \in Seq(Byte)
          /\ Len(Resized(t.data, Larger(size, end))) = Larger(size, end)
      BY <1>1, <2>3, ResizedType
    <3> HIDE DEF at, grown, end
    <3> QED
      BY <1>1, <1>2, <2>2, <2>3, <3>1, <3>2 DEF Sound, Balance, Transfer, Replies
  <2>5. CASE ~(at < 0)
    <3>1. Put(t, v, append)
            = [data |-> Overwritten(t.data, at, v), offset |-> end,
               used |-> grown, errno |-> "OK"]
      BY <1>6, <2>5 DEF Put
    <3>2. at \in Nat /\ at + Len(v) = end
      <4>1. at \in Nat
        BY <1>2, <2>5, LimitAssumption DEF Int64
      <4>2. ~(at + Len(v) > MaxInt64)
        BY <1>7, <1>8, <2>1, LimitAssumption
      <4>3. at + Len(v) \in Int64
        BY <1>1, <1>3, <4>1, <4>2, LimitAssumption DEF Int64
      <4> QED
        BY <1>7, <4>1, <4>3
    <3>3. /\ Overwritten(t.data, at, v) \in Seq(Byte)
          /\ Len(Overwritten(t.data, at, v)) = Larger(size, end)
      BY <1>1, <3>2, OverwrittenType
    <3> HIDE DEF at, grown, end
    <3> QED
      BY <1>1, <2>1, <2>2, <2>3, <3>1, <3>3 DEF Sound, Balance, Transfer, Replies
  <2> QED
    BY <2>4, <2>5
<1> QED
  BY <1>4, <1>5, <1>6

LEMMA PutAllKeeps ==
    ASSUME NEW t, Sound(t), NEW append \in BOOLEAN,
           NEW iov \in IOVecs, iov # Unreadable
    PROVE  /\ Sound(PutAll(t, iov, append))
           /\ Balance(PutAll(t, iov, append)) = Balance(t)
<1> DEFINE first == IF Len(iov) >= 1 THEN Put(t, iov[1], append) ELSE t
<1>1. /\ iov \in Seq(Seq(Byte)) /\ Len(iov) \in Nat
      /\ \A i \in 1..Len(iov) : iov[i] \in Seq(Byte) /\ Len(iov[i]) <= MaxInt64
  <2>1. iov \in Seq(Seq(Byte)) /\ \A i \in DOMAIN iov : Len(iov[i]) <= MaxInt64
    BY ArgAssumption
  <2> QED
    BY <2>1
<1>2. Sound(first) /\ Balance(first) = Balance(t)
  <2>1. CASE Len(iov) >= 1
    <3>1. iov[1] \in Seq(Byte) /\ Len(iov[1]) <= MaxInt64
      BY <1>1, <2>1
    <3> QED
      BY <2>1, <3>1, PutKeeps
  <2> QED
    BY <2>1
<1>3. CASE Len(iov) >= 2
  <2>1. iov[2] \in Seq(Byte) /\ Len(iov[2]) <= MaxInt64
    BY <1>1, <1>3
  <2>2. PutAll(t, iov, append) = Put(first, iov[2], append)
    BY <1>3 DEF PutAll
  <2> HIDE DEF first
  <2> QED
    BY <1>2, <2>1, <2>2, PutKeeps
<1>4. CASE ~(Len(iov) >= 2)
  <2>1. PutAll(t, iov, append) = first
    BY <1>4 DEF PutAll
  <2> QED
    BY <1>2, <2>1
<1> QED
  BY <1>3, <1>4

\* Storing a sound write is accounted for.
LEMMA StoreStep ==
    ASSUME IInv, NEW d \in FD, fds[d] # Nil, NEW t, Sound(t),
           Balance(t) = bytes - Len(ObjectOf(d).data),
           NEW offset \in Int64, Store(d, t, offset)
    PROVE  Typed' /\ Accounted /\ Quiet
<1> DEFINE f == fds[d].file
           o == [inode[f] EXCEPT !.data = t.data]
<1>1. f \in File
  BY HandleFacts
<1>2. /\ inode[f] \in Object /\ Len(inode[f].data) \in 0..MaxFilesystemBytes
      /\ bytes \in Nat /\ Sizes[f] = Len(inode[f].data) /\ Typed
  BY <1>1, ObjectFacts
<1>3. /\ t.data \in Seq(Byte) /\ Len(t.data) \in 0..MaxFilesystemBytes
      /\ t.used \in Int /\ t.used <= MaxFilesystemBytes /\ t.errno \in Replies
  BY LimitAssumption DEF Sound, Transfer
<1>4. o \in Object /\ o.data = t.data
  BY <1>2, <1>3 DEF Object
<1>5. inode' = [inode EXCEPT ![f] = o]
  BY <1>2 DEF Store, Typed
<1>6. inode' \in [File -> Object] /\ Sizes' = [Sizes EXCEPT ![f] = Len(o.data)]
  <2> HIDE DEF o
  <2> QED
    BY <1>1, <1>2, <1>4, <1>5, InodeUpdate
<1>7. bytes' = t.used /\ t.used - Len(t.data) = bytes - Sizes[f]
  BY <1>2 DEF Store, Balance, ObjectOf
<1>8. Moves(f, Len(t.data))
  <2>1. \A a, b, c, u \in Int : u - c = b - a => u = b - a + c
    OBVIOUS
  <2>2. /\ Sizes[f] \in Int /\ bytes \in Int
        /\ Len(t.data) \in Int /\ t.used \in Int
    BY <1>2, <1>3, LimitAssumption
  <2>3. bytes' = bytes - Sizes[f] + Len(t.data)
    <3> HIDE DEF f
    <3> QED
      BY <1>7, <2>1, <2>2
  <2> QED
    BY <1>3, <1>4, <1>6, <1>7, <2>3 DEF Moves
<1>9. fds' \in [FD -> Handle \cup {Nil}] /\ Points' = Points
  BY OffsetUpdate DEF Store
<1>10. ret' \in Replies /\ UNCHANGED <<files, dirs, nextFD, mappings>>
  BY <1>3 DEF Store, Return
<1>11. Refs' = Refs /\ Linked' = Linked
  <2>1. o.refs = inode[f].refs /\ o.linked = inode[f].linked
    BY <1>2 DEF Object
  <2> HIDE DEF o
  <2> QED
    BY <1>2, <1>5, <2>1 DEF Refs, Linked, Typed
<1> QED
  BY <1>1, <1>2, <1>3, <1>6, <1>8, <1>9, <1>10, <1>11
  DEF Typed, Accounted, Quiet, Maps

\* What a descriptor's write leaves is sound, and its count balances.
LEMMA WrittenKeeps ==
    ASSUME IInv, NEW d \in FD, fds[d] # Nil, NEW iov \in IOVecs,
           iov # Unreadable, NEW at \in Int64
    PROVE  /\ Sound(Written(d, iov, at))
           /\ Balance(Written(d, iov, at)) = bytes - Len(ObjectOf(d).data)
<1> DEFINE t == [data |-> ObjectOf(d).data, offset |-> at, used |-> bytes,
                 errno |-> "OK"]
<1>1. fds[d].file \in File /\ fds[d].append \in BOOLEAN
  BY HandleFacts DEF Handle
<1>2. Sound(t) /\ Balance(t) = bytes - Len(ObjectOf(d).data)
  BY <1>1, ObjectFacts DEF Sound, Balance, Transfer, ObjectOf, Object, Replies
<1>3. Written(d, iov, at) = PutAll(t, iov, fds[d].append)
  BY DEF Written
<1> HIDE DEF t
<1> QED
  BY <1>1, <1>2, <1>3, PutAllKeeps

LEMMA WriteStep ==
    ASSUME IInv, NEW d \in FD, NEW iov \in IOVecs, WasiFDWrite(d, iov)
    PROVE  Typed' /\ Accounted /\ Quiet
<1>1. CASE Fail(WriteError(d, iov))
  <2>1. WriteError(d, iov) \in Replies
    BY DEF WriteError, Replies
  <2> QED
    BY <1>1, <2>1, FailStep
<1>2. CASE WriteError(d, iov) = "OK" /\ ~Fail(WriteError(d, iov))
  <2> DEFINE t == Written(d, iov, fds[d].offset)
  <2>1. fds[d] # Nil /\ iov # Unreadable
    BY <1>2 DEF WriteError
  <2>2. fds[d].offset \in Int64
    BY <2>1, HandleFacts DEF Handle
  <2>3. Sound(t) /\ Balance(t) = bytes - Len(ObjectOf(d).data)
    BY <2>1, <2>2, WrittenKeeps
  <2>4. Store(d, t, t.offset) /\ t.offset \in Int64
    BY <1>2, <2>3 DEF WasiFDWrite, Sound, Transfer
  <2> HIDE DEF t
  <2> QED
    BY <2>1, <2>3, <2>4, StoreStep
<1> QED
  BY <1>1, <1>2 DEF WasiFDWrite

LEMMA PwriteStep ==
    ASSUME IInv, NEW d \in FD, NEW iov \in IOVecs, NEW at \in Delta,
           WasiPwrite(d, iov, at)
    PROVE  Typed' /\ Accounted /\ Quiet
<1>1. CASE Fail(PositionedError(d, at))
  <2>1. PositionedError(d, at) \in Replies
    BY DEF PositionedError, Replies
  <2> QED
    BY <1>1, <2>1, FailStep
<1>2. CASE Fail(WriteError(d, iov))
  <2>1. WriteError(d, iov) \in Replies
    BY DEF WriteError, Replies
  <2> QED
    BY <1>2, <2>1, FailStep
<1>3. CASE /\ WriteError(d, iov) = "OK"
           /\ Store(d, Written(d, iov, at), fds[d].offset)
  <2>1. fds[d] # Nil /\ iov # Unreadable /\ at \in Int64
    BY <1>3, ArgAssumption DEF WriteError
  <2>2. fds[d].offset \in Int64
    BY <2>1, HandleFacts DEF Handle
  <2>3. /\ Sound(Written(d, iov, at))
        /\ Balance(Written(d, iov, at)) = bytes - Len(ObjectOf(d).data)
    BY <2>1, WrittenKeeps
  <2> QED
    BY <1>3, <2>1, <2>2, <2>3, StoreStep
<1> QED
  BY <1>1, <1>2, <1>3 DEF WasiPwrite

LEMMA ReadStep ==
    ASSUME IInv, NEW d \in FD, NEW iov \in IOVecs, WasiFDRead(d, iov)
    PROVE  Typed' /\ Accounted /\ Quiet
<1>1. CASE Fail(ReadError(d, iov))
  <2>1. ReadError(d, iov) \in Replies
    BY DEF ReadError, Replies
  <2> QED
    BY <1>1, <2>1, FailStep
<1>2. CASE ReadError(d, iov) = "OK" /\ ~Fail(ReadError(d, iov))
  <2> DEFINE at == fds[d].offset
             left == Larger(Len(ObjectOf(d).data) - at, 0)
             got == Smaller(Wanted(iov), left)
             offset == IF iov = << >> THEN at ELSE at + got
  <2>1. fds[d] # Nil /\ iov # Unreadable
    BY <1>2 DEF ReadError
  <2>2. at \in Int64 /\ fds[d].file \in File
    BY <2>1, HandleFacts DEF Handle
  <2>3. at < 0 => iov = << >>
    BY <1>2, <2>1 DEF ReadError
  <2>4. Wanted(iov) \in Nat
    <3>1. iov \in Seq(Seq(Byte))
      BY <2>1, ArgAssumption
    <3>2. \A i \in 1..Len(iov) : Len(iov[i]) \in Nat
      BY <3>1
    <3>3. Len(iov) \in Nat
      BY <3>1
    <3> DEFINE a == IF Len(iov) >= 1 THEN Len(iov[1]) ELSE 0
               b == IF Len(iov) >= 2 THEN Len(iov[2]) ELSE 0
    <3>4. a \in Nat /\ b \in Nat
      BY <3>2, <3>3
    <3>5. Wanted(iov) = a + b
      BY Zenon DEF Wanted
    <3> HIDE DEF a, b
    <3> QED
      BY <3>4, <3>5
  <2>5. Len(ObjectOf(d).data) \in 0..MaxFilesystemBytes
    BY <2>2, ObjectFacts DEF ObjectOf
  <2>6. offset \in Int64
    <3>1. CASE iov = << >>
      BY <2>2, <3>1
    <3>2. CASE iov # << >>
      <4>1. at \in 0..MaxInt64
        BY <2>2, <2>3, <3>2, LimitAssumption DEF Int64
      <4>2. left \in Nat /\ at + left <= Larger(at, Len(ObjectOf(d).data))
        BY <2>5, <4>1, LimitAssumption DEF Larger
      <4>3. Larger(at, Len(ObjectOf(d).data)) \in 0..MaxInt64
        BY <2>5, <4>1, LimitAssumption DEF Larger
      <4>4. got \in Nat /\ got <= left
        <5> HIDE DEF left
        <5> QED
          BY <2>4, <4>2 DEF Smaller
      <4>5. at + got \in 0..MaxInt64
        <5> HIDE DEF got, left, at
        <5> QED
          BY <4>1, <4>2, <4>3, <4>4, LimitAssumption
      <4> QED
        BY <3>2, <4>5, LimitAssumption DEF Int64
    <3> QED
      BY <3>1, <3>2
  <2>7. fds' = [fds EXCEPT ![d].offset = offset]
    BY <1>2 DEF WasiFDRead, IInv, TypeOK
  <2>8. fds' \in [FD -> Handle \cup {Nil}] /\ Points' = Points
    <3> HIDE DEF offset
    <3> QED
      BY <2>1, <2>6, <2>7, OffsetUpdate
  <2>9. ret' = "OK" /\ UNCHANGED <<files, dirs, nextFD, bytes, mappings, inode>>
    BY <1>2 DEF WasiFDRead, Return
  <2> QED
    BY <2>8, <2>9
    DEF IInv, TypeOK, Typed, Replies, Accounted, Sizes, Quiet, Maps, Refs, Linked
<1> QED
  BY <1>1, <1>2 DEF WasiFDRead

LEMMA PreadStep ==
    ASSUME IInv, NEW d \in FD, NEW iov \in IOVecs, NEW at \in Delta,
           WasiPread(d, iov, at)
    PROVE  Typed' /\ Accounted /\ Quiet
<1> DEFINE e == IF PositionedError(d, at) # "OK" THEN "EINVAL"
                ELSE IF iov = Unreadable THEN "EFAULT"
                ELSE IF fds[d].access = "write" THEN "EBADF"
                ELSE "OK"
<1>1. e \in Replies
  BY DEF Replies
<1>2. Reply(e)
  BY DEF WasiPread
<1> QED
  BY <1>1, <1>2, ReplyStep

\* What a successful mmap does: the mapping it leaves.
LEMMA MmapChanges ==
    ASSUME IInv, NEW d \in FD, NEW req \in MapRequest, Mmap(d, req),
           ~Fail(MmapError(d, req)), ~Fail("EINVAL"), ~Fail("EFAULT")
    PROVE  /\ fds[d] # Nil /\ fds[d].file \in File
           /\ inode' = Referenced(fds[d].file) /\ ret' = "OK"
           /\ UNCHANGED <<files, dirs, fds, nextFD, bytes>>
           /\ \E a \in Address, m \in Mapping :
                 /\ mappings[a] = Nil /\ m.file = fds[d].file
                 /\ mappings' = [mappings EXCEPT ![a] = m]
<1> DEFINE data == ObjectOf(d).data
           view == [i \in 1..req.length |->
                      IF req.offset + i <= Len(data)
                      THEN data[req.offset + i] ELSE Zero]
           m == [file |-> fds[d].file, offset |-> req.offset,
                 length |-> req.length, writeback |-> req.writeback,
                 view |-> view]
<1>1. /\ req.offset \in Int64 /\ req.length \in Nat /\ req.writeback \in BOOLEAN
      /\ ~(req.offset < 0) /\ fds[d] # Nil
      /\ req.length \in 1..MaxFilesystemBytes
  BY ArgAssumption, LimitAssumption DEF Mmap, MmapError, DescriptorError
<1>2. fds[d].file \in File /\ data \in Seq(Byte)
  BY <1>1, HandleFacts, ObjectFacts DEF ObjectOf, Object
<1>3. req.offset \in 0..MaxInt64
  BY <1>1, LimitAssumption DEF Int64
<1>4. view \in Seq(Byte) /\ Len(view) = req.length
  <2>1. \A i \in 1..req.length :
          (IF req.offset + i <= Len(data) THEN data[req.offset + i] ELSE Zero) \in Byte
    <3> HIDE DEF data
    <3> QED
      BY <1>1, <1>2, <1>3, ArgAssumption, LimitAssumption
  <2> QED
    BY <1>1, <2>1
<1>5. m \in Mapping /\ m.file = fds[d].file
  <2> HIDE DEF view
  <2> QED
    BY <1>1, <1>2, <1>3, <1>4 DEF Mapping
<1>6. PICK a \in Address :
          mappings[a] = Nil /\ mappings' = [mappings EXCEPT ![a] = m]
  BY DEF Mmap
<1>7. /\ inode' = Referenced(fds[d].file) /\ ret' = "OK"
      /\ UNCHANGED <<files, dirs, fds, nextFD, bytes>>
  BY DEF Mmap, Return
<1> HIDE DEF m
<1> QED
  BY <1>1, <1>2, <1>5, <1>6, <1>7

LEMMA MmapStep ==
    ASSUME IInv, NEW d \in FD, NEW req \in MapRequest, Mmap(d, req)
    PROVE  Typed' /\ Accounted
<1>1. CASE Fail(MmapError(d, req))
  <2>1. MmapError(d, req) \in Replies
    BY DEF MmapError, DescriptorError, Replies
  <2> QED
    BY <1>1, <2>1, FailStep
<1>2. CASE Fail("EINVAL") \/ Fail("EFAULT")
  BY <1>2, FailStep DEF Replies
<1>3. CASE ~Fail(MmapError(d, req)) /\ ~Fail("EINVAL") /\ ~Fail("EFAULT")
  <2>1. /\ fds[d] # Nil /\ fds[d].file \in File
        /\ inode' = Referenced(fds[d].file) /\ ret' = "OK"
        /\ UNCHANGED <<files, dirs, fds, nextFD, bytes>>
        /\ \E a \in Address, m \in Mapping : mappings' = [mappings EXCEPT ![a] = m]
    BY <1>3, MmapChanges
  <2>2. mappings' \in [Address -> Mapping \cup {Nil}]
    BY <2>1 DEF IInv, TypeOK
  <2>3. inode' \in [File -> Object] /\ Accounted
    BY <2>1, CountsHolder
  <2> QED
    BY <2>1, <2>2, <2>3 DEF IInv, TypeOK, Typed, Replies
<1> QED
  BY <1>1, <1>2, <1>3

LEMMA GuestStoreStep ==
    ASSUME IInv, NEW a \in Address, NEW i, NEW b \in Byte, GuestStore(a, i, b)
    PROVE  Typed' /\ Accounted /\ Quiet
<1> DEFINE m == mappings[a]
           n == [m EXCEPT !.view = [m.view EXCEPT ![i] = b]]
<1>1. m \in Mapping
  BY DEF GuestStore, IInv, TypeOK
<1>2. m.view \in Seq(Byte) /\ i \in 1..Len(m.view) /\ Len(m.view) = m.length
  BY <1>1 DEF Mapping, GuestStore
<1>7. /\ [m.view EXCEPT ![i] = b] \in Seq(Byte)
      /\ Len([m.view EXCEPT ![i] = b]) = m.length
  BY <1>2
<1>3. n \in Mapping
  BY <1>1, <1>7 DEF Mapping
<1>4. mappings' = [mappings EXCEPT ![a] = n]
  BY DEF GuestStore, IInv, TypeOK
<1>5. mappings' \in [Address -> Mapping \cup {Nil}]
  <2> HIDE DEF n
  <2> QED
    BY <1>3, <1>4 DEF IInv, TypeOK
<1>6. ret' = "OK" /\ UNCHANGED <<files, dirs, fds, nextFD, bytes, inode>>
  BY DEF GuestStore, Return
<1>8. Maps' = Maps
  <2>1. n.file = m.file /\ n # Nil /\ m # Nil
    BY <1>1, <1>3, ArgAssumption DEF Mapping
  <2> HIDE DEF n
  <2> QED
    BY <1>4, <2>1 DEF Maps, IInv, TypeOK
<1> QED
  BY <1>5, <1>6, <1>8
  DEF IInv, TypeOK, Typed, Replies, Accounted, Sizes, Quiet, Points, Refs, Linked

\* The object a writeback leaves, before it is settled: it fits the quota, and
\* so does the total.
LEMMA WritebackFits ==
    ASSUME IInv, NEW m \in Mapping, ~(WritesBack(m) /\ MapEnd(m) < 0)
    PROVE  LET old == inode[m.file].data
               data == IF WritesBack(m) THEN Overwritten(old, m.offset, m.view)
                       ELSE old
           IN /\ data \in Seq(Byte)
              /\ Len(data) \in Len(old)..MaxFilesystemBytes
              /\ bytes + Len(data) - Len(old) <= MaxFilesystemBytes
<1> DEFINE old == inode[m.file].data
           end == MapEnd(m)
           size == Len(old)
<1>1. /\ m.file \in File /\ m.offset \in 0..MaxInt64 /\ m.length \in Nat
      /\ m.view \in Seq(Byte) /\ Len(m.view) = m.length /\ m.length <= MaxInt64
  BY LimitAssumption DEF Mapping
<1>2. /\ old \in Seq(Byte) /\ size \in 0..MaxFilesystemBytes
      /\ bytes \in Nat /\ bytes <= MaxFilesystemBytes
  BY <1>1, ObjectFacts DEF Object
<1>3. CASE ~WritesBack(m)
  BY <1>2, <1>3, LimitAssumption
<1>4. CASE WritesBack(m)
  <2>1. ~(end < 0)
    BY <1>4
  <2>2. /\ m.offset + m.length \in Int /\ m.offset \in Nat
        /\ 0 <= m.offset + m.length /\ m.offset + m.length <= 2 * MaxInt64
    BY <1>1, LimitAssumption
  <2>3. /\ end \in Int64
        /\ (m.offset + m.length \in Int64 => end = m.offset + m.length)
        /\ (m.offset + m.length > MaxInt64 => end < 0)
    BY <2>2, Wrap64Type, LimitAssumption DEF MapEnd
  <2>4. ~(m.offset + m.length > MaxInt64)
    BY <2>1, <2>3
  <2>5. m.offset + m.length \in Int64
    BY <2>2, <2>4, LimitAssumption DEF Int64
  <2>6. end = m.offset + m.length /\ end \in Nat
    BY <2>2, <2>3, <2>5
  <2>7. end <= MaxFilesystemBytes /\ bytes + Larger(end - size, 0) <= MaxFilesystemBytes
    BY <1>4 DEF WritesBack, Fits
  <2> DEFINE data == Overwritten(old, m.offset, m.view)
  <2>8. data \in Seq(Byte) /\ Len(data) = Larger(size, end)
    <3>1. end = m.offset + Len(m.view)
      BY <1>1, <2>6
    <3> HIDE DEF end
    <3> QED
      BY <1>1, <1>2, <2>2, <3>1, OverwrittenType
  <2>9. Len(data) \in size..MaxFilesystemBytes
    <3> HIDE DEF data, end, size
    <3> QED
      BY <1>2, <2>6, <2>7, <2>8, LimitAssumption DEF Larger
  <2>10. bytes + Len(data) - size <= MaxFilesystemBytes
    <3> HIDE DEF data, end, size
    <3> QED
      BY <1>2, <2>6, <2>7, <2>8, LimitAssumption DEF Larger
  <2> QED
    BY <1>4, <2>8, <2>9, <2>10
<1> QED
  BY <1>3, <1>4

LEMMA MunmapStep ==
    ASSUME IInv, NEW a \in Address, Munmap(a)
    PROVE  Typed' /\ Accounted
<1> DEFINE m == mappings[a]
           f == m.file
           old == inode[f].data
           data == IF WritesBack(m) THEN Overwritten(old, m.offset, m.view) ELSE old
           o == [Unreferenced(f) EXCEPT !.data = data]
<1>1. CASE Reply("OK")
  BY <1>1, ReplyStep DEF Replies
<1>2. CASE m # Nil /\ ~Reply("OK")
  <2>1. m \in Mapping /\ f \in File
    BY <1>2 DEF IInv, TypeOK, Mapping
  <2>2. mappings' = [mappings EXCEPT ![a] = Nil] /\ UNCHANGED <<files, dirs, fds, nextFD>>
    BY <1>2 DEF Munmap
  <2>3. mappings' \in [Address -> Mapping \cup {Nil}]
    BY <2>2 DEF IInv, TypeOK
  <2>4. CASE WritesBack(m) /\ MapEnd(m) < 0
    <3>1. ret' = "PANIC" /\ UNCHANGED <<inode, bytes>>
      BY <1>2, <2>4 DEF Munmap, Return
    <3> QED
      BY <2>2, <2>3, <3>1 DEF IInv, TypeOK, Typed, Replies, Accounted, Sizes
  <2>5. CASE ~(WritesBack(m) /\ MapEnd(m) < 0)
    <3>1. /\ inode' = [inode EXCEPT ![f] = Settled(o)] /\ ret' = "OK"
          /\ bytes' = bytes + Len(data) - Len(old) - Reclaimed(o)
      BY <1>2, <2>5 DEF Munmap, Return
    <3>2. /\ data \in Seq(Byte)
          /\ Len(data) \in Len(old)..MaxFilesystemBytes
          /\ bytes + Len(data) - Len(old) <= MaxFilesystemBytes
      BY <2>1, <2>5, WritebackFits
    <3>3. /\ inode[f] \in Object /\ Len(old) \in 0..MaxFilesystemBytes
          /\ bytes \in Nat /\ Sizes[f] = Len(old) /\ Typed
      BY <2>1, ObjectFacts
    <3>4. o \in Object /\ o.data = data
      <4>1. data \in Seq(Byte) /\ Unreferenced(f) \in Object
        BY <2>1, <3>2, UnreferencedType
      <4> HIDE DEF data, f
      <4> QED
        BY <4>1 DEF Object
    <3>5. /\ Settled(o) \in Object /\ Reclaimed(o) \in 0..Len(data)
          /\ Len(Settled(o).data) = Len(data) - Reclaimed(o)
      <4> HIDE DEF o, data
      <4> QED
        BY <3>4, SettledType
    <3>6. /\ inode' \in [File -> Object]
          /\ Sizes' = [Sizes EXCEPT ![f] = Len(Settled(o).data)]
      <4> HIDE DEF o, f
      <4> QED
        BY <2>1, <3>1, <3>3, <3>5, InodeUpdate
    <3> DEFINE n == Len(Settled(o).data)
    <3>7. /\ Len(data) \in Int /\ Len(old) \in Int /\ bytes \in Int
          /\ Reclaimed(o) \in Int /\ MaxFilesystemBytes \in Int
          /\ Reclaimed(o) >= 0 /\ Reclaimed(o) <= Len(data)
          /\ Len(data) <= MaxFilesystemBytes
      <4> HIDE DEF o, data, old
      <4> QED
        BY <3>2, <3>3, <3>5, LimitAssumption
    <3>8. n \in 0..MaxFilesystemBytes /\ bytes' = bytes - Len(old) + n
          /\ bytes' <= MaxFilesystemBytes
      <4>1. n = Len(data) - Reclaimed(o)
        BY <3>5
      <4> HIDE DEF n, o, data, old
      <4> QED
        BY <3>1, <3>2, <3>7, <4>1
    <3>9. Moves(f, n)
      BY <3>3, <3>6, <3>8 DEF Moves
    <3>10. Accounted
      <4> HIDE DEF n, f
      <4> QED
        BY <2>1, <3>8, <3>9 DEF Accounted
    <3> QED
      BY <2>2, <2>3, <3>1, <3>6, <3>10 DEF IInv, TypeOK, Typed, Replies
  <2> QED
    BY <2>4, <2>5
<1> QED
  BY <1>1, <1>2 DEF Munmap

-----------------------------------------------------------------------------
(* The specification *)

LEMMA InitIInv ==
    ASSUME Init
    PROVE  IInv /\ Account!Init
<1>1. Sizes = [f \in File |-> 0]
  BY DEF Init, Sizes, Released
<1>2. QuotaExact /\ Sizes \in Account!Sizes
  BY <1>1, QuotaOfNothing, LimitAssumption DEF Init, QuotaExact, Account!Sizes
<1>3. Released \in Object
  BY DEF Released, Object
<1>4. TypeOK
  BY <1>3, LimitAssumption DEF Init, TypeOK, Replies
<1> QED
  BY <1>1, <1>2, <1>4 DEF IInv, Account!Init

LEMMA ArgTypes ==
    FdArg \subseteq FD /\ NewFdArg \subseteq FD /\ AppendArg \subseteq BOOLEAN
  BY ArgAssumption

LEMMA PathStep ==
    ASSUME IInv, PathCall
    PROVE  Typed' /\ Accounted
<1> PICK p \in PathArg :
       \/ \E mode \in OpenMode : SyscallOpenat(p, mode)
       \/ SyscallMkdirat(p)
       \/ SyscallRmdir(p)
       \/ SyscallUnlinkat(p)
       \/ \E q \in PathArg : SyscallRenameat(p, q)
       \/ SyscallFaccessat(p)
       \/ \E n \in Size : SyscallTruncate(p, n)
  BY DEF PathCall
<1>1. CASE \E mode \in OpenMode : SyscallOpenat(p, mode)
  BY <1>1, OpenStep
<1>2. CASE SyscallMkdirat(p)
  BY <1>2, MkdirStep
<1>3. CASE SyscallRmdir(p)
  BY <1>3, RmdirStep
<1>4. CASE SyscallUnlinkat(p)
  BY <1>4, UnlinkStep
<1>5. CASE \E q \in PathArg : SyscallRenameat(p, q)
  BY <1>5, RenameStep
<1>6. CASE SyscallFaccessat(p)
  BY <1>6, FaccessatStep
<1>7. CASE \E n \in Size : SyscallTruncate(p, n)
  BY <1>7, TruncateStep
<1> QED
  BY <1>1, <1>2, <1>3, <1>4, <1>5, <1>6, <1>7

LEMMA DescriptorStep ==
    ASSUME IInv, DescriptorCall
    PROVE  Typed' /\ Accounted
<1> PICK d \in FdArg :
       \/ WasiFDClose(d)
       \/ \E e \in NewFdArg : SyscallDup(d, e) \/ SyscallDup3(d, e)
       \/ \E append \in AppendArg : SetFlags(d, append)
       \/ \E delta \in Delta, whence \in {"set", "cur", "end"} :
             WasiFDSeek(d, delta, whence)
       \/ CheckFD(d)
       \/ WasiFDStatGet(d)
  BY DEF DescriptorCall
<1>1. d \in FD
  BY ArgTypes
<1>2. CASE WasiFDClose(d)
  BY <1>1, <1>2, CloseStep
<1>3. CASE \E e \in NewFdArg : SyscallDup(d, e) \/ SyscallDup3(d, e)
  BY <1>1, <1>3, ArgTypes, DupStep, Dup3Step
<1>4. CASE \E append \in AppendArg : SetFlags(d, append)
  BY <1>1, <1>4, ArgTypes, SetFlagsStep
<1>5. CASE \E delta \in Delta, whence \in {"set", "cur", "end"} :
              WasiFDSeek(d, delta, whence)
  BY <1>1, <1>5, SeekStep
<1>6. CASE CheckFD(d) \/ WasiFDStatGet(d)
  BY <1>1, <1>6, CheckStep
<1> QED
  BY <1>2, <1>3, <1>4, <1>5, <1>6

LEMMA ContentStep ==
    ASSUME IInv, ContentCall
    PROVE  Typed' /\ Accounted /\ Quiet
<1> PICK d \in FdArg :
       \/ \E n \in Size : SyscallFtruncate(d, n)
       \/ \E at \in Delta, n \in Size : Allocate(d, at, n)
       \/ \E iov \in IOVecs :
             \/ d \notin {1, 2} /\ WasiFDWrite(d, iov)
             \/ d # 0 /\ WasiFDRead(d, iov)
             \/ \E at \in Delta : WasiPwrite(d, iov, at) \/ WasiPread(d, iov, at)
  BY DEF ContentCall
<1>1. d \in FD
  BY ArgTypes
<1>2. CASE \E n \in Size : SyscallFtruncate(d, n)
  <2>1. Size \subseteq Int
    BY ArgAssumption DEF Int64
  <2> QED
    BY <1>1, <1>2, <2>1, FtruncateStep
<1>3. CASE \E at \in Delta, n \in Size : Allocate(d, at, n)
  BY <1>1, <1>3, AllocateStep
<1>4. CASE \E iov \in IOVecs : WasiFDWrite(d, iov) \/ WasiFDRead(d, iov)
  BY <1>1, <1>4, WriteStep, ReadStep
<1>5. CASE \E iov \in IOVecs, at \in Delta :
              WasiPwrite(d, iov, at) \/ WasiPread(d, iov, at)
  BY <1>1, <1>5, PwriteStep, PreadStep
<1> QED
  BY <1>2, <1>3, <1>4, <1>5

LEMMA MappingStep ==
    ASSUME IInv, MappingCall
    PROVE  Typed' /\ Accounted
<1>1. CASE \E d \in FdArg, req \in MapRequest : Mmap(d, req)
  BY <1>1, ArgTypes, MmapStep
<1>2. CASE \E a \in Address : Munmap(a)
  BY <1>2, MunmapStep
<1>3. CASE \E a \in Address, i \in 1..MaxFilesystemBytes, b \in Byte : GuestStore(a, i, b)
  BY <1>3, GuestStoreStep
<1> QED
  BY <1>1, <1>2, <1>3 DEF MappingCall

\* Every step keeps the inductive invariant and is a ledger step or a stutter.
LEMMA NextStep ==
    ASSUME IInv, [Next]_vars
    PROVE  IInv' /\ [Account!Next]_Sizes
<1>1. CASE Next
  <2>1. Typed' /\ Accounted
    BY <1>1, PathStep, DescriptorStep, ContentStep, MappingStep DEF Next
  <2> QED
    BY <2>1, AccountedKeepsIInv
<1>2. CASE UNCHANGED vars
  <2>1. Sizes' = Sizes
    BY <1>2 DEF vars, Sizes
  <2>2. Typed' /\ Accounted
    BY <1>2, <2>1 DEF IInv, TypeOK, Typed, Accounted, vars
  <2> QED
    BY <2>2, AccountedKeepsIInv
<1> QED
  BY <1>1, <1>2

\* IInv holds in every reachable state.
THEOREM Invariance == Spec => []IInv
<1>1. Init => IInv
  BY InitIInv
<1>2. IInv /\ [Next]_vars => IInv'
  BY NextStep
<1> QED
  BY <1>1, <1>2, PTL DEF Spec

\* The structures of filesystem.go:31-56 keep their types, whatever the guest
\* calls: descriptors inside int32, offsets inside int64, views as long as
\* their mappings.
THEOREM TypeCorrect == Spec => []TypeOK
<1>1. IInv => TypeOK
  BY DEF IInv
<1> QED
  BY <1>1, Invariance, PTL

\* The count of bytes that the handlers adjust by differences is the exact
\* total of what the files hold, and never above plugin.maxFilesystemBytes.
THEOREM QuotaIsExact == Spec => []QuotaExact
<1>1. IInv => QuotaExact
  BY DEF IInv
<1> QED
  BY <1>1, Invariance, PTL

\* The filesystem implements the quota ledger: every handler is one resize
\* that the quota admits, or changes no size.
THEOREM ImplementsLedger == Spec => LedgerSpec
<1>1. Init => Account!Init
  BY InitIInv
<1>2. IInv /\ [Next]_vars => [Account!Next]_Sizes
  BY NextStep
<1> QED
  BY <1>1, <1>2, Invariance, PTL DEF Spec, LedgerSpec, Account!Spec
=============================================================================
