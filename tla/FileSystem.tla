----------------------------- MODULE FileSystem -----------------------------
(***************************************************************************)
(* The per-instance in-memory filesystem and descriptor table of            *)
(* filesystem.go.  A guest instance runs one host call at a time, and each  *)
(* handler does its work inside one critical section of plugin.mu, so every *)
(* handler is one action.  (fallocate and fd_allocate take the lock twice,  *)
(* and mmap calls the guest's allocator between two sections, but nothing   *)
(* else can run for the instance in between.)                               *)
(*                                                                          *)
(* A handler that fails early replies with an errno and changes nothing:    *)
(* Fail.  The errno of each handler is an operator of its own, its tests in *)
(* the order of the code's early returns.                                   *)
(***************************************************************************)
EXTENDS Integers, Sequences, FiniteSets

CONSTANTS
    File,                \* identities of memoryFile objects
    Path,                \* cleaned guest paths other than "/", as tuples
    Address,             \* addresses the guest's allocator can return
    Byte, Zero,          \* values a byte of content can have
    Nil,                 \* Go's nil: no file, no handle, no mapping
    Unreadable,          \* a pointer argument outside guest memory
    MaxFilesystemBytes,  \* plugin.maxFilesystemBytes
    MaxOpenFiles,        \* plugin.maxOpenFiles, stdio included
    MaxFD,               \* the largest int32
    MaxInt64,            \* the largest int64
    FdBound,             \* bound of the model: nextFD stops here
    SeekBound            \* bound of the model: no seek aims further

CONSTANTS                \* what the guest passes to its calls
    PathArg, FdArg, NewFdArg, OpenMode, AppendArg, IOVecs, Size, Delta, MapRequest

ASSUME FileAssumption == IsFiniteSet(File) /\ Nil \notin File

ASSUME LimitAssumption ==
    /\ MaxFilesystemBytes \in Nat
    /\ MaxOpenFiles \in Nat /\ MaxOpenFiles >= 3
    /\ MaxInt64 \in Nat /\ MaxFilesystemBytes <= MaxInt64
    /\ MaxFD \in Nat /\ FdBound \in 3..(MaxFD + 1) /\ SeekBound \in Nat

-----------------------------------------------------------------------------
Root == << >>
Parent(p) == SubSeq(p, 1, Len(p) - 1)       \* path.Dir

\* strings.HasPrefix(q, p + "/")
Below(q, p) == Len(p) < Len(q) /\ SubSeq(q, 1, Len(p)) = p

Replies == {"OK", "PANIC", "EBADF", "EEXIST", "EFAULT", "EINVAL", "EISDIR",
            "EMFILE", "ENOENT", "ENOTEMPTY"}

FD == (-MaxFD - 1)..MaxFD                   \* int32
Stdio == 0..2
Access == {"read", "write", "both"}         \* flags & 3

Object == [data : Seq(Byte), linked : BOOLEAN, refs : Int]
Int64 == (-MaxInt64 - 1)..MaxInt64
Handle == [file : File, offset : Int64, access : Access, append : BOOLEAN]
Mapping ==
    {m \in [file : File, offset : 0..MaxInt64, length : 1..MaxFilesystemBytes,
            writeback : BOOLEAN, view : Seq(Byte)] : Len(m.view) = m.length}

ASSUME ArgAssumption ==
    /\ Nil \notin Handle /\ Nil \notin Mapping
    /\ Zero \in Byte
    /\ Path \subseteq Seq(STRING) \ {Root}
    /\ Unreadable \notin Path \cup {Root}
    /\ PathArg \subseteq Path \cup {Root, Unreadable}
    /\ FdArg \subseteq FD /\ NewFdArg \subseteq FD
    /\ OpenMode \subseteq [create : BOOLEAN, excl : BOOLEAN, trunc : BOOLEAN,
                           append : BOOLEAN, access : Access]
    /\ AppendArg \subseteq BOOLEAN
    /\ \A v \in IOVecs \ {Unreadable} :
          /\ v \in Seq(Seq(Byte)) /\ Len(v) <= 2
          /\ \A i \in DOMAIN v : Len(v[i]) <= MaxInt64
    /\ Size \subseteq Int64 /\ Delta \subseteq Int64
    /\ MapRequest \subseteq [offset : Int64, length : Nat, writeback : BOOLEAN]

VARIABLES
    files,     \* files[p]: the file a path names, or Nil
    dirs,      \* the directories
    fds,       \* fds[d]: the handle of an open descriptor, or Nil
    nextFD,    \* the descriptor the next open will use
    bytes,     \* the running count of bytes held
    mappings,  \* mappings[a]: the file mapping at a guest address, or Nil
    inode,     \* the memoryFile objects the maps above point to
    ret        \* the reply to the last call: "OK", an errno, or "PANIC"

state == <<files, dirs, fds, nextFD, bytes, mappings, inode>>
vars == <<files, dirs, fds, nextFD, bytes, mappings, inode, ret>>

-----------------------------------------------------------------------------
\* Objects.  An object no name, descriptor or mapping holds is garbage to Go;
\* here its identity becomes available again.
Released == [data |-> << >>, linked |-> FALSE, refs |-> 0]
Dead(o) == ~o.linked /\ o.refs = 0
Settled(o) == IF Dead(o) THEN Released ELSE o

\* Mutant: a name less gives the bytes back, held or not.
ReclaimedAtUnlink(o) == IF o.linked THEN 0 ELSE Len(o.data)

Reclaimed(o) == IF Dead(o) THEN Len(o.data) ELSE 0
Unused == {f \in File : inode[f] = Released}

Larger(a, b) == IF a > b THEN a ELSE b

\* Content d, grown with zeros to n bytes or cut to n.
Resized(d, n) == [i \in 1..n |-> IF i <= Len(d) THEN d[i] ELSE Zero]

\* Content d with v copied in behind its first at bytes; grows when it must.
Overwritten(d, at, v) ==
    [i \in 1..Larger(Len(d), at + Len(v)) |->
        IF i > at /\ i <= at + Len(v) THEN v[i - at]
        ELSE IF i <= Len(d) THEN d[i] ELSE Zero]

\* Descriptors.
OpenFDs == {d \in FD : fds[d] # Nil}

\* Mutant: one descriptor too many.
PastDescriptorLimit == Cardinality(OpenFDs) + 3 > MaxOpenFiles

AtDescriptorLimit == Cardinality(OpenFDs) + 3 >= MaxOpenFiles
ObjectOf(d) == inode[fds[d].file]

\* int64 arithmetic: one addition or negation overflows at most once.
Wrap64(n) == IF n > MaxInt64 THEN n - 2 * (MaxInt64 + 1)
             ELSE IF n < -MaxInt64 - 1 THEN n + 2 * (MaxInt64 + 1) ELSE n

\* A panic in a handler unwinds the guest: it makes no further call.
Return(e) == ret # "PANIC" /\ ret' = e
Reply(e) == Return(e) /\ UNCHANGED state
Fail(e) == e # "OK" /\ Reply(e)

-----------------------------------------------------------------------------
Init ==
    /\ files = [p \in Path |-> Nil]
    /\ dirs = {Root}
    /\ fds = [d \in FD |-> Nil]
    /\ nextFD = 3
    /\ bytes = 0
    /\ mappings = [a \in Address |-> Nil]
    /\ inode = [f \in File |-> Released]
    /\ ret = "OK"

-----------------------------------------------------------------------------
(* Names *)

OpenError(p, mode) ==
    IF p = Unreadable THEN "EFAULT"
    ELSE IF p = Root THEN "EISDIR"
    ELSE IF AtDescriptorLimit THEN "EMFILE"
    ELSE IF files[p] = Nil /\ (~mode.create \/ Parent(p) \notin dirs)
      THEN "ENOENT"
    ELSE IF files[p] # Nil /\ mode.create /\ mode.excl THEN "EEXIST"
    ELSE "OK"

\* The object an open works on: the named one, or a new one under the name.
Opened(p, f) == IF files[p] = Nil THEN f \in Unused ELSE f = files[p]

\* nextFD is taken without looking whether a dup has already put it to use.
SyscallOpenat(p, mode) ==
    \/ Fail(OpenError(p, mode))
    \/ /\ OpenError(p, mode) = "OK"
       /\ nextFD < FdBound
       /\ \E f \in File :
            LET data == IF mode.trunc THEN << >> ELSE inode[f].data IN
            /\ Opened(p, f)
            /\ files' = [files EXCEPT ![p] = f]
            /\ inode' = [inode EXCEPT ![f] =
                   [data |-> data, linked |-> TRUE, refs |-> @.refs + 1]]
            /\ bytes' = bytes - (Len(inode[f].data) - Len(data))
            /\ fds' = [fds EXCEPT ![nextFD] =
                   [file |-> f, access |-> mode.access, append |-> mode.append,
                    offset |-> IF mode.append THEN Len(data) ELSE 0]]
       /\ nextFD' = nextFD + 1
       /\ Return("OK")
       /\ UNCHANGED <<dirs, mappings>>

MkdirError(p) ==
    IF p = Unreadable THEN "EFAULT"
    ELSE IF p = Root THEN "EEXIST"
    ELSE IF files[p] # Nil \/ p \in dirs THEN "EEXIST"
    ELSE IF Parent(p) \notin dirs THEN "ENOENT"
    ELSE "OK"

SyscallMkdirat(p) ==
    \/ Fail(MkdirError(p))
    \/ /\ MkdirError(p) = "OK"
       /\ dirs' = dirs \cup {p}
       /\ Return("OK")
       /\ UNCHANGED <<files, fds, nextFD, bytes, mappings, inode>>

\* Mutant: the files below are not looked at.
HasSubdirectories(p) == \E q \in dirs : q # p /\ Below(q, p)

HasChildren(p) ==
    \/ \E q \in Path : files[q] # Nil /\ Below(q, p)
    \/ \E q \in dirs : q # p /\ Below(q, p)

RmdirError(p) ==
    IF p = Unreadable THEN "EFAULT"
    ELSE IF p = Root THEN "EINVAL"
    ELSE IF p \notin dirs THEN "ENOENT"
    ELSE IF HasChildren(p) THEN "ENOTEMPTY"
    ELSE "OK"

\* unlinkat with AT_REMOVEDIR, and rmdir
SyscallRmdir(p) ==
    \/ Fail(RmdirError(p))
    \/ /\ RmdirError(p) = "OK"
       /\ dirs' = dirs \ {p}
       /\ Return("OK")
       /\ UNCHANGED <<files, fds, nextFD, bytes, mappings, inode>>

UnlinkError(p) ==
    IF p = Unreadable THEN "EFAULT"
    ELSE IF p = Root THEN "EINVAL"
    ELSE IF files[p] = Nil THEN "ENOENT"
    ELSE "OK"

SyscallUnlinkat(p) ==
    \/ Fail(UnlinkError(p))
    \/ /\ UnlinkError(p) = "OK"
       /\ LET f == files[p]
              o == [inode[f] EXCEPT !.linked = FALSE]
          IN /\ inode' = [inode EXCEPT ![f] = Settled(o)]
             /\ bytes' = bytes - Reclaimed(o)
       /\ files' = [files EXCEPT ![p] = Nil]
       /\ Return("OK")
       /\ UNCHANGED <<dirs, fds, nextFD, mappings>>

RenameError(old, new) ==
    IF old = Unreadable \/ new = Unreadable THEN "EFAULT"
    ELSE IF old = Root \/ new = Root THEN "EINVAL"
    ELSE IF Parent(new) \notin dirs THEN "ENOENT"
    ELSE IF files[old] # Nil THEN "OK"
    ELSE IF old \notin dirs THEN "ENOENT"
    ELSE IF HasChildren(old) THEN "ENOTEMPTY"
    ELSE "OK"

\* Mutant: the old name stays.
RenamedByCopy(old, new) == [files EXCEPT ![new] = files[old]]

\* The name table after a file is renamed; self-renaming removes the name.
Renamed(old, new) == [files EXCEPT ![new] = files[old], ![old] = Nil]

\* The file that new names loses its name, even when it is the one renamed.
RenameFile(old, new) ==
    /\ files[old] # Nil
    /\ IF files[new] = Nil THEN UNCHANGED <<inode, bytes>>
       ELSE LET g == files[new]
                o == [inode[g] EXCEPT !.linked = FALSE]
            IN /\ inode' = [inode EXCEPT ![g] = Settled(o)]
               /\ bytes' = bytes - Reclaimed(o)
    /\ files' = Renamed(old, new)
    /\ UNCHANGED dirs

RenameDir(old, new) ==
    /\ files[old] = Nil
    /\ dirs' = (dirs \cup {new}) \ {old}
    /\ UNCHANGED <<files, inode, bytes>>

SyscallRenameat(old, new) ==
    \/ Fail(RenameError(old, new))
    \/ /\ RenameError(old, new) = "OK"
       /\ RenameFile(old, new) \/ RenameDir(old, new)
       /\ Return("OK")
       /\ UNCHANGED <<fds, nextFD, mappings>>

SyscallFaccessat(p) ==
    Reply(IF p = Unreadable THEN "EFAULT"
          ELSE IF p \in Path /\ files[p] = Nil /\ p \notin dirs THEN "ENOENT"
          ELSE "OK")

-----------------------------------------------------------------------------
(* Descriptors *)

\* Mutant: a new holder is not counted.
Unretained(f) == inode

\* Mutant: a lost holder stays counted.
StillReferenced(f) == inode[f]

\* One holder more; one holder fewer, and with the last of them an object
\* that has no name is gone.
Referenced(f) == [inode EXCEPT ![f].refs = @ + 1]
Unreferenced(f) == [inode[f] EXCEPT !.refs = @ - 1]

DescriptorError(d) == IF fds[d] = Nil THEN "EBADF" ELSE "OK"

\* wasiFDClose: closing stdio succeeds and does nothing.
WasiFDClose(d) ==
    \/ d \in Stdio /\ Reply("OK")
    \/ d \notin Stdio /\ Fail(DescriptorError(d))
    \/ /\ d \notin Stdio /\ DescriptorError(d) = "OK"
       /\ LET f == fds[d].file
              o == Unreferenced(f)
          IN /\ inode' = [inode EXCEPT ![f] = Settled(o)]
             /\ bytes' = bytes - Reclaimed(o)
       /\ fds' = [fds EXCEPT ![d] = Nil]
       /\ Return("OK")
       /\ UNCHANGED <<files, dirs, nextFD, mappings>>

\* How many increments of an int32 lead from a to b.
Distance(a, b) == IF b >= a THEN b - a ELSE b - a + 2 * (MaxFD + 1)

\* The candidate at which the F_DUPFD loop stops when it starts from d.
FirstFree(c, d) ==
    /\ fds[c] = Nil
    /\ \A e \in FD \ OpenFDs : Distance(d, c) <= Distance(d, e)

DupError(d) ==
    IF fds[d] = Nil THEN "EBADF" ELSE IF AtDescriptorLimit THEN "EMFILE" ELSE "OK"

\* F_DUPFD, and dup with from = 3; the copy has its own offset and flags.
SyscallDup(d, from) ==
    \/ Fail(DupError(d))
    \/ /\ DupError(d) = "OK"
       /\ \E c \in FD : /\ FirstFree(c, Larger(from, 3))
                       /\ fds' = [fds EXCEPT ![c] = fds[d]]
       /\ inode' = Referenced(fds[d].file)
       /\ Return("OK")
       /\ UNCHANGED <<files, dirs, nextFD, bytes, mappings>>

Dup3Error(d, e) ==
    IF d = e \/ e < 3 THEN "EINVAL"
    ELSE IF fds[d] = Nil THEN "EBADF"
    ELSE IF fds[e] = Nil /\ AtDescriptorLimit THEN "EMFILE"
    ELSE "OK"

\* The replaced handle is let go before the copied one is counted.
SyscallDup3(d, e) ==
    \/ Fail(Dup3Error(d, e))
    \/ /\ Dup3Error(d, e) = "OK"
       /\ IF fds[e] = Nil
            THEN /\ inode' = Referenced(fds[d].file)
                 /\ UNCHANGED bytes
            ELSE LET g == fds[e].file
                     o == Unreferenced(g)
                 IN /\ inode' = [[inode EXCEPT ![g] = Settled(o)]
                                    EXCEPT ![fds[d].file].refs = @ + 1]
                    /\ bytes' = bytes - Reclaimed(o)
       /\ fds' = [fds EXCEPT ![e] = fds[d]]
       /\ Return("OK")
       /\ UNCHANGED <<files, dirs, nextFD, mappings>>

\* F_SETFL and fd_fdstat_set_flags: only the append flag can change.
SetFlags(d, append) ==
    \/ Fail(DescriptorError(d))
    \/ /\ DescriptorError(d) = "OK"
       /\ fds' = [fds EXCEPT ![d].append = append]
       /\ Return("OK")
       /\ UNCHANGED <<files, dirs, nextFD, bytes, mappings, inode>>

SeekBase(d, whence) ==
    CASE whence = "set" -> 0
      [] whence = "cur" -> fds[d].offset
      [] whence = "end" -> Len(ObjectOf(d).data)

SeekError(d, delta, whence) ==
    IF fds[d] = Nil THEN "EBADF"
    ELSE IF delta < Wrap64(-SeekBase(d, whence)) THEN "EINVAL"
    ELSE "OK"

\* The guest can ask for the result outside its memory: that is looked at first.
WasiFDSeek(d, delta, whence) ==
    \/ Fail("EFAULT")
    \/ Fail(SeekError(d, delta, whence))
    \/ /\ SeekError(d, delta, whence) = "OK"
       /\ SeekBase(d, whence) + delta <= SeekBound
       /\ fds' = [fds EXCEPT ![d].offset = Wrap64(SeekBase(d, whence) + delta)]
       /\ Return("OK")
       /\ UNCHANGED <<files, dirs, nextFD, bytes, mappings, inode>>

\* fchmod, fdatasync, fadvise, fd_sync and fd_advise only look the handle up.
CheckFD(d) == Reply(IF d \in Stdio THEN "OK" ELSE DescriptorError(d))

\* fd_fdstat_get and fd_filestat_get look it up only above stdio.
WasiFDStatGet(d) ==
    \/ Fail("EFAULT")
    \/ Reply(IF d > 2 THEN DescriptorError(d) ELSE "OK")

-----------------------------------------------------------------------------
(* Content *)

\* ftruncate, and the resizing half of truncate, fallocate, fd_allocate.
ResizeError(f, n) ==
    IF bytes + n - Len(inode[f].data) > MaxFilesystemBytes THEN "EINVAL" ELSE "OK"

\* Mutant: a file that shrinks keeps its share of the count.
ResizeCountingGrowth(f, n) ==
    /\ inode' = [inode EXCEPT ![f].data = Resized(@, n)]
    /\ bytes' = bytes + Larger(n - Len(inode[f].data), 0)
    /\ Return("OK")
    /\ UNCHANGED <<files, dirs, fds, nextFD, mappings>>

ResizeTo(f, n) ==
    /\ inode' = [inode EXCEPT ![f].data = Resized(@, n)]
    /\ bytes' = bytes + n - Len(inode[f].data)
    /\ Return("OK")
    /\ UNCHANGED <<files, dirs, fds, nextFD, mappings>>

FtruncateError(d, n) ==
    IF n < 0 \/ n > MaxFilesystemBytes THEN "EINVAL"
    ELSE IF fds[d] = Nil THEN "EBADF"
    ELSE ResizeError(fds[d].file, n)

\* ftruncate and fd_filestat_set_size
SyscallFtruncate(d, n) ==
    \/ Fail(FtruncateError(d, n))
    \/ FtruncateError(d, n) = "OK" /\ ResizeTo(fds[d].file, n)

TruncateError(p, n) ==
    IF p = Unreadable THEN "EFAULT"
    ELSE IF p = Root THEN "EISDIR"
    ELSE IF n < 0 \/ n > MaxFilesystemBytes THEN "EINVAL"
    ELSE IF files[p] = Nil THEN "ENOENT"
    ELSE ResizeError(files[p], n)

SyscallTruncate(p, n) ==
    \/ Fail(TruncateError(p, n))
    \/ TruncateError(p, n) = "OK" /\ ResizeTo(files[p], n)

AllocateError(d, at, n) ==
    IF at < 0 \/ n < 0 \/ at > MaxFilesystemBytes - n THEN "EINVAL"
    ELSE DescriptorError(d)

\* fallocate with mode 0, and fd_allocate; they never shrink a file.
Allocate(d, at, n) ==
    \/ Fail(AllocateError(d, at, n))
    \/ /\ AllocateError(d, at, n) = "OK"
       /\ \/ at + n <= Len(ObjectOf(d).data) /\ Reply("OK")
          \/ at + n > Len(ObjectOf(d).data) /\ SyscallFtruncate(d, at + n)

\* A write in progress: the content, offset and byte count so far.
Transfer == [data : Seq(Byte), offset : Int64, used : Int, errno : Replies]

\* Mutant: append is ignored.
StartAtOffset(t, append) == t.offset

\* An append handle moves to the end before each vector.
Start(t, append) == IF append THEN Len(t.data) ELSE t.offset

\* One vector of fd_write: quota test, growth, and the copy into the slice
\* data[at:end], which panics when a wrapped seek left at below zero.
Put(t, v, append) ==
    LET size == Len(t.data)
        at   == Start(t, append)
        end  == Wrap64(at + Len(v))
        used == t.used + end - size
        grown == IF end > size THEN used ELSE t.used
    IN IF t.errno # "OK" THEN t
       ELSE IF end < 0 \/ end > MaxFilesystemBytes \/ used > MaxFilesystemBytes
         THEN [t EXCEPT !.offset = at, !.errno = "EINVAL"]
       ELSE IF at < 0
         THEN [data |-> Resized(t.data, Larger(size, end)), offset |-> at,
               used |-> grown, errno |-> "PANIC"]
       ELSE [data |-> Overwritten(t.data, at, v), offset |-> end,
             used |-> grown, errno |-> "OK"]

\* Mutant of PutAll: a write that fails cuts the file back to where it began.
PutAllRollback(t, iov, append) ==
    LET first == IF Len(iov) >= 1 THEN Put(t, iov[1], append) ELSE t
        last == IF Len(iov) >= 2 THEN Put(first, iov[2], append) ELSE first
    IN IF last.errno = "OK" \/ t.offset < 0 THEN last
       ELSE [last EXCEPT !.data = Resized(@, t.offset)]

\* Mutant of PutAll: a write that fails puts the offset back to where it began.
PutAllRewinds(t, iov, append) ==
    LET first == IF Len(iov) >= 1 THEN Put(t, iov[1], append) ELSE t
        last == IF Len(iov) >= 2 THEN Put(first, iov[2], append) ELSE first
    IN IF last.errno = "OK" THEN last ELSE [last EXCEPT !.offset = t.offset]

\* The vectors in order; the first that fails stops the loop and what went
\* before it stays written.
PutAll(t, iov, append) ==
    LET first == IF Len(iov) >= 1 THEN Put(t, iov[1], append) ELSE t
    IN IF Len(iov) >= 2 THEN Put(first, iov[2], append) ELSE first

WriteError(d, iov) ==
    IF iov = Unreadable THEN "EFAULT"
    ELSE IF fds[d] = Nil \/ fds[d].access = "read" THEN "EBADF"
    ELSE "OK"

Written(d, iov, at) ==
    PutAll([data |-> ObjectOf(d).data, offset |-> at, used |-> bytes,
            errno |-> "OK"], iov, fds[d].append)

Store(d, t, offset) ==
    /\ inode' = [inode EXCEPT ![fds[d].file].data = t.data]
    /\ bytes' = t.used
    /\ fds' = [fds EXCEPT ![d].offset = offset]
    /\ Return(t.errno)
    /\ UNCHANGED <<files, dirs, nextFD, mappings>>

\* On descriptors of the filesystem; 1 and 2 write to the host's streams.
WasiFDWrite(d, iov) ==
    \/ Fail(WriteError(d, iov))
    \/ /\ WriteError(d, iov) = "OK"
       /\ LET t == Written(d, iov, fds[d].offset) IN Store(d, t, t.offset)

PositionedError(d, at) == IF fds[d] = Nil \/ at < 0 THEN "EINVAL" ELSE "OK"

\* fd_pwrite moves the handle's offset to at, writes, and moves it back.
WasiPwrite(d, iov, at) ==
    \/ Fail(PositionedError(d, at))
    \/ /\ PositionedError(d, at) = "OK"
       /\ Fail(WriteError(d, iov))
    \/ /\ PositionedError(d, at) = "OK" /\ WriteError(d, iov) = "OK"
       /\ Store(d, Written(d, iov, at), fds[d].offset)

Wanted(iov) == (IF Len(iov) >= 1 THEN Len(iov[1]) ELSE 0)
               + (IF Len(iov) >= 2 THEN Len(iov[2]) ELSE 0)

ReadError(d, iov) ==
    IF iov = Unreadable THEN "EFAULT"
    ELSE IF fds[d] = Nil \/ fds[d].access = "write" THEN "EBADF"
    ELSE IF fds[d].offset < 0 /\ iov # << >> THEN "PANIC"
    ELSE "OK"

Smaller(a, b) == IF a < b THEN a ELSE b

\* The offset moves by what was copied, nothing at or past the end.
WasiFDRead(d, iov) ==
    \/ Fail(ReadError(d, iov))
    \/ /\ ReadError(d, iov) = "OK"
       /\ fds' = [fds EXCEPT ![d].offset =
             IF iov = << >> THEN @
             ELSE @ + Smaller(Wanted(iov), Larger(Len(ObjectOf(d).data) - @, 0))]
       /\ Return("OK")
       /\ UNCHANGED <<files, dirs, nextFD, bytes, mappings, inode>>

\* fd_pread reads at the given offset and puts the handle's own back.
WasiPread(d, iov, at) ==
    Reply(IF PositionedError(d, at) # "OK" THEN "EINVAL"
          ELSE IF iov = Unreadable THEN "EFAULT"
          ELSE IF fds[d].access = "write" THEN "EBADF"
          ELSE "OK")

-----------------------------------------------------------------------------
(* Mappings *)

MmapError(d, req) ==
    IF req.length = 0 \/ req.length > MaxFilesystemBytes \/ req.offset < 0
      THEN "EINVAL"
    ELSE DescriptorError(d)

\* Results asked for outside guest memory are EINVAL.  The guest's allocator
\* finds room, fails, or answers outside its memory.
Mmap(d, req) ==
    \/ Fail(MmapError(d, req)) \/ Fail("EINVAL")
    \/ MmapError(d, req) = "OK" /\ Fail("EFAULT")
    \/ /\ MmapError(d, req) = "OK"
       /\ \E a \in Address :
            /\ mappings[a] = Nil
            /\ mappings' = [mappings EXCEPT ![a] =
                 [file |-> fds[d].file, offset |-> req.offset,
                  length |-> req.length, writeback |-> req.writeback,
                  view |-> [i \in 1..req.length |->
                     IF req.offset + i <= Len(ObjectOf(d).data)
                     THEN ObjectOf(d).data[req.offset + i] ELSE Zero]]]
       /\ inode' = Referenced(fds[d].file)
       /\ Return("OK")
       /\ UNCHANGED <<files, dirs, fds, nextFD, bytes>>

\* The guest stores a byte in mapped memory.
GuestStore(a, i, b) ==
    /\ mappings[a] # Nil /\ i \in 1..mappings[a].length
    /\ mappings' = [mappings EXCEPT ![a].view[i] = b]
    /\ Return("OK")
    /\ UNCHANGED <<files, dirs, fds, nextFD, bytes, inode>>

MapEnd(m) == Wrap64(m.offset + m.length)

\* Mutant: only the file is measured, not the total.
FitsAlone(m) == MapEnd(m) <= MaxFilesystemBytes

\* Is there room for what is mapped?
Fits(m) ==
    LET growth == Larger(MapEnd(m) - Len(inode[m.file].data), 0)
    IN MapEnd(m) <= MaxFilesystemBytes /\ bytes + growth <= MaxFilesystemBytes

\* Mutant: private mappings are written back.
WritesBackPrivate(m) == Fits(m)

WritesBack(m) == m.writeback /\ Fits(m)

\* A wrapped end makes the slice data[offset:end] panic after the mapping is
\* forgotten and before its reference is.
Munmap(a) ==
    LET m == mappings[a]
        data == IF WritesBack(m) THEN Overwritten(inode[m.file].data, m.offset, m.view)
                ELSE inode[m.file].data
        o == [Unreferenced(m.file) EXCEPT !.data = data]
    IN \/ m = Nil /\ Reply("OK")
       \/ /\ m # Nil
          /\ mappings' = [mappings EXCEPT ![a] = Nil]
          /\ IF WritesBack(m) /\ MapEnd(m) < 0
               THEN Return("PANIC") /\ UNCHANGED <<inode, bytes>>
               ELSE /\ inode' = [inode EXCEPT ![m.file] = Settled(o)]
                    /\ bytes' = bytes + Len(data) - Len(inode[m.file].data)
                                - Reclaimed(o)
                    /\ Return("OK")
          /\ UNCHANGED <<files, dirs, fds, nextFD>>

-----------------------------------------------------------------------------
PathCall ==
    \E p \in PathArg :
        \/ \E mode \in OpenMode : SyscallOpenat(p, mode)
        \/ SyscallMkdirat(p)
        \/ SyscallRmdir(p)
        \/ SyscallUnlinkat(p)
        \/ \E q \in PathArg : SyscallRenameat(p, q)
        \/ SyscallFaccessat(p)
        \/ \E n \in Size : SyscallTruncate(p, n)

DescriptorCall ==
    \E d \in FdArg :
        \/ WasiFDClose(d)
        \/ \E e \in NewFdArg : SyscallDup(d, e) \/ SyscallDup3(d, e)
        \/ \E append \in AppendArg : SetFlags(d, append)
        \/ \E delta \in Delta, whence \in {"set", "cur", "end"} :
              WasiFDSeek(d, delta, whence)
        \/ CheckFD(d)
        \/ WasiFDStatGet(d)

ContentCall ==
    \E d \in FdArg :
        \/ \E n \in Size : SyscallFtruncate(d, n)
        \/ \E at \in Delta, n \in Size : Allocate(d, at, n)
        \/ \E iov \in IOVecs :
              \/ d \notin {1, 2} /\ WasiFDWrite(d, iov)
              \/ d # 0 /\ WasiFDRead(d, iov)
              \/ \E at \in Delta : WasiPwrite(d, iov, at) \/ WasiPread(d, iov, at)

MappingCall ==
    \/ \E d \in FdArg, req \in MapRequest : Mmap(d, req)
    \/ \E a \in Address : \/ Munmap(a)
                          \/ \E i \in 1..MaxFilesystemBytes, b \in Byte :
                                GuestStore(a, i, b)

Next == PathCall \/ DescriptorCall \/ ContentCall \/ MappingCall

Spec == Init /\ [][Next]_vars

-----------------------------------------------------------------------------
(* Correctness *)

\* Every variable has its type (the structs of filesystem.go:31-56).
TypeOK ==
    /\ files \in [Path -> File \cup {Nil}]
    /\ dirs \subseteq Path \cup {Root}
    /\ fds \in [FD -> Handle \cup {Nil}]
    /\ nextFD \in 3..FdBound
    /\ bytes \in Nat
    /\ mappings \in [Address -> Mapping \cup {Nil}]
    /\ inode \in [File -> Object]
    /\ ret \in Replies

\* What the filesystem is to the ledger.
Sizes == [f \in File |-> Len(inode[f].data)]

Account == INSTANCE Ledger WITH
            Quota <- MaxFilesystemBytes,
            size  <- Sizes

\* The running count that every handler adjusts by differences (bytes) is the
\* exact total of the bytes held, through growth, truncation, replacement by
\* rename, and release by the last of a name, a descriptor and a mapping; and
\* it respects the quota.
QuotaExact == bytes = Account!Total(Sizes) /\ bytes <= MaxFilesystemBytes

\* Seen from its file sizes alone, the filesystem is a quota ledger: each call
\* resizes or releases at most one file, and never past the limit.
LedgerSpec == Account!Spec

\* The descriptors and the mappings that point to f.
Handles(f) == {d \in FD : fds[d] # Nil /\ fds[d].file = f}
Views(f) == {a \in Address : mappings[a] # Nil /\ mappings[a].file = f}
Slack(f) == inode[f].refs - Cardinality(Handles(f)) - Cardinality(Views(f))

\* A file is never released under a holder: its reference count is at least
\* the number of descriptors and mappings that point to it, whatever the order
\* of unlink, rename, close, dup3 and munmap.
RefsCoverHolders == \A f \in File : Slack(f) >= 0

\* linked says exactly whether some path names the object, and no object has
\* two names: what the release test of unlink, rename, close, dup3 and munmap
\* relies on.
LinkedIffNamed ==
    \A f \in File :
        /\ inode[f].linked <=> \E p \in Path : files[p] = f
        /\ \A p, q \in Path : files[p] = f /\ files[q] = f => p = q

\* References leak in two ways only: an open that takes a descriptor some dup
\* already holds, and a panic in munmap.  Every other call keeps the count of
\* references level with the holders.
LeakOnlyByClobber ==
    [][(\E f \in File : Slack(f)' # Slack(f))
         => ret' = "PANIC" \/ (nextFD' # nextFD /\ fds[nextFD] # Nil)]_vars

\* Stdio included, an instance never has more than maxOpenFiles descriptors.
DescriptorLimit == Cardinality(OpenFDs) + 3 <= MaxOpenFiles

\* Every file has a directory to be in: neither rmdir nor a rename of its
\* directory can take that away, and no file is created or moved outside one.
FilesHaveParents == \A p \in Path : files[p] # Nil => Parent(p) \in dirs

IsPrefixOf(s, t) == Len(s) <= Len(t) /\ SubSeq(t, 1, Len(s)) = s

\* Bytes already in a file that is open for appending only, and not mapped for
\* writing, survive every call that does not shorten the file: seeks and
\* positioned writes included, and a second vector that fails.
AppendKeepsContent ==
    [][\A f \in File :
         (/\ \A d \in Handles(f) : fds[d].access = "read" \/ fds[d].append
          /\ \A a \in Views(f) : ~mappings[a].writeback
          /\ Len(inode'[f].data) >= Len(inode[f].data))
         => IsPrefixOf(inode[f].data, inode'[f].data)]_vars

\* A call that replies with an errno has not renamed, closed, replaced or
\* released anything, nor shortened a file: what it may have done is write the
\* vectors before the one that failed.
FailureIsClean ==
    [][ret' \notin {"OK", "PANIC"} =>
         /\ UNCHANGED <<files, dirs, nextFD, mappings>>
         /\ OpenFDs' = OpenFDs
         /\ \A f \in File :
               /\ inode'[f].refs = inode[f].refs
               /\ inode'[f].linked = inode[f].linked
               /\ Len(inode'[f].data) >= Len(inode[f].data)]_vars

\* The first k of the vectors a write is given, as one.
FirstVectors(iov, k) ==
    IF k = 0 THEN << >> ELSE IF k = 1 THEN iov[1] ELSE iov[1] \o iov[2]

\* Where a write through d that aims at offset at begins.
WriteBegin(d, iov, at) ==
    IF fds[d].append /\ iov # << >> THEN Len(ObjectOf(d).data) ELSE at

\* The content of d's file once the first k vectors are in.
WithFirst(d, iov, at, k) ==
    IF k = 0 THEN ObjectOf(d).data
    ELSE Overwritten(ObjectOf(d).data, WriteBegin(d, iov, at), FirstVectors(iov, k))

\* A write of several vectors (fd_write) leaves some first ones of them in the
\* file, as if they had been one, and all of them when it answers OK; the offset
\* is where the last of these ends, so that the next write goes on from there,
\* and not where an earlier seek or the failing vector would have it.  fd_pwrite
\* writes the same way at its own place, and leaves the offset alone.  Only a
\* handle that a wrapped seek left below zero makes a write panic.
WritesEndAtOffset ==
    [][\A d \in FdArg, iov \in IOVecs :
         /\ WriteError(d, iov) = "OK"
         /\ UNCHANGED <<files, dirs, nextFD, mappings>>   \* as after any write
         /\ ret' \in {"OK", "EINVAL", "PANIC"}
        => /\ WasiFDWrite(d, iov) =>
                IF ret' = "PANIC" THEN fds[d].offset < 0 /\ ~fds[d].append
                ELSE \E k \in 0..Len(iov) :
                       /\ ret' = "OK" => k = Len(iov)
                       /\ ObjectOf(d).data' = WithFirst(d, iov, fds[d].offset, k)
                       /\ fds'[d].offset = WriteBegin(d, iov, fds[d].offset)
                                           + Len(FirstVectors(iov, k))
           /\ \A at \in Delta : at >= 0 /\ WasiPwrite(d, iov, at) =>
                /\ ret' # "PANIC" /\ fds'[d].offset = fds[d].offset
                /\ \E k \in 0..Len(iov) :
                     /\ ret' = "OK" => k = Len(iov)
                     /\ ObjectOf(d).data' = WithFirst(d, iov, at, k)]_vars

\* Content d has v at bytes in.
Holds(d, at, v) ==
    at + Len(v) <= Len(d) /\ SubSeq(d, at + 1, at + Len(v)) = v

\* What munmap writes back is the mapped memory, at the mapped place, whatever
\* happened to the file's length in between; when it does not fit, the file
\* keeps its content.
MunmapAllOrNothing ==
    [][\A a \in Address :
         mappings[a] # Nil /\ mappings'[a] = Nil /\ ret' = "OK" =>
           LET m == mappings[a]
               old == inode[m.file].data
               new == inode'[m.file].data
           IN \/ inode'[m.file] = Released
              \/ new = old
              \/ /\ m.writeback
                 /\ Holds(new, m.offset, m.view)]_vars
=============================================================================
