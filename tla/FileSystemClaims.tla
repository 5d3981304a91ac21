-------------------------- MODULE FileSystemClaims --------------------------
(***************************************************************************)
(* What the repository says of the filesystem, where the code disagrees.    *)
(* Each of these is checked by a run of its own, which finds a behaviour    *)
(* of the code that breaks it.                                              *)
(***************************************************************************)
EXTENDS FileSystem

\* "duplicate an in-memory file descriptor" (emscripten.go:98-99): a duplicate
\* stays the caller's until it is closed or replaced by dup3, so an open takes
\* a descriptor that is free.  The code takes nextFD as it is
\* (filesystem.go:167).
OpenTakesFreeFD == [][nextFD' # nextFD => fds[nextFD] = Nil]_vars

\* "rename an in-memory path" (emscripten.go:112): after a rename that
\* succeeds, the new path names the file.  Renaming a path to itself deletes
\* it (filesystem.go:465-466).
RenameKeepsFile ==
    \A p, q \in Path :
        files[p] # Nil /\ RenameError(p, q) = "OK" =>
            Renamed(p, q)[q] = files[p]
=============================================================================
