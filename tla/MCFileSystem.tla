---------------------------- MODULE MCFileSystem ----------------------------
(***************************************************************************)
(* Small instances of FileSystem.  Each cfg chooses the calls a guest makes *)
(* (the argument sets) and the limits, so that one question is settled over *)
(* a complete state space.                                                  *)
(***************************************************************************)
EXTENDS FileSystemClaims, TLC

CONSTANTS f1, f2, unreadable, x, z

\* Paths: one name; or two names in the root and one below the first.
One == {<<"a">>}
Nested == {<<"a">>, <<"b">>, <<"a", "b">>}
NestedArg == Nested \cup {Root, unreadable}

Mode(create, excl, trunc, append, access) ==
    [create |-> create, excl |-> excl, trunc |-> trunc, append |-> append,
     access |-> access]
CreateBoth == Mode(TRUE, FALSE, FALSE, FALSE, "both")
NameModes == {CreateBoth, Mode(TRUE, TRUE, FALSE, FALSE, "both"),
              Mode(FALSE, FALSE, TRUE, FALSE, "both")}
DataModes == {CreateBoth, Mode(FALSE, FALSE, TRUE, TRUE, "write")}

NoVectors == {}
DataVectors == {unreadable, << <<x>>, <<x>> >>, << <<x, x>> >>}

Request(offset, length, writeback) ==
    [offset |-> offset, length |-> length, writeback |-> writeback]
NoRequests == {}
WideRequests == {Request(0, 2, TRUE), Request(0, 1, FALSE),
                 Request(MaxInt64, 2, TRUE)}

DupFds == {-6, 1, 3, 4, 5}   \* -6: where the search wraps to from 5
DupSizes == {-1, 2}
DataDeltas == {-1, 0, MaxInt64}

Symmetry == Permutations({f1, f2})
=============================================================================
