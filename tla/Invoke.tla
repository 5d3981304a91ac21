------------------------------- MODULE Invoke -------------------------------
(***************************************************************************)
(* Indirect calls with a way out: the invoke_* handlers of emscripten.go    *)
(* and the longjmp of the guest that unwinds through them.                  *)
(*                                                                          *)
(* A function that calls setjmp makes every call of its own through an      *)
(* invoke import: the handler notes the stack pointer, re-enters the guest  *)
(* by the trampoline __wago_invoke_*, and, when _emscripten_throw_longjmp   *)
(* unwound the callback, puts the stack pointer back, raises the guest's    *)
(* __THREW__ and returns as if nothing had happened.  The guest then looks  *)
(* at __THREW__: the jump is its own and lands, or it throws once more, to  *)
(* the next invoke further out.  One jump is so many hops, and guest code   *)
(* between them that must not run on.                                       *)
(*                                                                          *)
(* The guest is external: it is code that Emscripten generated for          *)
(* SUPPORT_LONGJMP=emscripten, as in testdata/fixtures/setjmp.c.  Arguments *)
(* and results of the callbacks are left out.                               *)
(*                                                                          *)
(* The other call that comes back into the guest is the growth of its heap: *)
(* its sbrk asks emscripten_resize_heap for the bytes up to its new break,  *)
(* and the body that transform.go wrote for that grows the memory.          *)
(***************************************************************************)
EXTENDS Integers, Sequences

CONSTANTS
    MaxDepth,    \* bound of the model: activations at a time
    StackSize,   \* room on the guest's stack; it makes no call beyond it
    PageSize,    \* bytes of a page: 64 KiB
    AddressSpace,   \* bytes that an i32 can count: 2^32
    MaxPages,    \* the memory's declared maximum
    Requests     \* breaks that the guest's sbrk asks for

InvokeAssumption ==
    /\ MaxDepth \in Nat \ {0} /\ StackSize \in Nat \ {0}
    /\ PageSize \in Nat \ {0} /\ MaxPages \in Nat \ {0}
    /\ AddressSpace \in Nat /\ AddressSpace % PageSize = 0
    /\ Requests \subseteq 0..(AddressSpace - 1)

ASSUME InvokeAssumption

VARIABLES
    frames,      \* activations of guest functions, oldest first
    sp,          \* the guest's stack pointer, counted from its base
    threw,       \* the guest's __THREW__: the activation a jump aims at
    err,         \* the error that unwinds the Go and guest stacks, if any
    checking,    \* the guest is back from an invoke, "returned" or "caught"
    exports,     \* which of Export the module has; it never changes
    pages,       \* the size of the guest's memory
    brk          \* the end of the guest's heap, as its sbrk has it

jump == <<frames, sp, threw, err, checking>>
heap == <<pages, brk>>
vars == <<frames, sp, threw, err, checking, exports, pages, brk>>

-----------------------------------------------------------------------------
Export ==
    {"emscripten_stack_get_current", "_emscripten_stack_restore", "setThrew"}

\* __THREW__ as the handler would raise it: 1, which is no jump buffer.
Flag == -1

\* An activation.  home: the stack pointer while it runs.  setjmp: it has a jump
\* buffer.  invoked: an invoke handler called it.  saved: what that handler read
\* as `stack`, of length 0 when there is nothing to read.
Top == frames[Len(frames)]
Below == SubSeq(frames, 1, Len(frames) - 1)

GuestRuns == frames # << >> /\ err = "none" /\ checking = "no"

\* setThrew leaves a value that is already there.
SetThrew(value) == IF threw = 0 THEN value ELSE threw

-----------------------------------------------------------------------------
Init ==
    /\ \E setjmp \in BOOLEAN :
         frames = <<[home |-> 1, setjmp |-> setjmp, invoked |-> FALSE,
                     saved |-> << >>]>>
    /\ sp = 1 /\ threw = 0 /\ err = "none" /\ checking = "no"
    /\ exports \in SUBSET Export
    /\ pages = 1 /\ brk = PageSize

Enter(setjmp, invoked, saved) ==
    /\ Len(frames) < MaxDepth /\ sp < StackSize
    /\ frames' = Append(frames, [home |-> sp + 1, setjmp |-> setjmp,
                                 invoked |-> invoked, saved |-> saved])
    /\ sp' = sp + 1

\* A function that did not call setjmp calls another.
Call(setjmp) ==
    /\ GuestRuns /\ ~Top.setjmp
    /\ Enter(setjmp, FALSE, << >>)
    /\ UNCHANGED <<threw, err, checking, exports, heap>>

\* The handler reads the stack pointer, an error of which it ignores, and
\* calls the trampoline.  The guest has cleared __THREW__ before.
InvokeCallback(setjmp) ==
    /\ GuestRuns /\ Top.setjmp
    /\ threw' = 0
    /\ Enter(setjmp, TRUE, IF "emscripten_stack_get_current" \in exports
                           THEN <<sp>> ELSE << >>)
    /\ UNCHANGED <<err, checking, exports, heap>>

\* A function ends.  After an invoke, which copies the results, the guest
\* will look at __THREW__.
Return ==
    /\ GuestRuns
    /\ frames' = Below
    /\ sp' = Top.home - 1
    /\ checking' = IF Top.invoked THEN "returned" ELSE "no"
    /\ UNCHANGED <<threw, err, exports, heap>>

\* longjmp to activation k: the guest raises __THREW__ and calls
\* _emscripten_throw_longjmp, which panics.
Throw(k) ==
    /\ threw' = SetThrew(k)
    /\ err' = "longjmp"
    /\ checking' = "no"

Longjmp(k) ==
    /\ GuestRuns /\ ~Top.setjmp
    /\ k \in 1..(Len(frames) - 1) /\ frames[k].setjmp
    /\ Throw(k)
    /\ UNCHANGED <<frames, sp, exports, heap>>

\* exit, abort, or a trap of the guest or of another handler.
Die(error) ==
    /\ GuestRuns
    /\ err' = error
    /\ UNCHANGED <<frames, sp, threw, checking, exports, heap>>

\* An error passes through an activation that was called directly.
Unwind ==
    /\ err # "none" /\ frames # << >> /\ ~Top.invoked
    /\ frames' = Below
    /\ UNCHANGED <<sp, threw, err, checking, exports, heap>>

-----------------------------------------------------------------------------
(* The growth of the heap *)

\* Mutant: the pages that a request fills, without the one it begins.
WholePages(bytes) == bytes \div PageSize

\* The body adds PageSize - 1 and shifts, both as a u32.
TargetPages(bytes) == ((bytes + PageSize - 1) % AddressSpace) \div PageSize

\* What the memory may have become, the old size also when it cannot grow.
Grown(bytes) == {pages} \cup {n \in {TargetPages(bytes)} : pages < n /\ n <= MaxPages}

\* The guest moves its break when the answer is 1, and keeps it otherwise.
ResizeHeap(bytes) ==
    /\ GuestRuns /\ bytes > pages * PageSize
    /\ pages' \in Grown(bytes)
    /\ brk' = IF TargetPages(bytes) <= pages' THEN bytes ELSE brk
    /\ UNCHANGED <<jump, exports>>

-----------------------------------------------------------------------------
(* The handler when its callback comes back with an error *)

\* Mutants: any panic of a handler passes for a jump; any error does.
CaughtTrap(e) == e \in {"longjmp", "trap"}
CaughtAny(e) == TRUE

\* errors.Is(err, errEmscriptenLongjmp)
Caught(e) == e = "longjmp"

\* Mutant: the stack pointer stays where the throw left it.
NotRestored(f) == sp

\* The stack pointer after _emscripten_stack_restore(stack[0]).
Restored(f) == IF f.saved = << >> THEN sp ELSE f.saved[1]

RestoreFails(f) == f.saved # << >> /\ "_emscripten_stack_restore" \notin exports

\* Mutant: the return after setThrew is missing.
OutcomeFallsThrough(e) == e

\* What the handler ends with: nothing, once the jump is recorded, or a
\* HostTrap that wraps the error and is found to be that error further out.
Outcome(e) == IF Caught(e) THEN "none" ELSE e

HandlerPasses ==
    /\ ~Caught(err)
    /\ err' = Outcome(err)
    /\ UNCHANGED <<sp, threw, checking>>

HandlerCatches ==
    /\ Caught(err) /\ ~RestoreFails(Top) /\ "setThrew" \in exports
    /\ sp' = Restored(Top)
    /\ threw' = SetThrew(Flag)
    /\ err' = Outcome(err)
    /\ checking' = IF err' = "none" THEN "caught" ELSE "no"

\* The jump cannot be recorded: "restore after longjmp", "record longjmp".
HandlerFails ==
    /\ Caught(err)
    /\ \/ RestoreFails(Top) /\ sp' = sp
       \/ ~RestoreFails(Top) /\ "setThrew" \notin exports /\ sp' = Restored(Top)
    /\ err' = "trap"
    /\ UNCHANGED <<threw, checking>>

HandlerEnds ==
    /\ err # "none" /\ frames # << >> /\ Top.invoked
    /\ frames' = Below
    /\ HandlerPasses \/ HandlerCatches \/ HandlerFails
    /\ UNCHANGED <<exports, heap>>

\* Back from an invoke the guest reads and clears __THREW__.  The jump is its
\* own, or somebody else's and goes on; without a value there was none.
CheckThrew ==
    /\ checking # "no"
    /\ \/ /\ threw \in {0, Flag, Len(frames)}
          /\ threw' = 0 /\ checking' = "no" /\ err' = err
       \/ /\ threw \notin {0, Flag, Len(frames)}
          /\ threw' = threw /\ checking' = "no" /\ err' = "longjmp"
    /\ UNCHANGED <<frames, sp, exports, heap>>

-----------------------------------------------------------------------------
GuestStep ==
    \/ \E setjmp \in BOOLEAN : Call(setjmp) \/ InvokeCallback(setjmp)
    \/ Return
    \/ \E k \in 1..Len(frames) : Longjmp(k)
    \/ \E error \in {"exit", "trap"} : Die(error)
    \/ \E bytes \in Requests : ResizeHeap(bytes)

\* Nobody has a choice: a panic unwinds, and the guest must look at __THREW__.
Unwinding == Unwind \/ HandlerEnds \/ CheckThrew

Next == GuestStep \/ Unwinding

Spec == Init /\ [][Next]_vars

\* A Go panic goes on, and what the guest does after an invoke is straight
\* code; when it calls, returns or jumps is its own affair.
FairSpec == Spec /\ WF_vars(Unwinding)

-----------------------------------------------------------------------------
(* Properties *)

\* Whenever guest code runs, the stack pointer has not fallen below its
\* activation's own, so that nothing it calls overwrites it; and with the
\* three exports it is exactly its own, however many activations a jump has
\* ended since: a loop of setjmp and longjmp does not eat the stack.
OwnStack ==
    frames # << >> /\ err = "none" =>
        /\ sp >= Top.home
        /\ exports = Export => sp = Top.home

\* An invoke that returned is not taken for a jump, and one that was unwound
\* names an activation that still stands, and that called setjmp: neither a
\* stale __THREW__ nor the error of an exit or a trap gets that far.
ThrewMatchesReturn ==
    /\ GuestRuns \/ checking = "returned" => threw = 0
    /\ checking = "caught" => threw \in 1..Len(frames) /\ frames[threw].setjmp

\* The activations the guest knows of: a jump has ended those above its target
\* the moment it is thrown, an exit or a trap all of them.
Standing ==
    IF err \in {"exit", "trap"} THEN 0
    ELSE IF err = "longjmp" \/ checking = "caught" THEN threw
    ELSE Len(frames)

Promise == INSTANCE NonlocalJump WITH
    stack <- [i \in 1..Standing |-> frames[i].setjmp]

\* The hops of the host's handlers and the guest's checks implement the one
\* step of NonlocalJump, and after an exit or a trap nothing runs.
JumpSpec == Promise!Spec

\* A jump that was thrown lands: the activation it aims at runs again.
JumpLands ==
    \A k \in 1..MaxDepth :
        (err = "longjmp" /\ threw = k /\ exports = Export)
            ~> (GuestRuns /\ Len(frames) = k)

\* The heap that the guest was granted is there, after every sequence of granted
\* and refused requests that is not within a page of all that can be addressed.
HeapBacked == brk <= AddressSpace - PageSize => brk <= pages * PageSize

-----------------------------------------------------------------------------
(* A claim the code does not keep *)

\* "target = ceil(requestedBytes / 64KiB); grow only by the missing pages."
\* (transform.go:458): whatever is granted is there.  The sum that is shifted
\* wraps for the last 65535 requests, the target is 0, and the answer is 1.
TargetIsCeiling == brk <= pages * PageSize
=============================================================================
