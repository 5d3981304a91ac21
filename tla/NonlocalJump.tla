---------------------------- MODULE NonlocalJump ----------------------------
(***************************************************************************)
(* What a guest is promised of setjmp and longjmp (README.md:58): the       *)
(* activations of its functions are a stack; a jump goes, in one step, from *)
(* the newest to an older one that called setjmp and ends those above it    *)
(* and no other; an exit or a trap ends them all, and nothing runs again.   *)
(***************************************************************************)
EXTENDS Integers, Sequences

VARIABLE stack   \* for each activation, has it called setjmp?

Top == Len(stack)

Init == stack \in {<<setjmp>> : setjmp \in BOOLEAN}

Call(setjmp) == stack # << >> /\ stack' = Append(stack, setjmp)

Return == stack # << >> /\ stack' = SubSeq(stack, 1, Top - 1)

Jump(k) ==
    /\ k \in 1..(Top - 1) /\ stack[k]
    /\ stack' = SubSeq(stack, 1, k)

End == stack' = << >>

Next ==
    \/ \E setjmp \in BOOLEAN : Call(setjmp)
    \/ Return
    \/ \E k \in 1..Top : Jump(k)
    \/ End

Spec == Init /\ [][Next]_stack
=============================================================================
