---------------------------- MODULE InvokeProofs ----------------------------
(***************************************************************************)
(* Invoke keeps the guest's stack pointer and __THREW__, grants no heap     *)
(* that is not there, and implements NonlocalJump: for every bound on the   *)
(* depth and the stack, every size of pages and memory, every set of        *)
(* exports and every request for heap.                                      *)
(*                                                                          *)
(* The inductive invariant IInv says what the activations look like while a *)
(* panic passes through them: stack pointers rise, what a handler read as   *)
(* `stack` is the one below its callback's, and an activation is called by  *)
(* an invoke handler exactly when the one below it called setjmp, so that a *)
(* jump meets a handler before it has left its target.                      *)
(***************************************************************************)
EXTENDS Invoke, SequenceTheorems, TLAPS

Activation == [home : Nat \ {0}, setjmp : BOOLEAN, invoked : BOOLEAN, saved : Seq(Int)]

Typed ==
    /\ frames \in Seq(Activation)
    /\ sp \in Nat
    /\ threw \in Nat \cup {Flag}
    /\ err \in {"none", "longjmp", "exit", "trap"}
    /\ checking \in {"no", "returned", "caught"}
    /\ exports \in SUBSET Export
    /\ pages \in Nat \ {0} /\ brk \in Nat

\* Stack pointers rise with the activations, by one when nothing was lost.
HomesRise ==
    \A i \in 1..(Len(frames) - 1) :
        /\ frames[i + 1].home > frames[i].home
        /\ exports = Export => frames[i + 1].home = frames[i].home + 1

\* The stack pointer is never below the newest activation's, also while a
\* panic passes through it.
PointerAbove == frames # << >> => sp >= Top.home

\* What a handler reads as `stack` is the pointer its callback started above.
SavedBelow ==
    \A i \in 1..Len(frames) :
        /\ frames[i].saved # << >> => frames[i].saved[1] = frames[i].home - 1
        /\ frames[i].invoked /\ exports = Export => frames[i].saved # << >>

\* Calls of a function that called setjmp go through an invoke, and no others.
InvokedBySetjmp ==
    /\ frames # << >> => ~frames[1].invoked
    /\ \A i \in 1..(Len(frames) - 1) : frames[i].setjmp = frames[i + 1].invoked

\* A jump under way has its target below it.
JumpHasTarget ==
    err = "longjmp" => threw \in 1..(Len(frames) - 1) /\ frames[threw].setjmp

\* Nobody looks at __THREW__ while a panic is on its way.
NoCheckWhileUnwinding == err # "none" => checking = "no"

\* What concerns the activations alone.
Shape ==
    /\ frames \in Seq(Activation)
    /\ HomesRise /\ SavedBelow /\ InvokedBySetjmp

IInv ==
    /\ Typed /\ Shape
    /\ PointerAbove /\ JumpHasTarget /\ NoCheckWhileUnwinding
    /\ OwnStack /\ ThrewMatchesReturn /\ HeapBacked
-----------------------------------------------------------------------------
(* Activations come and go at the end of frames *)

\* Without the newest activation, the others stand as they were.
LEMMA BelowFacts ==
    ASSUME frames \in Seq(Activation), frames # << >>
    PROVE  /\ Len(frames) \in Nat \ {0}
           /\ Top \in Activation
           /\ Below \in Seq(Activation)
           /\ Len(Below) = Len(frames) - 1
           /\ \A i \in 1..(Len(frames) - 1) : Below[i] = frames[i]
           /\ Below # << >> <=> Len(frames) >= 2
<1> DEFINE n == Len(frames)
<1>1. n \in Nat \ {0} /\ \A i \in 1..n : frames[i] \in Activation
  BY EmptySeq, ElementOfSeq
<1>2. Top \in Activation
  BY <1>1 DEF Top
<1>3. /\ Below \in Seq(Activation)
      /\ Len(Below) = IF 1 <= n - 1 THEN n - 1 - 1 + 1 ELSE 0
      /\ \A i \in 1..(n - 1 - 1 + 1) : Below[i] = frames[1 + i - 1]
  <2>1. \A i \in 1..(n - 1) : frames[i] \in Activation
    BY <1>1
  <2> QED
    BY <1>1, <2>1, SubSeqProperties DEF Below
<1>4. Len(Below) = n - 1 /\ \A i \in 1..(n - 1) : Below[i] = frames[i]
  <2>1. n \in Nat \ {0}
    BY <1>1
  <2>2. Len(Below) = n - 1
    <3>1. Len(Below) = IF 1 <= n - 1 THEN n - 1 - 1 + 1 ELSE 0
      BY <1>3
    <3> HIDE DEF n
    <3> QED
      BY <2>1, <3>1
  <2>3. ASSUME NEW i \in 1..(n - 1) PROVE Below[i] = frames[i]
    <3>1. i \in 1..(n - 1 - 1 + 1) /\ 1 + i - 1 = i
      <4> HIDE DEF n
      <4> QED
        BY <2>1
    <3> QED
      BY <1>3, <3>1
  <2> QED
    BY <2>2, <2>3
<1>5. Below # << >> <=> Len(Below) # 0
  BY <1>3, EmptySeq
<1> QED
  BY <1>1, <1>2, <1>3, <1>4, <1>5

LEMMA PopKeepsShape ==
    ASSUME Shape, frames # << >>, frames' = Below, exports' = exports
    PROVE  Shape'
<1>1. /\ Len(frames) \in Nat \ {0} /\ Len(frames') = Len(frames) - 1
      /\ frames' \in Seq(Activation)
      /\ \A i \in 1..(Len(frames) - 1) : frames'[i] = frames[i]
      /\ frames' # << >> => Len(frames) >= 2
  BY BelowFacts DEF Shape
<1>2. HomesRise'
  BY <1>1 DEF Shape, HomesRise
<1>3. SavedBelow'
  BY <1>1 DEF Shape, SavedBelow
<1>4. InvokedBySetjmp'
  BY <1>1 DEF Shape, InvokedBySetjmp
<1> QED
  BY <1>1, <1>2, <1>3, <1>4 DEF Shape

\* Where the newest activation stands in frames.
LEMMA TopFacts ==
    ASSUME IInv, frames # << >>
    PROVE  /\ Len(frames) \in Nat \ {0} /\ Top = frames[Len(frames)]
           /\ Top \in Activation /\ Top.home \in Nat \ {0} /\ sp >= Top.home
           /\ \A i \in 1..Len(frames) : frames[i] \in Activation
<1>1. frames \in Seq(Activation) /\ sp >= Top.home
  BY DEF IInv, Shape, PointerAbove
<1>2. Len(frames) \in Nat \ {0} /\ Top \in Activation
  BY <1>1, BelowFacts
<1>3. \A i \in 1..Len(frames) : frames[i] \in Activation
  BY <1>1, ElementOfSeq
<1> QED
  BY <1>1, <1>2, <1>3 DEF Top, Activation

\* A call, by a handler exactly when the caller has called setjmp.
LEMMA EnterKeepsShape ==
    ASSUME IInv, GuestRuns, exports' = exports,
           NEW setjmp \in BOOLEAN, NEW saved \in Seq(Int),
           saved # << >> => saved[1] = sp,
           Top.setjmp /\ exports = Export => saved # << >>,
           Enter(setjmp, Top.setjmp, saved)
    PROVE  /\ Shape' /\ PointerAbove' /\ sp' = Top'.home /\ sp' \in Nat
           /\ Len(frames') = Len(frames) + 1
           /\ \A i \in 1..Len(frames) : frames'[i] = frames[i]
           /\ frames'[Len(frames) + 1].setjmp = setjmp
<1> DEFINE n == Len(frames)
           new == [home |-> sp + 1, setjmp |-> setjmp, invoked |-> Top.setjmp,
                   saved |-> saved]
<1>1. frames # << >> /\ sp \in Nat /\ err = "none"
  BY DEF GuestRuns, IInv, Typed
<1>2. /\ n \in Nat \ {0} /\ Top = frames[n] /\ Top \in Activation /\ sp >= Top.home
      /\ Top.home \in Nat \ {0}
      /\ \A i \in 1..n : frames[i] \in Activation
  BY <1>1, TopFacts
<1>3. new \in Activation
  BY <1>1, <1>2 DEF Activation
<1>4. frames' = Append(frames, new) /\ sp' = sp + 1
  BY DEF Enter
<1>5. /\ frames' \in Seq(Activation) /\ Len(frames') = n + 1 /\ frames'[n + 1] = new
      /\ \A i \in 1..n : frames'[i] = frames[i]
  <2> HIDE DEF new
  <2> QED
    BY <1>3, <1>4 DEF IInv, Shape
<1>6. exports = Export => sp = Top.home
  BY <1>1 DEF IInv, OwnStack
<1>7. HomesRise'
  <2> SUFFICES ASSUME NEW i \in 1..n
               PROVE  /\ frames'[i + 1].home > frames'[i].home
                      /\ exports = Export => frames'[i + 1].home = frames'[i].home + 1
    BY <1>2, <1>5 DEF HomesRise
  <2>1. CASE i = n
    BY <1>1, <1>2, <1>5, <1>6, <2>1
  <2>2. CASE i \in 1..(n - 1)
    <3>1. frames'[i] = frames[i] /\ frames'[i + 1] = frames[i + 1]
      BY <1>2, <1>5, <2>2
    <3> QED
      BY <2>2, <3>1 DEF IInv, Shape, HomesRise
  <2> QED
    BY <1>2, <2>1, <2>2
<1>8. SavedBelow'
  <2> SUFFICES ASSUME NEW i \in 1..(n + 1)
               PROVE  /\ frames'[i].saved # << >> => frames'[i].saved[1] = frames'[i].home - 1
                      /\ frames'[i].invoked /\ exports = Export => frames'[i].saved # << >>
    BY <1>5 DEF SavedBelow
  <2>1. CASE i = n + 1
    <3>1. /\ frames'[i].saved = saved /\ frames'[i].home - 1 = sp
          /\ frames'[i].invoked = Top.setjmp
      BY <1>1, <1>5, <2>1
    <3> QED
      BY <3>1
  <2>2. CASE i \in 1..n
    BY <1>5, <2>2 DEF IInv, Shape, SavedBelow
  <2> QED
    BY <1>2, <2>1, <2>2
<1>9. InvokedBySetjmp'
  <2>1. ~frames'[1].invoked
    BY <1>1, <1>2, <1>5 DEF IInv, Shape, InvokedBySetjmp
  <2>2. ASSUME NEW i \in 1..n PROVE frames'[i].setjmp = frames'[i + 1].invoked
    <3>1. CASE i = n
      BY <1>2, <1>5, <3>1
    <3>2. CASE i \in 1..(n - 1)
      BY <1>2, <1>5, <3>2 DEF IInv, Shape, InvokedBySetjmp
    <3> QED
      BY <1>2, <3>1, <3>2
  <2> QED
    BY <1>2, <1>5, <2>1, <2>2 DEF InvokedBySetjmp
<1>10. PointerAbove' /\ sp' = Top'.home /\ sp' \in Nat
  BY <1>1, <1>2, <1>4, <1>5 DEF PointerAbove, Top
<1> QED
  BY <1>2, <1>5, <1>7, <1>8, <1>9, <1>10 DEF Shape

-----------------------------------------------------------------------------
(* Pages and bytes *)

\* What integer division leaves.
LEMMA Quotient ==
    ASSUME NEW x \in Nat, NEW d \in Nat \ {0}
    PROVE  x \div d \in Nat /\ x < (x \div d + 1) * d
<1>1. x \div d \in Int /\ x % d \in 0..(d - 1) /\ x = d * (x \div d) + (x % d)
  OBVIOUS
<1> QED
  BY <1>1

\* As many pages more hold as many bytes more.
LEMMA PagesOrder ==
    ASSUME NEW m \in Nat, NEW n \in Nat, m <= n, NEW d \in Nat
    PROVE  m * d <= n * d /\ m * d \in Nat /\ n * d \in Nat
<1>1. PICK k \in Nat : n = m + k
  <2>1. n - m \in Nat /\ n = m + (n - m)
    OBVIOUS
  <2> QED
    BY <2>1
<1>2. n * d = m * d + k * d
  BY <1>1
<1>3. k * d \in Nat /\ m * d \in Nat /\ n * d \in Nat
  OBVIOUS
<1> QED
  BY <1>2, <1>3

\* A request that the rounding does not wrap is held by its target.
LEMMA TargetHolds ==
    ASSUME NEW bytes \in Nat, bytes <= AddressSpace - PageSize
    PROVE  TargetPages(bytes) \in Nat /\ bytes <= TargetPages(bytes) * PageSize
<1> DEFINE x == bytes + PageSize - 1
<1>1. PageSize \in Nat \ {0} /\ AddressSpace \in Nat
  BY InvokeAssumption DEF InvokeAssumption
<1>2. x \in Nat /\ x < AddressSpace
  BY <1>1
<1>3. x % AddressSpace = x
  <2> HIDE DEF x
  <2> QED
    BY <1>1, <1>2
<1>4. TargetPages(bytes) = x \div PageSize
  BY <1>3 DEF TargetPages
<1>5. x \div PageSize \in Nat /\ x < (x \div PageSize + 1) * PageSize
  <2> HIDE DEF x
  <2> QED
    BY <1>1, <1>2, Quotient
<1> DEFINE q == x \div PageSize
<1>6. (q + 1) * PageSize = q * PageSize + PageSize /\ q * PageSize \in Nat
  <2>1. q \in Nat
    BY <1>5
  <2> HIDE DEF q
  <2> QED
    BY <1>1, <2>1
<1>7. bytes <= q * PageSize
  <2>1. bytes + PageSize - 1 < q * PageSize + PageSize
    BY <1>5, <1>6
  <2>2. q * PageSize \in Nat
    BY <1>6
  <2> HIDE DEF q
  <2> QED
    BY <1>1, <2>1, <2>2
<1> QED
  BY <1>4, <1>5, <1>7

-----------------------------------------------------------------------------
(* The steps of the guest *)

\* A step that leaves the activations alone leaves them in shape.
LEMMA SameShape ==
    ASSUME IInv, UNCHANGED <<frames, sp, exports>>
    PROVE  Shape' /\ PointerAbove'
  BY DEF IInv, Shape, HomesRise, SavedBelow, InvokedBySetjmp, PointerAbove, Top

\* A step that leaves the heap alone leaves it backed.
LEMMA SameHeap ==
    ASSUME IInv, UNCHANGED heap
    PROVE  HeapBacked' /\ pages' \in Nat \ {0} /\ brk' \in Nat
  BY DEF IInv, Typed, HeapBacked, heap

LEMMA InitIInv ==
    Init => IInv
<1> SUFFICES ASSUME Init PROVE IInv
  OBVIOUS
<1>1. PICK setjmp \in BOOLEAN :
         frames = <<[home |-> 1, setjmp |-> setjmp, invoked |-> FALSE, saved |-> << >>]>>
  BY DEF Init
<1> DEFINE first == [home |-> 1, setjmp |-> setjmp, invoked |-> FALSE, saved |-> << >>]
<1>2. first \in Activation
  BY DEF Activation
<1>3. frames \in Seq(Activation) /\ Len(frames) = 1 /\ frames[1] = first
  BY <1>1, <1>2
<1>4. Shape
  BY <1>3 DEF Shape, HomesRise, SavedBelow, InvokedBySetjmp
<1>5. Typed
  BY <1>3, InvokeAssumption DEF Init, Typed, InvokeAssumption
<1>6. PointerAbove /\ OwnStack
  BY <1>3 DEF Init, PointerAbove, OwnStack, Top
<1>7. JumpHasTarget /\ NoCheckWhileUnwinding /\ ThrewMatchesReturn
  BY DEF Init, JumpHasTarget, NoCheckWhileUnwinding, ThrewMatchesReturn
<1>8. HeapBacked
  BY InvokeAssumption DEF Init, HeapBacked, InvokeAssumption
<1> QED
  BY <1>4, <1>5, <1>6, <1>7, <1>8 DEF IInv

\* A call, direct or through a handler, once its activation is in shape.
LEMMA EnteredKeepsIInv ==
    ASSUME IInv, GuestRuns, Shape', PointerAbove', sp' = Top'.home, sp' \in Nat,
           threw' = 0, UNCHANGED <<err, checking, exports, heap>>
    PROVE  IInv'
<1>1. err' = "none" /\ checking' = "no"
  BY DEF GuestRuns
<1>2. Typed'
  BY <1>1, SameHeap DEF IInv, Shape, Typed
<1>3. JumpHasTarget' /\ NoCheckWhileUnwinding' /\ ThrewMatchesReturn'
  BY <1>1 DEF JumpHasTarget, NoCheckWhileUnwinding, ThrewMatchesReturn
<1>4. OwnStack'
  BY DEF OwnStack, PointerAbove
<1> QED
  BY <1>2, <1>3, <1>4, SameHeap DEF IInv

LEMMA CallStep ==
    ASSUME IInv, NEW setjmp \in BOOLEAN, Call(setjmp)
    PROVE  IInv'
<1>1. GuestRuns /\ Top.setjmp = FALSE
  <2>1. frames # << >> /\ Top \in Activation
    BY TopFacts DEF Call, GuestRuns
  <2> QED
    BY <2>1 DEF Call, Activation
<1>2. Enter(setjmp, Top.setjmp, << >>) /\ << >> \in Seq(Int)
  <2>1. Enter(setjmp, FALSE, << >>)
    BY DEF Call
  <2>2. << >> \in Seq(Int)
    BY EmptySeq
  <2> QED
    BY <1>1, <2>1, <2>2
<1>3. Shape' /\ PointerAbove' /\ sp' = Top'.home /\ sp' \in Nat
  BY <1>1, <1>2, EnterKeepsShape DEF Call
<1>4. threw' = 0 /\ UNCHANGED <<err, checking, exports, heap>>
  BY <1>1 DEF Call, IInv, ThrewMatchesReturn
<1> QED
  BY <1>1, <1>3, <1>4, EnteredKeepsIInv

LEMMA InvokeStep ==
    ASSUME IInv, NEW setjmp \in BOOLEAN, InvokeCallback(setjmp)
    PROVE  IInv'
<1> DEFINE saved == IF "emscripten_stack_get_current" \in exports THEN <<sp>> ELSE << >>
<1>1. GuestRuns /\ Top.setjmp = TRUE
  <2>1. frames # << >> /\ Top \in Activation
    BY TopFacts DEF InvokeCallback, GuestRuns
  <2> QED
    BY <2>1 DEF InvokeCallback, Activation
<1>2. /\ saved \in Seq(Int) /\ (saved # << >> => saved[1] = sp)
      /\ (Top.setjmp /\ exports = Export => saved # << >>)
  BY DEF IInv, Typed, Export
<1>3. Enter(setjmp, Top.setjmp, saved) /\ exports' = exports
  BY <1>1 DEF InvokeCallback
<1>4. Shape' /\ PointerAbove' /\ sp' = Top'.home /\ sp' \in Nat
  <2> HIDE DEF saved
  <2> QED
    BY <1>1, <1>2, <1>3, EnterKeepsShape
<1>5. threw' = 0 /\ UNCHANGED <<err, checking, exports, heap>>
  BY DEF InvokeCallback
<1> QED
  BY <1>1, <1>4, <1>5, EnteredKeepsIInv

LEMMA ReturnStep ==
    ASSUME IInv, Return
    PROVE  IInv'
<1> DEFINE n == Len(frames)
<1>1. /\ frames # << >> /\ err = "none" /\ err' = "none" /\ threw' = 0 /\ threw = 0
      /\ frames' = Below /\ sp' = Top.home - 1 /\ exports' = exports
      /\ checking' = IF Top.invoked THEN "returned" ELSE "no"
  BY DEF Return, GuestRuns, IInv, ThrewMatchesReturn
<1>2. /\ n \in Nat \ {0} /\ Top = frames[n] /\ Top.home \in Nat \ {0}
      /\ \A i \in 1..n : frames[i] \in Activation
  BY <1>1, TopFacts
<1>3. Shape'
  BY <1>1, PopKeepsShape DEF IInv
<1>4. /\ Len(frames') = n - 1 /\ frames' \in Seq(Activation)
      /\ \A i \in 1..(n - 1) : frames'[i] = frames[i]
      /\ frames' # << >> => n >= 2
  BY <1>1, BelowFacts DEF IInv, Shape
<1>5. ASSUME frames' # << >>
      PROVE  sp' >= Top'.home /\ (exports = Export => sp' = Top'.home)
  <2>1. n - 1 \in 1..(n - 1) /\ Top' = frames[n - 1] /\ (n - 1) + 1 = n
    BY <1>2, <1>4, <1>5 DEF Top
  <2>2. frames[n - 1].home \in Nat
    BY <1>2, <2>1 DEF Activation
  <2>3. frames[n].home > frames[n - 1].home
    BY <2>1 DEF IInv, Shape, HomesRise
  <2>4. exports = Export => frames[n].home = frames[n - 1].home + 1
    BY <2>1 DEF IInv, Shape, HomesRise
  <2> QED
    BY <1>1, <1>2, <2>1, <2>2, <2>3, <2>4
<1>6. PointerAbove' /\ OwnStack'
  BY <1>1, <1>5 DEF PointerAbove, OwnStack
<1>7. Typed'
  <2>1. sp' \in Nat
    BY <1>1, <1>2
  <2>2. UNCHANGED heap
    BY DEF Return
  <2> QED
    BY <1>1, <1>4, <2>1, <2>2, SameHeap DEF IInv, Typed
<1>8. JumpHasTarget' /\ NoCheckWhileUnwinding' /\ ThrewMatchesReturn'
  BY <1>1 DEF JumpHasTarget, NoCheckWhileUnwinding, ThrewMatchesReturn
<1> QED
  BY <1>3, <1>6, <1>7, <1>8, SameHeap DEF IInv, Return

LEMMA LongjmpStep ==
    ASSUME IInv, NEW k \in 1..Len(frames), Longjmp(k)
    PROVE  IInv'
<1>1. /\ k \in 1..(Len(frames) - 1) /\ frames[k].setjmp
      /\ threw' = k /\ err' = "longjmp" /\ checking' = "no"
      /\ UNCHANGED <<frames, sp, exports, heap>>
  BY DEF Longjmp, Throw, SetThrew, IInv, ThrewMatchesReturn
<1>2. frames # << >> /\ Len(frames) \in Nat
  BY TopFacts DEF Longjmp, GuestRuns
<1>3. Typed'
  BY <1>1, <1>2, SameHeap DEF IInv, Typed
<1>4. JumpHasTarget' /\ NoCheckWhileUnwinding' /\ ThrewMatchesReturn' /\ OwnStack'
  BY <1>1 DEF JumpHasTarget, NoCheckWhileUnwinding, ThrewMatchesReturn, OwnStack,
              GuestRuns
<1> QED
  BY <1>1, <1>3, <1>4, SameShape, SameHeap DEF IInv

LEMMA DieStep ==
    ASSUME IInv, NEW error \in {"exit", "trap"}, Die(error)
    PROVE  IInv'
<1>1. /\ err' \in {"exit", "trap"} /\ checking' = "no"
      /\ UNCHANGED <<frames, sp, threw, exports, heap>>
  BY DEF Die, GuestRuns
<1>2. Typed'
  BY <1>1, SameHeap DEF IInv, Typed
<1>3. JumpHasTarget' /\ NoCheckWhileUnwinding' /\ ThrewMatchesReturn' /\ OwnStack'
  BY <1>1 DEF JumpHasTarget, NoCheckWhileUnwinding, ThrewMatchesReturn, OwnStack,
              GuestRuns
<1> QED
  BY <1>1, <1>2, <1>3, SameShape, SameHeap DEF IInv

\* The heap: what is granted and does not end in the last page is there.
LEMMA ResizeStep ==
    ASSUME IInv, NEW bytes \in Requests, ResizeHeap(bytes)
    PROVE  IInv'
<1>1. /\ bytes \in Nat /\ PageSize \in Nat \ {0} /\ AddressSpace \in Nat
      /\ pages \in Nat \ {0} /\ brk \in Nat
  BY InvokeAssumption DEF InvokeAssumption, IInv, Typed
<1>2. TargetPages(bytes) \in Int
  <2>1. (bytes + PageSize - 1) \in Nat
    BY <1>1
  <2>2. AddressSpace # 0
    BY InvokeAssumption, <1>1 DEF InvokeAssumption
  <2>3. ((bytes + PageSize - 1) % AddressSpace) \in Nat
    BY <1>1, <2>1, <2>2
  <2> QED
    BY <1>1, <2>3, Quotient DEF TargetPages
<1>3. pages' \in Nat \ {0} /\ pages <= pages'
  BY <1>1, <1>2 DEF ResizeHeap, Grown
<1>4. brk' \in Nat
  BY <1>1 DEF ResizeHeap
<1>5. HeapBacked'
  <2> SUFFICES ASSUME brk' <= AddressSpace - PageSize
               PROVE  brk' <= pages' * PageSize
    BY DEF HeapBacked
  <2>1. CASE TargetPages(bytes) <= pages'
    <3>1. brk' = bytes
      BY <2>1 DEF ResizeHeap
    <3>2. /\ TargetPages(bytes) \in Nat /\ bytes <= TargetPages(bytes) * PageSize
      BY <1>1, <3>1, TargetHolds
    <3>3. /\ TargetPages(bytes) * PageSize <= pages' * PageSize
          /\ TargetPages(bytes) * PageSize \in Nat /\ pages' * PageSize \in Nat
      BY <1>1, <1>3, <2>1, <3>2, PagesOrder
    <3> QED
      BY <1>1, <3>1, <3>2, <3>3
  <2>2. CASE ~(TargetPages(bytes) <= pages')
    <3>1. brk' = brk
      BY <2>2 DEF ResizeHeap
    <3>2. brk <= pages * PageSize
      BY <3>1 DEF IInv, HeapBacked
    <3>3. /\ pages * PageSize <= pages' * PageSize
          /\ pages * PageSize \in Nat /\ pages' * PageSize \in Nat
      BY <1>1, <1>3, PagesOrder
    <3> QED
      BY <1>1, <3>1, <3>2, <3>3
  <2> QED
    BY <2>1, <2>2
<1>6. UNCHANGED <<frames, sp, threw, err, checking, exports>>
  BY DEF ResizeHeap, jump
<1>7. Typed'
  BY <1>3, <1>4, <1>6 DEF IInv, Typed
<1>8. JumpHasTarget' /\ NoCheckWhileUnwinding' /\ ThrewMatchesReturn' /\ OwnStack'
  BY <1>6 DEF IInv, JumpHasTarget, NoCheckWhileUnwinding, ThrewMatchesReturn, OwnStack,
              GuestRuns, Top
<1> QED
  BY <1>5, <1>6, <1>7, <1>8, SameShape DEF IInv

-----------------------------------------------------------------------------
(* Unwinding *)

\* An activation ends under a panic: the one below it is in shape, below the
\* stack pointer, and still above the target of a jump unless its handler
\* ends here.
LEMMA PopFacts ==
    ASSUME IInv, frames # << >>, err # "none", frames' = Below,
           UNCHANGED <<exports, heap>>
    PROVE  /\ Shape' /\ checking = "no"
           /\ Len(frames) \in Nat \ {0} /\ Len(frames') = Len(frames) - 1
           /\ Top = frames[Len(frames)] /\ Top.home \in Nat \ {0}
           /\ \A i \in 1..(Len(frames) - 1) : frames'[i] = frames[i]
           /\ frames' # << >> => Top'.home \in Nat /\ Top.home > Top'.home
           /\ frames' # << >> /\ exports = Export => Top.home = Top'.home + 1
           /\ err = "longjmp" /\ ~Top.invoked => threw # Len(frames) - 1
<1> DEFINE n == Len(frames)
<1>1. /\ n \in Nat \ {0} /\ Top = frames[n] /\ Top.home \in Nat \ {0}
      /\ \A i \in 1..n : frames[i] \in Activation
  BY TopFacts
<1>2. /\ Len(frames') = n - 1 /\ frames' \in Seq(Activation)
      /\ \A i \in 1..(n - 1) : frames'[i] = frames[i]
      /\ frames' # << >> => n >= 2
  BY BelowFacts DEF IInv, Shape
<1>3. Shape' /\ checking = "no"
  BY PopKeepsShape DEF IInv, NoCheckWhileUnwinding
<1>4. ASSUME frames' # << >>
      PROVE  /\ Top'.home \in Nat /\ Top.home > Top'.home
             /\ exports = Export => Top.home = Top'.home + 1
  <2>1. n - 1 \in 1..(n - 1) /\ Top' = frames[n - 1] /\ (n - 1) + 1 = n
    BY <1>1, <1>2, <1>4 DEF Top
  <2>2. frames[n - 1].home \in Nat
    BY <1>1, <2>1 DEF Activation
  <2>3. /\ frames[n].home > frames[n - 1].home
        /\ exports = Export => frames[n].home = frames[n - 1].home + 1
    BY <2>1 DEF IInv, Shape, HomesRise
  <2> QED
    BY <1>1, <2>1, <2>2, <2>3
<1>5. ASSUME err = "longjmp", ~Top.invoked PROVE threw # n - 1
  <2> SUFFICES ASSUME threw = n - 1 PROVE FALSE
    OBVIOUS
  <2>1. n - 1 \in 1..(n - 1) /\ frames[n - 1].setjmp
    BY <1>5 DEF IInv, JumpHasTarget
  <2>2. frames[n - 1].setjmp = frames[(n - 1) + 1].invoked
    BY <2>1 DEF IInv, Shape, InvokedBySetjmp
  <2>3. (n - 1) + 1 = n
    BY <1>1
  <2> QED
    BY <1>1, <1>5, <2>1, <2>2, <2>3
<1> QED
  BY <1>1, <1>2, <1>3, <1>4, <1>5

LEMMA UnwindStep ==
    ASSUME IInv, Unwind
    PROVE  IInv'
<1>1. /\ err # "none" /\ frames # << >> /\ ~Top.invoked /\ frames' = Below
      /\ UNCHANGED <<sp, threw, err, checking, exports, heap>>
  BY DEF Unwind
<1>2. /\ Shape' /\ checking = "no"
      /\ Len(frames) \in Nat \ {0} /\ Len(frames') = Len(frames) - 1
      /\ Top.home \in Nat \ {0} /\ sp >= Top.home /\ sp \in Nat
      /\ \A i \in 1..(Len(frames) - 1) : frames'[i] = frames[i]
      /\ frames' # << >> => Top'.home \in Nat /\ Top.home > Top'.home
      /\ err = "longjmp" => threw # Len(frames) - 1
  BY <1>1, PopFacts DEF IInv, Typed, PointerAbove
<1>3. Typed'
  BY <1>1, <1>2, SameHeap DEF IInv, Shape, Typed
<1>4. PointerAbove'
  BY <1>1, <1>2 DEF PointerAbove
<1>5. JumpHasTarget'
  BY <1>1, <1>2 DEF IInv, JumpHasTarget
<1>6. NoCheckWhileUnwinding' /\ ThrewMatchesReturn' /\ OwnStack'
  BY <1>1, <1>2 DEF NoCheckWhileUnwinding, ThrewMatchesReturn, OwnStack, GuestRuns
<1> QED
  BY <1>1, <1>2, <1>3, <1>4, <1>5, <1>6, SameHeap DEF IInv

\* Where _emscripten_stack_restore puts the stack pointer: not below the
\* activation that called the handler, and with the three exports exactly there.
LEMMA RestoredFacts ==
    ASSUME IInv, frames # << >>, err # "none", Top.invoked, frames' = Below,
           UNCHANGED <<exports, heap>>
    PROVE  /\ Restored(Top) \in Nat
           /\ frames' # << >> => Restored(Top) >= Top'.home
           /\ frames' # << >> /\ exports = Export => Restored(Top) = Top'.home
<1>1. /\ Len(frames) \in Nat \ {0} /\ Top = frames[Len(frames)]
      /\ Top.home \in Nat \ {0} /\ sp >= Top.home /\ sp \in Nat
      /\ frames' # << >> => Top'.home \in Nat /\ Top.home > Top'.home
      /\ frames' # << >> /\ exports = Export => Top.home = Top'.home + 1
  BY PopFacts DEF IInv, Typed, PointerAbove
<1>2. /\ Top.saved # << >> => Top.saved[1] = Top.home - 1
      /\ exports = Export => Top.saved # << >>
  BY <1>1 DEF IInv, Shape, SavedBelow
<1>3. CASE Top.saved = << >>
  BY <1>1, <1>2, <1>3 DEF Restored
<1>4. CASE Top.saved # << >>
  <2>1. Restored(Top) = Top.home - 1
    BY <1>2, <1>4 DEF Restored
  <2> QED
    BY <1>1, <2>1
<1> QED
  BY <1>3, <1>4

LEMMA HandlerStep ==
    ASSUME IInv, HandlerEnds
    PROVE  IInv'
<1>1. /\ err # "none" /\ frames # << >> /\ Top.invoked /\ frames' = Below
      /\ UNCHANGED <<exports, heap>>
  BY DEF HandlerEnds
<1>2. /\ Shape' /\ checking = "no"
      /\ Len(frames) \in Nat \ {0} /\ Len(frames') = Len(frames) - 1
      /\ Top.home \in Nat \ {0} /\ sp >= Top.home /\ sp \in Nat
      /\ \A i \in 1..(Len(frames) - 1) : frames'[i] = frames[i]
      /\ frames' # << >> => Top'.home \in Nat /\ Top.home > Top'.home
  BY <1>1, PopFacts DEF IInv, Typed, PointerAbove
<1>3. /\ Restored(Top) \in Nat
      /\ frames' # << >> => Restored(Top) >= Top'.home
      /\ frames' # << >> /\ exports = Export => Restored(Top) = Top'.home
  BY <1>1, RestoredFacts
<1>4. CASE HandlerPasses
  <2>1. err' = err /\ err # "longjmp" /\ UNCHANGED <<sp, threw, checking>>
    BY <1>4 DEF HandlerPasses, Caught, Outcome
  <2>2. PointerAbove'
    BY <1>2, <2>1 DEF PointerAbove
  <2>3. Typed'
    BY <1>1, <1>2, <2>1, SameHeap DEF IInv, Shape, Typed
  <2>4. JumpHasTarget' /\ NoCheckWhileUnwinding' /\ ThrewMatchesReturn' /\ OwnStack'
    BY <1>1, <1>2, <2>1 DEF JumpHasTarget, NoCheckWhileUnwinding, ThrewMatchesReturn,
                           OwnStack, GuestRuns
  <2> QED
    BY <1>1, <1>2, <2>2, <2>3, <2>4, SameHeap DEF IInv
<1>5. CASE HandlerCatches
  <2>1. /\ err = "longjmp" /\ err' = "none" /\ checking' = "caught"
        /\ sp' = Restored(Top) /\ threw' = SetThrew(Flag)
    BY <1>5 DEF HandlerCatches, Caught, Outcome
  <2>2. threw \in 1..(Len(frames) - 1) /\ frames[threw].setjmp
    BY <2>1 DEF IInv, JumpHasTarget
  <2>3. threw' = threw
    BY <2>1, <2>2 DEF SetThrew
  <2>4. ThrewMatchesReturn' /\ JumpHasTarget' /\ NoCheckWhileUnwinding'
    BY <1>2, <2>1, <2>2, <2>3 DEF ThrewMatchesReturn, JumpHasTarget,
                                 NoCheckWhileUnwinding, GuestRuns
  <2>5. PointerAbove' /\ OwnStack'
    BY <1>1, <1>3, <2>1 DEF PointerAbove, OwnStack
  <2>6. Typed'
    BY <1>1, <1>2, <1>3, <2>1, <2>3, SameHeap DEF IInv, Shape, Typed
  <2> QED
    BY <1>1, <1>2, <2>4, <2>5, <2>6, SameHeap DEF IInv
<1>6. CASE HandlerFails
  <2>1. err' = "trap" /\ sp' \in {sp, Restored(Top)} /\ UNCHANGED <<threw, checking>>
    BY <1>6 DEF HandlerFails
  <2>2. PointerAbove'
    BY <1>2, <1>3, <2>1 DEF PointerAbove
  <2>3. Typed'
    BY <1>1, <1>2, <1>3, <2>1, SameHeap DEF IInv, Shape, Typed
  <2>4. JumpHasTarget' /\ NoCheckWhileUnwinding' /\ ThrewMatchesReturn' /\ OwnStack'
    BY <1>1, <1>2, <2>1 DEF JumpHasTarget, NoCheckWhileUnwinding, ThrewMatchesReturn,
                           OwnStack, GuestRuns
  <2> QED
    BY <1>1, <1>2, <2>2, <2>3, <2>4, SameHeap DEF IInv
<1> QED
  BY <1>4, <1>5, <1>6 DEF HandlerEnds

LEMMA CheckStep ==
    ASSUME IInv, CheckThrew
    PROVE  IInv'
<1>1. /\ checking # "no" /\ err = "none" /\ checking' = "no"
      /\ UNCHANGED <<frames, sp, exports, heap>>
  BY DEF CheckThrew, IInv, NoCheckWhileUnwinding
<1>2. CASE threw' = 0 /\ err' = err
  <2>1. Typed'
    BY <1>1, <1>2, SameHeap DEF IInv, Typed
  <2>2. JumpHasTarget' /\ NoCheckWhileUnwinding' /\ ThrewMatchesReturn' /\ OwnStack'
    BY <1>1, <1>2 DEF IInv, JumpHasTarget, NoCheckWhileUnwinding, ThrewMatchesReturn,
                      OwnStack, GuestRuns, Top
  <2> QED
    BY <1>1, <2>1, <2>2, SameShape, SameHeap DEF IInv
<1>3. CASE threw \notin {0, Flag, Len(frames)} /\ threw' = threw /\ err' = "longjmp"
  <2>1. checking = "caught"
    BY <1>1, <1>3 DEF IInv, Typed, ThrewMatchesReturn
  <2>2. threw \in 1..Len(frames) /\ frames[threw].setjmp
    BY <2>1 DEF IInv, ThrewMatchesReturn
  <2>3. Len(frames) \in Nat
    BY DEF IInv, Typed
  <2>4. Typed'
    BY <1>1, <1>3, SameHeap DEF IInv, Typed
  <2>5. JumpHasTarget'
    BY <1>1, <1>3, <2>2, <2>3 DEF JumpHasTarget
  <2>6. NoCheckWhileUnwinding' /\ ThrewMatchesReturn' /\ OwnStack'
    BY <1>1, <1>3 DEF NoCheckWhileUnwinding, ThrewMatchesReturn, OwnStack, GuestRuns
  <2> QED
    BY <1>1, <2>4, <2>5, <2>6, SameShape, SameHeap DEF IInv
<1> QED
  BY <1>2, <1>3 DEF CheckThrew

-----------------------------------------------------------------------------
(* The invariant *)

LEMMA NextKeepsIInv ==
    ASSUME IInv, [Next]_vars
    PROVE  IInv'
<1>1. CASE \E setjmp \in BOOLEAN : Call(setjmp) \/ InvokeCallback(setjmp)
  BY <1>1, CallStep, InvokeStep
<1>2. CASE Return
  BY <1>2, ReturnStep
<1>3. CASE \E k \in 1..Len(frames) : Longjmp(k)
  BY <1>3, LongjmpStep
<1>4. CASE \E error \in {"exit", "trap"} : Die(error)
  BY <1>4, DieStep
<1>5. CASE \E bytes \in Requests : ResizeHeap(bytes)
  BY <1>5, ResizeStep
<1>6. CASE Unwind
  BY <1>6, UnwindStep
<1>7. CASE HandlerEnds
  BY <1>7, HandlerStep
<1>8. CASE CheckThrew
  BY <1>8, CheckStep
<1>9. CASE UNCHANGED vars
  BY <1>9 DEF vars, IInv, Typed, Shape, HomesRise, SavedBelow, InvokedBySetjmp,
              PointerAbove, JumpHasTarget, NoCheckWhileUnwinding, OwnStack,
              ThrewMatchesReturn, HeapBacked, GuestRuns, Top
<1> QED
  BY <1>1, <1>2, <1>3, <1>4, <1>5, <1>6, <1>7, <1>8, <1>9
  DEF Next, GuestStep, Unwinding

\* IInv holds in every reachable state.
THEOREM Invariance == Spec => []IInv
<1>1. Init => IInv
  BY InitIInv
<1>2. IInv /\ [Next]_vars => IInv'
  BY NextKeepsIInv
<1> QED
  BY <1>1, <1>2, PTL DEF Spec

\* Whenever guest code runs, its stack pointer has not fallen below its
\* activation's own, and with the three exports it is exactly that
\* (emscripten.go:195-226, setjmp.c).
THEOREM StackIsOwn == Spec => []OwnStack
<1>1. IInv => OwnStack
  BY DEF IInv
<1> QED
  BY <1>1, Invariance, PTL

\* What the guest reads of __THREW__ after an invoke is right: nothing after a
\* return, an activation that stands and called setjmp after a jump.
THEOREM ThrewIsRight == Spec => []ThrewMatchesReturn
<1>1. IInv => ThrewMatchesReturn
  BY DEF IInv
<1> QED
  BY <1>1, Invariance, PTL

\* The heap that emscripten_resize_heap granted is there, short of the last
\* page that can be addressed (transform.go:449-480).
THEOREM HeapIsBacked == Spec => []HeapBacked
<1>1. IInv => HeapBacked
  BY DEF IInv
<1> QED
  BY <1>1, Invariance, PTL

-----------------------------------------------------------------------------
(* The refinement of NonlocalJump *)

\* What NonlocalJump calls its stack, for activations fs of which n stand.
View(fs, n) == [i \in 1..n |-> fs[i].setjmp]

LEMMA ViewFacts ==
    ASSUME NEW fs \in Seq(Activation), NEW n \in 0..Len(fs)
    PROVE  /\ View(fs, n) \in Seq(BOOLEAN) /\ Len(View(fs, n)) = n
           /\ \A i \in 1..n : View(fs, n)[i] = fs[i].setjmp
<1>1. \A i \in 1..Len(fs) : fs[i].setjmp \in BOOLEAN
  <2>1. \A i \in 1..Len(fs) : fs[i] \in Activation
    BY ElementOfSeq
  <2> QED
    BY <2>1 DEF Activation
<1>2. n \in Nat /\ 1..n \subseteq 1..Len(fs)
  BY LenProperties
<1>3. \A i \in 1..n : fs[i].setjmp \in BOOLEAN
  BY <1>1, <1>2
<1>4. View(fs, n) \in [1..n -> BOOLEAN] /\ \A i \in 1..n : View(fs, n)[i] = fs[i].setjmp
  BY <1>3 DEF View
<1> QED
  BY <1>2, <1>4

\* Two views of the same activations are one.
LEMMA ViewSame ==
    ASSUME NEW fs \in Seq(Activation), NEW gs \in Seq(Activation),
           NEW n \in 0..Len(fs), n <= Len(gs),
           \A i \in 1..n : fs[i] = gs[i]
    PROVE  View(fs, n) = View(gs, n)
  BY DEF View

LEMMA ViewNothing ==
    ASSUME NEW fs
    PROVE  View(fs, 0) = << >>
  BY DEF View

\* A view is shortened by dropping what is above.
LEMMA ViewPrefix ==
    ASSUME NEW fs \in Seq(Activation), NEW gs \in Seq(Activation),
           NEW n \in 0..Len(fs), NEW k \in 0..n, k <= Len(gs),
           \A i \in 1..k : fs[i] = gs[i]
    PROVE  View(gs, k) = SubSeq(View(fs, n), 1, k)
<1>1. /\ View(fs, n) \in Seq(BOOLEAN) /\ Len(View(fs, n)) = n
      /\ \A i \in 1..n : View(fs, n)[i] = fs[i].setjmp
  BY ViewFacts
<1>2. k \in 0..Len(gs)
  OBVIOUS
<1>3. /\ View(gs, k) \in Seq(BOOLEAN) /\ Len(View(gs, k)) = k
      /\ \A i \in 1..k : View(gs, k)[i] = gs[i].setjmp
  BY <1>2, ViewFacts
<1> DEFINE v == View(fs, n)
           w == SubSeq(v, 1, k)
<1>4. w \in Seq(BOOLEAN) /\ Len(w) = k /\ \A i \in 1..k : w[i] = v[i]
  <2> HIDE DEF v
  <2>1. k \in Nat /\ k <= Len(v) /\ v \in Seq(BOOLEAN)
    BY <1>1 DEF v
  <2> QED
    BY <2>1
<1>5. \A i \in 1..k : View(gs, k)[i] = w[i]
  <2> HIDE DEF w
  <2> QED
    BY <1>1, <1>3, <1>4
<1> HIDE DEF w
<1>6. View(gs, k) = w
  BY <1>3, <1>4, <1>5, SeqEqual
<1> QED
  BY <1>6 DEF w

\* A view is lengthened by a call.
LEMMA ViewPush ==
    ASSUME NEW fs \in Seq(Activation), NEW gs \in Seq(Activation),
           Len(gs) = Len(fs) + 1,
           \A i \in 1..Len(fs) : gs[i] = fs[i]
    PROVE  View(gs, Len(gs)) = Append(View(fs, Len(fs)), gs[Len(gs)].setjmp)
<1> DEFINE n == Len(fs)
           v == View(fs, n)
           b == gs[n + 1].setjmp
           w == Append(v, b)
<1>1. n \in Nat /\ Len(gs) = n + 1 /\ n \in 0..n /\ n + 1 \in 0..Len(gs)
  BY LenProperties
<1>2. v \in Seq(BOOLEAN) /\ Len(v) = n /\ \A i \in 1..n : v[i] = fs[i].setjmp
  BY <1>1, ViewFacts
<1>3. /\ View(gs, n + 1) \in Seq(BOOLEAN) /\ Len(View(gs, n + 1)) = n + 1
      /\ \A i \in 1..(n + 1) : View(gs, n + 1)[i] = gs[i].setjmp
  BY <1>1, ViewFacts
<1>4. b \in BOOLEAN
  <2>1. gs[n + 1] \in Activation
    BY <1>1, ElementOfSeq
  <2> QED
    BY <2>1 DEF Activation
<1>5. /\ w \in Seq(BOOLEAN) /\ Len(w) = n + 1 /\ w[n + 1] = b
      /\ \A i \in 1..n : w[i] = v[i]
  <2> HIDE DEF v, b
  <2> QED
    BY <1>1, <1>2, <1>4
<1>6. \A i \in 1..(n + 1) : View(gs, n + 1)[i] = w[i]
  <2> SUFFICES ASSUME NEW i \in 1..(n + 1) PROVE View(gs, n + 1)[i] = w[i]
    OBVIOUS
  <2>1. CASE i = n + 1
    <3>1. View(gs, n + 1)[i] = b
      BY <1>3, <2>1
    <3> HIDE DEF w
    <3> QED
      BY <1>5, <2>1, <3>1
  <2>2. CASE i \in 1..n
    <3> HIDE DEF w, v
    <3> QED
      BY <1>2, <1>3, <1>5, <2>2
  <2>3. i = n + 1 \/ i \in 1..n
    <3>1. n \in Nat
      BY <1>1
    <3> HIDE DEF n
    <3> QED
      BY <3>1
  <2> QED
    BY <2>1, <2>2, <2>3
<1>7. View(gs, n + 1) = w
  <2> HIDE DEF w
  <2> QED
    BY <1>3, <1>5, <1>6, SeqEqual
<1> QED
  BY <1>1, <1>7

\* The stack that NonlocalJump sees.
Seen == View(frames, Standing)

LEMMA SeenFacts ==
    ASSUME IInv
    PROVE  /\ Standing \in 0..Len(frames) /\ frames \in Seq(Activation)
           /\ Len(frames) \in Nat
           /\ Seen \in Seq(BOOLEAN) /\ Len(Seen) = Standing
           /\ \A i \in 1..Standing : Seen[i] = frames[i].setjmp
<1>1. frames \in Seq(Activation) /\ Len(frames) \in Nat
  BY DEF IInv, Shape
<1>2. Standing \in 0..Len(frames)
  BY <1>1 DEF IInv, Typed, JumpHasTarget, ThrewMatchesReturn, Standing
<1> QED
  BY <1>1, <1>2, ViewFacts DEF Seen

\* While the guest runs it sees all its activations, and the newest on top.
LEMMA SeenWhole ==
    ASSUME IInv, GuestRuns
    PROVE  Standing = Len(frames) /\ Len(frames) \in Nat \ {0} /\ Seen # << >>
<1>1. Standing = Len(frames)
  BY DEF GuestRuns, Standing
<1>2. Len(frames) \in Nat \ {0}
  BY TopFacts DEF GuestRuns
<1> QED
  BY <1>1, <1>2, SeenFacts, EmptySeq

-----------------------------------------------------------------------------
(* Every step of Invoke is one of NonlocalJump, or shows it nothing *)

\* As many activations stand as there are, or fewer, before a step and after.
InRange == Standing \in 0..Len(frames)

LEMMA StandingRange == IInv => InRange
  BY SeenFacts DEF InRange

LEMMA NextStandingRange == IInv' => InRange'
  BY StandingRange, PTL

\* The activations that stand before and after stand unchanged.
LEMMA SeenSame ==
    ASSUME IInv, IInv', Standing' = Standing,
           \A i \in 1..Standing : frames'[i] = frames[i]
    PROVE  Seen' = Seen
<1>1. /\ Standing \in 0..Len(frames) /\ frames \in Seq(Activation)
      /\ Standing' <= Len(frames') /\ frames' \in Seq(Activation)
  BY StandingRange, NextStandingRange DEF InRange, IInv, Shape
<1> QED
  BY <1>1, ViewSame DEF Seen

LEMMA EnterShown ==
    ASSUME IInv, IInv', GuestRuns, Standing' = Len(frames'),
           NEW setjmp \in BOOLEAN,
           Len(frames') = Len(frames) + 1,
           \A i \in 1..Len(frames) : frames'[i] = frames[i],
           frames'[Len(frames')].setjmp = setjmp
    PROVE  Seen # << >> /\ Seen' = Append(Seen, setjmp)
<1>1. frames \in Seq(Activation) /\ frames' \in Seq(Activation)
  BY DEF IInv, Shape
<1>2. Seen = View(frames, Len(frames)) /\ Seen # << >>
  BY SeenWhole DEF Seen
<1>3. Seen' = View(frames', Len(frames'))
  BY DEF Seen
<1> QED
  BY <1>1, <1>2, <1>3, ViewPush

\* An activation ends, or a jump ends those above its target.
LEMMA ShortenShown ==
    ASSUME IInv, IInv', Standing' <= Standing,
           \A i \in 1..Standing' : frames'[i] = frames[i]
    PROVE  Seen' = SubSeq(Seen, 1, Standing')
<1>1. frames \in Seq(Activation) /\ frames' \in Seq(Activation)
  BY DEF IInv, Shape
<1>2. Standing' \in 0..Standing /\ Standing' <= Len(frames') /\ Standing \in 0..Len(frames)
  BY StandingRange, NextStandingRange DEF InRange
<1> QED
  BY <1>1, <1>2, ViewPrefix DEF Seen

\* The actions of NonlocalJump, in terms of Seen.
LEMMA PromiseNext ==
    ASSUME \/ \E setjmp \in BOOLEAN : Seen # << >> /\ Seen' = Append(Seen, setjmp)
           \/ Seen # << >> /\ Seen' = SubSeq(Seen, 1, Len(Seen) - 1)
           \/ \E k \in 1..Len(Seen) :
                 k \in 1..(Len(Seen) - 1) /\ Seen[k] /\ Seen' = SubSeq(Seen, 1, k)
           \/ Seen' = << >>
           \/ Seen' = Seen
    PROVE  [Promise!Next]_Seen
<1>1. ASSUME NEW setjmp \in BOOLEAN, Seen # << >> /\ Seen' = Append(Seen, setjmp)
      PROVE  Promise!Next
  <2>1. Promise!Call(setjmp)
    BY <1>1 DEF Promise!Call, Seen, View
  <2> QED
    BY <2>1 DEF Promise!Next
<1>2. ASSUME Seen # << >> /\ Seen' = SubSeq(Seen, 1, Len(Seen) - 1)
      PROVE  Promise!Next
  <2>1. Promise!Return
    BY <1>2 DEF Promise!Return, Promise!Top, Seen, View
  <2> QED
    BY <2>1 DEF Promise!Next
<1>3. ASSUME NEW k \in 1..Len(Seen),
             k \in 1..(Len(Seen) - 1) /\ Seen[k] /\ Seen' = SubSeq(Seen, 1, k)
      PROVE  Promise!Next
  <2>1. Promise!Jump(k) /\ k \in 1..Promise!Top
    BY <1>3 DEF Promise!Jump, Promise!Top, Seen, View
  <2> QED
    BY <2>1 DEF Promise!Next
<1>4. ASSUME Seen' = << >> PROVE Promise!Next
  <2>1. Promise!End
    BY <1>4 DEF Promise!End, Seen, View
  <2> QED
    BY <2>1 DEF Promise!Next
<1> QED
  BY <1>1, <1>2, <1>3, <1>4

LEMMA CallShown ==
    ASSUME IInv, IInv', NEW setjmp \in BOOLEAN,
           Call(setjmp) \/ InvokeCallback(setjmp)
    PROVE  [Promise!Next]_Seen
<1>1. GuestRuns /\ err' = "none" /\ checking' = "no"
  BY DEF Call, InvokeCallback, GuestRuns
<1>2. PICK invoked, saved :
         frames' = Append(frames, [home |-> sp + 1, setjmp |-> setjmp,
                                   invoked |-> invoked, saved |-> saved])
  BY DEF Call, InvokeCallback, Enter
<1>3. frames \in Seq(Activation) /\ Len(frames) \in Nat
  BY DEF IInv, Shape
<1>4. /\ Len(frames') = Len(frames) + 1
      /\ \A i \in 1..Len(frames) : frames'[i] = frames[i]
      /\ frames'[Len(frames')].setjmp = setjmp
  BY <1>2, <1>3
<1>5. Standing' = Len(frames')
  BY <1>1 DEF Standing
<1>6. Seen # << >> /\ Seen' = Append(Seen, setjmp)
  BY <1>1, <1>4, <1>5, EnterShown
<1> QED
  BY <1>6, PromiseNext

LEMMA ReturnShown ==
    ASSUME IInv, IInv', Return
    PROVE  [Promise!Next]_Seen
<1>1. /\ GuestRuns /\ frames # << >> /\ frames' = Below
      /\ err' = "none" /\ checking' # "caught"
  BY DEF Return, GuestRuns
<1>2. Standing' = Len(frames')
  BY <1>1 DEF Standing
<1>3. /\ Len(frames') = Len(frames) - 1
      /\ \A i \in 1..(Len(frames) - 1) : frames'[i] = frames[i]
  BY <1>1, BelowFacts DEF IInv, Shape
<1>4. Standing = Len(frames) /\ Len(frames) \in Nat \ {0} /\ Seen # << >>
  BY <1>1, SeenWhole
<1>5. Standing' = Standing - 1 /\ Len(Seen) = Standing
  BY <1>2, <1>3, <1>4, SeenFacts
<1>6. Seen' = SubSeq(Seen, 1, Standing')
  BY <1>2, <1>3, <1>4, <1>5, ShortenShown
<1> QED
  BY <1>4, <1>5, <1>6, PromiseNext

\* The one step of NonlocalJump happens when the jump is thrown.
LEMMA LongjmpShown ==
    ASSUME IInv, IInv', NEW k \in 1..Len(frames), Longjmp(k)
    PROVE  [Promise!Next]_Seen
<1>1. /\ GuestRuns /\ k \in 1..(Len(frames) - 1) /\ frames[k].setjmp
      /\ threw' = k /\ err' = "longjmp" /\ frames' = frames
  BY DEF Longjmp, Throw, SetThrew, IInv, ThrewMatchesReturn
<1>2. Standing' = k
  BY <1>1 DEF Standing
<1>3. Standing = Len(frames) /\ Len(frames) \in Nat \ {0}
  BY <1>1, SeenWhole
<1>4. Len(Seen) = Len(frames) /\ Seen[k] = frames[k].setjmp
  BY <1>3, SeenFacts
<1>5. Seen' = SubSeq(Seen, 1, k)
  BY <1>1, <1>2, <1>3, ShortenShown
<1> QED
  BY <1>1, <1>4, <1>5, PromiseNext

\* An error that is no jump ends every activation.
LEMMA EndShown ==
    ASSUME err' \in {"exit", "trap"}
    PROVE  [Promise!Next]_Seen
<1>1. Standing' = 0
  BY DEF Standing
<1>2. Seen' = << >>
  BY <1>1, ViewNothing DEF Seen
<1> QED
  BY <1>2, PromiseNext

\* The activations that end while a panic passes were gone for NonlocalJump.
LEMMA UnwindShown ==
    ASSUME IInv, IInv', Unwind
    PROVE  [Promise!Next]_Seen
<1>1. /\ err # "none" /\ frames # << >> /\ frames' = Below
      /\ UNCHANGED <<threw, err, checking, exports, heap>>
  BY DEF Unwind
<1>2. CASE err \in {"exit", "trap"}
  BY <1>1, <1>2, EndShown
<1>3. CASE err = "longjmp"
  <2>1. Standing = threw /\ Standing' = threw
    BY <1>1, <1>3 DEF Standing
  <2>2. threw \in 1..(Len(frames) - 1)
    BY <1>3 DEF IInv, JumpHasTarget
  <2>3. /\ Len(frames) \in Nat
        /\ \A i \in 1..(Len(frames) - 1) : frames'[i] = frames[i]
    BY <1>1, PopFacts
  <2>4. \A i \in 1..Standing : frames'[i] = frames[i]
    BY <2>1, <2>2, <2>3
  <2> QED
    BY <2>1, <2>4, SeenSame, PromiseNext
<1> QED
  BY <1>1, <1>2, <1>3 DEF IInv, Typed

LEMMA HandlerShown ==
    ASSUME IInv, IInv', HandlerEnds
    PROVE  [Promise!Next]_Seen
<1>1. /\ err # "none" /\ frames # << >> /\ frames' = Below
      /\ UNCHANGED <<exports, heap>>
  BY DEF HandlerEnds
<1>2. CASE HandlerPasses
  <2>1. err' \in {"exit", "trap"}
    BY <1>1, <1>2 DEF HandlerPasses, Caught, Outcome, IInv, Typed
  <2> QED
    BY <2>1, EndShown
<1>3. CASE HandlerCatches
  <2>1. /\ err = "longjmp" /\ err' = "none" /\ checking' = "caught"
        /\ threw' = SetThrew(Flag)
    BY <1>3 DEF HandlerCatches, Caught, Outcome
  <2>2. threw \in 1..(Len(frames) - 1)
    BY <2>1 DEF IInv, JumpHasTarget
  <2>3. Standing = threw /\ Standing' = threw
    BY <2>1, <2>2 DEF Standing, SetThrew
  <2>4. /\ Len(frames) \in Nat
        /\ \A i \in 1..(Len(frames) - 1) : frames'[i] = frames[i]
    BY <1>1, PopFacts
  <2>5. \A i \in 1..Standing : frames'[i] = frames[i]
    BY <2>2, <2>3, <2>4
  <2> QED
    BY <2>3, <2>5, SeenSame, PromiseNext
<1>4. CASE HandlerFails
  BY <1>4, EndShown DEF HandlerFails
<1> QED
  BY <1>2, <1>3, <1>4 DEF HandlerEnds

\* A jump that lands, or goes on, was made when it was thrown.
LEMMA CheckShown ==
    ASSUME IInv, IInv', CheckThrew
    PROVE  [Promise!Next]_Seen
<1>1. checking # "no" /\ err = "none" /\ checking' = "no" /\ frames' = frames
  BY DEF CheckThrew, IInv, NoCheckWhileUnwinding
<1>2. Standing' = Standing
  <2>1. Len(frames) \in Nat
    BY DEF IInv, Typed
  <2>2. CASE checking = "returned"
    BY <1>1, <2>2 DEF CheckThrew, Standing, IInv, ThrewMatchesReturn
  <2>3. CASE checking = "caught"
    <3>1. threw \in 1..Len(frames) /\ Standing = threw
      BY <1>1, <2>3 DEF Standing, IInv, ThrewMatchesReturn
    <3>2. CASE threw = Len(frames)
      BY <1>1, <3>1, <3>2 DEF CheckThrew, Standing
    <3>3. CASE threw # Len(frames)
      <4>1. threw' = threw /\ err' = "longjmp"
        BY <2>1, <3>1, <3>3 DEF CheckThrew, Flag
      <4> QED
        BY <3>1, <4>1 DEF Standing
    <3> QED
      BY <3>2, <3>3
  <2> QED
    BY <1>1, <2>2, <2>3 DEF IInv, Typed
<1> QED
  BY <1>1, <1>2, SeenSame, PromiseNext

LEMMA NextShown ==
    ASSUME IInv, IInv', [Next]_vars
    PROVE  [Promise!Next]_Seen
<1>1. CASE \E setjmp \in BOOLEAN : Call(setjmp) \/ InvokeCallback(setjmp)
  BY <1>1, CallShown
<1>2. CASE Return
  BY <1>2, ReturnShown
<1>3. CASE \E k \in 1..Len(frames) : Longjmp(k)
  BY <1>3, LongjmpShown
<1>4. CASE \E error \in {"exit", "trap"} : Die(error)
  BY <1>4, EndShown DEF Die
<1>5. CASE \E bytes \in Requests : ResizeHeap(bytes)
  BY <1>5, PromiseNext DEF ResizeHeap, jump, Seen, Standing, View
<1>6. CASE Unwind
  BY <1>6, UnwindShown
<1>7. CASE HandlerEnds
  BY <1>7, HandlerShown
<1>8. CASE CheckThrew
  BY <1>8, CheckShown
<1>9. CASE UNCHANGED vars
  BY <1>9, PromiseNext DEF vars, Seen, Standing, View
<1> QED
  BY <1>1, <1>2, <1>3, <1>4, <1>5, <1>6, <1>7, <1>8, <1>9
  DEF Next, GuestStep, Unwinding

LEMMA InitShown ==
    Init => Promise!Init
<1> SUFFICES ASSUME Init PROVE Promise!Init
  OBVIOUS
<1>1. PICK setjmp \in BOOLEAN :
         frames = <<[home |-> 1, setjmp |-> setjmp, invoked |-> FALSE, saved |-> << >>]>>
  BY DEF Init
<1>2. Len(frames) = 1 /\ frames[1].setjmp = setjmp
  BY <1>1
<1>3. Standing = 1
  BY <1>2 DEF Init, Standing
<1>4. Seen \in Seq(BOOLEAN) /\ Len(Seen) = 1 /\ Seen[1] = setjmp
  BY <1>2, <1>3, InitIInv, SeenFacts
<1>5. Seen = <<setjmp>>
  <2>1. <<setjmp>> \in Seq(BOOLEAN) /\ Len(<<setjmp>>) = 1 /\ <<setjmp>>[1] = setjmp
    OBVIOUS
  <2> HIDE DEF Seen
  <2> QED
    BY <1>4, <2>1, SeqEqual
<1> QED
  BY <1>5 DEF Promise!Init, Seen, View

\* The handlers' hops and the guest's checks implement one nonlocal jump
\* (README.md:58): it happens when it is thrown, ends the activations above
\* its target and no other, and after an exit or a trap nothing runs.
THEOREM ImplementsJump == Spec => JumpSpec
<1>1. Init => Promise!Init
  BY InitShown
<1>2. IInv /\ IInv' /\ [Next]_vars => [Promise!Next]_[i \in 1..Standing |-> frames[i].setjmp]
  BY NextShown DEF Seen, View
<1> QED
  BY <1>1, <1>2, Invariance, PTL DEF Spec, JumpSpec, Promise!Spec
=============================================================================
