-------------------------------- MODULE GoJS --------------------------------
(***************************************************************************)
(* The bounded Go js/wasm host ABI of gojs.go: the table through which a    *)
(* guest names host values by 8-byte references, and the synchronous        *)
(* re-entry of the guest ("resume") by fs.read and fs.write.                *)
(*                                                                          *)
(* A host call takes goState.mu, works, and lets it go: one action, unless  *)
(* it re-enters the guest.  Then the lock is let go for the time of the     *)
(* inner run, whose own host calls take it, and is taken again when the     *)
(* inner run ends.  An instance runs on one goroutine, so frames is its     *)
(* stack of guest runs, the outermost left out; a handler whose lock is not free waits for ever.    *)
(*                                                                          *)
(* The contents of byte arrays and strings are left out: an index into one  *)
(* yields any number or text.                                               *)
(***************************************************************************)
EXTENDS Integers, Sequences

CONSTANTS
    Slot,        \* places in guest memory that hold a reference
    Text,        \* contents of strings, as numbers
    Callback,    \* identifiers the guest gives its callbacks
    ExitCode,    \* codes the guest exits with
    GetProp,     \* properties the guest reads
    SetProp,     \* properties the guest writes
    Method,      \* methods the guest calls
    Index,       \* indices it reads and writes
    Written,     \* references it writes
    Count,       \* how many bytes a read or write can move
    IdBound,     \* bound of the model: nextID stops here
    CallBound    \* bound of the model: calls that re-enter the guest

ASSUME GoAssumption ==
    /\ Callback \subseteq Nat \ {0}
    /\ ExitCode \subseteq Nat
    /\ Text \subseteq Int /\ Count \subseteq Nat
    /\ IdBound \in Nat /\ IdBound >= 7 /\ CallBound \in Nat

\* syscall/js hands an event's result back in it, and writes nothing else there.
ASSUME SetPropAssumption == SetProp \cap {"fs", "id", "args", "_pendingEvent"} = {}

VARIABLES
    values,    \* goState.values: the host value behind each id
    nextID,    \* goState.nextID
    mu,        \* is goState.mu held while no host call runs it?
    fields,    \* fields[o][p]: property p of host object o
    elements,  \* elements[n]: the argument array of event n
    memory,    \* memory[s]: the reference in guest memory at s
    meant,     \* history: the value the reference at s was stored for
    frames,    \* guest runs that resume started and that have not ended; the
               \* callback of each is history
    calls,     \* calls so far that re-entered the guest
    status,    \* "running", "unwinding" (a panic is on its way), or "done"
    err        \* the error on its way: an exit code, Trap, or None

host == <<values, nextID, mu, fields, elements>>
guest == <<memory, meant>>
control == <<frames, calls, status, err>>
vars == <<host, guest, control>>

-----------------------------------------------------------------------------
(* Values (jsValue), and references to them *)

Value(kind, of) == [kind |-> kind, of |-> of]
Absent == Value("nil", 0)                  \* a nil *jsValue
Undefined == Value("undefined", 0)
Null == Value("null", 0)
NaN == Value("nan", 0)
Number(n) == Value("number", n)
Boolean(n) == Value("boolean", n)
String(t) == Value("string", t)
Bytes(i) == Value("bytes", i)              \* i tells byte arrays apart
Array(n) == Value("array", n)
Object(o) == Value("object", o)
Function(c) == Value("function", c)        \* c > 0: callbackID of a wrapper

\* Host functions: the call field is set.
MakeFuncWrapper == Function(-1)
Uint8Array == Function(-2)
Unsupported == Function(-3)                \* fs.open and the like: ENOSYS
FsWrite == Function(-4)
Callable(v) == v.kind = "function" /\ v.of < 0

GlobalObject == 1
GoObject == 2
FsObject == 3

\* Mutant: all calls share one event.
SharedEvent(n) == 4

Event(n) == 3 + n
Objects == 1..Event(CallBound)
Prop == {"fs", "Uint8Array", "_makeFuncWrapper", "_pendingEvent", "write",
         "open", "id", "args"} \cup GetProp \cup SetProp \cup Method

\* An object with property p set to f[p], and no other property.
Having(f) == [p \in Prop |-> IF p \in DOMAIN f THEN f[p] ELSE Absent]

Refs == [tag : {"undefined", "number", "id"}, n : Int, flag : {0, 1, 2, 4}]

ASSUME ArgAssumption == Written \subseteq Refs /\ Index \subseteq Int

Tagged(tag, n, flag) == [tag |-> tag, n |-> n, flag |-> flag]
Plain(n) == Tagged("number", n, 0)         \* the float64 itself
Ref(id, flag) == Tagged("id", id, flag)    \* a NaN with an id in its low word
NoRef == Tagged("undefined", 0, 0)         \* eight zero bytes
NullRef == Ref(2, 0)
GlobalRef == Ref(5, 1)
GoRef == Ref(6, 1)

None == -2
Trap == -1

IsNew(v) == v.kind \in {"object", "array", "bytes", "string", "function"}

\* Mutant: functions are marked as symbols.
TypeFlagSymbol(v) ==
    CASE v.kind \in {"object", "array", "bytes"} -> 1
      [] v.kind = "string" -> 2
      [] v.kind = "function" -> 3
      [] OTHER -> 0

TypeFlag(v) ==
    CASE v.kind \in {"object", "array", "bytes"} -> 1
      [] v.kind = "string" -> 2
      [] v.kind = "function" -> 4
      [] OTHER -> 0

\* The reference storeValue writes for v.
RefTo(v) ==
    CASE v.kind \in {"nil", "undefined"} -> NoRef
      [] v.kind = "number" /\ v.of # 0 -> Plain(v.of)
      [] v.kind = "number" /\ v.of = 0 -> Ref(1, 0)
      [] v.kind = "nan" -> Ref(0, 0)
      [] v.kind = "null" -> NullRef
      [] v.kind = "boolean" -> Ref(IF v.of = 1 THEN 3 ELSE 4, 0)
      [] OTHER -> Ref(nextID, TypeFlag(v))

\* loadValue: what a reference stands for.
Load(r) ==
    CASE r.tag = "undefined" -> Undefined
      [] r.tag = "number" -> Number(r.n)
      [] r.tag = "id" -> IF r.n \in 0..(IdBound - 1) THEN values[r.n] ELSE Absent

\* Mutant: a string takes the next id and leaves it to the next value.
NextAfterUnnumbered(v) == IF IsNew(v) /\ v.kind # "string" THEN nextID + 1 ELSE nextID

NextAfter(v) == IF IsNew(v) THEN nextID + 1 ELSE nextID

\* storeValue: every store of a value that is not a constant takes a new id,
\* even when the table has the value under another.
StoreValue(s, v) ==
    /\ NextAfter(v) <= IdBound
    /\ values' = IF IsNew(v) THEN [values EXCEPT ![nextID] = v] ELSE values
    /\ nextID' = NextAfter(v)
    /\ memory' = [memory EXCEPT ![s] = RefTo(v)]
    /\ meant' = [meant EXCEPT ![s] = IF v = Absent THEN Undefined ELSE v]

-----------------------------------------------------------------------------
Init ==
    /\ values = [i \in 0..(IdBound - 1) |->
          CASE i = 0 -> NaN
            [] i = 1 -> Number(0)
            [] i = 2 -> Null
            [] i = 3 -> Boolean(1)
            [] i = 4 -> Boolean(0)
            [] i = 5 -> Object(GlobalObject)
            [] i = 6 -> Object(GoObject)
            [] OTHER -> Absent]
    /\ nextID = 7
    /\ mu = FALSE
    /\ fields = [o \in Objects |->
          CASE o = GlobalObject -> Having([fs |-> Object(FsObject),
                                           Uint8Array |-> Uint8Array])
            [] o = GoObject -> Having([_makeFuncWrapper |-> MakeFuncWrapper])
            [] o = FsObject -> Having([write |-> FsWrite, open |-> Unsupported])
            [] OTHER -> [p \in Prop |-> Absent]]
    /\ elements = [n \in 1..CallBound |-> << >>]
    /\ memory = [s \in Slot |-> NoRef]
    /\ meant = [s \in Slot |-> Undefined]
    /\ frames = << >>
    /\ calls = 0
    /\ status = "running"
    /\ err = None

-----------------------------------------------------------------------------
(* Host calls that do not re-enter the guest *)

StringVal(dst, text) ==
    /\ ~mu
    /\ StoreValue(dst, String(text))
    /\ UNCHANGED <<mu, fields, elements>>

ValueGet(r, p, dst) ==
    /\ ~mu
    /\ StoreValue(dst, IF Load(r).kind = "object" THEN fields[Load(r).of][p] ELSE Absent)
    /\ UNCHANGED <<mu, fields, elements>>

\* On anything but an object, a silent no-op.
ValueSet(r, p, v) ==
    /\ ~mu
    /\ fields' = IF Load(r).kind = "object"
                 THEN [fields EXCEPT ![Load(r).of][p] = Load(v)] ELSE fields
    /\ UNCHANGED <<values, nextID, mu, elements, guest>>

Indexed(v, i) ==
    CASE v.kind = "array" ->
           {IF i + 1 \in DOMAIN elements[v.of] THEN elements[v.of][i + 1] ELSE Absent}
      [] v.kind = "bytes" -> {Number(0), Number(1), Absent}
      [] v.kind = "string" -> {String(t) : t \in Text} \cup {Absent}
      [] OTHER -> {Absent}

ValueIndex(r, i, dst) ==
    /\ ~mu
    /\ \E v \in Indexed(Load(r), i) : StoreValue(dst, v)
    /\ UNCHANGED <<mu, fields, elements>>

ValueSetIndex(r, i, v) ==
    /\ ~mu
    /\ LET a == Load(r) IN
       elements' = IF a.kind = "array" /\ i + 1 \in DOMAIN elements[a.of]
                   THEN [elements EXCEPT ![a.of][i + 1] = Load(v)] ELSE elements
    /\ UNCHANGED <<values, nextID, mu, fields, guest>>

\* PrepareString leaves the text in a new byte array.  LoadString, Length and
\* copyBytes only move bytes, between the array and guest memory.
PrepareString(dst) ==
    /\ ~mu
    /\ StoreValue(dst, Bytes(nextID))
    /\ UNCHANGED <<mu, fields, elements>>

\* What host function f makes of its argument; the error text of ENOSYS, and
\* of a call to anything else, is a string.
Result(f, arg) ==
    CASE f = MakeFuncWrapper ->
           {Function(IF arg.kind = "number" THEN arg.of ELSE 0)}
      [] f = Uint8Array -> {Bytes(nextID)}
      [] f = FsWrite -> {Undefined}
      [] OTHER -> {String(t) : t \in Text}

ValueNew(r, arg, dst) ==
    /\ ~mu
    /\ \E v \in Result(Load(r), Load(arg)) : StoreValue(dst, v)
    /\ UNCHANGED <<mu, fields, elements>>

MethodOf(v, p) == IF v.kind = "object" THEN fields[v.of][p] ELSE Absent

\* fs.write or fs.read with a wrapped Go function as its last argument.
ReEnters(r, p, arg) ==
    /\ Load(r) = fields[GlobalObject]["fs"]
    /\ p \in {"write", "read"}
    /\ Load(arg).kind = "function" /\ Load(arg).of > 0

ValueCall(r, p, arg, dst) ==
    /\ ~mu
    /\ ~ReEnters(r, p, arg)
    /\ \E v \in Result(MethodOf(Load(r), p), Load(arg)) : StoreValue(dst, v)
    /\ UNCHANGED <<mu, fields, elements>>

-----------------------------------------------------------------------------
(* Re-entry *)

Top == frames[Len(frames)]
Popped == SubSeq(frames, 1, Len(frames) - 1)

\* goAsyncFSCall up to the call of resume: the data has moved, the event
\* waits for the callback, and the lock is let go.
FsCall(r, p, arg, dst) ==
    /\ ~mu
    /\ ReEnters(r, p, arg)
    /\ calls < CallBound
    /\ calls' = calls + 1
    /\ \E count \in Count :
          elements' = [elements EXCEPT ![calls'] = <<Null, Number(count)>>]
    /\ fields' = [fields EXCEPT
          ![Event(calls')] = Having([id |-> Number(Load(arg).of), args |-> Array(calls')]),
          ![GoObject]["_pendingEvent"] = Object(Event(calls'))]
    /\ frames' = Append(frames, [call |-> calls', callback |-> Load(arg).of,
                                 phase |-> "fresh", dst |-> dst])
    /\ UNCHANGED <<values, nextID, mu, guest, status, err>>

\* resume has returned: take the lock, answer undefined, let it go.
ResumeReturns ==
    /\ status = "running" /\ frames # << >> /\ Top.phase = "free"
    /\ ~mu
    /\ StoreValue(Top.dst, Undefined)
    /\ frames' = Popped
    /\ UNCHANGED <<mu, fields, elements, calls, status, err>>

\* Mutant: the lock is not let go after an inner run that exited.
HeldAfterExit(e) == TRUE

\* Does the handler end with the lock still held?  The panic for an error
\* other than exit code 0 passes the unlock by.
HeldAfter(e) == e # 0

\* An inner run ends in an error: exit code 0 counts as a return, anything
\* else goes on as a trap.
ResumeFails ==
    /\ status = "unwinding" /\ frames # << >>
    /\ ~mu
    /\ mu' = HeldAfter(err)
    /\ frames' = Popped
    /\ IF err = 0
         THEN /\ StoreValue(Top.dst, Undefined)
              /\ status' = "running" /\ err' = None
         ELSE /\ UNCHANGED <<values, nextID, guest, status>>
              /\ err' = Trap
    /\ UNCHANGED <<fields, elements, calls>>

\* The outermost run ends with an exit code or a trap.
RunEnds ==
    /\ status = "unwinding" /\ frames = << >>
    /\ status' = "done"
    /\ UNCHANGED <<host, guest, frames, calls, err>>

\* goExit: the HostExit panic unwinds the innermost run.
Exit(code) ==
    /\ status' = "unwinding" /\ err' = code
    /\ UNCHANGED <<host, guest, frames, calls>>

-----------------------------------------------------------------------------
(* The guest: Go's syscall/js and runtime, external to the plugin.  A run    *)
(* that resume starts takes the pending event and clears it before anything  *)
(* else.                                                                     *)

\* References the guest has fetched, and all it has at hand.  It writes to what
\* it has fetched only, to keep the model small.
Fetched == {memory[s] : s \in Slot}
Held == Fetched \cup {NullRef, GlobalRef, GoRef}

TakeEvent(dst) ==
    /\ status = "running" /\ frames # << >> /\ Top.phase = "fresh"
    /\ ValueGet(GoRef, "_pendingEvent", dst)
    /\ frames' = [frames EXCEPT ![Len(frames)].phase = "taken"]
    /\ UNCHANGED <<calls, status, err>>

ClearEvent ==
    /\ status = "running" /\ frames # << >> /\ Top.phase = "taken"
    /\ ValueSet(GoRef, "_pendingEvent", NullRef)
    /\ frames' = [frames EXCEPT ![Len(frames)].phase = "free"]
    /\ UNCHANGED <<calls, status, err>>

Running == status = "running" /\ (frames # << >> => Top.phase = "free")

HostCall ==
    /\ Running
    /\ \E dst \in Slot :
          \/ \E t \in Text : StringVal(dst, t)
          \/ PrepareString(dst)
          \/ \E r \in Held :
                \/ \E p \in GetProp : ValueGet(r, p, dst)
                \/ \E i \in Index : ValueIndex(r, i, dst)
                \/ \E c \in Callback : ValueNew(r, Plain(c), dst)
                \/ \E c \in Callback, p \in Method : ValueCall(r, p, Plain(c), dst)
          \/ \E r \in Fetched, v \in Written :
                \/ \E p \in SetProp : ValueSet(r, p, v)
                \/ \E i \in Index : ValueSetIndex(r, i, v)
    /\ UNCHANGED control

ReEnter ==
    /\ Running
    /\ \E dst \in Slot, r, arg \in Held : FsCall(r, "write", arg, dst)

Stop ==
    /\ Running
    /\ \E code \in ExitCode : Exit(code)

Next ==
    \/ HostCall
    \/ \E dst \in Slot : TakeEvent(dst)
    \/ ClearEvent
    \/ ReEnter
    \/ Stop
    \/ ResumeReturns
    \/ ResumeFails
    \/ RunEnds

Spec == Init /\ [][Next]_vars

\* A panic unwinds on its own.
FairSpec == Spec /\ WF_vars(ResumeFails) /\ WF_vars(RunEnds)

-----------------------------------------------------------------------------
(* Correctness *)

Kinds == {"nil", "undefined", "null", "nan", "number", "boolean", "string",
          "bytes", "array", "object", "function"}
Values == [kind : Kinds, of : Int]

\* Every variable has its type (the structs of gojs.go:31-47).
TypeOK ==
    /\ values \in [0..(IdBound - 1) -> Values]
    /\ nextID \in 7..IdBound
    /\ mu \in BOOLEAN
    /\ fields \in [Objects -> [Prop -> Values]]
    /\ elements \in [1..CallBound -> Seq(Values)]
    /\ memory \in [Slot -> Refs]
    /\ meant \in [Slot -> Values]
    /\ frames \in Seq([call : 1..CallBound, callback : Int,
                       phase : {"fresh", "taken", "free"}, dst : Slot])
    /\ calls \in 0..CallBound
    /\ status \in {"running", "unwinding", "done"}
    /\ err \in ExitCode \cup {Trap, None}

\* A reference in guest memory stands, as long as the guest keeps it, for the
\* value it was stored for, whatever the guest stores, replaces or drops in
\* between and however deep it has re-entered.
RefsKeepMeaning == \A s \in Slot : Load(memory[s]) = meant[s]

\* The guest never runs while goState.mu is held: otherwise its next host call
\* would wait for ever for a lock its own stack holds.
LockFreeForGuest == status = "running" => ~mu

\* Each call of fs.read and fs.write that has not returned has an event of its
\* own: it names the callback that the call was given and holds the call's own
\* arguments, for as long as the call lasts, however many calls its callback
\* makes in turn, whatever they leave pending and whatever results the guest
\* writes back.  The callback of an outer call reads its event after the calls
\* made in it.
EventsStayOwn ==
    \A i \in 1..Len(frames) :
        LET event == fields[Event(frames[i].call)] IN
        /\ event["id"] = Number(frames[i].callback)
        /\ event["args"] = Array(frames[i].call)

-----------------------------------------------------------------------------
(* What the code says of itself, and does not do *)

\* "terminate the Go command" (gojs.go:56): once the guest has asked to exit, it
\* does not run again.  An exit with code 0 inside a resume is taken for a
\* return (gojs.go:553), and the call that started the resume returns to the
\* guest.
ExitIsFinal == [][status = "unwinding" => status' # "running"]_vars

\* "terminate the Go command" (gojs.go:56): an exit with another code ends the
\* command.  Two resumes deep, the inner one panics with the lock held
\* (gojs.go:554) and the outer one waits for it (gojs.go:550).
ExitEnds == (status = "unwinding" /\ err > 0) ~> (status = "done")
=============================================================================
