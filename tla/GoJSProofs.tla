----------------------------- MODULE GoJSProofs -----------------------------
(***************************************************************************)
(* GoJS keeps its types, references keep their meaning, the guest never     *)
(* runs with the lock held, and every call keeps an event of its own: for   *)
(* every number of slots, ids and nested calls, and every set of callbacks, *)
(* properties, methods, indices and exit codes.                             *)
(*                                                                          *)
(* The inductive invariant IInv has a part for the table of values and what *)
(* guest memory holds of it (Table), one for the objects (Heap) and one for *)
(* the runs (Runs).  A reference is safe because its id is below nextID,    *)
(* where no store writes again, or is one of the seven that goState begins  *)
(* with; and because a value has only one reference without an id, which    *)
(* the types alone do not say (Proper).                                     *)
(***************************************************************************)
EXTENDS GoJS, SequenceTheorems, TLAPS

\* Values that occur: the constants have no payload, and objects and arrays exist.
Proper ==
    {v \in Values :
        /\ v.kind \in {"nil", "undefined", "null", "nan"} => v.of = 0
        /\ v.kind = "boolean" => v.of \in {0, 1}
        /\ v.kind = "object" => v.of \in Objects
        /\ v.kind = "array" => v.of \in 1..CallBound}

Ids == 0..(IdBound - 1)

\* What newGoState puts under the ids that stores use for constants.
Predefined ==
    /\ values[0] = NaN /\ values[1] = Number(0) /\ values[2] = Null
    /\ values[3] = Boolean(1) /\ values[4] = Boolean(0)

\* References in guest memory name ids that have been given out.
RefsBelow == \A s \in Slot : memory[s].tag = "id" => memory[s].n \in 0..(nextID - 1)

Table ==
    /\ values \in [Ids -> Proper] /\ nextID \in 7..IdBound
    /\ memory \in [Slot -> Refs] /\ meant \in [Slot -> Proper]
    /\ Predefined /\ RefsBelow /\ RefsKeepMeaning

Heap ==
    /\ fields \in [Objects -> [Prop -> Proper]]
    /\ elements \in [1..CallBound -> Seq(Proper)]

Frame == [call : 1..CallBound, callback : Int,
          phase : {"fresh", "taken", "free"}, dst : Slot]

Runs ==
    /\ mu \in BOOLEAN
    /\ frames \in Seq(Frame)
    /\ calls \in 0..CallBound
    /\ status \in {"running", "unwinding", "done"}
    /\ err \in ExitCode \cup {Trap, None}

\* The calls on the stack are among those made so far: the next one's event is
\* none of theirs.
CallsBegun == \A i \in 1..Len(frames) : frames[i].call <= calls

IInv == Table /\ Heap /\ Runs /\ CallsBegun /\ LockFreeForGuest /\ EventsStayOwn

-----------------------------------------------------------------------------
(* Values *)

LEMMA ProperValues ==
    /\ Absent \in Proper /\ Undefined \in Proper /\ Null \in Proper /\ NaN \in Proper
    /\ \A n \in Int : {Number(n), String(n), Bytes(n), Function(n)} \subseteq Proper
    /\ \A n \in {0, 1} : Boolean(n) \in Proper
    /\ \A o \in Objects : Object(o) \in Proper
    /\ \A n \in 1..CallBound : Array(n) \in Proper
<1>1. /\ Absent \in Proper /\ Undefined \in Proper /\ Null \in Proper /\ NaN \in Proper
      /\ \A n \in {0, 1} : Boolean(n) \in Proper
  BY DEF Proper, Values, Kinds, Value, Absent, Undefined, Null, NaN, Boolean
<1>2. \A n \in Int : {Number(n), String(n), Bytes(n), Function(n)} \subseteq Proper
  BY DEF Proper, Values, Kinds, Value, Number, String, Bytes, Function
<1>3. \A o \in Objects : Object(o) \in Proper
  BY DEF Proper, Values, Kinds, Value, Object, Objects, Event
<1>4. \A n \in 1..CallBound : Array(n) \in Proper
  BY DEF Proper, Values, Kinds, Value, Array
<1> QED
  BY <1>1, <1>2, <1>3, <1>4

\* The objects of newGoState, and one for each event, are told apart.
LEMMA ObjectIds ==
    /\ CallBound \in Nat
    /\ GlobalObject \in Objects /\ GoObject \in Objects /\ FsObject \in Objects
    /\ \A n \in 1..CallBound : Event(n) \in Objects /\ Event(n) # GoObject
    /\ \A m, n \in 1..CallBound : Event(m) = Event(n) => m = n
  BY GoAssumption DEF GlobalObject, GoObject, FsObject, Objects, Event

LEMMA PropNames ==
    /\ {"fs", "Uint8Array", "_makeFuncWrapper", "_pendingEvent", "write", "open",
        "id", "args"} \subseteq Prop
    /\ GetProp \subseteq Prop /\ SetProp \subseteq Prop /\ Method \subseteq Prop
  BY DEF Prop

\* Host functions are no values of another kind.
LEMMA FunctionValues ==
    /\ MakeFuncWrapper \in Proper /\ Uint8Array \in Proper
    /\ Unsupported \in Proper /\ FsWrite \in Proper
  BY ProperValues DEF MakeFuncWrapper, Uint8Array, Unsupported, FsWrite

-----------------------------------------------------------------------------
(* The table: loadValue and storeValue *)

\* What a reference stands for is a value that exists.
LEMMA LoadProper ==
    ASSUME Table, NEW r \in Refs
    PROVE  Load(r) \in Proper
<1>1. CASE r.tag = "undefined"
  BY <1>1, ProperValues DEF Load
<1>2. CASE r.tag = "number"
  BY <1>2, ProperValues DEF Load, Refs
<1>3. CASE r.tag = "id"
  BY <1>3, ProperValues DEF Load, Table, Ids
<1> QED
  BY <1>1, <1>2, <1>3 DEF Refs

LEMMA IdBoundType == IdBound \in Nat /\ IdBound >= 7
  BY GoAssumption

\* A reference is a number, eight zero bytes, or an id below nextID.
LEMMA RefToType ==
    ASSUME Table, NEW v \in Proper
    PROVE  RefTo(v) \in Refs
<1>1. v.of \in Int /\ v.kind \in Kinds /\ nextID \in Int
  BY DEF Proper, Values, Table
<1>2. TypeFlag(v) \in {0, 1, 2, 4}
  BY DEF TypeFlag
<1>3. NoRef \in Refs /\ NullRef \in Refs /\ Ref(0, 0) \in Refs /\ Ref(1, 0) \in Refs
      /\ Ref(3, 0) \in Refs /\ Ref(4, 0) \in Refs
  BY DEF NoRef, NullRef, Ref, Tagged, Refs
<1>4. Plain(v.of) \in Refs /\ Ref(nextID, TypeFlag(v)) \in Refs
  BY <1>1, <1>2 DEF Plain, Ref, Tagged, Refs
<1> QED
  BY <1>1, <1>3, <1>4 DEF RefTo

\* storeValue puts a new value where nobody refers to.
LEMMA NewValueStored ==
    ASSUME Table, NEW s \in Slot, NEW v \in Proper, StoreValue(s, v), IsNew(v)
    PROVE  /\ nextID \in Ids /\ nextID >= 7 /\ nextID' = nextID + 1
           /\ values' = [values EXCEPT ![nextID] = v]
           /\ RefTo(v) = Ref(nextID, TypeFlag(v))
           /\ v # Absent
<1>1. nextID \in 7..IdBound /\ nextID + 1 <= IdBound
  BY DEF Table, StoreValue, NextAfter
<1>2. nextID \in Ids /\ nextID >= 7
  BY <1>1, IdBoundType DEF Ids
<1>3. RefTo(v) = Ref(nextID, TypeFlag(v)) /\ v # Absent
  BY DEF IsNew, RefTo, Absent, Value
<1> QED
  BY <1>2, <1>3 DEF StoreValue, NextAfter

\* The values that need no id are told by their references.
LEMMA ConstantLoads ==
    ASSUME Table, NEW v \in Proper, ~IsNew(v)
    PROVE  /\ Load(RefTo(v)) = IF v = Absent THEN Undefined ELSE v
           /\ RefTo(v).tag = "id" => RefTo(v).n \in 0..4
<1>1. /\ v.kind \in {"nil", "undefined", "null", "nan", "number", "boolean"}
      /\ v.of \in Int /\ v = Value(v.kind, v.of)
  BY DEF Proper, Values, Kinds, IsNew, Value
<1>2. /\ v.kind \in {"nil", "undefined", "null", "nan"} => v.of = 0
      /\ v.kind = "boolean" => v.of \in {0, 1}
  BY DEF Proper
<1>3. \A n \in 0..4 : n \in 0..(IdBound - 1)
  BY IdBoundType
<1>4. CASE v.kind \in {"nil", "undefined"}
  BY <1>1, <1>2, <1>4
  DEF RefTo, NoRef, Tagged, Load, Absent, Undefined, Value
<1>5. CASE v.kind = "number" /\ v.of # 0
  BY <1>1, <1>5 DEF RefTo, Plain, Tagged, Load, Number, Absent, Value
<1>6. CASE v.kind = "number" /\ v.of = 0
  BY <1>1, <1>3, <1>6
  DEF RefTo, Ref, Tagged, Load, Number, Absent, Value, Table, Predefined
<1>7. CASE v.kind = "nan"
  BY <1>1, <1>2, <1>3, <1>7
  DEF RefTo, Ref, Tagged, Load, NaN, Absent, Value, Table, Predefined
<1>8. CASE v.kind = "null"
  BY <1>1, <1>2, <1>3, <1>8
  DEF RefTo, NullRef, Ref, Tagged, Load, Null, Absent, Value, Table, Predefined
<1>9. CASE v.kind = "boolean"
  BY <1>1, <1>2, <1>3, <1>9
  DEF RefTo, Ref, Tagged, Load, Boolean, Absent, Value, Table, Predefined
<1> QED
  BY <1>1, <1>4, <1>5, <1>6, <1>7, <1>8, <1>9

\* What every store keeps.
LEMMA StoreKeepsTable ==
    ASSUME Table, NEW s \in Slot, NEW v \in Proper, StoreValue(s, v)
    PROVE  Table'
<1> DEFINE m == IF v = Absent THEN Undefined ELSE v
<1>1. /\ memory' = [memory EXCEPT ![s] = RefTo(v)] /\ meant' = [meant EXCEPT ![s] = m]
      /\ RefTo(v) \in Refs /\ m \in Proper
  BY RefToType, ProperValues DEF StoreValue
<1>2. /\ memory' \in [Slot -> Refs] /\ meant' \in [Slot -> Proper]
      /\ memory'[s] = RefTo(v) /\ meant'[s] = m
      /\ \A t \in Slot \ {s} : memory'[t] = memory[t] /\ meant'[t] = meant[t]
  <2> HIDE DEF m
  <2> QED
    BY <1>1 DEF Table
<1>3. CASE IsNew(v)
  <2>1. /\ nextID \in Ids /\ nextID >= 7 /\ nextID' = nextID + 1
        /\ values' = [values EXCEPT ![nextID] = v]
        /\ RefTo(v) = Ref(nextID, TypeFlag(v)) /\ m = v
    BY <1>3, NewValueStored
  <2>2. /\ values' \in [Ids -> Proper] /\ nextID' \in 7..IdBound
        /\ values'[nextID] = v
        /\ \A n \in Ids : n # nextID => values'[n] = values[n]
    BY <2>1, IdBoundType DEF Table, Ids
  <2>3. Predefined'
    BY <2>1, <2>2, IdBoundType DEF Table, Predefined, Ids
  <2>4. ASSUME NEW t \in Slot
        PROVE  /\ memory'[t].tag = "id" => memory'[t].n \in 0..nextID
               /\ Load(memory[t])' = meant'[t]
    <3>1. CASE t = s
      <4>1. memory'[t] = Tagged("id", nextID, TypeFlag(v)) /\ meant'[t] = v
        BY <1>2, <2>1, <3>1 DEF Ref
      <4>2. memory'[t].tag = "id" /\ memory'[t].n = nextID
        BY <4>1 DEF Tagged
      <4>3. nextID \in 0..nextID
        BY <2>1, IdBoundType DEF Ids
      <4> QED
        BY <2>1, <2>2, <4>1, <4>2, <4>3 DEF Load, Ids
    <3>2. CASE t # s
      <4>1. memory'[t] = memory[t] /\ meant'[t] = meant[t] /\ memory[t] \in Refs
        BY <1>2, <3>2 DEF Table
      <4>2. memory[t].tag = "id" => memory[t].n \in 0..(nextID - 1)
        BY DEF Table, RefsBelow
      <4>3. nextID \in Nat /\ IdBound \in Nat /\ nextID <= IdBound
        BY <2>1, IdBoundType DEF Ids
      <4>4. memory[t].tag = "id" => /\ memory[t].n \in Ids /\ memory[t].n # nextID
                                    /\ memory[t].n \in 0..nextID
        BY <4>2, <4>3 DEF Ids
      <4>5. Load(memory[t])' = Load(memory[t])
        BY <2>2, <4>1, <4>4 DEF Load, Ids
      <4> QED
        BY <4>1, <4>4, <4>5 DEF Table, RefsKeepMeaning
    <3> QED
      BY <3>1, <3>2
  <2>5. RefsBelow'
    <3>1. nextID' - 1 = nextID
      BY <2>1, IdBoundType DEF Ids
    <3> QED
      BY <2>4, <3>1 DEF RefsBelow
  <2>6. RefsKeepMeaning'
    BY <2>4 DEF RefsKeepMeaning
  <2> QED
    BY <1>2, <2>2, <2>3, <2>5, <2>6 DEF Table
<1>4. CASE ~IsNew(v)
  <2>1. values' = values /\ nextID' = nextID
    BY <1>4 DEF StoreValue, NextAfter
  <2>2. Load(RefTo(v)) = m /\ (RefTo(v).tag = "id" => RefTo(v).n \in 0..4)
    BY <1>4, ConstantLoads
  <2>3. nextID \in Nat /\ nextID >= 7
    BY IdBoundType DEF Table
  <2>4. ASSUME NEW t \in Slot
        PROVE  /\ memory'[t].tag = "id" => memory'[t].n \in 0..(nextID - 1)
               /\ Load(memory'[t]) = meant'[t]
    <3>1. CASE t = s
      BY <1>2, <2>2, <2>3, <3>1
    <3>2. CASE t # s
      BY <1>2, <3>2 DEF Table, RefsBelow, RefsKeepMeaning
    <3> QED
      BY <3>1, <3>2
  <2>5. RefsBelow'
    BY <2>1, <2>4 DEF RefsBelow
  <2>6. RefsKeepMeaning'
    BY <2>1, <2>4 DEF RefsKeepMeaning, Load
  <2>7. Predefined'
    BY <2>1 DEF Table, Predefined
  <2> QED
    BY <1>2, <2>1, <2>5, <2>6, <2>7 DEF Table
<1> QED
  BY <1>3, <1>4

LEMMA SameTable ==
    ASSUME Table, UNCHANGED <<values, nextID, guest>>
    PROVE  Table'
  BY DEF Table, Predefined, RefsBelow, RefsKeepMeaning, Load, guest

-----------------------------------------------------------------------------
(* What host calls read and answer *)

LEMMA HeldRefs == ASSUME Table PROVE Fetched \subseteq Refs /\ Held \subseteq Refs
<1>1. NullRef \in Refs /\ GlobalRef \in Refs /\ GoRef \in Refs
  BY DEF NullRef, GlobalRef, GoRef, Ref, Tagged, Refs
<1> QED
  BY <1>1 DEF Table, Fetched, Held

\* The references that the guest has without fetching them.
LEMMA ConstantRefs ==
    /\ NullRef \in Refs /\ GlobalRef \in Refs /\ GoRef \in Refs
    /\ \A n \in Int : Plain(n) \in Refs
  BY DEF NullRef, GlobalRef, GoRef, Plain, Ref, Tagged, Refs

\* A property of an object that exists is a value that exists.
LEMMA MethodProper ==
    ASSUME Heap, NEW v \in Proper, NEW p \in Prop
    PROVE  MethodOf(v, p) \in Proper
<1>1. v.kind = "object" => v.of \in Objects
  BY DEF Proper
<1> QED
  BY <1>1, ProperValues DEF Heap, MethodOf

LEMMA IndexedProper ==
    ASSUME Heap, NEW v \in Proper, NEW i \in Int, NEW u \in Indexed(v, i)
    PROVE  u \in Proper
<1>1. /\ v.kind = "array" => elements[v.of] \in Seq(Proper)
      /\ Text \subseteq Int
  BY GoAssumption DEF Heap, Proper
<1>2. CASE v.kind = "array"
  <2>1. u = IF i + 1 \in DOMAIN elements[v.of] THEN elements[v.of][i + 1] ELSE Absent
    BY <1>2 DEF Indexed
  <2> DEFINE list == elements[v.of]
  <2>2. list \in Seq(Proper) /\ \A j \in DOMAIN list : list[j] \in Proper
    BY <1>1, <1>2, ElementOfSeq
  <2> QED
    BY <2>1, <2>2, ProperValues
<1>3. CASE v.kind = "bytes"
  BY <1>3, ProperValues DEF Indexed
<1>4. CASE v.kind = "string"
  BY <1>1, <1>4, ProperValues DEF Indexed
<1>5. CASE v.kind \notin {"array", "bytes", "string"}
  BY <1>5, ProperValues DEF Indexed
<1> QED
  BY <1>2, <1>3, <1>4, <1>5

LEMMA ResultProper ==
    ASSUME Table, NEW f, NEW arg \in Proper, NEW u \in Result(f, arg)
    PROVE  u \in Proper
<1>1. arg.of \in Int /\ nextID \in Int /\ Text \subseteq Int
  BY GoAssumption DEF Proper, Values, Table
<1>2. \/ u = Function(IF arg.kind = "number" THEN arg.of ELSE 0)
      \/ u = Bytes(nextID) \/ u = Undefined
      \/ \E t \in Text : u = String(t)
  BY DEF Result
<1> QED
  BY <1>1, <1>2, ProperValues

\* The objects with the properties they are made with.
LEMMA HavingProper ==
    ASSUME NEW f, \A p \in DOMAIN f : f[p] \in Proper
    PROVE  Having(f) \in [Prop -> Proper]
  BY ProperValues DEF Having

-----------------------------------------------------------------------------
(* Host calls *)

\* A host call that stores a value and touches nothing else.
LEMMA Stores ==
    ASSUME IInv, NEW s \in Slot, NEW v \in Proper, StoreValue(s, v),
           UNCHANGED <<mu, fields, elements, control>>
    PROVE  IInv'
<1>1. Table'
  BY StoreKeepsTable DEF IInv
<1> QED
  BY <1>1 DEF IInv, Heap, Runs, CallsBegun, LockFreeForGuest, EventsStayOwn, control

\* Every event keeps the two properties that tell whose it is.
EventsKept ==
    \A n \in 1..CallBound : \A q \in {"id", "args"} :
        fields'[Event(n)][q] = fields[Event(n)][q]

\* The runs on the stack are those that were there, without some of the last.
SameCalls ==
    /\ frames' \in Seq(Frame)
    /\ \A i \in 1..Len(frames') :
          /\ i \in 1..Len(frames)
          /\ frames'[i].call = frames[i].call
          /\ frames'[i].callback = frames[i].callback

LEMMA StayOwn ==
    ASSUME IInv, EventsKept, SameCalls, calls' = calls
    PROVE  CallsBegun' /\ EventsStayOwn'
<1>1. \A i \in 1..Len(frames) : frames[i].call \in 1..CallBound
  <2>1. frames \in Seq(Frame)
    BY DEF IInv, Runs
  <2>2. \A i \in 1..Len(frames) : frames[i] \in Frame
    BY <2>1, ElementOfSeq
  <2> QED
    BY <2>2 DEF Frame
<1>2. CallsBegun'
  BY DEF IInv, CallsBegun, SameCalls
<1>3. ASSUME NEW i \in 1..Len(frames')
      PROVE  /\ fields'[Event(frames'[i].call)]["id"] = Number(frames'[i].callback)
             /\ fields'[Event(frames'[i].call)]["args"] = Array(frames'[i].call)
  <2>1. /\ i \in 1..Len(frames) /\ frames'[i].call = frames[i].call
        /\ frames'[i].callback = frames[i].callback
    BY <1>3 DEF SameCalls
  <2>2. /\ fields[Event(frames[i].call)]["id"] = Number(frames[i].callback)
        /\ fields[Event(frames[i].call)]["args"] = Array(frames[i].call)
    BY <2>1 DEF IInv, EventsStayOwn
  <2> QED
    BY <1>1, <2>1, <2>2 DEF EventsKept
<1> QED
  BY <1>2, <1>3 DEF EventsStayOwn, Number, Array, Value, Event

LEMMA ValueGetStores ==
    ASSUME IInv, NEW r \in Refs, NEW p \in Prop, NEW dst \in Slot, ValueGet(r, p, dst)
    PROVE  /\ StoreValue(dst, MethodOf(Load(r), p)) /\ MethodOf(Load(r), p) \in Proper
           /\ UNCHANGED <<mu, fields, elements>>
<1>1. Load(r) \in Proper
  BY LoadProper DEF IInv
<1> QED
  BY <1>1, MethodProper DEF IInv, ValueGet, MethodOf

LEMMA ValueSetKeepsHeap ==
    ASSUME Table, Heap, NEW r \in Refs, NEW p, NEW v \in Refs, ValueSet(r, p, v)
    PROVE  Table' /\ Heap'
<1>1. Table'
  BY SameTable DEF ValueSet
<1>2. Load(r) \in Proper /\ Load(v) \in Proper
  BY LoadProper
<1>3. /\ fields' = IF Load(r).kind = "object"
                   THEN [fields EXCEPT ![Load(r).of][p] = Load(v)] ELSE fields
      /\ elements' = elements
  BY DEF ValueSet
<1>4. fields' \in [Objects -> [Prop -> Proper]]
  BY <1>2, <1>3 DEF Heap
<1> QED
  BY <1>1, <1>3, <1>4 DEF Heap

LEMMA ValueSetKeepsEvents ==
    ASSUME Table, Heap, NEW r \in Refs, NEW p \in Prop \ {"id", "args"},
           NEW v \in Refs, ValueSet(r, p, v)
    PROVE  EventsKept
<1>1. Load(r) \in Proper
  BY LoadProper
<1>2. fields' = IF Load(r).kind = "object"
                THEN [fields EXCEPT ![Load(r).of][p] = Load(v)] ELSE fields
  BY DEF ValueSet
<1>3. \A o \in Objects, q \in Prop \ {p} : fields'[o][q] = fields[o][q]
  BY <1>1, <1>2 DEF Heap
<1>4. \A q \in {"id", "args"} : q \in Prop \ {p}
  BY PropNames
<1> QED
  BY <1>3, <1>4, ObjectIds DEF EventsKept

LEMMA ValueSetIndexKeepsHeap ==
    ASSUME Table, Heap, NEW r \in Refs, NEW i \in Int, NEW v \in Refs,
           ValueSetIndex(r, i, v)
    PROVE  Table' /\ Heap'
<1>1. Table'
  BY SameTable DEF ValueSetIndex
<1>2. Load(v) \in Proper
  BY LoadProper
<1> DEFINE a == Load(r)
           list == elements[a.of]
<1>3. CASE a.kind = "array" /\ i + 1 \in DOMAIN elements[a.of]
  <2>1. elements' = [elements EXCEPT ![a.of][i + 1] = Load(v)]
    BY <1>3 DEF ValueSetIndex
  <2>2. a.of \in 1..CallBound
    <3>1. a \in Proper
      BY LoadProper
    <3> QED
      BY <1>3, <3>1 DEF Proper
  <2>3. list \in Seq(Proper) /\ [list EXCEPT ![i + 1] = Load(v)] \in Seq(Proper)
    <3>1. list \in Seq(Proper) /\ i + 1 \in 1..Len(list)
      BY <1>3, <2>2 DEF Heap
    <3> HIDE DEF list
    <3> QED
      BY <1>2, <3>1, ExceptSeq
  <2> HIDE DEF a
  <2>4. elements' \in [1..CallBound -> Seq(Proper)]
    BY <2>1, <2>2, <2>3 DEF Heap
  <2> QED
    BY <1>1, <2>4 DEF Heap, ValueSetIndex
<1>4. CASE ~(a.kind = "array" /\ i + 1 \in DOMAIN elements[a.of])
  BY <1>1, <1>4 DEF ValueSetIndex, Heap
<1> QED
  BY <1>3, <1>4

LEMMA SameRuns ==
    ASSUME IInv, UNCHANGED control
    PROVE  SameCalls /\ calls' = calls
  BY DEF IInv, Runs, SameCalls, control

LEMMA HostCallKeeps == ASSUME IInv, HostCall PROVE IInv'
<1>1. /\ Running /\ UNCHANGED control /\ Table /\ Heap
      /\ Fetched \subseteq Refs /\ Held \subseteq Refs
  BY HeldRefs DEF HostCall, IInv
<1>2. PICK dst \in Slot :
          \/ \E t \in Text : StringVal(dst, t)
          \/ PrepareString(dst)
          \/ \E r \in Held :
                \/ \E p \in GetProp : ValueGet(r, p, dst)
                \/ \E i \in Index : ValueIndex(r, i, dst)
                \/ \E c \in Callback : ValueNew(r, Plain(c), dst)
                \/ \E c \in Callback, p \in Method : ValueCall(r, p, Plain(c), dst)
          \/ \E r \in Fetched, v \in Written :
                \/ \E p \in SetProp : ValueSet(r, p, v)
                \/ \E i \in Index : ValueSetIndex(r, i, v)
  BY DEF HostCall
<1>3. CASE \E t \in Text : StringVal(dst, t)
  <2>1. PICK t \in Text : StringVal(dst, t)
    BY <1>3
  <2>2. String(t) \in Proper
    BY GoAssumption, ProperValues
  <2> QED
    BY <1>1, <2>1, <2>2, Stores DEF StringVal
<1>4. CASE PrepareString(dst)
  <2>1. Bytes(nextID) \in Proper
    BY <1>1, ProperValues DEF Table
  <2> QED
    BY <1>1, <1>4, <2>1, Stores DEF PrepareString
<1>5. ASSUME NEW r \in Held, NEW p \in GetProp, ValueGet(r, p, dst) PROVE IInv'
  <2>1. r \in Refs /\ p \in Prop
    BY <1>1, PropNames
  <2> QED
    BY <1>1, <1>5, <2>1, ValueGetStores, Stores
<1>6. ASSUME NEW r \in Held, NEW i \in Index, ValueIndex(r, i, dst) PROVE IInv'
  <2>1. Load(r) \in Proper /\ i \in Int
    BY <1>1, LoadProper, ArgAssumption
  <2>2. PICK u \in Indexed(Load(r), i) : StoreValue(dst, u)
    BY <1>6 DEF ValueIndex
  <2>3. u \in Proper
    BY <1>1, <2>1, <2>2, IndexedProper
  <2> QED
    BY <1>1, <1>6, <2>2, <2>3, Stores DEF ValueIndex
<1>7. \A c \in Callback : Load(Plain(c)) \in Proper
  BY <1>1, GoAssumption, ConstantRefs, LoadProper
<1>8. ASSUME NEW r \in Held, NEW c \in Callback, ValueNew(r, Plain(c), dst) PROVE IInv'
  <2>1. PICK u \in Result(Load(r), Load(Plain(c))) : StoreValue(dst, u)
    BY <1>8 DEF ValueNew
  <2>2. u \in Proper
    BY <1>1, <1>7, <2>1, ResultProper
  <2> QED
    BY <1>1, <1>8, <2>1, <2>2, Stores DEF ValueNew
<1>9. ASSUME NEW r \in Held, NEW c \in Callback, NEW p \in Method,
             ValueCall(r, p, Plain(c), dst)
      PROVE  IInv'
  <2>1. PICK u \in Result(MethodOf(Load(r), p), Load(Plain(c))) : StoreValue(dst, u)
    BY <1>9 DEF ValueCall
  <2>2. u \in Proper
    BY <1>1, <1>7, <2>1, ResultProper
  <2> QED
    BY <1>1, <1>9, <2>1, <2>2, Stores DEF ValueCall
<1>10. ASSUME NEW r \in Fetched, NEW v \in Written, NEW p \in SetProp, ValueSet(r, p, v)
       PROVE  IInv'
  <2>1. Table' /\ Heap'
    BY <1>1, <1>10, ArgAssumption, ValueSetKeepsHeap
  <2>2. mu' = mu
    BY <1>10 DEF ValueSet
  <2>3. p \in Prop \ {"id", "args"} /\ r \in Refs /\ v \in Refs
    BY <1>1, PropNames, SetPropAssumption, ArgAssumption
  <2>4. EventsKept
    BY <1>1, <1>10, <2>3, ValueSetKeepsEvents
  <2>5. CallsBegun' /\ EventsStayOwn'
    BY <1>1, <2>4, SameRuns, StayOwn
  <2> QED
    BY <1>1, <2>1, <2>2, <2>5 DEF IInv, Runs, LockFreeForGuest, control
<1>11. ASSUME NEW r \in Fetched, NEW v \in Written, NEW i \in Index,
              ValueSetIndex(r, i, v)
       PROVE  IInv'
  <2>1. Table' /\ Heap'
    BY <1>1, <1>11, ArgAssumption, ValueSetIndexKeepsHeap
  <2>2. mu' = mu /\ fields' = fields
    BY <1>11 DEF ValueSetIndex
  <2> QED
    BY <1>1, <2>1, <2>2
    DEF IInv, Runs, CallsBegun, LockFreeForGuest, EventsStayOwn, control
<1> QED
  BY <1>2, <1>3, <1>4, <1>5, <1>6, <1>8, <1>9, <1>10, <1>11

-----------------------------------------------------------------------------
(* Re-entry *)

LEMMA TopFrame ==
    ASSUME Runs, frames # << >>
    PROVE  /\ Len(frames) \in Nat \ {0} /\ Top \in Frame /\ Top = frames[Len(frames)]
           /\ Popped \in Seq(Frame) /\ Len(Popped) = Len(frames) - 1
           /\ \A i \in 1..Len(Popped) : Popped[i] = frames[i]
<1>1. frames \in Seq(Frame)
  BY DEF Runs
<1> HIDE DEF Frame
<1>2. Len(frames) \in Nat \ {0}
  BY <1>1, EmptySeq
<1>3. Top = frames[Len(frames)] /\ Top \in Frame
  BY <1>1, <1>2, ElementOfSeq DEF Top
<1>4. /\ Popped \in Seq(Frame) /\ Len(Popped) = Len(frames) - 1
      /\ \A i \in 1..Len(Popped) : Popped[i] = frames[i]
  <2> DEFINE n == Len(frames) - 1
  <2>1. n \in Nat /\ \A i \in 1..n : i \in 1..Len(frames)
    BY <1>2
  <2>2. \A i \in 1..n : frames[i] \in Frame
    BY <1>1, <2>1, ElementOfSeq
  <2>3. Popped = SubSeq(frames, 1, n)
    BY DEF Popped
  <2> HIDE DEF n
  <2>4. /\ SubSeq(frames, 1, n) \in Seq(Frame)
        /\ Len(SubSeq(frames, 1, n)) = IF 1 <= n THEN n - 1 + 1 ELSE 0
        /\ \A i \in 1..(n - 1 + 1) : SubSeq(frames, 1, n)[i] = frames[1 + i - 1]
    BY <2>1, <2>2, SubSeqProperties
  <2>5. Popped \in Seq(Frame) /\ Len(Popped) = n /\ \A i \in 1..n : Popped[i] = frames[i]
    BY <2>1, <2>3, <2>4
  <2> QED
    BY <2>5 DEF n
<1> QED
  BY <1>2, <1>3, <1>4

LEMMA PoppedCalls ==
    ASSUME IInv, frames # << >>, frames' = Popped
    PROVE  SameCalls
<1>1. Runs
  BY DEF IInv
<1>2. /\ Len(frames) \in Nat /\ frames' \in Seq(Frame)
      /\ Len(frames') = Len(frames) - 1
      /\ \A i \in 1..Len(frames') : frames'[i] = frames[i]
  BY <1>1, TopFrame
<1>3. \A i \in 1..Len(frames') : i \in 1..Len(frames)
  BY <1>2
<1> QED
  BY <1>2, <1>3 DEF SameCalls

\* The top run goes on to the next phase.
LEMMA PhaseMoves ==
    ASSUME IInv, frames # << >>, NEW ph \in {"taken", "free"},
           frames' = [frames EXCEPT ![Len(frames)].phase = ph]
    PROVE  SameCalls
<1>1. Runs /\ frames \in Seq(Frame)
  BY DEF IInv, Runs
<1> DEFINE n == Len(frames)
           f == [frames[n] EXCEPT !.phase = ph]
<1>2. n \in Nat \ {0} /\ frames[n] \in Frame
  BY <1>1, TopFrame
<1>3. f \in Frame /\ f.call = frames[n].call /\ f.callback = frames[n].callback
  BY <1>2 DEF Frame
<1>4. frames' = [frames EXCEPT ![n] = f]
  OBVIOUS
<1> HIDE DEF f, Frame
<1>5. frames' \in Seq(Frame) /\ Len(frames') = n
      /\ \A i \in 1..n : frames'[i] = IF i = n THEN f ELSE frames[i]
  BY <1>1, <1>2, <1>3, <1>4, ExceptSeq
<1> QED
  BY <1>3, <1>5 DEF SameCalls

LEMMA TakeEventKeeps ==
    ASSUME IInv, NEW dst \in Slot, TakeEvent(dst)
    PROVE  IInv'
<1>1. GoRef \in Refs /\ "_pendingEvent" \in Prop
  BY ConstantRefs, PropNames
<1>2. PICK u \in Proper : StoreValue(dst, u)
  BY <1>1, ValueGetStores DEF TakeEvent
<1>3. Table' /\ Heap' /\ mu' = mu /\ fields' = fields
  BY <1>1, <1>2, ValueGetStores, StoreKeepsTable DEF IInv, Heap, TakeEvent
<1>4. SameCalls /\ UNCHANGED <<calls, status, err>>
  BY PhaseMoves DEF TakeEvent
<1>5. CallsBegun' /\ EventsStayOwn'
  BY <1>3, <1>4, StayOwn DEF EventsKept
<1> QED
  BY <1>3, <1>4, <1>5 DEF IInv, Runs, SameCalls, LockFreeForGuest

LEMMA ClearEventKeeps == ASSUME IInv, ClearEvent PROVE IInv'
<1>1. Table' /\ Heap' /\ mu' = mu
  BY ConstantRefs, ValueSetKeepsHeap DEF IInv, ClearEvent, ValueSet
<1>2. SameCalls /\ UNCHANGED <<calls, status, err>>
  BY PhaseMoves DEF ClearEvent
<1>3. EventsKept
  <2>1. "_pendingEvent" \in Prop \ {"id", "args"} /\ GoRef \in Refs /\ NullRef \in Refs
    BY PropNames, ConstantRefs
  <2>2. ValueSet(GoRef, "_pendingEvent", NullRef) /\ Table /\ Heap
    BY DEF ClearEvent, IInv
  <2> QED
    BY <2>1, <2>2, ValueSetKeepsEvents
<1>4. CallsBegun' /\ EventsStayOwn'
  BY <1>2, <1>3, StayOwn
<1> QED
  BY <1>1, <1>2, <1>4 DEF IInv, Runs, SameCalls, LockFreeForGuest

\* What goAsyncFSCall writes before it resumes the guest: an event of its own.
LEMMA FsCallWrites ==
    ASSUME IInv, NEW r \in Refs, NEW p, NEW arg \in Refs, NEW dst \in Slot,
           FsCall(r, p, arg, dst)
    PROVE  /\ calls \in Nat /\ calls' = calls + 1 /\ calls' \in 1..CallBound /\ Heap'
           /\ Load(arg).of \in Int
           /\ fields'[Event(calls')]["id"] = Number(Load(arg).of)
           /\ fields'[Event(calls')]["args"] = Array(calls')
           /\ \A m \in 1..calls : fields'[Event(m)] = fields[Event(m)]
<1> DEFINE n == calls'
           o == Event(n)
           new == Having([id |-> Number(Load(arg).of), args |-> Array(n)])
<1>1. n \in 1..CallBound /\ n = calls + 1 /\ calls \in Nat
  BY ObjectIds DEF IInv, Runs, FsCall
<1>2. /\ o \in Objects /\ o # GoObject /\ GoObject \in Objects
      /\ Object(o) \in Proper /\ Array(n) \in Proper
  BY <1>1, ObjectIds, ProperValues
<1>3. Load(arg).of \in Int
  <2>1. Load(arg) \in Proper
    BY LoadProper DEF IInv
  <2> QED
    BY <2>1 DEF Proper, Values
<1>4. /\ new \in [Prop -> Proper]
      /\ new["id"] = Number(Load(arg).of) /\ new["args"] = Array(n)
  <2>1. Number(Load(arg).of) \in Proper
    BY <1>3, ProperValues
  <2> DEFINE f == [id |-> Number(Load(arg).of), args |-> Array(n)]
  <2>2. \A q \in DOMAIN f : f[q] \in Proper
    BY <1>2, <2>1
  <2>3. new \in [Prop -> Proper]
    BY <2>2, HavingProper
  <2>4. /\ "id" \in DOMAIN f /\ "id" \in Prop /\ f["id"] = Number(Load(arg).of)
        /\ "args" \in DOMAIN f /\ "args" \in Prop /\ f["args"] = Array(n)
    BY PropNames
  <2> HIDE DEF f
  <2>5. Having(f)["id"] = Number(Load(arg).of) /\ Having(f)["args"] = Array(n)
    BY <2>4 DEF Having
  <2> QED
    BY <2>3, <2>5 DEF f
<1>5. PICK count \in Count : elements' = [elements EXCEPT ![n] = <<Null, Number(count)>>]
  BY DEF FsCall
<1>6. <<Null, Number(count)>> \in Seq(Proper)
  BY GoAssumption, ProperValues
<1>7. elements' \in [1..CallBound -> Seq(Proper)]
  BY <1>1, <1>5, <1>6 DEF IInv, Heap
<1>8. fields' = [fields EXCEPT ![o] = new, ![GoObject]["_pendingEvent"] = Object(o)]
  BY DEF FsCall
<1>9. "_pendingEvent" \in Prop /\ fields \in [Objects -> [Prop -> Proper]]
  BY PropNames DEF IInv, Heap
<1>10. \A m \in 1..calls : Event(m) \in Objects /\ Event(m) # o /\ Event(m) # GoObject
  <2>1. CallBound \in Nat
    BY GoAssumption
  <2>2. \A m \in 1..calls : m \in 1..CallBound /\ m # n
    <3> HIDE DEF n, o, new
    <3> QED
      BY <1>1, <2>1
  <2> QED
    BY <1>1, <2>2, ObjectIds
<1> HIDE DEF n, o, new
<1>11. /\ fields' \in [Objects -> [Prop -> Proper]]
       /\ fields'[o] = new
       /\ \A m \in 1..calls : fields'[Event(m)] = fields[Event(m)]
  BY <1>2, <1>4, <1>8, <1>9, <1>10
<1> QED
  BY <1>1, <1>3, <1>4, <1>7, <1>11 DEF n, o, Heap

LEMMA ReEnterKeeps == ASSUME IInv, ReEnter PROVE IInv'
<1>1. PICK dst \in Slot, r, arg \in Held : FsCall(r, "write", arg, dst)
  BY DEF ReEnter
<1>2. r \in Refs /\ arg \in Refs
  BY HeldRefs DEF IInv
<1>3. /\ calls \in Nat /\ calls' = calls + 1 /\ calls' \in 1..CallBound /\ Heap'
      /\ Load(arg).of \in Int
      /\ fields'[Event(calls')]["id"] = Number(Load(arg).of)
      /\ fields'[Event(calls')]["args"] = Array(calls')
      /\ \A m \in 1..calls : fields'[Event(m)] = fields[Event(m)]
  BY <1>1, <1>2, FsCallWrites
<1>4. Table' /\ UNCHANGED <<mu, status, err>>
  BY <1>1, SameTable DEF IInv, FsCall
<1> DEFINE c == Load(arg).of
           f == [call |-> calls', callback |-> c, phase |-> "fresh", dst |-> dst]
           n == Len(frames)
<1>5. f \in Frame /\ f.call = calls' /\ f.callback = c
  BY <1>3 DEF Frame
<1>6. frames' = Append(frames, f) /\ frames \in Seq(Frame)
  BY <1>1 DEF FsCall, IInv, Runs
<1>7. /\ frames' \in Seq(Frame) /\ n \in Nat /\ Len(frames') = n + 1
      /\ frames'[n + 1] = f /\ \A i \in 1..n : frames'[i] = frames[i]
  <2> HIDE DEF f, Frame
  <2> QED
    BY <1>5, <1>6, AppendProperties
<1>8. Runs' /\ LockFreeForGuest'
  <2>1. calls' \in 0..CallBound
    BY <1>3
  <2> QED
    BY <1>4, <1>7, <2>1 DEF IInv, Runs, LockFreeForGuest
<1>9. \A i \in 1..n : frames[i].call \in 1..calls
  <2>1. \A i \in 1..n : frames[i] \in Frame
    BY <1>6, ElementOfSeq
  <2>2. \A i \in 1..n : frames[i].call \in 1..CallBound /\ frames[i].call <= calls
    BY <2>1 DEF Frame, IInv, CallsBegun
  <2> QED
    BY <1>3, <2>2, ObjectIds
<1>10. ASSUME NEW i \in 1..Len(frames')
       PROVE  /\ frames'[i].call <= calls'
              /\ fields'[Event(frames'[i].call)]["id"] = Number(frames'[i].callback)
              /\ fields'[Event(frames'[i].call)]["args"] = Array(frames'[i].call)
  <2> HIDE DEF f, c, n
  <2>1. CASE i = n + 1
    <3>1. frames'[i].call = calls' /\ frames'[i].callback = c
      BY <1>5, <1>7, <2>1
    <3> QED
      BY <1>3, <3>1 DEF c
  <2>2. CASE i # n + 1
    <3>1. i \in 1..n /\ frames'[i] = frames[i] /\ frames[i].call \in 1..calls
      BY <1>7, <1>9, <1>10, <2>2
    <3>2. /\ fields[Event(frames[i].call)]["id"] = Number(frames[i].callback)
          /\ fields[Event(frames[i].call)]["args"] = Array(frames[i].call)
      BY <3>1 DEF IInv, EventsStayOwn, n
    <3>3. fields'[Event(frames[i].call)] = fields[Event(frames[i].call)]
      BY <1>3, <3>1
    <3>4. frames[i].call <= calls'
      BY <1>3, <3>1
    <3> QED
      BY <3>1, <3>2, <3>3, <3>4
  <2> QED
    BY <2>1, <2>2
<1>11. CallsBegun' /\ EventsStayOwn'
  BY <1>10 DEF CallsBegun, EventsStayOwn, Number, Array, Value, Event
<1> QED
  BY <1>3, <1>4, <1>8, <1>11 DEF IInv

LEMMA StopKeeps == ASSUME IInv, Stop PROVE IInv'
<1>1. /\ status' = "unwinding" /\ err' \in ExitCode
      /\ UNCHANGED <<host, guest, frames, calls>>
  BY DEF Stop, Exit
<1>2. Table'
  BY <1>1, SameTable DEF IInv, host
<1> QED
  BY <1>1, <1>2
  DEF IInv, Heap, Runs, CallsBegun, LockFreeForGuest, EventsStayOwn, host

LEMMA ResumeReturnsKeeps == ASSUME IInv, ResumeReturns PROVE IInv'
<1>1. Top.dst \in Slot /\ Undefined \in Proper
  BY TopFrame, ProperValues DEF IInv, ResumeReturns, Frame
<1>2. Table'
  BY <1>1, StoreKeepsTable DEF IInv, ResumeReturns
<1>3. SameCalls /\ UNCHANGED <<mu, fields, elements, calls, status, err>>
  BY PoppedCalls DEF ResumeReturns
<1>4. CallsBegun' /\ EventsStayOwn'
  BY <1>3, StayOwn DEF EventsKept
<1> QED
  BY <1>2, <1>3, <1>4 DEF IInv, Heap, Runs, SameCalls, LockFreeForGuest

LEMMA ResumeFailsKeeps == ASSUME IInv, ResumeFails PROVE IInv'
<1>1. Top.dst \in Slot /\ Undefined \in Proper
  BY TopFrame, ProperValues DEF IInv, ResumeFails, Frame
<1>2. Table'
  BY <1>1, StoreKeepsTable, SameTable DEF IInv, ResumeFails
<1>3. SameCalls /\ UNCHANGED <<fields, elements, calls>>
  BY PoppedCalls DEF ResumeFails
<1>4. mu' = (err # 0)
  BY DEF ResumeFails, HeldAfter
<1>5. CallsBegun' /\ EventsStayOwn'
  BY <1>3, StayOwn DEF EventsKept
<1>6. Heap' /\ Runs' /\ LockFreeForGuest'
  <2>1. CASE err = 0
    BY <1>3, <1>4, <2>1 DEF IInv, Heap, Runs, SameCalls, LockFreeForGuest, ResumeFails
  <2>2. CASE err # 0
    BY <1>3, <1>4, <2>2 DEF IInv, Heap, Runs, SameCalls, LockFreeForGuest, ResumeFails
  <2> QED
    BY <2>1, <2>2
<1> QED
  BY <1>2, <1>5, <1>6 DEF IInv

LEMMA RunEndsKeeps == ASSUME IInv, RunEnds PROVE IInv'
<1>1. Table'
  BY SameTable DEF IInv, RunEnds, host
<1> QED
  BY <1>1
  DEF IInv, Heap, Runs, CallsBegun, LockFreeForGuest, EventsStayOwn, RunEnds, host

-----------------------------------------------------------------------------
(* The invariant *)

LEMMA InitIInv == Init => IInv
<1> SUFFICES ASSUME Init PROVE IInv
  OBVIOUS
<1>1. IdBound \in Nat /\ IdBound >= 7
  BY IdBoundType
<1>2. /\ values[0] = NaN /\ values[1] = Number(0) /\ values[2] = Null
      /\ values[3] = Boolean(1) /\ values[4] = Boolean(0)
  BY <1>1 DEF Init
<1>3. values \in [Ids -> Proper]
  <2>1. \A i \in Ids : values[i] \in {NaN, Number(0), Null, Boolean(1), Boolean(0),
            Object(GlobalObject), Object(GoObject), Absent}
    BY DEF Init, Ids
  <2>2. {NaN, Number(0), Null, Boolean(1), Boolean(0), Object(GlobalObject),
         Object(GoObject), Absent} \subseteq Proper
    BY ProperValues, ObjectIds
  <2> QED
    BY <2>1, <2>2 DEF Init, Ids
<1>4. Table
  <2>1. NoRef \in Refs /\ NoRef.tag = "undefined" /\ Load(NoRef) = Undefined
    BY DEF NoRef, Tagged, Refs, Load
  <2>2. /\ memory = [s \in Slot |-> NoRef] /\ meant = [s \in Slot |-> Undefined]
        /\ nextID = 7
    BY DEF Init
  <2>3. RefsBelow /\ RefsKeepMeaning
    BY <2>1, <2>2 DEF RefsBelow, RefsKeepMeaning
  <2> QED
    BY <1>1, <1>2, <1>3, <2>1, <2>2, <2>3, ProperValues DEF Table, Predefined
<1>5. Heap
  <2>1. \A o \in Objects : fields[o] \in [Prop -> Proper]
    <3> DEFINE g == [fs |-> Object(FsObject), Uint8Array |-> Uint8Array]
               j == [_makeFuncWrapper |-> MakeFuncWrapper]
               f == [write |-> FsWrite, open |-> Unsupported]
    <3>1. \A p \in DOMAIN g : g[p] \in Proper
      BY ProperValues, FunctionValues, ObjectIds
    <3>2. \A p \in DOMAIN j : j[p] \in Proper
      BY FunctionValues
    <3>3. \A p \in DOMAIN f : f[p] \in Proper
      BY FunctionValues
    <3>4. {Having(g), Having(j), Having(f), [p \in Prop |-> Absent]}
            \subseteq [Prop -> Proper]
      <4> HIDE DEF g, j, f
      <4> QED
        BY <3>1, <3>2, <3>3, HavingProper, ProperValues
    <3>5. \A o \in Objects :
            fields[o] \in {Having(g), Having(j), Having(f), [p \in Prop |-> Absent]}
      BY DEF Init
    <3> QED
      BY <3>4, <3>5
  <2>2. << >> \in Seq(Proper)
    OBVIOUS
  <2> QED
    BY <2>1, <2>2 DEF Init, Heap
<1>6. Runs /\ CallsBegun /\ LockFreeForGuest /\ EventsStayOwn
  <2>1. frames = << >> /\ frames \in Seq(Frame) /\ 1..Len(frames) = {}
    BY DEF Init
  <2>2. calls \in 0..CallBound
    BY ObjectIds DEF Init
  <2>3. CallsBegun /\ EventsStayOwn
    BY <2>1 DEF CallsBegun, EventsStayOwn
  <2> QED
    BY <2>1, <2>2, <2>3 DEF Init, Runs, LockFreeForGuest
<1> QED
  BY <1>4, <1>5, <1>6 DEF IInv

LEMMA NextIInv == IInv /\ [Next]_vars => IInv'
<1> SUFFICES ASSUME IInv, [Next]_vars PROVE IInv'
  OBVIOUS
<1>1. CASE HostCall
  BY <1>1, HostCallKeeps
<1>2. CASE \E dst \in Slot : TakeEvent(dst)
  BY <1>2, TakeEventKeeps
<1>3. CASE ClearEvent
  BY <1>3, ClearEventKeeps
<1>4. CASE ReEnter
  BY <1>4, ReEnterKeeps
<1>5. CASE Stop
  BY <1>5, StopKeeps
<1>6. CASE ResumeReturns
  BY <1>6, ResumeReturnsKeeps
<1>7. CASE ResumeFails
  BY <1>7, ResumeFailsKeeps
<1>8. CASE RunEnds
  BY <1>8, RunEndsKeeps
<1>9. CASE UNCHANGED vars
  <2>1. Table'
    BY <1>9, SameTable DEF IInv, vars, host
  <2> QED
    BY <1>9, <2>1 DEF IInv, Heap, Runs, CallsBegun, LockFreeForGuest, EventsStayOwn,
                     vars, host, guest, control
<1> QED
  BY <1>1, <1>2, <1>3, <1>4, <1>5, <1>6, <1>7, <1>8, <1>9 DEF Next

\* Table, Heap and Runs hold, the guest runs without the lock, and calls keep
\* their events, in every reachable state.
THEOREM Invariance == Spec => []IInv
  BY InitIInv, NextIInv, PTL DEF Spec

\* goState's table, its objects and its stack of runs keep their shapes, and
\* so do the references in guest memory (the structs of gojs.go:31-47).
THEOREM TypeCorrect == Spec => []TypeOK
<1>1. IInv => TypeOK
  <2> SUFFICES ASSUME IInv PROVE TypeOK
    OBVIOUS
  <2>1. Proper \subseteq Values
    BY DEF Proper
  <2>2. Seq(Proper) \subseteq Seq(Values)
    BY <2>1
  <2> QED
    BY <2>1, <2>2 DEF IInv, Table, Heap, Runs, Frame, Ids, TypeOK
<1> QED
  BY <1>1, Invariance, PTL

\* loadValue (gojs.go:300-314) of a reference that storeValue (gojs.go:316-365)
\* left in guest memory gives back what was stored, through every later store,
\* replaced property and nested run.
THEOREM ReferencesStand == Spec => []RefsKeepMeaning
<1>1. IInv => RefsKeepMeaning
  BY DEF IInv, Table
<1> QED
  BY <1>1, Invariance, PTL

\* The unlock before resume and the lock after it (gojs.go:548-557) leave
\* goState.mu free whenever guest code runs, after a failed inner run too.
THEOREM GuestRunsUnlocked == Spec => []LockFreeForGuest
<1>1. IInv => LockFreeForGuest
  BY DEF IInv
<1> QED
  BY <1>1, Invariance, PTL

\* goAsyncFSCall makes an event and an argument array for each call
\* (gojs.go:541-547): until the call returns, no host call, no result the guest
\* writes back and no call nested in it gives its event another id or other
\* arguments.
THEOREM EventsAreOwn == Spec => []EventsStayOwn
<1>1. IInv => EventsStayOwn
  BY DEF IInv
<1> QED
  BY <1>1, Invariance, PTL
=============================================================================
