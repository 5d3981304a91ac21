------------------------------ MODULE Transform -----------------------------
(***************************************************************************)
(* transformModuleWithEnvironment (transform.go): what becomes of a module  *)
(* between its bytes and the compiler.  It is classified by strings in its  *)
(* bytes, its imports are renamed to the plugin's own, the imported memory   *)
(* is made the module's, and functions are added: a trampoline for every    *)
(* invoke_* import, heap growth, and a _start that calls the program.       *)
(*                                                                          *)
(* Each stage is an action, on a source chosen in Init.  A module is a      *)
(* sequence of sections, a section a sequence of items; what the code never  *)
(* looks into is left out of an item.  Indexes count from 0, as in Wasm.    *)
(* Of the numbers that are read and written again one stands for all.       *)
(***************************************************************************)
EXTENDS WasmCodec, FiniteSets

CONSTANTS
    Case,           \* the modules and arguments that are tried
    SourceOf(_),    \* such a module
    InvokeNames,    \* names that begin with invoke_, in the order of sort.Strings
    Signature       \* the letters of each of them after that

VARIABLES
    source,         \* the module and its arguments; it never changes
    stage,
    kind,           \* classifyModule
    number,         \* what readU32 got of source.number
    sections,
    functionCount,  \* importRewrite: imported functions
    resizes,        \* ... : emscripten_resize_heap is one of them
    todo,           \* ... : names of invoke_* imports without a trampoline
    memory          \* ... : the descriptor of env.memory, in a sequence

vars == <<source, stage, kind, number, sections, functionCount, resizes, todo, memory>>

-----------------------------------------------------------------------------
(* Sections *)

CustomId == 0
TypeId == 1
ImportId == 2
FunctionId == 3
MemoryId == 5
ExportId == 7
CodeId == 10
DataId == 11
DataCountId == 12

First(places) == CHOOSE i \in places : \A j \in places : i <= j
Last(places) == CHOOSE i \in places : \A j \in places : j <= i

Indexes(ss, id) == {i \in 1..Len(ss) : ss[i].id = id}
Has(ss, id) == Indexes(ss, id) # {}
SectionIndex(ss, id) == First(Indexes(ss, id))
Items(ss, id) == IF Has(ss, id) THEN ss[SectionIndex(ss, id)].items ELSE << >>

\* appendVectorItem, on a section that is there.
Appended(ss, id, item) ==
    [ss EXCEPT ![SectionIndex(ss, id)].items = Append(@, item)]

\* Mutant: the new section goes last.
InsertedLast(ss, section) == Append(ss, section)

\* Before the first section with a greater id, custom sections aside.
Later(ss, id) == {i \in 1..Len(ss) : ss[i].id > id}
Inserted(ss, section) ==
    LET later == Later(ss, section.id)
        at == IF later = {} THEN Len(ss) + 1 ELSE First(later)
    IN Lists!InsertAt(ss, at, section)

Types(ss) == Items(ss, TypeId)

\* functionType and findFunctionType.
HasType(ss, index) == index < Len(Types(ss))
TypeAt(ss, index) == Types(ss)[index + 1]
Matches(ss, type) == {i \in 0..(Len(Types(ss)) - 1) : TypeAt(ss, i) = type}
Knows(ss, type) == Matches(ss, type) # {}
FindType(ss, type) == First(Matches(ss, type))

Func(params, results) == [params |-> params, results |-> results]
I32s(n) == [i \in 1..n |-> "i32"]
NoArguments == Func(<< >>, << >>)

\* One function more: its type, its export and its body, in three sections.
CanAdd(ss) == Has(ss, FunctionId) /\ Has(ss, ExportId) /\ Has(ss, CodeId)

NewIndex(ss) == functionCount + Len(Items(ss, FunctionId))

AddFunction(ss, type, name, body) ==
    LET typed == Appended(ss, FunctionId, type)
        named == Appended(typed, ExportId,
                     [name |-> name, kind |-> "func", index |-> NewIndex(ss)])
    IN Appended(named, CodeId, body)

\* What the functions that stand in for imports are exported as.
Trampoline(name) == "__wago_" \o name
ResizeWrapper == "__wago_resize_heap"

\* Instructions of added bodies: how many constants are pushed, what is called.
Push(n) == [op |-> "push", n |-> n]
Call(index) == [op |-> "call", n |-> index]
CallIndirect(type) == [op |-> "call_indirect", n |-> type]
LocalSet == [op |-> "set", n |-> 0]
LocalGet == [op |-> "get", n |-> 0]
TrapIf == [op |-> "if", n |-> 0]
ResizeBody == << [op |-> "memory.grow", n |-> 0] >>

OwnExports == {Trampoline(name) : name \in Lists!ToSet(InvokeNames)} \cup {ResizeWrapper}

-----------------------------------------------------------------------------
(* classifyModule: source.marks are the strings looked for that are there *)

GlueMarks == {"_embind_", "_emval_", "duckdb_web_"}
MainMarks == {"main", "_main", "__main_argc_argv"}
EmscriptenMarks ==
    {"emscripten_resize_heap", "__wasm_call_ctors", "_emscripten_stack_alloc",
     "_tzset_js", "__syscall_", "invoke_"}

LooksLikeEmscripten(marks) ==
    /\ "env" \in marks
    /\ GlueMarks \cap marks = {}
    /\ MainMarks \cap marks # {}
    /\ EmscriptenMarks \cap marks # {}

Classified(marks) ==
    IF {"rb-js-abi-host", "ruby-show-version"} \subseteq marks THEN "ruby"
    ELSE IF {"runtime.wasmExit", "syscall/js.valueGet"} \subseteq marks THEN "gojs"
    ELSE IF {"sqlite3_initialize", "emscripten_resize_heap"} \subseteq marks THEN "sqlite"
    ELSE IF {"luaL_newstate", "invoke_vii"} \subseteq marks THEN "lua"
    ELSE IF LooksLikeEmscripten(marks) THEN "emscripten"
    ELSE ""

CKinds == {"", "sqlite", "lua", "emscripten"}

-----------------------------------------------------------------------------
(* rewriteImports *)

Letter(c) == [i |-> "i32", p |-> "i32", j |-> "i64", f |-> "f32", d |-> "f64"][c]

\* invokeSignature: the table index comes first.
InvokeType(name) ==
    LET letters == Signature[name] IN
    Func(<<"i32">> \o [k \in 1..(Len(letters) - 1) |-> Letter(letters[k + 1])],
         IF Head(letters) = "v" THEN << >> ELSE <<Letter(Head(letters))>>)

\* invokeSignatures: those over i alone, and a list that was drawn up by hand.
Listed ==
    { "f", "fi", "fii", "fiii", "fiiii", "d", "dd", "ddd", "di", "dii", "diii", "diiii", "dj",
      "id", "idd", "idi", "idii", "idiii", "idiiii", "if", "iff", "ifi", "ifii", "iid", "iidi",
      "iidii", "iif", "iifii", "ij", "iji", "iij", "iiji", "iijii", "vd", "vid", "vidi", "vidii",
      "vif", "vifi", "vifii", "viid", "vj", "vij", "viji", "vijii", "vjj", "vji", "vjii",
      "jd", "jf", "jj", "jji", "jij", "jiji" }
SupportsInvoke(name) ==
    LET letters == Signature[name] IN
    \/ /\ letters[1] \in {"v", "i", "j"} /\ Len(letters) <= 17
       /\ \A k \in 2..Len(letters) : letters[k] = "i"
    \/ name \in {"invoke_" \o signature : signature \in Listed}

IsEnv(entry) == entry.module = "env"
IsFunction(entry) == entry.kind = "func"
IsMemory(entry) == IsEnv(entry) /\ entry.name = "memory" /\ entry.kind = "memory"
IsInvoke(entry) == IsEnv(entry) /\ IsFunction(entry) /\ entry.name \in DOMAIN Signature

TimeAndMap == {"_localtime_js", "_gmtime_js", "_tzset_js", "_munmap_js", "_mmap_js"}

\* Mutant: the wide calls of a 64-bit time_t and off_t are not told apart.
NarrowName(name, params) == name

WideName(name, params) ==
    CASE name \in {"_localtime_js", "_gmtime_js"} /\ Len(params) = 2 /\ params[1] = "i64" ->
           "__wago" \o name \o "_i64"
      [] name = "_tzset_js" /\ Len(params) = 4 -> "__wago_tzset_js_4"
      [] name \in {"_munmap_js", "_mmap_js"} /\ "i64" \in Lists!ToSet(params) ->
           "__wago" \o name \o "_i64"
      [] OTHER -> name

WasiCalls ==
    {"fd_read", "fd_write", "fd_close", "fd_seek", "fd_fdstat_get", "fd_filestat_get",
     "fd_sync", "fd_datasync", "fd_fdstat_set_flags", "fd_filestat_set_size", "fd_pread",
     "fd_pwrite", "fd_advise", "fd_allocate", "environ_sizes_get", "environ_get"}

Renamed(entry) ==
    LET name == IF kind \in CKinds /\ IsEnv(entry) /\ entry.name \in TimeAndMap
                THEN WideName(entry.name, TypeAt(source.sections, entry.type).params)
                ELSE entry.name
        module == IF entry.module = "wasi_unstable" THEN "wasi_snapshot_preview1"
                  ELSE entry.module
    IN IF /\ kind \in CKinds \ {""}
          /\ module = "wasi_snapshot_preview1" /\ name \in WasiCalls
       THEN [entry EXCEPT !.module = "env", !.name = "__wago_wasi_" \o name]
       ELSE [entry EXCEPT !.module = module, !.name = name]

Imports == Items(source.sections, ImportId)
TakesMemory(entry) == kind \in CKinds /\ IsMemory(entry)
Taken == {i \in 1..Len(Imports) : TakesMemory(Imports[i])}

RewriteError ==
    \/ \E i \in 1..Len(Imports) : IsInvoke(Imports[i]) /\ ~SupportsInvoke(Imports[i].name)
    \/ \E i \in 1..Len(Imports) :
         /\ kind \in CKinds /\ IsEnv(Imports[i]) /\ Imports[i].name \in TimeAndMap
         /\ ~HasType(source.sections, Imports[i].type)
    \/ Cardinality(Taken) > 1

\* There is one, or none.
Kept == IF Taken = {} THEN Imports ELSE Lists!RemoveAt(Imports, First(Taken))
Rewritten == [i \in 1..Len(Kept) |-> Renamed(Kept[i])]

\* Mutant: env.memory counts, as if it took a place among the functions.
IsImport(entry) == TRUE

Counts(entry) == IsFunction(entry)

ImportsResize ==
    \E i \in 1..Len(Imports) : /\ IsEnv(Imports[i]) /\ IsFunction(Imports[i])
                              /\ Imports[i].name = "emscripten_resize_heap"

Invokes(name) == {i \in 1..Len(Imports) : IsInvoke(Imports[i]) /\ Imports[i].name = name}
IsInvoked(name) == Invokes(name) # {}

\* Of two imports of one name the later one is remembered.
InvokeIndex(name) == Imports[Last(Invokes(name))].type

-----------------------------------------------------------------------------
(* What a source looks like, whether it is valid or not *)

IsList(s) == Len(s) \in Nat /\ s = [i \in 1..Len(s) |-> s[i]]

Sectioned(ss) ==
    /\ IsList(ss)
    /\ \A i \in 1..Len(ss) : /\ ss[i] = [id |-> ss[i].id, items |-> ss[i].items]
                             /\ ss[i].id \in 0..13 /\ IsList(ss[i].items)

IsImportEntry(entry) ==
    /\ entry = [module |-> entry.module, name |-> entry.name, kind |-> entry.kind,
                type |-> entry.type]
    /\ entry.type \in Nat

WellFormed(ss) ==
    /\ Sectioned(ss)
    /\ \A i \in 1..Len(Types(ss)) : IsList(Types(ss)[i].params)
    /\ \A i \in 1..Len(Items(ss, ImportId)) : IsImportEntry(Items(ss, ImportId)[i])
    /\ \A i \in 1..Len(Items(ss, FunctionId)) : Items(ss, FunctionId)[i] \in Nat
    /\ \A i \in 1..Len(Items(ss, ExportId)) : Items(ss, ExportId)[i].index \in Nat

\* What rewriteImports calls imports of its own.
NewNames ==
    {"__wago" \o name \o "_i64" : name \in TimeAndMap} \cup {"__wago_tzset_js_4"}
    \cup {"__wago_wasi_" \o name : name \in WasiCalls}

ShowVersion == "ruby-show-version: func() -> ()"

\* What launchers look for.
Sought ==
    {"_start", "__wasm_call_ctors", "__main_argc_argv", "main", "_main", "_initialize",
     ShowVersion, "run", "emscripten_stack_get_current",
     "_emscripten_stack_alloc", "_emscripten_stack_restore"}

\* Names differ, also behind their prefix; those of invoke_* are none of the
\* others the transformer knows.
SourceAssumption ==
    /\ \A c \in Case : /\ WellFormed(SourceOf(c).sections)
                      /\ SourceOf(c).number \in Seq(Byte)
                      /\ SourceOf(c).args \in Seq(Seq(Nat))
                      /\ SourceOf(c).environment \in Seq(Seq(Nat))
    /\ IsList(InvokeNames) /\ DOMAIN Signature = Lists!ToSet(InvokeNames)
    /\ \A m, n \in Lists!ToSet(InvokeNames) : Trampoline(m) = Trampoline(n) => m = n
    /\ \A n \in Lists!ToSet(InvokeNames) : Trampoline(n) \notin {ResizeWrapper} \cup Sought
    /\ Lists!ToSet(InvokeNames) \cap (NewNames \cup TimeAndMap) = {}
    /\ "emscripten_resize_heap" \notin NewNames

ASSUME SourceAssumption

-----------------------------------------------------------------------------
(* The stages *)

Init ==
    /\ \E c \in Case : source = SourceOf(c)
    /\ stage = "classify" /\ kind = "" /\ number = 0
    /\ sections = source.sections
    /\ functionCount = 0 /\ resizes = FALSE /\ todo = {} /\ memory = << >>

At(s) == stage = s
Go(s) == stage' = s
Fail == Go("failed") /\ UNCHANGED sections

\* A module of no known kind is returned as it is, undecoded, but for one that
\* names wasi_unstable.
Classify ==
    /\ At("classify")
    /\ kind' = Classified(source.marks)
    /\ Go(IF kind' = "" /\ "wasi_unstable" \notin source.marks THEN "unchanged"
          ELSE "decode")
    /\ UNCHANGED <<source, number, sections, functionCount, resizes, todo, memory>>

DecodeSections ==
    /\ At("decode")
    /\ number' = ReadU32(source.number).value
    /\ Go(IF number' = Invalid.value THEN "failed" ELSE "imports")
    /\ UNCHANGED <<source, kind, sections, functionCount, resizes, todo, memory>>

RewriteImports ==
    /\ At("imports")
    /\ \/ RewriteError /\ Fail /\ UNCHANGED <<functionCount, resizes, todo, memory>>
       \/ /\ ~RewriteError
          /\ sections' = IF Has(source.sections, ImportId)
                         THEN [source.sections EXCEPT
                                 ![SectionIndex(source.sections, ImportId)].items = Rewritten]
                         ELSE source.sections
          /\ functionCount' = Cardinality({i \in 1..Len(Imports) : Counts(Imports[i])})
          /\ resizes' = ImportsResize
          /\ todo' = {name \in Lists!ToSet(InvokeNames) : IsInvoked(name)}
          /\ memory' = IF Taken = {} THEN << >> ELSE <<Imports[First(Taken)].type>>
          /\ Go(IF kind = "" THEN "encode" ELSE "invokes")
    /\ UNCHANGED <<source, kind, number>>

\* One trampoline: it pushes its arguments, the table index last, and makes
\* the indirect call.
AddInvokeWrapper ==
    /\ At("invokes") /\ todo # {}
    /\ LET name == InvokeNames[First({i \in 1..Len(InvokeNames) : InvokeNames[i] \in todo})]
           index == InvokeIndex(name)
           type == TypeAt(sections, index)
           callback == Func(Tail(type.params), type.results)
           fits == /\ HasType(sections, index)
                   /\ type.params # << >> /\ Head(type.params) = "i32"
                   /\ Knows(sections, callback)
                   /\ CanAdd(sections)
       IN \/ ~fits /\ Fail /\ UNCHANGED todo
          \/ /\ fits
             /\ sections' = AddFunction(sections, index, Trampoline(name),
                    [k \in 1..Len(type.params) |-> LocalGet]
                    \o <<CallIndirect(FindType(sections, callback))>>)
             /\ todo' = todo \ {name}
             /\ UNCHANGED stage
    /\ UNCHANGED <<source, kind, number, functionCount, resizes, memory>>

DefineImportedMemory ==
    /\ At("invokes") /\ todo = {}
    /\ \/ memory = << >> /\ Go("resize") /\ UNCHANGED sections
       \/ memory # << >> /\ Has(sections, MemoryId) /\ Fail
       \/ /\ memory # << >> /\ ~Has(sections, MemoryId)
          /\ sections' = Inserted(sections, [id |-> MemoryId, items |-> memory])
          /\ Go("resize")
    /\ UNCHANGED <<source, kind, number, functionCount, resizes, todo, memory>>

AddResizeHeapWrapper ==
    /\ At("resize")
    /\ LET type == Func(I32s(1), I32s(1))
           fits == Knows(sections, type) /\ CanAdd(sections)
       IN \/ ~resizes /\ Go("launcher") /\ UNCHANGED sections
          \/ resizes /\ ~fits /\ Fail
          \/ /\ resizes /\ fits
             /\ sections' = AddFunction(sections, FindType(sections, type),
                                        ResizeWrapper, ResizeBody)
             /\ Go("launcher")
    /\ UNCHANGED <<source, kind, number, functionCount, resizes, todo, memory>>

-----------------------------------------------------------------------------
(* The launcher *)

\* exportedFunctions: the function that is exported last under a name, and
\* hasStart.
Named(ss, name) ==
    {i \in 1..Len(Items(ss, ExportId)) : Items(ss, ExportId)[i].name = name}
Functions(ss, name) == {i \in Named(ss, name) : Items(ss, ExportId)[i].kind = "func"}
Exports(ss, name) == Functions(ss, name) # {}
ExportOf(ss, name) == Items(ss, ExportId)[Last(Functions(ss, name))].index
HasStart(ss) == Named(ss, "_start") # {}

\* functionTypeForIndex: of a function that is not imported.
IsDefined(ss, index) ==
    /\ index \in functionCount..(functionCount + Len(Items(ss, FunctionId)) - 1)
    /\ HasType(ss, Items(ss, FunctionId)[index - functionCount + 1])
TypeOf(ss, index) == TypeAt(ss, Items(ss, FunctionId)[index - functionCount + 1])

MainNames == <<"__main_argc_argv", "main", "_main">>
Mains(ss) == {i \in 1..3 : Exports(ss, MainNames[i])}
HasMain(ss) == Mains(ss) # {}
MainName(ss) == MainNames[First(Mains(ss))]
Main(ss) == ExportOf(ss, MainName(ss))
MainFits(ss) ==
    /\ HasMain(ss) /\ IsDefined(ss, Main(ss))
    /\ TypeOf(ss, Main(ss)).results \in {<< >>, I32s(1)}
    /\ TypeOf(ss, Main(ss)).params \in {<< >>, I32s(2)}

StackCurrent == "emscripten_stack_get_current"
StackAlloc == "_emscripten_stack_alloc"
StackRestore == "_emscripten_stack_restore"

UseArgv(ss) ==
    /\ TypeOf(ss, Main(ss)).params # << >> /\ source.args # << >>
    /\ \A name \in {StackCurrent, StackAlloc, StackRestore} : Exports(ss, name)

When(condition, code) == IF condition THEN code ELSE << >>

\* Mutant: a main that takes arguments gets none when there are none.
NoArgumentsFor(params) == << >>

ZeroesFor(params) == When(params # << >>, <<Push(2)>>)

\* Constructors, the argument area on the guest's stack, main, the stack back,
\* and a trap for a result that is not zero.
MainLauncher(ss) ==
    LET type == TypeOf(ss, Main(ss))
        useArgv == UseArgv(ss)
        ctors == "__wasm_call_ctors"
    IN When(Exports(ss, ctors), <<Call(ExportOf(ss, ctors))>>)
       \o (IF useArgv
           THEN <<Call(ExportOf(ss, StackCurrent)), LocalSet,
                  Push(1), Call(ExportOf(ss, StackAlloc)), LocalSet, Push(1), LocalGet>>
           ELSE ZeroesFor(type.params))
       \o <<Call(Main(ss))>>
       \o When(type.results # << >>,
               When(useArgv, <<LocalSet, LocalGet, Call(ExportOf(ss, StackRestore)), LocalGet>>)
               \o <<TrapIf>>)

\* The type of _start is looked up, and added when it is not there.
WithType(ss) == IF Knows(ss, NoArguments) THEN ss ELSE Appended(ss, TypeId, NoArguments)

AddEmscriptenLauncher(ss) ==
    AddFunction(WithType(ss), FindType(WithType(ss), NoArguments), "_start", MainLauncher(ss))

EmscriptenLauncherError(ss) ==
    \/ ~MainFits(ss)
    \/ MainFits(ss) /\ UseArgv(ss) /\ EmscriptenArgvError(source.args, source.environment)
    \/ ~CanAdd(ss)

Targets ==
    CASE kind = "ruby" -> <<"_initialize", ShowVersion>>
      [] kind = "gojs" -> <<"run">>
      [] OTHER -> <<"__wasm_call_ctors">>

\* Only gojs gets arguments, "wasm" if there are none.
GoArguments == IF source.args = << >> THEN << <<1>> >> ELSE source.args

\* The argument segment is lost if there is no data section: insertStandardSection
\* puts the new section into a slice of its own.  (More than 16 sections may leave
\* room in the caller's array, which it then shifts: the last one would be lost.)
WithSegment(ss) ==
    IF kind = "gojs" /\ Has(ss, DataId) THEN Appended(ss, DataId, "argv") ELSE ss

AddStartLauncher(ss) ==
    LET typed == Appended(ss, TypeId, NoArguments)
    IN WithSegment(AddFunction(typed, Len(Types(ss)), "_start",
           When(kind = "gojs", <<Push(2)>>)
           \o [i \in 1..Len(Targets) |-> Call(ExportOf(ss, Targets[i]))]))

StartLauncherError(ss) ==
    \/ \E i \in 1..Len(Targets) : ~Exports(ss, Targets[i])
    \/ ~Has(ss, TypeId) \/ ~CanAdd(ss)
    \/ kind = "gojs" /\ GoArgvError(GoArguments)

LauncherError(ss) ==
    \/ ~Has(ss, ExportId)
    \/ ~HasStart(ss) /\ kind = "emscripten" /\ EmscriptenLauncherError(ss)
    \/ ~HasStart(ss) /\ kind # "emscripten" /\ StartLauncherError(ss)

AddLauncher ==
    /\ At("launcher")
    /\ \/ LauncherError(sections) /\ Fail
       \/ /\ ~LauncherError(sections)
          /\ sections' = IF HasStart(sections) THEN sections
                         ELSE IF kind = "emscripten" THEN AddEmscriptenLauncher(sections)
                         ELSE AddStartLauncher(sections)
          /\ Go("encode")
    /\ UNCHANGED <<source, kind, number, functionCount, resizes, todo, memory>>

EncodeSections ==
    /\ At("encode") /\ Go("done")
    /\ UNCHANGED <<source, kind, number, sections, functionCount, resizes, todo, memory>>

Next ==
    \/ Classify \/ DecodeSections \/ RewriteImports \/ AddInvokeWrapper
    \/ DefineImportedMemory \/ AddResizeHeapWrapper \/ AddLauncher \/ EncodeSections

Spec == Init /\ [][Next]_vars

-----------------------------------------------------------------------------
(* Properties *)

Transformed == At("done") /\ kind # ""

Imported(ss, what) == {i \in 1..Len(Items(ss, ImportId)) : Items(ss, ImportId)[i].kind = what}
Total(ss) == Cardinality(Imported(ss, "func")) + Len(Items(ss, FunctionId))
Memories(ss) == Cardinality(Imported(ss, "memory")) + Len(Items(ss, MemoryId))
Defined(ss, index) == index - Cardinality(Imported(ss, "func")) + 1

\* Where the standard puts a section; 13 holds tags, and 12 counts data.
Standard == <<1, 2, 3, 4, 5, 13, 6, 7, 8, 9, 12, 10, 11>>
Rank(id) == CHOOSE r \in 1..Len(Standard) : Standard[r] = id

InOrder(ss) ==
    \A i, j \in 1..Len(ss) :
        i < j /\ ss[i].id # CustomId /\ ss[j].id # CustomId => Rank(ss[i].id) < Rank(ss[j].id)

Valid(ss) ==
    /\ InOrder(ss)
    /\ Len(Items(ss, FunctionId)) = Len(Items(ss, CodeId))
    /\ \A i \in 1..Len(Items(ss, FunctionId)) : HasType(ss, Items(ss, FunctionId)[i])
    /\ \A i \in 1..Len(Items(ss, ExportId)) :
         /\ Cardinality(Named(ss, Items(ss, ExportId)[i].name)) = 1
         /\ Items(ss, ExportId)[i].kind = "func" => Items(ss, ExportId)[i].index < Total(ss)

\* A valid module comes out valid, with as many memories: however sections are
\* left out and whatever stages edit them, the order holds, types, exports and
\* bodies stay in step, and no name is exported twice, unless the module itself
\* exports one that the transformer adds.
StaysValid ==
    /\ Transformed /\ Valid(source.sections)
    /\ \A name \in OwnExports : Named(source.sections, name) = {}
    => Valid(sections) /\ Memories(sections) = Memories(source.sections)

\* What registerEmscripten answers, for the imports that are tried.
Binding ==
    [n \in {"emscripten_resize_heap", "_localtime_js", "__wago_localtime_js_i64",
            "__wago_gmtime_js_i64", "_tzset_js", "__wago_tzset_js_4", "_mmap_js",
            "__wago_mmap_js_i64", "_munmap_js", "__wago_munmap_js_i64", "__wago_wasi_fd_write"}
           \cup {n \in DOMAIN Signature : SupportsInvoke(n)} |->
       CASE n = "emscripten_resize_heap" -> Func(I32s(1), I32s(1))
         [] n = "_localtime_js" -> Func(I32s(2), << >>)
         [] n \in {"__wago_localtime_js_i64", "__wago_gmtime_js_i64"} -> Func(<<"i64", "i32">>, << >>)
         [] n = "_tzset_js" -> Func(I32s(3), << >>)
         [] n = "__wago_tzset_js_4" -> Func(I32s(4), << >>)
         [] n = "_mmap_js" -> Func(I32s(7), I32s(1))
         [] n = "__wago_mmap_js_i64" -> Func(I32s(4) \o <<"i64", "i32", "i32">>, I32s(1))
         [] n = "_munmap_js" -> Func(I32s(6), I32s(1))
         [] n = "__wago_munmap_js_i64" -> Func(I32s(5) \o <<"i64">>, I32s(1))
         [] n = "__wago_wasi_fd_write" -> Func(I32s(4), I32s(1))
         [] OTHER -> InvokeType(n)]

\* The export is a defined function of this type with a body that ends so.
Offers(ss, name, type, last) ==
    /\ Exports(ss, name)
    /\ LET d == Defined(ss, ExportOf(ss, name))
           body == Items(ss, CodeId)[d]
       IN /\ d \in 1..Len(Items(ss, CodeId)) /\ body # << >>
          /\ TypeAt(ss, Items(ss, FunctionId)[d]) = type
          /\ body[Len(body)].op = last.op
          /\ last.op = "call_indirect" => TypeAt(ss, body[Len(body)].n) = last.type

\* The indirect call without the table index.
CallsBack(type) == [op |-> "call_indirect", type |-> Func(Tail(type.params), type.results)]

\* Every import of env that the plugin knows is answered by a function of the
\* very type the guest gives it; and where the answer calls back into the
\* guest, there is an export of that type with the right body behind it: an
\* index that is off by an import calls something else.  (A narrow _gmtime_js
\* has no binding at all.)
ImportsAnswered ==
    Transformed => \A i \in 1..Len(Items(sections, ImportId)) :
        LET entry == Items(sections, ImportId)[i]
            type == TypeAt(sections, entry.type)
        IN IsEnv(entry) /\ IsFunction(entry) /\ entry.name # "_gmtime_js" =>
             /\ entry.name \in DOMAIN Binding /\ type = Binding[entry.name]
             /\ IsInvoke(entry) => Offers(sections, Trampoline(entry.name), type, CallsBack(type))
             /\ entry.name = "emscripten_resize_heap" =>
                   Offers(sections, ResizeWrapper, type, ResizeBody[1])

\* How many operands an instruction takes from the stack, and puts there.
CallType(index) == TypeAt(sections, Items(sections, FunctionId)[Defined(sections, index)])
Takes(c) ==
    CASE c.op = "call" -> Len(CallType(c.n).params)
      [] c.op \in {"set", "if"} -> 1
      [] OTHER -> 0
Gives(c) ==
    CASE c.op = "call" -> Len(CallType(c.n).results)
      [] c.op = "push" -> c.n
      [] c.op = "get" -> 1
      [] OTHER -> 0

\* How many are there after so many instructions of a body, and -1 from where one
\* was missing.
Heights(body) ==
    LET height[i \in 0..Len(body)] ==
          IF i = 0 THEN 0
          ELSE IF height[i - 1] < Takes(body[i]) THEN -1
          ELSE height[i - 1] - Takes(body[i]) + Gives(body[i])
    IN height

\* The functions a launcher is for, in their order.
Program ==
    LET names == IF kind # "emscripten" THEN Targets
                 ELSE When(Exports(source.sections, "__wasm_call_ctors"), <<"__wasm_call_ctors">>)
                      \o <<MainName(source.sections)>>
    IN [i \in 1..Len(names) |-> ExportOf(source.sections, names[i])]

\* _start is a function without arguments that runs the constructors and then
\* main, each once, and nothing else but the guest's own stack functions; each
\* call finds its arguments on the operand stack and nothing is left over.
StartRunsProgram ==
    Transformed /\ ~HasStart(source.sections) =>
        LET d == Defined(sections, ExportOf(sections, "_start"))
            body == Items(sections, CodeId)[d]
            Own == {i \in 1..Len(body) : body[i].op = "call" /\ body[i].n \in Lists!ToSet(Program)}
            stack == {ExportOf(sections, n) : n \in
                        {m \in {StackCurrent, StackAlloc, StackRestore} : Exports(sections, m)}}
        IN /\ TypeAt(sections, Items(sections, FunctionId)[d]) = NoArguments
           /\ \E at \in [1..Len(Program) -> Own] :
                /\ \A k \in 1..Len(Program) : body[at[k]].n = Program[k]
                /\ \A j, k \in 1..Len(Program) : j < k => at[j] < at[k]
                /\ Own = {at[k] : k \in 1..Len(Program)}
           /\ \A i \in 1..Len(body) : body[i].op = "call" => body[i].n \in Lists!ToSet(Program) \cup stack
           /\ Heights(body)[Len(body)] = 0

\* A number is refused only if no number is written there, it is read as the
\* number that is, however long its encoding, and written as that number again,
\* also where it becomes an i32.const, which is signed.
NumbersKept ==
    /\ At("failed") /\ number = Invalid.value =>
         \A n \in 1..Len(source.number), v \in 0..(TwoTo[Bits] - 1) :
            ~DenotesU(SubSeq(source.number, 1, n), v)
    /\ At("imports") =>
         /\ DenotesU(SubSeq(source.number, 1, ReadU32(source.number).size), number)
         /\ DenotesU(AppendU32(number), number)
         /\ DenotesS(AppendS32(Int32(number)), Int32(number))

\* main finds its arguments, and its environment behind them, as the strings
\* that were configured, in a table that is aligned and inside the area.
ArgumentsReadBack ==
    Transformed /\ ~HasStart(source.sections) =>
        /\ kind = "gojs" =>
             /\ ListAt(GoArgv(GoArguments), 1) = GoArguments
             /\ Fits(GoArgv(GoArguments), 8)
        /\ kind = "emscripten" /\ UseArgv(sections) =>
             LET layout == EmscriptenArgv(source.args, source.environment) IN
             /\ ListAt(layout, 1) = source.args
             /\ ListAt(layout, Len(source.args) + 2) = source.environment
             /\ Fits(layout, 4)

-----------------------------------------------------------------------------
(* A claim the code does not keep *)

\* "Unknown modules ... are left byte-for-byte unchanged instead of guessing the
\* meaning of their imports" (README.md:134-135), but for "Legacy wasi_unstable
\* imports", which "are rewritten to wasi_snapshot_preview1" (README.md:41-42):
\* an unknown module keeps its imports, but for that name.  One that names
\* wasi_unstable and imports env.memory loses the memory (transform.go:217-223),
\* and nothing defines it: transform.go:43 returns before.
UnknownImportsKept ==
    At("done") /\ kind = "" =>
        Items(sections, ImportId) =
            [i \in 1..Len(Imports) |->
               IF Imports[i].module = "wasi_unstable"
               THEN [Imports[i] EXCEPT !.module = "wasi_snapshot_preview1"] ELSE Imports[i]]
=============================================================================
