---------------------------- MODULE MCTransform -----------------------------
(***************************************************************************)
(* Modules and arguments for Transform: what Emscripten and Go emit, with   *)
(* the parts that the stages look at present, absent and in other places.   *)
(* Numbers have five bits, two to a byte, so that all of them are tried     *)
(* with every encoding; the area for arguments has 48 bytes.                *)
(***************************************************************************)
EXTENDS Transform

MCInvokeNames == <<"invoke_i", "invoke_id", "invoke_vdd", "invoke_vii">>
MCSignature ==
    [n \in Lists!ToSet(MCInvokeNames) |->
       CASE n = "invoke_i" -> <<"i">> [] n = "invoke_id" -> <<"i", "d">>
         [] n = "invoke_vdd" -> <<"v", "d", "d">> [] n = "invoke_vii" -> <<"v", "i", "i">>]

-----------------------------------------------------------------------------
(* Types *)

Wide(before, after) == I32s(before) \o <<"i64">> \o I32s(after)
OneI32 == I32s(1)

\* What stands in for the limits of an imported memory.
Limits == Func(<<"limits">>, << >>)

AllTypes ==
    <<NoArguments, Func(OneI32, OneI32), Func(I32s(2), OneI32), Func(I32s(2), << >>),
      Func(Wide(0, 1), << >>), Func(I32s(3), << >>), Func(I32s(4), << >>), Func(I32s(7), OneI32),
      Func(Wide(4, 2), OneI32), Func(I32s(6), OneI32), Func(Wide(5, 0), OneI32),
      Func(I32s(4), OneI32), Func(<< >>, OneI32), Func(OneI32, << >>),
      Func(<<"i32", "f64">>, OneI32), Func(<<"f64">>, OneI32)>>
Without(type) == SelectSeq(AllTypes, LAMBDA t : t # type)

\* No constructors and no other () -> (); no callback of invoke_vii, of resize_heap.
TypeTables == {AllTypes} \cup {Without(t) : t \in {NoArguments, Func(I32s(2), << >>), Func(OneI32, OneI32)}}

-----------------------------------------------------------------------------
(* Imports *)

Import(module, name, params, results) ==
    [module |-> module, name |-> name, kind |-> "func", type |-> Func(params, results)]
Memory(name) == [module |-> "env", name |-> name, kind |-> "memory", type |-> Limits]
Env(name, params, results) == Import("env", name, params, results)

Resize == Env("emscripten_resize_heap", OneI32, OneI32)
InvokeVII == Env("invoke_vii", I32s(3), << >>)
InvokeI == Env("invoke_i", OneI32, OneI32)
InvokeID == Env("invoke_id", <<"i32", "f64">>, OneI32)
InvokeVDD == Env("invoke_vdd", I32s(3), << >>)
InvokeBad == Env("invoke_i", <<"f64">>, OneI32)
Tzset(n) == Env("_tzset_js", I32s(n), << >>)
FdWrite(module) == Import(module, "fd_write", I32s(4), OneI32)

ImportLists ==
    { << >>, <<Resize>>, <<Tzset(3)>>, <<Tzset(4), Resize>>, <<InvokeVII, Resize>>, <<InvokeVDD>>,
      <<InvokeVII, InvokeI>>, <<InvokeI, InvokeID, Resize>>, <<InvokeBad>>,
      <<Env("_localtime_js", I32s(2), << >>), Env("_mmap_js", I32s(7), OneI32), Resize>>,
      <<Env("_localtime_js", Wide(0, 1), << >>), Env("_mmap_js", Wide(4, 2), OneI32), Resize>>,
      <<Resize, Env("_gmtime_js", Wide(0, 1), << >>), Env("_munmap_js", Wide(5, 0), OneI32)>>,
      <<Resize, Env("_gmtime_js", I32s(2), << >>), Env("_munmap_js", I32s(6), OneI32)>>,
      <<FdWrite("wasi_unstable"), Resize>>, <<Resize, FdWrite("wasi_snapshot_preview1")>> }

\* The memory is defined, or imported in any place.
WithMemory(list) ==
    {list, <<Memory("memory")>> \o list, list \o <<Memory("memory")>>}

-----------------------------------------------------------------------------
(* Exports *)

Function(name, params, results) == [name |-> name, type |-> Func(params, results)]

MainLists ==
    { << >>, <<Function("main", I32s(2), OneI32)>>, <<Function("main", << >>, OneI32)>>,
      <<Function("_main", I32s(2), << >>)>>, <<Function("main", <<"f64">>, OneI32)>>,
      <<Function("main", << >>, OneI32), Function("__main_argc_argv", I32s(2), OneI32)>> }
MainArgs == <<Function("main", I32s(2), OneI32)>>
Ctors == Function("__wasm_call_ctors", << >>, << >>)
Stack == <<Function(StackCurrent, << >>, OneI32), Function(StackAlloc, OneI32, OneI32),
           Function(StackRestore, OneI32, << >>)>>
Start == Function("_start", << >>, << >>)

FunctionLists ==
    {start \o main \o ctors \o stack :
        start \in {<< >>, <<Start>>}, main \in MainLists, ctors \in {<< >>, <<Ctors>>},
        stack \in {<< >>, SubSeq(Stack, 1, 2), Stack}}

-----------------------------------------------------------------------------
(* Assembly *)

\* The strings that are looked for and a name holds.
MarksOf(name) ==
    CASE name \in {"emscripten_resize_heap", "__wasm_call_ctors", "_emscripten_stack_alloc",
                   "_tzset_js", "__main_argc_argv", "luaL_newstate", "sqlite3_initialize",
                   "syscall/js.valueGet", "runtime.wasmExit", "main", "_main"} -> {name}
      [] name \in Lists!ToSet(MCInvokeNames) -> {"invoke_", name}
      [] name = "_embind_register" -> {"_embind_"}
      [] name = "ruby-show-version: func() -> ()" -> {"ruby-show-version"}
      [] OTHER -> {}

Place(types, type) == (CHOOSE i \in 1..Len(types) : types[i] = type) - 1

\* extra: identifiers of further sections, missing: of those left out; custom:
\* "first" or "last" for a custom section there.
Module(types, imports, functions, missing, extra, custom, args) ==
    [types |-> types, imports |-> imports, functions |-> functions, missing |-> missing,
     extra |-> extra, custom |-> custom, number |-> <<1>>, args |-> args,
     environment |-> << >>]

\* What c describes, as Transform has it.
MCSourceOf(c) ==
    LET offset == Len(SelectSeq(c.imports, IsFunction))
        places(seq) == [i \in 1..Len(seq) |-> Place(c.types, seq[i].type)]
        items == [id \in {TypeId, ImportId, FunctionId, ExportId, CodeId} \cup c.extra |->
          CASE id = TypeId -> c.types
            [] id = ImportId ->
                 [i \in 1..Len(c.imports) |->
                    [c.imports[i] EXCEPT !.type =
                        IF IsFunction(c.imports[i]) THEN Place(c.types, @) ELSE 0]]
            [] id = FunctionId -> places(c.functions)
            [] id = ExportId ->
                 <<[name |-> "memory", kind |-> "memory", index |-> 0]>>
                 \o [i \in 1..Len(c.functions) |->
                       [name |-> c.functions[i].name, kind |-> "func", index |-> offset + i - 1]]
            [] id = CodeId -> [i \in 1..Len(c.functions) |-> << >>]
            [] OTHER -> <<"item">>]
        ids == SelectSeq(Standard, LAMBDA id : id \in DOMAIN items \ c.missing)
        own == [i \in 1..Len(ids) |-> [id |-> ids[i], items |-> items[ids[i]]]]
        customs(at) == IF c.custom = at THEN <<[id |-> CustomId, items |-> << >>]>> ELSE << >>
    IN [sections |-> customs("first") \o own \o customs("last"),
        marks |-> UNION {MarksOf(c.functions[i].name) : i \in 1..Len(c.functions)}
                  \cup UNION {MarksOf(c.imports[i].name) : i \in 1..Len(c.imports)}
                  \cup {c.imports[i].module : i \in 1..Len(c.imports)},
        number |-> c.number, args |-> c.args, environment |-> c.environment]

Numbered(m, bytes) == [m EXCEPT !.number = bytes]
Called(m, args, environment) == [m EXCEPT !.args = args, !.environment = environment]

Holds(types, list) == \A i \in 1..Len(list) : list[i].type \in Lists!ToSet(types) \cup {Limits}

-----------------------------------------------------------------------------
(* Families of sources *)

Plain(imports, functions) == Module(AllTypes, imports, functions, {}, {}, "", << >>)
Full == MainArgs \o <<Ctors>> \o Stack
Word == <<1, 1>>

\* Every list of imports, with sections around those that are edited.
Programs ==
    UNION { UNION { { Module(types, imports, functions, {}, extra, custom, << >>) :
                        extra \in {{}, {MemoryId}, {6}, {13}, {DataCountId, DataId}},
                        custom \in {"", "first", "last"} } :
                    types \in {t \in TypeTables : Holds(t, imports) /\ Holds(t, functions)} } :
            imports \in UNION {WithMemory(list) : list \in ImportLists},
            functions \in {MainArgs, Full} }

\* Every list of exports, with and without arguments.
Launched ==
    UNION { { Module(types, imports, functions, {}, {}, "", args) :
                types \in {t \in {AllTypes, Without(NoArguments)} : Holds(t, functions)} } :
            imports \in {<<Tzset(3)>>, <<Memory("memory"), Resize>>, <<InvokeVII, Memory("other")>>},
            functions \in FunctionLists, args \in {<< >>, <<Word>>} }

\* Arguments: empty, of every length modulo the padding, with a NUL, too long.
Strings == {<< >>, <<1>>, <<1, 1, 1>>, <<1, NUL>>, [i \in 1..12 |-> 1]}
ArgumentLists == {<< >>} \cup {<<a>> : a \in Strings} \cup {<<a, b>> : a, b \in Strings}

GoFunctions ==
    <<Function("run", I32s(2), << >>), Function("runtime.wasmExit", OneI32, << >>)>>
GoImports == <<Import("go", "syscall/js.valueGet", OneI32, << >>)>>
Arguments ==
    {Called(m, args, environment) :
        m \in {Plain(<<Resize>>, Full),
               Module(AllTypes, GoImports, GoFunctions, {}, {DataId}, "", << >>)},
        args \in ArgumentLists, environment \in {<< >>, <<Word>>, << <<1, NUL>> >>}}

\* Numbers, in all encodings of up to three bytes and some of four.
Numbers ==
    {Numbered(Plain(<<Resize>>, MainArgs), bytes) :
        bytes \in Lists!BoundedSeq(Byte, 3) \cup {<<a, b, c, 1>> : a, b, c \in {4, 7}}}

Twice(list) == list \o list

Others ==
    LET libraries == {"luaL_newstate", "sqlite3_initialize"}
        library(name) == <<Function(name, << >>, << >>), Ctors>>
    IN { Module(AllTypes, imports, functions, missing, {}, "", <<Word>>) :
           imports \in {<<InvokeVII, Resize>>, Twice(<<Memory("memory"), InvokeVII, Resize>>)},
           functions \in {Full, <<Ctors>>} \cup {library(n) : n \in libraries}
                         \cup {Tail(library(n)) \o library(n) : n \in {"luaL_newstate"}},
           missing \in {{}, {TypeId}, {FunctionId}, {ExportId}, {CodeId}} }
       \cup { Module(AllTypes, GoImports, functions, missing, extra, "", << >>) :
           functions \in {GoFunctions, Tail(GoFunctions), GoFunctions \o <<Start>>},
           missing \in {{}, {TypeId}}, extra \in {{}, {DataId}} }
       \cup { Plain(<<Import("rb-js-abi-host", "eval", OneI32, OneI32)>> \o imports, functions) :
           imports \in {<< >>, <<FdWrite("wasi_snapshot_preview1")>>},
           functions \in {<<Function("_initialize", << >>, << >>),
                            Function("ruby-show-version: func() -> ()", << >>, << >>)>>,
                          <<Function("ruby-show-version: func() -> ()", << >>, << >>)>>} }
       \* Of no kind: no main, or glue of its own.
       \cup { Plain(imports, functions) :
           imports \in {<<FdWrite("wasi_unstable"), Resize>>, <<Resize, InvokeVII>>,
                        <<FdWrite("wasi_unstable"), Tzset(4)>>},
           functions \in {<<Ctors>>, MainArgs \o <<Function("_embind_register", << >>, << >>)>>} }

MCCase == Programs \cup Launched \cup Arguments \cup Numbers \cup Others

\* A module of no kind that names wasi_unstable and imports its memory.
UnknownCase ==
    {Plain(list, functions) :
        list \in WithMemory(<<FdWrite("wasi_unstable"), Resize>>),
        functions \in {<<Ctors>>, Stack, <<Start>>, MainArgs}}
=============================================================================
