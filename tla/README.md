# wago-emscripten, specified and checked

TLA+ modules, model-checking configurations and machine-checked proofs about
the Wago provider for Emscripten and Go js/wasm modules. Paths below are
relative to `src/`. `PROJECT.json` gives the code lines behind every
definition; the comments in the modules say what a definition leaves out.

## The system

A *plugin* (`plugin.go`) registers host functions with the Wago runtime. Each
running Wasm module is an *instance*; the host functions an instance imports
are called on its own stack, one at a time, and may call back into the guest
(`invoker.Invoke`). All state is per instance, in two maps keyed by the
instance's identity, made on first use and removed when the instance closes or
the plugin stops.

| Component | Source | State | Operations | Interacts with |
|---|---|---|---|---|
| In-memory filesystem | `filesystem.go` | files, directories, descriptor table, `nextFD`, byte count, mappings | about 40 syscalls and WASI calls | `mmap`/`munmap` call the guest's allocator; everything under `plugin.mu` |
| Go js/wasm ABI | `gojs.go` | value table, `nextID`, host objects, `goState.mu` | stringVal, valueGet/Set/Index/Call/New, copyBytes, exit, clocks | `fs.read`/`fs.write` re-enter the guest by its `resume` export |
| Emscripten ABI | `emscripten.go` | none of its own; `tempRet0` on the way | invoke/longjmp, heap growth, time, arguments, registration of the file calls | calls the trampolines the transformer adds; the guest's stack pointer and `__THREW__` are in its hands meanwhile |
| Module transformer | `transform.go` | none: a function from module bytes to module bytes | LEB128, section edits, trampolines, argument encoding | runs before instantiation |
| Plugin lifecycle | `plugin.go`, `register/` | `states`, `files`, configuration | configure, start, stop, close observer | creates and drops all of the above |
| Ruby imports | `ruby.go` | none | fixed answers | |
| Corpus fetcher | `cmd/corpusfetch/main.go` | files in the output directory | download, check, extract, install | a program of its own; the tests read its outputs |

What is hard, and what makes each part correct:

* **Filesystem.** A file object is held by a name, descriptors and mappings, and
  its bytes go back to the quota when the last of them goes, whichever call that
  is. The byte count is adjusted by differences in a dozen places. Calls can
  fail half way (writes of several vectors), wrap (`int64` offsets, `int32`
  descriptors), or panic. Correct: the count is exact, no file is released under
  a holder, names and `linked` agree, failing calls leave no trace.
* **Go ABI.** A host call lets its lock go in the middle, the guest runs, makes
  further host calls, exits or traps. Correct: references keep their meaning, the
  guest never runs under a held lock, each call keeps an event of its own.
* **Corpus fetcher.** It can be killed anywhere and run twice at once. Correct:
  an output is never torn or unchecked, temporary files go away, it ends.
* **Emscripten invoke.** A `longjmp` goes out through nested invoke handlers, one
  hop at a time, with guest code between the hops. Correct: it amounts to one
  jump, it lands, exits and traps are not taken for one, and wherever guest code
  runs the stack pointer is that activation's own. **Heap growth.** What is
  granted is there.
* **Transformer.** Eight stages edit the same sections, each for some kinds of
  module only, and indexes depend on how many functions were imported. Correct: a
  valid module stays valid, imports are answered by functions of their types,
  `_start` runs the program with its arguments, numbers survive.
* **Lifecycle.** State must not outlive its instance.

## Modules

| Module | What it is |
|---|---|
| `Ledger` | Abstract specification of the filesystem's promise: file objects with sizes whose total never passes a quota, one resized at a time |
| `FileSystem` | The filesystem: one action per handler; its properties; the refinement of `Ledger` |
| `FileSystemClaims` | Statements of the repository that the code does not keep |
| `MCFileSystem` | Argument sets and small constants for TLC |
| `LedgerProofs`, `FileSystemProofs` | Sums of sizes; types, the byte count and the refinement proved |
| `HolderProofs` | Names, references, descriptors and directories proved, and the action properties about content |
| `GoJS`, `MCGoJS` | The Go ABI with re-entry, its properties, and two broken claims |
| `GoJSProofs` | All its safety properties proved |
| `CorpusFetch`, `MCCorpusFetch` | The fetcher, with concurrency and kills |
| `CorpusFetchProofs` | Its safety properties proved |
| `NonlocalJump` | Abstract specification of `longjmp`: a stack of activations, of which a jump cuts off all above its target in one step |
| `Invoke`, `MCInvoke` | The invoke handlers, the guest's jumps through them, the growth of its heap; the refinement of `NonlocalJump` |
| `InvokeProofs` | Its safety properties and the refinement proved |
| `WasmCodec` | LEB128 and the argument layouts as operators, with what they should mean |
| `Transform`, `MCTransform` | The transformer's stages, and the modules they are tried on |
| `CodecProofs` | What the codec and the argument layouts compute, proved |
| `TransformProofs` | All of the transformer's properties proved: a valid module stays one, its imports are answered, its `_start` runs the program with its arguments, numbers survive |

### FileSystem

`files`, `dirs`, `fds`, `nextFD`, `bytes` and `mappings` are the fields of
`fileSystem`; `inode` is the Go heap, the `memoryFile` objects those maps point
to (content, `linked`, `refs`). An object without name, descriptor and mapping
is garbage to Go; the model gives its identity out again (`Settled`). `ret` is
the reply to the last call, `"PANIC"` when a handler panics, after which the
guest makes no further call.

Each handler is one action: a disjunct `Fail(...Error(...))` with the early
returns in the code's order, and one for the effect. One action per handler is
right because an instance runs on one goroutine and nobody else has its
`fileSystem`: `fallocate`, which takes the lock twice, and `mmap`, which calls
the guest's allocator between two critical sections, are single steps. `dup`
copies the handle by value, as the code does, so offsets are not shared.

Left out: the stdio streams, stat formatting, `getcwd`, `ioctl`, `readlinkat`,
environment calls, `fallocate` with a mode (ENOSYS), an unknown whence (EINVAL),
failure to resolve the calling instance, more than two vectors in a write.
A result the guest gave no writable place for is an error in the model as in the
code (EFAULT), which of its places it was is not told.
Known and not stated as a property: a directory may be renamed below itself
(`filesystem.go:454`), `munmap` drops its writeback at the quota and still
answers 0 (`filesystem.go:1144`), and descriptor numbers wrap to negative ones
after 2^31 opens or duplicates (`filesystem.go:167`): the model wraps them in
the `F_DUPFD` search and `DescriptorLimit` counts them whatever their sign.
Bounds of the model that the code does not have: `FdBound` (opens stop there)
and `SeekBound` (no seek aims further).

### GoJS

`values`, `nextID` and `mu` are `goState`; `fields` and `elements` the host
objects and arrays; `memory` the places in guest memory that hold references,
and `meant`, a history variable, the values they were stored for. `frames` is
the stack of guest runs that `resume` started. A host call is one action guarded
by the lock being free: `mu` is true in a state only when a handler ended
without unlocking. `FsCall` is the first half of `goAsyncFSCall`;
`ResumeReturns` and `ResumeFails` are the second. A frame notes, as history, the
callback its call was given. The guest is external: its assumed discipline is
that of Go's `syscall/js`, which takes and clears `_pendingEvent` before it does
anything else in a resumed run, and of whose properties it writes others than
`fs`, `id`, `args` and `_pendingEvent` (`SetPropAssumption`): what it writes into
an event is its `result`. A guest trap
unwinds as an exit with a nonzero code does.

Left out: contents of byte arrays and strings, clocks, randomness, `wasmWrite`,
timeout identifiers, the success bytes of calls, a guest stack that moves during
`resume`. Bounds: `IdBound` and `CallBound`.

### CorpusFetch

Each step of a fetcher between two effects on the directory is an action, so a
kill can fall between any two. An error return runs the deferred removals in the
same step: a kill in between leaves no more than a kill before it. Contents are
the classes the checks distinguish. Temporary names are unique. Bounds: three
lock entries and `MaxCrashes`.

### Invoke

`frames` is the stack of guest activations, each with the stack pointer it runs
at (`home`), whether it called `setjmp`, whether an invoke handler called it and
what that handler read as its `stack`. `sp` and `threw` are the guest's stack
pointer and `__THREW__`; `err` is the Go panic on its way; `exports` is which of
the three exports the handler relies on the module has, all eight choices.
`plugin.invoke` is two steps, for the guest runs in between: `InvokeCallback` up
to the trampoline's call, and `HandlerEnds` after it, with one disjunct for
each way it can end. The guest's half (`SetThrew`, `Longjmp`, `CheckThrew`,
`Unwind`) is what Emscripten generates and is marked external.

`Invoke` implements `NonlocalJump`: the refinement shows the guest the stack up
to the jump's target from the moment of the throw, so that every hop is a
stutter, and no stack at all after an exit or a trap. Without the exports a
jump does not get its stack back (`emscripten.go:217`); `OwnStack` then says
only that the stack pointer has not fallen below its activation.

`ResizeHeap` is the handler and the body `transform.go:458-469` generates for
it, with a small page and address space; whether `memory.grow` succeeds is open,
up to `MaxPages`. The guest is its `sbrk`, which asks only for what it lacks.

Left out: arguments and results of callbacks, clocks and time conversion,
console output, `memcpy`, `setTempRet0`. Bounds: `MaxDepth`, `StackSize`.

### Transform

A module is a sequence of sections, a section a sequence of items: types are
records of parameters and results, imports and exports records, bodies sequences
of the instructions that matter. `stage` says which function of `transform.go`
is next; each is one action with a failing disjunct (`Fail`) where the code
returns an error, and the trampolines are added one step each, in the order of
`sort.Strings`, which is that of `InvokeNames`; `todo` is the set of those that
are left. `SourceAssumption` says what any source is, valid or not: sections with
numbers below 14, entries with their fields, and invoke names that stay apart
behind the prefix and are none of the transformer's other names, nor of those a
launcher looks for (`Sought`). `source.marks` are the strings `classifyModule` finds in the
bytes. The bytes themselves appear where their value can go wrong: `WasmCodec`
decodes and encodes LEB128 for any width, and lays out `argv`; one number,
`source.number`, stands for all that are decoded and written again.

Left out: names' lengths, descriptors' limits, instructions of existing bodies,
more than 16 sections
(where Go's `append` may share the array that `insertStandardSection` shifts),
and the count in a DataCount section, which `addStartLauncher` leaves as it was
when it adds a segment. A module that already exports a name the transformer
adds comes out with that name twice; `StaysValid` is about the others. A narrow `_gmtime_js` has no binding
(`emscripten.go:72`), so `ImportsAnswered` is not asked of it.

## Runs

| Run | Question | Instance and bounds |
|---|---|---|
| `namespace` | Do names, directories, descriptors and byte count stay consistent? `QuotaExact`, `RefsCoverHolders`, `LinkedIffNamed`, `DescriptorLimit`, `FilesHaveParents`, `LeakOnlyByClobber` | paths `a`, `b`, `a/b`, the root and an unreadable one; two objects, two bytes; descriptors up to 5, so that the `F_DUPFD` search wraps, limit 5 (two above stdio). Files are replaced while open, directories renamed and removed with files below |
| `content` | Are content, count and references right after partial writes, writebacks and panics? `TypeOK`, `QuotaExact`, `RefsCoverHolders`, `AppendKeepsContent`, `FailureIsClean`, `LeakOnlyByClobber`, `MunmapAllOrNothing`, `LedgerSpec`, `WritesEndAtOffset` | two objects, two bytes, writes of one vector or two, or with a list that cannot be read, positioned I/O, seeks, one mapping, `MaxInt64` small, so that a mapping end and a seek overflow |
| `open` (violation) | Is a duplicate the caller's until it closes it? | an open hands out `nextFD`, which a dup already uses |
| `rename` (violation) | Does a rename keep the file? | renaming a file to itself deletes it |
| `gojs` | References, lock and events under re-entry: `TypeOK`, `RefsKeepMeaning`, `LockFreeForGuest`, `EventsStayOwn` | three places in memory, four new ids, two callbacks, two nested calls, and a guest that writes results into what it reads: the shortest run in which a callback itself calls `fs.write` and takes its event |
| `exit_final` (violation) | Does `wasmExit` end the command? | exit 0 inside a resume is taken for a return |
| `exit_ends` (violation) | Does a nonzero exit end the command? | two resumes deep it waits for its own lock |
| `corpus` | `TypeOK`, `OutputsWhole`, `DoneMeansInstalled`, `NoLitter`, `Terminates` | two fetchers, two quick items and one unsafe one, one kill and restart |
| `invoke` | Is a chain of hops one jump, on the right stack? `OwnStack`, `ThrewMatchesReturn`, `HeapBacked`, `JumpSpec`, `JumpLands` | six activations: a jump over two `setjmp` activations that are not its target; eight places of stack, so that two levels can be lost; pages of 4 in an address space of 16, three of them the maximum, requests at, below and above page ends |
| `heap` (violation) | Is the target the ceiling? | a request in the last page of the address space wraps to 0 pages and is granted |
| `transform` | Does a valid module stay one, with its imports answered and its program run? `StaysValid`, `ImportsAnswered`, `StartRunsProgram`, `NumbersKept`, `ArgumentsReadBack` | some 4,600 modules: 45 lists of imports with the memory first, last or not imported, four type tables, sections around, all 72 combinations of entry points, constructors and stack exports, five kinds, missing sections; all five-bit numbers in all encodings of up to three bytes; argument lists around the area's end |
| `unknown` (violation) | Does a module of no known kind keep its imports? | with `wasi_unstable` in it, it loses `env.memory` |

Why small is enough: the filesystem's hazards involve one or two file objects,
two names and three holders; every arithmetic boundary (quota, descriptor limit,
the two integer widths) is moved down to where the instance reaches it. The
deadlock check is off where the system may stop: after a panic (`content`), after
an exit (`gojs`, `invoke`), when all fetchers are over (`corpus`), when a module
is done (`transform`). The transformer's index arithmetic does not know how many
functions there are, only which were imported and which defined, and its codec
not how many bits a number has, only where the last byte ends: a few of each, in
every order, are enough.

Every property of a passing run is also known to fail for some plausible bug of
the code: the operators marked *Mutant* are those bugs, and `PROJECT.json` says
which one breaks which property.

### Fairness

`CorpusFetch!Spec` assumes that a fetcher that is not killed goes on: its loop
has no waiting but for the network, and `http.Client{Timeout: 5 * time.Minute}`
(`main.go:65`) bounds that. `Invoke!FairSpec` assumes that a panic unwinds and that
the guest, back from an invoke, gets to its check of `__THREW__`, which is
straight code; no fairness for what the guest chooses to do. `GoJS!FairSpec` assumes that a panic unwinds, which
needs nobody's cooperation. The other specifications have no liveness and no
fairness: a guest may stop calling at any time.

## What the violations say

`FileSystemClaims` and the last parts of `GoJS`, `Invoke` and `Transform` quote the
line each claim comes from. In short: `openat` takes `nextFD` without looking
(`filesystem.go:167`); renaming a file to itself removes it
(`filesystem.go:465-466`); exit code 0 in a nested run is swallowed
(`gojs.go:553`); the panic for any other code leaves the lock held, on which the
next handler out waits (`gojs.go:550-554`); heap growth rounds up in 32 bits, and
a request in the last page is granted without growing (`transform.go:462`); a
module of no known kind that names `wasi_unstable` loses its imported memory
(`transform.go:217-223` and `43`).

## Proofs

A theorem holds for every value of the constants that meets the assumptions of
its module; the run that checks the same property shows it on a small instance.
Every invariant, action property and refinement that a passing run checks is
proved; liveness is left to TLC.

### The filesystem

For every number of objects, paths, descriptors and mappings and every quota,
from the assumptions of `FileSystem` only: finitely many objects, quota within
`int64`, at least three descriptors, arguments of the types the ABI gives them,
writes of at most two vectors.

`FileSystemProofs`:

* `TypeCorrect`: `Spec => []TypeOK`
* `QuotaIsExact`: `Spec => []QuotaExact`
* `ImplementsLedger`: `Spec => LedgerSpec`, the refinement of `Ledger`

`QuotaExact` alone is not inductive. A handler knows the byte count only by
differences, so a step needs that one object's size changes by exactly what the
handler adds (`LedgerProofs!TotalUpdate`), and it needs types (a wrapped `int64`
end, a view as long as its mapping) to know that the sizes it adds are the sizes
it sees. The invariant is `TypeOK`, `QuotaExact` and that sizes are those
`Ledger` knows. There is one lemma per handler, each of which shows the type of
every variable the handler changes, the new total, and that the step is a
`Ledger` step or leaves all sizes alone; `Invariance` and `ImplementsLedger`
combine them. Totals are cardinalities of sets of cells, one cell for each byte
held, rather than recursive sums, because the provers cannot do induction over
data. That they behave as sums is what `TotalOfNothing` and `TotalUpdate` say:
nothing held is zero, and changing one size moves the total by the difference.

`HolderProofs`:

* `HoldersAreCovered`: `Spec => []RefsCoverHolders`
* `LeaksAreKnown`: `Spec => LeakOnlyByClobber`
* `WithinDescriptorLimit`: `Spec => []DescriptorLimit`
* `MarksMeanNames`: `Spec => []LinkedIffNamed`
* `ParentsStay`: `Spec => []FilesHaveParents`

A file's *slack* is its references less the descriptors and mappings that hold
it. A handler changes what at most one descriptor or mapping points to, and
moves the counts of the file it pointed to and of the one it points to now
(`Moved`); the number of holders moves by the same amount (`SlackMoves`), so
slack stays, except where an open puts a file at a descriptor in use. In the
same way a handler gives, takes or moves at most one name, and the mark with it
(`Named`).

and, about content:

* `FailuresAreClean`: `Spec => FailureIsClean`
* `AppendsKeep`: `Spec => AppendKeepsContent`
* `UnmapsWhole`: `Spec => MunmapAllOrNothing`
* `WritesEnd`: `Spec => WritesEndAtOffset`

Each step is shown to be of one of a few kinds (`NextEffect`): it keeps the
content of every file or drops it whole, resizes one file, writes through one
descriptor, or ends a mapping. The first three properties are read off the kinds.
The fourth follows what a write does one vector at a time (`PutOutcome`,
`PutAllOutcome`): two vectors written after each other are one longer vector
(`OverwrittenTwice`), and a write that stops has put in the first of them.

### The Go ABI

`GoJSProofs`, for every number of slots, ids and nested calls and every set of
callbacks and exit codes (`GoAssumption`: they are numbers of their kinds;
`SetPropAssumption`: above; `ArgAssumption`: what the guest stores is a reference, and where, an integer):

* `TypeCorrect`: `Spec => []TypeOK`
* `ReferencesStand`: `Spec => []RefsKeepMeaning`
* `GuestRunsUnlocked`: `Spec => []LockFreeForGuest`
* `EventsAreOwn`: `Spec => []EventsStayOwn`

`RefsKeepMeaning` needs to know why a later store does not hit an id that memory
holds: every such id is below `nextID`, or one of the seven that `goState`
begins with (`Table`); and that a value that is encoded without an id has one
encoding only, which the types do not say (`Proper`). Reads of properties keep
to this because objects hold such values too (`Heap`). `EventsStayOwn` needs that
no run on the stack is of a call still to be made (`CallsBegun`), so that the
event a new call writes is none of theirs.

### Emscripten invoke

`InvokeProofs`, for every depth, stack, page size, maximum and set of requests
below the address space, which is a multiple of pages (`InvokeAssumption`):

* `StackIsOwn`: `Spec => []OwnStack`
* `ThrewIsRight`: `Spec => []ThrewMatchesReturn`
* `HeapIsBacked`: `Spec => []HeapBacked`
* `ImplementsJump`: `Spec => JumpSpec`, the refinement of `NonlocalJump`

What each activation looks like while a panic goes through it: stack pointers
rise along `frames`; what a handler read as `stack` is the home of the
activation below its callback; an activation is called by a handler exactly if
the one below it called `setjmp`; the stack pointer is not below the newest
home; and a jump on its way has its target below it. The last two make a hop
land: a jump meets a handler before it has left its target, and the handler
puts back the stack of the activation it returns to.

### The transformer

`TransformProofs`, for every source, set of invoke imports and argument list,
from `SourceAssumption`:

* `KeepsValid`: `Spec => []StaysValid`
* `ImportsAreAnswered`: `ImportsAnswered`, for valid modules that export none of
  the added names and whose imports, renamed, have the types the plugin binds
  (`ImportsBound`: what the guest imports is the guest's; in the run they have, or
  the transformer refuses them)
* `KeepsNumbers`: `Spec => []NumbersKept`
* `ArgumentsAreRead`: `Spec => []ArgumentsReadBack`
* `StartRunsTheProgram`: `StartRunsProgram`, for valid modules that export none of
  the added names and whose conventional functions have their types
  (`Conventional`). The code checks the type of `main` and of nothing else it
  calls: `_initialize`, `run`, `__wasm_call_ctors` and the three stack functions
  are called with the operands their toolchains give them, and a module that
  gives one of them another type can come out invalid. All modules of the run that
  get a launcher are conventional, with every combination of them

The first invariant says of each stage from the imports on that the sections are
valid and `functionCount` counts their imported functions (`StagesSound`); that
the imported memory that was taken is the one that is missing until it is
defined (`MemoryOwed`); and that the names still to be exported are free
(`NamesFree`). One lemma for each kind of edit shows that it keeps a module
valid: a function more (`SoundWithFunction`), another item
(`SoundWithItem`), the rewritten imports (`SoundRewritten`), and a memory
section where `Inserted` puts it (`SoundWithMemory`), which is where the order
of the numbers and the order of the standard must be compared. `First` and
`Last` take the least and the greatest of a set of places; that there is one is
`FirstIsLeast` and `LastIsGreatest`.

The second (`Answers`) says from the imports on that the sections import what
the source does, renamed, by types that have not moved (`ImportsStand`), and
that every trampoline that is no longer in `todo`, and after its stage the growth
wrapper, is behind its export with its type and its last instruction
(`TrampolinesStand`, `ResizeStands`). A function that is added is there
(`AddedIsOffered`), which is where the counts of imported and of defined
functions must agree; and it stays there, because each later stage only appends
to the four sections that indexes refer to (`Grows`, `OfferedOn`).

The launcher is found in four steps. No stage adds an export that a launcher
looks for, or moves the function, type or index behind one (`NamesStand`,
`Keeps`, with a lemma for each kind of edit that does not need a valid module).
So a `_start` that is added is the one that was written for functions of the
source, and nothing changes it afterwards (`StartAdded`, `LauncherAdds`), and
`Main`, its type and the stack functions are what the launcher saw
(`LaunchedKeeps`, `MainStays`, `LaunchedUses`). For the arguments that is all:
the launcher refused what the codec does not lay out right. For the calls the
body is taken apart as it is put together: `Runs(code, p, S, a, b)` says that
code calls the functions of `p` in their order and otherwise only those of `S`,
and takes the operand stack from height `a` to `b`; it holds of single
instructions (`RunsOwn`, `RunsOther`, `RunsMove`) and of one piece of code
behind another (`RunsOn`), hence of the whole body in each combination
(`StartRuns`, `MainRuns`). `HeightsAre` says that the heights so found are those
the recursive function computes, and `CountStands` that `functionCount`, which
the code uses, is what the finished module imports.

`CodecProofs`, from `CodecAssumption` alone (positive widths):

* `ReadIsExact`: `ReadU32` gives the number that is denoted at the front of any
  bytes and its length, or nothing if none is
* `WrittenIsExact`, `WrittenSignedIsExact`: what `AppendU32` and `AppendS32` write
  denotes the number
* `GoArgumentsRead`, `EmscriptenArgumentsRead`: strings of any number and length
  that the two encoders accept are read back from what they lay out, which is
  aligned and fits into the area

The codec computes by recursive functions of a natural number. That such a
function exists is proved once (`Recursion`), by gluing together the functions
on intervals; what it computes is proved without an induction theorem, by
looking at the least argument at which it would not (`LeastElement`, from the
well-foundedness of inclusion between finite sets).

### The corpus fetcher

`CorpusFetchProofs`, for every number of fetchers, lock entries and kills, from
`FetchAssumption` alone (finitely many fetchers):

* `TypeCorrect`: `Spec => []TypeOK`
* `InstallsAtomically`: `Spec => []OutputsWhole`
* `SuccessMeansInstalled`: `Spec => []DoneMeansInstalled`
* `RemovesTemporaries`: `Spec => []NoLitter`

None of the last three is inductive. A rename keeps `OutputsWhole` only if what
it installs passed the checks, so the invariant says what a fetcher has on disk
at each place (`Files`). "Done" means installed only if every step of the loop
left the items before it installed, whatever the other fetchers do to the same
outputs in between (`Progress`, which needs `OutputsWhole` for the cached files
it skips). Litter is bounded by the kills only because a kill meets at most two
files (`TwoTemporaries`), and a fetcher that is over has none (`Files` again).

### Only model-checked

Liveness, since the prover has no fairness: `Terminates`, `JumpLands`. The six
violations are counterexamples, which TLC shows.

## Plan

Done: all modules above, with proofs of every safety property. What would come
next:

1. The type of every function a launcher calls, as a guard in the code; then
   `Conventional` is no longer a hypothesis.
2. The data segment of a Go module without a data section (`transform.go:701`),
   as a property, when the code says what it should do.

## Not modelled

`plugin.go` keeps two maps from instances to their state, under one mutex: each
of its critical sections is one map operation, an instance runs on one goroutine,
and instances share nothing else. Whether a host call can still run after its
instance was closed or the plugin stopped, and would make the state anew, depends
on the runtime, which is not in this repository. Its configuration is parsing and
range checks. `ruby.go` answers constants; clocks, time conversion, randomness and
stdio are pure functions or pure I/O; `wago.json` and the manifests are data; the tests and fixtures are read for what
they promise. The Wago runtime, guests and the network are external and appear
as far as the code sees them.

## Running it

    tlc -config FS_namespace.cfg MCFileSystem.tla  # likewise the other cfg files
    tlapm FileSystemProofs.tla                    # and the other Proofs modules
