# Verification of go-llvm-jit

The repository is a small jit written in Go: `jit/jit.go` emits LLVM IR for two
sum kernels, `llvm/` holds the Go bindings of LLVM's C interface (with some
C++ additions for jit engines), and `emitable/sum.c` is the C code the kernels
are modelled on.  This directory holds TLA+ models of the parts that carry
behaviour of their own, TLC configurations that check them on small instances,
and TLAPS proofs for every value of the constants.

## 1. Inventory

| Component | Source | State | Operations | Module |
|---|---|---|---|---|
| Kernel code generator | `jit/jit.go` | the function under construction, the builder's insertion point | `CodegenSumInt64`, `CodegenSumFloat64`, `buildLoop` with its body callback, `buildArrLoad` | `Codegen`, `LoopNest` |
| Kernel execution | the emitted code, `llvm/lljit.go:110`, `JitEngines.cpp:124-140` | registers, stack slot and position of each call; the partial sums of a reassociated addition | one step per instruction or iteration, `RunFunctionAddressWithArgPtrs` | `KernelExec`, `FloatKernel` |
| Reference kernels | `emitable/sum.c`, the Go loop of `jit_test.go` | index, partial sum | call, iterate, return | `SumReference`, `FloatKernel` (`Sequential`) |
| Instruction builder | `llvm/ir.go` | blocks, instructions, operands, the insertion point of each builder | the `Create` methods, `AddIncoming`, `SetInsertPoint`, `MoveAfter`, `ReplaceAllUsesWith`, `RemoveFromParentAsInstruction`, ... | `IRBuilder`, `FunctionEditing` |
| Verifier | `llvm/analysis.go` | none | `VerifyModule`, `VerifyFunction` | `IRVerifier` |
| Ownership and the two jits | `llvm/lljit.go`, `executionengine.go`, `JitEngines.cpp`, `target.go`, `irreader.go`, `linker.go`, `bitreader.go`, `bitwriter.go`, parts of `ir.go` | the native objects, who owns them, the symbol table of a jit | constructors, `Dispose`, `AddModule`, `RemoveModule`, `Lookup`, `LinkModules`, ... | `JitOwnership` |
| Concurrent use of an `LLJitEngine` | `lljit.go:81-116`, `jit.go` | what each goroutine is doing, the program's lock, the session's list of modules, how far each module got | build, add, look up, look up again, call | `LazyJit`, `ConcurrentJit` |
| Pass managers | `ir.go:1984-2023`, `transforms_*.go` | the passes and the objects they point to | `Add...Pass`, `Populate`, `Run` | `JitOwnership` |
| Type printer | `llvm/string.go` | the memo of a `typeStringer` | `Type.String`, `typeString` | `TypeString` |
| Bitcode reader | `llvm/bitreader.go` | none | `ParseBitcodeFile...` | `JitOwnership` |
| Debug-info builder | `llvm/dibuilder.go` | the graph of metadata nodes, the unresolved nodes the builder remembers, the scopes and the subprograms of functions | `Create...`, `TemporaryMDNode`, `ReplaceAllUsesWith`, `Finalize`, `Destroy`, `SetSubprogram`, `InsertDeclareAtEnd` | `DebugInfo`, `DebugScopes` |
| Debug locations | `ir.go:1349-1384`, `IRBindings.cpp:53-74` | the builder's current location, those of the instructions | `SetCurrentDebugLocation`, `GetCurrentDebugLocation`, `SetInstDebugLocation`, moves of the builder | `DebugLocation`, `DebugScopes` |
| Types, constants, globals, metadata, attributes | `llvm/ir.go` | none in Go | one-line calls | not modelled |
| Target registry and data layouts | `target.go` | the machines and layouts a program made; LLVM's table of targets | `CreateTargetMachine`, `CreateTargetData`, queries, `Dispose` | `JitOwnership`; the registry is not modelled |
| Support, version, link flags | `support.go`, ... | process-wide settings | one-line calls | not modelled |

How they interact.  `CodegenSum*` drive the instruction builder through one
`llvm.Builder` whose insertion point is shared with the callback that
`buildLoop` calls.  The finished module is handed, by pointer, to a pass
manager (which keeps a pointer to a target machine) and then to a jit, which
takes it over; the jit's `Lookup` compiles it and yields an address; the
address is called from Go, by any number of goroutines.  Everything is built in
LLVM's one global context.  A Go handle is a bare pointer: nothing records
whether its object still exists.

What is hard.

* *Callbacks that move shared state*: the insertion point, in `buildLoop`.
* *Ownership across a language border, with failures*: constructors that take
  their arguments before they fail; errors that are dropped; borrowed handles.
* *Boundaries*: the trip count zero, the word's width, vectors as long as a
  word can count.
* *Concurrent lookups*, and calls while others look up: a lookup looks like a
  query, but compiles, in the global context, whatever is on the session's list.
* *Reassociated additions*: LLVM may add the elements of the floating-point
  kernel in an order of its own, and the benchmark compares with `!=`.
* *Pointers into lists that change*: a builder stands before an instruction, a
  phi lists a block, an operand names a value, and either may be moved or erased.
* *A location that is carried along*: the builder keeps its debug location when
  it moves to another function, and an instruction may keep or lose its own.
* *Recursion through a memo*, in the type printer.
* *Replacement under aliases*: a debug type built over a temporary node changes
  when the temporary is replaced, and may become equal to another and vanish.

The list in `PROJECT.json` under `hazards` gives each one with its line and the
properties that cover it.

## 2. Modules

```
IRBuilder  <-- Codegen  <-- KernelExec  --refines-->  SumReference
    ^            ^              ^
    |            |          MCKernelExec, KernelExec_proofs
IRVerifier <-- LoopNest
                 ^
           LoopNest_proofs

Codegen <-- FloatKernel <-- MCFloatKernel, FloatKernel_proofs

JitOwnership <-- MCJitOwnership, JitOwnership_proofs

ConcurrentJit  --refines-->  LazyJit
    ^
MCConcurrentJit, ConcurrentJit_proofs

FunctionEditing <-- MCFunctionEditing, FunctionEditing_proofs

TypeString <-- MCTypeString, TypeString_proofs

DebugInfo   <-- MCDebugInfo
DebugScopes <-- MCDebugScopes
    ^ (both)
Debug_proofs
DebugLocation
```

**IRBuilder** has the operations of `llvm/ir.go` the jit uses, as operators on a
record (parameters, blocks, insertion point, next identifier).  A block is its
position, a value a small record.  Go's builder mutates; here every operation
returns the new function, so that the code generator reads as its source does.

**IRVerifier** says which functions LLVM accepts: every block ends in its only
terminator, phis match the incoming edges, every use is dominated by its
definition, operands have the right types.  It is written from the rules
`VerifyFunction` applies and is external to the repository.  The jit never calls
the verifier itself, which is why it is worth proving that it need not.

**Codegen** translates `jit.go`.  `buildLoop` is split at its callback into
`OpenLoop` and `CloseLoop`; `buildLoop` composes them for the kernels.

**LoopNest** is a state machine over `OpenLoop` and `CloseLoop`: the body of a
loop is any sequence of statements and further loops.  `nest` is the call stack
of `buildLoop`.

**KernelExec** executes the instructions of `CodegenSumInt64`, one per step, for
a set of concurrent callers.  `code` is the compiled function; it never
changes.  Words wrap at `2 * HalfRange`.  A read outside the
vector and the first contents of the stack slot are any word.

**SumReference** is the loop of `sum.c`: what a kernel promises.  The refinement
mapping of `KernelExec` reads `i` and `res` off the registers and the slot.

**FloatKernel** is the floating-point kernel as LLVM may compile it.  Whether the
addition may be reassociated is read off the code `CodegenSumFloat64` emits; if
so, a call holds partial sums, each under the first index it holds, and any two of
them may be added at any time.  A number is an integer with `Precision` significant
bits, rounded to the nearest even one (`Two`, `Exponent`, `Round`).

**JitOwnership** keeps two accounts.  `live`, `inside`, `refs`, `code` are what
the native side really holds; `owned` and `lent` are what a Go program can know
from the calls it made and the errors it got.  The program disposes what it
owns and uses what it owns or was lent.  `Touch` records in `bad` the dead
objects native code was made to use.  Actions of objects with the same
treatment share a definition (`Make`, `Dispose`); every failing branch is there
(`ok`).  ORC's materialisation is the step of `Lookup` that compiles and frees
the module.  The data layout and the machine of an `ExecutionEngine` are
objects that exist from its creation but are revealed with the first handle to
them (`Reveal`): their Go types have a `Dispose` that must not be called.
`MaxObjects` bounds how many objects with a handle are made.

An `LLJitEngine` also makes objects that no handle refers to (`Hidden`), and
loses them: `OrcThreadSafModuleWrap` a thread-safe context per module
(`lljit.go:100`), `AddModule` an error it does not read when the jit refuses the
module (`lljit.go:96`), `CreateLLJITFromCppImpl` a machine builder per call, that
succeeds or fails (`JitEngines.cpp:45`).  They are in `live` like all others.
`cause` is a history variable that names the module for which a context or an error
was made.  A module is refused for defining a symbol again or for a
data layout of its own (`LLJitRefuseModule`); which, `LossesBounded` and
the other properties do not tell apart.

**LazyJit** is what an `LLJitEngine` promises to goroutines that share it: a
module is compiled when it is first looked up, once and for all; a lookup gives
an address or an error, always the same.

**ConcurrentJit** has goroutines that share a jit.  A lookup is split into the
steps of ORC's session: put the module on the list of outstanding ones, take
modules from the list (any, whoever put it there) and compile, free and link
them until the list is empty, then wait for the symbol.  The list is a set
here, since nothing may depend on its order.  A link may fail, and then fails
for good, with what needs it.  A failure of the compiler itself is left out.
The program keeps three rules, which the invariants show to suffice: building,
adding and looking up happen under one lock of the program's; what a function
calls is looked up before it; without the lock a goroutine looks up again, or
calls, only what some lookup has returned.  The locks of LLVM's thread-safe
contexts are left out, because `OrcThreadSafModuleWrap` gives every module one
of its own, which nobody else takes.

**FunctionEditing** is a function that is edited while it is built, by several
builders: blocks made, inserted, moved and erased; instructions made, removed,
put back and erased; operands, incoming values and targets changed; values
replaced.  The actions do what LLVM's lists do.  What the program looks at first
is in rules that are local (`HasRoom`, `MayLink`, `MayUnlink`, `MayEraseBlock`,
`MayReplace`), in terms of calls the bindings have or of where the program put
its builders; the invariants are global, and say that these rules are enough.

**TypeString** makes the recursion of `typeString` an explicit stack and a text
a sequence of tokens.  The contexts are all those LLVM can build: a type
contains itself only through a named struct.  What a text describes is said by a
reader that takes it token after token (`Awaited`): it keeps what it still waits
for, the text of a type or a closing token, the next first, and has waited for
everything in the end.

**DebugInfo** is the graph of metadata nodes that `dibuilder.go` builds.  What
the Go code relies on is in LLVM and is modelled from its use here: one node for
equal contents (`Get`), temporaries, replacement, and the resolution of cycles
(`Settled`, `Unresolved`).  A call of `ReplaceAllUsesWith` goes on in steps, which
`replacing` keeps like a call stack: `ReplaceUse` gives the innermost
replacement's next user its new operand; a user that becomes equal to another
node is `leaving` and is itself replaced by that one (`Collide`), which is a
replacement inside the first; `EndReplace` deletes what has no users left.  The
program is one that knows its own calls and nothing else: `held` are the nodes
it may use, `over` the temporaries it knows a node is built over.  When it
replaces a temporary it drops the unnamed nodes
built over it, because they may be merged with others.  A Create method with a
list of operands takes the shortest list that can make a cycle.  `ReplaceUse` takes
the uses in any order: LLVM goes by an index that changes when a use is tracked
anew.  A builder begins without a compile unit (phase "bare") and may build types
then; its `Finalize` returns at once (`FinalizeNothing`) until `CreateUnit`.  A
temporary of the context may have an operand, and may stand in a struct's list of
elements.  The program gives
every struct and typedef a name of its own; the fields of dibuilder.go's records
that are no nodes (lines, sizes, flags) are part of a node's key.

**DebugLocation** has the current location of a builder.  `Restore` gives back
to `SetCurrentDebugLocation` what `GetCurrentDebugLocation` returned; `origin`
is a history variable.

**DebugScopes** follows the scopes and locations of two or more functions that
are built in turns.  The builder's location survives `SetInsertPointAtEnd` (the
program then no longer trusts it) but not `SetInsertPointBefore`; `Insert`
overrides an instruction's location when the builder has one.  The rules `Fits`,
`MaySay`, `MayKeep` and `Untouched` are what a program can check at a call; the
invariants are those LLVM's verifier checks of a complete module.  Its
specification is called `ScopesSpec`, so that `Debug_proofs` can extend it and
`DebugInfo` together.

The definitions marked "MUTANT" are mistakes the properties are there to catch;
nothing refers to them.

## 3. Runs

| Run | Configuration | What it shows |
|---|---|---|
| `loop_nest` | `MCLoopNest.cfg` | Up to 4 loops nested 3 deep, with 2 statements anywhere between: no block is left open or continued after its end, and the finished function passes the verifier. |
| `kernel_exec` | `MCKernelExec.cfg` | Two callers, words of 3 bits, four vectors: the sum is right with every overflow, reads stay inside the vector, the kernel refines the loop of `sum.c`, every call returns. |
| `kernel_empty` | `MCKernelEmpty.cfg` | *Violated*: on an empty vector the kernel returns a word from behind it. |
| `jit_ownership` | `MCJitOwnership.cfg` | Two modules with the same symbol, two machines, two layouts, two generic values, one of everything else, every error path: no use after free, one owner, stable addresses, and what is lost is bounded. |
| `type_string` | `MCTypeString.cfg` | All contexts of three types: the printer ends and its text denotes the type. |
| `type_token` | `MCTypeToken.cfg` | *Violated*: the panic in `TypeKind.String` is reachable, with a token type. |
| `debug_info` | `MCDebugInfo.cfg` | Up to six nodes, two of them temporaries, made before or after the compile unit: after any replacement no handle or operand dangles, equal nodes are one, and `Finalize` of a builder with a compile unit resolves all that is left. |
| `float_kernel` | `MCFloatKernel.cfg` | Eight vectors of three-bit floats, added in every order: equal to the sequential sum when all partial sums are exact, else within the error bound of any order. |
| `concurrent_jit` | `MCConcurrentJit.cfg` | Two goroutines and three modules, one of which calls the other two: nobody meets in the global context, calls reach linked code only, the jit refines `LazyJit`, every operation ends. |
| `function_editing` | `MCFunctionEditing.cfg` | Two builders, up to three blocks and three instructions, any sequence of edits: lists, operands, shape of the blocks and dominance stay right. |
| `debug_scopes` | `MCDebugScopes.cfg` | Two functions built in turns, with inlined locations, declarations and instructions that change function: what the verifier asks of debug information holds. |
| `debug_location` | `MCDebugLocation.cfg` | *Violated*: reading the location and setting it again loses a link of its inlining chain. |

Why the bounds are enough.

* Three levels and four loops contain a loop in a loop in a loop, and two loops
  in a row at each of the first two levels; every block a callback can leave the insertion point in is
  then reached.
* With three bits the words are -4..3.  The longest vector has the length 3, the
  largest word, so the last comparison happens at the boundary; the values
  overflow in both directions, at a partial sum and at the last one.  Two
  callers may be at different instructions, in different vectors; a call has its own
  frame in the model as on the machine's stack, so that two do not meet is assumed
  here and not a result.
* One machine consumed while another is in use is the situation of
  `jit_test.go:57-68`; two modules give one definition and one duplicate.
  Objects are made at most once, so the number of objects bounds the behaviours;
  `MaxObjects = 7` of those with a handle are made in one behaviour, which is as
  much as the properties relate: a jit and a module in it, an engine with another
  module and the two parts it lends, and a pass manager that points to the machine
  are seven.  There are two contexts and two errors, one for each module, and one
  machine builder, which no property relates to anything.
* Three-bit floats reach ties, cancellation and absorption with small integers,
  and vectors of up to five elements every shape of a tree of additions that
  matters to rounding.
* Two goroutines give every pair of steps that can meet; a function that calls
  two others puts up to three modules on the list and lets a link fail below a
  function that linked.
* In `function_editing` the entry and either two more blocks and two instructions
  or one more block and three instructions (`MaxSize = 5`): a branch around a
  block, a phi over it, and a value used through it.  At most one instruction is
  in no block (`MaxFloating`).  A builder that stands in the way and one that
  does not are two.
* In `debug_scopes` two functions, two subprograms and either two instructions or
  one and a lexical block (`MaxSize = 4`): an inlined location needs two scopes, a
  location in the wrong function two functions.
* Modules, machines, layouts and values in `jit_ownership`, blocks other than the
  entry and builders in `function_editing`, functions and subprograms in
  `debug_scopes` are interchangeable: no constant tells them apart, and these
  runs check no liveness, so symmetry is sound.
* Three types give recursion through one, two and three structs, and through
  pointers and functions between them.
* Six nodes hold a temporary, a pointer to it, a member of that type, the struct
  that contains the member and becomes the type, and a second pointer that is
  equal to the first only once the temporary is replaced.  Nodes of the other
  kinds do not form cycles of their own.  `MCAllowed` lets six nodes be made with one
  temporary, five with two, and four when a node of another kind (or a function and
  a variable of it) is among them.  `MaxBare = 4` nodes before the compile unit are
  enough for a cycle.
* A chain of two links is enough to lose one; the counterexample needs one.

Fairness.  `kernel_exec` assumes weak fairness of each caller's steps: a processor
goes on executing a call it has begun, and nobody is obliged to make a call.
`concurrent_jit` assumes weak fairness of a goroutine's steps inside an operation,
because Go's scheduler leaves no runnable goroutine behind, and strong fairness of
taking the lock, because `sync.Mutex` starves no waiter.  The other runs check
safety only.

Deadlock is checked where the system goes on for ever (`kernel_exec`,
`float_kernel`, `concurrent_jit`, `type_string`, `debug_scopes`).  It is not
where the system may rightly stop: construction of a function ends (`loop_nest`),
the supply of objects, nodes or instructions is used up (`jit_ownership`,
`debug_info`, `function_editing`), and a panic stops the printer (`type_token`).

## 4. Findings

* `jit/jit.go:116`.  The loop tests at its end, so an empty vector is read.
  `sum.c:6` and `jit_test.go:79` test first; the TODO at `jit.go:113` says that the
  comparison should be moved.  For vectors that are not empty the two loops are
  the same, which is the refinement `kernel_exec` checks.
* `llvm/string.go:50`.  The panic marked "unreachable" is reached for
  `TokenTypeKind`, which `ir.go:242` declares and `Context.TokenType` makes.
* `llvm/IRBindings.cpp:72`.  `GetCurrentDebugLocation` returns in `InlinedAt` not
  the location the current one is inlined at but the one *that* is inlined at.
  `ir.go:1375` promises the current location.

No document, comment or test promises the contrary of the following, so they are
not violated runs; the models contain them.

* `llvm/lljit.go:100`.  The context made for every added module is never disposed:
  the thread-safe module takes a share of it, and the bindings have no call that
  gives up the other.  The loss is one for a module (`LossesBounded`).
* `llvm/lljit.go:96`.  The error of `LLVMOrcLLJITAddLLVMIRModule` is neither
  returned nor consumed: the caller is not told, and the error is never freed.
* `llvm/JitEngines.cpp:45`.  The machine builder made with `new` is copied by
  `setJITTargetMachineBuilder` and never deleted.  Nothing bounds this loss but the
  number of calls.

## 5. Proofs

`JitOwnership_proofs` proves for any sets of objects and symbols
(`ObjectsAssumption`: the kinds of objects are disjoint, every module defines a
symbol):

* `TypeCorrect`, `NeverUsesAfterFree`, `BoundsLosses` (`LossesBounded`),
  `HasOneOwner`, `AddressesStable` (`AddressesAgree`), `AddressesKept`
  (`AddressesSealed`).

None of these is inductive.  The invariant `IInv` relates the two accounts:
owned objects are live; what is inside an engine or jit is live, not owned, and
in one of them only; a lent object is inside the engine that lends it; the
module an address points into has been compiled and freed and is still the
definition of its symbol.  Two patterns cover most actions and are proved once:
an exchange of owned objects for new ones (`ExchangePreserves`) and an engine
that takes owned objects in (`TakePreserves`).  `RemoveModule`, `EngineDispose`,
`LLJitAddModule`, `LLJitRefuseModule` and `Lookup` are proved one by one, with a
step per part of the invariant.  What is lost is bounded because a module that
`AddModule` was given is inside a jit or gone, and never the program's again
(`CausesTaken`): it is given once, and so causes one context and at most one error
(`CauseOnce`).  `Reveal`, which gives an engine a part it had all along, is a lemma of
its own.

`ConcurrentJit_proofs` proves for any sets of goroutines and modules and any
calls between them (`JitAssumption`): `TypeCorrect`, `OneInContext`
(`ContextExclusive`), `CallsSafe` (`CallsOnlyLinked`) and `IsLazy`, the refinement
of `LazyJit`.  `IInv` says who holds the lock while building and adding
(`LockHeld`), that the only module in flight is the one the lock's holder is
looking up (`InFlightWanted`, which the second rule gives), that it is on the list
or in one goroutine's hands (`TasksApart`), and that what was linked or returned
reaches linked functions only (`AllReady`).  Mutual exclusion follows although the
goroutines that re-look up take part in compiling: there is only ever one module
to take.

`Debug_proofs` proves of `DebugScopes`, for any sets of functions, scopes and
instructions (`ScopesAssumption`): `ScopesTypeCorrect`, `LocationsRight` (`LocationsInFunction`) and
`CallsRight` (`CallsLocated`).  The properties are about instructions in a block;
`ScopesInv` is about all that were made, since one that was taken out may come
back, and about the two locations the program may still use: the builder's while it is
trusted, and the saved one.

`KernelExec_proofs` proves for any word size, any callers and any vectors.  Its
first half is about the code: `KernelListed` says that what `CodegenSumInt64`
emits, call by call through the builder, is the function written out as
`Listing`.  The second half is about its executions: every step is one of the
cases of `Executed`, a relation between the frame of a call before and after.
`TypeCorrect` (`TypeOK`) needs no assumption on the vectors.  `KernelSums`
(`ResultIsSum`), `KernelReadsInBounds` (`ReadsInBounds`) and
`KernelImplementsReference`, the refinement of `SumReference`, have the
hypothesis `<< >> \notin Vectors`: on the empty vector they are false, which is
the first finding.  `IInv` says of each call where it stands in the listing
(`Positioned`) and what its registers and its slot hold there, in terms of the
partial sum of the elements before the phi's index (`Computes`).  That index is
below the length of the vector when the body begins, because the vector is not
empty and the comparison stopped the loop otherwise; the length is a word
(`ExecAssumption`), so the index does not wrap.

`LoopNest_proofs` proves for any number of loops nested to any depth:
`TypeCorrect`, `OnlyExitsOpen` (`OnlyPendingBlocksOpen`), `LoopsDominateBodies`
(`BodyDominated`) and `NestsVerify` (`FinishedVerifies`: the finished function
passes `IRVerifier`).  Dominance is about all paths, and `IRVerifier` computes
it as a least fixed point.  The proof ranks the blocks in the order in which the
insertion point entered them: every edge from an entered block goes to an
entered block whose rank is greater by one at most.  A path from the entry to a
rank therefore passes all lesser ones, and a block dominates those entered after
it.  `IInv` says that there is such a rank, along which operands precede their
uses (`Sound`), that every phi lists the edges into its block (`Matched`), that
the loop of each activation that waits begins with its phi (`Waiting`) and its
exit has not been entered, and that no other block is open (`BlocksOpen`).

`FunctionEditing_proofs` proves for any number of blocks, instructions and
builders: `TypeCorrect`, `PlacesAgree` (`OnePlace`), `NothingDangles`
(`NoDanglingUse`), `ShapeKept` (`BlocksHaveShape`) and `UsesDefined`
(`DefinedBeforeUse`).  The invariants need each other: what an erased block
leaves behind depends on where its instructions are listed.  `IInv` lists
their parts and adds that a block is in the function once and that what is
erased is in no block.  Taking an instruction out of a list and putting it in
are one relation, `Inserted`, read both ways.

`TypeString_proofs` proves for contexts of any size: `TypeCorrect`,
`NeverReentered` (`NoReentry`), `ReferencesFollow` (`ReferencesDefined`) and
`TextsDenoteTypes` (`TextDenotesType`).  The difficulty is the memo: a text is remembered that was cut where a struct was
open.  The texts of the activations, outermost first, are what is printed so
far.  A remembered text may refer to any struct defined in there
(`MemoCovered`), and what an activation has printed to those defined outside of
it (`StackCovered`); what is defined only grows until the outermost call
returns, and the memo ends with it.  That a text denotes its type needs the
converse, that where it was cut does not matter.  `TextsRead` says of each text
what it does to a reader, whatever the reader waits for behind it: a remembered
text of `t` takes it past `t` (`Describes`), the text of an activation as far as
the element it stands at (`Begins`).  These compose, because a reader that waits
for `L` and then `K` reads the text for `L` as if there were no `K`.  A run of the
reader is a function that satisfies the definition of `Awaited`, and two such
functions would differ first at some token (`AwaitedReads`).

`Debug_proofs` proves of `DebugInfo`, for any number of nodes and any contents
(`NodesAssumption`, `NamesAssumption`): `TypeCorrect`, `HandlesStayAlive`
(`HandlesAlive`), `NothingDangles` (`NoDanglingOperand`), `ContentsHaveOneNode`
(`OneNodePerContents`) and `AllResolved` (`FinalizedResolved`).  `IInv` rests on
two rankings, neither of which the code computes:

* Nodes are ranked above their operands as far as the next node with a name
  (`Ranked`): without names there are no cycles.  When two nodes collide their
  ranks sink to the lesser, so what replaces a node never ranks above it, and a
  node of the innermost replacement is not itself on its way out.  What the
  program holds is closed under operands down to the next name (`HeldKnown`), so
  a node that changes is one the program has dropped.
* Unresolved nodes that the builder does not remember are ranked above their
  unresolved operands (`Reached`): every cycle of unresolved nodes has one that
  is remembered, and `Finalize`, which starts from those, leaves none.  This holds
  before the compile unit as well, so that nothing is missed that was made then.

`FloatKernel_proofs` proves for any precision, callers and vectors
(`FloatAssumption`: the vectors hold numbers and are not empty): `TypeCorrect`,
`ExactSumsCorrect` (`ExactSumsAgree`) and `ErrorBoundCorrect` (`ErrorBounded`).

* The powers of two and the sums over a vector are recursive functions.  Their
  equations follow from a recursion theorem (`Recursion`), which is proved here for
  a function that gives the successor rather than an operator; what holds of all
  numbers is proved from the least counterexample (`Least`).
* `RoundExact` says that `m * 2^e` with `m <= 2^Precision` is its own rounding,
  and `RoundUpwardsNear` and `Rounding` that rounding gives such a number and moves
  the one it is given by at most `2^-Precision` of its size.
* `IInv` gives every partial sum the elements it came from: their sum, the sum of
  their absolute values and their number (`Tallied`).  Over all the partial sums of
  a call these add up to the values for the elements read so far (`Tally`), since
  an addition moves the share of one partial sum to another (`TallyMove`) and none
  is lost.  A partial sum is exact while its absolute values stay within
  `2^Precision`, and else its error is bounded by its own share (`Partial`); that
  survives the addition of any two (`PartialAdds`, `ErrorAdds`), which is why the
  order does not matter.
* The sequential sum is treated the same way (`SequentialExact`), so the two agree
  whenever both are exact.

Liveness under fairness (`CallsReturn`, `OperationsEnd`) is out of the prover's
reach and model-checked only; so are the three violated runs.  Every other property
of the runs is a theorem.  The library's induction theorems take a predicate as a
parameter, which the provers cannot instantiate: where a proof needs induction it
takes the least counterexample in a set of numbers (`Least`), which
`WellFoundedInduction` gives without such a parameter.

## 6. Not modelled, and why

* The one-line wrappers of `ir.go` for types, constants, globals, metadata and
  attributes, the table of targets in `target.go`, and the getters of metadata in
  `dibuilder.go`: they pass a pointer on.
* What a pass or LLVM's code generator does to the code, but for the order of the
  floating-point additions: `KernelExec` executes the IR as emitted.  Optimisation
  may use undefined behaviour; the integer kernel has none on vectors that are not
  empty.
* In `dibuilder.go`: files, expressions and subranges, which are leaves that never
  change.  `Builder.InsertDeclare` (`ir.go:1388`), whose declaration of the
  intrinsic is not LLVM's.
* Messages and C strings: who allocates and who frees them.  Some are lost, too:
  the copies LLVM makes for `TargetMachine.Triple`, `CPU` and `Features`
  (`target.go:268-280`), and the verifier's message (`analysis.go:38`).
* `RunFunctionAddressWithArgPtrs` with one argument, and its panic for other
  numbers than one and two (`lljit.go:112-118`): the kernels are called with two.
* A compiler that fails: the session then tells the waiting lookup before the
  module is freed, so the first rule of `ConcurrentJit` would have to be stronger.
* Contexts other than the global one for the code itself, and jits with compile
  threads: the bindings make neither a thread-safe context that two modules share
  nor such a jit.
* `llvm_config.go`, `llvm_dep.go`, `version.go`: link flags.

## 7. Plan

1. *(done)* `IRBuilder`, `IRVerifier`, `Codegen`, `LoopNest`; `SumReference`,
   `KernelExec`; `JitOwnership` with proofs; `TypeString`; `DebugInfo`,
   `DebugLocation`.
2. *(done)* `FloatKernel`; `LazyJit`, `ConcurrentJit` with proofs; the parts of
   engines, layouts and values in `JitOwnership`; `FunctionEditing`;
   `DebugScopes` with proofs.
3. *(done)* `KernelExec_proofs`, `LoopNest_proofs`, `FunctionEditing_proofs`,
   `TypeString_proofs`, `Debug_proofs`.
4. *(done)* `FloatKernel_proofs`; the meaning of texts in `TypeString_proofs`.
5. `ErrorPaths`: messages and C strings: who allocates, who frees, on success and
   on failure (`analysis.go:38`, `bitreader.go:47`, `target.go:268`, `JitEngines.cpp:34`).
