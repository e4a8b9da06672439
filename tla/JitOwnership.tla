---------------------------- MODULE JitOwnership ----------------------------
(***************************************************************************)
(* Who frees the native objects behind the Go handles: modules, target     *)
(* machines, their data layouts, pass managers and their builders, memory  *)
(* buffers, generic values and the two kinds of jit, an ExecutionEngine    *)
(* (llvm/executionengine.go) and an LLJitEngine (llvm/lljit.go).  A handle *)
(* is a bare pointer: nothing in Go tells a handle that may be used from   *)
(* one whose object a call has consumed.                                   *)
(*                                                                         *)
(* live, inside, refs and code are what the native side really             *)
(* holds.  owned and lent are what a Go program can know from the calls    *)
(* it made and the errors they returned: it disposes what it owns, uses    *)
(* what it owns or was lent, and nothing else.  The actions apply a call   *)
(* to both sides; the invariants say that such a program is safe.          *)
(*                                                                         *)
(* Some objects the bindings make for themselves and then forget: thread-  *)
(* safe contexts, machine builders and unread errors of LLJitEngine.  They *)
(* have no handle a program could free them by (Hidden); the invariants    *)
(* say that nothing else is lost, and bound how many of them are.          *)
(*                                                                         *)
(* Every object is made at most once (born).                               *)
(***************************************************************************)
EXTENDS Naturals, FiniteSets

CONSTANTS Modules,   \* llvm.Module
          Machines,  \* llvm.TargetMachine
          Managers,  \* llvm.PassManager
          PassBuilders, \* llvm.PassManagerBuilder
          Buffers,   \* llvm.MemoryBuffer
          Layouts,   \* llvm.TargetData
          GenericValues, \* llvm.GenericValue
          Engines,   \* llvm.ExecutionEngine
          LLJits,    \* llvm.LLJitEngine
          ThreadSafeContexts, \* LLVMOrcThreadSafeContextRef
          MachineBuilders, \* llvm::orc::JITTargetMachineBuilder
          JitErrors, \* LLVMErrorRef
          Symbols,   \* function names
          Defines,   \* [Modules -> Symbols], the function a module defines
          Nothing,   \* no object
          MaxObjects \* bound: the objects with a handle made in a behaviour

Objects == Modules \cup Machines \cup Managers \cup PassBuilders
             \cup Buffers \cup Layouts \cup GenericValues \cup Engines \cup LLJits

\* What no handle of a program refers to.
Hidden == ThreadSafeContexts \cup MachineBuilders \cup JitErrors

ASSUME ObjectsAssumption ==
  /\ Modules \cap (Machines \cup Managers \cup PassBuilders \cup Buffers
                    \cup Layouts \cup GenericValues \cup Engines \cup LLJits) = {}
  /\ Machines \cap (Managers \cup PassBuilders \cup Buffers \cup Layouts
                     \cup GenericValues \cup Engines \cup LLJits) = {}
  /\ Managers \cap (PassBuilders \cup Buffers \cup Layouts \cup GenericValues
                     \cup Engines \cup LLJits) = {}
  /\ PassBuilders \cap (Buffers \cup Layouts \cup GenericValues \cup Engines
                         \cup LLJits) = {}
  /\ Buffers \cap (Layouts \cup GenericValues \cup Engines \cup LLJits) = {}
  /\ Layouts \cap (GenericValues \cup Engines \cup LLJits) = {}
  /\ GenericValues \cap (Engines \cup LLJits) = {}
  /\ Engines \cap LLJits = {}
  /\ Objects \cap Hidden = {}
  /\ ThreadSafeContexts \cap (MachineBuilders \cup JitErrors) = {}
  /\ MachineBuilders \cap JitErrors = {}
  /\ Nothing \notin Objects \cup Hidden
  /\ Defines \in [Modules -> Symbols]

VARIABLES live,    \* the native objects that exist
          born,    \* those ever made
          inside,  \* [Engines \cup LLJits -> what is freed along with it]
          refs,    \* [Managers -> the objects its passes point to]
          code,    \* [LLJits -> [Symbols -> the module that defines it]]
          found,   \* <<jit, symbol, module>>: an address Lookup returned
          owned,   \* the handles the program has to dispose
          lent,    \* [Objects -> the engine a handle is borrowed from]
          cause,   \* [ThreadSafeContexts \cup JitErrors -> the module whose
                   \* AddModule left them behind]
          bad      \* the dead objects native code was made to touch

vars == <<live, born, inside, refs, code, found, owned, lent, cause, bad>>

Init == /\ live = {} /\ born = {}
        /\ inside = [j \in Engines \cup LLJits |-> {}]
        /\ refs = [p \in Managers |-> {}]
        /\ code = [j \in LLJits |-> [s \in Symbols |-> Nothing]]
        /\ found = {}
        /\ owned = {}
        /\ lent = [x \in Objects |-> Nothing]
        /\ cause = [x \in ThreadSafeContexts \cup JitErrors |-> Nothing]
        /\ bad = {}

\* What the program may pass to a call that only uses it.
Usable(x) == x \in owned \/ lent[x] # Nothing

Touch(S) == bad' = bad \cup (S \ live)

\* Native objects appear and disappear.
Lives(made, freed) == /\ made \cap born = {}
                      /\ made # {} =>
                           Cardinality((born \cup made) \ Hidden) <= MaxObjects
                      /\ live' = (live \ freed) \cup made
                      /\ born' = born \cup made

\* The handles the program gains and loses.
Owns(gained, lost) == owned' = (owned \ lost) \cup gained

-----------------------------------------------------------------------------
(* Objects a program makes and disposes itself.                            *)

Make(x) == /\ Lives({x}, {}) /\ Owns({x}, {}) /\ Touch({})
           /\ UNCHANGED <<inside, refs, code, found, lent, cause>>

NewModule(m) == Make(m)
CreateTargetMachine(t) == Make(t)
NewPassManager(p) == Make(p)
NewPassManagerBuilder(q) == Make(q)
NewMemoryBuffer(b) == Make(b)
NewTargetData(d) == Make(d)
NewGenericValue(g) == Make(g)

\* The buffer read from the file is freed before the call returns; a call that
\* fails leaves nothing behind.
ParseBitcodeFile(m) == Make(m)

\* A function pass manager keeps a pointer to its module.
NewFunctionPassManager(p, m) ==
  /\ Usable(m)
  /\ Lives({p}, {}) /\ Owns({p}, {}) /\ Touch({m})
  /\ refs' = [refs EXCEPT ![p] = {m}]
  /\ UNCHANGED <<inside, code, found, lent, cause>>

\* The methods of a module that neither make nor free an object.
UseModule(m) ==
  /\ Usable(m) /\ Touch({m})
  /\ UNCHANGED <<live, born, inside, refs, code, found, owned, lent, cause>>

\* The queries of a data layout.
UseTargetData(d) ==
  /\ Usable(d) /\ Touch({d})
  /\ UNCHANGED <<live, born, inside, refs, code, found, owned, lent, cause>>

\* Int, Float, Pointer, VoidPointer.
UseGenericValue(g) ==
  /\ g \in owned /\ Touch({g})
  /\ UNCHANGED <<live, born, inside, refs, code, found, owned, lent, cause>>

\* The layout is a copy: it outlives the machine.
CreateTargetData(t, d) ==
  /\ Usable(t)
  /\ Lives({d}, {}) /\ Owns({d}, {}) /\ Touch({t})
  /\ UNCHANGED <<inside, refs, code, found, lent, cause>>

\* Module, ModuleProvider, TargetMachine, TargetData, PassManager,
\* PassManagerBuilder, MemoryBuffer and GenericValue.
Dispose(x) ==
  /\ x \in owned
  /\ Lives({}, {x}) /\ Owns({}, {x}) /\ Touch({x})
  /\ UNCHANGED <<inside, refs, code, found, lent, cause>>

\* Every other pass belongs to the manager and points to nothing else.
AddPass(p) ==
  /\ p \in owned /\ Touch({p})
  /\ UNCHANGED <<live, born, inside, refs, code, found, owned, lent, cause>>

Populate(q, p) ==
  /\ q \in owned /\ p \in owned /\ Touch({q, p})
  /\ UNCHANGED <<live, born, inside, refs, code, found, owned, lent, cause>>

\* The analysis passes keep a pointer to the machine.
AddAnalysisPasses(t, p) ==
  /\ Usable(t) /\ p \in owned
  /\ Touch({t, p})
  /\ refs' = [refs EXCEPT ![p] = @ \cup {t}]
  /\ UNCHANGED <<live, born, inside, code, found, owned, lent, cause>>

\* Running the passes follows those pointers, so the program has to keep the
\* objects it gave to a manager for as long as it runs it.
RunPasses(p, m) ==
  /\ p \in owned /\ Usable(m) /\ \A x \in refs[p] : Usable(x)
  /\ Touch({p, m} \cup refs[p])
  /\ UNCHANGED <<live, born, inside, refs, code, found, owned, lent, cause>>

\* TargetMachine.EmitToMemoryBuffer and EmitMCObject: a new buffer, or an error
\* and none.
Emit(t, m, b) ==
  /\ Usable(t) /\ Usable(m)
  /\ Lives({b}, {}) /\ Owns({b}, {}) /\ Touch({t, m})
  /\ UNCHANGED <<inside, refs, code, found, lent, cause>>

WriteBitcodeToMemoryBuffer(m, b) ==
  /\ Usable(m)
  /\ Lives({b}, {}) /\ Owns({b}, {}) /\ Touch({m})
  /\ UNCHANGED <<inside, refs, code, found, lent, cause>>

\* The parser consumes the buffer, whether or not it yields a module.
ParseIRInContext(b, m, ok) ==
  /\ b \in owned /\ m \notin born
  /\ Lives(IF ok THEN {m} ELSE {}, {b}) /\ Owns(IF ok THEN {m} ELSE {}, {b})
  /\ Touch({b})
  /\ UNCHANGED <<inside, refs, code, found, lent, cause>>

\* The source module is consumed, whether or not the link succeeds.
LinkModules(dest, src) ==
  /\ dest # src /\ Usable(dest) /\ src \in owned
  /\ Lives({}, {src}) /\ Owns({}, {src}) /\ Touch({dest, src})
  /\ UNCHANGED <<inside, refs, code, found, lent, cause>>

-----------------------------------------------------------------------------
(* llvm.ExecutionEngine.                                                   *)

\* NewExecutionEngine, NewInterpreter, NewMCJITCompiler: the builder takes
\* the module before anything can fail, and frees it if something does.
NewMCJITCompiler(e, m, ok) ==
  /\ m \in owned /\ e \notin born
  /\ Touch({m})
  /\ IF ok
     THEN /\ Lives({e}, {}) /\ Owns({e}, {m})
          /\ inside' = [inside EXCEPT ![e] = {m}]
          /\ lent' = [lent EXCEPT ![m] = e]
     ELSE Lives({}, {m}) /\ Owns({}, {m}) /\ UNCHANGED <<inside, lent, cause>>
  /\ UNCHANGED <<refs, code, found, cause>>

\* MUTANT: the failure path forgets the machine.
NewMCJITCompilerLeaks(e, m, t, ok) ==
  /\ {m, t} \subseteq owned /\ e \notin born
  /\ Touch({m, t})
  /\ IF ok
     THEN /\ Lives({e}, {}) /\ Owns({e}, {m, t})
          /\ inside' = [inside EXCEPT ![e] = {m, t}]
          /\ lent' = [lent EXCEPT ![m] = e, ![t] = e]
     ELSE Lives({}, {m}) /\ Owns({}, {m, t}) /\ UNCHANGED <<inside, lent, cause>>
  /\ UNCHANGED <<refs, code, found, cause>>

\* Likewise with a machine, which the builder takes as well.
NewMCJITCompilerWithTargetMachine(e, m, t, ok) ==
  /\ {m, t} \subseteq owned /\ e \notin born
  /\ Touch({m, t})
  /\ IF ok
     THEN /\ Lives({e}, {}) /\ Owns({e}, {m, t})
          /\ inside' = [inside EXCEPT ![e] = {m, t}]
          /\ lent' = [lent EXCEPT ![m] = e, ![t] = e]
     ELSE Lives({}, {m, t}) /\ Owns({}, {m, t}) /\ UNCHANGED <<inside, lent, cause>>
  /\ UNCHANGED <<refs, code, found, cause>>

EngineAddModule(e, m) ==
  /\ e \in owned /\ m \in owned
  /\ Touch({e, m})
  /\ inside' = [inside EXCEPT ![e] = @ \cup {m}]
  /\ Owns({}, {m}) /\ lent' = [lent EXCEPT ![m] = e]
  /\ UNCHANGED <<live, born, refs, code, found, cause>>

\* MUTANT: the engine still frees the module it gave back.
RemoveModuleKept(e, m) ==
  /\ e \in owned /\ m \in Modules /\ lent[m] = e
  /\ Touch({e, m})
  /\ Owns({m}, {}) /\ lent' = [lent EXCEPT ![m] = Nothing]
  /\ UNCHANGED <<live, born, inside, refs, code, found, cause>>

\* The module goes back to the program.
RemoveModule(e, m) ==
  /\ e \in owned /\ m \in Modules /\ lent[m] = e
  /\ Touch({e, m})
  /\ inside' = [inside EXCEPT ![e] = @ \ {m}]
  /\ Owns({m}, {}) /\ lent' = [lent EXCEPT ![m] = Nothing]
  /\ UNCHANGED <<live, born, refs, code, found, cause>>

\* MUTANT: the program takes the engine's layout for its own.
RevealOwned(e, x) ==
  /\ e \in owned
  /\ Lives({x}, {}) /\ Owns({x}, {}) /\ Touch({e})
  /\ inside' = [inside EXCEPT ![e] = @ \cup {x}]
  /\ UNCHANGED <<refs, code, found, lent, cause>>

\* A part of the engine itself, which enters the model with its first handle.
Reveal(e, x) ==
  /\ e \in owned
  /\ Lives({x}, {}) /\ Owns({}, {}) /\ Touch({e})
  /\ inside' = [inside EXCEPT ![e] = @ \cup {x}]
  /\ lent' = [lent EXCEPT ![x] = e]
  /\ UNCHANGED <<refs, code, found, cause>>

EngineTargetData(e, d) == inside[e] \cap Layouts = {} /\ Reveal(e, d)

\* The machine the engine was given, lent since then, or one of its own.
GetExecutionEngineTargetMachine(e, t) ==
  inside[e] \cap Machines = {} /\ Reveal(e, t)

\* FindFunction, FreeMachineCodeForFunction, RecompileAndRelinkFunction, ...:
\* calls on a function of a module the engine holds.
UseEngine(e, m) ==
  /\ e \in owned /\ m \in Modules /\ lent[m] = e
  /\ Touch({e, m} \cup inside[e])
  /\ UNCHANGED <<live, born, inside, refs, code, found, owned, lent, cause>>

\* The arguments stay with the program, the result is a new value.
RunFunction(e, m, args, g) ==
  /\ e \in owned /\ m \in Modules /\ lent[m] = e
  /\ args \subseteq owned
  /\ Lives({g}, {}) /\ Owns({g}, {}) /\ Touch({e, m} \cup inside[e] \cup args)
  /\ UNCHANGED <<inside, refs, code, found, lent, cause>>

\* The machine of the engine compiles any module.
EngineEmitMCObject(e, m, b) ==
  /\ e \in owned /\ Usable(m)
  /\ Lives({b}, {}) /\ Owns({b}, {}) /\ Touch({e, m} \cup inside[e])
  /\ UNCHANGED <<inside, refs, code, found, lent, cause>>

\* MUTANT: the program goes on using what the engine lent.
EngineDisposeStillLent(e) ==
  /\ e \in owned
  /\ Lives({}, {e} \cup inside[e]) /\ Owns({}, {e}) /\ Touch({e} \cup inside[e])
  /\ inside' = [inside EXCEPT ![e] = {}]
  /\ UNCHANGED <<refs, code, found, lent, cause>>

\* The engine frees what is inside it; what it lent is gone.
EngineDispose(e) ==
  /\ e \in owned
  /\ Lives({}, {e} \cup inside[e]) /\ Owns({}, {e}) /\ Touch({e} \cup inside[e])
  /\ inside' = [inside EXCEPT ![e] = {}]
  /\ lent' = [x \in Objects |-> IF lent[x] = e THEN Nothing ELSE lent[x]]
  /\ UNCHANGED <<refs, code, found, cause>>

-----------------------------------------------------------------------------
(* llvm.LLJitEngine, which has no Dispose.                                 *)

\* The jit takes the description of the host; a call that fails leaves nothing
\* behind.
CreateLLJITForHost(j) == Make(j)

\* The description b is copied into the jit and forgotten, whether or not there
\* is a jit in the end.
CreateLLJITFromCppImpl(j, b, ok) ==
  /\ {j, b} \cap born = {}
  /\ Lives({b} \cup (IF ok THEN {j} ELSE {}), {})
  /\ Owns(IF ok THEN {j} ELSE {}, {}) /\ Touch({})
  /\ UNCHANGED <<inside, refs, code, found, lent, cause>>

\* MUTANT: the program thinks the machine is still its own.
CreateLLJITKeepsTM(j, t, ok) ==
  /\ t \in owned /\ j \notin born
  /\ Lives(IF ok THEN {j} ELSE {}, {t}) /\ Owns(IF ok THEN {j} ELSE {}, {})
  /\ Touch({t})
  /\ UNCHANGED <<inside, refs, code, found, lent, cause>>

\* The machine is turned into a description and freed, then the jit is
\* built, or not.
CreateLLJITFromTM(j, t, ok) ==
  /\ t \in owned /\ j \notin born
  /\ Lives(IF ok THEN {j} ELSE {}, {t}) /\ Owns(IF ok THEN {j} ELSE {}, {t})
  /\ Touch({t})
  /\ UNCHANGED <<inside, refs, code, found, lent, cause>>

\* MUTANT: a second definition replaces the first.
LLJitReplaceModule(j, m, c) ==
  /\ j \in owned /\ m \in owned
  /\ Touch({j, m}) /\ Lives({c}, {}) /\ Owns({}, {m})
  /\ code' = [code EXCEPT ![j][Defines[m]] = m]
  /\ inside' = [inside EXCEPT ![j] = @ \cup {m}]
  /\ cause' = [cause EXCEPT ![c] = m]
  /\ UNCHANGED <<refs, found, lent>>

\* The jit takes the module, wrapped with a context c of its own.  The wrapper
\* shares c with the handle it was made from, which nobody disposes.
LLJitAddModule(j, m, c) ==
  /\ j \in owned /\ m \in owned /\ code[j][Defines[m]] = Nothing
  /\ Touch({j, m}) /\ Lives({c}, {}) /\ Owns({}, {m})
  /\ code' = [code EXCEPT ![j][Defines[m]] = m]
  /\ inside' = [inside EXCEPT ![j] = @ \cup {m}]
  /\ cause' = [cause EXCEPT ![c] = m]
  /\ UNCHANGED <<refs, found, lent>>

\* A second definition of a symbol is an error, and so is a module with another
\* data layout.  The jit frees the module, and the binding drops the error r
\* without reading or freeing it: the caller is not told.
LLJitRefuseModule(j, m, c, r) ==
  /\ j \in owned /\ m \in owned
  /\ Touch({j, m}) /\ Lives({c, r}, {m}) /\ Owns({}, {m})
  /\ cause' = [cause EXCEPT ![c] = m, ![r] = m]
  /\ UNCHANGED <<inside, refs, code, found, lent>>

\* MUTANT: the module is handed back once it is compiled.
LookupGivesBack(j, s, ok) ==
  /\ j \in owned
  /\ LET m == code[j][s]
     IN  /\ m \in inside[j]
         /\ Touch({j, m}) /\ Owns({m}, {})
         /\ inside' = [inside EXCEPT ![j] = @ \ {m}]
         /\ found' = IF ok THEN found \cup {<<j, s, m>>} ELSE found
  /\ UNCHANGED <<live, born, refs, code, lent, cause>>

\* MUTANT: the error of a lookup is ignored, the address used.
LookupUnchecked(j, s, ok) ==
  /\ j \in owned
  /\ Touch({j}) /\ found' = found \cup {<<j, s, code[j][s]>>}
  /\ UNCHANGED <<live, born, inside, refs, code, owned, lent, cause>>

\* The first lookup of a symbol compiles the module that defines it and
\* frees it; when that fails the symbol stays unresolved for good.
Lookup(j, s, ok) ==
  /\ j \in owned
  /\ LET m == code[j][s]
     IN  /\ m # Nothing
         /\ IF m \in inside[j]
            THEN /\ Touch({j, m}) /\ Lives({}, {m})
                 /\ inside' = [inside EXCEPT ![j] = @ \ {m}]
                 /\ found' = IF ok THEN found \cup {<<j, s, m>>} ELSE found
            ELSE /\ ok <=> <<j, s, m>> \in found
                 /\ Touch({j})
                 /\ UNCHANGED <<live, born, inside, found>>
  /\ UNCHANGED <<refs, code, owned, lent, cause>>

-----------------------------------------------------------------------------
ProgramStep ==
  \/ \E m \in Modules : NewModule(m) \/ UseModule(m) \/ ParseBitcodeFile(m)
  \/ \E t \in Machines : CreateTargetMachine(t)
  \/ \E p \in Managers : NewPassManager(p) \/ AddPass(p)
  \/ \E q \in PassBuilders : NewPassManagerBuilder(q)
  \/ \E b \in Buffers : NewMemoryBuffer(b)
  \/ \E d \in Layouts : NewTargetData(d) \/ UseTargetData(d)
  \/ \E g \in GenericValues : NewGenericValue(g) \/ UseGenericValue(g)
  \/ \E t \in Machines, d \in Layouts : CreateTargetData(t, d)
  \/ \E q \in PassBuilders, p \in Managers : Populate(q, p)
  \/ \E p \in Managers, m \in Modules :
       NewFunctionPassManager(p, m) \/ RunPasses(p, m)
  \/ \E x \in Objects \ (Engines \cup LLJits) : Dispose(x)
  \/ \E t \in Machines, p \in Managers : AddAnalysisPasses(t, p)
  \/ \E t \in Machines, m \in Modules, b \in Buffers : Emit(t, m, b)
  \/ \E b \in Buffers, m \in Modules : WriteBitcodeToMemoryBuffer(m, b)
  \/ \E b \in Buffers, m \in Modules, ok \in BOOLEAN : ParseIRInContext(b, m, ok)
  \/ \E dest, src \in Modules : LinkModules(dest, src)

EngineStep ==
  \/ \E e \in Engines, m \in Modules, ok \in BOOLEAN : NewMCJITCompiler(e, m, ok)
  \/ \E e \in Engines, m \in Modules, t \in Machines, ok \in BOOLEAN :
       NewMCJITCompilerWithTargetMachine(e, m, t, ok)
  \/ \E e \in Engines, m \in Modules :
       EngineAddModule(e, m) \/ RemoveModule(e, m) \/ UseEngine(e, m)
  \/ \E e \in Engines, m \in Modules, args \in SUBSET GenericValues,
        g \in GenericValues : RunFunction(e, m, args, g)
  \/ \E e \in Engines, m \in Modules, b \in Buffers : EngineEmitMCObject(e, m, b)
  \/ \E e \in Engines, d \in Layouts : EngineTargetData(e, d)
  \/ \E e \in Engines, t \in Machines : GetExecutionEngineTargetMachine(e, t)
  \/ \E e \in Engines : EngineDispose(e)

LLJitStep ==
  \/ \E j \in LLJits : CreateLLJITForHost(j)
  \/ \E j \in LLJits, b \in MachineBuilders, ok \in BOOLEAN :
       CreateLLJITFromCppImpl(j, b, ok)
  \/ \E j \in LLJits, t \in Machines, ok \in BOOLEAN : CreateLLJITFromTM(j, t, ok)
  \/ \E j \in LLJits, m \in Modules, c \in ThreadSafeContexts :
       \/ LLJitAddModule(j, m, c)
       \/ \E r \in JitErrors : LLJitRefuseModule(j, m, c, r)
  \/ \E j \in LLJits, s \in Symbols, ok \in BOOLEAN : Lookup(j, s, ok)

Next == ProgramStep \/ EngineStep \/ LLJitStep

Spec == Init /\ [][Next]_vars

-----------------------------------------------------------------------------
\* The type invariant.
TypeOK ==
  /\ live \subseteq born /\ born \subseteq Objects \cup Hidden
  /\ owned \subseteq Objects
  /\ inside \in [Engines \cup LLJits -> SUBSET (Modules \cup Machines \cup Layouts)]
  /\ refs \in [Managers -> SUBSET (Modules \cup Machines)]
  /\ code \in [LLJits -> [Symbols -> Modules \cup {Nothing}]]
  /\ found \subseteq LLJits \X Symbols \X Modules
  /\ lent \in [Objects -> Engines \cup {Nothing}]
  /\ cause \in [ThreadSafeContexts \cup JitErrors -> Modules \cup {Nothing}]
  /\ bad \subseteq Objects

\* A program that keeps to the rules never makes native code use or free an
\* object that is gone: not after an engine or a jit took it, not after a
\* constructor failed half way (JitEngines.cpp:24-38, lljit.go:68-79), not
\* through a pass manager that still points to it.
NoUseAfterFree == bad = {}

\* The program still has the object, or an engine or jit it has.
Kept(x) == x \in owned \/ \E j \in Engines \cup LLJits : j \in owned /\ x \in inside[j]

\* What AddModule leaves behind of a module that will not come back: no other
\* call has left the like for the same module.
LeftOnce(S) ==
  \A x \in live \cap S :
    /\ cause[x] \in born \ owned
    /\ \A y \in live \cap S : cause[x] = cause[y] => x = y

\* Nothing with a handle is lost, on no error path: it is owned by the program
\* or inside an engine or jit that is.  The calls of an LLJitEngine do lose what
\* they make for themselves.  AddModule loses a context (lljit.go:100), and the
\* error if there is one (lljit.go:96), but since it takes the module for good
\* never more than one of each per module, however the modules move between
\* engines, jits and the program.  CreateLLJITFromCppImpl loses a machine
\* builder each time it is called (JitEngines.cpp:45): those are not bounded.
LossesBounded ==
  /\ \A x \in live \ Hidden : Kept(x)
  /\ LeftOnce(ThreadSafeContexts)
  /\ LeftOnce(JitErrors)

\* No object is freed twice: none is inside two engines or jits, nor inside
\* one and owned by the program.
OneOwner ==
  \A x \in Objects, j, k \in Engines \cup LLJits :
    x \in inside[j] => x \notin owned /\ (x \in inside[k] => j = k)

\* Two lookups of a name never return different code, even when a second
\* module with that name was added in between (lljit.go:96).
AddressesAgree ==
  \A f, g \in found : f[1] = g[1] /\ f[2] = g[2] => f[3] = g[3]

\* A module an address points into is neither lent nor owned any more: no Go
\* handle can change or remove the code behind an address (lljit.go:93-97).
AddressesSealed ==
  \A f \in found : f[3] \notin owned /\ lent[f[3]] = Nothing /\ f[1] \in live
=============================================================================
