------------------------ MODULE JitOwnership_proofs ------------------------
(***************************************************************************)
(* Proofs about JitOwnership, for any number of objects of every kind.     *)
(*                                                                         *)
(* The invariant relates what the program knows to what native code holds: *)
(* an owned object is alive; an object inside an engine or jit is alive,   *)
(* not owned, and its holder is owned; a lent object is inside the engine  *)
(* that lends it.  A program that only passes on what it owns or was lent  *)
(* therefore never passes on a dead object.                                *)
(* A module an AddModule took is in a jit or gone, so that no module is     *)
(* taken twice.                                                            *)
(*                                                                         *)
(* Most actions are instances of two patterns, proved once: an exchange of *)
(* owned objects for new ones, and an engine that takes owned objects in.  *)
(***************************************************************************)
EXTENDS JitOwnership, TLAPS

Holders == Engines \cup LLJits

OwnedLive == owned \subseteq live

InsideLive ==
  \A j \in Holders : \A x \in inside[j] : j \in owned /\ x \in live /\ x \notin owned

InsideOnce ==
  \A j, k \in Holders : j # k => inside[j] \cap inside[k] = {}

LentInside ==
  \A x \in Objects : lent[x] # Nothing => x \in inside[lent[x]]

\* A module an address points into was compiled, freed, and is still the
\* definition of its symbol.
FoundCompiled ==
  \A f \in found : /\ code[f[1]][f[2]] = f[3]
                   /\ f[3] \in born \ live
                   /\ f[1] \in owned

\* Whatever a program can have a handle to has somebody to free it.
HandlesKept == \A x \in live \ Hidden : Kept(x)

\* A module that AddModule took is in a jit until it is compiled, or freed.
CausesTaken ==
  \A x \in born \cap (ThreadSafeContexts \cup JitErrors) :
    /\ cause[x] \in Modules \cap born
    /\ cause[x] \in live => \E j \in LLJits : cause[x] \in inside[j]

\* So it is taken once, and leaves one context and one error at most.
CauseOnce ==
  /\ \A x, y \in born \cap ThreadSafeContexts : cause[x] = cause[y] => x = y
  /\ \A x, y \in born \cap JitErrors : cause[x] = cause[y] => x = y

IInv == /\ TypeOK /\ OwnedLive /\ InsideLive /\ InsideOnce /\ LentInside
        /\ NoUseAfterFree /\ HandlesKept /\ FoundCompiled
        /\ CausesTaken /\ CauseOnce

-----------------------------------------------------------------------------
\* What the program may use is alive.
LEMMA UsableLive ==
  ASSUME IInv, NEW x \in Objects, Usable(x)
  PROVE  x \in live
  BY DEF IInv, TypeOK, OwnedLive, InsideLive, LentInside, Usable, Holders

\* Nothing that was never made is inside an engine or jit, or lent; and a jit
\* or engine that was never made holds nothing.
LEMMA UnbornOutside ==
  ASSUME IInv
  PROVE  /\ \A j \in Holders : inside[j] \subseteq born
         /\ \A j \in Holders : j \notin born => inside[j] = {}
  BY DEF IInv, TypeOK, OwnedLive, InsideLive, Holders

LEMMA InitIInv == Init => IInv
  BY DEF Init, IInv, TypeOK, OwnedLive, InsideLive, InsideOnce, LentInside,
     NoUseAfterFree, HandlesKept, FoundCompiled, CausesTaken, CauseOnce,
     Holders

-----------------------------------------------------------------------------
(* The two patterns, one step per part of the invariant.                   *)

\* Machine builders may be made on the way: nobody will have them.
LEMMA SwapPreserves ==
  ASSUME IInv,
         NEW made \in SUBSET Objects, NEW freed \in SUBSET (owned \ Holders),
         NEW hidden \in SUBSET MachineBuilders,
         NEW S \in SUBSET live,
         Lives(made \cup hidden, freed), Owns(made, freed), Touch(S),
         refs' \in [Managers -> SUBSET (Modules \cup Machines)],
         UNCHANGED <<inside, code, found, lent, cause>>
  PROVE  IInv'
  <1>1. TypeOK'
    BY DEF IInv, TypeOK, Lives, Owns, Touch, Hidden
  <1>2. OwnedLive'
    BY DEF IInv, OwnedLive, Lives, Owns, Touch
  <1>3. InsideLive'
    BY DEF IInv, InsideLive, OwnedLive, TypeOK, Holders, Lives, Owns, Touch
  <1>4. InsideOnce'
    BY DEF IInv, InsideOnce, InsideLive, TypeOK, Holders, Lives, Owns, Touch
  <1>5. LentInside'
    BY DEF IInv, LentInside, TypeOK, Holders, Lives, Owns, Touch
  <1>6. NoUseAfterFree'
    BY DEF IInv, NoUseAfterFree, OwnedLive, InsideLive, Holders, Lives, Owns,
       Touch
  <1>7. HandlesKept'
    BY DEF IInv, HandlesKept, Kept, Hidden, TypeOK, Holders, Lives, Owns, Touch
  <1>8. FoundCompiled'
    BY ObjectsAssumption, UnbornOutside DEF IInv, FoundCompiled, TypeOK,
       OwnedLive, Lives, Owns, Touch, InsideLive, Holders, Objects
  <1>9. CausesTaken'
    BY ObjectsAssumption DEF IInv, CausesTaken, TypeOK, OwnedLive, InsideLive,
       InsideOnce, Holders, Objects, Hidden, Lives, Owns, Touch
  <1>10. CauseOnce'
    BY ObjectsAssumption DEF IInv, CauseOnce, CausesTaken, TypeOK, OwnedLive,
       InsideLive, Holders, Objects, Hidden, Lives, Owns, Touch
  <1> QED BY <1>1, <1>2, <1>3, <1>4, <1>5, <1>6, <1>7, <1>8, <1>9, <1>10 DEF IInv

LEMMA ExchangePreserves ==
  ASSUME IInv,
         NEW made \in SUBSET Objects, NEW freed \in SUBSET (owned \ Holders),
         NEW S \in SUBSET live,
         Lives(made, freed), Owns(made, freed), Touch(S),
         refs' \in [Managers -> SUBSET (Modules \cup Machines)],
         UNCHANGED <<inside, code, found, lent, cause>>
  PROVE  IInv'
  <1>1. made \cup {} = made
    OBVIOUS
  <1> QED BY <1>1, SwapPreserves

LEMMA TakePreserves ==
  ASSUME IInv,
         NEW e \in Engines, NEW made \in SUBSET {e}, e \in owned \/ e \in made,
         NEW S \in SUBSET (owned \cap (Modules \cup Machines \cup Layouts)),
         NEW T \in SUBSET live,
         Lives(made, {}), Owns(made, S), Touch(T),
         inside' = [inside EXCEPT ![e] = @ \cup S],
         lent' = [x \in Objects |-> IF x \in S THEN e ELSE lent[x]],
         UNCHANGED <<refs, code, found, cause>>
  PROVE  IInv'
  <1>1. TypeOK'
    BY ObjectsAssumption, UnbornOutside DEF IInv, TypeOK, Lives, Owns, Touch,
       OwnedLive, InsideLive, Holders, Objects
  <1>2. OwnedLive'
    BY DEF IInv, OwnedLive, Lives, Owns, Touch
  <1>3. InsideLive'
    BY ObjectsAssumption, UnbornOutside DEF IInv, InsideLive, OwnedLive,
       TypeOK, Holders, Lives, Owns, Touch, Objects
  <1>4. InsideOnce'
    BY DEF IInv, InsideOnce, InsideLive, TypeOK, Holders, Lives, Owns, Touch
  <1>5. LentInside'
    BY DEF IInv, LentInside, TypeOK, Holders, Lives, Owns, Touch
  <1>6. NoUseAfterFree'
    BY DEF IInv, NoUseAfterFree, OwnedLive, InsideLive, Holders, Lives, Owns,
       Touch
  <1>7. HandlesKept'
    BY ObjectsAssumption, UnbornOutside DEF IInv, HandlesKept, Kept, Hidden, TypeOK, Holders,
       Lives, Owns, Touch, OwnedLive, InsideLive, Objects
  <1>8. FoundCompiled'
    BY ObjectsAssumption, UnbornOutside DEF IInv, FoundCompiled, TypeOK,
       OwnedLive, Lives, Owns, Touch, InsideLive, Holders, Objects
  <1>9. CausesTaken'
    BY ObjectsAssumption DEF IInv, CausesTaken, TypeOK, OwnedLive, InsideLive,
       InsideOnce, Holders, Objects, Hidden, Lives, Owns, Touch
  <1>10. CauseOnce'
    BY ObjectsAssumption DEF IInv, CauseOnce, CausesTaken, TypeOK, OwnedLive,
       InsideLive, Holders, Objects, Hidden, Lives, Owns, Touch
  <1> QED BY <1>1, <1>2, <1>3, <1>4, <1>5, <1>6, <1>7, <1>8, <1>9, <1>10 DEF IInv

-----------------------------------------------------------------------------
(* The actions that follow them.                                           *)

LEMMA MakePreserves ==
  ASSUME IInv, NEW x \in Objects, Make(x)
  PROVE  IInv'
  BY ExchangePreserves DEF Make, IInv, TypeOK

LEMMA UsePreserves ==
  ASSUME IInv, NEW S \in SUBSET live, Touch(S),
         refs' \in [Managers -> SUBSET (Modules \cup Machines)],
         UNCHANGED <<live, born, inside, code, found, owned, lent, cause>>
  PROVE  IInv'
  <1>1. Lives({}, {}) /\ Owns({}, {})
    BY DEF Lives, Owns
  <1> QED BY <1>1, ExchangePreserves

LEMMA DisposePreserves ==
  ASSUME IInv, NEW x \in Objects \ Holders, Dispose(x)
  PROVE  IInv'
  BY ExchangePreserves DEF Dispose, IInv, TypeOK, OwnedLive

LEMMA ProgramStepPreserves ==
  ASSUME IInv, ProgramStep
  PROVE  IInv'
  <1>1. CASE \E m \in Modules : NewModule(m) \/ UseModule(m) \/ ParseBitcodeFile(m)
    BY <1>1, MakePreserves, UsePreserves, UsableLive
       DEF NewModule, UseModule, ParseBitcodeFile, Objects, IInv, TypeOK
  <1>2. CASE \E t \in Machines : CreateTargetMachine(t)
    BY <1>2, MakePreserves DEF CreateTargetMachine, Objects
  <1>3. CASE \E p \in Managers : NewPassManager(p) \/ AddPass(p)
    BY <1>3, MakePreserves, UsePreserves
       DEF NewPassManager, AddPass, Objects, IInv, TypeOK, OwnedLive
  <1>4. CASE \E q \in PassBuilders : NewPassManagerBuilder(q)
    BY <1>4, MakePreserves DEF NewPassManagerBuilder, Objects
  <1>5. CASE \E b \in Buffers : NewMemoryBuffer(b)
    BY <1>5, MakePreserves DEF NewMemoryBuffer, Objects
  <1>6. CASE \E q \in PassBuilders, p \in Managers : Populate(q, p)
    BY <1>6, UsePreserves DEF Populate, IInv, TypeOK, OwnedLive
  <1>7. ASSUME NEW p \in Managers, NEW m \in Modules, NewFunctionPassManager(p, m)
        PROVE  IInv'
    <2>1. {m} \subseteq live
      BY <1>7, UsableLive DEF NewFunctionPassManager, Objects
    <2>2. refs' \in [Managers -> SUBSET (Modules \cup Machines)]
      BY <1>7 DEF NewFunctionPassManager, IInv, TypeOK
    <2> QED BY <1>7, <2>1, <2>2, ExchangePreserves DEF NewFunctionPassManager, Objects
  <1>8. ASSUME NEW p \in Managers, NEW m \in Modules, RunPasses(p, m)
        PROVE  IInv'
    <2>1. {p, m} \cup refs[p] \subseteq live
      BY <1>8, UsableLive DEF RunPasses, IInv, TypeOK, OwnedLive, Objects
    <2> QED BY <1>8, <2>1, UsePreserves DEF RunPasses, IInv, TypeOK
  <1>9. CASE \E x \in Objects \ (Engines \cup LLJits) : Dispose(x)
    BY <1>9, DisposePreserves DEF Holders
  <1>10. ASSUME NEW t \in Machines, NEW p \in Managers, AddAnalysisPasses(t, p)
         PROVE  IInv'
    <2>1. {t, p} \subseteq live
      BY <1>10, UsableLive DEF AddAnalysisPasses, IInv, OwnedLive, Objects
    <2>2. refs' \in [Managers -> SUBSET (Modules \cup Machines)]
      BY <1>10 DEF AddAnalysisPasses, IInv, TypeOK
    <2> QED BY <1>10, <2>1, <2>2, UsePreserves DEF AddAnalysisPasses
  <1>11. ASSUME NEW t \in Machines, NEW m \in Modules, NEW b \in Buffers, Emit(t, m, b)
         PROVE  IInv'
    <2>1. {t, m} \subseteq live
      BY <1>11, UsableLive DEF Emit, Objects
    <2> QED BY <1>11, <2>1, ExchangePreserves DEF Emit, Objects, IInv, TypeOK
  <1>12. ASSUME NEW b \in Buffers, NEW m \in Modules, WriteBitcodeToMemoryBuffer(m, b)
         PROVE  IInv'
    <2>1. {m} \subseteq live
      BY <1>12, UsableLive DEF WriteBitcodeToMemoryBuffer, Objects
    <2> QED BY <1>12, <2>1, ExchangePreserves
            DEF WriteBitcodeToMemoryBuffer, Objects, IInv, TypeOK
  <1>13. ASSUME NEW b \in Buffers, NEW m \in Modules, NEW ok \in BOOLEAN,
                ParseIRInContext(b, m, ok)
         PROVE  IInv'
    <2>1. {b} \subseteq live /\ {b} \subseteq owned \ Holders
      BY <1>13, ObjectsAssumption DEF ParseIRInContext, IInv, OwnedLive, Holders
    <2>2. (IF ok THEN {m} ELSE {}) \in SUBSET Objects
      BY DEF Objects
    <2> QED BY <1>13, <2>1, <2>2, ExchangePreserves DEF ParseIRInContext, IInv, TypeOK
  <1>14. ASSUME NEW dest \in Modules, NEW src \in Modules, LinkModules(dest, src)
         PROVE  IInv'
    <2>1. {dest, src} \subseteq live /\ {src} \subseteq owned \ Holders
      BY <1>14, UsableLive, ObjectsAssumption
         DEF LinkModules, IInv, OwnedLive, Holders, Objects
    <2> QED BY <1>14, <2>1, ExchangePreserves DEF LinkModules, IInv, TypeOK
  <1>15. CASE \E d \in Layouts : NewTargetData(d) \/ UseTargetData(d)
    BY <1>15, MakePreserves, UsePreserves, UsableLive
       DEF NewTargetData, UseTargetData, Objects, IInv, TypeOK
  <1>16. CASE \E g \in GenericValues : NewGenericValue(g) \/ UseGenericValue(g)
    BY <1>16, MakePreserves, UsePreserves
       DEF NewGenericValue, UseGenericValue, Objects, IInv, TypeOK, OwnedLive
  <1>17. ASSUME NEW t \in Machines, NEW d \in Layouts, CreateTargetData(t, d)
         PROVE  IInv'
    <2>1. {t} \subseteq live
      BY <1>17, UsableLive DEF CreateTargetData, Objects
    <2> QED BY <1>17, <2>1, ExchangePreserves DEF CreateTargetData, Objects, IInv, TypeOK
  <1> QED
    BY <1>1, <1>2, <1>3, <1>4, <1>5, <1>6, <1>7, <1>8, <1>9, <1>10, <1>11, <1>12,
       <1>13, <1>14, <1>15, <1>16, <1>17 DEF ProgramStep

LEMMA NewMCJITCompilerPreserves ==
  ASSUME IInv, NEW e \in Engines, NEW m \in Modules, NEW ok \in BOOLEAN,
         NewMCJITCompiler(e, m, ok)
  PROVE  IInv'
  <1>1. m \in owned /\ m \in live /\ m \notin Holders
    BY ObjectsAssumption DEF NewMCJITCompiler, IInv, OwnedLive, Holders
  <1>2. CASE ok
    <2>1. inside' = [inside EXCEPT ![e] = @ \cup {m}]
      BY <1>2, UnbornOutside DEF NewMCJITCompiler, Holders, IInv, TypeOK
    <2>2. lent' = [x \in Objects |-> IF x \in {m} THEN e ELSE lent[x]]
      BY <1>2 DEF NewMCJITCompiler, IInv, TypeOK
    <2> QED BY <1>1, <1>2, <2>1, <2>2, TakePreserves DEF NewMCJITCompiler
  <1>3. CASE ~ok
    BY <1>1, <1>3, ExchangePreserves DEF NewMCJITCompiler, IInv, TypeOK
  <1> QED BY <1>2, <1>3

LEMMA NewMCJITCompilerWithTargetMachinePreserves ==
  ASSUME IInv, NEW e \in Engines, NEW m \in Modules, NEW t \in Machines,
         NEW ok \in BOOLEAN,
         NewMCJITCompilerWithTargetMachine(e, m, t, ok)
  PROVE  IInv'
  <1>1. {m, t} \subseteq owned /\ {m, t} \subseteq live /\ {m, t} \cap Holders = {}
    BY ObjectsAssumption
       DEF NewMCJITCompilerWithTargetMachine, IInv, OwnedLive, Holders
  <1>2. CASE ok
    <2>1. inside' = [inside EXCEPT ![e] = @ \cup {m, t}]
      BY <1>2, UnbornOutside
         DEF NewMCJITCompilerWithTargetMachine, Holders, IInv, TypeOK
    <2>2. lent' = [x \in Objects |-> IF x \in {m, t} THEN e ELSE lent[x]]
      BY <1>2 DEF NewMCJITCompilerWithTargetMachine, IInv, TypeOK
    <2> QED BY <1>1, <1>2, <2>1, <2>2, TakePreserves
            DEF NewMCJITCompilerWithTargetMachine
  <1>3. CASE ~ok
    BY <1>1, <1>3, ExchangePreserves
       DEF NewMCJITCompilerWithTargetMachine, IInv, TypeOK
  <1> QED BY <1>2, <1>3

LEMMA EngineAddModulePreserves ==
  ASSUME IInv, NEW e \in Engines, NEW m \in Modules, EngineAddModule(e, m)
  PROVE  IInv'
  <1>1. {e, m} \subseteq owned /\ {e, m} \subseteq live
    BY DEF EngineAddModule, IInv, OwnedLive
  <1>2. lent' = [x \in Objects |-> IF x \in {m} THEN e ELSE lent[x]]
    BY DEF EngineAddModule, IInv, TypeOK
  <1>3. Lives({}, {})
    BY DEF EngineAddModule, Lives
  <1> QED BY <1>1, <1>2, <1>3, TakePreserves DEF EngineAddModule

\* What an engine lends, and all that is inside it, is alive.
LEMMA EngineReaches ==
  ASSUME IInv, NEW e \in Engines, e \in owned
  PROVE  {e} \cup inside[e] \subseteq live
  BY DEF IInv, OwnedLive, InsideLive, Holders

LEMMA UseEnginePreserves ==
  ASSUME IInv, NEW e \in Engines, NEW m \in Modules, UseEngine(e, m)
  PROVE  IInv'
  <1>1. {e, m} \cup inside[e] \subseteq live
    BY EngineReaches, UsableLive, ObjectsAssumption DEF UseEngine, Usable, Objects
  <1> QED BY <1>1, UsePreserves DEF UseEngine, IInv, TypeOK

LEMMA RunFunctionPreserves ==
  ASSUME IInv, NEW e \in Engines, NEW m \in Modules,
         NEW args \in SUBSET GenericValues, NEW g \in GenericValues,
         RunFunction(e, m, args, g)
  PROVE  IInv'
  <1>1. {e, m} \cup inside[e] \cup args \subseteq live
    BY EngineReaches, UsableLive, ObjectsAssumption
       DEF RunFunction, Usable, Objects, IInv, OwnedLive
  <1> QED BY <1>1, ExchangePreserves DEF RunFunction, Objects, IInv, TypeOK

LEMMA EngineEmitMCObjectPreserves ==
  ASSUME IInv, NEW e \in Engines, NEW m \in Modules, NEW b \in Buffers,
         EngineEmitMCObject(e, m, b)
  PROVE  IInv'
  <1>1. {e, m} \cup inside[e] \subseteq live
    BY EngineReaches, UsableLive DEF EngineEmitMCObject, Objects
  <1> QED BY <1>1, ExchangePreserves DEF EngineEmitMCObject, Objects, IInv, TypeOK

LEMMA CreateLLJITFromCppImplPreserves ==
  ASSUME IInv, NEW j \in LLJits, NEW b \in MachineBuilders, NEW ok \in BOOLEAN,
         CreateLLJITFromCppImpl(j, b, ok)
  PROVE  IInv'
  <1> DEFINE made == IF ok THEN {j} ELSE {}
  <1>1. made \in SUBSET Objects
    BY DEF Objects
  <1>2. Lives(made \cup {b}, {}) /\ Owns(made, {}) /\ Touch({})
    <2>1. made \cup {b} = {b} \cup made
      OBVIOUS
    <2> QED BY <2>1 DEF CreateLLJITFromCppImpl
  <1>3. /\ refs' \in [Managers -> SUBSET (Modules \cup Machines)]
        /\ UNCHANGED <<inside, code, found, lent, cause>>
    BY DEF CreateLLJITFromCppImpl, IInv, TypeOK
  <1> HIDE DEF made
  <1> QED BY <1>1, <1>2, <1>3, SwapPreserves

LEMMA CreateLLJITFromTMPreserves ==
  ASSUME IInv, NEW j \in LLJits, NEW t \in Machines, NEW ok \in BOOLEAN,
         CreateLLJITFromTM(j, t, ok)
  PROVE  IInv'
  <1>1. {t} \subseteq live /\ {t} \subseteq owned \ Holders
    BY ObjectsAssumption DEF CreateLLJITFromTM, IInv, OwnedLive, Holders
  <1>2. (IF ok THEN {j} ELSE {}) \in SUBSET Objects
    BY DEF Objects
  <1> QED BY <1>1, <1>2, ExchangePreserves DEF CreateLLJITFromTM, IInv, TypeOK

-----------------------------------------------------------------------------
(* The actions that follow neither.                                        *)

LEMMA RevealPreserves ==
  ASSUME IInv, NEW e \in Engines, NEW x \in Machines \cup Layouts,
         Reveal(e, x)
  PROVE  IInv'
  <1>1. TypeOK'
    BY DEF IInv, TypeOK, Reveal, Lives, Owns, Touch, Objects
  <1>2. OwnedLive'
    BY DEF IInv, OwnedLive, Reveal, Lives, Owns, Touch
  <1>3. InsideLive'
    BY ObjectsAssumption, UnbornOutside DEF IInv, InsideLive, OwnedLive,
       TypeOK, Holders, Reveal, Lives, Owns, Touch, Objects
  <1>4. InsideOnce'
    BY UnbornOutside DEF IInv, InsideOnce, TypeOK, Holders, Reveal, Lives
  <1>5. LentInside'
    BY DEF IInv, LentInside, TypeOK, Holders, Reveal, Lives, Owns, Touch
  <1>6. NoUseAfterFree'
    BY DEF IInv, NoUseAfterFree, OwnedLive, Reveal, Lives, Owns, Touch
  <1>7. HandlesKept'
    BY DEF IInv, HandlesKept, Kept, Hidden, TypeOK, Holders, Reveal, Lives, Owns, Touch
  <1>8. FoundCompiled'
    BY ObjectsAssumption DEF IInv, FoundCompiled, TypeOK, Reveal, Lives, Owns,
       Touch, Objects
  <1>9. CausesTaken'
    BY ObjectsAssumption DEF IInv, CausesTaken, TypeOK, OwnedLive, InsideLive,
       InsideOnce, Holders, Objects, Hidden, Reveal, Lives, Owns, Touch
  <1>10. CauseOnce'
    BY ObjectsAssumption DEF IInv, CauseOnce, CausesTaken, TypeOK, OwnedLive,
       InsideLive, Holders, Objects, Hidden, Reveal, Lives, Owns, Touch
  <1> QED BY <1>1, <1>2, <1>3, <1>4, <1>5, <1>6, <1>7, <1>8, <1>9, <1>10 DEF IInv

LEMMA RemoveModulePreserves ==
  ASSUME IInv, NEW e \in Engines, NEW m \in Modules,
         RemoveModule(e, m)
  PROVE  IInv'
  <1>1. TypeOK'
    BY ObjectsAssumption, UnbornOutside DEF IInv, TypeOK, RemoveModule, Owns,
       Touch, OwnedLive, InsideLive, Holders, Objects
  <1>2. OwnedLive'
    BY ObjectsAssumption, UnbornOutside, UsableLive DEF IInv, OwnedLive,
       RemoveModule, Owns, Touch, InsideLive, TypeOK, Holders, Objects,
       InsideOnce, LentInside, NoUseAfterFree
  <1>3. InsideLive'
    BY ObjectsAssumption, UnbornOutside, UsableLive DEF IInv, InsideLive,
       OwnedLive, TypeOK, Holders, RemoveModule, Owns, Touch, Objects,
       InsideOnce, LentInside, NoUseAfterFree
  <1>4. InsideOnce'
    BY DEF IInv, InsideOnce, InsideLive, TypeOK, Holders, RemoveModule, Owns,
       Touch
  <1>5. LentInside'
    BY DEF IInv, LentInside, TypeOK, Holders, RemoveModule, Owns, Touch
  <1>6. NoUseAfterFree'
    BY ObjectsAssumption, UnbornOutside, UsableLive DEF IInv, NoUseAfterFree,
       OwnedLive, InsideLive, Holders, RemoveModule, Owns, Touch, TypeOK,
       Objects, InsideOnce, LentInside
  <1>7. HandlesKept'
    BY DEF IInv, HandlesKept, Kept, Hidden, TypeOK, Holders, RemoveModule, Owns, Touch
  <1>8. FoundCompiled'
    BY DEF IInv, FoundCompiled, TypeOK, OwnedLive, RemoveModule, Owns, Touch
  <1>9. CausesTaken'
    BY ObjectsAssumption DEF IInv, CausesTaken, TypeOK, OwnedLive, InsideLive,
       InsideOnce, Holders, Objects, Hidden, RemoveModule, Owns, Touch
  <1>10. CauseOnce'
    BY ObjectsAssumption DEF IInv, CauseOnce, CausesTaken, TypeOK, OwnedLive,
       InsideLive, Holders, Objects, Hidden, RemoveModule, Owns, Touch
  <1> QED BY <1>1, <1>2, <1>3, <1>4, <1>5, <1>6, <1>7, <1>8, <1>9, <1>10 DEF IInv

LEMMA EngineDisposePreserves ==
  ASSUME IInv, NEW e \in Engines,
         EngineDispose(e)
  PROVE  IInv'
  <1>1. TypeOK'
    BY ObjectsAssumption, UnbornOutside DEF IInv, TypeOK, EngineDispose,
       Lives, Owns, Touch, OwnedLive, InsideLive, Holders, Objects
  <1>2. OwnedLive'
    BY ObjectsAssumption, UnbornOutside DEF IInv, OwnedLive, EngineDispose,
       Lives, Owns, Touch, InsideLive, TypeOK, Holders, Objects
  <1>3. InsideLive'
    BY ObjectsAssumption, UnbornOutside, UsableLive DEF IInv, InsideLive,
       OwnedLive, TypeOK, Holders, EngineDispose, Lives, Owns, Touch,
       Objects, InsideOnce, LentInside, NoUseAfterFree
  <1>4. InsideOnce'
    BY DEF IInv, InsideOnce, InsideLive, TypeOK, Holders, EngineDispose,
       Lives, Owns, Touch
  <1>5. LentInside'
    BY DEF IInv, LentInside, TypeOK, Holders, EngineDispose, Lives, Owns,
       Touch
  <1>6. NoUseAfterFree'
    BY DEF IInv, NoUseAfterFree, OwnedLive, InsideLive, Holders,
       EngineDispose, Lives, Owns, Touch
  <1>7. HandlesKept'
    BY DEF IInv, HandlesKept, Kept, Hidden, TypeOK, Holders, EngineDispose, Lives, Owns, Touch
  <1>8. FoundCompiled'
    BY ObjectsAssumption, UnbornOutside DEF IInv, FoundCompiled, TypeOK,
       OwnedLive, EngineDispose, Lives, Owns, Touch, InsideLive, Holders,
       Objects
  <1>9. CausesTaken'
    BY ObjectsAssumption DEF IInv, CausesTaken, TypeOK, OwnedLive, InsideLive,
       InsideOnce, Holders, Objects, Hidden, EngineDispose, Lives, Owns, Touch
  <1>10. CauseOnce'
    BY ObjectsAssumption DEF IInv, CauseOnce, CausesTaken, TypeOK, OwnedLive,
       InsideLive, Holders, Objects, Hidden, EngineDispose, Lives, Owns, Touch
  <1> QED BY <1>1, <1>2, <1>3, <1>4, <1>5, <1>6, <1>7, <1>8, <1>9, <1>10 DEF IInv

LEMMA LLJitAddModulePreserves ==
  ASSUME IInv, NEW j \in LLJits, NEW m \in Modules,
         NEW c \in ThreadSafeContexts, LLJitAddModule(j, m, c)
  PROVE  IInv'
  <1>1. TypeOK'
    BY DEF IInv, TypeOK, LLJitAddModule, Lives, Owns, Touch, Hidden
  <1>2. OwnedLive'
    BY DEF IInv, OwnedLive, LLJitAddModule, Lives, Owns, Touch
  <1>3. InsideLive'
    BY ObjectsAssumption, UnbornOutside DEF IInv, InsideLive, OwnedLive,
       TypeOK, Holders, LLJitAddModule, Lives, Owns, Touch, Objects
  <1>4. InsideOnce'
    BY DEF IInv, InsideOnce, InsideLive, TypeOK, Holders, LLJitAddModule,
       Lives, Owns, Touch
  <1>5. LentInside'
    BY DEF IInv, LentInside, TypeOK, Holders, LLJitAddModule, Lives, Owns,
       Touch
  <1>6. NoUseAfterFree'
    BY DEF IInv, NoUseAfterFree, OwnedLive, InsideLive, Holders,
       LLJitAddModule, Lives, Owns, Touch
  <1>7. HandlesKept'
    BY ObjectsAssumption, UnbornOutside DEF IInv, HandlesKept, Kept, Hidden, TypeOK, Holders,
       LLJitAddModule, Lives, Owns, Touch, OwnedLive, InsideLive, Objects
  <1>8. FoundCompiled'
    BY ObjectsAssumption, UnbornOutside DEF IInv, FoundCompiled, TypeOK,
       OwnedLive, LLJitAddModule, Lives, Owns, Touch, InsideLive, Holders,
       Objects
  <1>9. CausesTaken'
    BY ObjectsAssumption DEF IInv, CausesTaken, TypeOK, OwnedLive, InsideLive,
       InsideOnce, Holders, Objects, Hidden, LLJitAddModule, Lives, Owns, Touch
  <1>10. CauseOnce'
    BY ObjectsAssumption DEF IInv, CauseOnce, CausesTaken, TypeOK, OwnedLive,
       InsideLive, Holders, Objects, Hidden, LLJitAddModule, Lives, Owns, Touch
  <1> QED BY <1>1, <1>2, <1>3, <1>4, <1>5, <1>6, <1>7, <1>8, <1>9, <1>10 DEF IInv

LEMMA LLJitRefuseModulePreserves ==
  ASSUME IInv, NEW j \in LLJits, NEW m \in Modules,
         NEW c \in ThreadSafeContexts, NEW r \in JitErrors,
         LLJitRefuseModule(j, m, c, r)
  PROVE  IInv'
  <1>1. TypeOK'
    BY DEF IInv, TypeOK, LLJitRefuseModule, Lives, Owns, Touch, Hidden
  <1>2. OwnedLive'
    BY DEF IInv, OwnedLive, LLJitRefuseModule, Lives, Owns, Touch
  <1>3. InsideLive'
    BY ObjectsAssumption, UnbornOutside DEF IInv, InsideLive, OwnedLive,
       TypeOK, Holders, LLJitRefuseModule, Lives, Owns, Touch, Objects
  <1>4. InsideOnce'
    BY DEF IInv, InsideOnce, InsideLive, TypeOK, Holders, LLJitRefuseModule,
       Lives, Owns, Touch
  <1>5. LentInside'
    BY DEF IInv, LentInside, TypeOK, Holders, LLJitRefuseModule, Lives, Owns,
       Touch
  <1>6. NoUseAfterFree'
    BY DEF IInv, NoUseAfterFree, OwnedLive, InsideLive, Holders,
       LLJitRefuseModule, Lives, Owns, Touch
  <1>7. HandlesKept'
    BY ObjectsAssumption, UnbornOutside DEF IInv, HandlesKept, Kept, Hidden, TypeOK, Holders,
       LLJitRefuseModule, Lives, Owns, Touch, OwnedLive, InsideLive, Objects
  <1>8. FoundCompiled'
    BY ObjectsAssumption, UnbornOutside DEF IInv, FoundCompiled, TypeOK,
       OwnedLive, LLJitRefuseModule, Lives, Owns, Touch, InsideLive, Holders,
       Objects
  <1>9. CausesTaken'
    BY ObjectsAssumption DEF IInv, CausesTaken, TypeOK, OwnedLive, InsideLive,
       InsideOnce, Holders, Objects, Hidden, LLJitRefuseModule, Lives, Owns, Touch
  <1>10. CauseOnce'
    BY ObjectsAssumption DEF IInv, CauseOnce, CausesTaken, TypeOK, OwnedLive,
       InsideLive, Holders, Objects, Hidden, LLJitRefuseModule, Lives, Owns, Touch
  <1> QED BY <1>1, <1>2, <1>3, <1>4, <1>5, <1>6, <1>7, <1>8, <1>9, <1>10 DEF IInv

LEMMA LookupPreserves ==
  ASSUME IInv, NEW j \in LLJits, NEW s \in Symbols, NEW ok \in BOOLEAN,
         Lookup(j, s, ok)
  PROVE  IInv'
  <1>1. TypeOK'
    BY ObjectsAssumption, UnbornOutside DEF IInv, TypeOK, Lookup, Lives,
       Touch, OwnedLive, InsideLive, Holders, Objects
  <1>2. OwnedLive'
    BY ObjectsAssumption, UnbornOutside DEF IInv, OwnedLive, Lookup, Lives,
       Touch, InsideLive, TypeOK, Holders, Objects
  <1>3. InsideLive'
    BY ObjectsAssumption, UnbornOutside, UsableLive DEF IInv, InsideLive,
       OwnedLive, TypeOK, Holders, Lookup, Lives, Touch, Objects, InsideOnce,
       LentInside, NoUseAfterFree
  <1>4. InsideOnce'
    BY DEF IInv, InsideOnce, InsideLive, TypeOK, Holders, Lookup, Lives,
       Touch
  <1>5. LentInside'
    BY ObjectsAssumption, UnbornOutside DEF IInv, LentInside, TypeOK,
       Holders, Lookup, Lives, Touch, OwnedLive, InsideLive, Objects
  <1>6. NoUseAfterFree'
    BY DEF IInv, NoUseAfterFree, OwnedLive, InsideLive, Holders, Lookup,
       Lives, Touch
  <1>7. HandlesKept'
    BY DEF IInv, HandlesKept, Kept, Hidden, TypeOK, Holders, Lookup, Lives, Touch
  <1>8. FoundCompiled'
    BY ObjectsAssumption, UnbornOutside DEF IInv, FoundCompiled, TypeOK,
       OwnedLive, Lookup, Lives, Touch, InsideLive, Holders, Objects
  <1>9. CausesTaken'
    BY ObjectsAssumption DEF IInv, CausesTaken, TypeOK, OwnedLive, InsideLive,
       InsideOnce, Holders, Objects, Hidden, Lookup, Lives, Touch
  <1>10. CauseOnce'
    BY ObjectsAssumption DEF IInv, CauseOnce, CausesTaken, TypeOK, OwnedLive,
       InsideLive, Holders, Objects, Hidden, Lookup, Lives, Touch
  <1> QED BY <1>1, <1>2, <1>3, <1>4, <1>5, <1>6, <1>7, <1>8, <1>9, <1>10 DEF IInv

-----------------------------------------------------------------------------
LEMMA NextIInv == IInv /\ [Next]_vars => IInv'
  <1> SUFFICES ASSUME IInv, [Next]_vars PROVE IInv'
    OBVIOUS
  <1>1. CASE ProgramStep
    BY <1>1, ProgramStepPreserves
  <1>2. CASE EngineStep
    BY <1>2, NewMCJITCompilerPreserves, NewMCJITCompilerWithTargetMachinePreserves,
       EngineAddModulePreserves, RemoveModulePreserves, UseEnginePreserves,
       RunFunctionPreserves, EngineEmitMCObjectPreserves, RevealPreserves,
       EngineDisposePreserves
       DEF EngineStep, EngineTargetData, GetExecutionEngineTargetMachine
  <1>3. CASE LLJitStep
    BY <1>3, MakePreserves, CreateLLJITFromCppImplPreserves,
       CreateLLJITFromTMPreserves, LLJitAddModulePreserves,
       LLJitRefuseModulePreserves, LookupPreserves
       DEF LLJitStep, CreateLLJITForHost, Objects
  <1>4. CASE UNCHANGED vars
    <2>1. Touch({}) /\ refs' \in [Managers -> SUBSET (Modules \cup Machines)]
      BY <1>4 DEF vars, Touch, IInv, TypeOK
    <2> QED BY <1>4, <2>1, UsePreserves DEF vars
  <1> QED BY <1>1, <1>2, <1>3, <1>4 DEF Next

\* The invariant holds in every state.
THEOREM Invariance == Spec => []IInv
  BY InitIInv, NextIInv, PTL DEF Spec

\* The state always has its type.
THEOREM TypeCorrect == Spec => []TypeOK
  <1>1. IInv => TypeOK  BY DEF IInv
  <1> QED BY <1>1, Invariance, PTL

\* A program that uses what it owns or was lent, however many objects it has
\* and whichever calls fail, never makes native code touch a dead object
\* (JitEngines.cpp:20-39, lljit.go:68-97, executionengine.go:159-164).
THEOREM NeverUsesAfterFree == Spec => []NoUseAfterFree
  <1>1. IInv => NoUseAfterFree  BY DEF IInv
  <1> QED BY <1>1, Invariance, PTL

\* However many objects there are and whichever calls fail, only the objects the
\* jit makes for itself are lost, and of those AddModule loses at most one of a
\* kind for each module (executionengine.go:102-139, 192-201, lljit.go:93-103).
THEOREM BoundsLosses == Spec => []LossesBounded
  <1>1. IInv => LossesBounded
    <2> SUFFICES ASSUME IInv PROVE LossesBounded
      OBVIOUS
    <2>1. \A x \in live \ Hidden : Kept(x)
      BY DEF IInv, HandlesKept
    <2>2. \A x \in live \cap (ThreadSafeContexts \cup JitErrors) :
            cause[x] \in born \ owned
      BY DEF IInv, CausesTaken, TypeOK, OwnedLive, InsideLive, Holders
    <2>3. LeftOnce(ThreadSafeContexts) /\ LeftOnce(JitErrors)
      BY <2>2 DEF IInv, TypeOK, CauseOnce, LeftOnce
    <2> QED BY <2>1, <2>3 DEF LossesBounded
  <1> QED BY <1>1, Invariance, PTL

\* No object has two owners, so none is freed twice (executionengine.go:161).
THEOREM HasOneOwner == Spec => []OneOwner
  <1>1. IInv => OneOwner
    BY DEF IInv, OneOwner, InsideLive, InsideOnce, Holders
  <1> QED BY <1>1, Invariance, PTL

\* Lookups of a name agree for ever (lljit.go:81-97).
THEOREM AddressesStable == Spec => []AddressesAgree
  <1>1. IInv => AddressesAgree
    BY DEF IInv, AddressesAgree, FoundCompiled
  <1> QED BY <1>1, Invariance, PTL

\* No handle reaches the code behind an address that Lookup has returned: not
\* the module it was compiled from, nor anything a jit or engine holds or
\* lends (lljit.go:81-97).
THEOREM AddressesKept == Spec => []AddressesSealed
  <1>1. IInv => AddressesSealed
    BY ObjectsAssumption DEF IInv, AddressesSealed, FoundCompiled, TypeOK,
       OwnedLive, InsideLive, LentInside, Holders, Objects
  <1> QED BY <1>1, Invariance, PTL
=============================================================================
