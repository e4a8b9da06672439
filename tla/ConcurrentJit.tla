---------------------------- MODULE ConcurrentJit ----------------------------
(***************************************************************************)
(* Goroutines that share one LLJitEngine (llvm/lljit.go).  All IR lives in *)
(* LLVM's global context, which is not thread-safe: building a module      *)
(* (jit/jit.go), compiling it and freeing it all work on that context.     *)
(* OrcThreadSafModuleWrap (lljit.go:99-103) gives every module a new       *)
(* thread-safe context, whose lock nobody else takes and which protects    *)
(* nothing; the compiler of a jit made without compile threads is one      *)
(* object as well.  So the program needs a lock of its own.                *)
(*                                                                         *)
(* A lookup looks like a query but works: it puts the module on a list of  *)
(* the session's, then takes modules from the list and compiles them until *)
(* the list is empty, whoever put them there; then it waits.  The rules    *)
(* modelled here are therefore:                                            *)
(*  - a goroutine builds, adds and looks up under one lock (Enter);        *)
(*  - it looks up what a function calls before the function itself;        *)
(*  - it may look up again, and call, what some lookup has returned,       *)
(*    without the lock.                                                    *)
(***************************************************************************)
CONSTANTS Goroutines, \* those that share the jit
          Modules,    \* the modules they build, each with one function
          Needs,      \* [Modules -> the modules whose functions it calls]
          Nothing     \* no goroutine, no module

ASSUME JitAssumption ==
  /\ Needs \in [Modules -> SUBSET Modules]
  /\ Nothing \notin Goroutines \cup Modules

Operations == {"build", "add", "lookup"}

VARIABLES pc,     \* [Goroutines -> what it is doing]
          op,     \* [Goroutines -> the operation it entered the lock for]
          want,   \* [Goroutines -> the module of its last operation]
          task,   \* [Goroutines -> the module it compiles, or Nothing]
          holder, \* the goroutine in the lock
          stage,  \* [Modules -> how far it got]
          outstanding, \* the session's list of modules to compile
          known   \* the functions whose address a lookup has returned

vars == <<pc, op, want, task, holder, stage, outstanding, known>>

Init == /\ pc = [g \in Goroutines |-> "idle"]
        /\ op = [g \in Goroutines |-> "lookup"]
        /\ want \in [Goroutines -> Modules]
        /\ task = [g \in Goroutines |-> Nothing]
        /\ holder = Nothing
        /\ stage = [m \in Modules |-> "none"]
        /\ outstanding = {}
        /\ known = {}

Goto(g, place) == pc' = [pc EXCEPT ![g] = place]

-----------------------------------------------------------------------------
(* The program.                                                            *)

Request(g, o, m) ==
  /\ pc[g] = "idle"
  /\ Goto(g, "blocked")
  /\ op' = [op EXCEPT ![g] = o] /\ want' = [want EXCEPT ![g] = m]
  /\ UNCHANGED <<task, holder, stage, outstanding, known>>

\* MUTANT: a function is looked up before what it calls.
ApplicableInAnyOrder(o, m) ==
  CASE o = "build"  -> stage[m] = "none"
    [] o = "add"    -> stage[m] = "built"
    [] o = "lookup" -> stage[m] \notin {"none", "built"}

\* What the program checks once it has the lock.
Applicable(o, m) ==
  CASE o = "build"  -> stage[m] = "none"
    [] o = "add"    -> stage[m] = "built"
    [] o = "lookup" -> stage[m] \notin {"none", "built"} /\ Needs[m] \subseteq known

\* The lock is granted; the operation begins, if it still applies.  The
\* first lookup of a symbol puts its module on the session's list.  The lock
\* and Applicable are rules of the program: lljit.go has neither.
Enter(g) ==
  /\ pc[g] = "blocked" /\ holder = Nothing
  /\ IF ~Applicable(op[g], want[g])
     THEN Goto(g, "idle") /\ UNCHANGED <<holder, stage, outstanding>>
     ELSE /\ holder' = g
          /\ Goto(g, CASE op[g] = "build" -> "building" [] op[g] = "add" -> "adding"
                       [] OTHER -> "dispatching")
          /\ IF op[g] = "lookup" /\ stage[want[g]] = "added"
             THEN /\ outstanding' = outstanding \cup {want[g]}
                  /\ stage' = [stage EXCEPT ![want[g]] = "inflight"]
             ELSE UNCHANGED <<stage, outstanding>>
  /\ UNCHANGED <<op, want, task, known>>

\* CodegenSumInt64 and the passes are done.
Build(g) ==
  /\ pc[g] = "building"
  /\ Goto(g, "idle") /\ holder' = Nothing
  /\ stage' = [stage EXCEPT ![want[g]] = "built"]
  /\ UNCHANGED <<op, want, task, outstanding, known>>

\* The jit takes the module and notes which symbol it defines.
AddModule(g) ==
  /\ pc[g] = "adding"
  /\ Goto(g, "idle") /\ holder' = Nothing
  /\ stage' = [stage EXCEPT ![want[g]] = "added"]
  /\ UNCHANGED <<op, want, task, outstanding, known>>

\* MUTANT: any function that was added is looked up without the lock.
LookupAgainUnready(g, m) ==
  /\ pc[g] = "idle" /\ stage[m] \notin {"none", "built"}
  /\ Goto(g, "dispatching")
  /\ op' = [op EXCEPT ![g] = "lookup"] /\ want' = [want EXCEPT ![g] = m]
  /\ IF stage[m] = "added"
     THEN /\ outstanding' = outstanding \cup {m}
          /\ stage' = [stage EXCEPT ![m] = "inflight"]
     ELSE UNCHANGED <<stage, outstanding>>
  /\ UNCHANGED <<task, holder, known>>

\* A lookup without the lock.
LookupAgain(g, m) ==
  /\ pc[g] = "idle" /\ m \in known
  /\ Goto(g, "dispatching")
  /\ op' = [op EXCEPT ![g] = "lookup"] /\ want' = [want EXCEPT ![g] = m]
  /\ UNCHANGED <<task, holder, stage, outstanding, known>>

Call(g, m) ==
  /\ pc[g] = "idle" /\ m \in known
  /\ Goto(g, "calling") /\ want' = [want EXCEPT ![g] = m]
  /\ UNCHANGED <<op, task, holder, stage, outstanding, known>>

CallEnds(g) ==
  /\ pc[g] = "calling" /\ Goto(g, "idle")
  /\ UNCHANGED <<op, want, task, holder, stage, outstanding, known>>

-----------------------------------------------------------------------------
(* The session, in the goroutine that called Lookup.                       *)

\* The next module of the list is taken, whoever asked for it.
Dispatch(g) ==
  /\ pc[g] = "dispatching"
  /\ \E m \in outstanding :
       /\ outstanding' = outstanding \ {m}
       /\ task' = [task EXCEPT ![g] = m]
  /\ Goto(g, "compiling")
  /\ UNCHANGED <<op, want, holder, stage, known>>

\* The list is empty.
DispatchEnds(g) ==
  /\ pc[g] = "dispatching" /\ outstanding = {}
  /\ Goto(g, "waiting")
  /\ UNCHANGED <<op, want, task, holder, stage, outstanding, known>>

\* MUTANT: the object is linked before the module is freed.
CompileLinks(g) ==
  /\ pc[g] = "compiling"
  /\ Goto(g, "freeing")
  /\ stage' = [stage EXCEPT ![task[g]] = "linked"]
  /\ UNCHANGED <<op, want, task, holder, outstanding, known>>

\* The module is compiled, on the jit's only compiler.
Compile(g) ==
  /\ pc[g] = "compiling"
  /\ Goto(g, "freeing")
  /\ UNCHANGED <<op, want, task, holder, stage, outstanding, known>>

\* The module is freed before anybody hears of its object.
Free(g) ==
  /\ pc[g] = "freeing"
  /\ Goto(g, "linking")
  /\ UNCHANGED <<op, want, task, holder, stage, outstanding, known>>

\* MUTANT: a module that does not link is tried again.
LinkRetries(g) ==
  /\ pc[g] = "linking"
  /\ Goto(g, "dispatching")
  /\ task' = [task EXCEPT ![g] = Nothing]
  /\ \/ /\ stage' = [stage EXCEPT ![task[g]] = "linked"]
        /\ UNCHANGED outstanding
     \/ outstanding' = outstanding \cup {task[g]} /\ UNCHANGED stage
  /\ UNCHANGED <<op, want, holder, known>>

\* MUTANT: the goroutine is left with its task.
LinkKeepsTask(g) ==
  /\ pc[g] = "linking"
  /\ Goto(g, "dispatching")
  /\ \E end \in {"linked", "failed"} : stage' = [stage EXCEPT ![task[g]] = end]
  /\ UNCHANGED <<op, want, task, holder, outstanding, known>>

\* The object is linked.  What it calls and has not been asked for is put on
\* the list.  The link may fail, which is final, and it does when something
\* it calls was not added.
Link(g) ==
  LET called == {m \in Needs[task[g]] : stage[m] = "added"}
      lacks  == \E m \in Needs[task[g]] : stage[m] \in {"none", "built"}
  IN  /\ pc[g] = "linking"
      /\ Goto(g, "dispatching")
      /\ task' = [task EXCEPT ![g] = Nothing]
      /\ \/ /\ ~lacks
            /\ outstanding' = outstanding \cup called
            /\ stage' = [m \in Modules |-> IF m = task[g] THEN "linked"
                                           ELSE IF m \in called THEN "inflight"
                                           ELSE stage[m]]
         \/ /\ stage' = [stage EXCEPT ![task[g]] = "failed"]
            /\ UNCHANGED outstanding
  /\ UNCHANGED <<op, want, holder, known>>

\* Everything the function of m reaches by calls is in S.
ReachesWithin(m, S) ==
  \E T \in SUBSET S : m \in T /\ \A x \in T : Needs[x] \subseteq T

Ready(m)  == ReachesWithin(m, {x \in Modules : stage[x] = "linked"})
Broken(m) == ~ReachesWithin(m, {x \in Modules : stage[x] # "failed"})

\* MUTANT: the lookup returns while its module is in another goroutine's hands.
ReturnUnready(g) ==
  /\ pc[g] = "waiting"
  /\ Goto(g, "idle")
  /\ holder' = IF holder = g THEN Nothing ELSE holder
  /\ known' = IF stage[want[g]] # "failed" THEN known \cup {want[g]} ELSE known
  /\ UNCHANGED <<op, want, task, stage, outstanding>>

\* The lookup returns an address or an error.
Return(g) ==
  /\ pc[g] = "waiting"
  /\ Ready(want[g]) \/ Broken(want[g])
  /\ Goto(g, "idle")
  /\ holder' = IF holder = g THEN Nothing ELSE holder
  /\ known' = IF Ready(want[g]) THEN known \cup {want[g]} ELSE known
  /\ UNCHANGED <<op, want, task, stage, outstanding>>

-----------------------------------------------------------------------------
Session(g) == \/ Dispatch(g) \/ DispatchEnds(g) \/ Compile(g) \/ Free(g)
              \/ Link(g) \/ Return(g)

Step(g) == Build(g) \/ AddModule(g) \/ CallEnds(g) \/ Session(g)

Next == \E g \in Goroutines :
          \/ \E o \in Operations, m \in Modules : Request(g, o, m)
          \/ \E m \in Modules : LookupAgain(g, m) \/ Call(g, m)
          \/ Enter(g) \/ Step(g)

Spec == Init /\ [][Next]_vars

\* A goroutine that is not blocked goes on; the lock starves nobody, like Go's.
FairSpec == Spec /\ \A g \in Goroutines : WF_vars(Step(g)) /\ SF_vars(Enter(g))

-----------------------------------------------------------------------------
Places == {"idle", "blocked", "building", "adding", "dispatching", "compiling",
           "freeing", "linking", "waiting", "calling"}

Looking == {"dispatching", "compiling", "freeing", "linking", "waiting"}

\* The type invariant.
TypeOK ==
  /\ pc \in [Goroutines -> Places] /\ op \in [Goroutines -> Operations]
  /\ want \in [Goroutines -> Modules]
  /\ task \in [Goroutines -> Modules \cup {Nothing}]
  /\ \A g \in Goroutines :
       pc[g] \in {"compiling", "freeing", "linking"} <=> task[g] # Nothing
  /\ holder \in Goroutines \cup {Nothing}
  /\ stage \in [Modules -> {"none", "built", "added", "inflight", "linked", "failed"}]
  /\ outstanding \subseteq Modules /\ known \subseteq Modules

InContext(g) == pc[g] \in {"building", "adding", "compiling", "freeing"}

\* No two goroutines work on LLVM's global context, or with the jit's only
\* compiler, at once (lljit.go:99-103): not even when one that holds no lock
\* compiles what another is looking up.
ContextExclusive ==
  \A g, h \in Goroutines : InContext(g) /\ InContext(h) => g = h

\* A call never reaches a function that is not linked, although the jit links
\* lazily and the addresses are called without a lock (lljit.go:110-120).
CallsOnlyLinked ==
  \A g \in Goroutines : pc[g] = "calling" => Ready(want[g])

\* Every lookup returns, and every operation that waits for the lock gets its
\* turn, whichever goroutine compiles the module (lljit.go:81-91).
OperationsEnd ==
  \A g \in Goroutines : pc[g] # "idle" ~> pc[g] = "idle"

PhaseOf(g) == IF pc[g] \in Looking THEN "looking"
              ELSE IF pc[g] = "calling" THEN "calling" ELSE "idle"

WantOf(g) == IF pc[g] \in Looking \cup {"calling"} THEN want[g] ELSE Nothing

\* To the goroutines the jit is the lazy one: the steps of the session are
\* atomic ones (lljit.go:81-97).
Lazy == INSTANCE LazyJit WITH
  phase   <- [g \in Goroutines |-> PhaseOf(g)],
  want    <- [g \in Goroutines |-> WantOf(g)],
  defined <- {m \in Modules : stage[m] \notin {"none", "built"}},
  linked  <- {m \in Modules : stage[m] = "linked"},
  failed  <- {m \in Modules : stage[m] = "failed"}

ImplementsLazyJit == Lazy!Spec
=============================================================================
