------------------------ MODULE ConcurrentJit_proofs ------------------------
(***************************************************************************)
(* ConcurrentJit for every number of goroutines and modules: nobody works  *)
(* on the global context beside somebody else, calls reach linked code     *)
(* only, and the jit is the lazy one of LazyJit.                           *)
(***************************************************************************)
EXTENDS ConcurrentJit, TLAPS

\* Who builds or adds a module is in the lock, and the module is still to be
\* built or added.
LockHeld ==
  \A g \in Goroutines :
    /\ pc[g] = "building" => holder = g /\ stage[want[g]] = "none"
    /\ pc[g] = "adding" => holder = g /\ stage[want[g]] = "built"

\* A module in flight is the one the goroutine in the lock is looking up.
InFlightWanted ==
  \A m \in Modules : stage[m] = "inflight" =>
    /\ holder \in Goroutines /\ pc[holder] \in Looking /\ want[holder] = m
    /\ Needs[m] \subseteq known

\* It is on the list or in the hands of one goroutine.
TasksApart ==
  /\ \A m \in outstanding : stage[m] = "inflight"
  /\ \A g \in Goroutines : task[g] # Nothing =>
       stage[task[g]] = "inflight" /\ task[g] \notin outstanding
  /\ \A g, h \in Goroutines : task[g] # Nothing /\ task[g] = task[h] => g = h

\* A lookup is of a module that was added.
LookedUp == \A g \in Goroutines : pc[g] \in Looking =>
              stage[want[g]] \in {"inflight", "linked", "failed"}

AllReady ==
  /\ \A m \in Modules : stage[m] = "linked" => Ready(m)
  /\ \A m \in known : stage[m] = "linked"
  /\ \A g \in Goroutines : pc[g] = "calling" => stage[want[g]] = "linked"

IInv == TypeOK /\ LockHeld /\ InFlightWanted /\ TasksApart /\ LookedUp /\ AllReady

-----------------------------------------------------------------------------
(* What a function reaches.                                                *)

\* What lies within a set lies within a larger one.
LEMMA ReachesMore ==
  ASSUME NEW m, NEW S, NEW T, S \subseteq T, ReachesWithin(m, S)
  PROVE  ReachesWithin(m, T)
  BY DEF ReachesWithin

\* A function reaches itself and what the functions it calls reach.
LEMMA ReachesStep ==
  ASSUME NEW S, NEW m \in S, \A x \in Needs[m] : ReachesWithin(x, S)
  PROVE  ReachesWithin(m, S)
  <1> DEFINE T == {m} \cup {x \in S : ReachesWithin(x, S)}
  <1>1. \A x \in T : Needs[x] \subseteq T
    <2> SUFFICES ASSUME NEW x \in T, NEW y \in Needs[x] PROVE y \in T
      OBVIOUS
    <2>1. CASE x = m
      BY <2>1 DEF ReachesWithin
    <2>2. CASE x \in S /\ ReachesWithin(x, S)
      <3>1. PICK U \in SUBSET S : x \in U /\ \A z \in U : Needs[z] \subseteq U
        BY <2>2 DEF ReachesWithin
      <3> QED
        BY <3>1 DEF ReachesWithin
    <2> QED
      BY <2>1, <2>2
  <1> QED
    BY <1>1 DEF ReachesWithin

\* What is reached within a set is in it.
LEMMA ReachesItself ==
  ASSUME NEW m, NEW S, ReachesWithin(m, S)
  PROVE  m \in S
  BY DEF ReachesWithin

\* A module that is ready stays so while linked modules stay linked.
LEMMA ReadyStays ==
  ASSUME NEW m, Ready(m),
         \A x \in Modules : stage[x] = "linked" => stage'[x] = "linked"
  PROVE  Ready(m)'
  <1> DEFINE S == {x \in Modules : stage[x] = "linked"}
             T == {x \in Modules : stage'[x] = "linked"}
  <1>1. S \subseteq T /\ ReachesWithin(m, S)
    BY DEF Ready
  <1>2. ReachesWithin(m, T)
    BY <1>1, ReachesMore
  <1> QED
    BY <1>2 DEF Ready

\* A lookup that has waited is told no failure while its module is in flight.
LEMMA InFlightNotBroken ==
  ASSUME IInv, NEW m \in Modules, stage[m] = "inflight"
  PROVE  ~Broken(m) /\ ~Ready(m)
  <1> DEFINE S == {x \in Modules : stage[x] = "linked"}
             T == {x \in Modules : stage[x] # "failed"}
  <1>1. \A x \in Needs[m] : ReachesWithin(x, T)
    <2> SUFFICES ASSUME NEW x \in Needs[m] PROVE ReachesWithin(x, T)
      OBVIOUS
    <2>1. x \in Modules /\ stage[x] = "linked"
      BY DEF IInv, TypeOK, InFlightWanted, AllReady
    <2>2. ReachesWithin(x, S) /\ S \subseteq T
      BY <2>1 DEF IInv, AllReady, Ready
    <2> QED
      BY <2>2, ReachesMore
  <1>2. ReachesWithin(m, T)
    BY <1>1, ReachesStep
  <1>3. ~Ready(m)
    BY ReachesItself DEF Ready
  <1> QED
    BY <1>2, <1>3 DEF Broken

\* A module that is linked is not broken.
LEMMA LinkedNotBroken ==
  ASSUME IInv, NEW m \in Modules, stage[m] = "linked"
  PROVE  Ready(m) /\ ~Broken(m)
  <1> DEFINE S == {x \in Modules : stage[x] = "linked"}
             T == {x \in Modules : stage[x] # "failed"}
  <1>1. ReachesWithin(m, S) /\ S \subseteq T
    BY DEF IInv, AllReady, Ready
  <1>2. ReachesWithin(m, T)
    BY <1>1, ReachesMore
  <1> QED
    BY <1>1, <1>2 DEF Broken, Ready

-----------------------------------------------------------------------------
(* Every action preserves the invariant.                                   *)

\* A request.
LEMMA RequestIInv ==
  ASSUME IInv, NEW g \in Goroutines, NEW o \in Operations, NEW m \in Modules,
         Request(g, o, m)
  PROVE  IInv'
  <1> USE JitAssumption DEF IInv, TypeOK, Goto, Places, Operations, Looking, Request
  <1>1. \A x \in Modules : Ready(x) => Ready(x)'
    BY ReadyStays DEF LockHeld
  <1>2. TypeOK'
    OBVIOUS
  <1>3. LockHeld'
    BY DEF LockHeld, TasksApart
  <1>4. InFlightWanted'
    BY DEF InFlightWanted, LockHeld
  <1>5. TasksApart'
    BY DEF TasksApart, InFlightWanted, LockHeld
  <1>6. LookedUp'
    BY DEF LookedUp, LockHeld, AllReady
  <1>7. AllReady'
    BY <1>1 DEF AllReady, LockHeld
  <1> QED
    BY <1>2, <1>3, <1>4, <1>5, <1>6, <1>7

\* The end of a build.
LEMMA BuildIInv ==
  ASSUME IInv, NEW g \in Goroutines, Build(g)
  PROVE  IInv'
  <1> USE JitAssumption DEF IInv, TypeOK, Goto, Places, Operations, Looking, Build
  <1>1. \A x \in Modules : Ready(x) => Ready(x)'
    BY ReadyStays DEF LockHeld
  <1>2. TypeOK'
    OBVIOUS
  <1>3. LockHeld'
    BY DEF LockHeld, TasksApart
  <1>4. InFlightWanted'
    BY DEF InFlightWanted, LockHeld
  <1>5. TasksApart'
    BY DEF TasksApart, InFlightWanted, LockHeld
  <1>6. LookedUp'
    BY DEF LookedUp, LockHeld, AllReady
  <1>7. AllReady'
    BY <1>1 DEF AllReady, LockHeld
  <1> QED
    BY <1>2, <1>3, <1>4, <1>5, <1>6, <1>7

\* The end of an addition.
LEMMA AddModuleIInv ==
  ASSUME IInv, NEW g \in Goroutines, AddModule(g)
  PROVE  IInv'
  <1> USE JitAssumption DEF IInv, TypeOK, Goto, Places, Operations, Looking, AddModule
  <1>1. \A x \in Modules : Ready(x) => Ready(x)'
    BY ReadyStays DEF LockHeld
  <1>2. TypeOK'
    OBVIOUS
  <1>3. LockHeld'
    BY DEF LockHeld, TasksApart
  <1>4. InFlightWanted'
    BY DEF InFlightWanted, LockHeld
  <1>5. TasksApart'
    BY DEF TasksApart, InFlightWanted, LockHeld
  <1>6. LookedUp'
    BY DEF LookedUp, LockHeld, AllReady
  <1>7. AllReady'
    BY <1>1 DEF AllReady, LockHeld
  <1> QED
    BY <1>2, <1>3, <1>4, <1>5, <1>6, <1>7

\* A lookup without the lock.
LEMMA LookupAgainIInv ==
  ASSUME IInv, NEW g \in Goroutines, NEW m \in Modules, LookupAgain(g, m)
  PROVE  IInv'
  <1> USE JitAssumption DEF IInv, TypeOK, Goto, Places, Operations, Looking, LookupAgain
  <1>1. \A x \in Modules : Ready(x) => Ready(x)'
    BY ReadyStays DEF LockHeld
  <1>2. TypeOK'
    OBVIOUS
  <1>3. LockHeld'
    BY DEF LockHeld, TasksApart
  <1>4. InFlightWanted'
    BY DEF InFlightWanted, LockHeld
  <1>5. TasksApart'
    BY DEF TasksApart, InFlightWanted, LockHeld
  <1>6. LookedUp'
    BY DEF LookedUp, LockHeld, AllReady
  <1>7. AllReady'
    BY <1>1 DEF AllReady, LockHeld
  <1> QED
    BY <1>2, <1>3, <1>4, <1>5, <1>6, <1>7

\* A call.
LEMMA CallIInv ==
  ASSUME IInv, NEW g \in Goroutines, NEW m \in Modules, Call(g, m)
  PROVE  IInv'
  <1> USE JitAssumption DEF IInv, TypeOK, Goto, Places, Operations, Looking, Call
  <1>1. \A x \in Modules : Ready(x) => Ready(x)'
    BY ReadyStays DEF LockHeld
  <1>2. TypeOK'
    OBVIOUS
  <1>3. LockHeld'
    BY DEF LockHeld, TasksApart
  <1>4. InFlightWanted'
    BY DEF InFlightWanted, LockHeld
  <1>5. TasksApart'
    BY DEF TasksApart, InFlightWanted, LockHeld
  <1>6. LookedUp'
    BY DEF LookedUp, LockHeld, AllReady
  <1>7. AllReady'
    BY <1>1 DEF AllReady, LockHeld
  <1> QED
    BY <1>2, <1>3, <1>4, <1>5, <1>6, <1>7

\* The end of a call.
LEMMA CallEndsIInv ==
  ASSUME IInv, NEW g \in Goroutines, CallEnds(g)
  PROVE  IInv'
  <1> USE JitAssumption DEF IInv, TypeOK, Goto, Places, Operations, Looking, CallEnds
  <1>1. \A x \in Modules : Ready(x) => Ready(x)'
    BY ReadyStays DEF LockHeld
  <1>2. TypeOK'
    OBVIOUS
  <1>3. LockHeld'
    BY DEF LockHeld, TasksApart
  <1>4. InFlightWanted'
    BY DEF InFlightWanted, LockHeld
  <1>5. TasksApart'
    BY DEF TasksApart, InFlightWanted, LockHeld
  <1>6. LookedUp'
    BY DEF LookedUp, LockHeld, AllReady
  <1>7. AllReady'
    BY <1>1 DEF AllReady, LockHeld
  <1> QED
    BY <1>2, <1>3, <1>4, <1>5, <1>6, <1>7

\* A module is taken from the list.
LEMMA DispatchIInv ==
  ASSUME IInv, NEW g \in Goroutines, Dispatch(g)
  PROVE  IInv'
  <1> USE JitAssumption DEF IInv, TypeOK, Goto, Places, Operations, Looking, Dispatch
  <1>1. \A x \in Modules : Ready(x) => Ready(x)'
    BY ReadyStays DEF LockHeld
  <1>2. TypeOK'
    OBVIOUS
  <1>3. LockHeld'
    BY DEF LockHeld, TasksApart
  <1>4. InFlightWanted'
    BY DEF InFlightWanted, LockHeld
  <1>5. TasksApart'
    BY DEF TasksApart, InFlightWanted, LockHeld
  <1>6. LookedUp'
    BY DEF LookedUp, LockHeld, AllReady
  <1>7. AllReady'
    BY <1>1 DEF AllReady, LockHeld
  <1> QED
    BY <1>2, <1>3, <1>4, <1>5, <1>6, <1>7

\* The list is empty.
LEMMA DispatchEndsIInv ==
  ASSUME IInv, NEW g \in Goroutines, DispatchEnds(g)
  PROVE  IInv'
  <1> USE JitAssumption DEF IInv, TypeOK, Goto, Places, Operations, Looking, DispatchEnds
  <1>1. \A x \in Modules : Ready(x) => Ready(x)'
    BY ReadyStays DEF LockHeld
  <1>2. TypeOK'
    OBVIOUS
  <1>3. LockHeld'
    BY DEF LockHeld, TasksApart
  <1>4. InFlightWanted'
    BY DEF InFlightWanted, LockHeld
  <1>5. TasksApart'
    BY DEF TasksApart, InFlightWanted, LockHeld
  <1>6. LookedUp'
    BY DEF LookedUp, LockHeld, AllReady
  <1>7. AllReady'
    BY <1>1 DEF AllReady, LockHeld
  <1> QED
    BY <1>2, <1>3, <1>4, <1>5, <1>6, <1>7

\* A module is compiled.
LEMMA CompileIInv ==
  ASSUME IInv, NEW g \in Goroutines, Compile(g)
  PROVE  IInv'
  <1> USE JitAssumption DEF IInv, TypeOK, Goto, Places, Operations, Looking, Compile
  <1>1. \A x \in Modules : Ready(x) => Ready(x)'
    BY ReadyStays DEF LockHeld
  <1>2. TypeOK'
    OBVIOUS
  <1>3. LockHeld'
    BY DEF LockHeld, TasksApart
  <1>4. InFlightWanted'
    BY DEF InFlightWanted, LockHeld
  <1>5. TasksApart'
    BY DEF TasksApart, InFlightWanted, LockHeld
  <1>6. LookedUp'
    BY DEF LookedUp, LockHeld, AllReady
  <1>7. AllReady'
    BY <1>1 DEF AllReady, LockHeld
  <1> QED
    BY <1>2, <1>3, <1>4, <1>5, <1>6, <1>7

\* A module is freed.
LEMMA FreeIInv ==
  ASSUME IInv, NEW g \in Goroutines, Free(g)
  PROVE  IInv'
  <1> USE JitAssumption DEF IInv, TypeOK, Goto, Places, Operations, Looking, Free
  <1>1. \A x \in Modules : Ready(x) => Ready(x)'
    BY ReadyStays DEF LockHeld
  <1>2. TypeOK'
    OBVIOUS
  <1>3. LockHeld'
    BY DEF LockHeld, TasksApart
  <1>4. InFlightWanted'
    BY DEF InFlightWanted, LockHeld
  <1>5. TasksApart'
    BY DEF TasksApart, InFlightWanted, LockHeld
  <1>6. LookedUp'
    BY DEF LookedUp, LockHeld, AllReady
  <1>7. AllReady'
    BY <1>1 DEF AllReady, LockHeld
  <1> QED
    BY <1>2, <1>3, <1>4, <1>5, <1>6, <1>7

\* The lock is granted.  Nothing is in flight then.
LEMMA EnterIInv ==
  ASSUME IInv, NEW g \in Goroutines, Enter(g)
  PROVE  IInv'
  <1> USE JitAssumption DEF IInv, TypeOK, Goto, Places, Operations, Looking
  <1>1. \A x \in Modules : stage[x] # "inflight"
    BY DEF InFlightWanted, Enter
  <1>2. outstanding = {} /\ \A h \in Goroutines : task[h] = Nothing
    BY <1>1 DEF TasksApart
  <1>3. CASE ~Applicable(op[g], want[g])
    <2>0. /\ pc' = [pc EXCEPT ![g] = "idle"]
          /\ UNCHANGED <<op, want, task, holder, stage, outstanding, known>>
      BY <1>3 DEF Enter
    <2>1. \A x \in Modules : Ready(x) => Ready(x)'
      BY <2>0, ReadyStays
    <2>2. TypeOK' /\ LockHeld' /\ InFlightWanted' /\ TasksApart'
      BY <1>1, <1>2, <2>0, pc[g] = "blocked" DEF LockHeld, InFlightWanted, TasksApart, Enter
    <2>3. LookedUp' /\ AllReady'
      BY <2>0, <2>1 DEF LookedUp, AllReady
    <2> QED
      BY <2>2, <2>3
  <1>4. CASE Applicable(op[g], want[g]) /\ op[g] # "lookup"
    <2>0. /\ \/ /\ op[g] = "build" /\ stage[want[g]] = "none"
                /\ pc' = [pc EXCEPT ![g] = "building"]
             \/ /\ op[g] = "add" /\ stage[want[g]] = "built"
                /\ pc' = [pc EXCEPT ![g] = "adding"]
          /\ pc[g] = "blocked" /\ holder = Nothing /\ holder' = g
          /\ UNCHANGED <<op, want, task, stage, outstanding, known>>
      BY <1>4 DEF Enter, Applicable
    <2>1. \A x \in Modules : Ready(x) => Ready(x)'
      BY <2>0, ReadyStays
    <2>2. TypeOK'
      BY <2>0
    <2>3. LockHeld' /\ InFlightWanted' /\ TasksApart'
      BY <1>1, <1>2, <2>0 DEF LockHeld, InFlightWanted, TasksApart
    <2>4. LookedUp' /\ AllReady'
      BY <2>0, <2>1 DEF LookedUp, AllReady
    <2> QED
      BY <2>2, <2>3, <2>4
  <1>5. CASE Applicable(op[g], want[g]) /\ op[g] = "lookup"
    <2>0. /\ pc[g] = "blocked" /\ holder = Nothing /\ holder' = g
          /\ pc' = [pc EXCEPT ![g] = "dispatching"]
          /\ stage[want[g]] \notin {"none", "built"} /\ Needs[want[g]] \subseteq known
          /\ UNCHANGED <<op, want, task, known>>
      BY <1>5 DEF Enter, Applicable
    <2>1. CASE stage[want[g]] = "added"
      <3>0. /\ outstanding' = {want[g]}
            /\ stage' = [stage EXCEPT ![want[g]] = "inflight"]
        BY <1>2, <1>5, <2>1 DEF Enter
      <3>1. \A x \in Modules : Ready(x) => Ready(x)'
        BY <2>1, <3>0, ReadyStays
      <3>2. TypeOK'
        BY <2>0, <3>0
      <3>3. LockHeld'
        BY <2>0, <2>1, <3>0 DEF LockHeld
      <3>4. InFlightWanted' /\ TasksApart'
        BY <1>1, <1>2, <2>0, <3>0 DEF InFlightWanted, TasksApart
      <3>5. LookedUp'
        BY <2>0, <3>0 DEF LookedUp
      <3>6. AllReady'
        BY <2>0, <2>1, <3>0, <3>1 DEF AllReady
      <3> QED
        BY <3>2, <3>3, <3>4, <3>5, <3>6
    <2>2. CASE stage[want[g]] # "added"
      <3>0. UNCHANGED <<stage, outstanding>>
        BY <1>5, <2>2 DEF Enter
      <3>1. \A x \in Modules : Ready(x) => Ready(x)'
        BY <3>0, ReadyStays
      <3>2. TypeOK' /\ LockHeld'
        BY <2>0, <3>0 DEF LockHeld
      <3>3. InFlightWanted' /\ TasksApart'
        BY <1>1, <1>2, <2>0, <3>0 DEF InFlightWanted, TasksApart
      <3>4. LookedUp'
        BY <2>0, <2>2, <3>0 DEF LookedUp
      <3>5. AllReady'
        BY <2>0, <3>0, <3>1 DEF AllReady
      <3> QED
        BY <3>2, <3>3, <3>4, <3>5
    <2> QED
      BY <2>1, <2>2
  <1> QED
    BY <1>3, <1>4, <1>5

\* What a link does: nothing the module calls is left to be put on the list.
LEMMA LinkEffect ==
  ASSUME IInv, NEW g \in Goroutines, Link(g)
  PROVE  /\ task[g] \in Modules /\ stage[task[g]] = "inflight"
         /\ Needs[task[g]] \subseteq known
         /\ holder \in Goroutines /\ pc[holder] \in Looking /\ want[holder] = task[g]
         /\ \E end \in {"linked", "failed"} : stage' = [stage EXCEPT ![task[g]] = end]
         /\ outstanding' = outstanding
  <1> USE JitAssumption DEF IInv, TypeOK
  <1>1. task[g] \in Modules /\ stage[task[g]] = "inflight"
    BY DEF Link, TasksApart
  <1>2. /\ Needs[task[g]] \subseteq known
        /\ holder \in Goroutines /\ pc[holder] \in Looking /\ want[holder] = task[g]
    BY <1>1 DEF InFlightWanted
  <1>3. \A m \in Needs[task[g]] : stage[m] = "linked"
    BY <1>2 DEF AllReady
  <1> DEFINE called == {m \in Needs[task[g]] : stage[m] = "added"}
  <1>4. called = {}
    BY <1>3
  <1>5. \/ /\ outstanding' = outstanding \cup called
           /\ stage' = [m \in Modules |-> IF m = task[g] THEN "linked"
                                          ELSE IF m \in called THEN "inflight"
                                          ELSE stage[m]]
        \/ /\ stage' = [stage EXCEPT ![task[g]] = "failed"]
           /\ UNCHANGED outstanding
    BY DEF Link
  <1>6. stage' \in {[stage EXCEPT ![task[g]] = "linked"], [stage EXCEPT ![task[g]] = "failed"]}
    BY <1>4, <1>5
  <1>7. \E end \in {"linked", "failed"} : stage' = [stage EXCEPT ![task[g]] = end]
    BY <1>6
  <1>8. outstanding' = outstanding
    BY <1>4, <1>5
  <1> QED
    BY <1>1, <1>2, <1>7, <1>8

\* A link.
LEMMA LinkIInv ==
  ASSUME IInv, NEW g \in Goroutines, Link(g)
  PROVE  IInv'
  <1> USE JitAssumption DEF IInv, TypeOK, Goto, Places, Operations, Looking
  <1>0. /\ pc[g] = "linking" /\ pc' = [pc EXCEPT ![g] = "dispatching"]
        /\ task' = [task EXCEPT ![g] = Nothing]
        /\ UNCHANGED <<op, want, holder, known>>
    BY DEF Link
  <1>a. PICK t \in Modules : t = task[g]
    BY LinkEffect
  <1>1. /\ t = task[g] /\ stage[t] = "inflight" /\ Needs[t] \subseteq known
        /\ outstanding' = outstanding
    BY <1>a, LinkEffect
  <1>2. PICK end \in {"linked", "failed"} : stage' = [stage EXCEPT ![t] = end]
    BY <1>a, LinkEffect
  <1>3. \A x \in Modules : Ready(x) => Ready(x)'
    BY <1>1, <1>2, ReadyStays
  <1>4. TypeOK' /\ LockHeld'
    BY <1>0, <1>1, <1>2 DEF LockHeld
  <1>5. InFlightWanted'
    BY <1>0, <1>1, <1>2 DEF InFlightWanted
  <1>6. TasksApart'
    BY <1>0, <1>1, <1>2 DEF TasksApart
  <1>7. LookedUp'
    BY <1>0, <1>1, <1>2 DEF LookedUp
  <1>8. end = "linked" => Ready(t)'
    <2> SUFFICES ASSUME end = "linked" PROVE Ready(t)'
      OBVIOUS
    <2> DEFINE S == {x \in Modules : stage'[x] = "linked"}
    <2>1. t \in S
      BY <1>1, <1>2
    <2>2. \A x \in Needs[t] : Ready(x)'
      BY <1>1, <1>3 DEF AllReady
    <2>3. \A x \in Needs[t] : ReachesWithin(x, S)
      BY <2>2 DEF Ready
    <2>4. ReachesWithin(t, S)
      BY <2>1, <2>3, ReachesStep
    <2> QED
      BY <2>4, <1>0 DEF Ready
  <1>9. AllReady'
    <2>1. \A m \in Modules : stage'[m] = "linked" => Ready(m)'
      BY <1>1, <1>2, <1>3, <1>8 DEF AllReady
    <2>2. \A m \in known' : stage'[m] = "linked"
      BY <1>0, <1>1, <1>2 DEF AllReady
    <2>3. \A h \in Goroutines : pc'[h] = "calling" => stage'[want'[h]] = "linked"
      BY <1>0, <1>1, <1>2 DEF AllReady
    <2> QED
      BY <2>1, <2>2, <2>3 DEF AllReady
  <1> QED
    BY <1>4, <1>5, <1>6, <1>7, <1>9

\* When a lookup returns, its module is linked or has failed.
LEMMA ReturnEffect ==
  ASSUME IInv, NEW g \in Goroutines, Return(g)
  PROVE  /\ want[g] \in Modules
         /\ \/ /\ stage[want[g]] = "linked" /\ known' = known \cup {want[g]}
            \/ stage[want[g]] = "failed" /\ known' = known
  <1>1. want[g] \in Modules /\ stage[want[g]] \in {"inflight", "linked", "failed"}
    BY DEF IInv, TypeOK, LookedUp, Looking, Return
  <1>2. stage[want[g]] # "inflight"
    BY <1>1, InFlightNotBroken DEF Return
  <1>3. Ready(want[g]) => stage[want[g]] = "linked"
    BY <1>1, ReachesItself DEF Ready
  <1>4. stage[want[g]] = "linked" => Ready(want[g])
    BY <1>1 DEF IInv, AllReady
  <1> QED
    BY <1>1, <1>2, <1>3, <1>4 DEF Return

\* The return of a lookup.
LEMMA ReturnIInv ==
  ASSUME IInv, NEW g \in Goroutines, Return(g)
  PROVE  IInv'
  <1> USE JitAssumption DEF IInv, TypeOK, Goto, Places, Operations, Looking
  <1>0. /\ pc[g] = "waiting" /\ pc' = [pc EXCEPT ![g] = "idle"]
        /\ holder' = IF holder = g THEN Nothing ELSE holder
        /\ UNCHANGED <<op, want, task, stage, outstanding>>
    BY DEF Return
  <1>1. /\ want[g] \in Modules /\ stage[want[g]] # "inflight"
        /\ known \subseteq known' /\ \A m \in known' : stage[m] = "linked"
        /\ known' \subseteq Modules
    BY ReturnEffect DEF AllReady
  <1>2. \A x \in Modules : Ready(x) => Ready(x)'
    BY <1>0, ReadyStays
  <1>3. TypeOK'
    BY <1>0, <1>1
  <1>4. LockHeld'
    BY <1>0 DEF LockHeld
  <1>5. InFlightWanted'
    BY <1>0, <1>1 DEF InFlightWanted
  <1>6. TasksApart'
    BY <1>0 DEF TasksApart
  <1>7. LookedUp'
    BY <1>0 DEF LookedUp
  <1>8. AllReady'
    BY <1>0, <1>1, <1>2 DEF AllReady
  <1> QED
    BY <1>3, <1>4, <1>5, <1>6, <1>7, <1>8

\* The invariant holds at first.
LEMMA InitIInv == Init => IInv
  BY JitAssumption DEF Init, IInv, TypeOK, LockHeld, InFlightWanted, TasksApart,
     LookedUp, AllReady, Places, Operations, Looking

\* A step that changes nothing.
LEMMA StutterIInv ==
  ASSUME IInv, UNCHANGED vars
  PROVE  IInv'
  <1>1. \A x \in Modules : Ready(x) => Ready(x)'
    BY ReadyStays DEF vars
  <1>2. TypeOK' /\ LockHeld' /\ InFlightWanted' /\ TasksApart' /\ LookedUp'
    BY DEF IInv, TypeOK, LockHeld, InFlightWanted, TasksApart, LookedUp, vars
  <1>3. AllReady'
    BY <1>1 DEF IInv, AllReady, vars
  <1> QED
    BY <1>2, <1>3 DEF IInv

\* Every step preserves it.
LEMMA NextIInv == IInv /\ [Next]_vars => IInv'
  <1> SUFFICES ASSUME IInv, [Next]_vars PROVE IInv'
    OBVIOUS
  <1>1. ASSUME NEW g \in Goroutines, NEW m \in Modules, NEW o \in Operations,
               Request(g, o, m)
        PROVE  IInv'
    BY <1>1, RequestIInv
  <1>2. ASSUME NEW g \in Goroutines, NEW m \in Modules, LookupAgain(g, m) \/ Call(g, m)
        PROVE  IInv'
    BY <1>2, LookupAgainIInv, CallIInv
  <1>3. ASSUME NEW g \in Goroutines, Enter(g) \/ Build(g) \/ AddModule(g) \/ CallEnds(g)
        PROVE  IInv'
    BY <1>3, EnterIInv, BuildIInv, AddModuleIInv, CallEndsIInv
  <1>4. ASSUME NEW g \in Goroutines, Session(g)
        PROVE  IInv'
    BY <1>4, DispatchIInv, DispatchEndsIInv, CompileIInv, FreeIInv, LinkIInv,
       ReturnIInv DEF Session
  <1>5. CASE UNCHANGED vars
    BY <1>5, StutterIInv
  <1> QED
    BY <1>1, <1>2, <1>3, <1>4, <1>5 DEF Next, Step

\* The invariant always holds.
THEOREM Invariance == Spec => []IInv
  BY InitIInv, NextIInv, PTL DEF Spec

-----------------------------------------------------------------------------
(* The theorems.                                                           *)

\* The state has its type.
THEOREM TypeCorrect == Spec => []TypeOK
  <1>1. IInv => TypeOK
    BY DEF IInv
  <1> QED
    BY <1>1, Invariance, PTL

\* At most one goroutine works on the global context or with the compiler
\* (lljit.go:99-103).
THEOREM OneInContext == Spec => []ContextExclusive
  <1>1. IInv => ContextExclusive
    <2> SUFFICES ASSUME IInv, NEW g \in Goroutines, NEW h \in Goroutines,
                        InContext(g), InContext(h)
                 PROVE  g = h
      BY DEF ContextExclusive
    <2> DEFINE InLock(x) == pc[x] \in {"building", "adding"}
    <2>1. InLock(g) => holder = g
      BY DEF IInv, LockHeld
    <2>2. InLock(h) => holder = h
      BY DEF IInv, LockHeld
    <2>3. ~InLock(g) => /\ task[g] # Nothing /\ pc[holder] \in Looking
                        /\ want[holder] = task[g]
      BY DEF IInv, TypeOK, TasksApart, InFlightWanted, InContext
    <2>4. ~InLock(h) => /\ task[h] # Nothing /\ pc[holder] \in Looking
                        /\ want[holder] = task[h]
      BY DEF IInv, TypeOK, TasksApart, InFlightWanted, InContext
    <2> QED
      BY <2>1, <2>2, <2>3, <2>4 DEF IInv, TasksApart, Looking
  <1> QED
    BY <1>1, Invariance, PTL

\* An address can be called without a lock (lljit.go:110-120).
THEOREM CallsSafe == Spec => []CallsOnlyLinked
  <1>1. IInv => CallsOnlyLinked
    BY DEF IInv, TypeOK, AllReady, CallsOnlyLinked
  <1> QED
    BY <1>1, Invariance, PTL

-----------------------------------------------------------------------------
(* The jit is the lazy one.                                                *)

\* The initial states are those of the lazy jit.
LEMMA InitLazy == Init => Lazy!Init
  BY DEF Init, Lazy!Init, PhaseOf, WantOf, Looking

\* What a step leaves alone of the lazy jit's state.
LEMMA Unseen ==
  ASSUME \A g \in Goroutines : PhaseOf(g)' = PhaseOf(g) /\ WantOf(g)' = WantOf(g),
         UNCHANGED <<stage, known>>
  PROVE  UNCHANGED Lazy!vars
  BY DEF Lazy!vars

\* The steps of a lookup but the last two, and what happens to the lock, are
\* not seen.
LEMMA StutterLazy ==
  ASSUME IInv, NEW g \in Goroutines, NEW m \in Modules, NEW o \in Operations,
         Request(g, o, m) \/ Dispatch(g) \/ DispatchEnds(g) \/ Compile(g) \/ Free(g)
  PROVE  UNCHANGED Lazy!vars
  <1> USE DEF IInv, TypeOK, Goto, Looking, Places
  <1>1. UNCHANGED <<stage, known>>
    BY DEF Request, Dispatch, DispatchEnds, Compile, Free
  <1>2. \A h \in Goroutines : PhaseOf(h)' = PhaseOf(h) /\ WantOf(h)' = WantOf(h)
    BY DEF Request, Dispatch, DispatchEnds, Compile, Free, PhaseOf, WantOf
  <1> QED
    BY <1>1, <1>2, Unseen

\* A build is not seen either.
LEMMA BuildLazy ==
  ASSUME IInv, NEW g \in Goroutines, Build(g)
  PROVE  UNCHANGED Lazy!vars
  BY DEF IInv, TypeOK, Goto, Looking, Places, Build, LockHeld, PhaseOf, WantOf, Lazy!vars

\* The end of an addition is one.
LEMMA AddModuleLazy ==
  ASSUME IInv, NEW g \in Goroutines, AddModule(g)
  PROVE  \E m \in Modules : Lazy!AddModule(m)
  <1>1. PICK m \in Modules : m = want[g]
    BY DEF IInv, TypeOK
  <1>2. Lazy!AddModule(m)
    BY <1>1 DEF IInv, TypeOK, Goto, Looking, Places, AddModule, LockHeld, PhaseOf,
       WantOf, Lazy!AddModule
  <1> QED
    BY <1>2

\* A lookup without the lock.
LEMMA LookupLazy ==
  ASSUME IInv, NEW g \in Goroutines, NEW m \in Modules, LookupAgain(g, m)
  PROVE  Lazy!Lookup(g, m)
  BY DEF IInv, TypeOK, Goto, Looking, Places, LookupAgain, AllReady, PhaseOf, WantOf,
     Lazy!Lookup

\* A lookup with the lock starts when it gets the lock.
LEMMA EnterLazy ==
  ASSUME IInv, NEW g \in Goroutines, Enter(g)
  PROVE  (\E m \in Modules : Lazy!Lookup(g, m)) \/ UNCHANGED Lazy!vars
  <1> USE DEF IInv, TypeOK, Goto, Looking, Places, Operations
  <1>1. CASE op[g] = "lookup" /\ Applicable(op[g], want[g])
    <2>1. /\ pc[g] = "blocked" /\ pc' = [pc EXCEPT ![g] = "dispatching"]
          /\ stage[want[g]] \notin {"none", "built"}
          /\ UNCHANGED <<want, known>>
      BY <1>1 DEF Enter, Applicable
    <2>2. \/ stage' = stage
          \/ /\ stage[want[g]] = "added"
             /\ stage' = [stage EXCEPT ![want[g]] = "inflight"]
      BY <1>1 DEF Enter
    <2>3. /\ PhaseOf(g) = "idle" /\ PhaseOf(g)' = "looking" /\ WantOf(g)' = want[g]
          /\ \A h \in Goroutines \ {g} : PhaseOf(h)' = PhaseOf(h) /\ WantOf(h)' = WantOf(h)
      BY <2>1 DEF PhaseOf, WantOf
    <2>4. /\ {m \in Modules : stage'[m] \notin {"none", "built"}}
               = {m \in Modules : stage[m] \notin {"none", "built"}}
          /\ {m \in Modules : stage'[m] = "linked"} = {m \in Modules : stage[m] = "linked"}
          /\ {m \in Modules : stage'[m] = "failed"} = {m \in Modules : stage[m] = "failed"}
      BY <2>2
    <2>5. PICK m \in Modules : m = want[g]
      OBVIOUS
    <2>a. [x \in Goroutines |-> PhaseOf(x)]'
            = [[x \in Goroutines |-> PhaseOf(x)] EXCEPT ![g] = "looking"]
      BY <2>3
    <2>b. [x \in Goroutines |-> WantOf(x)]'
            = [[x \in Goroutines |-> WantOf(x)] EXCEPT ![g] = m]
      BY <2>3, <2>5
    <2>c. m \in {x \in Modules : stage[x] \notin {"none", "built"}} /\ UNCHANGED known
      BY <2>1, <2>5
    <2>d. [x \in Goroutines |-> PhaseOf(x)][g] = "idle"
      BY <2>3
    <2>6. Lazy!Lookup(g, m)
      BY <2>a, <2>b, <2>c, <2>d, <2>4 DEF Lazy!Lookup
    <2> QED
      BY <2>6
  <1>2. CASE ~(op[g] = "lookup" /\ Applicable(op[g], want[g]))
    BY <1>2 DEF Enter, PhaseOf, WantOf, Lazy!vars
  <1> QED
    BY <1>1, <1>2

\* A call.
LEMMA CallLazy ==
  ASSUME IInv, NEW g \in Goroutines, NEW m \in Modules, Call(g, m)
  PROVE  Lazy!Call(g, m)
  BY DEF IInv, TypeOK, Goto, Looking, Places, Call, PhaseOf, WantOf, Lazy!Call

\* The end of a call.
LEMMA CallEndsLazy ==
  ASSUME IInv, NEW g \in Goroutines, CallEnds(g)
  PROVE  Lazy!CallEnds(g)
  BY DEF IInv, TypeOK, Goto, Looking, Places, CallEnds, PhaseOf, WantOf, Lazy!CallEnds

\* The link is the step that compiles, of the goroutine in the lock.
LEMMA LinkLazy ==
  ASSUME IInv, NEW g \in Goroutines, Link(g)
  PROVE  \E h \in Goroutines : Lazy!Materialize(h)
  <1> USE DEF IInv, TypeOK, Goto, Looking, Places
  <1>1. PICK t \in Modules : t = task[g]
    BY LinkEffect
  <1>2. PICK end \in {"linked", "failed"} : stage' = [stage EXCEPT ![t] = end]
    BY <1>1, LinkEffect
  <1>3. PICK h \in Goroutines : PhaseOf(h) = "looking" /\ WantOf(h) = t
    BY <1>1, LinkEffect DEF PhaseOf, WantOf
  <1>4. stage[t] = "inflight"
    BY <1>1, LinkEffect
  <1>5. /\ \A x \in Goroutines : PhaseOf(x)' = PhaseOf(x) /\ WantOf(x)' = WantOf(x)
        /\ UNCHANGED known
    BY DEF Link, PhaseOf, WantOf
  <1>6. {m \in Modules : stage'[m] \notin {"none", "built"}}
          = {m \in Modules : stage[m] \notin {"none", "built"}}
    BY <1>2, <1>4
  <1>7. \/ /\ {m \in Modules : stage'[m] = "linked"}
                 = {m \in Modules : stage[m] = "linked"} \cup {t}
           /\ {m \in Modules : stage'[m] = "failed"} = {m \in Modules : stage[m] = "failed"}
        \/ /\ {m \in Modules : stage'[m] = "failed"}
                 = {m \in Modules : stage[m] = "failed"} \cup {t}
           /\ {m \in Modules : stage'[m] = "linked"} = {m \in Modules : stage[m] = "linked"}
    BY <1>2, <1>4
  <1>8. Lazy!Materialize(h)
    BY <1>3, <1>4, <1>5, <1>6, <1>7 DEF Lazy!Materialize
  <1> QED
    BY <1>8

\* The return of a lookup.
LEMMA ReturnLazy ==
  ASSUME IInv, NEW g \in Goroutines, Return(g)
  PROVE  Lazy!Return(g)
  BY ReturnEffect DEF IInv, TypeOK, Goto, Looking, Places, Return, PhaseOf, WantOf,
     Lazy!Return

\* Goroutines that keep to the rules see the lazy jit: every step of the
\* session is one of its steps, or none.
THEOREM IsLazy == Spec => ImplementsLazyJit
  <1>1. ASSUME IInv, [Next]_vars
        PROVE  [Lazy!Next]_Lazy!vars
    <2>1. ASSUME NEW g \in Goroutines, NEW m \in Modules, NEW o \in Operations,
                 Request(g, o, m)
          PROVE  UNCHANGED Lazy!vars
      BY <1>1, <2>1, StutterLazy
    <2>2. ASSUME NEW g \in Goroutines, NEW m \in Modules, LookupAgain(g, m) \/ Call(g, m)
          PROVE  Lazy!Next
      BY <1>1, <2>2, LookupLazy, CallLazy DEF Lazy!Next
    <2>3. ASSUME NEW g \in Goroutines, Enter(g)
          PROVE  [Lazy!Next]_Lazy!vars
      BY <1>1, <2>3, EnterLazy DEF Lazy!Next
    <2>4. ASSUME NEW g \in Goroutines, Build(g)
          PROVE  UNCHANGED Lazy!vars
      BY <1>1, <2>4, BuildLazy
    <2>5. ASSUME NEW g \in Goroutines, AddModule(g) \/ CallEnds(g)
          PROVE  Lazy!Next
      BY <1>1, <2>5, AddModuleLazy, CallEndsLazy DEF Lazy!Next
    <2>6. ASSUME NEW g \in Goroutines, Dispatch(g) \/ DispatchEnds(g) \/ Compile(g) \/ Free(g)
          PROVE  UNCHANGED Lazy!vars
      BY <1>1, <2>6, StutterLazy DEF IInv, TypeOK
    <2>7. ASSUME NEW g \in Goroutines, Link(g)
          PROVE  Lazy!Next
      BY <1>1, <2>7, LinkLazy DEF Lazy!Next
    <2>8. ASSUME NEW g \in Goroutines, Return(g)
          PROVE  Lazy!Next
      BY <1>1, <2>8, ReturnLazy DEF Lazy!Next
    <2>9. CASE UNCHANGED vars
      BY <2>9 DEF vars, Lazy!vars, PhaseOf, WantOf
    <2> QED
      BY <1>1, <2>1, <2>2, <2>3, <2>4, <2>5, <2>6, <2>7, <2>8, <2>9
         DEF Next, Step, Session
  <1> QED
    BY <1>1, InitLazy, Invariance, PTL DEF Spec, ImplementsLazyJit, Lazy!Spec
=============================================================================
