------------------------------- MODULE LazyJit -------------------------------
(***************************************************************************)
(* What an LLJitEngine (llvm/lljit.go) promises to goroutines that share   *)
(* it: a module is compiled when it is first looked up, once and for all;  *)
(* a lookup yields an address or an error, always the same; an address can *)
(* be called at any time.                                                  *)
(***************************************************************************)
CONSTANTS Goroutines, \* those that share the jit
          Modules,    \* the modules they build, each with one function
          Nothing     \* no module

VARIABLES phase,  \* [Goroutines -> "idle", "looking" or "calling"]
          want,   \* [Goroutines -> the function being looked up or called]
          defined, linked, failed, \* modules, by what became of them
          known   \* the functions whose address a lookup has returned

vars == <<phase, want, defined, linked, failed, known>>

Init == /\ phase = [g \in Goroutines |-> "idle"]
        /\ want = [g \in Goroutines |-> Nothing]
        /\ defined = {} /\ linked = {} /\ failed = {} /\ known = {}

AddModule(m) ==
  /\ m \notin defined /\ defined' = defined \cup {m}
  /\ UNCHANGED <<phase, want, linked, failed, known>>

Lookup(g, m) ==
  /\ phase[g] = "idle" /\ m \in defined
  /\ phase' = [phase EXCEPT ![g] = "looking"]
  /\ want' = [want EXCEPT ![g] = m]
  /\ UNCHANGED <<defined, linked, failed, known>>

\* Nothing but what a goroutine is looking up is compiled and linked.
Materialize(g) ==
  /\ phase[g] = "looking" /\ want[g] \notin linked \cup failed
  /\ \/ linked' = linked \cup {want[g]} /\ UNCHANGED failed
     \/ failed' = failed \cup {want[g]} /\ UNCHANGED linked
  /\ UNCHANGED <<phase, want, defined, known>>

Return(g) ==
  /\ phase[g] = "looking" /\ want[g] \in linked \cup failed
  /\ phase' = [phase EXCEPT ![g] = "idle"]
  /\ known' = known \cup ({want[g]} \cap linked)
  /\ want' = [want EXCEPT ![g] = Nothing]
  /\ UNCHANGED <<defined, linked, failed>>

Call(g, m) ==
  /\ phase[g] = "idle" /\ m \in known
  /\ phase' = [phase EXCEPT ![g] = "calling"]
  /\ want' = [want EXCEPT ![g] = m]
  /\ UNCHANGED <<defined, linked, failed, known>>

CallEnds(g) ==
  /\ phase[g] = "calling"
  /\ phase' = [phase EXCEPT ![g] = "idle"]
  /\ want' = [want EXCEPT ![g] = Nothing]
  /\ UNCHANGED <<defined, linked, failed, known>>

Next == \/ \E m \in Modules : AddModule(m)
        \/ \E g \in Goroutines :
             \/ \E m \in Modules : Lookup(g, m) \/ Call(g, m)
             \/ Materialize(g) \/ Return(g) \/ CallEnds(g)

Spec == Init /\ [][Next]_vars
=============================================================================
