---------------------------- MODULE DebugLocation ----------------------------
(***************************************************************************)
(* The builder's current debug location and those of its instructions      *)
(* (llvm/ir.go:1269-1270 and 1364-1384, llvm/IRBindings.cpp:53-74).  A     *)
(* location is a line in a scope, inlined at another location or nowhere;  *)
(* equal locations are one node, so a location is modelled by its value.   *)
(*                                                                         *)
(* Get hands the parts of the current location to the program, which can   *)
(* give them back to Set: that is how a generator that is interrupted by   *)
(* another function's code returns to where it was.                        *)
(***************************************************************************)
EXTENDS Naturals

CONSTANTS Lines, Scopes, Instructions,
          Null,         \* no metadata
          MaxInlining   \* bound on the length of an inlining chain

Location(line, scope, at) == [line |-> line, scope |-> scope, inlinedAt |-> at]

\* The locations whose inlining chain has at most n links.
LocationsUpTo[n \in Nat] ==
  {Location(l, s, a) : l \in Lines, s \in Scopes,
                       a \in {Null} \cup (IF n = 0 THEN {} ELSE LocationsUpTo[n - 1])}

VARIABLES current,  \* the builder's location, or Null
          loc,      \* [Instructions -> the location, or Null]
          got,      \* the DebugLoc the program read last, or Null
          origin    \* history: the location it was read from

vars == <<current, loc, got, origin>>

Init == /\ current = Null
        /\ loc = [i \in Instructions |-> Null]
        /\ got = Null /\ origin = Null

\* A nil scope clears the location.
SetCurrentDebugLocation(line, scope, at) ==
  /\ current' = IF scope = Null THEN Null ELSE Location(line, scope, at)
  /\ UNCHANGED <<loc, got, origin>>

\* Legal only once a location has been set.  The field InlinedAt is not read
\* off the location but off the one it is inlined at.
GetCurrentDebugLocation ==
  /\ current # Null
  /\ got' = Location(current.line, current.scope,
                     IF current.inlinedAt = Null THEN Null
                     ELSE current.inlinedAt.inlinedAt)
  /\ origin' = current
  /\ UNCHANGED <<current, loc>>

Restore ==
  /\ got # Null
  /\ SetCurrentDebugLocation(got.line, got.scope, got.inlinedAt)

\* Also what inserting an instruction does; without a current location the
\* instruction keeps its own.
SetInstDebugLocation(i) ==
  /\ current # Null
  /\ loc' = [loc EXCEPT ![i] = current]
  /\ UNCHANGED <<current, got, origin>>

\* The program knows locations as the nodes of its instructions.
Next ==
  \/ \E l \in Lines, s \in Scopes \cup {Null}, i \in Instructions :
       /\ loc[i] = Null \/ loc[i] \in LocationsUpTo[MaxInlining - 1]
       /\ SetCurrentDebugLocation(l, s, loc[i])
  \/ GetCurrentDebugLocation
  \/ Restore
  \/ \E i \in Instructions : SetInstDebugLocation(i)

Spec == Init /\ [][Next]_vars

\* The location the program got is the current one: giving it back later
\* restores the location it was read from (ir.go:1375).
RestoreGivesBack == [][Restore => current' = origin]_vars
=============================================================================
