----------------------------- MODULE MCDebugInfo -----------------------------
(***************************************************************************)
(* Model values for DebugInfo: enough nodes for a type that refers to      *)
(* itself through a pointer and a member, with a second pointer that       *)
(* becomes equal to the first.                                             *)
(***************************************************************************)
EXTENDS DebugInfo, TLC

CONSTANTS List, Tree

MCNodes == 1..6

MCNames == {List, Tree}

Number(keys, K) == Cardinality({m \in MCNodes : keys[m] \in K})

Others == {"basic", "tuple", "array", "subroutine", "function", "variable"}

\* Six nodes when they are pointers, members, types with a name and a temporary;
\* five with two temporaries, and four when a node of another kind, or a function
\* and a variable, are among them.
MCAllowed(keys) ==
  /\ Number(keys, {"pointer", "replaceable"}) <= 3
  /\ \A k \in {"pointer", "member", "replaceable"} : Number(keys, {k}) <= 2
  /\ Number(keys, MCNames \cup {"member"}) <= 3
  /\ Number(keys, {"replaceable"}) <= 1 \/ Number(keys, {"none"}) > 0
  /\ Number(keys, {"variable"}) <= 1
  /\ Number(keys, Others \ {"variable"}) <= 1
  /\ Number(keys, Others) = 0 \/ Number(keys, {"none"}) > 1

Symmetry == Permutations(MCNames)
=============================================================================
