---------------------------- MODULE MCDebugScopes ----------------------------
(***************************************************************************)
(* Model values for DebugScopes: two functions that may have subprograms,  *)
(* and either two instructions or one and a lexical block.                 *)
(***************************************************************************)
EXTENDS DebugScopes, TLC

CONSTANTS outer, inner, s1, s2

MCFunctions == {outer, inner}
MCSubprograms == {s1, s2}
MCSymmetry == Permutations(MCFunctions) \cup Permutations(MCSubprograms)
=============================================================================
