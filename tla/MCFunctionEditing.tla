-------------------------- MODULE MCFunctionEditing --------------------------
(***************************************************************************)
(* Model values for FunctionEditing: two builders, and either three blocks *)
(* and two instructions or two blocks and three instructions.              *)
(***************************************************************************)
EXTENDS FunctionEditing, TLC

CONSTANTS b0, b1, b2, left, right

MCBlocks == {b0, b1, b2}
MCInsts == 1 .. 3
MCBuilders == {left, right}
MCSymmetry == Permutations({b1, b2}) \cup Permutations(MCBuilders)
=============================================================================
