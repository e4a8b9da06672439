---------------------------- MODULE MCKernelExec ----------------------------
(***************************************************************************)
(* Model values for KernelExec: words of three bits.                       *)
(***************************************************************************)
EXTENDS KernelExec

\* Vectors that reach both ends of the range, up to the longest a word can
\* count.
MCVectors == {<<3>>, <<-4, -4>>, <<3, 3, -4>>, <<2, 3, 3>>}

\* The vectors of every length, the empty one included.
MCVectorsWithEmpty == {<< >>, <<3>>, <<1, 3>>}

MCCallers == {"g1", "g2"}
=============================================================================
