---------------------------- MODULE MCFloatKernel ----------------------------
(***************************************************************************)
(* Model values for FloatKernel: numbers of three bits.                    *)
(***************************************************************************)
EXTENDS FloatKernel

\* Sums that are exact in every order, that are exact in some, and in none;
\* ties, cancellation, and a sum that outgrows its last element.
MCVectors == {<<1, 2, 3, 1>>, <<-3, 4, -1>>, <<8, 1, 1, 1>>, <<1, 1, 14, -14>>,
              <<7, 7, 7, 7, 7>>, <<5, 6, 20, -1>>, <<16, 1, -16>>, <<3>>}

MCCallers == {"g1"}
=============================================================================
