--------------------------- MODULE MCJitOwnership ---------------------------
(***************************************************************************)
(* Model values for JitOwnership: two modules that define the same symbol  *)
(* and two objects of the other kinds a call may need two of.  They are    *)
(* interchangeable.                                                        *)
(***************************************************************************)
EXTENDS JitOwnership, TLC

CONSTANTS m1, m2, t1, t2, d1, d2, g1, g2, c1, c2, r1, r2

MCModules == {m1, m2}
MCMachines == {t1, t2}
MCLayouts == {d1, d2}
MCValues == {g1, g2}
MCContexts == {c1, c2}
MCErrors == {r1, r2}
MCDefines == [m \in MCModules |-> "sum_int64"]
MCSymmetry == Permutations(MCModules) \cup Permutations(MCMachines)
                \cup Permutations(MCLayouts) \cup Permutations(MCValues)
=============================================================================
