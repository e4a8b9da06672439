--------------------------- MODULE MCConcurrentJit ---------------------------
(***************************************************************************)
(* Model values for ConcurrentJit: a function that calls two others.       *)
(***************************************************************************)
EXTENDS ConcurrentJit

MCGoroutines == {"g1", "g2"}

MCModules == {"f", "g", "h"}

MCNeeds == [m \in {"f", "g", "h"} |-> IF m = "f" THEN {"g", "h"} ELSE {}]
=============================================================================
