---------------------------- MODULE MCTypeString ----------------------------
(***************************************************************************)
(* Model values for TypeString: every context of three types out of these  *)
(* shapes, with recursion through one, two or three named structs.         *)
(***************************************************************************)
EXTENDS TypeString

MCIds == {"x", "y", "z"}

Subs(n) == [1..n -> MCIds]

MCShapes ==
  [kind : {"int"}, named : {FALSE}, sub : Subs(0)]
    \cup [kind : {"pointer"}, named : {FALSE}, sub : Subs(1)]
    \cup [kind : {"function"}, named : {FALSE}, sub : Subs(2)]
    \cup [kind : {"struct"}, named : {TRUE}, sub : Subs(0) \cup Subs(1) \cup Subs(2)]

\* With the token type as well.
MCShapesWithToken ==
  MCShapes \cup [kind : {"token"}, named : {FALSE}, sub : Subs(0)]
=============================================================================
