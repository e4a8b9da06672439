----------------------------- MODULE Debug_proofs -----------------------------
(***************************************************************************)
(* Proofs about the debug-info builder: about the metadata it makes        *)
(* (DebugInfo), for graphs of any size, and, in the last part of this      *)
(* module, about what instructions say of where they come from             *)
(* (DebugScopes).                                                          *)
(***************************************************************************)
EXTENDS DebugInfo, DebugScopes, SequenceTheorems, WellFoundedInduction, TLAPS

Named == Names \cup {"function"}

\* What the state of a node says about the rest of it.
Shaped ==
  \A n \in Nodes :
    /\ node[n].state \notin {"uniqued", "distinct", "temporary"} => node[n].ops = << >>
    /\ node[n].state \in {"free", "distinct", "deleted"} => node[n].resolved
    /\ node[n].state = "temporary" => ~node[n].resolved
    /\ node[n].state = "temporary" => node[n].key \in Temporary
    /\ node[n].state = "uniqued" => node[n].key \in Unnamed \cup Names
    /\ node[n].state = "distinct" => node[n].key \in Named
    /\ node[n].struct => node[n].key \in Names

\* There is one node of a name.
NamedOnce ==
  \A m, n \in Nodes : node[m].key \in Names /\ node[m].key = node[n].key => m = n

\* What a resolved node refers to is resolved.
ResolvedDown ==
  \A n \in Nodes : node[n].state = "uniqued" /\ node[n].resolved =>
    \A m \in Operands(node, n) : node[m].resolved

\* The program knows what the nodes it holds are built over, as far as the
\* next node with a name.
HeldKnown ==
  \A n \in held :
    /\ node[n].state \in {"temporary", "uniqued", "distinct"}
    /\ node[n].key \in Temporary => over[n] = {n}
    /\ node[n].key \in Named => over[n] = {}
    /\ node[n].key \in Unnamed =>
         Operands(node, n) \subseteq held /\ \A m \in Operands(node, n) : over[m] \subseteq over[n]

\* What is being replaced is no longer held, and what replaces it stays.
ReplacingApart ==
  \A i \in DOMAIN replacing :
    /\ node[replacing[i].old].state \in {"temporary", "leaving"}
    /\ ~node[replacing[i].old].resolved
    /\ replacing[i].old \notin held
    /\ node[replacing[i].new].state \in {"uniqued", "distinct"}
    /\ \A j \in DOMAIN replacing : i # j => replacing[i].old # replacing[j].old

\* Nodes are ranked above those they are made of, as far as the next name.
\* Replacements do not go up.
Ranked(r) ==
  /\ r \in [Nodes -> Nat]
  /\ \A n \in Nodes : node[n].key \in Named => r[n] = 0
  /\ \A n \in Nodes : node[n].state = "uniqued" /\ node[n].key \in Unnamed =>
       \A m \in Operands(node, n) : r[m] < r[n]
  /\ \A i \in DOMAIN replacing :
       /\ r[replacing[i].new] <= r[replacing[i].old]
       /\ \A j \in DOMAIN replacing : i <= j => r[replacing[i].new] <= r[replacing[j].new]

\* What the builder remembers, or will at the end of a replacement.
Remembered ==
  tracked \cup {replacing[i].new : i \in {j \in DOMAIN replacing : replacing[j].old \in tracked}}

\* Every cycle of unresolved nodes contains one that is remembered.
Reached(d) ==
  /\ d \in [Nodes -> Nat]
  /\ \A n \in Nodes \ Remembered : node[n].state = "uniqued" /\ ~node[n].resolved =>
       \A m \in Operands(node, n) : ~node[m].resolved => d[m] < d[n]
  /\ \A i \in DOMAIN replacing : d[replacing[i].new] <= d[replacing[i].old]

\* The builder remembers its own temporaries and the unresolved structs.
CompositesTracked ==
  \A n \in Nodes :
    /\ node[n].struct /\ node[n].state = "uniqued" /\ ~node[n].resolved => n \in tracked
    /\ node[n].state = "temporary" /\ node[n].key = "replaceable" => n \in tracked

FinalAtRest ==
  phase \notin {"bare", "open"} => replacing = << >> /\ \A n \in Live(node) : node[n].resolved

IInv == /\ TypeOK /\ NoDanglingOperand /\ OneNodePerContents
        /\ Shaped /\ NamedOnce /\ ResolvedDown /\ HeldKnown /\ ReplacingApart
        /\ (\E r \in [Nodes -> Nat] : Ranked(r)) /\ (\E d \in [Nodes -> Nat] : Reached(d))
        /\ CompositesTracked /\ FinalAtRest

-----------------------------------------------------------------------------
(* The graph.                                                              *)

\* What a sequence has at a position.
LEMMA ElementIn ==
  ASSUME NEW S, NEW s \in Seq(S), NEW i \in DOMAIN s
  PROVE  s[i] \in S
<1> QED
  OBVIOUS

\* The operands of a node are nodes.
LEMMA OperandsAreNodes ==
  ASSUME NEW f \in [Nodes -> Node], NEW n \in Nodes
  PROVE  Operands(f, n) \subseteq Nodes
<1>1. f[n].ops \in Seq(Nodes)
  BY DEF Node
<1>2. \A k \in DOMAIN f[n].ops : f[n].ops[k] \in Nodes
  BY <1>1
<1> QED
  BY <1>2 DEF Operands

\* Settled changes nothing but resolves nodes, those that need wait no longer.
LEMMA SettledResolves ==
  ASSUME NEW f \in [Nodes -> Node], NEW g, g = Settled(f)
  PROVE  /\ g \in [Nodes -> Node]
         /\ \A n \in Nodes :
              /\ g[n].state = f[n].state /\ g[n].key = f[n].key
              /\ g[n].struct = f[n].struct /\ g[n].ops = f[n].ops
              /\ Operands(g, n) = Operands(f, n)
              /\ f[n].resolved => g[n].resolved
              /\ ~f[n].resolved /\ f[n].state # "uniqued" => ~g[n].resolved
              /\ ~f[n].resolved /\ (\E m \in Operands(f, n) : ~g[m].resolved) => ~g[n].resolved
              /\ ~g[n].resolved /\ f[n].state = "uniqued" => \E m \in Operands(f, n) : ~g[m].resolved
<1> DEFINE P == {n \in Nodes : ~f[n].resolved}
           W == UNION {S \in SUBSET P : Waiting(f, S)}
<1>1. g = [n \in Nodes |-> [f[n] EXCEPT !.resolved = n \notin W]]
  BY DEF Settled
<1>2. \A n \in Nodes : /\ g[n] \in Node /\ g[n].resolved = (n \notin W)
                       /\ g[n].state = f[n].state /\ g[n].key = f[n].key
                       /\ g[n].struct = f[n].struct /\ g[n].ops = f[n].ops
  <2> HIDE DEF W
  <2> SUFFICES ASSUME NEW n \in Nodes
               PROVE  /\ g[n] \in Node /\ g[n].resolved = (n \notin W)
                      /\ g[n].state = f[n].state /\ g[n].key = f[n].key
                      /\ g[n].struct = f[n].struct /\ g[n].ops = f[n].ops
    OBVIOUS
  <2>1. f[n] \in Node /\ g[n] = [f[n] EXCEPT !.resolved = n \notin W]
    BY <1>1
  <2> QED
    BY <2>1 DEF Node
<1>3. W \subseteq P /\ Waiting(f, W)
  <2>1. \A n \in W : ~f[n].resolved /\ (f[n].state = "uniqued" => Operands(f, n) \cap W # {})
    <3> SUFFICES ASSUME NEW n \in W
                 PROVE  ~f[n].resolved /\ (f[n].state = "uniqued" => Operands(f, n) \cap W # {})
      OBVIOUS
    <3>1. PICK S \in SUBSET P : Waiting(f, S) /\ n \in S
      OBVIOUS
    <3>2. S \subseteq W
      BY <3>1
    <3> QED
      BY <3>1, <3>2 DEF Waiting
  <2> QED
    BY <2>1 DEF Waiting
<1>4. \A n \in P : f[n].state # "uniqued" => n \in W
  <2> SUFFICES ASSUME NEW n \in P, f[n].state # "uniqued"
               PROVE  n \in W
    OBVIOUS
  <2>1. Waiting(f, {n}) /\ {n} \in SUBSET P
    BY DEF Waiting
  <2> QED
    BY <2>1
<1>5. \A n \in P : (\E m \in Operands(f, n) : m \in W) => n \in W
  <2> SUFFICES ASSUME NEW n \in P, NEW m \in Operands(f, n), m \in W
               PROVE  n \in W
    OBVIOUS
  <2> DEFINE S == W \cup {n}
  <2>1. Waiting(f, S) /\ S \in SUBSET P
    <3> HIDE DEF W
    <3> QED
      BY <1>3 DEF Waiting
  <2> QED
    BY <2>1
<1> HIDE DEF W
<1>6. \A n \in Nodes : Operands(f, n) \subseteq Nodes
  BY OperandsAreNodes
<1>7. g \in [Nodes -> Node]
  BY <1>1, <1>2
<1>8. \A n \in Nodes : Operands(g, n) = Operands(f, n)
  BY <1>2 DEF Operands
<1>9. \A n \in Nodes :
        /\ f[n].resolved => g[n].resolved
        /\ ~f[n].resolved /\ f[n].state # "uniqued" => ~g[n].resolved
  BY <1>2, <1>3, <1>4
<1>10. \A n \in Nodes :
        /\ ~f[n].resolved /\ (\E m \in Operands(f, n) : ~g[m].resolved) => ~g[n].resolved
        /\ ~g[n].resolved /\ f[n].state = "uniqued" => \E m \in Operands(f, n) : ~g[m].resolved
  <2> SUFFICES ASSUME NEW n \in Nodes
               PROVE  /\ ~f[n].resolved /\ (\E m \in Operands(f, n) : ~g[m].resolved) => ~g[n].resolved
                      /\ ~g[n].resolved /\ f[n].state = "uniqued" => \E m \in Operands(f, n) : ~g[m].resolved
    OBVIOUS
  <2>1. \A m \in Operands(f, n) : m \in Nodes /\ (~g[m].resolved <=> m \in W)
    BY <1>2, <1>6
  <2>2. ~f[n].resolved /\ (\E m \in Operands(f, n) : m \in W) => n \in W
    BY <1>5
  <2>3. n \in W /\ f[n].state = "uniqued" => \E m \in Operands(f, n) : m \in W
    BY <1>3 DEF Waiting
  <2> QED
    BY <1>2, <2>1, <2>2, <2>3
<1> QED
  BY <1>2, <1>7, <1>8, <1>9, <1>10

-----------------------------------------------------------------------------
(* The steps of a replacement.                                             *)

\* What a use of the old node is.
LEMMA UseFacts ==
  ASSUME IInv, replacing # << >>, NEW u \in Nodes, NEW old, NEW new,
         old = Innermost.old, new = Innermost.new, old \in Operands(node, u)
  PROVE  /\ old \in Nodes /\ new \in Nodes
         /\ Len(replacing) \in DOMAIN replacing
         /\ replacing[Len(replacing)].old = old /\ replacing[Len(replacing)].new = new
         /\ ~node[old].resolved
         /\ node[new].state \in {"uniqued", "distinct"}
         /\ node[u].state \in {"temporary", "uniqued", "distinct"}
         /\ node[u].state = "uniqued" => ~node[u].resolved
         /\ u \notin held \/ node[u].key \notin Unnamed
<1>1. replacing \in Seq([old : Nodes, new : Nodes]) /\ node \in [Nodes -> Node]
  BY DEF IInv, TypeOK
<1>2. /\ Len(replacing) \in DOMAIN replacing
      /\ replacing[Len(replacing)] \in [old : Nodes, new : Nodes]
  <2>1. Len(replacing) \in Nat \ {0} /\ DOMAIN replacing = 1 .. Len(replacing)
    BY <1>1
  <2>2. Len(replacing) \in DOMAIN replacing
    BY <2>1
  <2> QED
    BY <1>1, <2>2, ElementIn
<1>3. /\ replacing[Len(replacing)].old = old /\ replacing[Len(replacing)].new = new
      /\ old \in Nodes /\ new \in Nodes
  BY <1>2 DEF Innermost
<1>4. /\ node[old].state \in {"temporary", "leaving"} /\ old \notin held
      /\ node[new].state \in {"uniqued", "distinct"}
  BY <1>2, <1>3 DEF IInv, ReplacingApart
<1>5. ~node[old].resolved
  BY <1>2, <1>3 DEF IInv, ReplacingApart
<1>6. node[u].ops # << >>
  BY DEF Operands
<1>7. node[u].state \in {"temporary", "uniqued", "distinct"}
  BY <1>6 DEF IInv, Shaped
<1>8. node[u].state = "uniqued" => ~node[u].resolved
  BY <1>5 DEF IInv, ResolvedDown
<1>9. u \notin held \/ node[u].key \notin Unnamed
  BY <1>4 DEF IInv, HeldKnown
<1> QED
  BY <1>2, <1>3, <1>4, <1>5, <1>7, <1>8, <1>9

\* A use is changed and its node stays, as no other has the same contents.
LEMMA ChangePreserves ==
  ASSUME IInv, replacing # << >>, NEW u \in Nodes, NEW old, NEW new,
         old = Innermost.old, new = Innermost.new, old \in Operands(node, u),
         node' \in [Nodes -> Node], UNCHANGED <<tracked, phase, held, over, replacing>>,
         \A n \in Nodes :
           /\ node'[n].key = node[n].key /\ node'[n].struct = node[n].struct
           /\ node[n].resolved => node'[n].resolved
           /\ ~node[n].resolved /\ node[n].state # "uniqued" => ~node'[n].resolved
           /\ n # u => /\ node'[n].state = node[n].state /\ node'[n].ops = node[n].ops
                       /\ Operands(node', n) = Operands(node, n),
         node'[u].state = node[u].state
           \/ (node'[u].state = "distinct" /\ node[u].key \in Names /\ node'[u].resolved),
         Operands(node', u) \subseteq Operands(node, u) \cup {new},
         node'[u].state = "uniqued" => Twins(node', u) = {},
         ResolvedDown'
  PROVE  IInv'
<1>1. /\ old \in Nodes /\ new \in Nodes
      /\ Len(replacing) \in DOMAIN replacing
      /\ replacing[Len(replacing)].old = old /\ replacing[Len(replacing)].new = new
      /\ ~node[old].resolved
      /\ node[new].state \in {"uniqued", "distinct"}
      /\ node[u].state \in {"temporary", "uniqued", "distinct"}
      /\ node[u].state = "uniqued" => ~node[u].resolved
      /\ u \notin held \/ node[u].key \notin Unnamed
  BY UseFacts
<1> DEFINE L == Len(replacing)
<1> HIDE DEF L
<1>2. L \in DOMAIN replacing /\ replacing[L].old = old /\ replacing[L].new = new
  BY <1>1 DEF L
<1>3. \A n \in Nodes : node'[n].state = node[n].state
        \/ (node[n].state = "uniqued" /\ node'[n].state = "distinct")
  <2>1. node[u].state = "temporary" => node[u].key \notin Names
    BY NamesAssumption DEF IInv, Shaped
  <2> QED
    BY <1>1, <2>1
<1>4. Live(node') = Live(node)
  BY <1>3 DEF Live
<1>5. TypeOK'
  BY DEF IInv, TypeOK
<1>6. NoDanglingOperand'
  <2>1. new \in Live(node)
    BY <1>1 DEF Live
  <2>2. \A n \in Nodes : Operands(node', n) \subseteq Operands(node, n) \cup {new}
    OBVIOUS
  <2> QED
    BY <1>4, <2>1, <2>2 DEF IInv, NoDanglingOperand, Live
<1>7. OneNodePerContents'
  <2> SUFFICES ASSUME NEW n \in Nodes, node'[n].state = "uniqued", NEW m \in Twins(node', n)
               PROVE  FALSE
    BY DEF OneNodePerContents
  <2>1. m \in Nodes \ {n} /\ node'[m].state = "uniqued" /\ node'[m].key = node'[n].key
        /\ node'[m].ops = node'[n].ops
    BY DEF Twins
  <2>2. n \in Twins(node', m)
    BY <2>1 DEF Twins
  <2>3. n # u
    <3>1. n = u => node'[u].state = "uniqued" /\ m \in Twins(node', u)
      OBVIOUS
    <3> QED
      BY <3>1
  <2>4. m # u
    <3>1. m = u => node'[u].state = "uniqued" /\ n \in Twins(node', u)
      BY <2>1, <2>2
    <3> QED
      BY <3>1
  <2>5. m \in Twins(node, n) /\ node[n].state = "uniqued"
    BY <2>1, <2>3, <2>4 DEF Twins
  <2> QED
    BY <2>5 DEF IInv, OneNodePerContents
<1>8. Shaped'
  <2> SUFFICES ASSUME NEW n \in Nodes
               PROVE  /\ node'[n].state \notin {"uniqued", "distinct", "temporary"} => node'[n].ops = << >>
                      /\ node'[n].state \in {"free", "distinct", "deleted"} => node'[n].resolved
                      /\ node'[n].state = "temporary" => ~node'[n].resolved
                      /\ node'[n].state = "temporary" => node'[n].key \in Temporary
                      /\ node'[n].state = "uniqued" => node'[n].key \in Unnamed \cup Names
                      /\ node'[n].state = "distinct" => node'[n].key \in Named
                      /\ node'[n].struct => node'[n].key \in Names
    BY DEF Shaped
  <2>1. CASE n = u
    BY <1>1, <2>1 DEF IInv, Shaped, Named
  <2>2. CASE n # u
    BY <2>2 DEF IInv, Shaped
  <2> QED
    BY <2>1, <2>2
<1>9. NamedOnce'
  <2>1. \A n \in Nodes : node'[n].key = node[n].key
    OBVIOUS
  <2> QED
    BY <2>1 DEF IInv, NamedOnce
<1>10. HeldKnown'
  <2> SUFFICES ASSUME NEW n \in held
               PROVE  /\ node'[n].state \in {"temporary", "uniqued", "distinct"}
                      /\ node'[n].key \in Temporary => over[n] = {n}
                      /\ node'[n].key \in Named => over[n] = {}
                      /\ node'[n].key \in Unnamed =>
                           Operands(node', n) \subseteq held
                           /\ \A m \in Operands(node', n) : over[m] \subseteq over[n]
    BY DEF HeldKnown
  <2>1. n \in Nodes
    BY DEF IInv, TypeOK
  <2>2. n = u => node[n].key \notin Unnamed
    BY <1>1
  <2> QED
    BY <1>3, <2>1, <2>2 DEF IInv, HeldKnown
<1>11. ReplacingApart'
  <2>1. \A i \in DOMAIN replacing : replacing[i].old \in Nodes /\ replacing[i].new \in Nodes
    <3>1. replacing \in Seq([old : Nodes, new : Nodes])
      BY DEF IInv, TypeOK
    <3>2. \A i \in DOMAIN replacing : replacing[i] \in [old : Nodes, new : Nodes]
      BY <3>1, ElementIn
    <3> QED
      BY <3>2
  <2> QED
    BY <1>3, <2>1 DEF IInv, ReplacingApart
<1>12. ASSUME NEW r \in [Nodes -> Nat], Ranked(r)
       PROVE  Ranked(r)'
  <2>1. r[new] <= r[old] /\ r[new] \in Nat /\ r[old] \in Nat
    BY <1>1, <1>2, <1>12 DEF Ranked
  <2>2. ASSUME NEW n \in Nodes, node'[n].state = "uniqued", node'[n].key \in Unnamed,
               NEW m \in Operands(node', n)
        PROVE  r[m] < r[n]
    <3>1. node[n].state = "uniqued" /\ node[n].key \in Unnamed
      BY <1>3, <2>2
    <3>2. \A i \in Operands(node, n) : r[i] < r[n]
      BY <1>12, <3>1 DEF Ranked
    <3>3. CASE m \in Operands(node, n)
      BY <3>2, <3>3
    <3>4. CASE m \notin Operands(node, n)
      <4>1. n = u /\ m = new
        BY <2>2, <3>4
      <4>2. r[old] < r[n] /\ r[n] \in Nat
        BY <3>2, <4>1
      <4> QED
        BY <2>1, <4>1, <4>2
    <3> QED
      BY <3>3, <3>4
  <2> QED
    BY <1>12, <2>2 DEF Ranked
<1>13. ASSUME NEW d \in [Nodes -> Nat], Reached(d)
       PROVE  Reached(d)'
  <2>1. d[new] <= d[old] /\ d[new] \in Nat /\ d[old] \in Nat
    BY <1>1, <1>2, <1>13 DEF Reached
  <2>2. Remembered' = Remembered
    BY DEF Remembered
  <2>3. ASSUME NEW n \in Nodes \ Remembered, node'[n].state = "uniqued", ~node'[n].resolved,
               NEW m \in Operands(node', n), ~node'[m].resolved
        PROVE  d[m] < d[n]
    <3>1. node[n].state = "uniqued" /\ ~node[n].resolved
      BY <1>3, <2>3
    <3>2. \A i \in Operands(node, n) : ~node[i].resolved => d[i] < d[n]
      BY <1>13, <3>1 DEF Reached
    <3>3. CASE m \in Operands(node, n)
      <4>1. m \in Nodes
        BY <3>3, OperandsAreNodes DEF IInv, TypeOK
      <4> QED
        BY <2>3, <3>2, <3>3, <4>1
    <3>4. CASE m \notin Operands(node, n)
      <4>1. n = u /\ m = new
        BY <2>3, <3>4
      <4>2. d[old] < d[n] /\ d[n] \in Nat
        BY <1>1, <3>2, <4>1
      <4> QED
        BY <2>1, <4>1, <4>2
    <3> QED
      BY <3>3, <3>4
  <2> QED
    BY <1>13, <2>2, <2>3 DEF Reached
<1>14. (\E r \in [Nodes -> Nat] : Ranked(r))' /\ (\E d \in [Nodes -> Nat] : Reached(d))'
  BY <1>12, <1>13 DEF IInv
<1>15. CompositesTracked'
  BY <1>1, <1>3 DEF IInv, CompositesTracked
<1>16. FinalAtRest'
  BY DEF IInv, FinalAtRest
<1> QED
  BY <1>5, <1>6, <1>7, <1>8, <1>9, <1>10, <1>11, <1>14, <1>15, <1>16 DEF IInv

\* A replacement inside another.
LEMMA PushedElements ==
  ASSUME NEW S, NEW s \in Seq(S), NEW x \in S, NEW t, t = Append(s, x)
  PROVE  /\ t \in Seq(S) /\ Len(s) + 1 \in DOMAIN t /\ t[Len(s) + 1] = x
         /\ \A i \in DOMAIN s : i \in DOMAIN t /\ t[i] = s[i] /\ i < Len(s) + 1
         /\ \A i \in DOMAIN t : i \in DOMAIN s \/ i = Len(s) + 1
<1>1. Len(s) \in Nat /\ DOMAIN s = 1 .. Len(s) /\ DOMAIN t = 1 .. (Len(s) + 1)
  OBVIOUS
<1>2. t \in Seq(S) /\ t[Len(s) + 1] = x
  OBVIOUS
<1>3. \A i \in 1 .. Len(s) : t[i] = s[i]
  OBVIOUS
<1> QED
  BY <1>1, <1>2, <1>3

\* A node gives way to its twin, which is none of those that replace others.
LEMMA CollidePreserves ==
  ASSUME IInv, replacing # << >>, NEW u \in Nodes, NEW old, NEW new, NEW twin \in Nodes \ {u},
         old = Innermost.old, new = Innermost.new, old \in Operands(node, u),
         node' \in [Nodes -> Node], UNCHANGED <<tracked, phase, held, over>>,
         replacing' = Append(replacing, [old |-> u, new |-> twin]),
         node[u].state = "uniqued", node[twin].state = "uniqued",
         node[twin].key = node[u].key,
         new \in Operands(node, twin),
         Operands(node, twin) \subseteq Operands(node, u) \cup {new},
         \A n \in Nodes \ {u} : node'[n] = node[n],
         node'[u].state = "leaving", node'[u].ops = << >>, node'[u].key = node[u].key,
         node'[u].struct = node[u].struct, node'[u].resolved = node[u].resolved
  PROVE  IInv'
<1>1. /\ old \in Nodes /\ new \in Nodes
      /\ Len(replacing) \in DOMAIN replacing
      /\ replacing[Len(replacing)].old = old /\ replacing[Len(replacing)].new = new
      /\ ~node[old].resolved
      /\ ~node[u].resolved
      /\ u \notin held \/ node[u].key \notin Unnamed
  BY UseFacts
<1>2. node[u].key \in Unnamed /\ u \notin held /\ node[u].key \notin Named
  <2>1. node[u].key \in Unnamed \cup Names
    BY DEF IInv, Shaped
  <2>2. node[u].key \notin Names
    BY DEF IInv, NamedOnce
  <2>3. node[u].key \notin Named
    BY <2>1, <2>2 DEF Named, Unnamed
  <2> QED
    BY <1>1, <2>1, <2>2, <2>3
<1> DEFINE R == [old : Nodes, new : Nodes]
           L == Len(replacing)
           p == [old |-> u, new |-> twin]
           q == replacing'
<1>3. p \in R /\ p.old = u /\ p.new = twin /\ replacing \in Seq(R) /\ q = Append(replacing, p)
  BY DEF IInv, TypeOK
<1>4. \A i \in DOMAIN replacing : replacing[i].old \in Nodes /\ replacing[i].new \in Nodes
  <2>1. \A i \in DOMAIN replacing : replacing[i] \in R
    BY <1>3, ElementIn
  <2> QED
    BY <2>1
<1>5. /\ q \in Seq(R) /\ L + 1 \in DOMAIN q /\ q[L + 1] = p
      /\ \A i \in DOMAIN replacing : i \in DOMAIN q /\ q[i] = replacing[i] /\ i < L + 1
      /\ \A i \in DOMAIN q : i \in DOMAIN replacing \/ i = L + 1
  <2> HIDE DEF R, p, q
  <2> QED
    BY <1>3, PushedElements
<1>6. /\ L \in DOMAIN replacing /\ replacing[L].old = old /\ replacing[L].new = new
      /\ L + 1 \notin DOMAIN replacing /\ \A i \in DOMAIN replacing : i <= L /\ ~(L + 1 <= i)
  <2>1. L \in Nat /\ DOMAIN replacing = 1 .. L
    BY <1>3
  <2> QED
    BY <1>1, <2>1
<1>7. q = replacing' /\ q \in Seq([old : Nodes, new : Nodes])
  BY <1>5
<1> HIDE DEF R, L, p, q
<1>8. /\ Operands(node', u) = {} /\ \A n \in Nodes \ {u} : Operands(node', n) = Operands(node, n)
      /\ \A n \in Nodes : Operands(node, n) \subseteq Nodes
  <2>1. Operands(node', u) = {}
    BY DEF Operands
  <2>2. \A n \in Nodes \ {u} : Operands(node', n) = Operands(node, n)
    BY DEF Operands
  <2>3. \A n \in Nodes : Operands(node, n) \subseteq Nodes
    BY OperandsAreNodes DEF IInv, TypeOK
  <2> QED
    BY <2>1, <2>2, <2>3
<1>9. Live(node') = Live(node) \ {u}
  BY DEF Live
<1>10. TypeOK'
  BY <1>7 DEF IInv, TypeOK
<1>11. \A i \in DOMAIN replacing : replacing[i].old # u /\ replacing[i].old # twin
  BY DEF IInv, ReplacingApart
<1>12. ASSUME NEW r \in [Nodes -> Nat], Ranked(r)
       PROVE  \A i \in DOMAIN replacing : /\ r[replacing[i].new] < r[u]
                                         /\ r[replacing[i].new] < r[twin]
  <2>1. r[new] <= r[old] /\ \A i \in DOMAIN replacing : r[replacing[i].new] <= r[new]
    BY <1>6, <1>12 DEF Ranked
  <2>2. r[old] < r[u] /\ r[new] < r[twin]
    BY <1>2, <1>12 DEF Ranked
  <2> QED
    BY <1>1, <1>4, <2>1, <2>2
<1>13. \A i \in DOMAIN replacing : replacing[i].new # u /\ replacing[i].new # twin
  <2>1. PICK r \in [Nodes -> Nat] : Ranked(r)
    BY DEF IInv
  <2>2. \A n \in Nodes : ~(r[n] < r[n])
    OBVIOUS
  <2> QED
    BY <1>4, <1>12, <2>1, <2>2
<1>14. NoDanglingOperand'
  <2> DEFINE known == Live(node) \cup {replacing[i].old : i \in DOMAIN replacing}
             later == Live(node') \cup {q[i].old : i \in DOMAIN q}
  <2>1. known \subseteq later
    <3>1. {replacing[i].old : i \in DOMAIN replacing} \cup {u} \subseteq {q[i].old : i \in DOMAIN q}
      BY <1>3, <1>5
    <3> QED
      BY <1>9, <3>1
  <2>2. \A n \in Live(node) : Operands(node, n) \subseteq known
    BY DEF IInv, NoDanglingOperand
  <2>3. tracked \subseteq known
    BY DEF IInv, NoDanglingOperand
  <2>4. \A n \in Live(node') : Operands(node', n) \subseteq later
    <3>1. \A n \in Live(node') : n \in Live(node) /\ n \in Nodes \ {u}
      BY <1>9 DEF Live
    <3> HIDE DEF known, later
    <3> QED
      BY <1>8, <2>1, <2>2, <3>1
  <2>5. tracked' \subseteq later
    BY <2>1, <2>3
  <2>6. later = Live(node') \cup {(replacing')[i].old : i \in DOMAIN (replacing')}
    BY <1>7
  <2> HIDE DEF later
  <2> QED
    BY <2>4, <2>5, <2>6 DEF NoDanglingOperand
<1>15. OneNodePerContents'
  <2> SUFFICES ASSUME NEW n \in Nodes, node'[n].state = "uniqued", NEW m \in Twins(node', n)
               PROVE  FALSE
    BY DEF OneNodePerContents
  <2>1. m \in Nodes \ {n} /\ node'[m].state = "uniqued" /\ node'[m].key = node'[n].key
        /\ node'[m].ops = node'[n].ops
    BY DEF Twins
  <2>2. n # u /\ m # u
    BY <2>1
  <2>3. m \in Twins(node, n) /\ node[n].state = "uniqued"
    BY <2>1, <2>2 DEF Twins
  <2> QED
    BY <2>3 DEF IInv, OneNodePerContents
<1>16. Shaped'
  <2> SUFFICES ASSUME NEW n \in Nodes
               PROVE  /\ node'[n].state \notin {"uniqued", "distinct", "temporary"} => node'[n].ops = << >>
                      /\ node'[n].state \in {"free", "distinct", "deleted"} => node'[n].resolved
                      /\ node'[n].state = "temporary" => ~node'[n].resolved
                      /\ node'[n].state = "temporary" => node'[n].key \in Temporary
                      /\ node'[n].state = "uniqued" => node'[n].key \in Unnamed \cup Names
                      /\ node'[n].state = "distinct" => node'[n].key \in Named
                      /\ node'[n].struct => node'[n].key \in Names
    BY DEF Shaped
  <2>1. CASE n = u
    BY <1>1, <2>1 DEF IInv, Shaped
  <2>2. CASE n # u
    BY <2>2 DEF IInv, Shaped
  <2> QED
    BY <2>1, <2>2
<1>17. \A n \in Nodes : node'[n].key = node[n].key /\ node'[n].resolved = node[n].resolved
                        /\ node'[n].struct = node[n].struct
  <2> SUFFICES ASSUME NEW n \in Nodes
               PROVE  node'[n].key = node[n].key /\ node'[n].resolved = node[n].resolved
                      /\ node'[n].struct = node[n].struct
    OBVIOUS
  <2> QED
    BY n = u \/ n \in Nodes \ {u}
<1>18. NamedOnce'
  BY <1>17 DEF IInv, NamedOnce
<1>19. ResolvedDown'
  <2> SUFFICES ASSUME NEW n \in Nodes, node'[n].state = "uniqued", node'[n].resolved,
                      NEW m \in Operands(node', n)
               PROVE  node'[m].resolved
    BY DEF ResolvedDown
  <2>1. n \in Nodes \ {u}
    OBVIOUS
  <2>2. m \in Operands(node, n) /\ m \in Nodes /\ node[n].state = "uniqued" /\ node[n].resolved
    BY <1>8, <2>1
  <2> QED
    BY <1>17, <2>2 DEF IInv, ResolvedDown
<1>20. HeldKnown'
  <2>1. \A n \in held : n \in Nodes \ {u}
    BY <1>2 DEF IInv, TypeOK
  <2>2. \A n \in held : node'[n] = node[n] /\ Operands(node', n) = Operands(node, n)
    BY <1>8, <2>1
  <2> QED
    BY <2>2 DEF IInv, HeldKnown
<1>21. ReplacingApart'
  <2> SUFFICES ASSUME NEW i \in DOMAIN q
               PROVE  /\ node'[q[i].old].state \in {"temporary", "leaving"}
                      /\ ~node'[q[i].old].resolved
                      /\ q[i].old \notin held
                      /\ node'[q[i].new].state \in {"uniqued", "distinct"}
                      /\ \A j \in DOMAIN q : i # j => q[i].old # q[j].old
    BY <1>7 DEF ReplacingApart
  <2>1. CASE i \in DOMAIN replacing
    <3>1. q[i] = replacing[i] /\ q[i].old \in Nodes \ {u} /\ q[i].new \in Nodes \ {u}
      BY <1>4, <1>5, <1>11, <1>13, <2>1
    <3>2. /\ node'[q[i].old].state \in {"temporary", "leaving"} /\ q[i].old \notin held
          /\ ~node'[q[i].old].resolved
          /\ node'[q[i].new].state \in {"uniqued", "distinct"}
      BY <2>1, <3>1 DEF IInv, ReplacingApart
    <3>3. ASSUME NEW j \in DOMAIN q, i # j
          PROVE  q[i].old # q[j].old
      <4>1. CASE j \in DOMAIN replacing
        BY <1>5, <2>1, <3>1, <3>3, <4>1 DEF IInv, ReplacingApart
      <4>2. CASE j = L + 1
        BY <1>3, <1>5, <3>1, <4>2
      <4> QED
        BY <1>5, <3>3, <4>1, <4>2
    <3> QED
      BY <3>2, <3>3
  <2>2. CASE i = L + 1
    <3>1. q[i].old = u /\ q[i].new = twin
      BY <1>3, <1>5, <2>2
    <3>2. \A j \in DOMAIN q : i # j => q[j].old # u
      BY <1>5, <1>11, <2>2
    <3> QED
      BY <1>1, <1>2, <3>1, <3>2
  <2> QED
    BY <1>5, <2>1, <2>2
<1>22. ASSUME NEW r \in [Nodes -> Nat], Ranked(r)
       PROVE  (\E s \in [Nodes -> Nat] : Ranked(s))'
  <2> DEFINE b == IF r[u] < r[twin] THEN r[u] ELSE r[twin]
             s == [r EXCEPT ![u] = b, ![twin] = b]
  <2>1. b \in Nat /\ b <= r[u] /\ b <= r[twin] /\ (b = r[u] \/ b = r[twin])
    OBVIOUS
  <2>2. s \in [Nodes -> Nat] /\ s[u] = b /\ s[twin] = b
        /\ \A n \in Nodes : s[n] <= r[n] /\ (n # u /\ n # twin => s[n] = r[n])
    BY <2>1
  <2> HIDE DEF b, s
  <2>3. \A n \in Nodes : node'[n].key \in Named => s[n] = 0
    <3>1. \A n \in Nodes : node'[n].key \in Named => n # u /\ n # twin /\ r[n] = 0
      BY <1>2, <1>17, <1>22 DEF Ranked
    <3> QED
      BY <2>2, <3>1
  <2>4. ASSUME NEW n \in Nodes, node'[n].state = "uniqued", node'[n].key \in Unnamed,
               NEW m \in Operands(node', n)
        PROVE  s[m] < s[n]
    <3>1. n \in Nodes \ {u}
      BY <2>4
    <3>2. node[n].state = "uniqued" /\ node[n].key \in Unnamed /\ m \in Operands(node, n)
          /\ m \in Nodes
      BY <1>8, <2>4, <3>1
    <3>3. r[m] < r[n]
      BY <1>22, <3>2 DEF Ranked
    <3>4. CASE n # twin
      BY <2>2, <3>1, <3>2, <3>3, <3>4
    <3>5. CASE n = twin
      <4>1. r[m] < r[u]
        <5>1. \A i \in Operands(node, u) : r[i] < r[u]
          BY <1>2, <1>22 DEF Ranked
        <5>2. r[new] < r[u]
          BY <1>6, <1>12, <1>22
        <5> QED
          BY <3>2, <3>5, <5>1, <5>2
      <4> QED
        BY <2>1, <2>2, <3>2, <3>3, <3>5, <4>1
    <3> QED
      BY <3>4, <3>5
  <2>5. ASSUME NEW i \in DOMAIN q
        PROVE  s[q[i].new] <= s[q[i].old]
    <3>1. CASE i \in DOMAIN replacing
      <4>1. r[replacing[i].new] <= r[replacing[i].old]
        BY <1>22, <3>1 DEF Ranked
      <4> QED
        BY <1>4, <1>5, <1>11, <1>13, <2>2, <3>1, <4>1
    <3>2. CASE i = L + 1
      BY <1>3, <1>5, <2>1, <2>2, <3>2
    <3> QED
      BY <1>5, <2>5, <3>1, <3>2
  <2>6. ASSUME NEW i \in DOMAIN q, NEW j \in DOMAIN q, i <= j
        PROVE  s[q[i].new] <= s[q[j].new]
    <3>1. CASE i \in DOMAIN replacing /\ j \in DOMAIN replacing
      <4>1. r[replacing[i].new] <= r[replacing[j].new]
        BY <1>22, <2>6, <3>1 DEF Ranked
      <4> QED
        BY <1>4, <1>5, <1>13, <2>2, <3>1, <4>1
    <3>2. CASE i \in DOMAIN replacing /\ j = L + 1
      <4>1. q[j].new = twin /\ q[i] = replacing[i] /\ replacing[i].new \in Nodes
        BY <1>3, <1>4, <1>5, <3>2
      <4>2. r[replacing[i].new] < r[u] /\ r[replacing[i].new] < r[twin]
        BY <1>12, <1>22, <3>2
      <4>3. s[replacing[i].new] = r[replacing[i].new]
        BY <1>13, <2>2, <3>2, <4>1
      <4> QED
        BY <2>1, <2>2, <4>1, <4>2, <4>3
    <3>3. CASE i = L + 1
      <4>1. j = L + 1
        BY <1>5, <1>6, <2>6, <3>3
      <4> QED
        BY <1>3, <1>5, <2>1, <2>2, <3>3, <4>1
    <3> QED
      BY <1>5, <2>6, <3>1, <3>2, <3>3
  <2>7. Ranked(s)'
    BY <1>7, <2>2, <2>3, <2>4, <2>5, <2>6 DEF Ranked
  <2> QED
    BY <2>2, <2>7
<1>23. Remembered \subseteq Remembered' /\ (u \in tracked => twin \in Remembered')
  <2>1. Remembered' = tracked \cup {q[i].new : i \in {j \in DOMAIN q : q[j].old \in tracked}}
    BY <1>7 DEF Remembered
  <2> QED
    BY <1>3, <1>5, <2>1 DEF Remembered
<1>24. ASSUME NEW d \in [Nodes -> Nat], Reached(d)
       PROVE  (\E e \in [Nodes -> Nat] : Reached(e))'
  <2> DEFINE b == IF d[u] < d[twin] THEN d[u] ELSE d[twin]
             e == [d EXCEPT ![u] = b, ![twin] = b]
  <2>1. b \in Nat /\ b <= d[u] /\ b <= d[twin] /\ (b = d[u] \/ b = d[twin])
    OBVIOUS
  <2>2. e \in [Nodes -> Nat] /\ e[u] = b /\ e[twin] = b
        /\ \A n \in Nodes : e[n] <= d[n] /\ (n # u /\ n # twin => e[n] = d[n])
    BY <2>1
  <2> HIDE DEF b, e
  <2>3. ASSUME NEW n \in Nodes \ Remembered', node'[n].state = "uniqued", ~node'[n].resolved,
               NEW m \in Operands(node', n), ~node'[m].resolved
        PROVE  e[m] < e[n]
    <3>1. n \in Nodes \ {u}
      BY <2>3
    <3>2. node[n].state = "uniqued" /\ ~node[n].resolved /\ m \in Operands(node, n)
          /\ m \in Nodes /\ ~node[m].resolved /\ n \notin Remembered
      BY <1>8, <1>17, <1>23, <2>3, <3>1
    <3>3. d[m] < d[n]
      BY <1>24, <3>2 DEF Reached
    <3>4. CASE n # twin
      BY <2>2, <3>1, <3>2, <3>3, <3>4
    <3>5. CASE n = twin
      <4>1. u \notin Remembered
        BY <1>13, <1>23, <2>3, <3>5 DEF Remembered
      <4>2. \A i \in Operands(node, u) : ~node[i].resolved => d[i] < d[u]
        BY <1>1, <1>24, <4>1 DEF Reached
      <4>3. d[new] < d[u]
        <5>1. d[new] <= d[old]
          BY <1>6, <1>24 DEF Reached
        <5> QED
          BY <1>1, <4>2, <5>1
      <4>4. d[m] < d[u]
        BY <3>2, <3>5, <4>2, <4>3
      <4> QED
        BY <2>1, <2>2, <3>2, <3>3, <3>5, <4>4
    <3> QED
      BY <3>4, <3>5
  <2>4. ASSUME NEW i \in DOMAIN q
        PROVE  e[q[i].new] <= e[q[i].old]
    <3>1. CASE i \in DOMAIN replacing
      <4>1. d[replacing[i].new] <= d[replacing[i].old]
        BY <1>24, <3>1 DEF Reached
      <4> QED
        BY <1>4, <1>5, <1>11, <1>13, <2>2, <3>1, <4>1
    <3>2. CASE i = L + 1
      BY <1>3, <1>5, <2>1, <2>2, <3>2
    <3> QED
      BY <1>5, <2>4, <3>1, <3>2
  <2>5. Reached(e)'
    BY <1>7, <2>2, <2>3, <2>4 DEF Reached
  <2> QED
    BY <2>2, <2>5
<1>25. (\E r \in [Nodes -> Nat] : Ranked(r))' /\ (\E d \in [Nodes -> Nat] : Reached(d))'
  <2>1. PICK r \in [Nodes -> Nat] : Ranked(r)
    BY DEF IInv
  <2>2. PICK d \in [Nodes -> Nat] : Reached(d)
    BY DEF IInv
  <2>3. (\E s \in [Nodes -> Nat] : Ranked(s))'
    BY <1>22, <2>1
  <2>4. (\E e \in [Nodes -> Nat] : Reached(e))'
    BY <1>24, <2>2
  <2> QED
    BY <2>3, <2>4
<1>26. CompositesTracked'
  <2>1. \A n \in Nodes : node'[n].state \in {"uniqued", "temporary"} => node'[n] = node[n]
    <3>1. \A n \in Nodes : n = u \/ n \in Nodes \ {u}
      OBVIOUS
    <3> QED
      BY <3>1
  <2> QED
    BY <2>1 DEF IInv, CompositesTracked
<1>27. FinalAtRest'
  BY DEF IInv, FinalAtRest
<1> QED
  BY <1>10, <1>14, <1>15, <1>16, <1>18, <1>19, <1>20, <1>21, <1>25, <1>26, <1>27 DEF IInv

\* What Settled resolves refers to what is resolved.
LEMMA SettledDown ==
  ASSUME NEW f \in [Nodes -> Node], NEW g, g = Settled(f),
         \A n \in Nodes : f[n].state = "uniqued" /\ f[n].resolved =>
           \A m \in Operands(f, n) : f[m].resolved,
         NEW n \in Nodes, g[n].state = "uniqued", g[n].resolved, NEW m \in Operands(g, n)
  PROVE  g[m].resolved
<1>1. /\ f[n].state = "uniqued" /\ Operands(g, n) = Operands(f, n)
      /\ ~f[n].resolved /\ (\E i \in Operands(f, n) : ~g[i].resolved) => ~g[n].resolved
      /\ \A i \in Nodes : f[i].resolved => g[i].resolved
  BY SettledResolves
<1>2. m \in Nodes
  BY <1>1, OperandsAreNodes
<1>3. CASE f[n].resolved
  BY <1>1, <1>2, <1>3
<1>4. CASE ~f[n].resolved
  BY <1>1, <1>4
<1> QED
  BY <1>3, <1>4

\* A step of a replacement.
LEMMA ReplaceUsePreserves ==
  ASSUME IInv, ReplaceUse
  PROVE  IInv'
<1>1. PICK u \in Nodes : \E k \in DOMAIN node[u].ops :
        node[u].ops[k] = Innermost.old /\ ChangeOperand(u, k, Innermost.new)
  BY DEF ReplaceUse
<1>2. PICK k \in DOMAIN node[u].ops :
        node[u].ops[k] = Innermost.old /\ ChangeOperand(u, k, Innermost.new)
  BY <1>1
<1>3. replacing # << >> /\ UNCHANGED <<tracked, phase, held, over>>
  BY DEF ReplaceUse
<1> DEFINE old == Innermost.old
           new == Innermost.new
           f == [node EXCEPT ![u].ops[k] = new]
<1>4. old = Innermost.old /\ new = Innermost.new /\ f = [node EXCEPT ![u].ops[k] = new]
  OBVIOUS
<1>5. old \in Operands(node, u)
  BY <1>2 DEF Operands
<1>6. ChangeOperand(u, k, new)
  BY <1>2
<1> HIDE DEF old, new, f
<1>7. /\ old \in Nodes /\ new \in Nodes
      /\ Len(replacing) \in DOMAIN replacing
      /\ replacing[Len(replacing)].old = old /\ replacing[Len(replacing)].new = new
      /\ ~node[old].resolved
      /\ node[new].state \in {"uniqued", "distinct"}
      /\ node[u].state \in {"temporary", "uniqued", "distinct"}
      /\ node[u].state = "uniqued" => ~node[u].resolved
      /\ u \notin held \/ node[u].key \notin Unnamed
  BY <1>3, <1>4, <1>5, UseFacts
<1>8. node \in [Nodes -> Node]
  BY DEF IInv, TypeOK
<1>9. /\ f \in [Nodes -> Node]
      /\ \A n \in Nodes \ {u} : f[n] = node[n] /\ Operands(f, n) = Operands(node, n)
      /\ f[u].state = node[u].state /\ f[u].key = node[u].key /\ f[u].struct = node[u].struct
      /\ f[u].resolved = node[u].resolved
      /\ Operands(f, u) \subseteq Operands(node, u) \cup {new}
      /\ new \in Operands(f, u)
  <2> DEFINE s == node[u].ops
             v == [s EXCEPT ![k] = new]
  <2>1. node[u] \in Node /\ s \in Seq(Nodes)
    BY <1>8 DEF Node
  <2>2. v \in Seq(Nodes) /\ DOMAIN v = DOMAIN s /\ v[k] = new
        /\ \A i \in DOMAIN s : i # k => v[i] = s[i]
    <3>1. s \in Seq(Nodes) /\ k \in DOMAIN s
      BY <2>1
    <3> HIDE DEF s
    <3>2. s \in [1 .. Len(s) -> Nodes] /\ Len(s) \in Nat
      BY <3>1
    <3>3. v \in [1 .. Len(s) -> Nodes]
      BY <1>7, <3>2
    <3>4. v \in Seq(Nodes)
      BY <3>2, <3>3
    <3> QED
      BY <3>1, <3>4
  <2>3. f[u] = [node[u] EXCEPT !.ops = v] /\ \A n \in Nodes \ {u} : f[n] = node[n]
    BY <1>4, <1>8
  <2>4. s = node[u].ops
    OBVIOUS
  <2> HIDE DEF s, v
  <2>5. f[u] \in Node /\ f[u].ops = v /\ f[u].state = node[u].state /\ f[u].key = node[u].key
        /\ f[u].struct = node[u].struct /\ f[u].resolved = node[u].resolved
    BY <2>1, <2>2, <2>3 DEF Node
  <2>6. f \in [Nodes -> Node]
    BY <1>4, <1>8, <2>3, <2>5
  <2>7. \A n \in Nodes \ {u} : Operands(f, n) = Operands(node, n)
    <3> SUFFICES ASSUME NEW n \in Nodes \ {u}
                 PROVE  Operands(f, n) = Operands(node, n)
      OBVIOUS
    <3>1. f[n] = node[n]
      BY <2>3
    <3> QED
      BY <3>1 DEF Operands
  <2>8. Operands(f, u) \subseteq Operands(node, u) \cup {new} /\ new \in Operands(f, u)
    BY <2>2, <2>4, <2>5 DEF Operands
  <2> QED
    BY <2>3, <2>5, <2>6, <2>7, <2>8
<1>10. \A n \in Nodes : f[n].state = node[n].state /\ f[n].key = node[n].key
        /\ f[n].struct = node[n].struct /\ f[n].resolved = node[n].resolved
        /\ (n # u => f[n].ops = node[n].ops /\ Operands(f, n) = Operands(node, n))
  BY <1>9
<1>11. \A n \in Nodes : Operands(f, n) \subseteq Nodes
  BY <1>9, OperandsAreNodes
<1>12. \A n \in Nodes : f[n].state = "uniqued" /\ f[n].resolved =>
         \A m \in Operands(f, n) : f[m].resolved
  <2> SUFFICES ASSUME NEW n \in Nodes, f[n].state = "uniqued", f[n].resolved,
                      NEW m \in Operands(f, n)
               PROVE  f[m].resolved
    OBVIOUS
  <2>1. n # u /\ m \in Nodes /\ node[n].state = "uniqued" /\ node[n].resolved
        /\ m \in Operands(node, n)
    BY <1>7, <1>10, <1>11
  <2> QED
    BY <1>10, <2>1 DEF IInv, ResolvedDown
<1>13. CASE node[u].state # "uniqued" /\ node' = f /\ UNCHANGED replacing
  <2>1. ResolvedDown'
    BY <1>12, <1>13 DEF ResolvedDown
  <2>2. /\ node' \in [Nodes -> Node]
        /\ \A n \in Nodes :
             /\ node'[n].key = node[n].key /\ node'[n].struct = node[n].struct
             /\ node[n].resolved => node'[n].resolved
             /\ ~node[n].resolved /\ node[n].state # "uniqued" => ~node'[n].resolved
             /\ n # u => /\ node'[n].state = node[n].state /\ node'[n].ops = node[n].ops
                         /\ Operands(node', n) = Operands(node, n)
        /\ node'[u].state = node[u].state
        /\ Operands(node', u) \subseteq Operands(node, u) \cup {new}
    BY <1>9, <1>10, <1>13
  <2> QED
    BY <1>3, <1>4, <1>5, <1>13, <2>1, <2>2, ChangePreserves
<1>14. CASE /\ node[u].state = "uniqued" /\ u = new /\ UNCHANGED replacing
            /\ node' = Settled([f EXCEPT ![u].state = "distinct", ![u].resolved = TRUE])
  <2> DEFINE g == [f EXCEPT ![u].state = "distinct", ![u].resolved = TRUE]
  <2>1. /\ g \in [Nodes -> Node] /\ g[u].state = "distinct" /\ g[u].resolved
        /\ g[u].key = f[u].key /\ g[u].struct = f[u].struct /\ g[u].ops = f[u].ops
        /\ \A n \in Nodes \ {u} : g[n] = f[n]
    <3>1. f[u] \in Node /\ g[u] = [f[u] EXCEPT !.state = "distinct", !.resolved = TRUE]
      BY <1>9
    <3>2. /\ g[u] \in Node /\ g[u].state = "distinct" /\ g[u].resolved
          /\ g[u].key = f[u].key /\ g[u].struct = f[u].struct /\ g[u].ops = f[u].ops
      <4> HIDE DEF g
      <4> QED
        BY <3>1 DEF Node
    <3>3. \A n \in Nodes \ {u} : g[n] = f[n]
      BY <1>9
    <3>4. g \in [Nodes -> Node]
      BY <1>9, <3>2, <3>3
    <3> QED
      BY <3>2, <3>3, <3>4
  <2>2. node' = Settled(g)
    BY <1>14
  <2> HIDE DEF g
  <2>3. \A n \in Nodes : Operands(g, n) = Operands(f, n)
    <3>1. \A n \in Nodes : n = u \/ n \in Nodes \ {u}
      OBVIOUS
    <3>2. \A n \in Nodes : g[n].ops = f[n].ops
      BY <2>1, <3>1
    <3> QED
      BY <3>2 DEF Operands
  <2>4. \A n \in Nodes : g[n].state = "uniqued" /\ g[n].resolved =>
          \A m \in Operands(g, n) : g[m].resolved
    <3> SUFFICES ASSUME NEW n \in Nodes, g[n].state = "uniqued", g[n].resolved,
                        NEW m \in Operands(g, n)
                 PROVE  g[m].resolved
      OBVIOUS
    <3>1. n # u /\ m \in Operands(f, n) /\ m \in Nodes /\ f[n].state = "uniqued" /\ f[n].resolved
      BY <1>11, <2>1, <2>3
    <3>2. f[m].resolved
      BY <1>12, <3>1
    <3> QED
      BY <2>1, <3>1, <3>2
  <2>5. ResolvedDown'
    BY <2>1, <2>2, <2>4, SettledDown DEF ResolvedDown
  <2>6. /\ node' \in [Nodes -> Node]
        /\ \A n \in Nodes :
              /\ node'[n].state = g[n].state /\ node'[n].key = g[n].key
              /\ node'[n].struct = g[n].struct /\ node'[n].ops = g[n].ops
              /\ Operands(node', n) = Operands(g, n)
              /\ g[n].resolved => node'[n].resolved
              /\ ~g[n].resolved /\ g[n].state # "uniqued" => ~node'[n].resolved
    BY <2>1, <2>2, SettledResolves
  <2>7. node[u].key \in Names
    <3>1. node[u].key \in Unnamed \cup Names
      BY <1>14 DEF IInv, Shaped
    <3>2. PICK r \in [Nodes -> Nat] : Ranked(r)
      BY DEF IInv
    <3>3. r[new] <= r[old]
      BY <1>7, <3>2 DEF Ranked
    <3>4. node[u].key \in Unnamed => r[old] < r[u]
      BY <1>5, <1>14, <3>2 DEF Ranked
    <3> QED
      BY <1>7, <1>14, <3>1, <3>3, <3>4
  <2>8. \A n \in Nodes :
          /\ node'[n].key = node[n].key /\ node'[n].struct = node[n].struct
          /\ node[n].resolved => node'[n].resolved
          /\ ~node[n].resolved /\ node[n].state # "uniqued" => ~node'[n].resolved
          /\ n # u => /\ node'[n].state = node[n].state /\ node'[n].ops = node[n].ops
                      /\ Operands(node', n) = Operands(node, n)
    <3> SUFFICES ASSUME NEW n \in Nodes
                 PROVE  /\ node'[n].key = node[n].key /\ node'[n].struct = node[n].struct
                        /\ node[n].resolved => node'[n].resolved
                        /\ ~node[n].resolved /\ node[n].state # "uniqued" => ~node'[n].resolved
                        /\ n # u => /\ node'[n].state = node[n].state /\ node'[n].ops = node[n].ops
                                    /\ Operands(node', n) = Operands(node, n)
      OBVIOUS
    <3>1. CASE n = u
      <4>1. node'[u].key = node[u].key /\ node'[u].struct = node[u].struct
        BY <1>9, <2>1, <2>6
      <4>2. node'[u].resolved
        BY <2>1, <2>6
      <4> QED
        BY <1>14, <3>1, <4>1, <4>2
    <3>2. CASE n # u
      BY <1>10, <2>1, <2>3, <2>6, <3>2
    <3> QED
      BY <3>1, <3>2
  <2>9. /\ node'[u].state = "distinct" /\ node'[u].resolved
        /\ Operands(node', u) \subseteq Operands(node, u) \cup {new}
    BY <1>9, <2>1, <2>3, <2>6
  <2> QED
    BY <1>3, <1>4, <1>5, <1>14, <2>5, <2>6, <2>7, <2>8, <2>9, ChangePreserves
<1>15. CASE node[u].state = "uniqued" /\ Twins(f, u) = {} /\ node' = Settled(f) /\ UNCHANGED replacing
  <2>1. ResolvedDown'
    BY <1>9, <1>12, <1>15, SettledDown DEF ResolvedDown
  <2>2. /\ node' \in [Nodes -> Node]
        /\ \A n \in Nodes :
              /\ node'[n].state = f[n].state /\ node'[n].key = f[n].key
              /\ node'[n].struct = f[n].struct /\ node'[n].ops = f[n].ops
              /\ Operands(node', n) = Operands(f, n)
              /\ f[n].resolved => node'[n].resolved
              /\ ~f[n].resolved /\ f[n].state # "uniqued" => ~node'[n].resolved
    BY <1>9, <1>15, SettledResolves
  <2>3. \A n \in Nodes :
          /\ node'[n].key = node[n].key /\ node'[n].struct = node[n].struct
          /\ node[n].resolved => node'[n].resolved
          /\ ~node[n].resolved /\ node[n].state # "uniqued" => ~node'[n].resolved
          /\ n # u => /\ node'[n].state = node[n].state /\ node'[n].ops = node[n].ops
                      /\ Operands(node', n) = Operands(node, n)
    BY <1>10, <2>2
  <2>4. /\ node'[u].state = node[u].state
        /\ Operands(node', u) \subseteq Operands(node, u) \cup {new}
    BY <1>9, <2>2
  <2>5. Twins(node', u) = {}
    BY <1>15, <2>2 DEF Twins
  <2> QED
    BY <1>3, <1>4, <1>5, <1>15, <2>1, <2>2, <2>3, <2>4, <2>5, ChangePreserves
<1>16. ASSUME node[u].state = "uniqued", u # new, NEW twin \in Twins(f, u), Collide(f, u, twin)
       PROVE  IInv'
  <2>1. /\ twin \in Nodes \ {u} /\ node[twin].state = "uniqued" /\ node[twin].key = node[u].key
        /\ node[twin].ops = f[u].ops
    BY <1>9, <1>16 DEF Twins
  <2>2. Operands(node, twin) = Operands(f, u)
    BY <2>1 DEF Operands
  <2>3. /\ node' = [f EXCEPT ![u].state = "leaving", ![u].ops = << >>]
        /\ replacing' = Append(replacing, [old |-> u, new |-> twin])
    BY <1>16 DEF Collide
  <2>4. /\ node' \in [Nodes -> Node] /\ \A n \in Nodes \ {u} : node'[n] = node[n]
        /\ node'[u].state = "leaving" /\ node'[u].ops = << >> /\ node'[u].key = node[u].key
        /\ node'[u].struct = node[u].struct /\ node'[u].resolved = node[u].resolved
    <3>1. f[u] \in Node /\ node'[u] = [f[u] EXCEPT !.state = "leaving", !.ops = << >>]
      BY <1>9, <2>3
    <3>2. << >> \in Seq(Nodes)
      OBVIOUS
    <3>3. /\ node'[u] \in Node
          /\ node'[u].state = "leaving" /\ node'[u].ops = << >> /\ node'[u].key = f[u].key
          /\ node'[u].struct = f[u].struct /\ node'[u].resolved = f[u].resolved
      BY <3>1, <3>2 DEF Node
    <3>4. \A n \in Nodes \ {u} : node'[n] = f[n]
      BY <1>9, <2>3
    <3>5. node' \in [Nodes -> Node]
      BY <1>9, <2>3, <3>3, <3>4
    <3> QED
      BY <1>9, <3>3, <3>4, <3>5
  <2>5. new \in Operands(node, twin) /\ Operands(node, twin) \subseteq Operands(node, u) \cup {new}
    BY <1>9, <2>2
  <2> QED
    BY <1>3, <1>4, <1>5, <1>16, <2>1, <2>3, <2>4, <2>5, CollidePreserves
<1> QED
  BY <1>4, <1>6, <1>13, <1>14, <1>15, <1>16 DEF ChangeOperand

\* The end of a replacement.
LEMMA EndReplacePreserves ==
  ASSUME IInv, EndReplace
  PROVE  IInv'
<1> DEFINE old == Innermost.old
           new == Innermost.new
           R == [old : Nodes, new : Nodes]
           L == Len(replacing)
           q == replacing'
<1>1. /\ replacing # << >> /\ UNCHANGED <<phase, held, over>>
      /\ \A n \in Nodes : old \notin Operands(node, n)
      /\ node' = [node EXCEPT ![old].state = "deleted", ![old].ops = << >>,
                            ![old].resolved = TRUE]
      /\ tracked' = IF old \in tracked THEN (tracked \ {old}) \cup {new} ELSE tracked
      /\ q = SubSeq(replacing, 1, L - 1)
  BY DEF EndReplace
<1>2. replacing \in Seq(R) /\ node \in [Nodes -> Node] /\ tracked \subseteq Nodes /\ held \subseteq Nodes
  BY DEF IInv, TypeOK
<1>3. L \in DOMAIN replacing /\ L \in Nat
  BY <1>1, <1>2
<1>4. /\ q \in Seq(R) /\ \A i \in DOMAIN q : i \in DOMAIN replacing /\ i # L /\ q[i] = replacing[i]
      /\ \A i \in DOMAIN replacing : i = L \/ i \in DOMAIN q
  <2>1. DOMAIN replacing = 1 .. L /\ L - 1 \in Nat
    BY <1>2, <1>3
  <2> HIDE DEF R
  <2>2. q \in Seq(R) /\ DOMAIN q = 1 .. (L - 1) /\ \A i \in 1 .. (L - 1) : q[i] = replacing[i]
    BY <1>1, <1>2, <2>1
  <2> QED
    BY <1>3, <2>1, <2>2
<1>5. \A i \in DOMAIN replacing : replacing[i].old \in Nodes /\ replacing[i].new \in Nodes
  <2>1. \A i \in DOMAIN replacing : replacing[i] \in R
    BY <1>2, ElementIn
  <2> QED
    BY <2>1
<1>6. old = replacing[L].old /\ new = replacing[L].new
  BY DEF Innermost
<1>7. q = replacing' /\ q \in Seq([old : Nodes, new : Nodes])
  BY <1>4
<1> HIDE DEF old, new, R, L, q
<1>8. /\ old \in Nodes /\ new \in Nodes /\ node[old].state \in {"temporary", "leaving"}
      /\ old \notin held /\ node[new].state \in {"uniqued", "distinct"}
  BY <1>3, <1>5, <1>6 DEF IInv, ReplacingApart
<1>9. /\ node' \in [Nodes -> Node] /\ \A n \in Nodes \ {old} : node'[n] = node[n]
      /\ node'[old].state = "deleted" /\ node'[old].resolved /\ node'[old].ops = << >>
      /\ node'[old].key = node[old].key /\ node'[old].struct = node[old].struct
  <2>1. /\ node[old] \in Node /\ << >> \in Seq(Nodes)
        /\ node'[old] = [node[old] EXCEPT !.state = "deleted", !.ops = << >>, !.resolved = TRUE]
    BY <1>1, <1>2, <1>8
  <2>2. /\ node'[old] \in Node
        /\ node'[old].state = "deleted" /\ node'[old].resolved /\ node'[old].ops = << >>
        /\ node'[old].key = node[old].key /\ node'[old].struct = node[old].struct
    BY <2>1 DEF Node
  <2>3. \A n \in Nodes \ {old} : node'[n] = node[n]
    BY <1>1, <1>2
  <2>4. node' \in [Nodes -> Node]
    BY <1>1, <1>2, <2>2, <2>3
  <2> QED
    BY <2>2, <2>3, <2>4
<1>10. Operands(node', old) = {}
  BY <1>9 DEF Operands
<1>11. \A n \in Nodes : /\ Operands(node', n) \subseteq Operands(node, n)
                        /\ n # old => Operands(node', n) = Operands(node, n)
                        /\ Operands(node, n) \subseteq Nodes \ {old}
  <2>1. \A n \in Nodes \ {old} : Operands(node', n) = Operands(node, n)
    BY <1>9 DEF Operands
  <2>2. \A n \in Nodes : Operands(node, n) \subseteq Nodes \ {old}
    BY <1>1, <1>2, OperandsAreNodes
  <2> QED
    BY <1>10, <2>1, <2>2
<1>12. \A n \in Nodes : node'[n].key = node[n].key /\ node'[n].struct = node[n].struct
  <2>1. \A n \in Nodes : n = old \/ n \in Nodes \ {old}
    OBVIOUS
  <2> QED
    BY <1>9, <2>1
<1>13. \A n \in Nodes : node'[n].state = "uniqued" => n \in Nodes \ {old} /\ node'[n] = node[n]
  BY <1>9
<1>14. Live(node') = Live(node) \ {old}
  BY <1>9 DEF Live
<1>15. tracked' \subseteq (tracked \ {old}) \cup {new}
  BY <1>1
<1>16. old # new /\ \A i \in DOMAIN q : q[i].old \in Nodes \ {old} /\ q[i].new \in Nodes \ {old}
  <2>1. \A i \in DOMAIN replacing : replacing[i].new # old
    BY <1>5, <1>8 DEF IInv, ReplacingApart
  <2>2. \A i \in DOMAIN q : replacing[i].old # old
    BY <1>3, <1>4, <1>6 DEF IInv, ReplacingApart
  <2> QED
    BY <1>3, <1>4, <1>5, <1>6, <2>1, <2>2
<1>17. TypeOK'
  BY <1>1, <1>2, <1>7, <1>8, <1>9, <1>15 DEF IInv, TypeOK
<1>18. NoDanglingOperand'
  <2> DEFINE known == Live(node) \cup {replacing[i].old : i \in DOMAIN replacing}
             later == Live(node') \cup {q[i].old : i \in DOMAIN q}
  <2>1. known \subseteq later \cup {old}
    <3>1. {replacing[i].old : i \in DOMAIN replacing} \subseteq {q[i].old : i \in DOMAIN q} \cup {old}
      BY <1>4, <1>6
    <3> QED
      BY <1>14, <3>1
  <2>2. (\A n \in Live(node) : Operands(node, n) \subseteq known) /\ tracked \subseteq known
    BY DEF IInv, NoDanglingOperand
  <2>3. new \in later
    BY <1>8, <1>14, <1>16 DEF Live
  <2>4. later = Live(node') \cup {(replacing')[i].old : i \in DOMAIN (replacing')}
    BY <1>7
  <2> HIDE DEF known, later
  <2>5. \A n \in Live(node') : Operands(node', n) \subseteq later
    <3>1. \A n \in Live(node') : n \in Live(node) /\ n \in Nodes
      BY <1>14 DEF Live
    <3> QED
      BY <1>11, <2>1, <2>2, <3>1
  <2>6. tracked' \subseteq later
    BY <1>15, <2>1, <2>2, <2>3
  <2> QED
    BY <2>4, <2>5, <2>6 DEF NoDanglingOperand
<1>19. OneNodePerContents'
  <2> SUFFICES ASSUME NEW n \in Nodes, node'[n].state = "uniqued", NEW m \in Twins(node', n)
               PROVE  FALSE
    BY DEF OneNodePerContents
  <2>1. m \in Nodes \ {n} /\ node'[m].state = "uniqued" /\ node'[m].key = node'[n].key
        /\ node'[m].ops = node'[n].ops
    BY DEF Twins
  <2>2. m \in Twins(node, n) /\ node[n].state = "uniqued"
    BY <1>13, <2>1 DEF Twins
  <2> QED
    BY <2>2 DEF IInv, OneNodePerContents
<1>20. Shaped'
  <2> SUFFICES ASSUME NEW n \in Nodes
               PROVE  /\ node'[n].state \notin {"uniqued", "distinct", "temporary"} => node'[n].ops = << >>
                      /\ node'[n].state \in {"free", "distinct", "deleted"} => node'[n].resolved
                      /\ node'[n].state = "temporary" => ~node'[n].resolved
                      /\ node'[n].state = "temporary" => node'[n].key \in Temporary
                      /\ node'[n].state = "uniqued" => node'[n].key \in Unnamed \cup Names
                      /\ node'[n].state = "distinct" => node'[n].key \in Named
                      /\ node'[n].struct => node'[n].key \in Names
    BY DEF Shaped
  <2>1. CASE n = old
    <3>1. node[old].struct => node[old].key \in Names
      BY <1>8 DEF IInv, Shaped
    <3> QED
      BY <1>9, <1>10, <2>1, <3>1
  <2>2. CASE n # old
    BY <1>9, <2>2 DEF IInv, Shaped
  <2> QED
    BY <2>1, <2>2
<1>21. NamedOnce'
  BY <1>12 DEF IInv, NamedOnce
<1>22. ResolvedDown'
  <2> SUFFICES ASSUME NEW n \in Nodes, node'[n].state = "uniqued", node'[n].resolved,
                      NEW m \in Operands(node', n)
               PROVE  node'[m].resolved
    BY DEF ResolvedDown
  <2>1. m \in Operands(node, n) /\ m \in Nodes \ {old} /\ node[n].state = "uniqued"
        /\ node[n].resolved
    BY <1>11, <1>13
  <2>2. node[m].resolved
    BY <2>1 DEF IInv, ResolvedDown
  <2> QED
    BY <1>9, <2>1, <2>2
<1>23. HeldKnown'
  <2>1. \A n \in held : n \in Nodes /\ n \in Nodes \ {old}
    BY <1>2, <1>8
  <2>2. \A n \in held : node'[n] = node[n] /\ Operands(node', n) = Operands(node, n)
    BY <1>9, <1>11, <2>1
  <2> QED
    BY <1>1, <2>2 DEF IInv, HeldKnown
<1>24. ReplacingApart'
  <2> SUFFICES ASSUME NEW i \in DOMAIN q
               PROVE  /\ node'[q[i].old].state \in {"temporary", "leaving"}
                      /\ ~node'[q[i].old].resolved
                      /\ q[i].old \notin held
                      /\ node'[q[i].new].state \in {"uniqued", "distinct"}
                      /\ \A j \in DOMAIN q : i # j => q[i].old # q[j].old
    BY <1>1, <1>7 DEF ReplacingApart
  <2>1. i \in DOMAIN replacing /\ q[i] = replacing[i]
        /\ node'[q[i].old] = node[q[i].old] /\ node'[q[i].new] = node[q[i].new]
    BY <1>4, <1>9, <1>16
  <2>2. \A j \in DOMAIN q : j \in DOMAIN replacing /\ q[j] = replacing[j]
    BY <1>4
  <2> QED
    BY <2>1, <2>2 DEF IInv, ReplacingApart
<1>25. ASSUME NEW r \in [Nodes -> Nat], Ranked(r)
       PROVE  Ranked(r)'
  <2>1. \A n \in Nodes : node'[n].key \in Named => r[n] = 0
    BY <1>12, <1>25 DEF Ranked
  <2>2. \A n \in Nodes : node'[n].state = "uniqued" /\ node'[n].key \in Unnamed =>
          \A m \in Operands(node', n) : r[m] < r[n]
    BY <1>11, <1>13, <1>25 DEF Ranked
  <2>3. \A i \in DOMAIN q : /\ r[q[i].new] <= r[q[i].old]
                            /\ \A j \in DOMAIN q : i <= j => r[q[i].new] <= r[q[j].new]
    <3>1. \A i \in DOMAIN replacing :
            /\ r[replacing[i].new] <= r[replacing[i].old]
            /\ \A j \in DOMAIN replacing : i <= j => r[replacing[i].new] <= r[replacing[j].new]
      BY <1>25 DEF Ranked
    <3> QED
      BY <1>4, <3>1
  <2> QED
    BY <1>7, <2>1, <2>2, <2>3 DEF Ranked
<1>26. Remembered \ {old} \subseteq Remembered'
  <2>1. Remembered' = tracked' \cup {q[i].new : i \in {j \in DOMAIN q : q[j].old \in tracked'}}
    BY <1>7 DEF Remembered
  <2>2. tracked \ {old} \subseteq tracked' /\ (old \in tracked => new \in tracked')
    BY <1>1
  <2>3. ASSUME NEW i \in DOMAIN replacing, replacing[i].old \in tracked
        PROVE  replacing[i].new \in Remembered'
    <3>1. CASE i = L
      BY <1>6, <2>1, <2>2, <2>3, <3>1
    <3>2. CASE i \in DOMAIN q
      BY <1>4, <1>16, <2>1, <2>2, <2>3, <3>2
    <3> QED
      BY <1>4, <3>1, <3>2
  <2> QED
    BY <2>1, <2>2, <2>3 DEF Remembered
<1>27. ASSUME NEW d \in [Nodes -> Nat], Reached(d)
       PROVE  Reached(d)'
  <2>1. ASSUME NEW n \in Nodes \ Remembered', node'[n].state = "uniqued", ~node'[n].resolved,
               NEW m \in Operands(node', n), ~node'[m].resolved
        PROVE  d[m] < d[n]
    <3>1. n \in Nodes \ Remembered /\ node[n].state = "uniqued" /\ ~node[n].resolved
      BY <1>13, <1>26, <2>1
    <3>2. m \in Operands(node, n) /\ ~node[m].resolved
      BY <1>9, <1>11, <2>1
    <3> QED
      BY <1>27, <3>1, <3>2 DEF Reached
  <2>2. \A i \in DOMAIN q : d[q[i].new] <= d[q[i].old]
    BY <1>4, <1>27 DEF Reached
  <2> QED
    BY <1>7, <2>1, <2>2 DEF Reached
<1>28. (\E r \in [Nodes -> Nat] : Ranked(r))' /\ (\E d \in [Nodes -> Nat] : Reached(d))'
  BY <1>25, <1>27 DEF IInv
<1>29. CompositesTracked'
  <2>1. \A n \in Nodes : node'[n].state \in {"uniqued", "temporary"} =>
          n \in Nodes \ {old} /\ node'[n] = node[n]
    BY <1>9
  <2>2. tracked \ {old} \subseteq tracked'
    BY <1>1
  <2> QED
    BY <2>1, <2>2 DEF IInv, CompositesTracked
<1>30. FinalAtRest'
  BY <1>1 DEF IInv, FinalAtRest
<1> QED
  BY <1>17, <1>18, <1>19, <1>20, <1>21, <1>22, <1>23, <1>24, <1>28, <1>29, <1>30 DEF IInv

-----------------------------------------------------------------------------
(* The calls of the program.                                               *)

\* A replacement begins: what the program keeps is not made of what goes.
LEMMA ReplacePreserves ==
  ASSUME IInv, replacing = << >>, NEW t \in held, NEW new \in held,
         Replaces(t, new), ReplaceAllUsesWith(t, new)
  PROVE  IInv'
<1> DEFINE p == [old |-> t, new |-> new]
           q == replacing'
           R == [old : Nodes, new : Nodes]
<1>1. /\ UNCHANGED <<node, tracked, phase>> /\ q = << p >>
      /\ held' = {n \in held : t \notin over[n]}
      /\ over' = [n \in Nodes |-> IF t \in over[n] THEN {} ELSE over[n]]
      /\ node[t].state = "temporary" /\ node[new].state # "temporary"
      /\ \/ node[new].struct
         \/ node[t].key = "replaceable" /\ t \notin over[new]
  BY DEF Replaces, ReplaceAllUsesWith
<1>2. /\ held \subseteq Nodes /\ t \in Nodes /\ new \in Nodes /\ over \in [Nodes -> SUBSET Nodes]
      /\ node \in [Nodes -> Node]
  BY DEF IInv, TypeOK
<1>3. p \in R /\ p.old = t /\ p.new = new
  BY <1>2
<1>4. q \in Seq(R) /\ DOMAIN q = {1} /\ q[1] = p
  <2> HIDE DEF p, R
  <2> QED
    BY <1>1, <1>3
<1>5. q = replacing' /\ q \in Seq([old : Nodes, new : Nodes])
  BY <1>4
<1> HIDE DEF p, q, R
<1>6. \A i \in DOMAIN q : q[i].old = t /\ q[i].new = new
  BY <1>3, <1>4
<1>7. node[t].key \in Temporary /\ over[t] = {t} /\ node[new].state \in {"uniqued", "distinct"}
  <2>1. node[t].key \in Temporary
    BY <1>1, <1>2 DEF IInv, Shaped
  <2> QED
    BY <1>1, <2>1 DEF IInv, HeldKnown
<1>8. \A n \in Nodes : /\ node[n].key \in Named => node[n].key \notin Unnamed \cup Temporary
                       /\ node[n].key \in Temporary => node[n].key \notin Unnamed
  BY NamesAssumption DEF Named, Unnamed, Temporary
<1>9. t \notin held' /\ new \in held' /\ held' \subseteq held
  <2>1. t \notin over[new]
    <3>1. CASE node[new].struct
      <4>1. node[new].key \in Named
        BY <1>2, <3>1 DEF IInv, Shaped, Named
      <4> QED
        BY <4>1 DEF IInv, HeldKnown
    <3> QED
      BY <1>1, <3>1
  <2> QED
    BY <1>1, <1>7, <2>1
<1>10. ASSUME NEW n \in held', node[n].key \in Unnamed
       PROVE  /\ Operands(node, n) \subseteq held'
              /\ \A m \in Operands(node, n) : over[m] \subseteq over[n]
  <2>1. Operands(node, n) \subseteq held /\ \A m \in Operands(node, n) : over[m] \subseteq over[n]
    BY <1>9, <1>10 DEF IInv, HeldKnown
  <2> QED
    BY <1>1, <2>1
<1>11. \A n \in held' : over'[n] = over[n]
  BY <1>1, <1>2
<1>12. TypeOK'
  BY <1>1, <1>2, <1>5, <1>9 DEF IInv, TypeOK
<1>13. NoDanglingOperand'
  <2> DEFINE later == Live(node) \cup {(replacing')[i].old : i \in DOMAIN (replacing')}
  <2>1. {replacing[i].old : i \in DOMAIN replacing} = {}
    OBVIOUS
  <2>2. (\A n \in Live(node) : Operands(node, n) \subseteq Live(node)) /\ tracked \subseteq Live(node)
    BY <2>1 DEF IInv, NoDanglingOperand
  <2>3. (\A n \in Live(node) : Operands(node, n) \subseteq later) /\ tracked \subseteq later
    BY <2>2
  <2> HIDE DEF later
  <2>4. (\A n \in Live(node') : Operands(node', n) \subseteq later) /\ tracked' \subseteq later
        /\ Live(node') = Live(node)
    BY <1>1, <2>3
  <2> QED
    BY <2>4 DEF NoDanglingOperand, later
<1>14. OneNodePerContents' /\ Shaped' /\ NamedOnce' /\ ResolvedDown' /\ CompositesTracked'
  BY <1>1 DEF IInv, OneNodePerContents, Shaped, NamedOnce, ResolvedDown, CompositesTracked
<1>15. HeldKnown'
  <2> SUFFICES ASSUME NEW n \in held'
               PROVE  /\ node[n].state \in {"temporary", "uniqued", "distinct"}
                      /\ node[n].key \in Temporary => over'[n] = {n}
                      /\ node[n].key \in Named => over'[n] = {}
                      /\ node[n].key \in Unnamed =>
                           Operands(node, n) \subseteq held'
                           /\ \A m \in Operands(node, n) : over'[m] \subseteq over'[n]
    BY <1>1 DEF HeldKnown
  <2>1. /\ node[n].state \in {"temporary", "uniqued", "distinct"}
        /\ node[n].key \in Temporary => over[n] = {n}
        /\ node[n].key \in Named => over[n] = {}
    BY <1>9 DEF IInv, HeldKnown
  <2> QED
    BY <1>10, <1>11, <2>1
<1>16. ReplacingApart'
  <2>1. \A i \in DOMAIN q : \A j \in DOMAIN q : i = j
    BY <1>4
  <2>2. ~node[t].resolved
    BY <1>1, <1>2 DEF IInv, Shaped
  <2>3. \A i \in DOMAIN q : /\ node[q[i].old].state \in {"temporary", "leaving"}
                            /\ ~node[q[i].old].resolved
                            /\ q[i].old \notin held'
                            /\ node[q[i].new].state \in {"uniqued", "distinct"}
    BY <1>1, <1>6, <1>7, <1>9, <2>2
  <2> QED
    BY <1>1, <1>5, <2>1, <2>3 DEF ReplacingApart
<1>17. ASSUME NEW r \in [Nodes -> Nat], Ranked(r)
       PROVE  (\E s \in [Nodes -> Nat] : Ranked(s))'
  <2>1. PICK s \in [Nodes -> Nat] :
          \A n \in Nodes : /\ r[n] \in Nat /\ s[n] \in Nat /\ s[n] <= r[n] + r[new]
                           /\ n \in held' \/ node[n].key \in Named => s[n] = r[n]
                           /\ n \notin held' /\ node[n].key \notin Named => s[n] = r[n] + r[new]
    <3> DEFINE z == [n \in Nodes |-> IF n \in held' \/ node[n].key \in Named THEN r[n] ELSE r[n] + r[new]]
    <3>1. /\ z \in [Nodes -> Nat]
          /\ \A n \in Nodes : /\ r[n] \in Nat /\ z[n] \in Nat /\ z[n] <= r[n] + r[new]
                              /\ n \in held' \/ node[n].key \in Named => z[n] = r[n]
                              /\ n \notin held' /\ node[n].key \notin Named => z[n] = r[n] + r[new]
      BY <1>2
    <3> QED
      BY <3>1
  <2>2. \A n \in Nodes : node[n].key \in Named => s[n] = 0
    BY <1>17, <2>1 DEF Ranked
  <2>3. ASSUME NEW n \in Nodes, node[n].state = "uniqued", node[n].key \in Unnamed,
               NEW m \in Operands(node, n)
        PROVE  s[m] < s[n]
    <3>1. r[m] < r[n] /\ m \in Nodes
      BY <1>2, <1>17, <2>3, OperandsAreNodes DEF Ranked
    <3>2. CASE n \in held'
      <4>1. m \in held'
        BY <1>10, <2>3, <3>2
      <4> QED
        BY <2>1, <3>1, <3>2, <4>1
    <3>3. CASE n \notin held'
      <4>1. s[n] = r[n] + r[new]
        BY <1>8, <2>1, <2>3, <3>3
      <4> QED
        BY <1>2, <2>1, <3>1, <4>1
    <3> QED
      BY <3>2, <3>3
  <2>4. s[new] <= s[t] /\ s[new] <= s[new]
    <3>1. s[new] = r[new]
      BY <1>2, <1>9, <2>1
    <3>2. s[t] = r[t] + r[new]
      BY <1>2, <1>7, <1>8, <1>9, <2>1
    <3> QED
      BY <1>2, <2>1, <3>1, <3>2
  <2>5. \A i \in DOMAIN q : /\ s[q[i].new] <= s[q[i].old]
                            /\ \A j \in DOMAIN q : i <= j => s[q[i].new] <= s[q[j].new]
    BY <1>6, <2>4
  <2>6. Ranked(s)'
    BY <1>1, <1>5, <2>1, <2>2, <2>3, <2>5 DEF Ranked
  <2> QED
    BY <2>1, <2>6
<1>18. ASSUME NEW d \in [Nodes -> Nat], Reached(d)
       PROVE  (\E e \in [Nodes -> Nat] : Reached(e))'
  <2> DEFINE e == [n \in Nodes |-> IF n = new THEN 0 ELSE d[n] + 1]
  <2>1. /\ e \in [Nodes -> Nat] /\ e[new] = 0
        /\ \A n \in Nodes : /\ d[n] \in Nat /\ e[n] \in Nat
                            /\ n # new => e[n] = d[n] + 1
    BY <1>2
  <2> HIDE DEF e
  <2>2. Remembered' = tracked' \cup {q[i].new : i \in {j \in DOMAIN q : q[j].old \in tracked'}}
    BY <1>5 DEF Remembered
  <2>3. tracked \subseteq Remembered' /\ (t \in tracked => new \in Remembered')
    BY <1>1, <1>4, <1>6, <2>2
  <2>4. Remembered = tracked
    <3>1. {j \in DOMAIN replacing : replacing[j].old \in tracked} = {}
      OBVIOUS
    <3> QED
      BY <3>1 DEF Remembered
  <2>5. ASSUME NEW n \in Nodes \ Remembered', node[n].state = "uniqued", ~node[n].resolved,
               NEW m \in Operands(node, n), ~node[m].resolved
        PROVE  e[m] < e[n]
    <3>1. n # new
      <4>1. CASE node[new].struct
        BY <2>3, <2>5, <4>1 DEF IInv, CompositesTracked
      <4>2. CASE node[t].key = "replaceable"
        <5>1. t \in tracked
          BY <1>1, <1>2, <4>2 DEF IInv, CompositesTracked
        <5> QED
          BY <2>3, <5>1
      <4> QED
        BY <1>1, <4>1, <4>2
    <3>2. d[m] < d[n] /\ m \in Nodes
      BY <1>2, <1>18, <2>3, <2>4, <2>5, OperandsAreNodes DEF Reached
    <3> QED
      BY <2>1, <3>1, <3>2
  <2>6. \A i \in DOMAIN q : e[q[i].new] <= e[q[i].old]
    BY <1>2, <1>6, <2>1
  <2>7. Reached(e)'
    BY <1>1, <1>5, <2>1, <2>5, <2>6 DEF Reached
  <2> QED
    BY <2>1, <2>7
<1>19. (\E r \in [Nodes -> Nat] : Ranked(r))' /\ (\E d \in [Nodes -> Nat] : Reached(d))'
  <2>1. PICK r \in [Nodes -> Nat] : Ranked(r)
    BY DEF IInv
  <2>2. PICK d \in [Nodes -> Nat] : Reached(d)
    BY DEF IInv
  <2>3. (\E s \in [Nodes -> Nat] : Ranked(s))'
    BY <1>17, <2>1
  <2>4. (\E e \in [Nodes -> Nat] : Reached(e))'
    BY <1>18, <2>2
  <2> QED
    BY <2>3, <2>4
<1>20. FinalAtRest'
  <2>1. ~node[t].resolved /\ t \in Live(node)
    BY <1>1, <1>2 DEF IInv, Shaped, Live
  <2>2. phase \in {"bare", "open"}
    BY <2>1 DEF IInv, FinalAtRest
  <2> QED
    BY <1>1, <2>2 DEF FinalAtRest
<1> QED
  BY <1>12, <1>13, <1>14, <1>15, <1>16, <1>19, <1>20 DEF IInv

\* A rank above those of the operands of a new node.
LEMMA RankAbove ==
  ASSUME NEW ops \in Seq(Nodes), Len(ops) <= 2, NEW r \in [Nodes -> Nat]
  PROVE  \E b \in Nat : \A k \in DOMAIN ops : r[ops[k]] < b
<1>1. Len(ops) \in {0, 1, 2} /\ DOMAIN ops = 1 .. Len(ops)
  <2>1. Len(ops) \in Nat /\ DOMAIN ops = 1 .. Len(ops)
    OBVIOUS
  <2> QED
    BY <2>1
<1>2. \A k \in DOMAIN ops : r[ops[k]] \in Nat
  <2>1. \A k \in DOMAIN ops : ops[k] \in Nodes
    BY ElementIn
  <2> QED
    BY <2>1
<1>3. CASE Len(ops) = 0
  <2>1. DOMAIN ops = {}
    BY <1>1, <1>3
  <2> QED
    BY <2>1
<1>4. CASE Len(ops) = 1
  <2>1. DOMAIN ops = {1}
    BY <1>1, <1>4
  <2> DEFINE b == r[ops[1]] + 1
  <2>2. b \in Nat /\ \A k \in DOMAIN ops : r[ops[k]] < b
    BY <1>2, <2>1
  <2> QED
    BY <2>2
<1>5. CASE Len(ops) = 2
  <2>1. DOMAIN ops = {1, 2}
    BY <1>1, <1>5
  <2> DEFINE b == r[ops[1]] + r[ops[2]] + 1
  <2>2. b \in Nat /\ \A k \in DOMAIN ops : r[ops[k]] < b
    BY <1>2, <2>1
  <2> QED
    BY <2>2
<1> QED
  BY <1>1, <1>3, <1>4, <1>5

\* A new node is made of nodes the program holds.
LEMMA MakePreserves ==
  ASSUME IInv, replacing = << >>, phase \in {"bare", "open"},
         NEW state, NEW key, NEW struct \in BOOLEAN, NEW ops \in Seq(held), NEW track \in BOOLEAN,
         Len(ops) <= 2,
         \/ state = "temporary" /\ key \in Temporary /\ ~struct
         \/ state = "uniqued" /\ key \in Unnamed /\ ~struct
         \/ state = "uniqued" /\ key \in Names
         \/ state = "distinct" /\ key = "function" /\ ~struct,
         key \in Names => IsFresh(key),
         struct \/ key = "replaceable" => track,
         state = "uniqued" => \A m \in Nodes : node[m].state = "uniqued" /\ node[m].key = key =>
                                                 node[m].ops # ops,
         Make(state, key, struct, ops, track)
  PROVE  IInv'
<1> DEFINE x == [state |-> state, key |-> key, struct |-> struct, ops |-> ops,
                 resolved |-> \/ state = "distinct"
                              \/ /\ state = "uniqued"
                                 /\ \A k \in DOMAIN ops : node[ops[k]].resolved]
           O == {ops[k] : k \in DOMAIN ops}
<1>1. PICK n \in Nodes :
        /\ node[n].state = "free"
        /\ node' = [node EXCEPT ![n] = x]
        /\ tracked' = IF track /\ ~x.resolved THEN tracked \cup {n} ELSE tracked
        /\ Hand(n, key, ops)
  BY DEF Make, IsNext
<1>2. /\ x.state = state /\ x.key = key /\ x.struct = struct /\ x.ops = ops
      /\ x.resolved = (state = "distinct" \/ (state = "uniqued" /\ \A m \in O : node[m].resolved))
  OBVIOUS
<1>3. /\ node \in [Nodes -> Node] /\ held \subseteq Nodes /\ tracked \subseteq Nodes
      /\ over \in [Nodes -> SUBSET Nodes]
  BY DEF IInv, TypeOK
<1>4. ops \in Seq(Nodes) /\ O \subseteq held
  <2>1. \A k \in DOMAIN ops : ops[k] \in held
    BY ElementIn
  <2>2. ops \in [1 .. Len(ops) -> Nodes] /\ Len(ops) \in Nat
    BY <1>3
  <2> QED
    BY <2>1, <2>2
<1>5. x \in Node
  <2>1. state \in {"temporary", "uniqued", "distinct"} /\ key \in Keys
    BY DEF Keys
  <2> QED
    BY <1>4, <2>1 DEF Node
<1>6. /\ held' = held \cup {n} /\ UNCHANGED <<phase, replacing>>
      /\ over' = [over EXCEPT ![n] = CASE key \in Temporary -> {n}
                                       [] key \in Unnamed -> UNION {over[ops[k]] : k \in DOMAIN ops}
                                       [] OTHER -> {}]
  BY <1>1 DEF Hand
<1>7. \A k \in DOMAIN ops : ops[k] \in O
  OBVIOUS
<1>8. \A m \in O : \E k \in DOMAIN ops : m = ops[k]
  OBVIOUS
<1>9. node'[n] = x /\ (\A m \in Nodes \ {n} : node'[m] = node[m]) /\ node' \in [Nodes -> Node]
  BY <1>1, <1>3, <1>5
<1>10. Operands(node', n) = O
  BY <1>2, <1>9 DEF Operands
<1> HIDE DEF x, O
<1>11. n \notin held
  BY <1>1 DEF IInv, HeldKnown
<1>12. {replacing[i].old : i \in DOMAIN replacing} = {} /\ DOMAIN replacing = {}
  OBVIOUS
<1>13. (\A m \in Live(node) : Operands(node, m) \subseteq Live(node)) /\ tracked \subseteq Live(node)
  BY <1>12 DEF IInv, NoDanglingOperand
<1>14. n \notin Live(node) /\ n \notin tracked
  BY <1>1, <1>13 DEF Live
<1>15. \A m \in Nodes : Operands(node, m) \subseteq Live(node) /\ n \notin Operands(node, m)
  <2> SUFFICES ASSUME NEW m \in Nodes
               PROVE  Operands(node, m) \subseteq Live(node)
    BY <1>14
  <2>1. CASE m \in Live(node)
    BY <1>13, <2>1
  <2>2. CASE m \notin Live(node)
    <3>1. node[m].ops = << >>
      BY <2>2 DEF IInv, Shaped, Live
    <3> QED
      BY <3>1 DEF Operands
  <2> QED
    BY <2>1, <2>2
<1>16. \A m \in Nodes \ {n} : Operands(node', m) = Operands(node, m)
  <2> SUFFICES ASSUME NEW m \in Nodes \ {n}
               PROVE  Operands(node', m) = Operands(node, m)
    OBVIOUS
  <2>1. node'[m] = node[m]
    BY <1>9
  <2> QED
    BY <2>1 DEF Operands
<1>17. held \subseteq Live(node)
  BY <1>3 DEF IInv, HeldKnown, Live
<1>18. n \notin O
  BY <1>4, <1>11
<1>19. \A m \in Nodes : m = n \/ m \in Nodes \ {n}
  OBVIOUS
<1>20. state \in {"temporary", "uniqued", "distinct"} /\ Live(node') = Live(node) \cup {n}
  BY <1>2, <1>9, <1>14, <1>19 DEF Live
<1>21. over' \in [Nodes -> SUBSET Nodes] /\ \A m \in Nodes \ {n} : over'[m] = over[m]
  <2> DEFINE v == CASE key \in Temporary -> {n}
                    [] key \in Unnamed -> UNION {over[ops[k]] : k \in DOMAIN ops}
                    [] OTHER -> {}
  <2>1. v \in SUBSET Nodes
    BY <1>3, <1>4, ElementIn
  <2>2. over' = [over EXCEPT ![n] = v]
    BY <1>6
  <2> HIDE DEF v
  <2> QED
    BY <1>3, <2>1, <2>2
<1>22. tracked \subseteq tracked' /\ tracked' \subseteq tracked \cup {n}
  BY <1>1
<1>23. TypeOK'
  BY <1>3, <1>6, <1>9, <1>21, <1>22 DEF IInv, TypeOK
<1>24. NoDanglingOperand'
  <2>1. \A m \in Live(node') : Operands(node', m) \subseteq Live(node)
    <3>1. \A m \in Live(node') : m = n \/ m \in Nodes \ {n}
      BY DEF Live
    <3>2. O \subseteq Live(node)
      BY <1>4, <1>17
    <3> QED
      BY <1>10, <1>15, <1>16, <3>1, <3>2
  <2> QED
    BY <1>13, <1>20, <1>22, <2>1 DEF NoDanglingOperand
<1>25. OneNodePerContents'
  <2> SUFFICES ASSUME NEW i \in Nodes, node'[i].state = "uniqued", NEW m \in Twins(node', i)
               PROVE  FALSE
    BY DEF OneNodePerContents
  <2>1. m \in Nodes \ {i} /\ node'[m].state = "uniqued" /\ node'[m].key = node'[i].key
        /\ node'[m].ops = node'[i].ops
    BY DEF Twins
  <2>2. CASE i = n
    BY <1>2, <1>9, <2>1, <2>2
  <2>3. CASE m = n
    BY <1>2, <1>9, <2>1, <2>3
  <2>4. CASE i # n /\ m # n
    <3>1. m \in Twins(node, i) /\ node[i].state = "uniqued"
      BY <1>9, <2>1, <2>4 DEF Twins
    <3> QED
      BY <3>1 DEF IInv, OneNodePerContents
  <2> QED
    BY <2>2, <2>3, <2>4
<1>26. Shaped'
  <2> SUFFICES ASSUME NEW m \in Nodes
               PROVE  /\ node'[m].state \notin {"uniqued", "distinct", "temporary"} => node'[m].ops = << >>
                      /\ node'[m].state \in {"free", "distinct", "deleted"} => node'[m].resolved
                      /\ node'[m].state = "temporary" => ~node'[m].resolved
                      /\ node'[m].state = "temporary" => node'[m].key \in Temporary
                      /\ node'[m].state = "uniqued" => node'[m].key \in Unnamed \cup Names
                      /\ node'[m].state = "distinct" => node'[m].key \in Named
                      /\ node'[m].struct => node'[m].key \in Names
    BY DEF Shaped
  <2>1. CASE m = n
    BY <1>2, <1>9, <2>1 DEF Named
  <2>2. CASE m # n
    BY <1>9, <2>2 DEF IInv, Shaped
  <2> QED
    BY <2>1, <2>2
<1>27. NamedOnce'
  <2>1. key \in Names => \A m \in Nodes : node[m].key # key
    BY DEF IsFresh
  <2> SUFFICES ASSUME NEW i \in Nodes, NEW m \in Nodes,
                      node'[i].key \in Names, node'[i].key = node'[m].key
               PROVE  i = m
    BY DEF NamedOnce
  <2>2. CASE i = n
    BY <1>2, <1>9, <2>1, <2>2
  <2>3. CASE m = n
    BY <1>2, <1>9, <2>1, <2>3
  <2>4. CASE i # n /\ m # n
    BY <1>9, <2>4 DEF IInv, NamedOnce
  <2> QED
    BY <2>2, <2>3, <2>4
<1>28. ResolvedDown'
  <2> SUFFICES ASSUME NEW i \in Nodes, node'[i].state = "uniqued", node'[i].resolved,
                      NEW m \in Operands(node', i)
               PROVE  node'[m].resolved
    BY DEF ResolvedDown
  <2>1. CASE i = n
    <3>1. m \in O /\ m \in Nodes \ {n}
      BY <1>3, <1>4, <1>10, <1>18, <2>1
    <3>2. node[m].resolved
      BY <1>2, <1>9, <2>1, <3>1
    <3> QED
      BY <1>9, <3>1, <3>2
  <2>2. CASE i # n
    <3>1. m \in Operands(node, i) /\ m \in Nodes \ {n} /\ node'[i] = node[i]
      BY <1>3, <1>9, <1>15, <1>16, <2>2, OperandsAreNodes
    <3>2. node[m].resolved
      BY <3>1 DEF IInv, ResolvedDown
    <3> QED
      BY <1>9, <3>1, <3>2
  <2> QED
    BY <2>1, <2>2
<1>29. HeldKnown'
  <2> SUFFICES ASSUME NEW i \in held'
               PROVE  /\ node'[i].state \in {"temporary", "uniqued", "distinct"}
                      /\ node'[i].key \in Temporary => over'[i] = {i}
                      /\ node'[i].key \in Named => over'[i] = {}
                      /\ node'[i].key \in Unnamed =>
                           Operands(node', i) \subseteq held'
                           /\ \A m \in Operands(node', i) : over'[m] \subseteq over'[i]
    BY DEF HeldKnown
  <2>1. CASE i = n
    <3>1. node'[i].state = state /\ node'[i].key = key
      BY <1>2, <1>9, <2>1
    <3>2. over'[i] = CASE key \in Temporary -> {n}
                       [] key \in Unnamed -> UNION {over[ops[k]] : k \in DOMAIN ops}
                       [] OTHER -> {}
      BY <1>3, <1>6, <2>1
    <3>3. key \in Temporary => over'[i] = {i}
      <4>1. key \in Temporary => key \notin Unnamed
        BY DEF Temporary, Unnamed
      <4> QED
        BY <2>1, <3>2, <4>1
    <3>4. key \in Named => over'[i] = {}
      <4>1. key \in Named => key \notin Temporary \cup Unnamed
        BY NamesAssumption DEF Named, Temporary, Unnamed
      <4> QED
        BY <3>2, <4>1
    <3>5. ASSUME key \in Unnamed, NEW m \in Operands(node', i)
          PROVE  m \in held' /\ over'[m] \subseteq over'[i]
      <4>1. m \in O /\ m \in held /\ m \in Nodes \ {n}
        BY <1>3, <1>4, <1>10, <1>18, <2>1, <3>5
      <4>2. over'[m] = over[m]
        BY <1>21, <4>1
      <4>3. PICK k \in DOMAIN ops : m = ops[k]
        BY <1>8, <4>1
      <4>4. over'[i] = UNION {over[ops[j]] : j \in DOMAIN ops}
        <5>1. key \notin Temporary
          BY <3>5 DEF Temporary, Unnamed
        <5> QED
          BY <3>2, <3>5, <5>1
      <4> QED
        BY <1>6, <4>1, <4>2, <4>3, <4>4
    <3> QED
      BY <1>20, <3>1, <3>3, <3>4, <3>5
  <2>2. CASE i # n
    <3>1. i \in held /\ i \in Nodes \ {n} /\ node'[i] = node[i] /\ over'[i] = over[i]
          /\ Operands(node', i) = Operands(node, i)
      BY <1>3, <1>6, <1>9, <1>16, <1>21, <2>2
    <3>2. node[i].key \in Unnamed => \A m \in Operands(node, i) : m \in Nodes \ {n} /\ m \in held
      BY <1>3, <1>15, <3>1, OperandsAreNodes DEF IInv, HeldKnown
    <3> QED
      BY <1>6, <1>21, <3>1, <3>2 DEF IInv, HeldKnown
  <2> QED
    BY <2>1, <2>2
<1>30. ReplacingApart'
  BY <1>6, <1>12 DEF ReplacingApart
<1>31. ASSUME NEW r \in [Nodes -> Nat], Ranked(r)
       PROVE  (\E s \in [Nodes -> Nat] : Ranked(s))'
  <2>1. PICK b \in Nat : /\ key \in Unnamed => \A m \in O : r[m] < b
                         /\ key \notin Unnamed => b = 0
    <3>1. PICK c \in Nat : \A k \in DOMAIN ops : r[ops[k]] < c
      BY <1>4, RankAbove
    <3>2. \A m \in O : r[m] < c
      BY <1>8, <3>1
    <3> QED
      BY <3>2
  <2> DEFINE s == [r EXCEPT ![n] = b]
  <2>2. s \in [Nodes -> Nat] /\ s[n] = b /\ \A m \in Nodes \ {n} : s[m] = r[m]
    BY <2>1
  <2> HIDE DEF s
  <2>3. \A m \in Nodes : node'[m].key \in Named => s[m] = 0
    <3>1. key \in Named => key \notin Unnamed
      BY NamesAssumption DEF Named, Unnamed
    <3>2. \A m \in Nodes : node[m].key \in Named => r[m] = 0
      BY <1>31 DEF Ranked
    <3> QED
      BY <1>2, <1>9, <1>19, <2>1, <2>2, <3>1, <3>2
  <2>4. ASSUME NEW i \in Nodes, node'[i].state = "uniqued", node'[i].key \in Unnamed,
               NEW m \in Operands(node', i)
        PROVE  s[m] < s[i]
    <3>1. CASE i = n
      <4>1. m \in O /\ m \in Nodes \ {n} /\ key \in Unnamed
        BY <1>2, <1>3, <1>4, <1>9, <1>10, <1>18, <2>4, <3>1
      <4> QED
        BY <2>1, <2>2, <3>1, <4>1
    <3>2. CASE i # n
      <4>1. node[i] = node'[i] /\ m \in Operands(node, i) /\ m \in Nodes \ {n}
        BY <1>3, <1>9, <1>15, <1>16, <2>4, <3>2, OperandsAreNodes
      <4>2. r[m] < r[i]
        BY <1>31, <2>4, <4>1 DEF Ranked
      <4> QED
        BY <2>2, <3>2, <4>1, <4>2
    <3> QED
      BY <3>1, <3>2
  <2>5. Ranked(s)'
    BY <1>6, <1>12, <2>2, <2>3, <2>4 DEF Ranked
  <2> QED
    BY <2>2, <2>5
<1>32. ASSUME NEW d \in [Nodes -> Nat], Reached(d)
       PROVE  (\E e \in [Nodes -> Nat] : Reached(e))'
  <2>1. PICK b \in Nat : \A m \in O : d[m] < b
    <3>1. PICK c \in Nat : \A k \in DOMAIN ops : d[ops[k]] < c
      BY <1>4, RankAbove
    <3> QED
      BY <1>8, <3>1
  <2> DEFINE e == [d EXCEPT ![n] = b]
  <2>2. e \in [Nodes -> Nat] /\ e[n] = b /\ \A m \in Nodes \ {n} : e[m] = d[m]
    BY <2>1
  <2> HIDE DEF e
  <2>3. Remembered = tracked /\ Remembered' = tracked'
    BY <1>6, <1>12 DEF Remembered
  <2>4. ASSUME NEW i \in Nodes \ Remembered', node'[i].state = "uniqued", ~node'[i].resolved,
               NEW m \in Operands(node', i), ~node'[m].resolved
        PROVE  e[m] < e[i]
    <3>1. CASE i = n
      <4>1. m \in O /\ m \in Nodes \ {n}
        BY <1>3, <1>4, <1>10, <1>18, <2>4, <3>1
      <4> QED
        BY <2>1, <2>2, <3>1, <4>1
    <3>2. CASE i # n
      <4>1. node[i] = node'[i] /\ m \in Operands(node, i) /\ m \in Nodes \ {n}
            /\ i \in Nodes \ Remembered
        BY <1>3, <1>9, <1>15, <1>16, <1>22, <2>3, <2>4, <3>2, OperandsAreNodes
      <4>2. ~node[m].resolved
        BY <1>9, <2>4, <4>1
      <4>3. d[m] < d[i]
        BY <1>32, <2>4, <4>1, <4>2 DEF Reached
      <4> QED
        BY <2>2, <3>2, <4>1, <4>3
    <3> QED
      BY <3>1, <3>2
  <2>5. Reached(e)'
    BY <1>6, <1>12, <2>2, <2>4 DEF Reached
  <2> QED
    BY <2>2, <2>5
<1>33. (\E r \in [Nodes -> Nat] : Ranked(r))' /\ (\E d \in [Nodes -> Nat] : Reached(d))'
  <2>1. PICK r \in [Nodes -> Nat] : Ranked(r)
    BY DEF IInv
  <2>2. PICK d \in [Nodes -> Nat] : Reached(d)
    BY DEF IInv
  <2>3. (\E s \in [Nodes -> Nat] : Ranked(s))'
    BY <1>31, <2>1
  <2>4. (\E e \in [Nodes -> Nat] : Reached(e))'
    BY <1>32, <2>2
  <2> QED
    BY <2>3, <2>4
<1>34. CompositesTracked'
  <2> SUFFICES ASSUME NEW m \in Nodes
               PROVE  /\ node'[m].struct /\ node'[m].state = "uniqued" /\ ~node'[m].resolved => m \in tracked'
                      /\ node'[m].state = "temporary" /\ node'[m].key = "replaceable" => m \in tracked'
    BY DEF CompositesTracked
  <2>1. CASE m = n
    BY <1>1, <1>2, <1>9, <2>1
  <2>2. CASE m # n
    BY <1>9, <1>22, <2>2 DEF IInv, CompositesTracked
  <2> QED
    BY <2>1, <2>2
<1>35. FinalAtRest'
  BY <1>6 DEF FinalAtRest
<1> QED
  BY <1>23, <1>24, <1>25, <1>26, <1>27, <1>28, <1>29, <1>30, <1>33, <1>34, <1>35 DEF IInv

\* A node made before with the same contents is handed out again: what the
\* program knows of it can only be less than before.
LEMMA FoundPreserves ==
  ASSUME IInv, replacing = << >>, phase \in {"bare", "open"},
         NEW key \in Unnamed, NEW ops \in Seq(held), NEW track \in BOOLEAN,
         NEW m \in Nodes, node[m].state = "uniqued", node[m].key = key, node[m].ops = ops,
         tracked' = IF track /\ ~node[m].resolved THEN tracked \cup {m} ELSE tracked,
         Hand(m, key, ops), UNCHANGED node
  PROVE  IInv'
<1> DEFINE O == {ops[k] : k \in DOMAIN ops}
<1>1. /\ node \in [Nodes -> Node] /\ held \subseteq Nodes /\ tracked \subseteq Nodes
      /\ over \in [Nodes -> SUBSET Nodes]
  BY DEF IInv, TypeOK
<1>2. /\ held' = held \cup {m} /\ UNCHANGED <<phase, replacing>>
      /\ over' = [over EXCEPT ![m] = CASE key \in Temporary -> {m}
                                       [] key \in Unnamed -> UNION {over[ops[k]] : k \in DOMAIN ops}
                                       [] OTHER -> {}]
  BY DEF Hand
<1>3. \A k \in DOMAIN ops : ops[k] \in held
  BY ElementIn
<1>4. O \subseteq held /\ Operands(node, m) = O
  BY <1>3 DEF Operands
<1>5. \A o \in O : \E k \in DOMAIN ops : o = ops[k]
  OBVIOUS
<1>6. key \notin Temporary /\ key \notin Named
  BY NamesAssumption DEF Unnamed, Temporary, Named
<1>7. PICK v \in SUBSET Nodes : v = UNION {over[ops[k]] : k \in DOMAIN ops}
  <2>1. \A k \in DOMAIN ops : over[ops[k]] \subseteq Nodes
    BY <1>1, <1>3
  <2>2. UNION {over[ops[k]] : k \in DOMAIN ops} \in SUBSET Nodes
    BY <2>1
  <2> QED
    BY <2>2
<1>8. /\ over' = [over EXCEPT ![m] = v]
  BY <1>2, <1>6, <1>7
<1>9. over' \in [Nodes -> SUBSET Nodes] /\ over'[m] = v /\ \A n \in Nodes \ {m} : over'[n] = over[n]
  BY <1>1, <1>7, <1>8
<1>10. \A o \in O : over[o] \subseteq v
  BY <1>5, <1>7
<1>11. m \notin O
  <2>1. PICK r \in [Nodes -> Nat] : Ranked(r)
    BY DEF IInv
  <2>2. \A o \in O : r[o] < r[m]
    BY <1>4, <2>1 DEF Ranked
  <2>3. r[m] \in Nat
    BY <2>1
  <2> QED
    BY <2>2, <2>3
<1>12. m \in held => v \subseteq over[m]
  <2>1. m \in held => \A o \in O : over[o] \subseteq over[m]
    BY <1>4 DEF IInv, HeldKnown
  <2>2. \A k \in DOMAIN ops : ops[k] \in O
    OBVIOUS
  <2> HIDE DEF O
  <2> QED
    BY <1>7, <2>1, <2>2
<1> HIDE DEF O
<1>13. {replacing[i].old : i \in DOMAIN replacing} = {} /\ DOMAIN replacing = {}
  OBVIOUS
<1>14. tracked \subseteq tracked' /\ tracked' \subseteq tracked \cup {m} /\ m \in Live(node)
  BY DEF Live
<1>15. TypeOK'
  BY <1>1, <1>2, <1>9, <1>14 DEF IInv, TypeOK
<1>16. NoDanglingOperand'
  <2>1. \A n \in Live(node) : Operands(node, n) \subseteq Live(node)
    BY <1>13 DEF IInv, NoDanglingOperand
  <2>2. tracked \subseteq Live(node)
    BY <1>13 DEF IInv, NoDanglingOperand
  <2>3. Live(node') = Live(node) /\ \A n \in Nodes : Operands(node', n) = Operands(node, n)
    OBVIOUS
  <2>4. \A n \in Live(node') : Operands(node', n) \subseteq Live(node')
    BY <2>1
  <2>5. tracked' \subseteq Live(node')
    BY <1>14, <2>2
  <2> QED
    BY <2>4, <2>5 DEF NoDanglingOperand
<1>17. OneNodePerContents' /\ Shaped' /\ NamedOnce' /\ ResolvedDown'
  BY DEF IInv, OneNodePerContents, Shaped, NamedOnce, ResolvedDown
<1>18. HeldKnown'
  <2> SUFFICES ASSUME NEW n \in held'
               PROVE  /\ node[n].state \in {"temporary", "uniqued", "distinct"}
                      /\ node[n].key \in Temporary => over'[n] = {n}
                      /\ node[n].key \in Named => over'[n] = {}
                      /\ node[n].key \in Unnamed =>
                           Operands(node, n) \subseteq held'
                           /\ \A o \in Operands(node, n) : over'[o] \subseteq over'[n]
    BY DEF HeldKnown
  <2>1. CASE n = m
    <3>1. \A o \in O : o \in Nodes \ {m}
      BY <1>1, <1>4, <1>11
    <3> QED
      BY <1>2, <1>4, <1>6, <1>9, <1>10, <2>1, <3>1
  <2>2. CASE n # m
    <3>1. n \in held /\ over'[n] = over[n]
      BY <1>1, <1>2, <1>9, <2>2
    <3>2. ASSUME node[n].key \in Unnamed, NEW o \in Operands(node, n)
          PROVE  o \in held' /\ over'[o] \subseteq over'[n]
      <4>1. o \in held /\ over[o] \subseteq over[n]
        BY <3>1, <3>2 DEF IInv, HeldKnown
      <4>2. CASE o = m
        BY <1>2, <1>9, <1>12, <3>1, <4>1, <4>2
      <4>3. CASE o # m
        BY <1>1, <1>2, <1>9, <3>1, <4>1, <4>3
      <4> QED
        BY <4>2, <4>3
    <3> QED
      BY <3>1, <3>2 DEF IInv, HeldKnown
  <2> QED
    BY <2>1, <2>2
<1>19. ReplacingApart'
  BY <1>2, <1>13 DEF ReplacingApart
<1>20. (\E r \in [Nodes -> Nat] : Ranked(r))'
  <2>1. PICK r \in [Nodes -> Nat] : Ranked(r)
    BY DEF IInv
  <2>2. Ranked(r)'
    BY <1>2, <2>1 DEF Ranked
  <2> QED
    BY <2>2
<1>21. (\E d \in [Nodes -> Nat] : Reached(d))'
  <2>1. PICK d \in [Nodes -> Nat] : Reached(d)
    BY DEF IInv
  <2>2. Remembered \subseteq Remembered'
    BY <1>2, <1>13, <1>14 DEF Remembered
  <2>3. \A n \in Nodes \ Remembered' : n \in Nodes \ Remembered
    BY <2>2
  <2>4. Reached(d)'
    BY <1>2, <2>1, <2>3 DEF Reached
  <2> QED
    BY <2>4
<1>22. CompositesTracked' /\ FinalAtRest'
  BY <1>2, <1>14 DEF IInv, CompositesTracked, FinalAtRest
<1> QED
  BY <1>15, <1>16, <1>17, <1>18, <1>19, <1>20, <1>21, <1>22 DEF IInv

\* Get either finds the node with these contents or makes it.
LEMMA GetPreserves ==
  ASSUME IInv, replacing = << >>, phase \in {"bare", "open"},
         NEW key \in Unnamed, NEW ops \in Seq(held), NEW track \in BOOLEAN, Len(ops) <= 2,
         Get(key, ops, track)
  PROVE  IInv'
<1> DEFINE same == {m \in Nodes : node[m].state = "uniqued" /\ node[m].key = key
                                  /\ node[m].ops = ops}
<1>1. CASE same = {} /\ Make("uniqued", key, FALSE, ops, track)
  <2>1. key \notin Names /\ key # "replaceable"
    BY NamesAssumption DEF Unnamed
  <2>2. \A m \in Nodes : node[m].state = "uniqued" /\ node[m].key = key => node[m].ops # ops
    BY <1>1
  <2> QED
    BY <1>1, <2>1, <2>2, MakePreserves
<1>2. ASSUME NEW m \in same,
             tracked' = IF track /\ ~node[m].resolved THEN tracked \cup {m} ELSE tracked,
             Hand(m, key, ops), UNCHANGED node
      PROVE  IInv'
  <2>1. m \in Nodes /\ node[m].state = "uniqued" /\ node[m].key = key /\ node[m].ops = ops
    OBVIOUS
  <2> QED
    BY <1>2, <2>1, FoundPreserves
<1> QED
  BY <1>1, <1>2 DEF Get

\* The Create methods hold what they are passed.
LEMMA CreatePreserves ==
  ASSUME IInv, replacing = << >>, Create
  PROVE  IInv'
<1>1. phase \in {"bare", "open"}
  BY DEF Create
<1>2. << >> \in Seq(held) /\ Len(<< >>) <= 2
  OBVIOUS
<1>3. "replaceable" \notin Names /\ "function" \notin Names /\ "tuple" \notin Names
  BY NamesAssumption DEF Temporary
<1>4. CASE CreateBasicType
  BY <1>1, <1>2, <1>4, GetPreserves DEF CreateBasicType, Unnamed
<1>5. CASE CreateReplaceableCompositeType
  <2>1. Make("temporary", "replaceable", FALSE, << >>, TRUE)
    BY <1>5 DEF CreateReplaceableCompositeType
  <2> QED
    BY <1>1, <1>2, <1>3, <2>1, MakePreserves DEF Temporary
<1>6. ASSUME NEW mds \in Seq(held), Len(mds) <= 2, TemporaryMDNode(mds)
      PROVE  IInv'
  <2>1. Make("temporary", "tuple", FALSE, mds, FALSE)
    BY <1>6 DEF TemporaryMDNode
  <2> QED
    BY <1>1, <1>3, <1>6, <2>1, MakePreserves DEF Temporary
<1>7. ASSUME NEW t \in held
      PROVE  /\ CreatePointerType(t) \/ CreateSubroutineType(t) \/ CreateArrayType(t) => IInv'
             /\ CreateFunctionNode(t) => IInv'
             /\ \A scope \in held : CreateMemberType(scope, t) \/ CreateVariable(scope, t) => IInv'
             /\ \A name \in Names : CreateTypedef(name, t) => IInv'
  <2> DEFINE ops == <<t>>
  <2>1. ops \in Seq(held) /\ Len(ops) <= 2
    OBVIOUS
  <2>2. /\ CreatePointerType(t) => Get("pointer", ops, FALSE)
        /\ CreateSubroutineType(t) => Get("subroutine", ops, FALSE)
        /\ CreateArrayType(t) => Get("array", ops, TRUE)
        /\ CreateFunctionNode(t) => Make("distinct", "function", FALSE, ops, TRUE)
        /\ \A name \in Names : CreateTypedef(name, t) =>
             IsFresh(name) /\ Make("uniqued", name, FALSE, ops, FALSE)
    BY DEF CreatePointerType, CreateSubroutineType, CreateArrayType, CreateFunctionNode, CreateTypedef
  <2> HIDE DEF ops
  <2>3. CreatePointerType(t) \/ CreateSubroutineType(t) \/ CreateArrayType(t) => IInv'
    BY <1>1, <2>1, <2>2, GetPreserves DEF Unnamed
  <2>4. CreateFunctionNode(t) => IInv'
    BY <1>1, <1>3, <2>1, <2>2, MakePreserves
  <2>5. ASSUME NEW scope \in held, CreateMemberType(scope, t) \/ CreateVariable(scope, t)
        PROVE  IInv'
    <3> DEFINE both == <<scope, t>>
    <3>1. both \in Seq(held) /\ Len(both) <= 2
      OBVIOUS
    <3>2. Get("member", both, FALSE) \/ Get("variable", both, FALSE)
      BY <2>5 DEF CreateMemberType, CreateVariable
    <3> HIDE DEF both
    <3> QED
      BY <1>1, <3>1, <3>2, GetPreserves DEF Unnamed
  <2>6. ASSUME NEW name \in Names, CreateTypedef(name, t)
        PROVE  IInv'
    <3>1. IsFresh(name) /\ Make("uniqued", name, FALSE, ops, FALSE)
      BY <2>2, <2>6
    <3>2. name # "replaceable" /\ \A m \in Nodes : node[m].key # name
      BY <1>3, <3>1 DEF IsFresh
    <3> QED
      BY <1>1, <2>1, <3>1, <3>2, MakePreserves
  <2> QED
    BY <2>3, <2>4, <2>5, <2>6
<1>8. ASSUME NEW m \in held, NEW name \in Names, CreateStructType(name, <<m>>)
      PROVE  IInv'
  <2> DEFINE ops == <<m>>
  <2>1. ops \in Seq(held) /\ Len(ops) <= 2
    OBVIOUS
  <2>2. IsFresh(name) /\ Make("uniqued", name, TRUE, ops, TRUE)
    BY <1>8 DEF CreateStructType
  <2>3. \A n \in Nodes : node[n].key # name
    BY <2>2 DEF IsFresh
  <2> HIDE DEF ops
  <2> QED
    BY <1>1, <2>1, <2>2, <2>3, MakePreserves
<1>9. Types \subseteq held /\ MemberScopes \subseteq held
      /\ Holds({"function"}) \subseteq held /\ Elements \subseteq held
  BY DEF Types, MemberScopes, Elements, Holds
<1>10. CASE TemporaryMDNode(<< >>)
  BY <1>2, <1>6, <1>10
<1>11. ASSUME NEW n \in held, TemporaryMDNode(<<n>>)
       PROVE  IInv'
  <2> DEFINE mds == <<n>>
  <2>1. mds \in Seq(held) /\ Len(mds) <= 2
    OBVIOUS
  <2>2. TemporaryMDNode(mds)
    BY <1>11
  <2> HIDE DEF mds
  <2> QED
    BY <1>6, <2>1, <2>2
<1> QED
  BY <1>4, <1>5, <1>7, <1>8, <1>9, <1>10, <1>11 DEF Create

-----------------------------------------------------------------------------
(* The end.                                                                *)

Below == {p \in Nat \X Nat : p[1] < p[2]}

\* A set of numbers that is not empty has a least one.
LEMMA Least ==
  ASSUME NEW T \in SUBSET Nat, T # {}
  PROVE  \E n \in T : \A m \in T : n <= m
<1>1. IsWellFoundedOn(OpToRel(<, Nat), Nat)
  BY NatLessThanWellFounded
<1>2. OpToRel(<, Nat) = Below
  BY DEF OpToRel, Below
<1>3. IsWellFoundedOn(Below, Nat)
  BY <1>1, <1>2
<1>4. PICK n \in T : \A m \in T : <<m, n>> \notin Below
  BY <1>3, WFMin
<1>5. ASSUME NEW m \in T
      PROVE  n <= m
  <2>1. m \in Nat /\ n \in Nat /\ <<m, n>> \notin Below
    BY <1>4
  <2>2. ~ (m < n)
    BY <2>1 DEF Below
  <2> QED
    BY <2>1, <2>2
<1> QED
  BY <1>5

\* Of nodes that each have one of lesser rank among them there are none.
LEMMA NoneDescends ==
  ASSUME NEW d \in [Nodes -> Nat], NEW B \in SUBSET Nodes,
         \A n \in B : \E m \in B : d[m] < d[n]
  PROVE  B = {}
<1> SUFFICES ASSUME B # {}
             PROVE  FALSE
  OBVIOUS
<1>1. {d[n] : n \in B} \in SUBSET Nat /\ {d[n] : n \in B} # {}
  OBVIOUS
<1>2. PICK b \in {d[n] : n \in B} : \A c \in {d[n] : n \in B} : b <= c
  BY <1>1, Least
<1>3. PICK n \in B : b = d[n]
  OBVIOUS
<1>4. PICK m \in B : d[m] < d[n]
  OBVIOUS
<1>5. b <= d[m] /\ d[m] \in Nat /\ d[n] \in Nat
  BY <1>2
<1> QED
  BY <1>3, <1>4, <1>5

\* Finalize resolves what is remembered and, as every cycle of unresolved nodes
\* has one of these, all.
LEMMA FinalizePreserves ==
  ASSUME IInv, replacing = << >>, Finalize
  PROVE  IInv'
<1> DEFINE T == {n \in tracked : ~node[n].resolved}
           S == Unresolved(node, T)
           h == [n \in Nodes |-> [node[n] EXCEPT !.resolved = @ \/ n \in S]]
<1>1. /\ \A n \in Nodes : node[n].state # "temporary"
      /\ node' = Settled(h)
      /\ tracked' = {} /\ phase' = "final" /\ UNCHANGED <<held, over, replacing>>
  BY DEF Finalize
<1>2. node \in [Nodes -> Node] /\ tracked \subseteq Nodes
  BY DEF IInv, TypeOK
<1>3. T \subseteq S
  BY <1>2 DEF Unresolved
<1> HIDE DEF S
<1>4. \A n \in Nodes : /\ h[n] \in Node
                       /\ h[n].state = node[n].state /\ h[n].key = node[n].key
                       /\ h[n].struct = node[n].struct /\ h[n].ops = node[n].ops
                       /\ h[n].resolved = (node[n].resolved \/ n \in S)
  <2> SUFFICES ASSUME NEW n \in Nodes
               PROVE  /\ h[n] \in Node
                      /\ h[n].state = node[n].state /\ h[n].key = node[n].key
                      /\ h[n].struct = node[n].struct /\ h[n].ops = node[n].ops
                      /\ h[n].resolved = (node[n].resolved \/ n \in S)
    OBVIOUS
  <2>1. node[n] \in Node /\ h[n] = [node[n] EXCEPT !.resolved = @ \/ n \in S]
    BY <1>2
  <2> HIDE DEF h
  <2> QED
    BY <2>1 DEF Node
<1>5. h \in [Nodes -> Node]
  BY <1>4
<1> HIDE DEF h, T
<1>6. \A n \in Nodes : Operands(h, n) = Operands(node, n)
  BY <1>4 DEF Operands
<1>7. /\ node' \in [Nodes -> Node]
      /\ \A n \in Nodes :
           /\ node'[n].state = h[n].state /\ node'[n].key = h[n].key
           /\ node'[n].struct = h[n].struct /\ node'[n].ops = h[n].ops
           /\ Operands(node', n) = Operands(h, n)
           /\ h[n].resolved => node'[n].resolved
           /\ ~node'[n].resolved /\ h[n].state = "uniqued" =>
                \E m \in Operands(h, n) : ~node'[m].resolved
  BY <1>1, <1>5, SettledResolves
<1>8. \A n \in Nodes :
        /\ node'[n].state = node[n].state /\ node'[n].key = node[n].key
        /\ node'[n].struct = node[n].struct /\ node'[n].ops = node[n].ops
        /\ Operands(node', n) = Operands(node, n)
        /\ node[n].resolved \/ n \in S => node'[n].resolved
        /\ ~node'[n].resolved /\ node[n].state = "uniqued" =>
             \E m \in Operands(node, n) : ~node'[m].resolved
  <2> SUFFICES ASSUME NEW n \in Nodes
               PROVE  /\ node'[n].state = node[n].state /\ node'[n].key = node[n].key
                      /\ node'[n].struct = node[n].struct /\ node'[n].ops = node[n].ops
                      /\ Operands(node', n) = Operands(node, n)
                      /\ node[n].resolved \/ n \in S => node'[n].resolved
                      /\ ~node'[n].resolved /\ node[n].state = "uniqued" =>
                           \E m \in Operands(node, n) : ~node'[m].resolved
    OBVIOUS
  <2>1. /\ node'[n].state = node[n].state /\ node'[n].key = node[n].key
        /\ node'[n].struct = node[n].struct /\ node'[n].ops = node[n].ops
    BY <1>4, <1>7
  <2>2. Operands(node', n) = Operands(node, n)
    BY <1>6, <1>7
  <2>3. node[n].resolved \/ n \in S => node'[n].resolved
    BY <1>4, <1>7
  <2>4. ~node'[n].resolved /\ node[n].state = "uniqued" =>
          \E m \in Operands(node, n) : ~node'[m].resolved
    BY <1>4, <1>6, <1>7
  <2> QED
    BY <2>1, <2>2, <2>3, <2>4
<1>9. {replacing[i].old : i \in DOMAIN replacing} = {} /\ DOMAIN replacing = {}
  OBVIOUS
<1>10. Live(node') = Live(node) /\ \A n \in Live(node) : Operands(node, n) \subseteq Live(node)
  BY <1>8, <1>9 DEF IInv, NoDanglingOperand, Live
<1>11. \A n \in Live(node) : node'[n].resolved
  <2> DEFINE B == {n \in Live(node) : ~node'[n].resolved}
  <2>1. PICK d \in [Nodes -> Nat] : Reached(d)
    BY DEF IInv
  <2>2. Remembered = tracked
    BY <1>9 DEF Remembered
  <2>3. ASSUME NEW n \in B
        PROVE  \E m \in B : d[m] < d[n]
    <3>1. n \in Nodes /\ ~node[n].resolved /\ n \notin S /\ n \in Live(node)
      BY <1>8 DEF Live
    <3>2. n \notin tracked
      BY <1>3, <3>1 DEF T
    <3>3. node[n].state = "uniqued"
      BY <1>1, <3>1 DEF IInv, Shaped, Live
    <3>4. PICK m \in Operands(node, n) : ~node'[m].resolved
      BY <1>8, <3>1, <3>3
    <3>5. m \in Live(node) /\ m \in Nodes
      BY <1>10, <3>1 DEF Live
    <3>6. ~node[m].resolved
      BY <1>8, <3>4, <3>5
    <3>7. d[m] < d[n]
      BY <2>1, <2>2, <3>1, <3>2, <3>3, <3>4, <3>6 DEF Reached
    <3> QED
      BY <3>4, <3>5, <3>7
  <2>4. B \in SUBSET Nodes
    BY DEF Live
  <2>5. B = {}
    BY <2>1, <2>3, <2>4, NoneDescends
  <2> QED
    BY <2>5
<1>12. \A n \in Nodes : node'[n].state = "uniqued" => node'[n].resolved /\ node'[n].state # "temporary"
  BY <1>8, <1>11 DEF Live
<1>13. TypeOK'
  BY <1>1, <1>7 DEF IInv, TypeOK
<1>14. NoDanglingOperand'
  <2>1. \A n \in Live(node') : Operands(node', n) \subseteq Live(node')
    BY <1>8, <1>10 DEF Live
  <2>2. tracked' \subseteq Live(node')
    BY <1>1
  <2> QED
    BY <2>1, <2>2 DEF NoDanglingOperand
<1>15. OneNodePerContents'
  <2>1. \A n \in Nodes : Twins(node', n) = Twins(node, n)
    BY <1>8 DEF Twins
  <2> QED
    BY <1>8, <2>1 DEF IInv, OneNodePerContents
<1>16. Shaped'
  <2> SUFFICES ASSUME NEW n \in Nodes
               PROVE  /\ node'[n].state \notin {"uniqued", "distinct", "temporary"} => node'[n].ops = << >>
                      /\ node'[n].state \in {"free", "distinct", "deleted"} => node'[n].resolved
                      /\ node'[n].state = "temporary" => ~node'[n].resolved
                      /\ node'[n].state = "temporary" => node'[n].key \in Temporary
                      /\ node'[n].state = "uniqued" => node'[n].key \in Unnamed \cup Names
                      /\ node'[n].state = "distinct" => node'[n].key \in Named
                      /\ node'[n].struct => node'[n].key \in Names
    BY DEF Shaped
  <2> QED
    BY <1>1, <1>8 DEF IInv, Shaped
<1>17. NamedOnce'
  BY <1>8 DEF IInv, NamedOnce
<1>18. ResolvedDown'
  <2>1. \A n \in Nodes : node'[n].state = "uniqued" => n \in Live(node)
    BY <1>8 DEF Live
  <2>2. \A n \in Live(node) : n \in Nodes
    BY DEF Live
  <2> QED
    BY <1>8, <1>10, <1>11, <2>1, <2>2 DEF ResolvedDown
<1>19. HeldKnown'
  <2>1. \A n \in held : n \in Nodes
    BY DEF IInv, TypeOK
  <2> QED
    BY <1>1, <1>8, <2>1 DEF IInv, HeldKnown
<1>20. ReplacingApart'
  BY <1>1, <1>9 DEF ReplacingApart
<1>21. (\E r \in [Nodes -> Nat] : Ranked(r))'
  <2>1. PICK r \in [Nodes -> Nat] : Ranked(r)
    BY DEF IInv
  <2>2. Ranked(r)'
    BY <1>1, <1>8, <1>9, <2>1 DEF Ranked
  <2> QED
    BY <2>2
<1>22. (\E d \in [Nodes -> Nat] : Reached(d))'
  <2>1. PICK d \in [Nodes -> Nat] : Reached(d)
    BY DEF IInv
  <2>2. Reached(d)'
    BY <1>1, <1>9, <1>12, <2>1 DEF Reached
  <2> QED
    BY <2>2
<1>23. CompositesTracked'
  BY <1>1, <1>8, <1>12 DEF CompositesTracked
<1>24. FinalAtRest'
  BY <1>1, <1>10, <1>11 DEF FinalAtRest
<1> QED
  BY <1>13, <1>14, <1>15, <1>16, <1>17, <1>18, <1>19, <1>20, <1>21, <1>22, <1>23, <1>24 DEF IInv

\* A step that leaves all but the phase of the builder as it is.
LEMMA RestPreserves ==
  ASSUME IInv, UNCHANGED <<node, tracked, held, over, replacing>>,
         \/ phase' = phase
         \/ phase = "bare" /\ phase' = "open"
         \/ phase \notin {"bare", "open"} /\ phase' = "destroyed"
  PROVE  IInv'
<1>1. /\ TypeOK' /\ NoDanglingOperand' /\ OneNodePerContents'
      /\ Shaped' /\ NamedOnce' /\ ResolvedDown' /\ HeldKnown' /\ ReplacingApart'
      /\ CompositesTracked'
  BY DEF IInv, TypeOK, NoDanglingOperand, OneNodePerContents, Shaped, NamedOnce, ResolvedDown,
         HeldKnown, ReplacingApart, CompositesTracked
<1>2. (\E r \in [Nodes -> Nat] : Ranked(r))' /\ (\E d \in [Nodes -> Nat] : Reached(d))'
  BY DEF IInv, Ranked, Reached, Remembered
<1>3. FinalAtRest'
  BY DEF IInv, FinalAtRest, Live
<1> QED
  BY <1>1, <1>2, <1>3 DEF IInv

-----------------------------------------------------------------------------
(* The invariant, and what follows.                                        *)

\* At first there are no nodes.
LEMMA InitIInv == Init => IInv
<1> SUFFICES ASSUME Init
             PROVE  IInv
  OBVIOUS
<1>1. /\ node = [n \in Nodes |-> Free]
      /\ tracked = {} /\ phase = "bare"
      /\ held = {} /\ over = [n \in Nodes |-> {}]
      /\ replacing = << >>
  BY DEF Init
<1>2. /\ Free \in Node /\ Free.state = "free" /\ Free.key = "none" /\ Free.ops = << >>
      /\ Free.resolved /\ ~Free.struct
  BY DEF Free, Node, Keys
<1>3. /\ node \in [Nodes -> Node]
      /\ \A n \in Nodes : /\ node[n].state = "free" /\ node[n].key = "none"
                          /\ node[n].ops = << >> /\ node[n].resolved /\ ~node[n].struct
  BY <1>1, <1>2
<1>4. Live(node) = {} /\ DOMAIN replacing = {}
  BY <1>1, <1>3 DEF Live
<1>5. "none" \notin Names /\ "none" \notin Named
  BY NamesAssumption DEF Named
<1>6. TypeOK
  BY <1>1, <1>3 DEF TypeOK
<1>7. NoDanglingOperand /\ OneNodePerContents /\ Shaped /\ NamedOnce /\ ResolvedDown
      /\ HeldKnown /\ ReplacingApart /\ CompositesTracked /\ FinalAtRest
  BY <1>1, <1>3, <1>4, <1>5
     DEF NoDanglingOperand, OneNodePerContents, Shaped, NamedOnce, ResolvedDown,
         HeldKnown, ReplacingApart, CompositesTracked, FinalAtRest
<1>8. \E r \in [Nodes -> Nat] : Ranked(r)
  <2> DEFINE r == [n \in Nodes |-> 0]
  <2>1. r \in [Nodes -> Nat] /\ \A n \in Nodes : r[n] = 0
    OBVIOUS
  <2> HIDE DEF r
  <2>2. Ranked(r)
    BY <1>3, <1>4, <2>1 DEF Ranked
  <2> QED
    BY <2>1, <2>2
<1>9. \E d \in [Nodes -> Nat] : Reached(d)
  <2> DEFINE d == [n \in Nodes |-> 0]
  <2>1. d \in [Nodes -> Nat]
    OBVIOUS
  <2> HIDE DEF d
  <2>2. Reached(d)
    BY <1>3, <1>4, <2>1 DEF Reached
  <2> QED
    BY <2>1, <2>2
<1> QED
  BY <1>6, <1>7, <1>8, <1>9 DEF IInv

\* Every call and every step of a replacement preserves the invariant.
LEMMA NextIInv == IInv /\ [Next]_vars => IInv'
<1> SUFFICES ASSUME IInv, [Next]_vars
             PROVE  IInv'
  OBVIOUS
<1>1. CASE Call
  <2>1. replacing = << >>
    BY <1>1 DEF Call
  <2>2. CASE Create
    BY <2>1, <2>2, CreatePreserves
  <2>3. ASSUME NEW t \in held, NEW new \in held, Replaces(t, new), ReplaceAllUsesWith(t, new)
        PROVE  IInv'
    BY <2>1, <2>3, ReplacePreserves
  <2>4. CASE Finalize
    BY <2>1, <2>4, FinalizePreserves
  <2>5. CASE Destroy
    <3>1. phase \notin {"bare", "open"} /\ phase' = "destroyed" /\ UNCHANGED <<node, tracked, held, over, replacing>>
      BY <2>5 DEF Destroy
    <3> QED
      BY <3>1, RestPreserves
  <2>6. CASE CreateUnit
    <3>1. phase = "bare" /\ phase' = "open" /\ UNCHANGED <<node, tracked, held, over, replacing>>
      BY <2>6 DEF CreateUnit
    <3> QED
      BY <3>1, RestPreserves
  <2>7. CASE FinalizeNothing
    BY <2>7, RestPreserves DEF FinalizeNothing, vars
  <2> QED
    BY <1>1, <2>2, <2>3, <2>4, <2>5, <2>6, <2>7 DEF Call
<1>2. CASE ReplaceUse
  BY <1>2, ReplaceUsePreserves
<1>3. CASE EndReplace
  BY <1>3, EndReplacePreserves
<1>4. CASE UNCHANGED vars
  BY <1>4, RestPreserves DEF vars
<1> QED
  BY <1>1, <1>2, <1>3, <1>4 DEF Next

\* IInv holds in every state the program reaches.
LEMMA Invariance == Spec => []IInv
<1> QED
  BY InitIInv, NextIInv, PTL DEF Spec

\* The variables have their types, whatever the nodes and their contents.
THEOREM TypeCorrect == Spec => []TypeOK
<1>1. IInv => TypeOK
  BY DEF IInv
<1> QED
  BY <1>1, Invariance, PTL

\* A program that drops what it built over a temporary when it replaces it
\* (dibuilder.go:619) holds no node that leaves or is deleted: not even while
\* the replacement goes on and nodes it holds give way to equal ones.
THEOREM HandlesStayAlive == Spec => []HandlesAlive
<1>1. IInv => HandlesAlive
  BY DEF IInv, TypeOK, HeldKnown, HandlesAlive, Live
<1> QED
  BY <1>1, Invariance, PTL

\* No node refers to a deleted one, nor does the builder remember one, at any
\* step of a replacement (dibuilder.go:619).
THEOREM NothingDangles == Spec => []NoDanglingOperand
<1>1. IInv => NoDanglingOperand
  BY DEF IInv
<1> QED
  BY <1>1, Invariance, PTL

\* Equal contents have one node, so that a handle that a Create method returns
\* twice is the same type, at any step of a replacement (dibuilder.go:619).
THEOREM ContentsHaveOneNode == Spec => []OneNodePerContents
<1>1. IInv => OneNodePerContents
  BY DEF IInv
<1> QED
  BY <1>1, Invariance, PTL

\* Finalize of a builder with a compile unit leaves nothing unresolved, though
\* it starts only from what the builder remembers (dibuilder.go:107).
THEOREM AllResolved == Spec => []FinalizedResolved
<1>1. IInv => FinalizedResolved
  BY DEF IInv, FinalAtRest, FinalizedResolved
<1> QED
  BY <1>1, Invariance, PTL

-----------------------------------------------------------------------------
(***************************************************************************)
(* DebugScopes, for any number of functions, subprograms and lexical       *)
(* blocks.  Its invariants are about instructions that are placed; what is *)
(* inductive is about every instruction that was made, wherever it is or   *)
(* was last, and about the locations the program may still use: the        *)
(* builder's while it is trusted, and the saved one.                       *)
(***************************************************************************)
\* An instruction that the program has made.
Made(i) == kind[i] # "free"

\* What an instruction says suits the function it is in or was removed from.
SaysRight(i) ==
  /\ home[i] \in Functions /\ Fits(loc[i], home[i])
  /\ MaySay(kind[i], home[i], about[i], loc[i])

AllSayRight == \A i \in Insts : Made(i) => SaysRight(i)

PlacedMade == \A i \in placed : Made(i)

TrustedFits == trusted => function \in Functions /\ Fits(location, function)

SavedFits ==
  saved.function # None =>
    saved.function \in Functions /\ Fits(saved.location, saved.function)

ScopesInv == ScopesTypeOK /\ AllSayRight /\ PlacedMade /\ TrustedFits /\ SavedFits

\* The inductive invariant has the two properties.
LEMMA ScopesInvImplies == ScopesInv => LocationsInFunction /\ CallsLocated
  BY DEF ScopesInv, ScopesTypeOK, AllSayRight, PlacedMade, Made, SaysRight, Fits, MaySay,
         LocationsInFunction, CallsLocated

LEMMA ScopesInitially == ScopesInit => ScopesInv
<1> SUFFICES ASSUME ScopesInit PROVE ScopesInv
  OBVIOUS
<1>1. ScopesTypeOK
  BY DEF ScopesInit, ScopesTypeOK
<1>2. AllSayRight /\ PlacedMade /\ TrustedFits /\ SavedFits
  BY DEF ScopesInit, AllSayRight, PlacedMade, TrustedFits, SavedFits, Made
<1> QED
  BY <1>1, <1>2 DEF ScopesInv

-----------------------------------------------------------------------------
(* What steps keep: scopes stay in the subprogram they were made in, and a *)
(* function keeps its subprogram.                                          *)

\* The parts about locations are kept by a step that makes a scope.
LEMMA NewScopeKeeps ==
  ASSUME ScopesInv,
         \A s \in Scopes : owner[s] # None => owner'[s] = owner[s],
         UNCHANGED <<attached, builder, saved, insts>>
  PROVE  (AllSayRight /\ PlacedMade /\ TrustedFits /\ SavedFits)'
<1> USE DEF ScopesInv, ScopesTypeOK, builder, insts
<1>1. AllSayRight'
  <2> SUFFICES ASSUME NEW i \in Insts, Made(i) PROVE SaysRight(i)'
    BY DEF AllSayRight, Made
  <2>1. SaysRight(i) /\ loc[i] \in Locations \cup {None}
    BY DEF AllSayRight
  <2>2. Fits(loc[i], home[i])'
        /\ (loc[i] # None => Subprogram(loc[i])' = Subprogram(loc[i]))
    BY <2>1 DEF SaysRight, Fits, Known, InlinedInto, Subprogram, Locations
  <2> QED
    BY <2>1, <2>2 DEF SaysRight, MaySay
<1>2. PlacedMade'
  BY DEF PlacedMade, Made
<1>3. TrustedFits'
  BY DEF TrustedFits, Fits, Known, InlinedInto, Locations
<1>4. SavedFits'
  BY DEF SavedFits, Fits, Known, InlinedInto, Locations
<1> QED
  BY <1>1, <1>2, <1>3, <1>4

LEMMA CreateCompileUnitPreserves == ScopesInv /\ CreateCompileUnit => ScopesInv'
<1> SUFFICES ASSUME ScopesInv, CreateCompileUnit PROVE ScopesInv'
  OBVIOUS
<1>1. ScopesTypeOK'
  BY DEF ScopesInv, ScopesTypeOK, CreateCompileUnit, builder, insts
<1>2. (AllSayRight /\ PlacedMade /\ TrustedFits /\ SavedFits)'
  BY NewScopeKeeps DEF CreateCompileUnit
<1> QED
  BY <1>1, <1>2 DEF ScopesInv

LEMMA CreateFunctionPreserves ==
  ASSUME ScopesInv, NEW s \in Subprograms, CreateFunction(s) PROVE ScopesInv'
<1>1. ScopesTypeOK'
  BY DEF ScopesInv, ScopesTypeOK, CreateFunction, builder, insts, Scopes
<1>2. (AllSayRight /\ PlacedMade /\ TrustedFits /\ SavedFits)'
  BY NewScopeKeeps DEF CreateFunction, ScopesInv, ScopesTypeOK
<1> QED
  BY <1>1, <1>2 DEF ScopesInv

LEMMA CreateLexicalBlockPreserves ==
  ASSUME ScopesInv, NEW b \in LexicalBlocks, NEW scope \in Scopes, CreateLexicalBlock(b,
         scope)
  PROVE  ScopesInv'
<1>1. ScopesTypeOK'
  BY DEF ScopesInv, ScopesTypeOK, CreateLexicalBlock, builder, insts, Scopes
<1>2. (AllSayRight /\ PlacedMade /\ TrustedFits /\ SavedFits)'
  BY NewScopeKeeps DEF CreateLexicalBlock, ScopesInv, ScopesTypeOK
<1> QED
  BY <1>1, <1>2 DEF ScopesInv

\* The locations the builder has or the program saved for f are none: f had no
\* subprogram.
LEMMA SetSubprogramPreserves ==
  ASSUME ScopesInv, NEW f \in Functions, NEW s \in Scopes, SetSubprogram(f,
         s) PROVE ScopesInv'
<1> USE DEF ScopesInv, ScopesTypeOK, SetSubprogram, builder, insts
<1>1. ScopesTypeOK'
  OBVIOUS
<1>2. AllSayRight'
  BY DEF AllSayRight, Made, SaysRight, Untouched, Fits, Known, InlinedInto,
         MaySay, Subprogram
<1>3. PlacedMade'
  BY DEF PlacedMade, Made
<1>4. TrustedFits'
  BY DEF TrustedFits, Fits, Known, InlinedInto
<1>5. SavedFits'
  BY DEF SavedFits, Fits, Known, InlinedInto
<1> QED
  BY <1>1, <1>2, <1>3, <1>4, <1>5

-----------------------------------------------------------------------------
(* The builder moves, and instructions stay as they are.                   *)

\* Nothing is said anew.
LEMMA SayingsStay ==
  ASSUME ScopesInv, UNCHANGED <<owner, attached, insts>>
  PROVE  AllSayRight' /\ PlacedMade'
  BY DEF ScopesInv, AllSayRight, PlacedMade, Made, SaysRight, Fits, Known, InlinedInto,
         MaySay, Subprogram, insts

LEMMA SetInsertPointAtEndPreserves ==
  ASSUME ScopesInv, NEW f \in Functions, SetInsertPointAtEnd(f) PROVE ScopesInv'
<1> USE DEF ScopesInv, SetInsertPointAtEnd
<1>1. ScopesTypeOK'
  BY DEF ScopesTypeOK, insts
<1>2. AllSayRight' /\ PlacedMade'
  BY SayingsStay
<1>3. TrustedFits'
  BY DEF TrustedFits, Fits, Known, InlinedInto
<1>4. SavedFits'
  BY DEF SavedFits, Fits, Known, InlinedInto
<1> QED
  BY <1>1, <1>2, <1>3, <1>4

LEMMA SetInsertPointBeforePreserves ==
  ASSUME ScopesInv, NEW i \in Insts, SetInsertPointBefore(i) PROVE ScopesInv'
<1> USE DEF ScopesInv, SetInsertPointBefore
<1>1. ScopesTypeOK'
  BY DEF ScopesTypeOK, insts
<1>2. AllSayRight' /\ PlacedMade'
  BY SayingsStay
<1>3. TrustedFits'
  BY DEF TrustedFits, PlacedMade, AllSayRight, SaysRight, Fits, Known, InlinedInto
<1>4. SavedFits'
  BY DEF SavedFits, Fits, Known, InlinedInto
<1> QED
  BY <1>1, <1>2, <1>3, <1>4

LEMMA SetCurrentDebugLocationPreserves ==
  ASSUME ScopesInv, NEW l \in Locations \cup {None},
         SetCurrentDebugLocation(l) PROVE ScopesInv'
<1> USE DEF ScopesInv, SetCurrentDebugLocation
<1>1. ScopesTypeOK'
  BY DEF ScopesTypeOK, insts
<1>2. AllSayRight' /\ PlacedMade'
  BY SayingsStay
<1>3. TrustedFits'
  BY DEF ScopesTypeOK, TrustedFits, Fits, Known, InlinedInto
<1>4. SavedFits'
  BY DEF SavedFits, Fits, Known, InlinedInto
<1> QED
  BY <1>1, <1>2, <1>3, <1>4

LEMMA GetCurrentDebugLocationPreserves == ScopesInv /\ GetCurrentDebugLocation => ScopesInv'
<1> SUFFICES ASSUME ScopesInv, GetCurrentDebugLocation PROVE ScopesInv'
  OBVIOUS
<1> USE DEF ScopesInv, GetCurrentDebugLocation, builder
<1>1. location \in Locations /\ location.caller = None
  BY DEF ScopesTypeOK, MayKeep
<1>2. ScopesTypeOK'
  BY <1>1 DEF ScopesTypeOK, insts, Locations
<1>3. AllSayRight' /\ PlacedMade'
  BY SayingsStay
<1>4. TrustedFits'
  BY DEF TrustedFits, Fits, Known, InlinedInto
<1>5. SavedFits'
  BY <1>1 DEF SavedFits, TrustedFits, Fits, Known, InlinedInto, Locations
<1> QED
  BY <1>2, <1>3, <1>4, <1>5

LEMMA ReturnPreserves == ScopesInv /\ Return => ScopesInv'
<1> SUFFICES ASSUME ScopesInv, Return PROVE ScopesInv'
  OBVIOUS
<1> USE DEF ScopesInv, Return
<1>1. ScopesTypeOK'
  BY DEF ScopesTypeOK, insts
<1>2. AllSayRight' /\ PlacedMade'
  BY SayingsStay
<1>3. TrustedFits'
  BY DEF TrustedFits, SavedFits, Fits, Known, InlinedInto
<1>4. SavedFits'
  BY DEF SavedFits, Fits, Known, InlinedInto
<1> QED
  BY <1>1, <1>2, <1>3, <1>4

-----------------------------------------------------------------------------
(* Instructions are made, moved and told where they come from.             *)

\* The builder and what the program saved are as they were.
LEMMA PlacesStay ==
  ASSUME ScopesInv, UNCHANGED <<owner, attached, builder, saved>>
  PROVE  TrustedFits' /\ SavedFits'
  BY DEF ScopesInv, TrustedFits, SavedFits, Fits, Known, InlinedInto, builder

\* An instruction that is made says what suits its function.
LEMMA NewPreserves ==
  ASSUME ScopesInv, NEW i \in Insts, NEW k \in {"plain", "call", "declare"},
         NEW f \in Functions, NEW what \in Functions \cup Subprograms \cup {None},
         NEW l \in Locations \cup {None}, Fits(l, f), New(i, k, f, what, l)
  PROVE  ScopesInv'
<1> USE DEF ScopesInv, New
<1>1. ScopesTypeOK'
  BY DEF ScopesTypeOK, builder
<1>2. AllSayRight'
  <2> SUFFICES ASSUME NEW j \in Insts, Made(j)' PROVE SaysRight(j)'
    BY DEF AllSayRight
  <2>1. CASE j = i
    BY <2>1 DEF SaysRight, ScopesTypeOK, Fits, Known, InlinedInto, MaySay, Subprogram
  <2>2. CASE j # i
    BY <2>2 DEF AllSayRight, Made, SaysRight, ScopesTypeOK, Fits, Known, InlinedInto,
                MaySay,
                Subprogram
  <2> QED
    BY <2>1, <2>2
<1>3. PlacedMade'
  BY DEF PlacedMade, Made, ScopesTypeOK
<1>4. TrustedFits' /\ SavedFits'
  BY PlacesStay
<1> QED
  BY <1>1, <1>2, <1>3, <1>4

LEMMA ScopesCreatePreserves ==
  ASSUME ScopesInv, NEW i \in Insts
  PROVE  /\ CreateValue(i) => ScopesInv'
         /\ \A g \in Functions : CreateCall(i, g) => ScopesInv'
<1>1. trusted => /\ function \in Functions /\ Fits(location, function)
                 /\ location \in Locations \cup {None}
  BY DEF ScopesInv, TrustedFits, ScopesTypeOK
<1>2. ASSUME CreateValue(i) PROVE ScopesInv'
  BY <1>1, <1>2, NewPreserves DEF CreateValue
<1>3. ASSUME NEW g \in Functions, CreateCall(i, g) PROVE ScopesInv'
  BY <1>1, <1>3, NewPreserves DEF CreateCall
<1> QED
  BY <1>2, <1>3

LEMMA InsertDeclareAtEndPreserves ==
  ASSUME ScopesInv, NEW i \in Insts, NEW f \in Functions, NEW scope \in Scopes,
         NEW l \in Locations, InsertDeclareAtEnd(i, f, scope, l)
  PROVE  ScopesInv'
<1>1. owner[scope] \in Subprograms
  BY DEF InsertDeclareAtEnd, ScopesInv, ScopesTypeOK
<1> QED
  BY <1>1, NewPreserves DEF InsertDeclareAtEnd

LEMMA SayPreserves ==
  ASSUME ScopesInv, NEW i \in placed, NEW l \in Locations \cup {None}, Fits(l, home[i]),
         Say(i, l)
  PROVE  ScopesInv'
<1> USE DEF ScopesInv, Say
<1>1. i \in Insts /\ Made(i)
  BY DEF ScopesTypeOK, PlacedMade
<1>2. ScopesTypeOK'
  BY DEF ScopesTypeOK, builder
<1>3. AllSayRight'
  BY <1>1 DEF AllSayRight, Made, SaysRight, ScopesTypeOK, Fits, Known, InlinedInto,
              MaySay, Subprogram
<1>4. PlacedMade'
  BY DEF PlacedMade, Made
<1>5. TrustedFits' /\ SavedFits'
  BY PlacesStay
<1> QED
  BY <1>2, <1>3, <1>4, <1>5

LEMMA RelocatePreserves ==
  ASSUME ScopesInv, NEW i \in Insts
  PROVE  /\ SetInstDebugLocation(i) => ScopesInv'
         /\ \A l \in Locations \cup {None} : InstructionSetDebugLoc(i, l) => ScopesInv'
<1>1. ASSUME SetInstDebugLocation(i) PROVE ScopesInv'
  <2>1. i \in placed /\ location \in Locations \cup {None} /\ Fits(location, home[i])
    BY <1>1 DEF SetInstDebugLocation, ScopesInv, TrustedFits, ScopesTypeOK
  <2> QED
    BY <1>1, <2>1, SayPreserves DEF SetInstDebugLocation
<1>2. ASSUME NEW l \in Locations \cup {None}, InstructionSetDebugLoc(i, l) PROVE ScopesInv'
  BY <1>2, SayPreserves DEF InstructionSetDebugLoc
<1> QED
  BY <1>1, <1>2

LEMMA RemovePreserves ==
  ASSUME ScopesInv, NEW i \in Insts, RemoveFromParentAsInstruction(i) PROVE ScopesInv'
<1> USE DEF ScopesInv, RemoveFromParentAsInstruction
<1>1. ScopesTypeOK'
  BY DEF ScopesTypeOK, builder
<1>2. AllSayRight'
  BY DEF AllSayRight, Made, SaysRight, Fits, Known, InlinedInto, MaySay,
         Subprogram
<1>3. PlacedMade'
  BY DEF PlacedMade, Made
<1>4. TrustedFits' /\ SavedFits'
  BY PlacesStay
<1> QED
  BY <1>1, <1>2, <1>3, <1>4

\* The instruction takes the builder's location, or keeps one that fitted the
\* same function.
LEMMA InsertPreserves ==
  ASSUME ScopesInv, NEW i \in Insts, Insert(i) PROVE ScopesInv'
<1> USE DEF ScopesInv, Insert
<1>1. function \in Functions /\ Fits(location, function)
  BY DEF TrustedFits
<1>2. ScopesTypeOK'
  BY <1>1 DEF ScopesTypeOK, builder
<1>3. AllSayRight'
  <2> SUFFICES ASSUME NEW j \in Insts, Made(j)' PROVE SaysRight(j)'
    BY DEF AllSayRight
  <2>1. CASE j = i
    BY <1>1, <2>1 DEF AllSayRight, Made, SaysRight, ScopesTypeOK, Fits, Known,
                      InlinedInto, MaySay,
                      Subprogram
  <2>2. CASE j # i
    BY <2>2 DEF AllSayRight, Made, SaysRight, ScopesTypeOK, Fits, Known, InlinedInto,
                MaySay,
                Subprogram
  <2> QED
    BY <2>1, <2>2
<1>4. PlacedMade'
  BY DEF PlacedMade, Made
<1>5. TrustedFits' /\ SavedFits'
  BY PlacesStay
<1> QED
  BY <1>2, <1>3, <1>4, <1>5

-----------------------------------------------------------------------------
LEMMA ScopesStutteringPreserves == ScopesInv /\ UNCHANGED scopesVars => ScopesInv'
  BY DEF ScopesInv, ScopesTypeOK, AllSayRight, PlacedMade, TrustedFits, SavedFits, Made,
         SaysRight, Fits,
         Known, InlinedInto, MaySay, Subprogram, scopesVars, builder, insts

LEMMA ScopesNextPreserves == ScopesInv /\ [ScopesNext]_scopesVars => ScopesInv'
<1> SUFFICES ASSUME ScopesInv, ScopesNext PROVE ScopesInv'
  BY ScopesStutteringPreserves
<1>1. ASSUME NEW s \in Subprograms, CreateFunction(s) PROVE ScopesInv'
  BY <1>1, CreateFunctionPreserves
<1>2. ASSUME NEW b \in LexicalBlocks, NEW scope \in Scopes, CreateLexicalBlock(b, scope)
      PROVE  ScopesInv'
  BY <1>2, CreateLexicalBlockPreserves
<1>3. ASSUME NEW f \in Functions, NEW s \in Scopes, SetSubprogram(f, s) PROVE ScopesInv'
  BY <1>3, SetSubprogramPreserves
<1>4. ASSUME NEW f \in Functions, SetInsertPointAtEnd(f) PROVE ScopesInv'
  BY <1>4, SetInsertPointAtEndPreserves
<1>5. ASSUME NEW l \in Locations \cup {None}, SetCurrentDebugLocation(l) PROVE ScopesInv'
  BY <1>5, SetCurrentDebugLocationPreserves
<1>6. ASSUME NEW i \in Insts, SetInsertPointBefore(i) PROVE ScopesInv'
  BY <1>6, SetInsertPointBeforePreserves
<1>7. ASSUME NEW i \in Insts, RemoveFromParentAsInstruction(i) PROVE ScopesInv'
  BY <1>7, RemovePreserves
<1>8. ASSUME NEW i \in Insts, Insert(i) PROVE ScopesInv'
  BY <1>8, InsertPreserves
<1>9. ASSUME NEW i \in Insts, NEW f \in Functions, NEW scope \in Scopes, NEW l \in Locations,
             InsertDeclareAtEnd(i, f, scope, l)
      PROVE  ScopesInv'
  BY <1>9, InsertDeclareAtEndPreserves
<1> QED
  BY <1>1, <1>2, <1>3, <1>4, <1>5, <1>6, <1>7, <1>8, <1>9, CreateCompileUnitPreserves,
     GetCurrentDebugLocationPreserves, ReturnPreserves, ScopesCreatePreserves, RelocatePreserves
     DEF ScopesNext

\* The inductive invariant holds always.
THEOREM ScopesInvariance == ScopesSpec => []ScopesInv
  BY ScopesInitially, ScopesNextPreserves, PTL DEF ScopesSpec

\* Every variable always has its type: a function's subprogram is a subprogram
\* and not another scope (dibuilder.go:593).
THEOREM ScopesTypeCorrect == ScopesSpec => []ScopesTypeOK
<1>1. ScopesInv => ScopesTypeOK
  BY DEF ScopesInv
<1> QED
  BY <1>1, ScopesInvariance, PTL

\* Whatever functions the program interleaves, and however it moves
\* instructions between them, the locations in a function end in its
\* subprogram (ir.go:1353, 1356, 1371).
THEOREM LocationsRight == ScopesSpec => []LocationsInFunction
  BY ScopesInvImplies, ScopesInvariance, PTL

\* Every call between functions with subprograms has a location, in whatever
\* order they get their subprograms, and every declaration of a variable stays
\* located in the variable's (ir.go:1840, 1356; dibuilder.go:577, 593).
THEOREM CallsRight == ScopesSpec => []CallsLocated
  BY ScopesInvImplies, ScopesInvariance, PTL
=============================================================================
