--------------------------- MODULE LoopNest_proofs ---------------------------
(***************************************************************************)
(* buildLoop keeps the function it builds well formed however its callers  *)
(* nest it.                                                                *)
(***************************************************************************)
EXTENDS LoopNest, SequenceTheorems, FiniteSetTheorems, WellFoundedInduction,
        TLAPS

\* The parameters of a kernel of 64-bit integers, and its result.
KernelParams == <<"i64*", "i64*", "i8*">>

\* Control passes from the end of block a to block b.
Edge(f, a, b) ==
  /\ a \in Blocks(f)
  /\ \E j \in DOMAIN f.body[a] : /\ f.body[a][j].op \in Terminators
                                 /\ \E k \in DOMAIN f.body[a][j].bbs : f.body[a][j].bbs[k] = b

\* Instruction number n is somewhere in the function.
Emitted(f, n) == \E b \in Blocks(f) : \E j \in DOMAIN f.body[b] : f.body[b][j].id = n

\* A value the code emitted next may use.
Usable(f, v) == v \in Value /\ (v.kind = "inst" => Emitted(f, v.n))

\* The types of instruction i's operands, as OperandsTyped asks for them.
OpTyped(i) ==
  LET Arg(k) == i.args[k].type
  IN  /\ i.op = "ret"    => Arg(1) = "i64"
      /\ i.op = "condbr" => Arg(1) = "i1"
      /\ i.op = "phi"    => \A k \in DOMAIN i.args : Arg(k) = i.type
      /\ i.op = "load"   => Arg(1) = PointerType(i.type)
      /\ i.op = "store"  => Arg(2) = PointerType(Arg(1))
      /\ i.op = "gep"    => Arg(2) = "i64"
      /\ i.op \in {"add", "slt"} => Arg(1) = "i64" /\ Arg(2) = "i64"
      /\ i.op = "fadd"   => Arg(1) = "double" /\ Arg(2) = "double"
      /\ i.op = "bitcast" => i.type # Arg(1)

\* Instruction i may be element j of a block of f.
Fits(f, i, j) ==
  /\ i.id < f.next
  /\ SeqRange(i.bbs) \subseteq Blocks(f)
  /\ i.op \in Terminators => 1 \notin SeqRange(i.bbs)
  /\ OpTyped(i)
  /\ i.op = "phi" => j = 1 /\ Len(i.args) = Len(i.bbs)

\* No two instructions have the same number.
UniqueIds(f) ==
  \A b, c \in Blocks(f) : \A j \in DOMAIN f.body[b], l \in DOMAIN f.body[c] :
     f.body[b][j].id = f.body[c][l].id => b = c /\ j = l

WellFormed(f) ==
  /\ f \in Function /\ f.params = KernelParams /\ f.ret = "i64"
  /\ f.at \in Blocks(f)
  /\ \A b \in Blocks(f) : \A j \in DOMAIN f.body[b] : Fits(f, f.body[b][j], j)
  /\ UniqueIds(f)

\* r numbers the blocks in the order in which the insertion point entered
\* them, 0 for those it has not entered.  Control goes from a block to one
\* that was entered before it, or to the one entered next.
Ranked(f, r) ==
  /\ r \in [Nat -> Nat]
  /\ r[1] = 1
  /\ \A b \in Nat : r[b] <= r[f.at]
  /\ \A a, b \in Nat : r[a] = r[b] /\ r[a] # 0 => a = b
  /\ \A b \in Nat : b \notin Blocks(f) => r[b] = 0
  /\ \A b \in Blocks(f) : f.body[b] # << >> => r[b] # 0
  /\ \A a, b \in Nat : Edge(f, a, b) => r[b] # 0 /\ r[b] <= r[a] + 1

\* Instruction number n precedes element j of block b: earlier in the block,
\* or in a block entered before it.
Precedes(f, r, n, b, j) ==
  \E c \in Blocks(f) : \E l \in DOMAIN f.body[c] :
     /\ f.body[c][l].id = n
     /\ (c = b /\ l < j) \/ (c # b /\ r[c] < r[b])

\* The operands of instruction i, element j of block b, precede it; those of
\* a phi precede the end of the block they come from.
OperandsPrecede(f, r, i, b, j) ==
  \A k \in DOMAIN i.args : i.args[k].kind = "inst" =>
     IF i.op = "phi"
     THEN Precedes(f, r, i.args[k].n, i.bbs[k], Len(f.body[i.bbs[k]]) + 1)
     ELSE Precedes(f, r, i.args[k].n, b, j)

UsesPrecede(f, r) ==
  \A b \in Blocks(f) : \A j \in DOMAIN f.body[b] :
     OperandsPrecede(f, r, f.body[b][j], b, j)

\* The phi of block b, if it has one, has one incoming edge per predecessor.
Matched(f, b) ==
  \A j \in DOMAIN f.body[b] : f.body[b][j].op = "phi" =>
     LET bbs == f.body[b][j].bbs
     IN  /\ \A a \in Nat : Edge(f, a, b) <=> \E k \in DOMAIN bbs : bbs[k] = a
         /\ \A k, l \in DOMAIN bbs : bbs[k] = bbs[l] => k = l

\* What buildLoop still relies on when its callback returns (activation l).
Waiting(f, l) ==
  /\ l.loop \in Blocks(f) \ {1} /\ l.after \in Blocks(f) \ {1}
  /\ f.body[l.loop] # << >>
  /\ LET phi == f.body[l.loop][1]
     IN  phi.op = "phi" /\ phi.type = "i64" /\ phi.id = l.phi.n
  /\ l.phi.kind = "inst" /\ l.phi.type = "i64"
  /\ Usable(f, l.end) /\ l.end.type = "i64"

Sound(f, r) == WellFormed(f) /\ Ranked(f, r) /\ UsesPrecede(f, r)

Activation == [phi : Value, loop : Nat, after : Nat, end : Value]

\* Which blocks of f are open while the activations of n wait; d says that
\* the function is finished.
BlocksOpen(f, n, d) ==
  /\ \A k \in DOMAIN n : /\ f.body[n[k].after] = << >>
                         /\ n[k].after # f.at
                         /\ \A m \in DOMAIN n : n[m].after = n[k].after => m = k
  /\ IF d THEN IsClosed(f.body[f.at]) ELSE IsOpen(f.body[f.at])
  /\ \A b \in Blocks(f) \ {f.at} :
       (\A k \in DOMAIN n : n[k].after # b) => IsClosed(f.body[b])

\* Function f, its blocks numbered by r, while the activations of n wait.
Nested(f, r, n, d) ==
  /\ Sound(f, r)
  /\ \A b \in Blocks(f) : Matched(f, b)
  /\ n \in Seq(Activation)
  /\ \A k \in DOMAIN n : Waiting(f, n[k]) /\ r[n[k].after] = 0
  /\ \A k, m \in DOMAIN n : n[k].loop = n[m].loop => k = m
  /\ BlocksOpen(f, n, d)
  /\ d => n = << >>

IInv ==
  /\ loops \in 0..MaxLoops /\ stmts \in 0..MaxStmts /\ done \in BOOLEAN
  /\ Usable(fn, count) /\ count.type = "i64"
  /\ Usable(fn, accum) /\ accum.type = "i64*"
  /\ \E r : Nested(fn, r, nest, done)

-----------------------------------------------------------------------------
(* Reachability: a set of blocks that control does not leave but through d   *)
(* holds every block that is reached without entering d.                     *)

Below == {p \in Nat \X Nat : p[1] < p[2]}

\* A set of numbers that is not empty has a least one.
LEMMA Least ==
  ASSUME NEW T \in SUBSET Nat, T # {}
  PROVE  \E n \in T : \A m \in T : n <= m
<1>1. IsWellFoundedOn(OpToRel(<, Nat), Nat)
  BY NatLessThanWellFounded
<1>2. OpToRel(<, Nat) = Below
  BY DEF OpToRel, Below
<1>3. IsWellFoundedOn(Below, Nat)
  BY <1>1, <1>2
<1>4. PICK n \in T : \A m \in T : <<m, n>> \notin Below
  BY <1>3, WFMin
<1>5. ASSUME NEW m \in T PROVE n <= m
  <2>1. m \in Nat /\ n \in Nat /\ <<m, n>> \notin Below
    BY <1>4
  <2>2. ~ (m < n)
    BY <2>1 DEF Below
  <2> QED BY <2>1, <2>2
<1> QED
  BY <1>5

Step(f, d, W) == W \cup ((UNION {Successors(f, b) : b \in W}) \ {d})
Iterates(f, d, L, g) ==
  g = [n \in 0..L |-> IF n = 0 THEN {1} \ {d} ELSE Step(f, d, g[n - 1])]

\* The sets of blocks within n edges of the entry are what their recursive
\* definition says: a number of edges without them would be least.
LEMMA WithinDefined ==
  ASSUME NEW f, NEW d, NEW L \in Nat
  PROVE  \E g : Iterates(f, d, L, g)
<1> DEFINE Is(g, m) == Iterates(f, d, m, g)
           T == {m \in Nat : \A g : ~ Is(g, m)}
<1>1. SUFFICES ASSUME T # {} PROVE FALSE
  <2>1. (T # {}) \/ \E g : Is(g, L)
    <3> HIDE DEF Is
    <3> QED OBVIOUS
  <2> QED BY <2>1
<1>2. PICK m \in T : \A k \in T : m <= k
  BY <1>1, Least
<1>3. CASE m = 0
  <2> DEFINE g == [n \in 0..0 |-> {1} \ {d}]
  <2>1. Is(g, 0)
    BY DEF Iterates
  <2> QED BY <1>2, <1>3, <2>1
<1>4. CASE m # 0
  <2>1. m \in Nat
    BY <1>2
  <2>2. m - 1 \in Nat /\ m - 1 \notin T
    <3>1. m - 1 \in Nat /\ ~ (m <= m - 1)
      BY <2>1, <1>4
    <3> HIDE DEF T
    <3> QED BY <3>1, <1>2
  <2>3. PICK g : Is(g, m - 1)
    BY <2>2
  <2> DEFINE h == [n \in 0..m |-> IF n = m THEN Step(f, d, g[m - 1]) ELSE g[n]]
  <2>4. ASSUME NEW n \in 0..m 
        PROVE h[n] = IF n = 0 THEN {1} \ {d} ELSE Step(f, d, h[n - 1])
    <3>1. CASE n = m
      BY <3>1, <1>4, <1>2
    <3>2. CASE n # m
      <4>1. n \in 0..(m-1)
         BY <3>2, <1>2, <1>4
      <4>2. g[n] = IF n = 0 THEN {1} \ {d} ELSE Step(f, d, g[n - 1])
        <5> HIDE DEF h
        <5> QED BY <4>1, <2>3 DEF Iterates
      <4>3. h[n] = g[n] 
        BY <4>1, <3>2
      <4>4. CASE n # 0
        <5>1. h[n-1] = g[n-1]
          BY <4>1, <4>4
        <5> QED BY <5>1, <4>2, <4>3, <4>4
      <4> QED BY <4>2, <4>3, <4>4
    <3> QED BY <3>1, <3>2
  <2>5. Is(h, m)
    <3>1. h = [n \in 0..m |-> h[n]]
      OBVIOUS
    <3> HIDE DEF h
    <3> QED BY <2>4, <3>1 DEF Iterates
  <2> HIDE DEF h, Is
  <2> QED BY <1>2, <2>5
<1> QED BY <1>3, <1>4

\* A set that holds the entry and what its blocks lead to, d left out, holds
\* what is reached without entering d.
LEMMA ReachableWithin ==
  ASSUME NEW f, NEW d, Len(f.body) \in Nat, NEW X,
         {1} \ {d} \subseteq X, \A b \in X : Successors(f, b) \ {d} \subseteq X
  PROVE  ReachableAvoiding(f, d) \subseteq X
<1> DEFINE W == CHOOSE g : g = [n \in 0..Len(f.body) |-> IF n = 0 THEN {1} \ {d} ELSE Step(f, d, g[n - 1])]
           N == Len(f.body)
           T == {n \in 0..N : ~ (W[n] \subseteq X)}
<1>1. ReachableAvoiding(f, d) = W[Len(f.body)]
  BY DEF ReachableAvoiding, Step
<1>2. W = [n \in 0..Len(f.body) |-> IF n = 0 THEN {1} \ {d} ELSE Step(f, d, W[n - 1])]
  <2>1. N \in Nat
    OBVIOUS
  <2>2. PICK g : Iterates(f, d, N, g)
    BY <2>1, WithinDefined
  <2> QED BY <2>2 DEF Iterates
<1> HIDE DEF W
<1>3. SUFFICES ASSUME T # {} PROVE FALSE
  BY <1>1
<1>4. PICK m \in T : \A k \in T : m <= k
  <2>1. T \in SUBSET Nat
    OBVIOUS
  <2> HIDE DEF T
  <2> QED BY <1>3, <2>1, Least
<1>5. m # 0
  BY <1>2
<1>6. m - 1 \in 0..Len(f.body) /\ m - 1 \notin T
  BY <1>4, <1>5
<1>7. W[m - 1] \subseteq X
  BY <1>6
<1>8. Step(f, d, W[m - 1]) \subseteq X
  <2>1. ASSUME NEW b \in W[m - 1], NEW a \in Successors(f, b) \ {d} PROVE a \in X
    BY <1>7
  <2> QED BY <1>7, <2>1 DEF Step
<1> QED BY <1>2, <1>5, <1>8

-----------------------------------------------------------------------------
\* Builder g is f with instruction i appended at the insertion point.
Added(f, g, i) ==
  /\ f \in Function /\ g \in Function /\ i \in Instruction
  /\ f.at \in Blocks(f)
  /\ g.params = f.params /\ g.ret = f.ret /\ g.at = f.at /\ g.next = f.next + 1
  /\ i.id = f.next
  /\ Blocks(g) = Blocks(f) /\ Len(g.body) = Len(f.body)
  /\ \A b \in Blocks(f) : b # f.at => g.body[b] = f.body[b]
  /\ Len(g.body[f.at]) = Len(f.body[f.at]) + 1
  /\ Len(g.body[f.at]) \in DOMAIN g.body[f.at]
  /\ Len(g.body[f.at]) \notin DOMAIN f.body[f.at]
  /\ g.body[f.at][Len(g.body[f.at])] = i
  /\ \A j \in DOMAIN g.body[f.at] : j # Len(g.body[f.at]) => j \in DOMAIN f.body[f.at]
  /\ \A j \in DOMAIN f.body[f.at] :
        /\ j \in DOMAIN g.body[f.at] /\ j < Len(g.body[f.at])
        /\ g.body[f.at][j] = f.body[f.at][j]

\* What adding an instruction leaves alone.
LEMMA AddedElsewhere ==
  ASSUME NEW f, NEW g, NEW i, Added(f, g, i)
  PROVE  /\ f \in Function /\ g \in Function /\ g.at = f.at /\ Blocks(g) = Blocks(f)
         /\ \A b \in Blocks(f) : b # f.at => g.body[b] = f.body[b]
  BY DEF Added

\* What the blocks of a function are.
LEMMA BlockTypes ==
  ASSUME NEW f \in Function
  PROVE  /\ f.body \in Seq(Seq(Instruction)) /\ Blocks(f) = 1 .. Len(f.body) /\ Len(f.body) \in Nat
         /\ f.next \in Nat /\ f.at \in Nat
         /\ \A b \in Blocks(f) :
              /\ f.body[b] \in Seq(Instruction)
              /\ Len(f.body[b]) \in Nat /\ DOMAIN f.body[b] = 1 .. Len(f.body[b])
              /\ \A j \in DOMAIN f.body[b] : f.body[b][j] \in Instruction
<1>1. f.body \in Seq(Seq(Instruction)) /\ f.next \in Nat /\ f.at \in Nat
  BY DEF Function
<1> DEFINE I == Instruction
<1> HIDE DEF I
<1>2. f.body \in Seq(Seq(I))
  BY <1>1 DEF I
<1>3. ASSUME NEW b \in DOMAIN f.body
      PROVE  f.body[b] \in Seq(I)
  BY <1>2
<1>4. ASSUME NEW b \in DOMAIN f.body, NEW j \in DOMAIN f.body[b]
      PROVE  f.body[b][j] \in I
  BY <1>3
<1> QED
  BY <1>1, <1>2, <1>3, <1>4 DEF Blocks, I

\* Insert, under every constructor of the builder, appends one instruction.
LEMMA InsertAdds ==
  ASSUME NEW f \in Function, f.at \in Blocks(f),
         NEW op \in Opcodes, NEW ty \in Types, NEW args \in Seq(Value), NEW bbs \in Seq(Nat)
  PROVE  \E i \in Instruction :
           /\ i.op = op /\ i.type = ty /\ i.args = args /\ i.bbs = bbs
           /\ Added(f, Insert(f, op, ty, args, bbs), i)
<1> DEFINE i == [id |-> f.next, op |-> op, type |-> ty, fast |-> FALSE,
                 args |-> args, bbs |-> bbs]
           g == Insert(f, op, ty, args, bbs)
           t == f.body[f.at]
           I == Instruction
<1>1. /\ i \in I /\ i.op = op /\ i.type = ty /\ i.args = args /\ i.bbs = bbs
      /\ i.id = f.next
  BY BlockTypes DEF Instruction
<1>2. g = [params |-> f.params, ret |-> f.ret, at |-> f.at, next |-> f.next + 1,
           body |-> [f.body EXCEPT ![f.at] = Append(@, i)]]
  BY DEF Insert
<1>3. f.body \in Seq(Seq(I)) /\ t \in Seq(I) /\ DOMAIN f.body = 1 .. Len(f.body)
      /\ f.at \in DOMAIN f.body
  BY BlockTypes DEF Blocks
<1> HIDE DEF i, g, I
<1>4. /\ Append(t, i) \in Seq(I) /\ Len(Append(t, i)) = Len(t) + 1
      /\ Append(t, i)[Len(t) + 1] = i /\ Len(t) \in Nat
      /\ DOMAIN t = 1 .. Len(t) /\ DOMAIN Append(t, i) = 1 .. Len(t) + 1
      /\ \A j \in 1 .. Len(t) : Append(t, i)[j] = t[j]
  <2>1. t \in Seq(I) /\ i \in I
    BY <1>1, <1>3
  <2> HIDE DEF t
  <2> QED
    BY <2>1, AppendProperties
<1> DEFINE u == Append(t, i)
<1> HIDE DEF u
<1>5. g.body = [f.body EXCEPT ![f.at] = u]
  BY <1>2 DEF u
<1>6. /\ g.body \in Seq(Seq(I)) /\ Len(g.body) = Len(f.body)
      /\ DOMAIN g.body = DOMAIN f.body
      /\ g.body[f.at] = u /\ \A b \in DOMAIN f.body : b # f.at => g.body[b] = f.body[b]
  BY <1>3, <1>4, <1>5 DEF u
<1>7. g \in Function
  BY <1>2, <1>6, BlockTypes DEF Function, I
<1>8. g.params = f.params /\ g.ret = f.ret /\ g.at = f.at /\ g.next = f.next + 1
  BY <1>2
<1>9. Added(f, g, i)
  <2>1. /\ Len(u) = Len(t) + 1 /\ u[Len(u)] = i /\ Len(u) \in DOMAIN u /\ Len(u) \notin DOMAIN t
        /\ \A j \in DOMAIN u : j # Len(u) => j \in DOMAIN t
        /\ \A j \in DOMAIN t : j \in DOMAIN u /\ j < Len(u) /\ u[j] = t[j]
    <3>1. /\ Len(u) = Len(t) + 1 /\ u[Len(t) + 1] = i /\ Len(t) \in Nat
          /\ DOMAIN t = 1 .. Len(t) /\ DOMAIN u = 1 .. Len(t) + 1
          /\ \A j \in 1 .. Len(t) : u[j] = t[j]
      BY <1>4, Zenon DEF u
    <3> HIDE DEF t
    <3> QED
      BY <3>1
  <2>2. i \in Instruction /\ i.id = f.next
    BY <1>1 DEF I
  <2> HIDE DEF t
  <2>3. /\ Len(g.body[f.at]) = Len(f.body[f.at]) + 1
        /\ g.body[f.at][Len(g.body[f.at])] = i
        /\ Len(g.body[f.at]) \in DOMAIN g.body[f.at]
        /\ Len(g.body[f.at]) \notin DOMAIN f.body[f.at]
    BY <1>6, <2>1 DEF t
  <2>4. /\ \A j \in DOMAIN g.body[f.at] : j # Len(g.body[f.at]) => j \in DOMAIN f.body[f.at]
        /\ \A j \in DOMAIN f.body[f.at] :
              /\ j \in DOMAIN g.body[f.at] /\ j < Len(g.body[f.at])
              /\ g.body[f.at][j] = f.body[f.at][j]
    BY <1>6, <2>1 DEF t
  <2>5. /\ DOMAIN g.body = DOMAIN f.body /\ Len(g.body) = Len(f.body)
        /\ \A b \in DOMAIN f.body : b # f.at => g.body[b] = f.body[b]
    BY <1>6
  <2> QED
    BY <1>7, <1>8, <2>2, <2>3, <2>4, <2>5 DEF Added, Blocks
<1> QED
  BY <1>1, <1>9 DEF g, I

\* The value of an instruction just added.
LEMMA ResultAdded ==
  ASSUME NEW f, NEW g, NEW i, Added(f, g, i)
  PROVE  /\ Result(g) = [kind |-> "inst", n |-> i.id, type |-> i.type]
         /\ Usable(g, Result(g))
         /\ Result(g).kind = "inst" /\ Result(g).n = i.id /\ Result(g).type = i.type
<1>1. Result(g) = [kind |-> "inst", n |-> i.id, type |-> i.type]
  BY DEF Result, Added
<1>2. Emitted(g, i.id)
  <2>1. /\ f.at \in Blocks(g) /\ Len(g.body[f.at]) \in DOMAIN g.body[f.at]
        /\ g.body[f.at][Len(g.body[f.at])].id = i.id
    BY DEF Added
  <2> QED
    BY <2>1 DEF Emitted
<1>3. i \in Instruction
  BY DEF Added
<1>4. i.id \in Int /\ i.type \in Types
  BY <1>3 DEF Instruction
<1>5. Result(g) \in Value
  BY <1>1, <1>4 DEF Value
<1> QED
  BY <1>1, <1>2, <1>5 DEF Usable

\* What was usable stays so.
LEMMA UsableAdded ==
  ASSUME NEW f, NEW g, NEW i, Added(f, g, i)
  PROVE  /\ \A n : Emitted(f, n) => Emitted(g, n)
         /\ \A v : Usable(f, v) => Usable(g, v)
<1>1. ASSUME NEW n, Emitted(f, n)
      PROVE  Emitted(g, n)
  <2>1. PICK b \in Blocks(f) : \E j \in DOMAIN f.body[b] : f.body[b][j].id = n
    BY <1>1 DEF Emitted
  <2>2. PICK j \in DOMAIN f.body[b] : f.body[b][j].id = n
    BY <2>1
  <2>3. b \in Blocks(g) /\ j \in DOMAIN g.body[b] /\ g.body[b][j] = f.body[b][j]
    BY DEF Added
  <2> QED
    BY <2>2, <2>3 DEF Emitted
<1> QED
  BY <1>1 DEF Usable

\* An instruction that fits leaves the function well formed.
LEMMA AddedWellFormed ==
  ASSUME NEW f, NEW g, NEW i, Added(f, g, i), WellFormed(f),
         SeqRange(i.bbs) \subseteq Blocks(f), i.op \in Terminators => 1 \notin SeqRange(i.bbs),
         OpTyped(i),
         i.op = "phi" => f.body[f.at] = << >> /\ Len(i.args) = Len(i.bbs)
  PROVE  WellFormed(g)
<1> USE DEF Added
<1>1. f.next \in Nat /\ Len(f.body[f.at]) \in Nat
  BY BlockTypes
<1>2. ASSUME NEW b \in Blocks(g), NEW j \in DOMAIN g.body[b]
      PROVE  Fits(g, g.body[b][j], j)
  <2>1. CASE j \in DOMAIN f.body[b]
    <3>1. g.body[b][j] = f.body[b][j] /\ Fits(f, f.body[b][j], j)
      BY <2>1 DEF WellFormed
    <3>2. f.body[b][j].id \in Nat
      BY <2>1, BlockTypes DEF Instruction
    <3> QED
      BY <1>1, <3>1, <3>2 DEF Fits
  <2>2. CASE j \notin DOMAIN f.body[b]
    <3>1. b = f.at /\ j = Len(f.body[f.at]) + 1 /\ g.body[b][j] = i
      BY <2>2
    <3>2. i.op = "phi" => j = 1
      BY <3>1
    <3> QED
      BY <1>1, <3>1, <3>2 DEF Fits
  <2> QED
    BY <2>1, <2>2
<1>3. ASSUME NEW b \in Blocks(f), NEW j \in DOMAIN f.body[b]
      PROVE  f.body[b][j].id # i.id
  <2>1. f.body[b][j].id < f.next /\ f.body[b][j].id \in Nat
    BY BlockTypes DEF WellFormed, Fits, Instruction
  <2> QED
    BY <1>1, <2>1
<1>4. UniqueIds(g)
  <2> SUFFICES ASSUME NEW b \in Blocks(g), NEW c \in Blocks(g),
                      NEW j \in DOMAIN g.body[b], NEW l \in DOMAIN g.body[c],
                      g.body[b][j].id = g.body[c][l].id
               PROVE  b = c /\ j = l
    BY DEF UniqueIds
  <2>1. \/ j \in DOMAIN f.body[b] /\ g.body[b][j] = f.body[b][j]
        \/ b = f.at /\ j = Len(g.body[f.at]) /\ g.body[b][j] = i
    OBVIOUS
  <2>2. \/ l \in DOMAIN f.body[c] /\ g.body[c][l] = f.body[c][l]
        \/ c = f.at /\ l = Len(g.body[f.at]) /\ g.body[c][l] = i
    OBVIOUS
  <2>3. UniqueIds(f)
    BY DEF WellFormed
  <2> QED
    <3>1. CASE j \in DOMAIN f.body[b] /\ l \in DOMAIN f.body[c]
      BY <2>1, <2>2, <2>3, <3>1 DEF UniqueIds
    <3>2. CASE j \in DOMAIN f.body[b] /\ l \notin DOMAIN f.body[c]
      BY <1>3, <2>1, <2>2, <3>2
    <3>3. CASE j \notin DOMAIN f.body[b] /\ l \in DOMAIN f.body[c]
      BY <1>3, <2>1, <2>2, <3>3
    <3>4. CASE j \notin DOMAIN f.body[b] /\ l \notin DOMAIN f.body[c]
      BY <2>1, <2>2, <3>4
    <3> QED
      BY <3>1, <3>2, <3>3, <3>4
<1> QED
  BY <1>2, <1>4 DEF WellFormed

\* Its operands, if they were usable, precede it; the others are not moved.
LEMMA AddedUses ==
  ASSUME NEW f, NEW g, NEW i, Added(f, g, i), NEW r, Sound(f, r),
         i.op = "phi" => i.args = << >>,
         \A k \in DOMAIN i.args : Usable(f, i.args[k])
  PROVE  UsesPrecede(g, r)
<1> USE DEF Added
<1>1. f.next \in Nat /\ Len(f.body[f.at]) \in Nat /\ r \in [Nat -> Nat] /\ Blocks(f) \subseteq Nat
  <2>1. f.next \in Nat /\ Len(f.body[f.at]) \in Nat
    BY BlockTypes
  <2>2. Blocks(f) \subseteq Nat
    <3>1. f \in Function
      OBVIOUS
    <3>2. Blocks(f) = 1 .. Len(f.body) /\ Len(f.body) \in Nat
      BY <3>1, BlockTypes
    <3> QED
      BY <3>2
  <2> QED
    BY <2>1, <2>2 DEF Sound, Ranked
<1>a. ASSUME NEW b \in Blocks(f)
      PROVE  /\ Len(f.body[b]) \in Nat /\ Len(g.body[b]) \in Nat
             /\ Len(f.body[b]) <= Len(g.body[b])
  <2>1. f \in Function
    OBVIOUS
  <2>2. Len(f.body[b]) \in Nat
    BY <2>1, BlockTypes
  <2>3. CASE b = f.at
    <3>1. Len(g.body[b]) = Len(f.body[b]) + 1
      BY <2>3
    <3> QED
      BY <2>2, <3>1
  <2>4. CASE b # f.at
    <3>1. Len(g.body[b]) = Len(f.body[b])
      BY <2>4
    <3> QED
      BY <2>2, <3>1
  <2> QED
    BY <2>3, <2>4
<1>b. ASSUME NEW b \in Blocks(f), NEW j \in DOMAIN f.body[b]
      PROVE  j \in DOMAIN g.body[b] /\ g.body[b][j] = f.body[b][j] /\ j \in Nat
  <2>1. j \in Nat
    <3>1. f \in Function
      OBVIOUS
    <3>2. DOMAIN f.body[b] = 1 .. Len(f.body[b])
      BY <3>1, BlockTypes
    <3> QED
      BY <3>2
  <2> QED
    BY <2>1
<1>2. ASSUME NEW n, NEW b, NEW j \in Nat, NEW k \in Nat, Precedes(f, r, n, b, j), j <= k
      PROVE  Precedes(g, r, n, b, k)
  <2>1. PICK c \in Blocks(f) : \E l \in DOMAIN f.body[c] :
          f.body[c][l].id = n /\ ((c = b /\ l < j) \/ (c # b /\ r[c] < r[b]))
    BY <1>2 DEF Precedes
  <2>2. PICK l \in DOMAIN f.body[c] :
          f.body[c][l].id = n /\ ((c = b /\ l < j) \/ (c # b /\ r[c] < r[b]))
    BY <2>1
  <2>3. l \in DOMAIN g.body[c] /\ g.body[c][l].id = n /\ l \in Nat
    BY <1>b, <2>2
  <2>4. (c = b /\ l < k) \/ (c # b /\ r[c] < r[b])
    BY <1>2, <2>2, <2>3
  <2> QED
    BY <2>3, <2>4 DEF Precedes
<1>3. ASSUME NEW b \in Blocks(f), NEW j \in DOMAIN f.body[b]
      PROVE  OperandsPrecede(g, r, f.body[b][j], b, j)
  <2> DEFINE h == f.body[b][j]
  <2>1. OperandsPrecede(f, r, h, b, j) /\ Fits(f, h, j) /\ h \in Instruction
    BY BlockTypes DEF Sound, UsesPrecede, WellFormed
  <2> SUFFICES ASSUME NEW k \in DOMAIN h.args, h.args[k].kind = "inst"
               PROVE  IF h.op = "phi"
                      THEN Precedes(g, r, h.args[k].n, h.bbs[k], Len(g.body[h.bbs[k]]) + 1)
                      ELSE Precedes(g, r, h.args[k].n, b, j)
    BY DEF OperandsPrecede
  <2> HIDE DEF h
  <2>2. CASE h.op = "phi"
    <3>1. k \in DOMAIN h.bbs
      BY <2>1, <2>2 DEF Fits, Instruction
    <3>2. h.bbs[k] \in Blocks(f)
      BY <2>1, <3>1 DEF Fits, SeqRange
    <3>3. Precedes(f, r, h.args[k].n, h.bbs[k], Len(f.body[h.bbs[k]]) + 1)
      BY <2>1, <2>2 DEF OperandsPrecede
    <3>4. /\ Len(f.body[h.bbs[k]]) + 1 \in Nat /\ Len(g.body[h.bbs[k]]) + 1 \in Nat
          /\ Len(f.body[h.bbs[k]]) + 1 <= Len(g.body[h.bbs[k]]) + 1
      <4>1. PICK a \in Blocks(f) : a = h.bbs[k]
        BY <3>2
      <4>2. /\ Len(f.body[a]) \in Nat /\ Len(g.body[a]) \in Nat
            /\ Len(f.body[a]) <= Len(g.body[a])
        BY <1>a
      <4>3. Len(f.body[a]) + 1 \in Nat /\ Len(g.body[a]) + 1 \in Nat /\ Len(f.body[a]) + 1 <= Len(g.body[a]) + 1
        BY <4>2
      <4> QED
        BY <4>1, <4>3, Zenon
    <3> QED
      BY <1>2, <2>2, <3>3, <3>4
  <2>3. CASE h.op # "phi"
    <3>1. Precedes(f, r, h.args[k].n, b, j)
      BY <2>1, <2>3 DEF OperandsPrecede
    <3>2. j \in Nat /\ j <= j
      BY <1>b
    <3> QED
      BY <1>2, <2>3, <3>1, <3>2
  <2> QED
    BY <2>2, <2>3
<1>4. OperandsPrecede(g, r, i, f.at, Len(g.body[f.at]))
  <2> SUFFICES ASSUME NEW k \in DOMAIN i.args, i.args[k].kind = "inst", i.op # "phi"
               PROVE  Precedes(g, r, i.args[k].n, f.at, Len(g.body[f.at]))
    BY DEF OperandsPrecede
  <2>1. Emitted(f, i.args[k].n)
    BY DEF Usable
  <2>2. PICK c \in Blocks(f) : \E l \in DOMAIN f.body[c] : f.body[c][l].id = i.args[k].n
    BY <2>1 DEF Emitted
  <2>3. PICK l \in DOMAIN f.body[c] : f.body[c][l].id = i.args[k].n
    BY <2>2
  <2>4. l \in DOMAIN g.body[c] /\ g.body[c][l].id = i.args[k].n
    BY <1>b, <2>3
  <2>5. c # f.at => r[c] < r[f.at]
    <3>1. f.body[c] # << >>
      OBVIOUS
    <3>2. /\ r[c] # 0 /\ r[c] <= r[f.at] /\ c \in Nat /\ f.at \in Nat
          /\ (r[c] = r[f.at] /\ r[c] # 0 => c = f.at)
      BY <1>1, <3>1 DEF Sound, Ranked
    <3>3. r[c] \in Nat /\ r[f.at] \in Nat
      BY <1>1, <3>2
    <3> QED
      BY <3>2, <3>3
  <2>6. c = f.at => l < Len(g.body[f.at])
    OBVIOUS
  <2> QED
    BY <2>4, <2>5, <2>6 DEF Precedes
<1>5. ASSUME NEW b \in Blocks(g), NEW j \in DOMAIN g.body[b]
      PROVE  OperandsPrecede(g, r, g.body[b][j], b, j)
  <2>1. CASE j \in DOMAIN f.body[b]
    <3>1. g.body[b][j] = f.body[b][j] /\ b \in Blocks(f)
      BY <1>b, <2>1
    <3>2. OperandsPrecede(g, r, f.body[b][j], b, j)
      BY <1>3, <2>1, <3>1
    <3> QED
      BY <3>1, <3>2, Zenon
  <2>2. CASE j \notin DOMAIN f.body[b]
    <3>1. b = f.at /\ j = Len(g.body[f.at]) /\ g.body[b][j] = i
      BY <2>2
    <3> QED
      BY <1>4, <3>1
  <2> QED
    BY <2>1, <2>2
<1> QED
  BY <1>5 DEF UsesPrecede

\* Instruction i brings an edge from the insertion block to b.
Brings(i, b) == i.op \in Terminators /\ \E k \in DOMAIN i.bbs : i.bbs[k] = b

\* The edges of the function once instruction i is added.
LEMMA AddedEdges ==
  ASSUME NEW f, NEW g, NEW i, Added(f, g, i), NEW a, NEW b
  PROVE  Edge(g, a, b) <=> Edge(f, a, b) \/ (a = f.at /\ Brings(i, b))
<1> USE DEF Added
<1>1. ASSUME Edge(f, a, b)
      PROVE  Edge(g, a, b)
  <2>1. PICK j \in DOMAIN f.body[a] :
          f.body[a][j].op \in Terminators /\ \E k \in DOMAIN f.body[a][j].bbs : f.body[a][j].bbs[k] = b
    BY <1>1 DEF Edge
  <2>2. a \in Blocks(f)
    BY <1>1 DEF Edge
  <2>3. j \in DOMAIN g.body[a] /\ g.body[a][j] = f.body[a][j]
    BY <2>2
  <2> QED
    BY <2>1, <2>2, <2>3 DEF Edge
<1>2. ASSUME a = f.at, Brings(i, b)
      PROVE  Edge(g, a, b)
  BY <1>2 DEF Edge, Brings
<1>3. ASSUME Edge(g, a, b), ~ Edge(f, a, b)
      PROVE  a = f.at /\ Brings(i, b)
  <2>1. PICK j \in DOMAIN g.body[a] :
          g.body[a][j].op \in Terminators /\ \E k \in DOMAIN g.body[a][j].bbs : g.body[a][j].bbs[k] = b
    BY <1>3 DEF Edge
  <2>2. a \in Blocks(f)
    BY <1>3 DEF Edge
  <2>3. CASE j \in DOMAIN f.body[a]
    <3>1. g.body[a][j] = f.body[a][j]
      BY <2>2, <2>3
    <3> QED
      BY <1>3, <2>1, <2>2, <2>3, <3>1 DEF Edge
  <2>4. CASE j \notin DOMAIN f.body[a]
    <3>1. a = f.at /\ g.body[a][j] = i
      BY <2>2, <2>4
    <3> QED
      BY <2>1, <3>1 DEF Brings
  <2> QED
    BY <2>3, <2>4
<1> QED
  BY <1>1, <1>2, <1>3

\* What the ranks of a sound function are.
LEMMA RankFacts ==
  ASSUME NEW f, NEW r, Sound(f, r)
  PROVE  /\ f \in Function /\ f.at \in Blocks(f) /\ f.at \in Nat /\ Blocks(f) \subseteq Nat
         /\ \A b \in Nat : r[b] \in Nat
         /\ r[f.at] # 0 /\ 1 \in Blocks(f)
<1>1. f \in Function /\ f.at \in Blocks(f) /\ r \in [Nat -> Nat] /\ r[1] = 1
  BY DEF Sound, WellFormed, Ranked
<1>2. Blocks(f) = 1 .. Len(f.body) /\ Len(f.body) \in Nat
  BY <1>1, BlockTypes
<1>3. r[1] <= r[f.at] /\ f.at \in Nat
  BY <1>1, <1>2 DEF Sound, Ranked
<1>4. 1 \in Blocks(f)
  BY <1>1, <1>2
<1>5. r[f.at] \in Nat /\ \A b \in Nat : r[b] \in Nat
  BY <1>1, <1>3
<1>6. r[f.at] # 0
  BY <1>1, <1>3, <1>5
<1>7. Blocks(f) \subseteq Nat
  BY <1>2
<1> QED
  BY <1>1, <1>3, <1>4, <1>5, <1>6, <1>7

\* An instruction that brings no edge leaves the ranks as they are.
LEMMA AddedRanked ==
  ASSUME NEW f, NEW g, NEW i, Added(f, g, i), NEW r, Sound(f, r), i.bbs = << >>
  PROVE  Ranked(g, r)
<1>1. \A a, b : Edge(g, a, b) <=> Edge(f, a, b)
  BY AddedEdges DEF Brings
<1>2. /\ g.at = f.at /\ Blocks(g) = Blocks(f) /\ r[f.at] # 0
      /\ \A b \in Blocks(f) : b # f.at => g.body[b] = f.body[b]
  BY RankFacts DEF Added
<1>3. \A b \in Blocks(g) : g.body[b] # << >> => r[b] # 0
  BY <1>2 DEF Sound, Ranked
<1> QED
  BY <1>1, <1>2, <1>3 DEF Sound, Ranked

\* Every instruction of f is still where it was.
Keeps(f, g) ==
  \A b \in Blocks(f) :
    /\ b \in Blocks(g)
    /\ \A j \in DOMAIN f.body[b] :
         /\ j \in DOMAIN g.body[b]
         /\ g.body[b][j].id = f.body[b][j].id
         /\ g.body[b][j].op = f.body[b][j].op
         /\ g.body[b][j].type = f.body[b][j].type

\* Keeping what was emitted, and where it was, is transitive.
LEMMA KeepsTrans ==
  ASSUME NEW f, NEW g, NEW h, Keeps(f, g), Keeps(g, h)
  PROVE  Keeps(f, h)
  BY DEF Keeps

\* Adding an instruction keeps the others.
LEMMA KeepsAdded ==
  ASSUME NEW f, NEW g, NEW i, Added(f, g, i)
  PROVE  Keeps(f, g)
  BY DEF Keeps, Added

\* What is kept when every instruction is.
LEMMA KeptUsable ==
  ASSUME NEW f, NEW g, Keeps(f, g)
  PROVE  \A v : Usable(f, v) => Usable(g, v)
<1>1. ASSUME NEW n, Emitted(f, n)
      PROVE  Emitted(g, n)
  <2>1. PICK b \in Blocks(f) : \E j \in DOMAIN f.body[b] : f.body[b][j].id = n
    BY <1>1 DEF Emitted
  <2>2. PICK j \in DOMAIN f.body[b] : f.body[b][j].id = n
    BY <2>1
  <2>3. b \in Blocks(g) /\ j \in DOMAIN g.body[b] /\ g.body[b][j].id = n
    BY <2>2 DEF Keeps
  <2> QED
    BY <2>3 DEF Emitted
<1> QED
  BY <1>1 DEF Usable

\* An activation goes on waiting when everything emitted is kept.
LEMMA KeptWaiting ==
  ASSUME NEW f, NEW g, f \in Function, g \in Function, Keeps(f, g), NEW l, Waiting(f, l)
  PROVE  Waiting(g, l)
<1>1. l.loop \in Blocks(f) /\ l.after \in Blocks(f) /\ f.body[l.loop] # << >>
  BY DEF Waiting
<1>2. f.body[l.loop] \in Seq(Instruction)
  BY <1>1, BlockTypes
<1>3. 1 \in DOMAIN f.body[l.loop]
  BY <1>1, <1>2
<1>4. /\ l.loop \in Blocks(g) /\ l.after \in Blocks(g)
      /\ 1 \in DOMAIN g.body[l.loop]
      /\ g.body[l.loop][1].id = f.body[l.loop][1].id
      /\ g.body[l.loop][1].op = f.body[l.loop][1].op
      /\ g.body[l.loop][1].type = f.body[l.loop][1].type
  BY <1>1, <1>3 DEF Keeps
<1>5. Usable(g, l.end)
  BY KeptUsable DEF Waiting
<1> QED
  BY <1>4, <1>5 DEF Waiting

\* An edge that is not brought to block b leaves b's phi as it should be.
LEMMA AddedMatched ==
  ASSUME NEW f, NEW g, NEW i, Added(f, g, i), NEW b \in Blocks(f), ~ Brings(i, b),
         b = f.at => i.op # "phi", Matched(f, b)
  PROVE  Matched(g, b)
<1>1. \A a : Edge(g, a, b) <=> Edge(f, a, b)
  BY AddedEdges
<1>2. ASSUME NEW j \in DOMAIN g.body[b], g.body[b][j].op = "phi"
      PROVE  j \in DOMAIN f.body[b] /\ g.body[b][j] = f.body[b][j]
  BY <1>2 DEF Added
<1> QED
  BY <1>1, <1>2 DEF Matched

\* A plain instruction: neither a phi nor a branch.
LEMMA PlainStep ==
  ASSUME NEW f, NEW g, NEW i, Added(f, g, i), NEW r, Sound(f, r),
         i.op # "phi", i.bbs = << >>, OpTyped(i),
         \A k \in DOMAIN i.args : Usable(f, i.args[k])
  PROVE  /\ Sound(g, r)
         /\ \A b \in Blocks(f) : Matched(f, b) => Matched(g, b)
         /\ \A v : Usable(f, v) => Usable(g, v)
<1>1. SeqRange(i.bbs) = {}
  BY DEF SeqRange
<1>2. WellFormed(g)
  BY <1>1, AddedWellFormed DEF Sound
<1>3. UsesPrecede(g, r)
  BY AddedUses
<1>4. Ranked(g, r)
  BY AddedRanked
<1>5. \A b \in Blocks(f) : Matched(f, b) => Matched(g, b)
  BY AddedMatched DEF Brings
<1> QED
  BY <1>2, <1>3, <1>4, <1>5, UsableAdded DEF Sound

\* A phi is created without operands, in a block that is empty.
LEMMA PhiStep ==
  ASSUME NEW f, NEW g, NEW i, Added(f, g, i), NEW r, Sound(f, r),
         i.op = "phi", i.bbs = << >>, i.args = << >>, f.body[f.at] = << >>
  PROVE  /\ Sound(g, r)
         /\ \A b \in Blocks(f) : b # f.at /\ Matched(f, b) => Matched(g, b)
<1>1. SeqRange(i.bbs) = {}
  BY DEF SeqRange
<1>2. OpTyped(i)
  BY DEF OpTyped
<1>3. i.op \notin Terminators
  BY DEF Terminators
<1>4. WellFormed(g)
  BY <1>1, <1>2, <1>3, AddedWellFormed DEF Sound
<1>5. UsesPrecede(g, r)
  BY AddedUses
<1>6. Ranked(g, r)
  BY AddedRanked
<1>7. \A b \in Blocks(f) : b # f.at /\ Matched(f, b) => Matched(g, b)
  BY AddedMatched DEF Brings
<1> QED
  BY <1>4, <1>5, <1>6, <1>7 DEF Sound

\* The builder moved to block t; the code is the same.
Moved(g, h, t) ==
  /\ h \in Function /\ h.params = g.params /\ h.ret = g.ret /\ h.next = g.next
  /\ h.body = g.body /\ h.at = t

\* SetInsertPointAtEnd moves the insertion point and nothing else.
LEMMA SetInsertMoves ==
  ASSUME NEW g \in Function, NEW t \in Nat
  PROVE  Moved(g, SetInsertPointAtEnd(g, t), t)
  BY DEF Function, SetInsertPointAtEnd, Moved

\* Nothing but the insertion point tells the two apart.
LEMMA MovedSame ==
  ASSUME NEW g, NEW h, NEW t, Moved(g, h, t)
  PROVE  /\ Blocks(h) = Blocks(g)
         /\ \A a, b : Edge(h, a, b) <=> Edge(g, a, b)
         /\ \A b : Matched(h, b) <=> Matched(g, b)
         /\ Keeps(g, h)
         /\ t \in Blocks(g) /\ WellFormed(g) => WellFormed(h)
         /\ \A v : Usable(h, v) <=> Usable(g, v)
<1>1. Blocks(h) = Blocks(g) /\ h.body = g.body
  BY DEF Blocks, Moved
<1>2. \A a, b : Edge(h, a, b) <=> Edge(g, a, b)
  BY <1>1 DEF Edge
<1>3. \A b : Matched(h, b) <=> Matched(g, b)
  BY <1>1, <1>2 DEF Matched
<1>4. Keeps(g, h)
  BY <1>1 DEF Keeps
<1>5. ASSUME t \in Blocks(g), WellFormed(g)
      PROVE  WellFormed(h)
  <2>1. UniqueIds(h)
    BY <1>1, <1>5 DEF WellFormed, UniqueIds
  <2>2. ASSUME NEW b \in Blocks(h), NEW j \in DOMAIN h.body[b]
        PROVE  Fits(h, h.body[b][j], j)
    <3>1. Fits(g, g.body[b][j], j)
      BY <1>1, <1>5 DEF WellFormed
    <3>2. h.next = g.next /\ h.body[b][j] = g.body[b][j]
      BY <1>1 DEF Moved
    <3> QED
      BY <1>1, <3>1, <3>2 DEF Fits
  <2>3. h \in Function /\ h.params = g.params /\ h.ret = g.ret /\ h.at = t
    BY DEF Moved
  <2> QED
    BY <1>1, <1>5, <2>1, <2>2, <2>3 DEF WellFormed
<1>6. \A v : Usable(h, v) <=> Usable(g, v)
  BY <1>1 DEF Usable, Emitted
<1> QED
  BY <1>1, <1>2, <1>3, <1>4, <1>5, <1>6

\* The old instructions when blocks are renumbered or changed elsewhere.
LEMMA UsesRenumbered ==
  ASSUME NEW g, NEW h, NEW r, NEW q, WellFormed(g), UsesPrecede(g, r),
         \A b \in Blocks(g) : Len(h.body[b]) = Len(g.body[b]),
         \A n : \A b \in Blocks(g) : \A j \in Nat :
            Precedes(g, r, n, b, j) => Precedes(h, q, n, b, j)
  PROVE  \A b \in Blocks(g) : \A j \in DOMAIN g.body[b] :
            OperandsPrecede(h, q, g.body[b][j], b, j)
<1>1. g \in Function
  BY DEF WellFormed
<1>2. ASSUME NEW b \in Blocks(g), NEW j \in DOMAIN g.body[b]
      PROVE  OperandsPrecede(h, q, g.body[b][j], b, j)
  <2> DEFINE i == g.body[b][j]
  <2>1. OperandsPrecede(g, r, i, b, j) /\ Fits(g, i, j) /\ i \in Instruction
    BY <1>1, BlockTypes DEF UsesPrecede, WellFormed
  <2>2. j \in Nat
    BY <1>1, BlockTypes
  <2> SUFFICES ASSUME NEW k \in DOMAIN i.args, i.args[k].kind = "inst"
               PROVE  IF i.op = "phi"
                      THEN Precedes(h, q, i.args[k].n, i.bbs[k], Len(h.body[i.bbs[k]]) + 1)
                      ELSE Precedes(h, q, i.args[k].n, b, j)
    BY DEF OperandsPrecede
  <2> HIDE DEF i
  <2>3. CASE i.op = "phi"
    <3>1. k \in DOMAIN i.bbs
      BY <2>1, <2>3 DEF Fits, Instruction
    <3>2. i.bbs[k] \in Blocks(g)
      BY <2>1, <3>1 DEF Fits, SeqRange
    <3>3. Precedes(g, r, i.args[k].n, i.bbs[k], Len(g.body[i.bbs[k]]) + 1)
      BY <2>1, <2>3 DEF OperandsPrecede
    <3>4. PICK a \in Blocks(g) : a = i.bbs[k]
      BY <3>2
    <3>5. Len(g.body[a]) + 1 \in Nat /\ Len(h.body[a]) = Len(g.body[a])
      BY <1>1, BlockTypes
    <3> QED
      BY <2>3, <3>3, <3>4, <3>5
  <2>4. CASE i.op # "phi"
    BY <2>1, <2>2, <2>4 DEF OperandsPrecede
  <2> QED
    BY <2>3, <2>4
<1> QED
  BY <1>2

\* A branch to block t, empty and not entered yet, and the move there.
LEMMA JumpStep ==
  ASSUME NEW f, NEW g, NEW i, Added(f, g, i), NEW r, Sound(f, r),
         NEW h, NEW t \in Nat, Moved(g, h, t),
         i.op \in Terminators, OpTyped(i), \A k \in DOMAIN i.args : Usable(f, i.args[k]),
         SeqRange(i.bbs) \subseteq Blocks(f) \ {1}, t \in SeqRange(i.bbs),
         f.body[t] = << >>, r[t] = 0,
         \A b \in SeqRange(i.bbs) : b # t => r[b] # 0
  PROVE  /\ Sound(h, [r EXCEPT ![t] = r[f.at] + 1])
         /\ \A b \in Blocks(f) : b \notin SeqRange(i.bbs) /\ Matched(f, b) => Matched(h, b)
<1> DEFINE q == [r EXCEPT ![t] = r[f.at] + 1]
<1>1. i.op # "phi"
  BY DEF Terminators
<1>2. \A b : Brings(i, b) <=> b \in SeqRange(i.bbs)
  BY DEF Brings, SeqRange
<1>3. WellFormed(g)
  BY <1>1, AddedWellFormed DEF Sound
<1>4. t \in Blocks(g) /\ Blocks(g) = Blocks(f)
  BY DEF Added
<1>5. WellFormed(h) /\ Blocks(h) = Blocks(g) /\ h.at = t
  BY <1>3, <1>4, MovedSame DEF Moved
<1>6. /\ f.at \in Nat /\ Blocks(f) \subseteq Nat /\ r[f.at] # 0 /\ r[f.at] \in Nat
      /\ \A b \in Nat : r[b] \in Nat
      /\ r \in [Nat -> Nat] /\ t # f.at
  BY RankFacts DEF Sound, Ranked
<1>7. PICK m \in Nat : /\ m = r[f.at] /\ m # 0
                       /\ q \in [Nat -> Nat] /\ q[t] = m + 1
                       /\ \A b \in Nat : b # t => q[b] = r[b]
  <2>1. PICK m \in Nat : m = r[f.at]
    BY <1>6
  <2>2. q = [r EXCEPT ![t] = m + 1] /\ m + 1 \in Nat
    BY <2>1
  <2> HIDE DEF q
  <2> QED
    BY <1>6, <2>1, <2>2
<1> HIDE DEF q
<1>8. \A a, b : Edge(h, a, b) <=> Edge(f, a, b) \/ (a = f.at /\ b \in SeqRange(i.bbs))
  BY <1>2, AddedEdges, MovedSame
<1>9. Ranked(h, q)
  <2>1. q[1] = 1 /\ \A b \in Nat : q[b] <= q[t]
    <3>1. r[1] = 1 /\ 1 # t /\ \A b \in Nat : r[b] <= r[f.at]
      BY DEF Sound, Ranked
    <3>2. ASSUME NEW b \in Nat PROVE q[b] <= q[t]
      <4>1. r[b] \in Nat /\ r[b] <= m
        BY <1>6, <1>7, <3>1
      <4>2. b = t \/ q[b] = r[b]
        BY <1>7
      <4>3. q[t] = m + 1
        BY <1>7
      <4> QED
        BY <4>1, <4>2, <4>3
    <3> QED
      BY <1>7, <3>1, <3>2
  <2>2. ASSUME NEW a \in Nat, NEW b \in Nat, q[a] = q[b], q[a] # 0
        PROVE  a = b
    <3>1. ASSUME NEW c \in Nat, c # t PROVE q[c] # q[t]
      <4>1. r[c] \in Nat /\ r[c] <= m
        BY <1>6, <1>7 DEF Sound, Ranked
      <4>2. q[c] = r[c] /\ q[t] = m + 1
        BY <1>7, <3>1
      <4> QED
        BY <4>1, <4>2
    <3>2. r[a] = r[b] /\ r[a] # 0 => a = b
      BY DEF Sound, Ranked
    <3> QED
      BY <1>7, <2>2, <3>1, <3>2
  <2>3. \A b \in Nat : b \notin Blocks(h) => q[b] = 0
    BY <1>4, <1>5, <1>7 DEF Sound, Ranked
  <2>4. ASSUME NEW b \in Blocks(h), h.body[b] # << >>
        PROVE  q[b] # 0
    <3>1. CASE b = t
      <4>1. q[b] = m + 1
        BY <1>7, <3>1
      <4> QED
        BY <4>1
    <3>2. CASE b = f.at
      <4>1. q[b] = m /\ m # 0
        BY <1>6, <1>7, <3>2
      <4> QED
        BY <4>1
    <3>3. CASE b # t /\ b # f.at
      <4>1. h.body[b] = f.body[b] /\ b \in Blocks(f) /\ b \in Nat
        BY <1>4, <1>5, <1>6, <3>3 DEF Added, Moved
      <4>2. r[b] # 0
        BY <2>4, <4>1 DEF Sound, Ranked
      <4> QED
        BY <1>7, <3>3, <4>1, <4>2
    <3> QED
      BY <3>1, <3>2, <3>3
  <2>5. ASSUME NEW a \in Nat, NEW b \in Nat, Edge(h, a, b)
        PROVE  q[b] # 0 /\ q[b] <= q[a] + 1
    <3>1. r[a] \in Nat /\ r[b] \in Nat /\ r[b] <= m
      BY <1>6, <1>7 DEF Sound, Ranked
    <3>2. q[f.at] = m /\ q[t] = m + 1 /\ (b # t => q[b] = r[b])
      BY <1>6, <1>7
    <3>3. b \in SeqRange(i.bbs) /\ b # t => r[b] # 0
      OBVIOUS
    <3>4. CASE Edge(f, a, b)
      <4>1. r[b] # 0 /\ r[b] <= r[a] + 1
        BY <3>4 DEF Sound, Ranked
      <4>2. a # t
        BY <3>4 DEF Edge
      <4> QED
        BY <1>7, <4>1, <4>2
    <3>5. CASE a = f.at /\ b = t
      BY <3>5, <3>2
    <3>6. CASE a = f.at /\ b \in SeqRange(i.bbs) /\ b # t
      BY <3>1, <3>6, <3>2, <3>3
    <3> QED
      BY <1>8, <2>5, <3>4, <3>5, <3>6
  <2> QED
    BY <1>5, <1>6, <1>7, <2>1, <2>2, <2>3, <2>4, <2>5 DEF Ranked
<1>10. UsesPrecede(h, q)
  <2>1. UsesPrecede(g, r)
    BY <1>1, AddedUses
  <2>2. h.body = g.body
    BY DEF Moved
  <2>3. ASSUME NEW n, NEW b \in Blocks(g), NEW j \in Nat, Precedes(g, r, n, b, j)
        PROVE  Precedes(h, q, n, b, j)
    <3>1. PICK c \in Blocks(g) : \E l \in DOMAIN g.body[c] :
            g.body[c][l].id = n /\ ((c = b /\ l < j) \/ (c # b /\ r[c] < r[b]))
      BY <2>3 DEF Precedes
    <3>2. PICK l \in DOMAIN g.body[c] :
            g.body[c][l].id = n /\ ((c = b /\ l < j) \/ (c # b /\ r[c] < r[b]))
      BY <3>1
    <3>3. c # t
      <4>1. g.body[t] = << >>
        BY <1>4, <1>6 DEF Added
      <4> QED
        BY <3>2, <4>1
    <3>4. c \in Nat /\ b \in Nat /\ r[c] \in Nat /\ r[b] \in Nat
      BY <1>4, <1>6
    <3>5. ASSUME r[c] < r[b] PROVE q[c] < q[b]
      <4>1. b # t
        BY <3>4, <3>5
      <4>2. q[c] = r[c] /\ q[b] = r[b]
        BY <1>7, <3>3, <3>4, <4>1
      <4> QED
        BY <3>5, <4>2
    <3>6. (c = b /\ l < j) \/ (c # b /\ q[c] < q[b])
      BY <3>2, <3>5
    <3> QED
      BY <1>5, <2>2, <3>2, <3>6 DEF Precedes
  <2>4. \A b \in Blocks(g) : Len(h.body[b]) = Len(g.body[b])
    BY <2>2
  <2>5. \A b \in Blocks(g) : \A j \in DOMAIN g.body[b] : OperandsPrecede(h, q, g.body[b][j], b, j)
    BY <1>3, <2>1, <2>3, <2>4, UsesRenumbered
  <2> QED
    BY <1>5, <2>2, <2>5 DEF UsesPrecede
<1>11. ASSUME NEW b \in Blocks(f), b \notin SeqRange(i.bbs), Matched(f, b)
       PROVE  Matched(h, b)
  BY <1>1, <1>2, <1>11, AddedMatched, MovedSame
<1> QED
  BY <1>5, <1>9, <1>10, <1>11 DEF Sound, q

\* Block b consists of the same instructions, but for their operands.
Similar(f, g, b) ==
  /\ Len(g.body[b]) = Len(f.body[b]) /\ DOMAIN g.body[b] = DOMAIN f.body[b]
  /\ (g.body[b] = << >>) <=> (f.body[b] = << >>)
  /\ \A j \in DOMAIN f.body[b] : g.body[b][j].op = f.body[b][j].op

\* A block that ends as before is open or closed as before.
LEMMA SimilarBlocks ==
  ASSUME NEW f, NEW g, NEW b, Similar(f, g, b)
  PROVE  /\ IsOpen(f.body[b]) => IsOpen(g.body[b])
         /\ IsClosed(f.body[b]) => IsClosed(g.body[b])
  BY DEF Similar, IsOpen, IsClosed

\* Ending as before is transitive.
LEMMA SimilarTrans ==
  ASSUME NEW f, NEW g, NEW h, NEW b, Similar(f, g, b), Similar(g, h, b)
  PROVE  Similar(f, h, b)
  BY DEF Similar

\* Function g is f with an empty block L at the end.
Extended(f, g, L) ==
  /\ f \in Function /\ g \in Function
  /\ g.params = f.params /\ g.ret = f.ret /\ g.at = f.at /\ g.next = f.next
  /\ L \in Nat \ {1} /\ L \notin Blocks(f) /\ L = Len(g.body)
  /\ Blocks(g) = Blocks(f) \cup {L} /\ g.body[L] = << >>
  /\ \A b \in Blocks(f) : g.body[b] = f.body[b]

\* AddBasicBlock adds one block, empty, which nothing refers to.
LEMMA AddBlockExtends ==
  ASSUME NEW f \in Function, 1 \in Blocks(f)
  PROVE  Extended(f, AddBasicBlock(f), LastBlock(AddBasicBlock(f)))
<1> DEFINE g == AddBasicBlock(f)
           I == Seq(Instruction)
           body == f.body
           L == Len(body) + 1
<1>1. << >> \in I
  OBVIOUS
<1>2. body \in Seq(I)
  BY BlockTypes
<1>3. g = [f EXCEPT !.body = Append(body, << >>)]
  BY DEF AddBasicBlock
<1>4. g.body = Append(body, << >>) /\ g.params = f.params /\ g.ret = f.ret /\ g.at = f.at /\ g.next = f.next
  BY <1>3 DEF Function
<1> HIDE DEF g, I
<1>5. /\ Append(body, << >>) \in Seq(I) /\ Len(Append(body, << >>)) = L
      /\ Append(body, << >>)[L] = << >> /\ Len(body) \in Nat
      /\ DOMAIN body = 1 .. Len(body) /\ DOMAIN Append(body, << >>) = 1 .. L
      /\ \A b \in 1 .. Len(body) : Append(body, << >>)[b] = body[b]
  <2> HIDE DEF body
  <2> QED
    BY <1>1, <1>2, AppendProperties
<1> HIDE DEF body
<1>6. /\ g.body \in Seq(I) /\ Len(g.body) = L /\ g.body[L] = << >> /\ Len(body) \in Nat
      /\ DOMAIN body = 1 .. Len(body) /\ DOMAIN g.body = 1 .. L
      /\ \A b \in 1 .. Len(body) : g.body[b] = body[b]
  BY <1>4, <1>5, Zenon
<1>7. L \in Nat \ {1} /\ L \notin DOMAIN body /\ DOMAIN g.body = DOMAIN body \cup {L}
  <2>1. 1 \in DOMAIN body
    BY DEF Blocks, body
  <2> QED
    BY <1>6, <2>1
<1>8. \A b \in DOMAIN body : g.body[b] = body[b]
  BY <1>6
<1>9. g \in Function
  <2>1. g = [params |-> g.params, ret |-> g.ret, body |-> g.body, at |-> g.at, next |-> g.next]
    BY <1>3 DEF Function
  <2>2. /\ f.params \in Seq(Types) /\ f.ret \in Types /\ f.at \in Nat /\ f.next \in Nat
    BY DEF Function
  <2> QED
    BY <1>4, <1>6, <2>1, <2>2 DEF Function, I
<1> QED
  BY <1>4, <1>6, <1>7, <1>8, <1>9 DEF Extended, Blocks, LastBlock, g, body

\* A new block changes nothing but that it is there.
LEMMA ExtendedStep ==
  ASSUME NEW f, NEW g, NEW L, Extended(f, g, L), NEW r, Sound(f, r)
  PROVE  /\ Sound(g, r) /\ r[L] = 0
         /\ \A a, b : Edge(g, a, b) <=> Edge(f, a, b)
         /\ \A b \in Blocks(f) : Matched(f, b) => Matched(g, b)
         /\ Keeps(f, g)
         /\ \A b \in Blocks(f) : Similar(f, g, b)
<1> USE DEF Extended
<1>1. Keeps(f, g)
  BY DEF Keeps
<1>2. ASSUME NEW a, NEW b
      PROVE  Edge(g, a, b) <=> Edge(f, a, b)
  <2>1. ASSUME Edge(g, a, b) PROVE Edge(f, a, b)
    <3>1. a # L
      BY <2>1 DEF Edge
    <3>2. a \in Blocks(f) /\ g.body[a] = f.body[a]
      BY <2>1, <3>1 DEF Edge
    <3> QED
      BY <2>1, <3>2 DEF Edge
  <2>2. ASSUME Edge(f, a, b) PROVE Edge(g, a, b)
    <3>1. a \in Blocks(f) /\ g.body[a] = f.body[a] /\ a \in Blocks(g)
      BY <2>2 DEF Edge
    <3> QED
      BY <2>2, <3>1 DEF Edge
  <2> QED
    BY <2>1, <2>2
<1>3. \A b \in Blocks(f) : Matched(f, b) => Matched(g, b)
  BY <1>2 DEF Matched
<1>4. WellFormed(g)
  <2>1. WellFormed(f)
    BY DEF Sound
  <2>2. ASSUME NEW b \in Blocks(g), NEW j \in DOMAIN g.body[b]
        PROVE  Fits(g, g.body[b][j], j)
    <3>1. b \in Blocks(f) /\ g.body[b] = f.body[b]
      OBVIOUS
    <3>2. Fits(f, f.body[b][j], j)
      BY <2>1, <3>1 DEF WellFormed
    <3> QED
      BY <3>1, <3>2 DEF Fits
  <2>3. \A b \in Blocks(g) : \A j \in DOMAIN g.body[b] : b \in Blocks(f) /\ g.body[b] = f.body[b]
    OBVIOUS
  <2>4. UniqueIds(g)
    BY <2>1, <2>3 DEF WellFormed, UniqueIds
  <2> QED
    BY <2>1, <2>2, <2>4 DEF WellFormed
<1>5. Ranked(g, r)
  <2>1. Ranked(f, r)
    BY DEF Sound
  <2>2. \A b \in Blocks(g) : g.body[b] # << >> => r[b] # 0
    BY <2>1 DEF Ranked
  <2> QED
    BY <1>2, <2>1, <2>2 DEF Ranked
<1>6. UsesPrecede(g, r)
  <2>1. WellFormed(f) /\ UsesPrecede(f, r) /\ \A b \in Blocks(f) : Len(g.body[b]) = Len(f.body[b])
    BY DEF Sound
  <2>2. ASSUME NEW n, NEW b \in Blocks(f), NEW j \in Nat, Precedes(f, r, n, b, j)
        PROVE  Precedes(g, r, n, b, j)
    <3>1. PICK c \in Blocks(f) : \E l \in DOMAIN f.body[c] :
            f.body[c][l].id = n /\ ((c = b /\ l < j) \/ (c # b /\ r[c] < r[b]))
      BY <2>2 DEF Precedes
    <3>2. c \in Blocks(g) /\ g.body[c] = f.body[c]
      OBVIOUS
    <3> QED
      BY <3>1, <3>2 DEF Precedes
  <2>3. \A b \in Blocks(f) : \A j \in DOMAIN f.body[b] : OperandsPrecede(g, r, f.body[b][j], b, j)
    BY <2>1, <2>2, UsesRenumbered
  <2>4. \A b \in Blocks(g) : \A j \in DOMAIN g.body[b] : b \in Blocks(f) /\ g.body[b] = f.body[b]
    OBVIOUS
  <2> QED
    BY <2>3, <2>4 DEF UsesPrecede
<1>7. \A b \in Blocks(f) : Similar(f, g, b)
  BY DEF Similar
<1>8. r[L] = 0
  BY DEF Sound, Ranked
<1> QED
  BY <1>1, <1>2, <1>3, <1>4, <1>5, <1>6, <1>7, <1>8 DEF Sound

\* Sequence t is s with element e at its end.
EndsWith(s, t, e) ==
  /\ Len(t) = Len(s) + 1 /\ Len(t) \in DOMAIN t /\ t[Len(t)] = e /\ Len(t) \notin DOMAIN s
  /\ \A k \in DOMAIN s : k \in DOMAIN t /\ t[k] = s[k]
  /\ \A k \in DOMAIN t : k \in DOMAIN s \/ k = Len(t)

\* A sequence with one element more, and where that element is.
LEMMA AppendEnds ==
  ASSUME NEW T, NEW s \in Seq(T), NEW e \in T
  PROVE  s \o <<e>> \in Seq(T) /\ EndsWith(s, s \o <<e>>, e)
<1> DEFINE u == s \o <<e>>
<1>1. u = Append(s, e)
  BY AppendIsConcat
<1>2. /\ Append(s, e) \in Seq(T) /\ Len(Append(s, e)) = Len(s) + 1
      /\ Append(s, e)[Len(s) + 1] = e /\ Len(s) \in Nat
      /\ DOMAIN s = 1 .. Len(s) /\ DOMAIN Append(s, e) = 1 .. Len(s) + 1
      /\ \A j \in 1 .. Len(s) : Append(s, e)[j] = s[j]
  BY AppendProperties
<1> HIDE DEF u
<1>3. /\ u \in Seq(T) /\ Len(u) = Len(s) + 1 /\ u[Len(s) + 1] = e /\ Len(s) \in Nat
      /\ DOMAIN s = 1 .. Len(s) /\ DOMAIN u = 1 .. Len(s) + 1
      /\ \A j \in 1 .. Len(s) : u[j] = s[j]
  BY <1>1, <1>2, Zenon
<1>4. EndsWith(s, u, e)
  BY <1>3 DEF EndsWith
<1> QED
  BY <1>3, <1>4 DEF u

\* Function g is f with an incoming edge more, value v from block x, for the
\* instruction at element l of block c.
Fed(f, g, c, l, v, x) ==
  /\ f \in Function /\ g \in Function
  /\ g.params = f.params /\ g.ret = f.ret /\ g.at = f.at /\ g.next = f.next
  /\ Blocks(g) = Blocks(f) /\ c \in Blocks(f) /\ l \in DOMAIN f.body[c]
  /\ \A b \in Blocks(f) : Similar(f, g, b)
  /\ \A b \in Blocks(f) : \A j \in DOMAIN f.body[b] :
        b # c \/ j # l => g.body[b][j] = f.body[b][j]
  /\ g.body[c][l].id = f.body[c][l].id /\ g.body[c][l].op = f.body[c][l].op
  /\ g.body[c][l].type = f.body[c][l].type
  /\ EndsWith(f.body[c][l].args, g.body[c][l].args, v)
  /\ EndsWith(f.body[c][l].bbs, g.body[c][l].bbs, x)

\* AddIncoming gives one phi one operand more, and changes nothing else.
LEMMA AddIncomingFeeds ==
  ASSUME NEW f \in Function, UniqueIds(f), NEW c \in Blocks(f), NEW l \in DOMAIN f.body[c],
         NEW phi, phi.n = f.body[c][l].id, NEW v \in Value, NEW x \in Nat
  PROVE  Fed(f, AddIncoming(f, phi, <<v>>, <<x>>), c, l, v, x)
<1> DEFINE I == Instruction
           i == f.body[c][l]
           w == WithIncoming(i, <<v>>, <<x>>)
           B(b) == [j \in DOMAIN f.body[b] |->
                      IF f.body[b][j].id = phi.n THEN WithIncoming(f.body[b][j], <<v>>, <<x>>)
                      ELSE f.body[b][j]]
           h == [b \in DOMAIN f.body |-> B(b)]
           g == AddIncoming(f, phi, <<v>>, <<x>>)
<1>1. g = [f EXCEPT !.body = h]
  BY DEF AddIncoming, Rewrite
<1>2. i \in Instruction /\ Blocks(f) = DOMAIN f.body
  BY BlockTypes DEF Blocks
<1>3. /\ i.args \o <<v>> \in Seq(Value) /\ EndsWith(i.args, i.args \o <<v>>, v)
      /\ i.bbs \o <<x>> \in Seq(Nat) /\ EndsWith(i.bbs, i.bbs \o <<x>>, x)
  <2>1. i.args \in Seq(Value) /\ i.bbs \in Seq(Nat)
    BY <1>2 DEF Instruction
  <2> HIDE DEF i
  <2> QED
    BY <2>1, AppendEnds
<1>4. /\ w \in I /\ w.id = i.id /\ w.op = i.op /\ w.type = i.type
      /\ EndsWith(i.args, w.args, v) /\ EndsWith(i.bbs, w.bbs, x)
  <2> DEFINE a == i.args \o <<v>>
             d == i.bbs \o <<x>>
  <2>1. w = [id |-> i.id, op |-> i.op, type |-> i.type, fast |-> i.fast, args |-> a, bbs |-> d]
    BY DEF WithIncoming
  <2>2. a \in Seq(Value) /\ d \in Seq(Nat) /\ EndsWith(i.args, a, v) /\ EndsWith(i.bbs, d, x)
    BY <1>3
  <2> HIDE DEF a, d, w, i
  <2>3. w \in Instruction
    BY <1>2, <2>1, <2>2 DEF Instruction
  <2> QED
    BY <2>1, <2>2, <2>3
<1> HIDE DEF w, i
<1>5. ASSUME NEW b \in Blocks(f)
      PROVE  /\ h[b] \in Seq(I) /\ Len(h[b]) = Len(f.body[b]) /\ DOMAIN h[b] = DOMAIN f.body[b]
             /\ (h[b] = << >>) <=> (f.body[b] = << >>)
             /\ \A j \in DOMAIN f.body[b] : b # c \/ j # l => h[b][j] = f.body[b][j]
             /\ b = c => h[b][l] = w
  <2>1. h[b] = B(b)
    BY <1>2
  <2>2. ASSUME NEW j \in DOMAIN f.body[b]
        PROVE  f.body[b][j].id = phi.n <=> (b = c /\ j = l)
    BY <1>2 DEF UniqueIds
  <2>3. f.body[b] \in Seq(Instruction) /\ DOMAIN f.body[b] = 1 .. Len(f.body[b]) /\ Len(f.body[b]) \in Nat
        /\ \A j \in DOMAIN f.body[b] : f.body[b][j] \in Instruction
    BY BlockTypes
  <2>4. /\ \A j \in DOMAIN f.body[b] : b # c \/ j # l => B(b)[j] = f.body[b][j]
        /\ b = c => B(b)[l] = w
    BY <2>2 DEF w, i
  <2>5. DOMAIN B(b) = DOMAIN f.body[b]
    OBVIOUS
  <2>6. ASSUME NEW j \in DOMAIN f.body[b]
        PROVE  B(b)[j] \in I
    BY <1>4, <2>3, <2>4
  <2> DEFINE k == B(b)
  <2>7. k = [j \in DOMAIN f.body[b] |-> k[j]]
    OBVIOUS
  <2> HIDE DEF k, h, I
  <2>8. k \in [1 .. Len(f.body[b]) -> I]
    BY <2>3, <2>6, <2>7 DEF k
  <2>9. k \in Seq(I) /\ Len(k) = Len(f.body[b])
    BY <2>3, <2>8, SeqDef
  <2>10. (k = << >>) <=> (f.body[b] = << >>)
    BY <2>3, <2>9, EmptySeq
  <2> QED
    BY <2>1, <2>4, <2>5, <2>9, <2>10 DEF k
<1>6. DOMAIN h = DOMAIN f.body
  OBVIOUS
<1> HIDE DEF h
<1>7. g.body = h /\ g.params = f.params /\ g.ret = f.ret /\ g.at = f.at /\ g.next = f.next
  BY <1>1 DEF Function
<1>8. g \in Function
  <2>1. h \in Seq(Seq(I))
    <3>1. DOMAIN h = 1 .. Len(f.body) /\ Len(f.body) \in Nat
      BY <1>2, <1>6, BlockTypes
    <3>2. \A b \in 1 .. Len(f.body) : h[b] \in Seq(I)
      BY <1>2, <1>5, <1>6, <3>1
    <3>3. h = [b \in DOMAIN h |-> h[b]]
      BY DEF h
    <3>4. h \in [1 .. Len(f.body) -> Seq(I)]
      BY <3>1, <3>2, <3>3
    <3> QED
      BY <3>1, <3>4, SeqDef
  <2>2. g = [params |-> g.params, ret |-> g.ret, body |-> h, at |-> g.at, next |-> g.next]
    BY <1>1 DEF Function
  <2>3. f.params \in Seq(Types) /\ f.ret \in Types /\ f.at \in Nat /\ f.next \in Nat
    BY DEF Function
  <2> HIDE DEF g
  <2> QED
    BY <1>7, <2>1, <2>2, <2>3 DEF Function
<1> HIDE DEF g
<1>9. Blocks(g) = Blocks(f)
  BY <1>6, <1>7 DEF Blocks
<1>10. \A b \in Blocks(f) : Similar(f, g, b)
  <2> SUFFICES ASSUME NEW b \in Blocks(f) PROVE Similar(f, g, b)
    OBVIOUS
  <2>1. \A j \in DOMAIN f.body[b] : h[b][j].op = f.body[b][j].op
    BY <1>4, <1>5 DEF i
  <2> QED
    BY <1>5, <1>7, <2>1 DEF Similar
<1>11. g.body[c][l] = w /\ \A b \in Blocks(f) : \A j \in DOMAIN f.body[b] :
          b # c \/ j # l => g.body[b][j] = f.body[b][j]
  BY <1>5, <1>7
<1> QED
  BY <1>4, <1>7, <1>8, <1>9, <1>10, <1>11 DEF Fed, g, i

\* A block with the same instructions and the same edges is as well matched.
LEMMA MatchedSame ==
  ASSUME NEW f, NEW g, NEW b, Matched(f, b),
         \A j \in DOMAIN g.body[b] : j \in DOMAIN f.body[b] /\ g.body[b][j] = f.body[b][j],
         \A a, c : Edge(g, a, c) <=> Edge(f, a, c)
  PROVE  Matched(g, b)
<1> SUFFICES ASSUME NEW j \in DOMAIN g.body[b], g.body[b][j].op = "phi"
             PROVE  LET bbs == g.body[b][j].bbs
                    IN  /\ \A a \in Nat : Edge(g, a, b) <=> \E k \in DOMAIN bbs : bbs[k] = a
                        /\ \A k, m \in DOMAIN bbs : bbs[k] = bbs[m] => k = m
  BY Zenon DEF Matched
<1> DEFINE s == f.body[b][j].bbs
<1>1. /\ \A a \in Nat : Edge(f, a, b) <=> \E k \in DOMAIN s : s[k] = a
      /\ \A k, m \in DOMAIN s : s[k] = s[m] => k = m
  BY DEF Matched
<1> QED
  BY <1>1

\* A phi gets an incoming edge.
LEMMA FedStep ==
  ASSUME NEW f, NEW g, NEW c, NEW l, NEW v \in Value, NEW x \in Blocks(f),
         Fed(f, g, c, l, v, x), NEW r, Sound(f, r),
         f.body[c][l].op = "phi", v.type = f.body[c][l].type,
         v.kind = "inst" => Precedes(f, r, v.n, x, Len(f.body[x]) + 1)
  PROVE  /\ Sound(g, r)
         /\ \A a, b : Edge(g, a, b) <=> Edge(f, a, b)
         /\ \A b \in Blocks(f) : b # c /\ Matched(f, b) => Matched(g, b)
         /\ Keeps(f, g)
<1> USE DEF Fed
<1>1. \A b \in Blocks(f) : DOMAIN g.body[b] = DOMAIN f.body[b] /\ Len(g.body[b]) = Len(f.body[b])
  BY DEF Similar
<1>2. ASSUME NEW b \in Blocks(f), NEW j \in DOMAIN f.body[b]
      PROVE  /\ j \in DOMAIN g.body[b]
             /\ g.body[b][j].id = f.body[b][j].id
             /\ g.body[b][j].op = f.body[b][j].op
             /\ g.body[b][j].type = f.body[b][j].type
  BY <1>1
<1>3. Keeps(f, g)
  BY <1>2 DEF Keeps
<1>4. f.body[c][l].op \notin Terminators
  BY DEF Terminators
<1>5. ASSUME NEW a, NEW b
      PROVE  Edge(g, a, b) <=> Edge(f, a, b)
  <2>1. ASSUME Edge(g, a, b) PROVE Edge(f, a, b)
    <3>1. PICK j \in DOMAIN g.body[a] :
            g.body[a][j].op \in Terminators /\ \E k \in DOMAIN g.body[a][j].bbs : g.body[a][j].bbs[k] = b
      BY <2>1 DEF Edge
    <3>2. a \in Blocks(f) /\ j \in DOMAIN f.body[a]
      BY <1>1, <2>1, <3>1 DEF Edge
    <3>3. a # c \/ j # l
      BY <1>4, <3>1
    <3>4. g.body[a][j] = f.body[a][j]
      BY <3>2, <3>3
    <3> QED
      BY <3>1, <3>2, <3>4 DEF Edge
  <2>2. ASSUME Edge(f, a, b) PROVE Edge(g, a, b)
    <3>1. PICK j \in DOMAIN f.body[a] :
            f.body[a][j].op \in Terminators /\ \E k \in DOMAIN f.body[a][j].bbs : f.body[a][j].bbs[k] = b
      BY <2>2 DEF Edge
    <3>2. a \in Blocks(f) /\ a \in Blocks(g) /\ j \in DOMAIN g.body[a]
      BY <1>1, <2>2, <3>1 DEF Edge
    <3>3. a # c \/ j # l
      BY <1>4, <3>1
    <3>4. g.body[a][j] = f.body[a][j]
      BY <3>2, <3>3
    <3> QED
      BY <3>1, <3>2, <3>4 DEF Edge
  <2> QED
    BY <2>1, <2>2
<1>6. ASSUME NEW b \in Blocks(f), b # c, Matched(f, b)
      PROVE  Matched(g, b)
  <2>1. \A j \in DOMAIN g.body[b] : j \in DOMAIN f.body[b] /\ g.body[b][j] = f.body[b][j]
    BY <1>1, <1>6
  <2> QED
    BY <1>5, <1>6, <2>1, MatchedSame
<1> DEFINE i == f.body[c][l]
           w == g.body[c][l]
<1>7. /\ i \in Instruction /\ w \in Instruction /\ Fits(f, i, l)
      /\ EndsWith(i.args, w.args, v) /\ EndsWith(i.bbs, w.bbs, x)
      /\ w.id = i.id /\ w.op = i.op /\ w.type = i.type
  BY BlockTypes, <1>1 DEF Sound, WellFormed
<1>8. WellFormed(g)
  <2>1. WellFormed(f)
    BY DEF Sound
  <2>2. Fits(g, w, l)
    <3> HIDE DEF i, w
    <3>1. i.op = "phi" /\ v.type = i.type
      BY DEF i
    <3>2. OpTyped(w)
      <4>1. \A k \in DOMAIN i.args : i.args[k].type = i.type
        BY <1>7, <3>1 DEF Fits, OpTyped
      <4>2. \A k \in DOMAIN w.args : w.args[k].type = w.type
        <5> SUFFICES ASSUME NEW k \in DOMAIN w.args PROVE w.args[k].type = w.type
          OBVIOUS
        <5>1. EndsWith(i.args, w.args, v) /\ w.type = i.type
          BY <1>7
        <5>2. CASE k \in DOMAIN i.args
          BY <4>1, <5>1, <5>2 DEF EndsWith
        <5>3. CASE k = Len(w.args)
          BY <3>1, <5>1, <5>3 DEF EndsWith
        <5> QED
          BY <5>1, <5>2, <5>3 DEF EndsWith
      <4>3. w.op = "phi"
        BY <1>7, <3>1
      <4> QED
        BY <4>2, <4>3 DEF OpTyped
    <3>3. SeqRange(w.bbs) \subseteq Blocks(g)
      <4> SUFFICES ASSUME NEW k \in DOMAIN w.bbs PROVE w.bbs[k] \in Blocks(f)
        BY DEF SeqRange
      <4>1. EndsWith(i.bbs, w.bbs, x)
        BY <1>7
      <4>2. CASE k \in DOMAIN i.bbs
        <5>1. w.bbs[k] = i.bbs[k]
          BY <4>1, <4>2 DEF EndsWith
        <5>2. i.bbs[k] \in Blocks(f)
          BY <1>7, <4>2 DEF Fits, SeqRange
        <5> QED
          BY <5>1, <5>2
      <4>3. CASE k = Len(w.bbs)
        BY <4>1, <4>3 DEF EndsWith
      <4> QED
        BY <4>1, <4>2, <4>3 DEF EndsWith
    <3>4. l = 1 /\ Len(w.args) = Len(w.bbs)
      BY <1>7, <3>1 DEF Fits, EndsWith
    <3>5. w.op \notin Terminators
      BY <1>4, <1>7 DEF i
    <3>6. w.id < g.next
      BY <1>7 DEF Fits
    <3> QED
      BY <3>2, <3>3, <3>4, <3>5, <3>6 DEF Fits
  <2>3. ASSUME NEW b \in Blocks(g), NEW j \in DOMAIN g.body[b]
        PROVE  Fits(g, g.body[b][j], j)
    <3>1. CASE b = c /\ j = l
      BY <2>2, <3>1
    <3>2. CASE b # c \/ j # l
      <4>1. b \in Blocks(f) /\ j \in DOMAIN f.body[b]
        BY <1>1
      <4>2. g.body[b][j] = f.body[b][j]
        BY <3>2, <4>1
      <4>3. Fits(f, f.body[b][j], j)
        BY <2>1, <4>1 DEF WellFormed
      <4> QED
        BY <4>2, <4>3 DEF Fits
    <3> QED
      BY <3>1, <3>2
  <2>4. UniqueIds(g)
    <3>1. ASSUME NEW b \in Blocks(g), NEW d \in Blocks(g), NEW j \in DOMAIN g.body[b],
                 NEW m \in DOMAIN g.body[d], g.body[b][j].id = g.body[d][m].id
          PROVE  b = d /\ j = m
      <4>1. b \in Blocks(f) /\ d \in Blocks(f) /\ j \in DOMAIN f.body[b] /\ m \in DOMAIN f.body[d]
        BY <1>1
      <4>2. f.body[b][j].id = f.body[d][m].id
        BY <1>2, <3>1, <4>1
      <4>3. UniqueIds(f)
        BY <2>1 DEF WellFormed
      <4> QED
        BY <4>1, <4>2, <4>3 DEF UniqueIds
    <3> QED
      BY <3>1 DEF UniqueIds
  <2> QED
    BY <2>1, <2>3, <2>4 DEF WellFormed
<1>9. Ranked(g, r)
  <2>1. Ranked(f, r)
    BY DEF Sound
  <2>2. \A b \in Blocks(g) : g.body[b] # << >> => r[b] # 0
    BY <2>1 DEF Ranked, Similar
  <2> QED
    BY <1>5, <2>1, <2>2 DEF Ranked
<1>10. UsesPrecede(g, r)
  <2>1. WellFormed(f) /\ UsesPrecede(f, r) /\ \A b \in Blocks(f) : Len(g.body[b]) = Len(f.body[b])
    BY <1>1 DEF Sound
  <2>2. ASSUME NEW n, NEW b, NEW j, Precedes(f, r, n, b, j)
        PROVE  Precedes(g, r, n, b, j)
    <3>1. PICK a \in Blocks(f) : \E k \in DOMAIN f.body[a] :
            f.body[a][k].id = n /\ ((a = b /\ k < j) \/ (a # b /\ r[a] < r[b]))
      BY <2>2 DEF Precedes
    <3>2. PICK k \in DOMAIN f.body[a] :
            f.body[a][k].id = n /\ ((a = b /\ k < j) \/ (a # b /\ r[a] < r[b]))
      BY <3>1
    <3>3. a \in Blocks(g) /\ k \in DOMAIN g.body[a] /\ g.body[a][k].id = n
      BY <1>2, <3>2
    <3> QED
      BY <3>2, <3>3 DEF Precedes
  <2>3. \A b \in Blocks(f) : \A j \in DOMAIN f.body[b] : OperandsPrecede(g, r, f.body[b][j], b, j)
    BY <2>1, <2>2, UsesRenumbered
  <2>4. OperandsPrecede(g, r, w, c, l)
    <3>1. OperandsPrecede(g, r, i, c, l) /\ i.op = "phi"
      BY <2>3
    <3>2. v.kind = "inst" => Precedes(g, r, v.n, x, Len(g.body[x]) + 1)
      BY <1>1, <2>2
    <3> HIDE DEF i, w
    <3>3. Len(i.args) = Len(i.bbs) /\ DOMAIN i.args = DOMAIN i.bbs /\ Len(w.args) = Len(w.bbs)
      <4>1. Len(i.args) = Len(i.bbs)
        BY <1>7, <3>1 DEF Fits
      <4>2. i.args \in Seq(Value) /\ i.bbs \in Seq(Nat)
        BY <1>7 DEF Instruction
      <4>3. DOMAIN i.args = 1 .. Len(i.args) /\ DOMAIN i.bbs = 1 .. Len(i.bbs)
        BY <4>2
      <4>4. Len(w.args) = Len(i.args) + 1 /\ Len(w.bbs) = Len(i.bbs) + 1
        BY <1>7 DEF EndsWith
      <4> QED
        BY <4>1, <4>3, <4>4, Zenon
    <3>4. ASSUME NEW k \in DOMAIN w.args, w.args[k].kind = "inst"
          PROVE  Precedes(g, r, w.args[k].n, w.bbs[k], Len(g.body[w.bbs[k]]) + 1)
      <4>1. CASE k \in DOMAIN i.args
        <5>1. w.args[k] = i.args[k] /\ w.bbs[k] = i.bbs[k]
          BY <1>7, <3>3, <4>1 DEF EndsWith
        <5>2. Precedes(g, r, i.args[k].n, i.bbs[k], Len(g.body[i.bbs[k]]) + 1)
          BY <3>1, <3>4, <4>1, <5>1 DEF OperandsPrecede
        <5> QED
          BY <5>1, <5>2
      <4>2. CASE k = Len(w.args)
        <5>1. w.args[k] = v /\ w.bbs[k] = x
          BY <1>7, <3>3, <4>2 DEF EndsWith
        <5> QED
          BY <3>2, <3>4, <5>1
      <4> QED
        BY <1>7, <4>1, <4>2 DEF EndsWith
    <3> QED
      BY <1>7, <3>1, <3>4 DEF OperandsPrecede
  <2>5. ASSUME NEW b \in Blocks(g), NEW j \in DOMAIN g.body[b]
        PROVE  OperandsPrecede(g, r, g.body[b][j], b, j)
    <3>1. CASE b = c /\ j = l
      BY <2>4, <3>1
    <3>2. CASE b # c \/ j # l
      <4>1. b \in Blocks(f) /\ j \in DOMAIN f.body[b]
        BY <1>1
      <4>2. g.body[b][j] = f.body[b][j]
        BY <3>2, <4>1
      <4>3. OperandsPrecede(g, r, f.body[b][j], b, j)
        BY <2>3, <4>1
      <4> QED
        BY <4>2, <4>3, Zenon
    <3> QED
      BY <3>1, <3>2
  <2> QED
    BY <2>5 DEF UsesPrecede
<1> QED
  BY <1>3, <1>5, <1>6, <1>8, <1>9, <1>10 DEF Sound

\* The instruction that is added closes the block or leaves it open.
LEMMA AddedOpen ==
  ASSUME NEW f, NEW g, NEW i, Added(f, g, i), IsOpen(f.body[f.at])
  PROVE  /\ i.op \notin Terminators => IsOpen(g.body[f.at])
         /\ i.op \in Terminators => IsClosed(g.body[f.at])
         /\ \A b \in Blocks(f) : b # f.at => Similar(f, g, b)
<1> USE DEF Added
<1>1. ASSUME NEW j \in DOMAIN g.body[f.at]
      PROVE  g.body[f.at][j].op \in Terminators <=> (j = Len(g.body[f.at]) /\ i.op \in Terminators)
  BY DEF IsOpen
<1>2. i.op \notin Terminators => IsOpen(g.body[f.at])
  BY <1>1 DEF IsOpen
<1>3. i.op \in Terminators => IsClosed(g.body[f.at])
  <2>1. g.body[f.at] # << >>
    OBVIOUS
  <2> QED
    BY <1>1, <2>1 DEF IsClosed
<1>4. \A b \in Blocks(f) : b # f.at => Similar(f, g, b)
  BY DEF Similar
<1> QED
  BY <1>2, <1>3, <1>4

\* Branches lead to blocks that exist, and leave blocks that have ended.
LEMMA EdgeEnds ==
  ASSUME NEW f, NEW r, Sound(f, r), NEW a, NEW b, Edge(f, a, b)
  PROVE  b \in Blocks(f) /\ b # 1 /\ ~ IsOpen(f.body[a])
<1>1. PICK j \in DOMAIN f.body[a] :
        f.body[a][j].op \in Terminators /\ \E k \in DOMAIN f.body[a][j].bbs : f.body[a][j].bbs[k] = b
  BY DEF Edge
<1>2. a \in Blocks(f)
  BY DEF Edge
<1>3. Fits(f, f.body[a][j], j)
  BY <1>2 DEF Sound, WellFormed
<1>4. b \in SeqRange(f.body[a][j].bbs)
  BY <1>1 DEF SeqRange
<1> QED
  BY <1>1, <1>3, <1>4 DEF Fits, IsOpen

\* How a block's phi matches its edges.
LEMMA MatchedAt ==
  ASSUME NEW f, WellFormed(f), NEW b \in Blocks(f), NEW s, s = f.body[b][1].bbs,
         \A a \in Nat : Edge(f, a, b) <=> \E k \in DOMAIN s : s[k] = a,
         \A k, l \in DOMAIN s : s[k] = s[l] => k = l
  PROVE  Matched(f, b)
<1>1. \A j \in DOMAIN f.body[b] : f.body[b][j].op = "phi" => j = 1
  BY DEF WellFormed, Fits
<1> QED
  BY <1>1 DEF Matched

\* The operands the builder is called with.
LEMMA Operands ==
  /\ << >> \in Seq(Value) /\ << >> \in Seq(Nat)
  /\ \A n \in Int : \A ty \in Types : ConstInt(ty, n) \in Value
  /\ \A ty \in Types, n \in Int : ConstInt(ty, n).type = ty /\ ConstInt(ty, n).kind = "const"
<1>1. << >> \in Seq(Value) /\ << >> \in Seq(Nat)
  OBVIOUS
<1> QED
  BY <1>1 DEF ConstInt, Value

\* One operand, or two.
LEMMA OneOperand ==
  ASSUME NEW f, NEW v, Usable(f, v)
  PROVE  <<v>> \in Seq(Value) /\ \A k \in DOMAIN <<v>> : Usable(f, <<v>>[k])
<1>1. v \in Value
  BY DEF Usable
<1>2. DOMAIN <<v>> = {1} /\ <<v>>[1] = v /\ <<v>> \in Seq(Value)
  BY <1>1
<1> QED
  BY <1>2

\* Two operands that may be used, as the arguments of an instruction.
LEMMA TwoOperands ==
  ASSUME NEW f, NEW v, NEW w, Usable(f, v), Usable(f, w)
  PROVE  /\ <<v, w>> \in Seq(Value) /\ <<v, w>>[1] = v /\ <<v, w>>[2] = w
         /\ \A k \in DOMAIN <<v, w>> : Usable(f, <<v, w>>[k])
<1>1. v \in Value /\ w \in Value
  BY DEF Usable
<1>2. DOMAIN <<v, w>> = {1, 2} /\ <<v, w>>[1] = v /\ <<v, w>>[2] = w /\ <<v, w>> \in Seq(Value)
  BY <1>1
<1> QED
  BY <1>2

\* What buildLoop has done to f, numbered by r, when it calls its callback:
\* g, numbered by q, has the new blocks L and A and is in the first of them.
Opened(f, r, g, q, L, A, phi) ==
  /\ Blocks(g) = Blocks(f) \cup {L, A} /\ L \notin Blocks(f) /\ A \notin Blocks(f)
  /\ L # A /\ g.at = L /\ L \in Nat /\ A \in Nat
  /\ Sound(g, q) /\ q[A] = 0 /\ \A b \in Blocks(f) : r[b] = 0 => q[b] = 0
  /\ \A b \in Blocks(g) : Matched(g, b)
  /\ Keeps(f, g)
  /\ g.body[A] = << >> /\ IsOpen(g.body[L]) /\ IsClosed(g.body[f.at])
  /\ \A b \in Blocks(f) : b # f.at => Similar(f, g, b)
  /\ phi \in Value /\ Usable(g, phi) /\ phi.kind = "inst" /\ phi.type = "i64"
  /\ g.body[L] # << >> /\ g.body[L][1].op = "phi" /\ g.body[L][1].type = "i64"
  /\ g.body[L][1].id = phi.n

\* Up to its callback, buildLoop leaves a sound function, in a loop block
\* whose phi has its first edge, and an exit block that waits.
LEMMA OpenLoopStep ==
  ASSUME NEW f, NEW r, Sound(f, r), IsOpen(f.body[f.at]), \A b \in Blocks(f) : Matched(f, b)
  PROVE  \E g, q, L, A, phi :
           OpenLoop(f) = [fn |-> g, phi |-> phi, loop |-> L, after |-> A] /\ Opened(f, r, g, q, L, A, phi)
<1> DEFINE pre == f.at
           f1 == AddBasicBlock(f)
           L == LastBlock(f1)
           f2 == AddBasicBlock(f1)
           A == LastBlock(f2)
           f3 == CreateBr(f2, L)
           f4 == SetInsertPointAtEnd(f3, L)
           f5 == CreatePHI(f4, "i64")
           phi == Result(f5)
           f6 == AddIncoming(f5, phi, <<ConstInt("i64", 0)>>, <<pre>>)
<1>1. OpenLoop(f) = [fn |-> f6, phi |-> phi, loop |-> L, after |-> A]
  BY DEF OpenLoop, GetInsertBlock
<1>2. /\ f \in Function /\ pre \in Blocks(f) /\ 1 \in Blocks(f) /\ pre \in Nat
      /\ Blocks(f) \subseteq Nat
  BY RankFacts
<1>3. Extended(f, f1, L)
  BY <1>2, AddBlockExtends
<1>4. Extended(f1, f2, A)
  BY <1>2, <1>3, AddBlockExtends DEF Extended
<1> HIDE DEF pre, f1, L, f2, A
<1>5. Sound(f1, r) /\ r[L] = 0 /\ Keeps(f, f1) /\ \A b \in Blocks(f) : Similar(f, f1, b)
  BY <1>3, ExtendedStep
<1>6. Sound(f2, r) /\ r[A] = 0 /\ Keeps(f1, f2) /\ \A b \in Blocks(f1) : Similar(f1, f2, b)
  BY <1>4, <1>5, ExtendedStep
<1>7. /\ Blocks(f2) = Blocks(f) \cup {L, A} /\ L \notin Blocks(f) /\ A \notin Blocks(f) /\ L # A
      /\ L \in Nat \ {1} /\ A \in Nat \ {1} /\ f2 \in Function /\ f2.at = pre
      /\ f2.body[L] = << >> /\ f2.body[A] = << >> /\ f2.body[pre] = f.body[pre]
  BY <1>2, <1>3, <1>4 DEF Extended, pre
<1>8. \A b \in Blocks(f2) : Matched(f2, b)
  <2>1. \A b \in Blocks(f) : Matched(f2, b)
    BY <1>3, <1>4, <1>5, ExtendedStep DEF Extended
  <2>2. Matched(f2, L) /\ Matched(f2, A)
    BY <1>7 DEF Matched
  <2> QED
    BY <1>7, <2>1, <2>2
<1>9. \A a : ~ Edge(f2, a, L)
  <2>1. \A a, b : Edge(f2, a, b) <=> Edge(f, a, b)
    BY <1>3, <1>4, <1>5, ExtendedStep
  <2> QED
    BY <1>7, <2>1, EdgeEnds
<1>10. PICK i \in Instruction :
         i.op = "br" /\ i.args = << >> /\ i.bbs = <<L>> /\ Added(f2, f3, i)
  <2>1. "br" \in Opcodes /\ "void" \in Types /\ <<L>> \in Seq(Nat)
    BY <1>7 DEF Opcodes, Terminators, Types
  <2>2. f2.at \in Blocks(f2)
    BY <1>2, <1>7
  <2> QED
    BY <1>7, <2>1, <2>2, Operands, InsertAdds DEF CreateBr
<1> HIDE DEF f3
<1>11. Moved(f3, f4, L)
  BY <1>7, <1>10, SetInsertMoves DEF Added
<1> HIDE DEF f4
<1> DEFINE q == [r EXCEPT ![L] = r[f2.at] + 1]
<1>12. SeqRange(i.bbs) = {L}
  <2>1. DOMAIN <<L>> = {1} /\ <<L>>[1] = L
    OBVIOUS
  <2> QED
    BY <1>10, <2>1 DEF SeqRange
<1>13. i.op \in Terminators /\ OpTyped(i) /\ \A k \in DOMAIN i.args : Usable(f2, i.args[k])
  BY <1>10 DEF Terminators, OpTyped
<1>14. /\ Sound(f4, q)
       /\ \A b \in Blocks(f2) : b # L => Matched(f4, b)
  BY <1>5, <1>6, <1>7, <1>8, <1>10, <1>11, <1>12, <1>13, JumpStep
<1>15. /\ q[A] = 0 /\ \A b \in Blocks(f) : r[b] = 0 => q[b] = 0
  <2>1. r \in [Nat -> Nat]
    BY DEF Sound, Ranked
  <2>2. \A b \in Nat : b # L => q[b] = r[b]
    BY <2>1
  <2> QED
    BY <1>2, <1>6, <1>7, <2>2
<1> HIDE DEF q
<1>16. \A a : Edge(f4, a, L) <=> a = pre
  <2>1. \A a, b : Edge(f4, a, b) <=> Edge(f3, a, b)
    BY <1>11, MovedSame
  <2>2. Brings(i, L)
    BY <1>12, <1>13 DEF Brings, SeqRange
  <2> QED
    BY <1>7, <1>9, <1>10, <2>1, <2>2, AddedEdges
<1>17. /\ f4 \in Function /\ f4.at = L /\ f4.body = f3.body /\ Blocks(f4) = Blocks(f2)
       /\ f4.body[L] = << >> /\ f4.body[A] = << >>
       /\ Keeps(f2, f4) /\ IsClosed(f4.body[pre])
       /\ \A b \in Blocks(f2) : b # pre => Similar(f2, f4, b)
  <2>1. Keeps(f2, f3) /\ Keeps(f3, f4) /\ Blocks(f4) = Blocks(f3)
    BY <1>10, <1>11, KeepsAdded, MovedSame
  <2>2. Keeps(f2, f4)
    BY <2>1, KeepsTrans
  <2>3. /\ IsClosed(f3.body[pre]) /\ \A b \in Blocks(f2) : b # pre => Similar(f2, f3, b)
    BY <1>7, <1>10, <1>13, AddedOpen DEF pre
  <2>4. f4.body = f3.body
    BY <1>11 DEF Moved
  <2>5. \A b \in Blocks(f2) : b # pre => Similar(f2, f4, b)
    BY <2>3, <2>4 DEF Similar
  <2> QED
    BY <1>2, <1>7, <1>10, <1>11, <2>1, <2>2, <2>3, <2>4, <2>5 DEF Added, Moved
<1>18. PICK p \in Instruction :
         p.op = "phi" /\ p.type = "i64" /\ p.args = << >> /\ p.bbs = << >> /\ Added(f4, f5, p)
  <2>1. "phi" \in Opcodes /\ "i64" \in Types
    BY DEF Opcodes, Types
  <2>2. f4.at \in Blocks(f4)
    BY <1>7, <1>17
  <2> QED
    <3>1. f5 = Insert(f4, "phi", "i64", << >>, << >>)
      BY DEF CreatePHI
    <3>2. << >> \in Seq(Value) /\ << >> \in Seq(Nat) /\ f4 \in Function
      BY <1>17, Operands
    <3> HIDE DEF f5
    <3> DEFINE none == << >>
    <3>3. none \in Seq(Value) /\ none \in Seq(Nat) /\ f5 = Insert(f4, "phi", "i64", none, none)
      BY <3>1, <3>2
    <3> HIDE DEF none
    <3>4. \E j \in Instruction :
            /\ j.op = "phi" /\ j.type = "i64" /\ j.args = none /\ j.bbs = none
            /\ Added(f4, Insert(f4, "phi", "i64", none, none), j)
      BY <2>1, <2>2, <3>2, <3>3, InsertAdds
    <3> QED
      BY <3>3, <3>4 DEF none
<1> HIDE DEF f5
<1>19. Sound(f5, q) /\ \A b \in Blocks(f2) : b # L => Matched(f5, b)
  BY <1>14, <1>17, <1>18, PhiStep
<1>20. phi.kind = "inst" /\ phi.n = p.id /\ phi.type = "i64" /\ Usable(f5, phi)
  BY <1>18, ResultAdded
<1>21. /\ f5 \in Function /\ f5.at = L /\ Blocks(f5) = Blocks(f2) /\ 1 \in DOMAIN f5.body[L]
       /\ f5.body[L][1] = p /\ Len(f5.body[L]) = 1
       /\ \A b \in Blocks(f2) : b # L => f5.body[b] = f4.body[b]
  <2>1. Len(f5.body[L]) = 1
    BY <1>17, <1>18 DEF Added
  <2> QED
    BY <1>17, <1>18, <2>1 DEF Added
<1> HIDE DEF phi
<1>22. ConstInt("i64", 0) \in Value /\ ConstInt("i64", 0).type = "i64" /\ ConstInt("i64", 0).kind = "const"
  BY Operands DEF Types
<1>23. L \in Blocks(f5) /\ pre \in Blocks(f5)
  BY <1>2, <1>7, <1>21
<1> DEFINE c == ConstInt("i64", 0)
<1> HIDE DEF c
<1>24. Fed(f5, f6, L, 1, c, pre)
  <2>1. UniqueIds(f5)
    BY <1>19 DEF Sound, WellFormed
  <2> QED
    BY <1>2, <1>20, <1>21, <1>22, <1>23, <2>1, AddIncomingFeeds DEF c
<1> HIDE DEF f6
<1>25. /\ Sound(f6, q) /\ Keeps(f5, f6)
       /\ \A a, b : Edge(f6, a, b) <=> Edge(f5, a, b)
       /\ \A b \in Blocks(f5) : b # L /\ Matched(f5, b) => Matched(f6, b)
  <2>1. f5.body[L][1].op = "phi" /\ c.type = f5.body[L][1].type /\ c.kind # "inst" /\ c \in Value
    BY <1>18, <1>21, <1>22 DEF c
  <2> QED
    BY <1>19, <1>23, <1>24, <2>1, FedStep
<1>26. Matched(f6, L)
  <2> DEFINE s == f6.body[L][1].bbs
  <2>1. DOMAIN s = {1} /\ s[1] = pre
    BY <1>18, <1>21, <1>24 DEF Fed, EndsWith
  <2>2. \A a : Edge(f6, a, L) <=> a = pre
    <3>1. ~ Brings(p, L)
      BY <1>18 DEF Brings
    <3> QED
      BY <1>16, <1>18, <1>25, <3>1, AddedEdges
  <2>3. WellFormed(f6) /\ L \in Blocks(f6)
    BY <1>23, <1>24, <1>25 DEF Sound, Fed
  <2> HIDE DEF s
  <2>4. /\ \A a \in Nat : Edge(f6, a, L) <=> \E k \in DOMAIN s : s[k] = a
        /\ \A k, l \in DOMAIN s : s[k] = s[l] => k = l
    BY <2>1, <2>2
  <2> QED
    BY <2>3, <2>4, MatchedAt DEF s
<1>27. /\ f6 \in Function /\ f6.at = L /\ Blocks(f6) = Blocks(f2)
       /\ \A b \in Blocks(f2) : Similar(f5, f6, b)
       /\ 1 \in DOMAIN f6.body[L] /\ f6.body[L][1].op = "phi" /\ f6.body[L][1].type = "i64"
       /\ f6.body[L][1].id = phi.n
  BY <1>18, <1>20, <1>21, <1>24 DEF Fed, Similar
<1>28. \A b \in Blocks(f6) : Matched(f6, b)
  BY <1>19, <1>21, <1>25, <1>26, <1>27
<1>29. Keeps(f, f6) /\ Usable(f6, phi)
  <2>1. Keeps(f4, f5)
    BY <1>18, KeepsAdded
  <2>2. Keeps(f, f2) /\ Keeps(f2, f5)
    BY <1>5, <1>6, <1>17, <2>1, KeepsTrans
  <2>3. Keeps(f, f5)
    BY <2>2, KeepsTrans
  <2> QED
    BY <1>20, <1>25, <2>3, KeepsTrans, KeptUsable
<1>30. f6.body[A] = << >> /\ IsClosed(f6.body[pre])
  <2>1. f5.body[A] = << >> /\ f5.body[pre] = f4.body[pre] /\ A \in Blocks(f2) /\ pre \in Blocks(f2)
    BY <1>2, <1>7, <1>17, <1>21
  <2>2. Similar(f5, f6, A) /\ Similar(f5, f6, pre) /\ IsClosed(f5.body[pre])
    BY <1>17, <1>27, <2>1
  <2>3. f6.body[A] = << >>
    BY <2>1, <2>2 DEF Similar
  <2> QED
    BY <2>2, <2>3, SimilarBlocks
<1>31. IsOpen(f6.body[L]) /\ f6.body[L] # << >>
  <2>1. f6.body[L] # << >>
    BY <1>27
  <2>2. Similar(f5, f6, L)
    BY <1>7, <1>27
  <2>3. DOMAIN f5.body[L] = {1}
    BY <1>21, <1>23, BlockTypes
  <2>4. DOMAIN f6.body[L] = {1}
    BY <2>2, <2>3 DEF Similar
  <2> QED
    BY <1>27, <2>1, <2>4 DEF IsOpen, Terminators
<1>32. ASSUME NEW b \in Blocks(f), b # pre PROVE Similar(f, f6, b)
  <2>1. b \in Blocks(f1) /\ b \in Blocks(f2) /\ b # L
    BY <1>3, <1>7 DEF Extended
  <2>2. Similar(f, f1, b) /\ Similar(f1, f2, b) /\ Similar(f2, f4, b) /\ Similar(f5, f6, b)
    BY <1>5, <1>6, <1>17, <1>27, <1>32, <2>1
  <2>3. f5.body[b] = f4.body[b]
    BY <1>21, <2>1
  <2>4. Similar(f4, f5, b)
    BY <2>3 DEF Similar
  <2>5. Similar(f, f2, b) /\ Similar(f2, f5, b)
    BY <2>2, <2>4, SimilarTrans
  <2>6. Similar(f, f5, b)
    BY <2>5, SimilarTrans
  <2> QED
    BY <2>2, <2>6, SimilarTrans
<1>33. phi \in Value
  BY <1>29 DEF Usable
<1>34. Opened(f, r, f6, q, L, A, phi)
  BY <1>7, <1>15, <1>20, <1>25, <1>27, <1>28, <1>29, <1>30, <1>31, <1>32, <1>33 DEF Opened, pre
<1> QED
  BY <1>1, <1>34

\* What is emitted precedes the insertion point.
LEMMA UsablePrecedes ==
  ASSUME NEW f, NEW r, Sound(f, r), NEW n, Emitted(f, n)
  PROVE  Precedes(f, r, n, f.at, Len(f.body[f.at]) + 1)
<1>1. PICK c \in Blocks(f) : \E l \in DOMAIN f.body[c] : f.body[c][l].id = n
  BY DEF Emitted
<1>2. PICK l \in DOMAIN f.body[c] : f.body[c][l].id = n
  BY <1>1
<1>3. /\ f \in Function /\ f.at \in Nat /\ c \in Nat
      /\ r[c] \in Nat /\ r[f.at] \in Nat
  BY RankFacts
<1>4. c # f.at => r[c] < r[f.at]
  <2>1. f.body[c] # << >>
    BY <1>2
  <2>2. /\ r[c] # 0 /\ r[c] <= r[f.at]
        /\ (r[c] = r[f.at] /\ r[c] # 0 => c = f.at)
    BY <1>3, <2>1 DEF Sound, Ranked
  <2> QED
    BY <1>3, <2>2
<1>5. c = f.at => l < Len(f.body[f.at]) + 1
  BY <1>3, BlockTypes
<1> QED
  BY <1>2, <1>4, <1>5 DEF Precedes

\* What buildLoop has done to f, numbered by r, since its callback returned:
\* g, numbered by q, is in the exit block A.
Closed(f, r, g, q, A) ==
  /\ Sound(g, q) /\ g.at = A /\ Blocks(g) = Blocks(f) /\ Keeps(f, g)
  /\ \A b \in Blocks(f) : b # A /\ r[b] = 0 => q[b] = 0
  /\ \A b \in Blocks(g) : Matched(g, b)
  /\ g.body[A] = << >> /\ IsClosed(g.body[f.at])
  /\ \A b \in Blocks(f) : b # f.at => Similar(f, g, b)

\* After its callback, buildLoop leaves a sound function again: the back edge
\* comes from the block the callback ended in.
LEMMA CloseLoopStep ==
  ASSUME NEW f, NEW r, Sound(f, r), IsOpen(f.body[f.at]), \A b \in Blocks(f) : Matched(f, b),
         NEW l, Waiting(f, l), l.phi \in Value, f.body[l.after] = << >>, r[l.after] = 0
  PROVE  \E q : Closed(f, r, CloseLoop(f, l, l.end), q, l.after)
<1> DEFINE L == l.loop
           A == l.after
           at == f.at
           one == ConstInt("i64", 1)
           f1 == CreateBinary(f, "add", l.phi, one)
           nextIt == Result(f1)
           f2 == AddIncoming(f1, l.phi, <<nextIt>>, <<f1.at>>)
           f3 == CreateICmp(f2, "slt", nextIt, l.end)
           f4 == CreateCondBr(f3, Result(f3), L, A)
           f5 == SetInsertPointAtEnd(f4, A)
<1>1. CloseLoop(f, l, l.end) = f5
  BY DEF CloseLoop, GetInsertBlock
<1>2. /\ f \in Function /\ at \in Blocks(f) /\ 1 \in Blocks(f) /\ at \in Nat
      /\ Blocks(f) \subseteq Nat /\ r[at] # 0
  BY RankFacts
<1>3. /\ L \in Blocks(f) \ {1} /\ A \in Blocks(f) \ {1} /\ f.body[L] # << >> /\ L # A /\ A # at
      /\ f.body[L][1].op = "phi" /\ f.body[L][1].type = "i64" /\ f.body[L][1].id = l.phi.n
      /\ l.phi.type = "i64" /\ Usable(f, l.end) /\ l.end.type = "i64"
      /\ L \in Nat /\ A \in Nat
  BY <1>2 DEF Waiting
<1>4. 1 \in DOMAIN f.body[L] /\ r[L] # 0
  <2>1. f.body[L] \in Seq(Instruction)
    BY <1>2, <1>3, BlockTypes
  <2>2. r[L] # 0
    BY <1>3 DEF Sound, Ranked
  <2> QED
    BY <1>3, <2>1, <2>2
<1>5. Usable(f, l.phi)
  BY <1>3, <1>4 DEF Usable, Emitted
<1>6. one \in Value /\ one.type = "i64" /\ one.kind = "const" /\ Usable(f, one)
  BY Operands DEF Types, Usable
<1> HIDE DEF one, L, A, at
<1>7. PICK i \in Instruction :
         /\ i.op = "add" /\ i.type = "i64" /\ i.args = <<l.phi, one>> /\ i.bbs = << >>
         /\ Added(f, f1, i)
  <2>1. "add" \in Opcodes /\ "i64" \in Types /\ <<l.phi, one>> \in Seq(Value)
    BY <1>6 DEF Opcodes, Types
  <2>2. f1 = Insert(f, "add", "i64", <<l.phi, one>>, << >>)
    BY <1>3 DEF CreateBinary
  <2> HIDE DEF f1
  <2>3. \E j \in Instruction :
          /\ j.op = "add" /\ j.type = "i64" /\ j.args = <<l.phi, one>> /\ j.bbs = << >>
          /\ Added(f, Insert(f, "add", "i64", <<l.phi, one>>, << >>), j)
    BY <1>2, <2>1, Operands, InsertAdds DEF at
  <2> QED
    BY <2>2, <2>3
<1> HIDE DEF f1
<1>8. /\ Sound(f1, r) /\ \A b \in Blocks(f) : Matched(f1, b)
      /\ \A v : Usable(f, v) => Usable(f1, v)
  <2>1. \A k \in DOMAIN i.args : Usable(f, i.args[k])
    BY <1>5, <1>6, <1>7, TwoOperands
  <2>2. OpTyped(i)
    <3>1. i.args[1].type = "i64" /\ i.args[2].type = "i64"
      BY <1>3, <1>6, <1>7
    <3> QED
      BY <1>7, <3>1 DEF OpTyped
  <2> QED
    BY <1>7, <2>1, <2>2, PlainStep
<1>9. nextIt.kind = "inst" /\ nextIt.n = i.id /\ nextIt.type = "i64" /\ Usable(f1, nextIt)
  BY <1>7, ResultAdded
<1>10. /\ f1 \in Function /\ f1.at = at /\ Blocks(f1) = Blocks(f)
       /\ 1 \in DOMAIN f1.body[L] /\ f1.body[L][1] = f.body[L][1]
       /\ f1.body[A] = << >> /\ IsOpen(f1.body[at])
       /\ \A b \in Blocks(f) : b # at => Similar(f, f1, b)
  <2>1. /\ IsOpen(f1.body[at]) /\ \A b \in Blocks(f) : b # at => Similar(f, f1, b)
    BY <1>7, AddedOpen DEF at, Terminators
  <2>2. /\ f1 \in Function /\ f1.at = at /\ Blocks(f1) = Blocks(f)
        /\ \A b \in Blocks(f) : b # at => f1.body[b] = f.body[b]
    BY <1>7, AddedElsewhere DEF at
  <2>3. f1.body[A] = << >>
    BY <1>3, <2>2 DEF A
  <2>4. 1 \in DOMAIN f1.body[L] /\ f1.body[L][1] = f.body[L][1]
    <3>1. CASE L = at
      BY <1>4, <1>7, <3>1 DEF Added, at
    <3>2. CASE L # at
      BY <1>3, <1>4, <2>2, <3>2
    <3> QED
      BY <3>1, <3>2
  <2> QED
    BY <2>1, <2>2, <2>3, <2>4
<1> HIDE DEF nextIt
<1>11. nextIt \in Value
  BY <1>9 DEF Usable
<1>12. Fed(f1, f2, L, 1, nextIt, at)
  <2>1. UniqueIds(f1)
    BY <1>8 DEF Sound, WellFormed
  <2> QED
    BY <1>2, <1>3, <1>10, <1>11, <2>1, AddIncomingFeeds
<1> HIDE DEF f2
<1>13. /\ Sound(f2, r) /\ Keeps(f1, f2)
       /\ \A a, b : Edge(f2, a, b) <=> Edge(f1, a, b)
       /\ \A b \in Blocks(f1) : b # L /\ Matched(f1, b) => Matched(f2, b)
  <2>1. f1.body[L][1].op = "phi" /\ nextIt.type = f1.body[L][1].type
    BY <1>3, <1>9, <1>10
  <2>2. Precedes(f1, r, nextIt.n, at, Len(f1.body[at]) + 1)
    BY <1>8, <1>9, <1>10, UsablePrecedes DEF Usable
  <2> QED
    <3>1. at \in Blocks(f1) /\ Sound(f1, r)
      BY <1>2, <1>8, <1>10
    <3> QED
      BY <1>11, <1>12, <2>1, <2>2, <3>1, FedStep
<1>14. /\ f2 \in Function /\ f2.at = at /\ Blocks(f2) = Blocks(f)
       /\ f2.body[A] = << >> /\ IsOpen(f2.body[at])
       /\ \A b \in Blocks(f) : Similar(f1, f2, b)
  <2>1. /\ f2 \in Function /\ f2.at = at /\ Blocks(f2) = Blocks(f)
        /\ \A b \in Blocks(f) : Similar(f1, f2, b)
    BY <1>10, <1>12 DEF Fed
  <2>2. IsOpen(f2.body[at])
    BY <1>2, <1>10, <2>1, SimilarBlocks
  <2>3. f2.body[A] = << >>
    BY <1>3, <1>10, <2>1 DEF Similar
  <2> QED
    BY <2>1, <2>2, <2>3
<1>15. Usable(f2, nextIt) /\ Usable(f2, l.end)
  BY <1>3, <1>8, <1>9, <1>13, KeptUsable
<1>16. PICK p \in Instruction :
         /\ p.op = "slt" /\ p.type = "i1" /\ p.args = <<nextIt, l.end>> /\ p.bbs = << >>
         /\ Added(f2, f3, p)
  <2>1. "slt" \in Opcodes /\ "i1" \in Types /\ <<nextIt, l.end>> \in Seq(Value)
    BY <1>15, TwoOperands DEF Opcodes, Types
  <2>2. f3 = Insert(f2, "slt", "i1", <<nextIt, l.end>>, << >>)
    BY DEF CreateICmp
  <2> HIDE DEF f3
  <2>3. \E j \in Instruction :
          /\ j.op = "slt" /\ j.type = "i1" /\ j.args = <<nextIt, l.end>> /\ j.bbs = << >>
          /\ Added(f2, Insert(f2, "slt", "i1", <<nextIt, l.end>>, << >>), j)
    BY <1>2, <1>14, <2>1, Operands, InsertAdds
  <2> QED
    BY <2>2, <2>3
<1> HIDE DEF f3
<1>17. /\ Sound(f3, r) /\ \A b \in Blocks(f) : b # L => Matched(f3, b)
  <2>1. \A k \in DOMAIN p.args : Usable(f2, p.args[k])
    BY <1>15, <1>16, TwoOperands
  <2>2. OpTyped(p)
    <3>1. p.args[1].type = "i64" /\ p.args[2].type = "i64"
      BY <1>3, <1>9, <1>16
    <3> QED
      BY <1>16, <3>1 DEF OpTyped
  <2>3. \A b \in Blocks(f2) : Matched(f2, b) => Matched(f3, b)
    BY <1>13, <1>16, <2>1, <2>2, PlainStep
  <2>4. Sound(f3, r)
    BY <1>13, <1>16, <2>1, <2>2, PlainStep
  <2> QED
    BY <1>8, <1>10, <1>13, <1>14, <2>3, <2>4
<1>18. /\ f3 \in Function /\ f3.at = at /\ Blocks(f3) = Blocks(f)
       /\ 1 \in DOMAIN f3.body[L] /\ f3.body[L][1] = f2.body[L][1]
       /\ f3.body[A] = << >> /\ IsOpen(f3.body[at])
       /\ \A b \in Blocks(f) : b # at => Similar(f2, f3, b)
  <2>1. /\ IsOpen(f3.body[at]) /\ \A b \in Blocks(f) : b # at => Similar(f2, f3, b)
    BY <1>14, <1>16, AddedOpen DEF Terminators
  <2>2. 1 \in DOMAIN f2.body[L]
    BY <1>3, <1>10, <1>14 DEF Similar
  <2> QED
    BY <1>2, <1>3, <1>14, <1>16, <2>1, <2>2 DEF Added
<1> DEFINE cond == Result(f3)
<1>19. cond.type = "i1" /\ Usable(f3, cond)
  BY <1>16, ResultAdded
<1> HIDE DEF cond
<1>20. PICK j \in Instruction :
         /\ j.op = "condbr" /\ j.args = <<cond>> /\ j.bbs = <<L, A>> /\ Added(f3, f4, j)
  <2>1. "condbr" \in Opcodes /\ "void" \in Types /\ <<cond>> \in Seq(Value) /\ <<L, A>> \in Seq(Nat)
    <3>1. "condbr" \in Opcodes /\ "void" \in Types /\ <<L, A>> \in Seq(Nat)
      BY <1>3 DEF Opcodes, Terminators, Types
    <3>2. <<cond>> \in Seq(Value)
      BY <1>19, OneOperand
    <3> QED
      BY <3>1, <3>2
  <2>2. f4 = Insert(f3, "condbr", "void", <<cond>>, <<L, A>>)
    BY DEF CreateCondBr, cond
  <2> HIDE DEF f4
  <2>3. \E k \in Instruction :
          /\ k.op = "condbr" /\ k.type = "void" /\ k.args = <<cond>> /\ k.bbs = <<L, A>>
          /\ Added(f3, Insert(f3, "condbr", "void", <<cond>>, <<L, A>>), k)
    BY <1>2, <1>18, <2>1, InsertAdds
  <2> QED
    BY <2>2, <2>3
<1> HIDE DEF f4
<1>21. Moved(f4, f5, A)
  BY <1>3, <1>20, SetInsertMoves DEF Added
<1> HIDE DEF f5
<1>22. SeqRange(j.bbs) = {L, A}
  <2>1. DOMAIN <<L, A>> = {1, 2} /\ <<L, A>>[1] = L /\ <<L, A>>[2] = A
    OBVIOUS
  <2> QED
    BY <1>20, <2>1 DEF SeqRange
<1>23. j.op \in Terminators /\ OpTyped(j) /\ \A k \in DOMAIN j.args : Usable(f3, j.args[k])
  <2>1. \A k \in DOMAIN j.args : Usable(f3, j.args[k])
    BY <1>19, <1>20, OneOperand
  <2>2. j.args[1].type = "i1"
    BY <1>19, <1>20
  <2> QED
    BY <1>20, <2>1, <2>2 DEF Terminators, OpTyped
<1> DEFINE q == [r EXCEPT ![A] = r[f3.at] + 1]
<1>24. Sound(f5, q) /\ \A b \in Blocks(f3) : b \notin {L, A} /\ Matched(f3, b) => Matched(f5, b)
  <2>1. SeqRange(j.bbs) \subseteq Blocks(f3) \ {1} /\ A \in SeqRange(j.bbs)
    BY <1>3, <1>18, <1>22
  <2>2. \A b \in SeqRange(j.bbs) : b # A => r[b] # 0
    BY <1>4, <1>22
  <2>3. r[A] = 0 /\ A \in Nat
    BY <1>3 DEF A
  <2> QED
    BY <1>17, <1>18, <1>20, <1>21, <1>22, <1>23, <2>1, <2>2, <2>3, JumpStep
<1>25. \A b \in Blocks(f) : b # A /\ r[b] = 0 => q[b] = 0
  <2>1. r \in [Nat -> Nat]
    BY DEF Sound, Ranked
  <2>2. \A b \in Nat : b # A => q[b] = r[b]
    BY <2>1
  <2> QED
    BY <1>2, <2>2
<1> HIDE DEF q
<1>26. /\ f5.at = A /\ Blocks(f5) = Blocks(f) /\ f5.body = f4.body /\ f5.body[A] = << >>
       /\ f5.body[L][1] = f2.body[L][1] /\ IsClosed(f5.body[at])
       /\ \A b \in Blocks(f) : b # at => Similar(f3, f5, b)
  <2>1. IsClosed(f4.body[at]) /\ \A b \in Blocks(f) : b # at => Similar(f3, f4, b)
    BY <1>18, <1>20, <1>23, AddedOpen
  <2>2. f5.at = A /\ f5.body = f4.body /\ Blocks(f5) = Blocks(f4)
    BY <1>21 DEF Moved, Blocks
  <2>3. Blocks(f4) = Blocks(f) /\ f4.body[A] = << >> /\ f4.body[L][1] = f3.body[L][1]
    <3>1. Blocks(f4) = Blocks(f3) /\ \A b \in Blocks(f3) : b # f3.at => f4.body[b] = f3.body[b]
      BY <1>20, AddedElsewhere
    <3>2. f4.body[A] = << >>
      BY <1>3, <1>18, <3>1
    <3>3. f4.body[L][1] = f3.body[L][1]
      <4>1. CASE L = at
        BY <1>18, <1>20, <4>1 DEF Added
      <4>2. CASE L # at
        BY <1>3, <1>18, <3>1, <4>2
      <4> QED
        BY <4>1, <4>2
    <3> QED
      BY <1>18, <3>1, <3>2, <3>3
  <2>4. \A b \in Blocks(f) : b # at => Similar(f3, f5, b)
    BY <2>1, <2>2 DEF Similar
  <2> QED
    BY <1>18, <2>1, <2>2, <2>3, <2>4
<1>27. Keeps(f, f5)
  <2>1. Keeps(f, f1) /\ Keeps(f1, f2) /\ Keeps(f2, f3) /\ Keeps(f3, f4) /\ Keeps(f4, f5)
    BY <1>7, <1>13, <1>16, <1>20, <1>21, KeepsAdded, MovedSame
  <2>2. Keeps(f, f2) /\ Keeps(f3, f5)
    BY <2>1, KeepsTrans
  <2>3. Keeps(f, f3)
    BY <2>1, <2>2, KeepsTrans
  <2> QED
    BY <2>2, <2>3, KeepsTrans
<1>28. Matched(f5, L)
  <2> DEFINE old == f.body[L][1].bbs
             s == f5.body[L][1].bbs
  <2>1. EndsWith(old, s, at)
    BY <1>10, <1>12, <1>26 DEF Fed
  <2>2. \A a : Edge(f5, a, L) <=> Edge(f, a, L) \/ a = at
    <3>1. \A a : Edge(f1, a, L) <=> Edge(f, a, L)
      BY <1>7, AddedEdges DEF Brings
    <3>2. \A a : Edge(f3, a, L) <=> Edge(f2, a, L)
      BY <1>16, AddedEdges DEF Brings
    <3>3. Brings(j, L)
      BY <1>22, <1>23 DEF Brings, SeqRange
    <3>4. \A a : Edge(f4, a, L) <=> Edge(f3, a, L) \/ a = at
      BY <1>18, <1>20, <3>3, AddedEdges
    <3>5. \A a : Edge(f5, a, L) <=> Edge(f4, a, L)
      BY <1>21, MovedSame
    <3> QED
      BY <1>13, <3>1, <3>2, <3>4, <3>5
  <2>3. /\ \A a \in Nat : Edge(f, a, L) <=> \E k \in DOMAIN old : old[k] = a
        /\ \A k, m \in DOMAIN old : old[k] = old[m] => k = m
    BY <1>3, <1>4 DEF Matched
  <2>4. ~ Edge(f, at, L)
    BY EdgeEnds DEF at
  <2>5. WellFormed(f5) /\ L \in Blocks(f5)
    BY <1>3, <1>24, <1>26 DEF Sound
  <2> HIDE DEF s, old
  <2>6. \A a \in Nat : Edge(f5, a, L) <=> \E k \in DOMAIN s : s[k] = a
    <3> SUFFICES ASSUME NEW a \in Nat
                 PROVE  Edge(f5, a, L) <=> \E k \in DOMAIN s : s[k] = a
      OBVIOUS
    <3>1. ASSUME Edge(f5, a, L) PROVE \E k \in DOMAIN s : s[k] = a
      BY <2>1, <2>2, <2>3, <3>1 DEF EndsWith
    <3>2. ASSUME NEW k \in DOMAIN s, s[k] = a PROVE Edge(f5, a, L)
      BY <2>1, <2>2, <2>3, <3>2 DEF EndsWith
    <3> QED
      BY <3>1, <3>2
  <2>7. ASSUME NEW k \in DOMAIN s, NEW m \in DOMAIN s, s[k] = s[m] PROVE k = m
    <3>1. \A n \in DOMAIN old : old[n] # at
      BY <1>2, <2>3, <2>4
    <3> QED
      BY <2>1, <2>3, <2>7, <3>1 DEF EndsWith
  <2>8. s = f5.body[L][1].bbs
    BY DEF s
  <2>9. \A k, m \in DOMAIN s : s[k] = s[m] => k = m
    BY <2>7
  <2> QED
    BY <2>5, <2>6, <2>8, <2>9, MatchedAt
<1>29. \A b \in Blocks(f5) : Matched(f5, b)
  <2>1. Matched(f5, A)
    BY <1>26 DEF Matched
  <2> QED
    BY <1>17, <1>18, <1>24, <1>26, <1>28, <2>1
<1>30. ASSUME NEW b \in Blocks(f), b # at PROVE Similar(f, f5, b)
  <2>1. Similar(f, f1, b) /\ Similar(f1, f2, b) /\ Similar(f2, f3, b) /\ Similar(f3, f5, b)
    BY <1>10, <1>14, <1>18, <1>26, <1>30
  <2>2. Similar(f, f2, b) /\ Similar(f2, f5, b)
    BY <2>1, SimilarTrans
  <2> QED
    BY <2>2, SimilarTrans
<1>31. Closed(f, r, f5, q, A)
  BY <1>24, <1>25, <1>26, <1>27, <1>29, <1>30 DEF Closed, at
<1> QED
  BY <1>1, <1>31 DEF A

\* Straight-line code turned f into g; the block at the insertion point is
\* still open.
Straight(f, r, g) ==
  /\ Sound(g, r) /\ g.at = f.at /\ Blocks(g) = Blocks(f) /\ Keeps(f, g)
  /\ \A b \in Blocks(g) : Matched(g, b)
  /\ IsOpen(g.body[g.at])
  /\ \A b \in Blocks(f) : b # f.at => Similar(f, g, b)

\* Straight-line code followed by straight-line code is straight-line code.
LEMMA StraightTrans ==
  ASSUME NEW f, NEW g, NEW h, NEW r, Straight(f, r, g), Straight(g, r, h)
  PROVE  Straight(f, r, h)
<1>1. Keeps(f, h)
  BY KeepsTrans DEF Straight
<1>2. ASSUME NEW b \in Blocks(f), b # f.at PROVE Similar(f, h, b)
  <2>1. Similar(f, g, b) /\ Similar(g, h, b)
    BY <1>2 DEF Straight
  <2> QED
    BY <2>1, SimilarTrans
<1> QED
  BY <1>1, <1>2 DEF Straight

\* One instruction of straight-line code.
LEMMA Emit ==
  ASSUME NEW f, NEW r, Sound(f, r), IsOpen(f.body[f.at]), \A b \in Blocks(f) : Matched(f, b),
         NEW op \in Opcodes, op \notin Terminators, op # "phi", NEW ty \in Types,
         NEW args \in Seq(Value), \A k \in DOMAIN args : Usable(f, args[k]),
         \A i \in Instruction : i.op = op /\ i.type = ty /\ i.args = args => OpTyped(i),
         NEW g, g = Insert(f, op, ty, args, << >>)
  PROVE  Straight(f, r, g) /\ Usable(g, Result(g)) /\ Result(g).type = ty
<1>1. PICK i \in Instruction :
        /\ i.op = op /\ i.type = ty /\ i.args = args /\ i.bbs = << >>
        /\ Added(f, g, i)
  <2>1. f \in Function /\ f.at \in Blocks(f)
    BY RankFacts
  <2> DEFINE none == << >>
  <2>2. none \in Seq(Nat) /\ g = Insert(f, op, ty, args, none)
    BY Operands
  <2> HIDE DEF none
  <2>3. \E i \in Instruction :
          /\ i.op = op /\ i.type = ty /\ i.args = args /\ i.bbs = none
          /\ Added(f, Insert(f, op, ty, args, none), i)
    BY <2>1, <2>2, InsertAdds
  <2> QED
    BY <2>2, <2>3 DEF none
<1>2. /\ Sound(g, r) /\ \A b \in Blocks(f) : Matched(g, b)
  BY <1>1, PlainStep
<1>3. /\ IsOpen(g.body[f.at]) /\ \A b \in Blocks(f) : b # f.at => Similar(f, g, b)
  BY <1>1, AddedOpen
<1>4. Keeps(f, g) /\ g.at = f.at /\ Blocks(g) = Blocks(f)
  BY <1>1, KeepsAdded DEF Added
<1>5. Straight(f, r, g)
  BY <1>2, <1>3, <1>4 DEF Straight
<1>6. Usable(g, Result(g)) /\ Result(g).type = ty
  BY <1>1, ResultAdded
<1> QED
  BY <1>5, <1>6

\* The parameters of the kernel.
LEMMA Parameters ==
  ASSUME NEW f, WellFormed(f)
  PROVE  /\ Usable(f, Param(f, 0)) /\ Param(f, 0).type = "i64*"
         /\ Usable(f, Param(f, 1)) /\ Param(f, 1).type = "i64*"
<1>1. f.params[1] = "i64*" /\ f.params[2] = "i64*"
  BY DEF WellFormed, KernelParams
<1> QED
  BY <1>1 DEF Param, Usable, Value, Types

\* Loading from a pointer to an integer.
LEMMA LoadStep ==
  ASSUME NEW f, NEW r, Sound(f, r), IsOpen(f.body[f.at]), \A b \in Blocks(f) : Matched(f, b),
         NEW p, Usable(f, p), p.type = "i64*"
  PROVE  /\ Straight(f, r, CreateLoad(f, p))
         /\ Usable(CreateLoad(f, p), Result(CreateLoad(f, p)))
         /\ Result(CreateLoad(f, p)).type = "i64"
<1> DEFINE g == CreateLoad(f, p)
           args == <<p>>
<1>1. g = Insert(f, "load", "i64", args, << >>)
  BY DEF CreateLoad, ElementType
<1>2. args \in Seq(Value) /\ \A k \in DOMAIN args : Usable(f, args[k])
  BY OneOperand
<1>3. "load" \in Opcodes /\ "load" \notin Terminators /\ "i64" \in Types
  BY DEF Opcodes, Terminators, Types
<1>4. ASSUME NEW i \in Instruction, i.op = "load", i.type = "i64", i.args = args
      PROVE  OpTyped(i)
  BY <1>4 DEF OpTyped, PointerType
<1> HIDE DEF g, args
<1>5. Straight(f, r, g) /\ Usable(g, Result(g)) /\ Result(g).type = "i64"
  BY <1>1, <1>2, <1>3, <1>4, Emit
<1> QED
  BY <1>5 DEF g

\* Storing an integer through such a pointer.
LEMMA StoreStep ==
  ASSUME NEW f, NEW r, Sound(f, r), IsOpen(f.body[f.at]), \A b \in Blocks(f) : Matched(f, b),
         NEW v, Usable(f, v), v.type = "i64", NEW p, Usable(f, p), p.type = "i64*"
  PROVE  Straight(f, r, CreateStore(f, v, p))
<1> DEFINE g == CreateStore(f, v, p)
           args == <<v, p>>
<1>1. g = Insert(f, "store", "void", args, << >>)
  BY DEF CreateStore
<1>2. args \in Seq(Value) /\ \A k \in DOMAIN args : Usable(f, args[k])
  BY TwoOperands
<1>3. "store" \in Opcodes /\ "store" \notin Terminators /\ "void" \in Types
  BY DEF Opcodes, Terminators, Types
<1>4. ASSUME NEW i \in Instruction, i.op = "store", i.type = "void", i.args = args
      PROVE  OpTyped(i)
  <2>1. i.args[1] = v /\ i.args[2] = p
    BY <1>4
  <2> QED
    BY <1>4, <2>1 DEF OpTyped, PointerType
<1> HIDE DEF g, args
<1>5. Straight(f, r, g) /\ Usable(g, Result(g)) /\ Result(g).type = "void"
  BY <1>1, <1>2, <1>3, <1>4, Emit
<1> QED
  BY <1>5 DEF g

\* Adding two integers.
LEMMA AddStep ==
  ASSUME NEW f, NEW r, Sound(f, r), IsOpen(f.body[f.at]), \A b \in Blocks(f) : Matched(f, b),
         NEW v, Usable(f, v), v.type = "i64", NEW w, Usable(f, w), w.type = "i64"
  PROVE  /\ Straight(f, r, CreateBinary(f, "add", v, w))
         /\ Usable(CreateBinary(f, "add", v, w), Result(CreateBinary(f, "add", v, w)))
         /\ Result(CreateBinary(f, "add", v, w)).type = "i64"
<1> DEFINE g == CreateBinary(f, "add", v, w)
           args == <<v, w>>
<1>1. g = Insert(f, "add", "i64", args, << >>)
  BY DEF CreateBinary
<1>2. args \in Seq(Value) /\ \A k \in DOMAIN args : Usable(f, args[k])
  BY TwoOperands
<1>3. "add" \in Opcodes /\ "add" \notin Terminators /\ "i64" \in Types
  BY DEF Opcodes, Terminators, Types
<1>4. ASSUME NEW i \in Instruction, i.op = "add", i.type = "i64", i.args = args
      PROVE  OpTyped(i)
  <2>1. i.args[1] = v /\ i.args[2] = w
    BY <1>4
  <2> QED
    BY <1>4, <2>1 DEF OpTyped
<1> HIDE DEF g, args
<1>5. Straight(f, r, g) /\ Usable(g, Result(g)) /\ Result(g).type = "i64"
  BY <1>1, <1>2, <1>3, <1>4, Emit
<1> QED
  BY <1>5 DEF g

\* The address of an element of the array.
LEMMA GEPStep ==
  ASSUME NEW f, NEW r, Sound(f, r), IsOpen(f.body[f.at]), \A b \in Blocks(f) : Matched(f, b),
         NEW p, Usable(f, p), p.type = "i64*", NEW x, Usable(f, x), x.type = "i64"
  PROVE  /\ Straight(f, r, CreateInBoundsGEP(f, p, x))
         /\ Usable(CreateInBoundsGEP(f, p, x), Result(CreateInBoundsGEP(f, p, x)))
         /\ Result(CreateInBoundsGEP(f, p, x)).type = "i64*"
<1> DEFINE g == CreateInBoundsGEP(f, p, x)
           args == <<p, x>>
<1>1. g = Insert(f, "gep", "i64*", args, << >>)
  BY DEF CreateInBoundsGEP
<1>2. args \in Seq(Value) /\ \A k \in DOMAIN args : Usable(f, args[k])
  BY TwoOperands
<1>3. "gep" \in Opcodes /\ "gep" \notin Terminators /\ "i64*" \in Types
  BY DEF Opcodes, Terminators, Types
<1>4. ASSUME NEW i \in Instruction, i.op = "gep", i.type = "i64*", i.args = args
      PROVE  OpTyped(i)
  <2>1. i.args[1] = p /\ i.args[2] = x
    BY <1>4
  <2> QED
    BY <1>4, <2>1 DEF OpTyped
<1> HIDE DEF g, args
<1>5. Straight(f, r, g) /\ Usable(g, Result(g)) /\ Result(g).type = "i64*"
  BY <1>1, <1>2, <1>3, <1>4, Emit
<1> QED
  BY <1>5 DEF g

\* The statement a callback emits.
LEMMA AccumulateStep ==
  ASSUME NEW f, NEW r, Sound(f, r), IsOpen(f.body[f.at]), \A b \in Blocks(f) : Matched(f, b),
         NEW it, Usable(f, it), it.type = "i64", NEW p, Usable(f, p), p.type = "i64*"
  PROVE  Straight(f, r, AccumulateInt64(f, it, p))
<1> DEFINE ptr == Param(f, 1)
           g1 == CreateInBoundsGEP(f, ptr, it)
           g2 == CreateLoad(g1, Result(g1))
           g3 == CreateLoad(g2, p)
           g4 == CreateBinary(g3, "add", Result(g3), Result(g2))
           g5 == CreateStore(g4, Result(g4), p)
<1>1. AccumulateInt64(f, it, p) = g5
  BY DEF AccumulateInt64, buildArrLoad
<1>2. Usable(f, ptr) /\ ptr.type = "i64*"
  BY Parameters DEF Sound
<1> HIDE DEF ptr
<1>3. Straight(f, r, g1) /\ Usable(g1, Result(g1)) /\ Result(g1).type = "i64*"
  BY <1>2, GEPStep
<1> HIDE DEF g1
<1>4. Straight(g1, r, g2) /\ Usable(g2, Result(g2)) /\ Result(g2).type = "i64"
  BY <1>3, LoadStep DEF Straight
<1> HIDE DEF g2
<1>5. Straight(f, r, g2)
  BY <1>3, <1>4, StraightTrans
<1>6. Usable(g2, p)
  BY <1>5, KeptUsable DEF Straight
<1>7. Straight(g2, r, g3) /\ Usable(g3, Result(g3)) /\ Result(g3).type = "i64"
  BY <1>4, <1>6, LoadStep DEF Straight
<1> HIDE DEF g3
<1>8. Usable(g3, p) /\ Usable(g3, Result(g2))
  BY <1>4, <1>6, <1>7, KeptUsable DEF Straight
<1>9. Straight(g3, r, g4) /\ Usable(g4, Result(g4)) /\ Result(g4).type = "i64"
  BY <1>4, <1>7, <1>8, AddStep DEF Straight
<1> HIDE DEF g4
<1>10. Usable(g4, p)
  BY <1>8, <1>9, KeptUsable DEF Straight
<1>11. Straight(g4, r, g5)
  BY <1>9, <1>10, StoreStep DEF Straight
<1> HIDE DEF g5
<1>12. Straight(f, r, g3)
  BY <1>5, <1>7, StraightTrans
<1>13. Straight(f, r, g4)
  BY <1>9, <1>12, StraightTrans
<1> QED
  BY <1>1, <1>11, <1>13, StraightTrans

\* The end: the result is loaded and returned.
LEMMA FinishStep ==
  ASSUME NEW f, NEW r, Sound(f, r), IsOpen(f.body[f.at]), \A b \in Blocks(f) : Matched(f, b),
         NEW p, Usable(f, p), p.type = "i64*",
         NEW g, g = CreateRet(CreateLoad(f, p), Result(CreateLoad(f, p)))
  PROVE  /\ Sound(g, r) /\ g.at = f.at /\ Blocks(g) = Blocks(f) /\ Keeps(f, g)
         /\ \A b \in Blocks(g) : Matched(g, b)
         /\ IsClosed(g.body[g.at])
         /\ \A b \in Blocks(f) : b # f.at => Similar(f, g, b)
<1> DEFINE f1 == CreateLoad(f, p)
           v == Result(f1)
<1>1. Straight(f, r, f1) /\ Usable(f1, v) /\ v.type = "i64"
  BY LoadStep
<1>2. g = Insert(f1, "ret", "void", <<v>>, << >>)
  BY DEF CreateRet
<1> HIDE DEF f1, v
<1>3. "ret" \in Opcodes /\ "ret" \in Terminators /\ "void" \in Types
  BY DEF Opcodes, Terminators, Types
<1>4. <<v>> \in Seq(Value) /\ \A k \in DOMAIN <<v>> : Usable(f1, <<v>>[k])
  BY <1>1, OneOperand
<1>5. f1 \in Function /\ f1.at \in Blocks(f1)
  BY <1>1, RankFacts DEF Straight
<1>6. PICK i \in Instruction :
        /\ i.op = "ret" /\ i.args = <<v>> /\ i.bbs = << >>
        /\ Added(f1, g, i)
  <2>1. \E j \in Instruction :
          /\ j.op = "ret" /\ j.type = "void" /\ j.args = <<v>> /\ j.bbs = << >>
          /\ Added(f1, Insert(f1, "ret", "void", <<v>>, << >>), j)
    BY <1>3, <1>4, <1>5, Operands, InsertAdds
  <2> QED
    BY <1>2, <2>1
<1>7. OpTyped(i) /\ \A k \in DOMAIN i.args : Usable(f1, i.args[k])
  BY <1>1, <1>4, <1>6 DEF OpTyped
<1>8. Sound(g, r) /\ \A b \in Blocks(f1) : Matched(g, b)
  BY <1>1, <1>6, <1>7, PlainStep DEF Straight
<1>9. /\ IsClosed(g.body[f1.at]) /\ \A b \in Blocks(f1) : b # f1.at => Similar(f1, g, b)
  BY <1>1, <1>3, <1>6, AddedOpen DEF Straight
<1>10. Keeps(f1, g) /\ g.at = f1.at /\ Blocks(g) = Blocks(f1)
  BY <1>6, KeepsAdded, AddedElsewhere
<1>11. Keeps(f, g)
  BY <1>1, <1>10, KeepsTrans DEF Straight
<1>12. ASSUME NEW b \in Blocks(f), b # f.at PROVE Similar(f, g, b)
  <2>1. Similar(f, f1, b) /\ Similar(f1, g, b)
    BY <1>1, <1>9, <1>12 DEF Straight
  <2> QED
    BY <2>1, SimilarTrans
<1> QED
  BY <1>1, <1>8, <1>9, <1>10, <1>11, <1>12 DEF Straight

-----------------------------------------------------------------------------
(* The actions.                                                            *)

\* The iteration variable of a loop whose callback runs may be used.
LEMMA PhiUsable ==
  ASSUME NEW f \in Function, NEW l, l.phi \in Value, Waiting(f, l)
  PROVE  Usable(f, l.phi) /\ l.phi.type = "i64"
<1>1. l.loop \in Blocks(f) /\ f.body[l.loop] # << >> /\ f.body[l.loop][1].id = l.phi.n
  BY DEF Waiting
<1>2. f.body[l.loop] \in Seq(Instruction)
  BY <1>1, BlockTypes
<1>3. 1 \in DOMAIN f.body[l.loop]
  BY <1>1, <1>2
<1> QED
  BY <1>1, <1>3 DEF Usable, Emitted, Waiting

\* Loops that a callback does not touch go on waiting.
LEMMA StillWaiting ==
  ASSUME NEW f, NEW g, NEW r, NEW q, Sound(f, r), Sound(g, q), Keeps(f, g),
         NEW l, Waiting(f, l), f.body[l.after] = << >>, l.after # f.at,
         \A b \in Blocks(f) : b # f.at => Similar(f, g, b)
  PROVE  Waiting(g, l) /\ g.body[l.after] = << >>
<1>1. Waiting(g, l)
  BY KeptWaiting, RankFacts
<1>2. Similar(f, g, l.after)
  BY DEF Waiting
<1> QED
  BY <1>1, <1>2 DEF Similar

\* Entering a loop: the function is nested as before, one activation deeper.
LEMMA NestedEnter ==
  ASSUME NEW f, NEW r, NEW n, Nested(f, r, n, FALSE),
         NEW end, Usable(f, end), end.type = "i64",
         NEW g, NEW q, NEW L, NEW A, NEW phi, Opened(f, r, g, q, L, A, phi)
  PROVE  Nested(g, q, Append(n, [phi |-> phi, loop |-> L, after |-> A, end |-> end]), FALSE)
<1> DEFINE e == [phi |-> phi, loop |-> L, after |-> A, end |-> end]
           m == Append(n, e)
<1>1. /\ Sound(f, r) /\ n \in Seq(Activation) /\ BlocksOpen(f, n, FALSE)
      /\ \A k \in DOMAIN n : Waiting(f, n[k]) /\ r[n[k].after] = 0
      /\ \A k, i \in DOMAIN n : n[k].loop = n[i].loop => k = i
  BY DEF Nested
<1>2. /\ Blocks(g) = Blocks(f) \cup {L, A} /\ L \notin Blocks(f) /\ A \notin Blocks(f)
      /\ L # A /\ g.at = L /\ Sound(g, q) /\ q[A] = 0 /\ Keeps(f, g)
      /\ \A b \in Blocks(f) : r[b] = 0 => q[b] = 0
      /\ g.body[A] = << >> /\ IsOpen(g.body[L]) /\ IsClosed(g.body[f.at])
      /\ \A b \in Blocks(f) : b # f.at => Similar(f, g, b)
      /\ L \in Nat /\ A \in Nat /\ phi \in Value
  BY DEF Opened
<1>3. e \in Activation /\ e.loop = L /\ e.after = A /\ e.phi = phi /\ e.end = end
  BY <1>2 DEF Activation, Usable
<1>4. Waiting(g, e)
  <2>1. 1 \in Blocks(f)
    BY <1>1, RankFacts
  <2>2. Usable(g, end)
    BY <1>2, KeptUsable
  <2> HIDE DEF e
  <2>3. L \in Blocks(g) \ {1} /\ A \in Blocks(g) \ {1}
    BY <1>2, <2>1
  <2>4. /\ phi.kind = "inst" /\ phi.type = "i64" /\ g.body[L] # << >>
        /\ g.body[L][1].op = "phi" /\ g.body[L][1].type = "i64" /\ g.body[L][1].id = phi.n
    BY DEF Opened
  <2> QED
    BY <1>3, <2>2, <2>3, <2>4 DEF Waiting
<1> HIDE DEF e
<1>5. /\ m \in Seq(Activation) /\ Len(n) \in Nat
      /\ DOMAIN n = 1 .. Len(n) /\ DOMAIN m = 1 .. Len(n) + 1
      /\ \A k \in 1 .. Len(n) : m[k] = n[k]
      /\ m[Len(n) + 1] = e
  BY <1>1, <1>3, AppendProperties
<1> HIDE DEF m
<1>6. PICK x : /\ x \notin DOMAIN n /\ DOMAIN m = DOMAIN n \cup {x} /\ m[x] = e
               /\ \A k \in DOMAIN n : m[k] = n[k]
  <2>1. Len(n) + 1 \notin DOMAIN n /\ DOMAIN m = DOMAIN n \cup {Len(n) + 1}
    BY <1>5
  <2> QED
    BY <1>5, <2>1
<1>7. ASSUME NEW k \in DOMAIN n
      PROVE  /\ n[k].after \in Blocks(f) /\ n[k].loop \in Blocks(f)
             /\ n[k].after # f.at /\ f.body[n[k].after] = << >>
             /\ Waiting(g, n[k]) /\ g.body[n[k].after] = << >> /\ q[n[k].after] = 0
  <2>1. Waiting(f, n[k]) /\ n[k].after # f.at /\ f.body[n[k].after] = << >> /\ r[n[k].after] = 0
    BY <1>1 DEF BlocksOpen
  <2>2. Waiting(g, n[k]) /\ g.body[n[k].after] = << >>
    BY <1>1, <1>2, <2>1, StillWaiting
  <2>3. n[k].after \in Blocks(f) /\ n[k].loop \in Blocks(f)
    BY <2>1 DEF Waiting
  <2> QED
    BY <1>2, <2>1, <2>2, <2>3
<1>8. \A k \in DOMAIN m : Waiting(g, m[k]) /\ q[m[k].after] = 0 /\ g.body[m[k].after] = << >>
  BY <1>2, <1>3, <1>4, <1>6, <1>7
<1>9. \A k, i \in DOMAIN m : m[k].loop = m[i].loop => k = i
  BY <1>1, <1>2, <1>3, <1>6, <1>7
<1>10. BlocksOpen(g, m, FALSE)
  <2>1. \A k \in DOMAIN m : m[k].after # g.at
    BY <1>2, <1>3, <1>6, <1>7
  <2>2. \A k, i \in DOMAIN m : m[i].after = m[k].after => i = k
    <3>1. \A k, i \in DOMAIN n : n[i].after = n[k].after => i = k
      BY <1>1 DEF BlocksOpen
    <3> QED
      BY <1>2, <1>3, <1>6, <1>7, <3>1
  <2>3. ASSUME NEW b \in Blocks(g) \ {g.at}, \A k \in DOMAIN m : m[k].after # b
        PROVE  IsClosed(g.body[b])
    <3>1. b # A /\ b \in Blocks(f)
      BY <1>2, <1>3, <1>6, <2>3
    <3>2. CASE b = f.at
      BY <1>2, <3>2
    <3>3. CASE b # f.at
      <4>1. \A k \in DOMAIN n : n[k].after # b
        BY <1>6, <2>3
      <4>2. IsClosed(f.body[b])
        BY <1>1, <3>1, <3>3, <4>1 DEF BlocksOpen
      <4> QED
        BY <1>2, <3>1, <3>3, <4>2, SimilarBlocks
    <3> QED
      BY <3>2, <3>3
  <2> QED
    BY <1>2, <1>8, <2>1, <2>2, <2>3 DEF BlocksOpen
<1>11. \A b \in Blocks(g) : Matched(g, b)
  BY DEF Opened
<1> QED
  BY <1>2, <1>5, <1>8, <1>9, <1>10, <1>11 DEF Nested, m, e

\* Straight-line code leaves every activation waiting.
LEMMA NestedStatement ==
  ASSUME NEW f, NEW r, NEW n, Nested(f, r, n, FALSE), NEW g, Straight(f, r, g)
  PROVE  Nested(g, r, n, FALSE)
<1>1. /\ Sound(f, r) /\ BlocksOpen(f, n, FALSE) /\ Sound(g, r) /\ Keeps(f, g)
      /\ \A k \in DOMAIN n : Waiting(f, n[k])
      /\ g.at = f.at /\ Blocks(g) = Blocks(f) /\ IsOpen(g.body[g.at])
      /\ \A b \in Blocks(f) : b # f.at => Similar(f, g, b)
  BY DEF Nested, Straight
<1>2. ASSUME NEW k \in DOMAIN n
      PROVE  Waiting(g, n[k]) /\ g.body[n[k].after] = << >>
  <2>1. n[k].after # f.at /\ f.body[n[k].after] = << >>
    BY <1>1 DEF BlocksOpen
  <2> QED
    BY <1>1, <2>1, StillWaiting
<1>3. ASSUME NEW b \in Blocks(g) \ {g.at}, \A k \in DOMAIN n : n[k].after # b
      PROVE  IsClosed(g.body[b])
  <2>1. IsClosed(f.body[b])
    BY <1>1, <1>3 DEF BlocksOpen
  <2> QED
    BY <1>1, <2>1, SimilarBlocks
<1>4. BlocksOpen(g, n, FALSE)
  BY <1>1, <1>2, <1>3 DEF BlocksOpen
<1> QED
  BY <1>2, <1>4 DEF Nested, Straight

\* Leaving the innermost loop: the other activations go on waiting.
LEMMA NestedExit ==
  ASSUME NEW f, NEW r, NEW n, Nested(f, r, n, FALSE), n # << >>,
         NEW g, NEW q, Closed(f, r, g, q, n[Len(n)].after)
  PROVE  Nested(g, q, SubSeq(n, 1, Len(n) - 1), FALSE)
<1> DEFINE x == Len(n)
           A == n[x].after
           m == SubSeq(n, 1, Len(n) - 1)
<1>1. /\ Sound(f, r) /\ n \in Seq(Activation) /\ BlocksOpen(f, n, FALSE)
      /\ \A k \in DOMAIN n : Waiting(f, n[k]) /\ r[n[k].after] = 0
      /\ \A k, i \in DOMAIN n : n[k].loop = n[i].loop => k = i
  BY DEF Nested
<1>2. /\ Sound(g, q) /\ g.at = A /\ Blocks(g) = Blocks(f) /\ Keeps(f, g)
      /\ \A b \in Blocks(f) : b # A /\ r[b] = 0 => q[b] = 0
      /\ \A b \in Blocks(g) : Matched(g, b)
      /\ g.body[A] = << >> /\ IsClosed(g.body[f.at])
      /\ \A b \in Blocks(f) : b # f.at => Similar(f, g, b)
  BY DEF Closed
<1>3. Len(n) \in Nat /\ Len(n) # 0 /\ DOMAIN n = 1 .. Len(n)
  BY <1>1
<1>4. /\ m \in Seq(Activation) /\ Len(m) = Len(n) - 1
      /\ \A k \in 1 .. Len(n) - 1 : m[k] = n[k]
  <2>1. \A k \in 1 .. Len(n) - 1 : n[k] \in Activation
    BY <1>1, <1>3
  <2> HIDE DEF x
  <2>2. 1 \in 1 .. Len(n) + 1 /\ Len(n) - 1 \in 0 .. Len(n)
    BY <1>3
  <2> QED
    BY <1>1, <1>3, SubSeqProperties
<1>5. DOMAIN m = 1 .. Len(n) - 1
  BY <1>4
<1> HIDE DEF m
<1>6. x \in DOMAIN n /\ x \notin DOMAIN m /\ DOMAIN n = DOMAIN m \cup {x}
      /\ \A k \in DOMAIN m : m[k] = n[k]
  BY <1>3, <1>4, <1>5
<1> HIDE DEF x
<1>7. ASSUME NEW k \in DOMAIN m
      PROVE  /\ m[k] = n[k] /\ k \in DOMAIN n /\ n[k].after # A
             /\ Waiting(g, n[k]) /\ g.body[n[k].after] = << >> /\ q[n[k].after] = 0
  <2>1. k \in DOMAIN n /\ k # x
    BY <1>6
  <2>2. /\ Waiting(f, n[k]) /\ n[k].after # f.at /\ f.body[n[k].after] = << >> /\ r[n[k].after] = 0
        /\ n[k].after # A
    BY <1>1, <1>6, <2>1 DEF BlocksOpen
  <2>3. Waiting(g, n[k]) /\ g.body[n[k].after] = << >>
    BY <1>1, <1>2, <2>2, StillWaiting
  <2>4. n[k].after \in Blocks(f)
    BY <2>2 DEF Waiting
  <2> QED
    BY <1>2, <1>6, <2>1, <2>2, <2>3, <2>4
<1>8. \A k, i \in DOMAIN m : m[k].loop = m[i].loop => k = i
  BY <1>1, <1>7
<1>9. BlocksOpen(g, m, FALSE)
  <2>1. \A k, i \in DOMAIN m : m[i].after = m[k].after => i = k
    <3>1. \A k, i \in DOMAIN n : n[i].after = n[k].after => i = k
      BY <1>1 DEF BlocksOpen
    <3> QED
      BY <1>7, <3>1
  <2>2. IsOpen(g.body[g.at])
    BY <1>2 DEF IsOpen
  <2>3. ASSUME NEW b \in Blocks(g) \ {g.at}, \A k \in DOMAIN m : m[k].after # b
        PROVE  IsClosed(g.body[b])
    <3>1. b \in Blocks(f) /\ b # A /\ \A k \in DOMAIN n : n[k].after # b
      BY <1>2, <1>6, <2>3
    <3>2. CASE b = f.at
      BY <1>2, <3>2
    <3>3. CASE b # f.at
      <4>1. IsClosed(f.body[b])
        BY <1>1, <3>1, <3>3 DEF BlocksOpen
      <4> QED
        BY <1>2, <3>1, <3>3, <4>1, SimilarBlocks
    <3> QED
      BY <3>2, <3>3
  <2> QED
    BY <1>2, <1>7, <2>1, <2>2, <2>3 DEF BlocksOpen
<1> QED
  BY <1>2, <1>4, <1>7, <1>8, <1>9 DEF Nested, m

\* The return closes the last open block when no activation waits.
LEMMA NestedFinish ==
  ASSUME NEW f, NEW r, Nested(f, r, << >>, FALSE), NEW p, Usable(f, p), p.type = "i64*",
         NEW g, g = CreateRet(CreateLoad(f, p), Result(CreateLoad(f, p)))
  PROVE  Nested(g, r, << >>, TRUE) /\ Keeps(f, g)
<1>1. Sound(f, r) /\ IsOpen(f.body[f.at]) /\ \A b \in Blocks(f) : Matched(f, b)
  BY DEF Nested, BlocksOpen
<1>2. /\ Sound(g, r) /\ g.at = f.at /\ Blocks(g) = Blocks(f) /\ Keeps(f, g)
      /\ \A b \in Blocks(g) : Matched(g, b)
      /\ IsClosed(g.body[g.at])
      /\ \A b \in Blocks(f) : b # f.at => Similar(f, g, b)
  BY <1>1, FinishStep
<1> DEFINE n == << >>
<1>3. n \in Seq(Activation) /\ DOMAIN n = {}
  OBVIOUS
<1>4. BlocksOpen(f, n, FALSE)
  BY DEF Nested
<1> HIDE DEF n
<1>5. ASSUME NEW b \in Blocks(g) \ {g.at} PROVE IsClosed(g.body[b])
  <2>1. IsClosed(f.body[b])
    BY <1>2, <1>3, <1>4 DEF BlocksOpen
  <2> QED
    BY <1>2, <2>1, SimilarBlocks
<1>6. BlocksOpen(g, n, TRUE)
  BY <1>2, <1>3, <1>5 DEF BlocksOpen
<1> QED
  BY <1>2, <1>3, <1>6 DEF Nested, n

\* The function of the kernel when its entry block has just been made.
LEMMA StartSound ==
  ASSUME NEW f, f = [params |-> KernelParams, ret |-> "i64", body |-> << << >> >>, at |-> 1, next |-> 1]
  PROVE  \E r : Nested(f, r, << >>, FALSE)
<1> DEFINE r == [b \in Nat |-> IF b = 1 THEN 1 ELSE 0]
<1>1. /\ f.params = KernelParams /\ f.ret = "i64" /\ f.body = << << >> >> /\ f.at = 1 /\ f.next = 1
  OBVIOUS
<1>2. f \in Function
  <2>1. KernelParams \in Seq(Types) /\ "i64" \in Types
    BY DEF KernelParams, Types
  <2>2. << << >> >> \in Seq(Seq(Instruction))
    <3>1. << >> \in Seq(Instruction)
      OBVIOUS
    <3> DEFINE I == Seq(Instruction)
    <3> HIDE DEF I
    <3>2. \A s \in I : <<s>> \in Seq(I)
      OBVIOUS
    <3> QED
      BY <3>1, <3>2 DEF I
  <2> DEFINE body == << << >> >>
  <2> HIDE DEF body
  <2> QED
    BY <2>1, <2>2 DEF Function, body
<1>3. Blocks(f) = {1} /\ f.body[1] = << >> /\ DOMAIN f.body[1] = {}
  BY <1>1 DEF Blocks
<1> HIDE DEF r
<1>4. r \in [Nat -> Nat] /\ r[1] = 1 /\ \A b \in Nat : b # 1 => r[b] = 0
  BY DEF r
<1>5. \A a, b : ~ Edge(f, a, b)
  BY <1>3 DEF Edge
<1>6. WellFormed(f)
  BY <1>1, <1>2, <1>3 DEF WellFormed, UniqueIds
<1>7. Ranked(f, r)
  <2>1. \A b \in Nat : r[b] <= r[1] /\ (r[b] # 0 => b = 1)
    BY <1>4
  <2>2. \A a, b \in Nat : r[a] = r[b] /\ r[a] # 0 => a = b
    BY <2>1
  <2>3. \A b \in Nat : b \notin Blocks(f) => r[b] = 0
    BY <1>3, <1>4
  <2>4. \A b \in Blocks(f) : f.body[b] # << >> => r[b] # 0
    BY <1>3
  <2> QED
    BY <1>1, <1>4, <1>5, <2>1, <2>2, <2>3, <2>4 DEF Ranked
<1>8. UsesPrecede(f, r)
  BY <1>3 DEF UsesPrecede
<1> DEFINE n == << >>
<1>9. n \in Seq(Activation) /\ DOMAIN n = {}
  OBVIOUS
<1>10. IsOpen(f.body[1]) /\ Matched(f, 1)
  BY <1>3 DEF IsOpen, Matched
<1> HIDE DEF n
<1>11. BlocksOpen(f, n, FALSE)
  BY <1>1, <1>3, <1>9, <1>10 DEF BlocksOpen
<1>12. Nested(f, r, n, FALSE)
  BY <1>3, <1>6, <1>7, <1>8, <1>9, <1>10, <1>11 DEF Nested, Sound
<1> QED
  BY <1>12 DEF n

\* Memory on the stack for an integer.
LEMMA AllocaStep ==
  ASSUME NEW f, NEW r, Sound(f, r), IsOpen(f.body[f.at]), \A b \in Blocks(f) : Matched(f, b)
  PROVE  /\ Straight(f, r, CreateAlloca(f, "i64"))
         /\ Usable(CreateAlloca(f, "i64"), Result(CreateAlloca(f, "i64")))
         /\ Result(CreateAlloca(f, "i64")).type = "i64*"
<1> DEFINE g == CreateAlloca(f, "i64")
           args == << >>
<1>1. g = Insert(f, "alloca", "i64*", args, << >>)
  BY DEF CreateAlloca, PointerType
<1>2. args \in Seq(Value) /\ \A k \in DOMAIN args : Usable(f, args[k])
  OBVIOUS
<1>3. "alloca" \in Opcodes /\ "alloca" \notin Terminators /\ "i64*" \in Types
  BY DEF Opcodes, Terminators, Types
<1>4. ASSUME NEW i \in Instruction, i.op = "alloca", i.type = "i64*", i.args = args
      PROVE  OpTyped(i)
  BY <1>4 DEF OpTyped
<1> HIDE DEF g, args
<1>5. Straight(f, r, g) /\ Usable(g, Result(g)) /\ Result(g).type = "i64*"
  BY <1>1, <1>2, <1>3, <1>4, Emit
<1> QED
  BY <1>5 DEF g

\* The kernel as it is before its first loop.
LEMMA InvInit == Init => IInv
<1> SUFFICES ASSUME Init PROVE IInv
  OBVIOUS
<1> DEFINE g0 == SetInsertPointAtEnd(AddBasicBlock(AddFunction(<<"i64*", PointerType("i64"), "i8*">>, "i64")),
                   LastBlock(AddBasicBlock(AddFunction(<<"i64*", PointerType("i64"), "i8*">>, "i64"))))
           f1 == CreateLoad(g0, Param(g0, 0))
           f2 == CreateAlloca(f1, "i64")
           f3 == CreateStore(f2, ConstInt("i64", 0), Result(f2))
<1>1. KernelEntry("i64") = f1
  BY DEF KernelEntry
<1>2. /\ count = Result(f1) /\ accum = Result(f2) /\ fn = f3
      /\ nest = << >> /\ loops = 0 /\ stmts = 0 /\ done = FALSE
  BY <1>1 DEF Init
<1>3. g0 = [params |-> KernelParams, ret |-> "i64", body |-> << << >> >>, at |-> 1, next |-> 1]
  <2> DEFINE d == AddFunction(<<"i64*", PointerType("i64"), "i8*">>, "i64")
             e == AddBasicBlock(d)
  <2>1. d = [params |-> KernelParams, ret |-> "i64", body |-> << >>, at |-> 0, next |-> 1]
    BY DEF AddFunction, PointerType, KernelParams
  <2> HIDE DEF d
  <2>2. Append(<< >>, << >>) = << << >> >>
    OBVIOUS
  <2>3. e = [params |-> KernelParams, ret |-> "i64", body |-> << << >> >>, at |-> 0, next |-> 1]
    BY <2>1, <2>2 DEF AddBasicBlock
  <2> HIDE DEF e
  <2>4. LastBlock(e) = 1
    BY <2>3 DEF LastBlock
  <2>5. g0 = SetInsertPointAtEnd(e, 1)
    BY <2>4 DEF e, d
  <2> HIDE DEF g0
  <2> QED
    BY <2>3, <2>5 DEF SetInsertPointAtEnd
<1> HIDE DEF g0
<1>4. PICK r : Nested(g0, r, << >>, FALSE)
  BY <1>3, StartSound
<1>5. Straight(g0, r, g0)
  <2>1. Keeps(g0, g0) /\ \A b \in Blocks(g0) : Similar(g0, g0, b)
    BY DEF Keeps, Similar
  <2>2. Sound(g0, r) /\ IsOpen(g0.body[g0.at]) /\ \A b \in Blocks(g0) : Matched(g0, b)
    BY <1>4 DEF Nested, BlocksOpen
  <2> QED
    BY <2>1, <2>2 DEF Straight
<1>6. Straight(g0, r, f1) /\ Usable(f1, count) /\ count.type = "i64"
  <2>1. Usable(g0, Param(g0, 0)) /\ Param(g0, 0).type = "i64*"
    BY <1>5, Parameters DEF Straight, Sound
  <2> QED
    BY <1>2, <1>5, <2>1, LoadStep DEF Straight
<1> HIDE DEF f1
<1>7. Straight(f1, r, f2) /\ Usable(f2, accum) /\ accum.type = "i64*"
  BY <1>2, <1>6, AllocaStep DEF Straight
<1> HIDE DEF f2
<1>8. Straight(f2, r, f3)
  <2>1. ConstInt("i64", 0).type = "i64" /\ Usable(f2, ConstInt("i64", 0))
    BY Operands DEF Usable, Types
  <2> QED
    BY <1>2, <1>7, <2>1, StoreStep DEF Straight
<1> HIDE DEF f3
<1>9. Straight(g0, r, f3)
  BY <1>6, <1>7, <1>8, StraightTrans
<1>10. Nested(f3, r, << >>, FALSE)
  BY <1>4, <1>9, NestedStatement
<1>11. Usable(f3, count) /\ Usable(f3, accum)
  BY <1>6, <1>7, <1>8, KeptUsable DEF Straight
<1>12. Nested(fn, r, nest, done) /\ Usable(fn, count) /\ Usable(fn, accum)
  BY <1>2, <1>10, <1>11
<1>13. loops \in 0..MaxLoops /\ stmts \in 0..MaxStmts /\ done \in BOOLEAN
  <2>1. MaxLoops \in Nat /\ MaxStmts \in Nat
    BY BoundsAssumption
  <2>2. loops = 0 /\ stmts = 0 /\ done = FALSE
    BY <1>2
  <2>3. 0 \in 0..MaxLoops /\ 0 \in 0..MaxStmts
    BY <2>1
  <2> QED
    BY <2>2, <2>3
<1> QED
  BY <1>6, <1>7, <1>12, <1>13 DEF IInv

\* A loop is entered with any trip count that may be used.
LEMMA InvEnter ==
  ASSUME IInv, NEW end, Usable(fn, end), end.type = "i64", EnterLoop(end)
  PROVE  IInv'
<1>1. PICK r : Nested(fn, r, nest, done)
  BY DEF IInv
<1>2. done = FALSE /\ loops < MaxLoops
  BY DEF EnterLoop, IInv
<1>3. /\ Sound(fn, r) /\ IsOpen(fn.body[fn.at]) /\ \A b \in Blocks(fn) : Matched(fn, b)
  BY <1>1, <1>2 DEF Nested, BlocksOpen
<1>4. PICK g, q, L, A, phi :
        /\ OpenLoop(fn) = [fn |-> g, phi |-> phi, loop |-> L, after |-> A]
        /\ Opened(fn, r, g, q, L, A, phi)
  BY <1>3, OpenLoopStep
<1>5. /\ fn' = g
      /\ nest' = Append(nest, [phi |-> phi, loop |-> L, after |-> A, end |-> end])
      /\ loops' = loops + 1
      /\ count' = count /\ accum' = accum /\ stmts' = stmts /\ done' = done
  BY <1>4 DEF EnterLoop
<1>6. Nested(g, q, Append(nest, [phi |-> phi, loop |-> L, after |-> A, end |-> end]), FALSE)
  BY <1>1, <1>2, <1>4, NestedEnter
<1>7. Nested(fn, q, nest, done)'
  BY <1>2, <1>5, <1>6
<1>8. Usable(g, count) /\ Usable(g, accum)
  BY <1>4, KeptUsable DEF Opened, IInv
<1>9. loops' \in 0..MaxLoops /\ stmts' \in 0..MaxStmts /\ done' \in BOOLEAN
  BY <1>2, <1>5, BoundsAssumption DEF IInv
<1> QED
  BY <1>5, <1>7, <1>8, <1>9 DEF IInv

\* The innermost activation, while there is one.
LEMMA TopFacts ==
  ASSUME IInv, nest # << >>, NEW r, Nested(fn, r, nest, done)
  PROVE  /\ done = FALSE /\ Sound(fn, r) /\ IsOpen(fn.body[fn.at])
         /\ \A b \in Blocks(fn) : Matched(fn, b)
         /\ Waiting(fn, Top) /\ Top.phi \in Value
         /\ fn.body[Top.after] = << >> /\ r[Top.after] = 0
         /\ Usable(fn, Top.phi) /\ Top.phi.type = "i64"
<1>1. /\ nest \in Seq(Activation) /\ done = FALSE
      /\ \A k \in DOMAIN nest : Waiting(fn, nest[k]) /\ r[nest[k].after] = 0
      /\ BlocksOpen(fn, nest, done) /\ Sound(fn, r)
      /\ \A b \in Blocks(fn) : Matched(fn, b)
  BY DEF Nested, IInv
<1>2. Len(nest) \in DOMAIN nest /\ nest[Len(nest)] \in Activation
  BY <1>1
<1>3. Waiting(fn, Top) /\ r[Top.after] = 0 /\ fn.body[Top.after] = << >> /\ IsOpen(fn.body[fn.at])
  BY <1>1, <1>2 DEF Top, BlocksOpen
<1>4. Top.phi \in Value
  BY <1>2 DEF Top, Activation
<1>5. Usable(fn, Top.phi) /\ Top.phi.type = "i64"
  BY <1>1, <1>3, <1>4, PhiUsable DEF Sound, WellFormed
<1> QED
  BY <1>1, <1>3, <1>4, <1>5

\* A callback, or the kernel itself, emits a statement.
LEMMA InvStatement ==
  ASSUME IInv, Statement
  PROVE  IInv'
<1>1. PICK r : Nested(fn, r, nest, done)
  BY DEF IInv
<1>2. /\ nest # << >> /\ stmts < MaxStmts /\ stmts' = stmts + 1
      /\ fn' = AccumulateInt64(fn, Top.phi, accum)
      /\ count' = count /\ accum' = accum /\ nest' = nest /\ loops' = loops /\ done' = done
  BY DEF Statement
<1> DEFINE g == AccumulateInt64(fn, Top.phi, accum)
<1>3. Straight(fn, r, g)
  BY <1>1, <1>2, TopFacts, AccumulateStep DEF IInv
<1> HIDE DEF g
<1>4. done = FALSE
  BY <1>1, <1>2, TopFacts
<1>5. Nested(g, r, nest, FALSE)
  BY <1>1, <1>3, <1>4, NestedStatement
<1>6. Nested(fn, r, nest, done)'
  BY <1>2, <1>4, <1>5 DEF g
<1>7. Usable(g, count) /\ Usable(g, accum)
  BY <1>3, KeptUsable DEF Straight, IInv
<1>8. loops' \in 0..MaxLoops /\ stmts' \in 0..MaxStmts /\ done' \in BOOLEAN
  BY <1>2, BoundsAssumption DEF IInv
<1> QED
  BY <1>2, <1>6, <1>7, <1>8 DEF IInv, g

\* A callback returns and buildLoop closes its loop.
LEMMA InvExit ==
  ASSUME IInv, ExitLoop
  PROVE  IInv'
<1>1. PICK r : Nested(fn, r, nest, done)
  BY DEF IInv
<1>2. /\ nest # << >> /\ fn' = CloseLoop(fn, Top, Top.end)
      /\ nest' = SubSeq(nest, 1, Len(nest) - 1)
      /\ count' = count /\ accum' = accum /\ loops' = loops /\ stmts' = stmts /\ done' = done
  BY DEF ExitLoop
<1> DEFINE g == CloseLoop(fn, Top, Top.end)
<1>3. PICK q : Closed(fn, r, g, q, Top.after)
  BY <1>1, <1>2, TopFacts, CloseLoopStep
<1> HIDE DEF g
<1>4. done = FALSE
  BY <1>1, <1>2, TopFacts
<1>5. Nested(g, q, SubSeq(nest, 1, Len(nest) - 1), FALSE)
  BY <1>1, <1>2, <1>3, <1>4, NestedExit DEF Top
<1>6. Nested(fn, q, nest, done)'
  BY <1>2, <1>4, <1>5 DEF g
<1>7. Usable(g, count) /\ Usable(g, accum)
  BY <1>3, KeptUsable DEF Closed, IInv
<1> QED
  BY <1>2, <1>6, <1>7 DEF IInv, g

\* The kernel returns its sum.
LEMMA InvFinish ==
  ASSUME IInv, Finish
  PROVE  IInv'
<1>1. PICK r : Nested(fn, r, nest, done)
  BY DEF IInv
<1>2. /\ done = FALSE /\ nest = << >> /\ done' = TRUE
      /\ fn' = CreateRet(CreateLoad(fn, accum), Result(CreateLoad(fn, accum)))
      /\ count' = count /\ accum' = accum /\ nest' = nest /\ loops' = loops /\ stmts' = stmts
  BY DEF Finish, IInv
<1> DEFINE g == CreateRet(CreateLoad(fn, accum), Result(CreateLoad(fn, accum)))
<1>3. Nested(g, r, << >>, TRUE) /\ Keeps(fn, g)
  BY <1>1, <1>2, NestedFinish DEF IInv
<1> HIDE DEF g
<1>4. Nested(fn, r, nest, done)'
  BY <1>2, <1>3 DEF g
<1>5. Usable(g, count) /\ Usable(g, accum)
  BY <1>3, KeptUsable DEF IInv
<1> QED
  BY <1>2, <1>4, <1>5 DEF IInv, g

\* Every step keeps the invariant.
LEMMA InvNext == IInv /\ [Next]_vars => IInv'
<1> SUFFICES ASSUME IInv, [Next]_vars PROVE IInv'
  OBVIOUS
<1>1. CASE EnterLoop(count)
  BY <1>1, InvEnter DEF IInv
<1>2. CASE nest # << >> /\ EnterLoop(Top.phi)
  <2>1. PICK r : Nested(fn, r, nest, done)
    BY DEF IInv
  <2> QED
    BY <1>2, <2>1, TopFacts, InvEnter
<1>3. CASE Statement
  BY <1>3, InvStatement
<1>4. CASE ExitLoop
  BY <1>4, InvExit
<1>5. CASE Finish
  BY <1>5, InvFinish
<1>6. CASE UNCHANGED vars
  BY <1>6 DEF vars, IInv
<1> QED
  BY <1>1, <1>2, <1>3, <1>4, <1>5, <1>6 DEF Next

-----------------------------------------------------------------------------
(* What follows from the invariant.                                        *)

\* The order of the blocks decides dominance: a block that was entered is
\* on every path to the blocks entered after it, and to itself.
LEMMA RankDominates ==
  ASSUME NEW f, NEW r, Sound(f, r), NEW d \in Nat, r[d] # 0, NEW b \in Nat, r[d] <= r[b]
  PROVE  Dominates(f, d, b)
<1> DEFINE X == {x \in Blocks(f) : r[x] < r[d]}
<1>1. f \in Function /\ Blocks(f) \subseteq Nat /\ 1 \in Blocks(f) /\ \A x \in Nat : r[x] \in Nat
  BY RankFacts
<1>2. Len(f.body) \in Nat
  BY <1>1, BlockTypes
<1>3. {1} \ {d} \subseteq X
  <2>1. r[1] = 1 /\ (r[1] = r[d] /\ r[1] # 0 => 1 = d) /\ r[d] \in Nat
    BY <1>1 DEF Sound, Ranked
  <2> QED
    BY <1>1, <2>1
<1>4. ASSUME NEW x \in X, NEW y \in Successors(f, x), y # d
      PROVE  y \in X
  <2>1. Edge(f, x, y)
    <3>1. x \in Blocks(f)
      OBVIOUS
    <3>2. PICK j \in DOMAIN f.body[x] : f.body[x][j].op \in Terminators /\ y \in SeqRange(f.body[x][j].bbs)
      BY DEF Successors
    <3> QED
      BY <3>1, <3>2 DEF Edge, SeqRange
  <2>2. y \in Blocks(f) /\ y \in Nat
    BY <2>1, EdgeEnds, RankFacts
  <2>3. /\ r[y] # 0 /\ r[y] <= r[x] + 1
        /\ (r[y] = r[d] /\ r[y] # 0 => y = d)
    <3>1. x \in Nat /\ d \in Nat
      BY <1>1
    <3> QED
      BY <2>1, <2>2, <3>1 DEF Sound, Ranked
  <2>4. r[x] \in Nat /\ r[y] \in Nat /\ r[d] \in Nat /\ r[x] < r[d]
    BY <1>1, <2>2
  <2>5. r[y] < r[d]
    BY <1>4, <2>3, <2>4
  <2> QED
    BY <2>2, <2>5
<1>5. b \notin X
  BY <1>1
<1> HIDE DEF X
<1>6. ReachableAvoiding(f, d) \subseteq X
  BY <1>2, <1>3, <1>4, ReachableWithin
<1> QED
  BY <1>5, <1>6 DEF Dominates

\* An instruction that precedes another is available to it.
LEMMA PrecedesAvailable ==
  ASSUME NEW f, NEW r, Sound(f, r), NEW v, NEW b \in Blocks(f), NEW j, Precedes(f, r, v.n, b, j)
  PROVE  AvailableAt(f, v, <<b, j>>)
<1>1. PICK c \in Blocks(f) : \E l \in DOMAIN f.body[c] :
        f.body[c][l].id = v.n /\ ((c = b /\ l < j) \/ (c # b /\ r[c] < r[b]))
  BY DEF Precedes
<1>2. PICK l \in DOMAIN f.body[c] :
        f.body[c][l].id = v.n /\ ((c = b /\ l < j) \/ (c # b /\ r[c] < r[b]))
  BY <1>1
<1>3. <<c, l>> \in Points(f)
  BY <1>2 DEF Points
<1>4. At(f, <<c, l>>).id = v.n
  BY <1>2 DEF At
<1>5. c # b => Dominates(f, c, b)
  <2>1. /\ c \in Nat /\ b \in Nat /\ r[c] \in Nat /\ r[b] \in Nat
    BY RankFacts
  <2>2. f.body[c] # << >>
    BY <1>2
  <2>3. r[c] # 0
    BY <2>2 DEF Sound, Ranked
  <2> QED
    BY <1>2, <2>1, <2>3, RankDominates
<1>6. IF c = b THEN l < j ELSE Dominates(f, c, b)
  BY <1>2, <1>5
<1> DEFINE q == <<c, l>>
           p == <<b, j>>
<1>7. q[1] = c /\ q[2] = l /\ p[1] = b /\ p[2] = j
  OBVIOUS
<1> HIDE DEF q, p
<1>8. q \in Points(f) /\ At(f, q).id = v.n /\ IF q[1] = p[1] THEN q[2] < p[2] ELSE Dominates(f, q[1], p[1])
  BY <1>3, <1>4, <1>6, <1>7 DEF q
<1>9. AvailableAt(f, v, p)
  BY <1>8 DEF AvailableAt
<1> QED
  BY <1>9 DEF p

\* A sequence without repetitions has as many elements as its range.
LEMMA RangeCardinality ==
  ASSUME NEW s \in Seq(Nat), \A k, l \in DOMAIN s : s[k] = s[l] => k = l
  PROVE  IsFiniteSet(SeqRange(s)) /\ Cardinality(SeqRange(s)) = Len(s)
<1>1. Len(s) \in Nat /\ DOMAIN s = 1 .. Len(s)
  OBVIOUS
<1>2. s \in Bijection(1 .. Len(s), SeqRange(s))
  <2>1. s \in [1 .. Len(s) -> SeqRange(s)]
    BY <1>1 DEF SeqRange
  <2>2. s \in Surjection(1 .. Len(s), SeqRange(s))
    BY <1>1, <2>1 DEF Surjection, SeqRange
  <2>3. s \in Injection(1 .. Len(s), SeqRange(s))
    BY <1>1, <2>1 DEF Injection, IsInjective
  <2> QED
    BY <2>2, <2>3 DEF Bijection
<1>3. IsFiniteSet(1 .. Len(s)) /\ Cardinality(1 .. Len(s)) = Len(s)
  <2>1. 1 \in Int /\ Len(s) \in Int
    BY <1>1
  <2>2. /\ IsFiniteSet(1 .. Len(s))
        /\ Cardinality(1 .. Len(s)) = IF 1 > Len(s) THEN 0 ELSE Len(s) - 1 + 1
    BY <2>1, FS_Interval
  <2> QED
    BY <1>1, <2>2
<1>4. ExistsBijection(1 .. Len(s), SeqRange(s))
  BY <1>2 DEF ExistsBijection
<1> QED
  BY <1>3, <1>4, FS_Bijection

\* A point of a function is a block of it and an element of that block.
LEMMA PointsAre ==
  ASSUME NEW f, NEW p \in Points(f)
  PROVE  /\ p[1] \in Blocks(f) /\ p[2] \in DOMAIN f.body[p[1]] /\ At(f, p) = f.body[p[1]][p[2]]
         /\ p = <<p[1], p[2]>>
  BY DEF Points, At

\* A sound function whose blocks are closed passes the verifier.
LEMMA SoundVerifies ==
  ASSUME NEW f, NEW r, Sound(f, r), \A b \in Blocks(f) : Matched(f, b) /\ IsClosed(f.body[b])
  PROVE  VerifyFunction(f)
<1>1. f \in Function /\ Blocks(f) \subseteq Nat /\ 1 \in Blocks(f)
  BY RankFacts
<1>2. f.body # << >>
  BY <1>1 DEF Blocks
<1>3. ASSUME NEW a, NEW b \in Blocks(f)
      PROVE  a \in Successors(f, b) <=> Edge(f, b, a)
  BY DEF Successors, Edge, SeqRange
<1>4. ASSUME NEW b \in Blocks(f) PROVE 1 \notin Successors(f, b)
  BY <1>3, EdgeEnds
<1>5. PhisMatchEdges(f)
  <2> SUFFICES ASSUME NEW p \in Points(f), At(f, p).op = "phi"
               PROVE  /\ \A j \in 1..p[2] : f.body[p[1]][j].op = "phi"
                      /\ Len(At(f, p).args) = Len(At(f, p).bbs)
                      /\ SeqRange(At(f, p).bbs) = Predecessors(f, p[1])
                      /\ Len(At(f, p).bbs) = Cardinality(Predecessors(f, p[1]))
    BY DEF PhisMatchEdges
  <2> DEFINE b == p[1]
             i == At(f, p)
  <2>1. b \in Blocks(f) /\ p[2] \in DOMAIN f.body[b] /\ i = f.body[b][p[2]]
    BY PointsAre
  <2>2. Fits(f, i, p[2]) /\ i \in Instruction
    BY <1>1, <2>1, BlockTypes DEF Sound, WellFormed
  <2>3. p[2] = 1 /\ Len(i.args) = Len(i.bbs) /\ i.bbs \in Seq(Nat)
    BY <2>2 DEF Fits, Instruction
  <2>4. \A j \in 1..p[2] : f.body[b][j].op = "phi"
    <3>1. \A j \in 1..p[2] : j = p[2]
      BY <2>3
    <3> QED
      BY <2>1, <3>1
  <2>5. /\ \A a \in Nat : Edge(f, a, b) <=> \E k \in DOMAIN i.bbs : i.bbs[k] = a
        /\ \A k, l \in DOMAIN i.bbs : i.bbs[k] = i.bbs[l] => k = l
    <3>1. Matched(f, b) /\ f.body[b][p[2]].op = "phi"
      BY <2>1
    <3> HIDE DEF b
    <3>2. LET s == f.body[b][p[2]].bbs
          IN  /\ \A a \in Nat : Edge(f, a, b) <=> \E k \in DOMAIN s : s[k] = a
              /\ \A k, l \in DOMAIN s : s[k] = s[l] => k = l
      BY <2>1, <3>1, Zenon DEF Matched
    <3> QED
      BY <2>1, <3>2
  <2>6. SeqRange(i.bbs) = Predecessors(f, b)
    <3>1. ASSUME NEW a \in SeqRange(i.bbs) PROVE a \in Predecessors(f, b)
      <4>1. a \in Nat /\ \E k \in DOMAIN i.bbs : i.bbs[k] = a
        BY <2>3 DEF SeqRange
      <4>2. Edge(f, a, b)
        BY <2>5, <4>1
      <4> QED
        BY <1>3, <4>2 DEF Predecessors, Edge
    <3>2. ASSUME NEW a \in Predecessors(f, b) PROVE a \in SeqRange(i.bbs)
      <4>1. a \in Blocks(f) /\ Edge(f, a, b)
        BY <1>3 DEF Predecessors
      <4> QED
        BY <1>1, <2>5, <4>1 DEF SeqRange
    <3> QED
      BY <3>1, <3>2
  <2>7. Cardinality(SeqRange(i.bbs)) = Len(i.bbs)
    BY <2>3, <2>5, RangeCardinality
  <2> QED
    BY <2>3, <2>4, <2>6, <2>7
<1>6. UsesDominated(f)
  <2> SUFFICES ASSUME NEW p \in Points(f), NEW k \in DOMAIN At(f, p).args,
                      At(f, p).args[k].kind = "inst"
               PROVE  IF At(f, p).op = "phi"
                      THEN AvailableAt(f, At(f, p).args[k],
                             <<At(f, p).bbs[k], Len(f.body[At(f, p).bbs[k]]) + 1>>)
                      ELSE AvailableAt(f, At(f, p).args[k], p)
    BY DEF UsesDominated
  <2> DEFINE b == p[1]
             i == At(f, p)
  <2>1. b \in Blocks(f) /\ p[2] \in DOMAIN f.body[b] /\ i = f.body[b][p[2]] /\ p = <<b, p[2]>>
    BY PointsAre
  <2>2. Fits(f, i, p[2]) /\ i \in Instruction /\ OperandsPrecede(f, r, i, b, p[2])
    BY <1>1, <2>1, BlockTypes DEF Sound, WellFormed, UsesPrecede
  <2> HIDE DEF i, b
  <2>3. ASSUME i.op = "phi"
        PROVE  AvailableAt(f, i.args[k], <<i.bbs[k], Len(f.body[i.bbs[k]]) + 1>>)
    <3>1. k \in DOMAIN i.bbs
      BY <2>2, <2>3 DEF Fits, Instruction, i
    <3>2. i.bbs[k] \in Blocks(f)
      BY <2>2, <3>1 DEF Fits, SeqRange
    <3>3. Precedes(f, r, i.args[k].n, i.bbs[k], Len(f.body[i.bbs[k]]) + 1)
      BY <2>2, <2>3 DEF OperandsPrecede, i
    <3> QED
      BY <3>2, <3>3, PrecedesAvailable
  <2>4. ASSUME i.op # "phi"
        PROVE  AvailableAt(f, i.args[k], p)
    <3>1. Precedes(f, r, i.args[k].n, b, p[2])
      BY <2>2, <2>4 DEF OperandsPrecede, i
    <3>2. AvailableAt(f, i.args[k], <<b, p[2]>>)
      BY <2>1, <3>1, PrecedesAvailable
    <3> QED
      BY <2>1, <3>2
  <2> QED
    BY <2>3, <2>4 DEF i
<1>7. OperandsTyped(f)
  <2>1. ASSUME NEW p \in Points(f) PROVE OpTyped(At(f, p))
    BY PointsAre DEF Sound, WellFormed, Fits
  <2>2. f.ret = "i64"
    BY DEF Sound, WellFormed
  <2> QED
    BY <2>1, <2>2 DEF OperandsTyped, OpTyped
<1> QED
  BY <1>2, <1>4, <1>5, <1>6, <1>7 DEF VerifyFunction

\* The properties of the module, from the invariant.
LEMMA InvImplies == IInv => TypeOK /\ OnlyPendingBlocksOpen /\ BodyDominated /\ FinishedVerifies
<1> SUFFICES ASSUME IInv PROVE TypeOK /\ OnlyPendingBlocksOpen /\ BodyDominated /\ FinishedVerifies
  OBVIOUS
<1>1. PICK r : Nested(fn, r, nest, done)
  BY DEF IInv
<1>2. /\ Sound(fn, r) /\ nest \in Seq(Activation) /\ BlocksOpen(fn, nest, done)
      /\ \A b \in Blocks(fn) : Matched(fn, b)
      /\ \A k \in DOMAIN nest : Waiting(fn, nest[k])
      /\ done => nest = << >>
  BY <1>1 DEF Nested
<1>3. TypeOK
  <2>1. fn \in Function /\ fn.at \in Blocks(fn)
    BY <1>2, RankFacts
  <2>2. \A p \in Points(fn) : SeqRange(At(fn, p).bbs) \subseteq Blocks(fn)
    BY <1>2, PointsAre DEF Sound, WellFormed, Fits
  <2>3. \A k \in DOMAIN nest : {nest[k].loop, nest[k].after} \subseteq Blocks(fn)
    BY <1>2 DEF Waiting
  <2> QED
    BY <1>2, <2>1, <2>2, <2>3 DEF TypeOK, IInv, Usable, Activation
<1>4. OnlyPendingBlocksOpen
  BY <1>2 DEF BlocksOpen, OnlyPendingBlocksOpen
<1>5. BodyDominated
  <2> SUFFICES ASSUME NEW k \in DOMAIN nest
               PROVE  Dominates(fn, nest[k].loop, fn.at)
    BY DEF BodyDominated
  <2>1. nest[k].loop \in Blocks(fn) /\ fn.body[nest[k].loop] # << >>
    BY <1>2 DEF Waiting
  <2>2. fn.at \in Nat /\ nest[k].loop \in Nat
    BY <1>2, <2>1, RankFacts
  <2>3. r[nest[k].loop] # 0 /\ r[nest[k].loop] <= r[fn.at]
    BY <1>2, <2>1, <2>2 DEF Sound, Ranked
  <2> QED
    BY <1>2, <2>2, <2>3, RankDominates
<1>6. FinishedVerifies
  <2> SUFFICES ASSUME done PROVE VerifyFunction(fn)
    BY DEF FinishedVerifies
  <2>1. \A k \in DOMAIN nest : FALSE
    BY <1>2
  <2>2. \A b \in Blocks(fn) : IsClosed(fn.body[b])
    BY <1>2, <2>1 DEF BlocksOpen
  <2> QED
    BY <1>2, <2>2, SoundVerifies
<1> QED
  BY <1>3, <1>4, <1>5, <1>6

\* The inductive invariant holds however the callbacks nest their loops.
THEOREM Invariant == Spec => []IInv
  BY InvInit, InvNext, PTL DEF Spec

\* The function under construction, and the activations that wait, are well
\* formed throughout.
THEOREM TypeCorrect == Spec => []TypeOK
  BY Invariant, InvImplies, PTL

\* No block is left without a terminator, and none is continued after one,
\* whatever a callback does to the insertion point (jit.go:109-112).
THEOREM OnlyExitsOpen == Spec => []OnlyPendingBlocksOpen
  BY Invariant, InvImplies, PTL

\* Where a callback ends, the phi of every loop around it may be used, and
\* that is where buildLoop uses it (jit.go:111).
THEOREM LoopsDominateBodies == Spec => []BodyDominated
  BY Invariant, InvImplies, PTL

\* The kernel passes LLVM's verifier for any number of loops, statements and
\* levels of nesting, in any order.
THEOREM NestsVerify == Spec => []FinishedVerifies
  BY Invariant, InvImplies, PTL
=============================================================================
