----------------------------- MODULE IRVerifier -----------------------------
(***************************************************************************)
(* What llvm.VerifyFunction and llvm.VerifyModule (llvm/analysis.go) ask   *)
(* of a function: LLVM's verifier, restricted to the instructions module   *)
(* IRBuilder builds.  The code generator of the jit never calls it, so a   *)
(* function that does not pass is compiled to undefined behaviour.         *)
(***************************************************************************)
EXTENDS IRBuilder, FiniteSets

Blocks(f) == DOMAIN f.body

\* The positions <<block, index>> of f's instructions.
Points(f) == UNION {{<<b, j>> : j \in DOMAIN f.body[b]} : b \in Blocks(f)}

At(f, p) == f.body[p[1]][p[2]]

\* An open block still accepts instructions; a closed one has a terminator,
\* its last instruction and no other.
IsOpen(blk) == \A j \in DOMAIN blk : blk[j].op \notin Terminators

IsClosed(blk) ==
  /\ blk # << >>
  /\ \A j \in DOMAIN blk : blk[j].op \in Terminators <=> j = Len(blk)

SeqRange(s) == {s[i] : i \in DOMAIN s}

Successors(f, b) ==
  UNION {SeqRange(f.body[b][j].bbs) :
           j \in {k \in DOMAIN f.body[b] : f.body[b][k].op \in Terminators}}

Predecessors(f, b) == {a \in Blocks(f) : b \in Successors(f, a)}

\* The blocks control reaches from the entry without entering block d.
ReachableAvoiding(f, d) ==
  LET Within[n \in 0..Len(f.body)] ==
        IF n = 0 THEN {1} \ {d}
        ELSE Within[n - 1]
               \cup ((UNION {Successors(f, b) : b \in Within[n - 1]}) \ {d})
  IN  Within[Len(f.body)]

\* Every path from the entry to b passes d.
Dominates(f, d, b) == b \notin ReachableAvoiding(f, d)

\* Instruction v is available just before position p.
AvailableAt(f, v, p) ==
  \E q \in Points(f) : /\ At(f, q).id = v.n
                       /\ IF q[1] = p[1] THEN q[2] < p[2]
                                         ELSE Dominates(f, q[1], p[1])

\* A use in a phi happens at the end of the incoming block.
UsesDominated(f) ==
  \A p \in Points(f) : \A k \in DOMAIN At(f, p).args :
     LET i == At(f, p)
         v == i.args[k]
     IN  v.kind = "inst" =>
           IF i.op = "phi"
           THEN AvailableAt(f, v, <<i.bbs[k], Len(f.body[i.bbs[k]]) + 1>>)
           ELSE AvailableAt(f, v, p)

\* Phis come first and have one incoming edge per predecessor.
PhisMatchEdges(f) ==
  \A p \in Points(f) : At(f, p).op = "phi" =>
     /\ \A j \in 1..p[2] : f.body[p[1]][j].op = "phi"
     /\ Len(At(f, p).args) = Len(At(f, p).bbs)
     /\ SeqRange(At(f, p).bbs) = Predecessors(f, p[1])
     /\ Len(At(f, p).bbs) = Cardinality(Predecessors(f, p[1]))

OperandsTyped(f) ==
  \A p \in Points(f) :
    LET i == At(f, p)
        Arg(k) == i.args[k].type
    IN  /\ i.op = "ret"    => Arg(1) = f.ret
        /\ i.op = "condbr" => Arg(1) = "i1"
        /\ i.op = "phi"    => \A k \in DOMAIN i.args : Arg(k) = i.type
        /\ i.op = "load"   => Arg(1) = PointerType(i.type)
        /\ i.op = "store"  => Arg(2) = PointerType(Arg(1))
        /\ i.op = "gep"    => Arg(2) = "i64"
        /\ i.op \in {"add", "slt"} => Arg(1) = "i64" /\ Arg(2) = "i64"
        /\ i.op = "fadd"   => Arg(1) = "double" /\ Arg(2) = "double"
        /\ i.op = "bitcast" => i.type # Arg(1)

VerifyFunction(f) ==
  /\ f.body # << >>
  /\ \A b \in Blocks(f) : IsClosed(f.body[b])
  /\ \A b \in Blocks(f) : 1 \notin Successors(f, b)   \* no edge to the entry
  /\ PhisMatchEdges(f)
  /\ UsesDominated(f)
  /\ OperandsTyped(f)
=============================================================================
