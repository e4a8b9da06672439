------------------------------ MODULE DebugInfo ------------------------------
(***************************************************************************)
(* The debug-info builder (llvm/dibuilder.go) and the metadata nodes it    *)
(* makes.  LLVM keeps one node for equal contents: a Create method may     *)
(* return a node made before.  Recursive types are built over a temporary  *)
(* node that ReplaceAllUsesWith (dibuilder.go:619) exchanges for the type  *)
(* at last.  That changes the contents of the nodes built over it; one     *)
(* that becomes equal to another is deleted, and Go handles to it dangle.  *)
(*                                                                         *)
(* The contents of a node are its key (what kind of node it is, and its    *)
(* name if it has one) and its operands.  A node is resolved when nothing  *)
(* it refers to can be exchanged any more.                                 *)
(*                                                                         *)
(* A replacement is one call of the program's, of several steps: replacing *)
(* is its call stack.                                                      *)
(***************************************************************************)
EXTENDS Naturals, Sequences, FiniteSets

CONSTANTS Nodes,     \* the nodes, numbers used in ascending order
          Names,     \* the names of structs and typedefs
          Allowed(_), \* bound: the keys the nodes may have together
          MaxBare    \* bound: the nodes made without a compile unit

Unnamed == {"basic", "pointer", "array", "subroutine", "member", "variable"}

Temporary == {"replaceable", "tuple"}

Keys == Unnamed \cup Temporary \cup {"none", "function"} \cup Names

ASSUME NodesAssumption == Nodes \subseteq Nat

ASSUME NamesAssumption ==
  Names \cap (Unnamed \cup Temporary \cup {"none", "function"}) = {}

\* A node that leaves is equal to another and gives way to it.
Node == [state : {"free", "temporary", "uniqued", "distinct", "leaving", "deleted"},
         key : Keys, struct : BOOLEAN, ops : Seq(Nodes), resolved : BOOLEAN]

Free == [state |-> "free", key |-> "none", struct |-> FALSE, ops |-> << >>,
         resolved |-> TRUE]

VARIABLES
  node,      \* [Nodes -> Node]
  tracked,   \* the nodes the builder remembers as unresolved
  phase,     \* of the builder: "bare" (without a compile unit), "open", "final"
             \* or "destroyed"
  held,      \* the nodes the program may use
  over,      \* [Nodes -> the temporaries the program knows a node is built over
             \*           without a name between, itself if it is one]
  replacing  \* the replacements that are under way, innermost last

vars == <<node, tracked, phase, held, over, replacing>>

Live(f) == {n \in Nodes : f[n].state \in {"temporary", "uniqued", "distinct"}}

Operands(f, n) == {f[n].ops[k] : k \in DOMAIN f[n].ops}

Init == /\ node = [n \in Nodes |-> Free]
        /\ tracked = {} /\ phase = "bare"
        /\ held = {} /\ over = [n \in Nodes |-> {}]
        /\ replacing = << >>

-----------------------------------------------------------------------------
(* LLVM's metadata graph.                                                  *)

\* Nodes that wait for each other, or for one that is no uniqued node.
Waiting(f, S) ==
  \A n \in S : ~f[n].resolved /\ (f[n].state = "uniqued" => Operands(f, n) \cap S # {})

\* Nodes whose operands are all resolved are resolved, and so on upwards.
Settled(f) ==
  LET waiting == UNION {S \in SUBSET {n \in Nodes : ~f[n].resolved} : Waiting(f, S)}
  IN  [n \in Nodes |-> [f[n] EXCEPT !.resolved = n \notin waiting]]

Twins(f, n) == {m \in Nodes \ {n} : /\ f[m].state = "uniqued" /\ f[m].key = f[n].key
                                    /\ f[m].ops = f[n].ops}

Innermost == replacing[Len(replacing)]

\* MUTANT: the older node goes.
CollideNewer(f, n, twin) ==
  /\ node' = [f EXCEPT ![twin].state = "leaving", ![twin].ops = << >>]
  /\ replacing' = Append(replacing, [old |-> twin, new |-> n])

\* MUTANT: the users of the node that goes are not told.
CollideSilently(f, n, twin) ==
  /\ node' = [f EXCEPT ![n].state = "deleted", ![n].ops = << >>, ![n].resolved = TRUE]
  /\ UNCHANGED replacing

\* n gives way to its twin, which replaces it.
Collide(f, n, twin) ==
  /\ node' = [f EXCEPT ![n].state = "leaving", ![n].ops = << >>]
  /\ replacing' = Append(replacing, [old |-> n, new |-> twin])

\* MUTANT: a changed node is not looked up again.
ChangeInPlace(n, k, new) ==
  /\ node' = Settled([node EXCEPT ![n].ops[k] = new])
  /\ UNCHANGED replacing

\* Operand k of n becomes new.  A node that refers to itself is no longer
\* uniqued; an unresolved one that is equal to another gives way to it.
ChangeOperand(n, k, new) ==
  LET f == [node EXCEPT ![n].ops[k] = new]
  IN  \/ node[n].state # "uniqued" /\ node' = f /\ UNCHANGED replacing
      \/ /\ node[n].state = "uniqued" /\ n = new
         /\ node' = Settled([f EXCEPT ![n].state = "distinct", ![n].resolved = TRUE])
         /\ UNCHANGED replacing
      \/ /\ node[n].state = "uniqued" /\ n # new /\ Twins(f, n) = {}
         /\ node' = Settled(f) /\ UNCHANGED replacing
      \/ /\ node[n].state = "uniqued" /\ n # new
         /\ \E twin \in Twins(f, n) : Collide(f, n, twin)

\* The innermost replacement goes on to another use of the old node: any, as a
\* use gets a new place in the order whenever it is tracked anew.
ReplaceUse ==
  /\ replacing # << >>
  /\ \E n \in Nodes : \E k \in DOMAIN node[n].ops :
       /\ node[n].ops[k] = Innermost.old
       /\ ChangeOperand(n, k, Innermost.new)
  /\ UNCHANGED <<tracked, phase, held, over>>

\* No use is left: the builder remembers the new node, and the old one is
\* deleted.
EndReplace ==
  /\ replacing # << >>
  /\ \A n \in Nodes : Innermost.old \notin Operands(node, n)
  /\ node' = [node EXCEPT ![Innermost.old].state = "deleted",
                          ![Innermost.old].ops = << >>,
                          ![Innermost.old].resolved = TRUE]
  /\ tracked' = IF Innermost.old \in tracked
                THEN (tracked \ {Innermost.old}) \cup {Innermost.new} ELSE tracked
  /\ replacing' = SubSeq(replacing, 1, Len(replacing) - 1)
  /\ UNCHANGED <<phase, held, over>>

\* S and the unresolved nodes it refers to, and so on downwards.
Unresolved(f, S) ==
  LET pending == {n \in Nodes : ~f[n].resolved}
      Closed(T) == S \subseteq T /\ \A n \in T : Operands(f, n) \cap pending \subseteq T
  IN  {n \in pending : \A T \in SUBSET pending : Closed(T) => n \in T}

-----------------------------------------------------------------------------
(* The Create methods.                                                     *)

\* The program can see only what it passed: a node with a name or of its own
\* stays what it is, any other is made of its operands.
Hand(n, key, ops) ==
  /\ held' = held \cup {n}
  /\ over' = [over EXCEPT ![n] = CASE key \in Temporary -> {n}
                                   [] key \in Unnamed -> UNION {over[ops[k]] : k \in DOMAIN ops}
                                   [] OTHER -> {}]
  /\ UNCHANGED <<phase, replacing>>

\* The next node that has not been made.
IsNext(n) == /\ node[n].state = "free"
             /\ \A m \in Nodes : m < n => node[m].state # "free"

Early(n) == phase = "bare" => Cardinality({m \in Nodes : m <= n}) <= MaxBare

Make(state, key, struct, ops, track) ==
  LET new == [state |-> state, key |-> key, struct |-> struct, ops |-> ops,
              resolved |-> \/ state = "distinct"
                           \/ /\ state = "uniqued"
                              /\ \A k \in DOMAIN ops : node[ops[k]].resolved]
  IN  \E n \in Nodes :
        /\ IsNext(n) /\ Early(n)
        /\ node' = [node EXCEPT ![n] = new]
        /\ Allowed([m \in Nodes |-> node'[m].key])
        /\ tracked' = IF track /\ ~new.resolved THEN tracked \cup {n} ELSE tracked
        /\ Hand(n, key, ops)

\* A node with these contents: the one there is, or a new one.
Get(key, ops, track) ==
  LET same == {m \in Nodes : node[m].state = "uniqued" /\ node[m].key = key
                             /\ node[m].ops = ops}
  IN  \/ same = {} /\ Make("uniqued", key, FALSE, ops, track)
      \/ \E m \in same :
           /\ tracked' = IF track /\ ~node[m].resolved THEN tracked \cup {m} ELSE tracked
           /\ Hand(m, key, ops)
           /\ UNCHANGED node

IsFresh(name) == \A n \in Nodes : node[n].key # name

Holds(keys) == {n \in held : node[n].key \in keys}

Types == Holds(Keys \ {"member", "variable", "function", "tuple"})

\* A placeholder of the context is no type, but a list of elements takes it.
Elements == Holds({"member", "tuple"})

MemberScopes == {n \in held : node[n].struct \/ node[n].key = "replaceable"}

\* MUTANT: the null handle for a type made before.
CreateBasicTypeOnce ==
  IF \E n \in Nodes : node[n].key = "basic"
  THEN Hand(0, "basic", << >>) /\ UNCHANGED <<node, tracked>>
  ELSE Get("basic", << >>, FALSE)

CreateBasicType == Get("basic", << >>, FALSE)

CreatePointerType(t) == Get("pointer", <<t>>, FALSE)

CreateSubroutineType(t) == Get("subroutine", <<t>>, FALSE)

CreateArrayType(t) == Get("array", <<t>>, TRUE)

CreateMemberType(scope, t) == Get("member", <<scope, t>>, FALSE)

CreateVariable(scope, t) == Get("variable", <<scope, t>>, FALSE)

CreateTypedef(name, t) ==
  IsFresh(name) /\ Make("uniqued", name, FALSE, <<t>>, FALSE)

CreateStructType(name, elements) ==
  IsFresh(name) /\ Make("uniqued", name, TRUE, elements, TRUE)

CreateFunctionNode(t) == Make("distinct", "function", FALSE, <<t>>, TRUE)

\* MUTANT: not remembered.
CreateReplaceableUntracked == Make("temporary", "replaceable", FALSE, << >>, FALSE)

\* Remembered by the builder, like everything that is unresolved when made.
CreateReplaceableCompositeType == Make("temporary", "replaceable", FALSE, << >>, TRUE)

\* A method of the context, of which the builder knows nothing.
TemporaryMDNode(mds) == Make("temporary", "tuple", FALSE, mds, FALSE)

-----------------------------------------------------------------------------
\* What t stands for is known: the program no longer uses it, nor what it
\* built over it, save nodes with a name.
ReplaceAllUsesWith(t, new) ==
  /\ replacing' = << [old |-> t, new |-> new] >>
  /\ held' = {n \in held : t \notin over[n]}
  /\ over' = [n \in Nodes |-> IF t \in over[n] THEN {} ELSE over[n]]
  /\ UNCHANGED <<node, tracked, phase>>

\* A temporary of the builder becomes a type with a name, or one not built
\* over it; one of the context becomes a struct, which the builder tracks.
Replaces(t, new) ==
  /\ node[t].state = "temporary" /\ node[new].state # "temporary"
  /\ \/ node[new].struct
     \/ node[t].key = "replaceable" /\ t \notin over[new]

\* CreateCompileUnit.
CreateUnit == /\ phase = "bare" /\ phase' = "open"
              /\ UNCHANGED <<node, tracked, held, over, replacing>>

\* Without a compile unit there is nothing to finalize: the call returns at
\* once.
FinalizeNothing == phase = "bare" /\ UNCHANGED vars

\* Legal once every temporary is replaced.  What is left unresolved are
\* cycles, which the builder finds from the nodes it remembers.
Finalize ==
  /\ phase = "open" /\ \A n \in Nodes : node[n].state # "temporary"
  /\ LET S == Unresolved(node, {n \in tracked : ~node[n].resolved})
     IN  node' = Settled([n \in Nodes |-> [node[n] EXCEPT !.resolved = @ \/ n \in S]])
  /\ tracked' = {} /\ phase' = "final"
  /\ UNCHANGED <<held, over, replacing>>

Destroy == /\ phase = "final" /\ phase' = "destroyed"
           /\ UNCHANGED <<node, tracked, held, over, replacing>>

\* What a builder is asked for, also before it has a compile unit.
Create ==
  /\ phase \in {"bare", "open"}
  /\ \/ CreateBasicType \/ CreateReplaceableCompositeType \/ TemporaryMDNode(<< >>)
     \/ \E n \in held : TemporaryMDNode(<<n>>)
     \/ \E t \in Types : \/ CreatePointerType(t) \/ CreateSubroutineType(t)
                         \/ CreateArrayType(t) \/ CreateFunctionNode(t)
                         \/ \E scope \in MemberScopes : CreateMemberType(scope, t)
                         \/ \E scope \in Holds({"function"}) : CreateVariable(scope, t)
                         \/ \E name \in Names : CreateTypedef(name, t)
     \/ \E m \in Elements, name \in Names : CreateStructType(name, <<m>>)

\* The calls of the program, one at a time.
Call == /\ replacing = << >>
        /\ \/ Create
           \/ \E t, new \in held : Replaces(t, new) /\ ReplaceAllUsesWith(t, new)
           \/ CreateUnit \/ FinalizeNothing \/ Finalize \/ Destroy

Next == Call \/ ReplaceUse \/ EndReplace

Spec == Init /\ [][Next]_vars

-----------------------------------------------------------------------------
\* The type invariant.
TypeOK == /\ node \in [Nodes -> Node]
          /\ tracked \subseteq Nodes /\ held \subseteq Nodes
          /\ phase \in {"bare", "open", "final", "destroyed"}
          /\ over \in [Nodes -> SUBSET Nodes]
          /\ replacing \in Seq([old : Nodes, new : Nodes])

\* A program that drops what it built over a temporary when it replaces it
\* never holds a deleted node (dibuilder.go:619).
HandlesAlive == held \subseteq Live(node)

\* No node refers to a deleted one, however far a replacement spreads, nor to
\* one that leaves unless its users are still being told; the builder does not
\* remember one either.
NoDanglingOperand ==
  LET known == Live(node) \cup {replacing[i].old : i \in DOMAIN replacing}
  IN  /\ \A n \in Live(node) : Operands(node, n) \subseteq known
      /\ tracked \subseteq known

\* There is one node for equal contents, replacements notwithstanding.
OneNodePerContents ==
  \A n \in Nodes : node[n].state = "uniqued" => Twins(node, n) = {}

\* After Finalize of a builder with a compile unit nothing is left unresolved:
\* every cycle through a type that was replaced is found from what the builder
\* remembers, whether made before the compile unit or after (dibuilder.go:107).
FinalizedResolved ==
  phase \in {"final", "destroyed"} => \A n \in Live(node) : node[n].resolved
=============================================================================
