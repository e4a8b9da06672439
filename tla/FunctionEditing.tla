--------------------------- MODULE FunctionEditing ---------------------------
(***************************************************************************)
(* A function that is edited as it is built: the lists of blocks and       *)
(* instructions, the operands between them, and the builders that stand    *)
(* somewhere in them (llvm/ir.go).  The bindings pass pointers on and      *)
(* check nothing; LLVM's lists are intrusive, and a builder's insertion    *)
(* point is a pointer to the instruction it inserts before.                *)
(*                                                                         *)
(* The operations are those of LLVM.  What a program has to look at before *)
(* it calls one is in the rules MayLink, MayUnlink, MayErase, ...: each is *)
(* local, in terms of calls the bindings have (FirstUse, NextUse, Parent,  *)
(* LastInstruction, PrevInstruction) or of where the program put its       *)
(* builders.  The invariants are global: they say the rules suffice.       *)
(*                                                                         *)
(* A value is used in its own block, after its definition, and in every    *)
(* block when the entry defines it, as the jit does (jit.go:16-32).        *)
(***************************************************************************)
EXTENDS Naturals, FiniteSets, Sequences, SequencesExt

CONSTANTS Blocks,    \* llvm.BasicBlock
          entry,     \* the first one of them
          Insts,     \* instructions, 1..n, used in this order
          Builders,  \* llvm.Builder
          Nowhere,   \* the parent of an instruction in no block
          End,       \* the insertion point at the end of a block
          MaxFloating, \* bound: instructions in no block at a time
          MaxSize      \* bound: the blocks there are and the instructions made

ASSUME EditingAssumption ==
  /\ entry \in Blocks /\ Nowhere \notin Blocks /\ End \notin Insts
  /\ Insts \subseteq Nat /\ {MaxFloating, MaxSize} \subseteq Nat

VARIABLES blocks,  \* the blocks of the function, in order
          body,    \* [Blocks -> the list of its instructions]
          inst,    \* [Insts -> Instruction]
          parent,  \* [Insts -> the block it thinks it is in]
          point    \* [Builders -> where it inserts]

vars == <<blocks, body, inst, parent, point>>

\* LLVM does not keep the blocks of a phi in the list of the block's uses.
Instruction == [kind : {"free", "value", "phi", "terminator", "erased"},
                args : Seq(Insts), targets : SUBSET Blocks,
                incoming : SUBSET (Insts \X Blocks)]

Blank(kind) == [kind |-> kind, args |-> << >>, targets |-> {}, incoming |-> {}]

Init == /\ blocks = <<entry>>
        /\ body = [b \in Blocks |-> << >>]
        /\ inst = [i \in Insts |-> Blank("free")]
        /\ parent = [i \in Insts |-> Nowhere]
        /\ point = [x \in Builders |-> [block |-> Nowhere, before |-> End]]

-----------------------------------------------------------------------------
(* What a program can look at.                                             *)

Linked == ToSet(blocks)
Placed == {i \in Insts : parent[i] # Nowhere}
Floating == {i \in Insts : parent[i] = Nowhere /\ inst[i].kind \notin {"free", "erased"}}

Operands(i) == ToSet(inst[i].args) \cup {p[1] : p \in inst[i].incoming}
Users(i) == {u \in Insts : i \in Operands(u)}
BlockUsers(b) == {u \in Insts : b \in inst[u].targets}
PhisOver(b) == {u \in Insts : \E p \in inst[u].incoming : p[2] = b}

Position(i) == CHOOSE k \in DOMAIN body[parent[i]] : body[parent[i]][k] = i

HasSpace == Len(blocks) + Cardinality({i \in Insts : inst[i].kind # "free"}) < MaxSize

\* A builder the program put before i.
WatchedBy(i) == {x \in Builders : point[x].before = i}

\* i is defined before the point p of some block.
DefinedAt(i, p) ==
  IF parent[i] = p.block
  THEN p.before # End => Position(i) < Position(p.before)
  ELSE parent[i] = entry

At(i) == [block |-> parent[i], before |-> i]

\* Every use of i stays behind i when i is put at p.
DefinesUsesFrom(i, p) ==
  \A u \in Users(i) \cap (Placed \cup {i}) :
    IF inst[u].kind = "phi"
    THEN \A q \in inst[u].incoming : q[1] = i => p.block \in {q[2], entry}
    ELSE IF parent[u] = p.block
    THEN p.before # End /\ Position(p.before) <= Position(u)
    ELSE p.block = entry

\* The kinds of the neighbours of a point: LastInstruction, PrevInstruction.
Previous(p) ==
  LET list == IF p.before = End THEN body[p.block] ELSE body[parent[p.before]]
      n    == IF p.before = End THEN Len(list) ELSE Position(p.before) - 1
  IN  IF n = 0 THEN "none" ELSE inst[list[n]].kind

Following(p) == IF p.before = End THEN "none" ELSE inst[p.before].kind

\* MUTANT: whether the block has ended is not asked again.
HasRoomUnasked(p, kind) ==
  CASE kind = "value" -> Following(p) # "phi"
    [] kind = "phi"   -> p.block # entry /\ Previous(p) \in {"none", "phi"}
    [] OTHER          -> Following(p) = "none"

\* Phis come first, but not in the entry, and a terminator comes last.
HasRoom(p, kind) ==
  CASE kind = "value" -> Previous(p) # "terminator" /\ Following(p) # "phi"
    [] kind = "phi"   -> p.block # entry /\ Previous(p) \in {"none", "phi"}
    [] OTHER          -> Previous(p) # "terminator" /\ Following(p) = "none"

-----------------------------------------------------------------------------
(* Blocks.                                                                 *)

\* An erased block may come back as a new one.
Unborn(b) == b \notin Linked /\ HasSpace

IndexOf(b) == CHOOSE k \in DOMAIN blocks : blocks[k] = b

AddBasicBlock(b) ==
  /\ Unborn(b)
  /\ blocks' = Append(blocks, b)
  /\ UNCHANGED <<body, inst, parent, point>>

\* Nothing may come before the entry.
InsertBasicBlock(ref, b) ==
  /\ ref \in Linked \ {entry} /\ Unborn(b)
  /\ blocks' = InsertAt(blocks, IndexOf(ref), b)
  /\ UNCHANGED <<body, inst, parent, point>>

\* The list without b, and b where pos is in it.
MoveBefore(b, pos) ==
  /\ {b, pos} \subseteq Linked \ {entry} /\ b # pos
  /\ LET rest == RemoveAt(blocks, IndexOf(b))
     IN  blocks' = InsertAt(rest, CHOOSE k \in DOMAIN rest : rest[k] = pos, b)
  /\ UNCHANGED <<body, inst, parent, point>>

\* MUTANT: the entry is moved like any other block.
MoveAfterAny(b, pos) ==
  /\ {b, pos} \subseteq Linked /\ b # pos
  /\ LET rest == RemoveAt(blocks, IndexOf(b))
     IN  blocks' = InsertAt(rest, 1 + CHOOSE k \in DOMAIN rest : rest[k] = pos, b)
  /\ UNCHANGED <<body, inst, parent, point>>

MoveAfter(b, pos) ==
  /\ b \in Linked \ {entry} /\ pos \in Linked /\ b # pos
  /\ LET rest == RemoveAt(blocks, IndexOf(b))
     IN  blocks' = InsertAt(rest, 1 + CHOOSE k \in DOMAIN rest : rest[k] = pos, b)
  /\ UNCHANGED <<body, inst, parent, point>>

\* MUTANT: only the block's list of uses is looked at.
MayEraseBlockUnused(b) ==
  /\ b # entry
  /\ \A x \in Builders : point[x].block # b
  /\ LET own == ToSet(body[b])
     IN  BlockUsers(b) \subseteq own /\ \A i \in own : Users(i) \subseteq own

\* No builder in it, no branch to it, no phi that lists it (which its uses do
\* not show), and what it defines is used in it only.
MayEraseBlock(b) ==
  /\ b # entry
  /\ \A x \in Builders : point[x].block # b
  /\ LET own == ToSet(body[b])
     IN  /\ BlockUsers(b) \subseteq own /\ PhisOver(b) \subseteq own
         /\ \A i \in own : Users(i) \subseteq own

EraseBlock(b) ==
  /\ b \in Linked /\ MayEraseBlock(b)
  /\ blocks' = RemoveAt(blocks, IndexOf(b))
  /\ body' = [body EXCEPT ![b] = << >>]
  /\ inst' = [i \in Insts |-> IF i \in ToSet(body[b]) THEN Blank("erased") ELSE inst[i]]
  /\ parent' = [i \in Insts |-> IF i \in ToSet(body[b]) THEN Nowhere ELSE parent[i]]
  /\ UNCHANGED point

-----------------------------------------------------------------------------
(* Builders.                                                               *)

SetInsertPointAtEnd(x, b) ==
  /\ b \in Linked
  /\ point' = [point EXCEPT ![x] = [block |-> b, before |-> End]]
  /\ UNCHANGED <<blocks, body, inst, parent>>

\* The builder asks the instruction for its block now, and never again.
SetInsertPointBefore(x, i) ==
  /\ i \in Placed
  /\ point' = [point EXCEPT ![x] = At(i)]
  /\ UNCHANGED <<blocks, body, inst, parent>>

\* MUTANT: the instruction is in another block.
SetInsertPointApart(x, b, before) ==
  /\ b \in Linked /\ before \in Placed \cup {End}
  /\ point' = [point EXCEPT ![x] = [block |-> b, before |-> before]]
  /\ UNCHANGED <<blocks, body, inst, parent>>

\* With the instruction nil, the end of the block.
SetInsertPoint(x, b, before) ==
  \/ before = End /\ SetInsertPointAtEnd(x, b)
  \/ before \in Insts /\ parent[before] = b /\ SetInsertPointBefore(x, before)

ClearInsertionPoint(x) ==
  /\ point' = [point EXCEPT ![x] = [block |-> Nowhere, before |-> End]]
  /\ UNCHANGED <<blocks, body, inst, parent>>

\* Native insertion: i is put where the instruction after the point is now,
\* and told it is in the block of the point.
Link(p, i) ==
  /\ parent' = [parent EXCEPT ![i] = p.block]
  /\ body' = CASE p.block = Nowhere -> body
               [] p.block # Nowhere /\ p.before = End ->
                    [body EXCEPT ![p.block] = Append(@, i)]
               [] OTHER ->
                    [b \in Blocks |->
                       IF Contains(body[b], p.before)
                       THEN InsertAt(body[b], CHOOSE k \in DOMAIN body[b] :
                                                body[b][k] = p.before, i)
                       ELSE body[b]]
  /\ UNCHANGED <<blocks, point>>

MayLink(p, new) ==
  p.block # Nowhere =>
    /\ HasRoom(p, new.kind)
    /\ \A j \in ToSet(new.args) : DefinedAt(j, p)
    /\ \A q \in new.incoming : parent[q[1]] \in {q[2], entry, Nowhere}

\* An instruction made by a builder that is nowhere is in no block.
Create(x, new) ==
  /\ HasSpace /\ MayLink(point[x], new)
  /\ point[x].block = Nowhere => Cardinality(Floating) < MaxFloating
  /\ \E i \in Insts :
       /\ inst[i].kind = "free" /\ \A j \in Insts : inst[j].kind = "free" => i <= j
       /\ inst' = [inst EXCEPT ![i] = new]
       /\ Link(point[x], i)

CreateValue(x, args) == Create(x, [Blank("value") EXCEPT !.args = args])

CreatePHI(x) == Create(x, Blank("phi"))

CreateTerminator(x, targets) == Create(x, [Blank("terminator") EXCEPT !.targets = targets])

-----------------------------------------------------------------------------
(* Instructions.                                                           *)

\* AddCase, AddDest.
AddTarget(i, b) ==
  /\ inst[i].kind = "terminator" /\ inst[i].targets # {}
  /\ inst' = [inst EXCEPT ![i].targets = @ \cup {b}]
  /\ UNCHANGED <<blocks, body, parent, point>>

\* MUTANT: a list of blocks that is too short is read behind its end.
AddIncomingShort(i, v, b) ==
  /\ inst[i].kind = "phi"
  /\ inst' = [inst EXCEPT ![i].incoming = @ \cup {<<v, Nowhere>>}]
  /\ UNCHANGED <<blocks, body, parent, point>>

\* One value and one block: the lists have the same length.
AddIncoming(i, v, b) ==
  /\ inst[i].kind = "phi" /\ i \in Placed
  /\ b \in Linked /\ parent[v] \in {b, entry}
  /\ \A p \in inst[i].incoming : p[2] # b
  /\ inst' = [inst EXCEPT ![i].incoming = @ \cup {<<v, b>>}]
  /\ UNCHANGED <<blocks, body, parent, point>>

SetOperand(i, k, v) ==
  /\ i \in Placed /\ DefinedAt(v, At(i))
  /\ inst' = [inst EXCEPT ![i].args[k] = v]
  /\ UNCHANGED <<blocks, body, parent, point>>

\* MUTANT: the new value may come after the old one.
MayReplaceInBlock(v, new) == {v, new} \subseteq Placed /\ v # new /\ parent[new] = parent[v]

\* The new value comes first, in the same block.
MayReplace(v, new) ==
  {v, new} \subseteq Placed /\ parent[new] = parent[v] /\ Position(new) < Position(v)

ReplaceAllUsesWith(v, new) ==
  /\ MayReplace(v, new)
  /\ inst' = [i \in Insts |->
       [inst[i] EXCEPT !.args = ReplaceAll(@, v, new),
                       !.incoming = {<<IF p[1] = v THEN new ELSE p[1], p[2]>> : p \in @}]]
  /\ UNCHANGED <<blocks, body, parent, point>>

Unlink(i) == /\ body' = [body EXCEPT ![parent[i]] = RemoveAt(@, Position(i))]
             /\ parent' = [parent EXCEPT ![i] = Nowhere]
             /\ UNCHANGED <<blocks, point>>

\* MUTANT: a builder may stand before it.
MayUnlinkWatched(i) == i \in Placed

\* Only the program knows where it put its builders: they cannot be asked.
MayUnlink(i) == i \in Placed /\ WatchedBy(i) = {}

RemoveFromParentAsInstruction(i) ==
  /\ MayUnlink(i) /\ Cardinality(Floating) < MaxFloating
  /\ Unlink(i)
  /\ UNCHANGED inst

\* MUTANT: erased while it is used.
EraseUsed(i) == /\ MayUnlink(i)
                /\ Unlink(i)
                /\ inst' = [inst EXCEPT ![i] = Blank("erased")]

EraseFromParentAsInstruction(i) ==
  /\ MayUnlink(i) /\ Users(i) = {}
  /\ Unlink(i)
  /\ inst' = [inst EXCEPT ![i] = Blank("erased")]

\* A removed instruction, or one made nowhere, is put at a builder's point.
Insert(x, i) ==
  /\ i \in Floating /\ point[x].block # Nowhere
  /\ MayLink(point[x], inst[i]) /\ DefinesUsesFrom(i, point[x])
  /\ Link(point[x], i)
  /\ UNCHANGED inst

-----------------------------------------------------------------------------
BlockStep ==
  \/ \E b \in Blocks : AddBasicBlock(b) \/ EraseBlock(b)
  \/ \E b, pos \in Blocks : InsertBasicBlock(pos, b) \/ MoveBefore(b, pos) \/ MoveAfter(b, pos)

BuilderStep ==
  \E x \in Builders :
    \/ \E b \in Blocks, before \in Insts \cup {End} : SetInsertPoint(x, b, before)
    \/ ClearInsertionPoint(x)
    \/ CreateValue(x, << >>) \/ CreatePHI(x)
    \/ \E v \in Placed : CreateValue(x, <<v>>)
    \/ \E targets \in SUBSET (Linked \ {entry}) : CreateTerminator(x, targets)
    \/ \E i \in Insts : Insert(x, i)

InstructionStep ==
  \/ \E i \in Insts, b \in Linked \ {entry} : AddTarget(i, b)
  \/ \E i, v \in Insts, b \in Blocks : AddIncoming(i, v, b)
  \/ \E i, v \in Insts : \E k \in DOMAIN inst[i].args : SetOperand(i, k, v)
  \/ \E v, new \in Insts : ReplaceAllUsesWith(v, new)
  \/ \E i \in Insts : RemoveFromParentAsInstruction(i) \/ EraseFromParentAsInstruction(i)

Next == BlockStep \/ BuilderStep \/ InstructionStep

Spec == Init /\ [][Next]_vars

-----------------------------------------------------------------------------
\* The type invariant.
TypeOK ==
  /\ blocks \in Seq(Blocks)
  /\ body \in [Blocks -> Seq(Insts)]
  /\ inst \in [Insts -> Instruction]
  /\ parent \in [Insts -> Blocks \cup {Nowhere}]
  /\ point \in [Builders -> [block : Blocks \cup {Nowhere}, before : Insts \cup {End}]]

\* An instruction is once in the list of the block it thinks it is in, and in
\* no other: removing, erasing and inserting agree (ir.go:1266-1267, 1356). So
\* do the builders: where one stands is still in the block that it will tell
\* instructions they are in, whatever has been moved meanwhile (ir.go:1349).
OnePlace ==
  /\ \A i \in Insts, b \in Blocks :
       {k \in DOMAIN body[b] : body[b][k] = i} # {} <=> parent[i] = b
  /\ \A b \in Blocks : \A j, k \in DOMAIN body[b] : body[b][j] = body[b][k] => j = k
  /\ \A b \in Blocks \ Linked : body[b] = << >>
  /\ \A x \in Builders :
       LET p == point[x]
       IN  p.block # Nowhere =>
             p.block \in Linked /\ (p.before = End \/ parent[p.before] = p.block)

\* No operand, target of a branch or block of a phi has been erased (ir.go:1261,
\* 1266).
NoDanglingUse ==
  \A i \in Insts :
    /\ \A j \in Operands(i) : inst[j].kind \notin {"free", "erased"}
    /\ \A b \in inst[i].targets \cup {p[2] : p \in inst[i].incoming} : b \in Linked

\* The entry is first, no branch leads to it and it has no phi; phis begin the
\* other blocks, and a block's only terminator ends it, with several builders at
\* work (ir.go:1262-1263, 1353).
BlocksHaveShape ==
  /\ blocks[1] = entry
  /\ \A i \in Insts : /\ entry \notin inst[i].targets
                      /\ inst[i].kind = "phi" => parent[i] # entry
  /\ \A b \in Linked : \A k \in 2 .. Len(body[b]) :
       /\ inst[body[b][k]].kind = "phi" => inst[body[b][k - 1]].kind = "phi"
       /\ inst[body[b][k - 1]].kind # "terminator"

\* What an instruction uses is defined before it, after replacements and moves
\* too (ir.go:716, 803, 1356).
DefinedBeforeUse ==
  \A i \in Placed :
    IF inst[i].kind = "phi"
    THEN \A p \in inst[i].incoming : parent[p[1]] \in {p[2], entry, Nowhere}
    ELSE \A j \in Operands(i) \cap Placed : DefinedAt(j, At(i))
=============================================================================
