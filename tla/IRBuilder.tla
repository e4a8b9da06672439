------------------------------ MODULE IRBuilder ------------------------------
(***************************************************************************)
(* The instruction-building part of the Go bindings (llvm/ir.go), as      *)
(* operators over one function under construction.                         *)
(*                                                                         *)
(* A function is a record                                                  *)
(*   params  the parameter types,        ret  the return type,             *)
(*   body    a sequence of basic blocks, each a sequence of instructions,  *)
(*   at      the block the builder's insertion point is at the end of,     *)
(*   next    the identifier of the next instruction.                       *)
(* An llvm.BasicBlock is its position in body, an llvm.Value a record      *)
(* [kind, n, type]: parameter n, the constant n or the instruction n.      *)
(* The bindings check nothing: they pass pointers on.  A malformed         *)
(* function is only noticed by the verifier (module IRVerifier).           *)
(***************************************************************************)
EXTENDS Integers, Sequences

Types == {"void", "i1", "i64", "double", "i8*", "i64*", "double*"}

\* The opcodes the jit emits; "slt" is the comparison icmp slt.
Terminators == {"ret", "br", "condbr"}
Opcodes == Terminators \cup {"add", "fadd", "slt", "bitcast", "alloca", "load",
                            "store", "gep", "phi"}

Value == [kind : {"param", "const", "inst"}, n : Int, type : Types]

Instruction == [id : Nat, op : Opcodes, type : Types, fast : BOOLEAN,
                args : Seq(Value), bbs : Seq(Nat)]

Function == [params : Seq(Types), ret : Types, body : Seq(Seq(Instruction)),
             at : Nat, next : Nat]

\* The type a pointer type points to (LLVM 14 has typed pointers).
ElementType(ty) == CASE ty = "i64*"    -> "i64"
                     [] ty = "double*" -> "double"
                     [] OTHER          -> "void"

PointerType(ty) == CASE ty = "i64"    -> "i64*"
                     [] ty = "double" -> "double*"
                     [] OTHER         -> "i8*"

ConstInt(ty, n) == [kind |-> "const", n |-> n, type |-> ty]

Param(f, k) == [kind |-> "param", n |-> k, type |-> f.params[k + 1]]

-----------------------------------------------------------------------------
(* Functions and blocks.                                                   *)

\* A declaration: no block, hence no place to insert.
AddFunction(params, ret) ==
  [params |-> params, ret |-> ret, body |-> << >>, at |-> 0, next |-> 1]

\* Appends an empty block; the insertion point does not move.
AddBasicBlock(f) == [f EXCEPT !.body = Append(@, << >>)]

\* The block AddBasicBlock returned last.
LastBlock(f) == Len(f.body)

SetInsertPointAtEnd(f, b) == [f EXCEPT !.at = b]

GetInsertBlock(f) == f.at

-----------------------------------------------------------------------------
(* Instructions.  Every Create method appends to the insertion block.      *)

Insert(f, op, ty, args, bbs) ==
  [params |-> f.params, ret |-> f.ret, at |-> f.at, next |-> f.next + 1,
   body |-> [f.body EXCEPT ![f.at] =
               Append(@, [id |-> f.next, op |-> op, type |-> ty, fast |-> FALSE,
                          args |-> args, bbs |-> bbs])]]

\* The value of the instruction inserted last.
Result(f) ==
  LET blk == f.body[f.at]
  IN  [kind |-> "inst", n |-> blk[Len(blk)].id, type |-> blk[Len(blk)].type]

CreateRet(f, v) == Insert(f, "ret", "void", <<v>>, << >>)

CreateBr(f, b) == Insert(f, "br", "void", << >>, <<b>>)

CreateCondBr(f, ifv, thenb, elseb) ==
  Insert(f, "condbr", "void", <<ifv>>, <<thenb, elseb>>)

\* CreateAdd and CreateFAdd, which differ only in their opcode: "add", "fadd".
\* The other binary operations are not used by the jit.
CreateBinary(f, op, lhs, rhs) == Insert(f, op, lhs.type, <<lhs, rhs>>, << >>)

CreateAlloca(f, ty) == Insert(f, "alloca", PointerType(ty), << >>, << >>)

CreateLoad(f, p) == Insert(f, "load", ElementType(p.type), <<p>>, << >>)

CreateStore(f, v, p) == Insert(f, "store", "void", <<v, p>>, << >>)

CreateInBoundsGEP(f, p, idx) == Insert(f, "gep", p.type, <<p, idx>>, << >>)

\* CreateBitCast, the one cast the jit uses: "bitcast".
CreateCast(f, op, v, ty) == Insert(f, op, ty, <<v>>, << >>)

CreateICmp(f, pred, lhs, rhs) == Insert(f, pred, "i1", <<lhs, rhs>>, << >>)

\* A phi is created without incoming edges; they are added later.
CreatePHI(f, ty) == Insert(f, "phi", ty, << >>, << >>)

\* Changes instruction n in place, wherever the insertion point is.
Rewrite(f, n, Change(_)) ==
  [f EXCEPT !.body =
     [b \in DOMAIN f.body |->
        [j \in DOMAIN f.body[b] |->
           IF f.body[b][j].id = n THEN Change(f.body[b][j]) ELSE f.body[b][j]]]]

WithIncoming(i, vals, blocks) ==
  [id |-> i.id, op |-> i.op, type |-> i.type, fast |-> i.fast,
   args |-> i.args \o vals, bbs |-> i.bbs \o blocks]

AddIncoming(f, phi, vals, blocks) ==
  Rewrite(f, phi.n, LAMBDA i : WithIncoming(i, vals, blocks))

\* The instruction may be reassociated.
MarkFastMathFlags(f, v) == Rewrite(f, v.n, LAMBDA i : [i EXCEPT !.fast = TRUE])
=============================================================================
