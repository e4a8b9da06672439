------------------------------- MODULE Codegen -------------------------------
(***************************************************************************)
(* The code generator of the jit (jit/jit.go): the two kernels it emits    *)
(* and the loop they share.  buildLoop calls back into its caller for the  *)
(* body, so it is split at the callback: OpenLoop is what runs before      *)
(* blockFn, CloseLoop what runs after.  The function names ("sum_int64",   *)
(* "sum_float64") matter to the session that looks them up, not here.      *)
(***************************************************************************)
EXTENDS IRBuilder

(* A few definitions come with a mutant of the same shape, the mistake a     *)
(* property is there to catch.  Nothing refers to a mutant.                 *)

\* MUTANT: the insertion point stays behind in the preheader.
OpenLoopUnmoved(f) ==
  LET preheader == GetInsertBlock(f)
      f1   == AddBasicBlock(f)
      f2   == AddBasicBlock(f1)
      f3   == CreatePHI(CreateBr(f2, LastBlock(f1)), "i64")
  IN  [fn    |-> AddIncoming(f3, Result(f3), <<ConstInt("i64", 0)>>, <<preheader>>),
       phi   |-> Result(f3), loop |-> LastBlock(f1), after |-> LastBlock(f2)]

\* MUTANT: the exit block is named but never made.
OpenLoopNoExit(f) ==
  LET preheader == GetInsertBlock(f)
      f1   == AddBasicBlock(f)
      loop == LastBlock(f1)
      f2   == CreatePHI(SetInsertPointAtEnd(CreateBr(f1, loop), loop), "i64")
  IN  [fn    |-> AddIncoming(f2, Result(f2), <<ConstInt("i64", 0)>>, <<preheader>>),
       phi   |-> Result(f2), loop |-> loop, after |-> loop + 1]


\* Up to and including the phi: the preheader jumps to the new loop block.
OpenLoop(f) ==
  LET preheader == GetInsertBlock(f)
      f1   == AddBasicBlock(f)
      loop == LastBlock(f1)
      f2   == AddBasicBlock(f1)
      f3   == CreatePHI(SetInsertPointAtEnd(CreateBr(f2, loop), loop), "i64")
      phi  == Result(f3)
  IN  [fn    |-> AddIncoming(f3, phi, <<ConstInt("i64", 0)>>, <<preheader>>),
       phi   |-> phi, loop |-> loop, after |-> LastBlock(f2)]

\* MUTANT: the back edge is said to leave the loop block.
CloseLoopFromHeader(f, l, end) ==
  LET f1 == CreateBinary(f, "add", l.phi, ConstInt("i64", 1))
      f2 == AddIncoming(f1, l.phi, <<Result(f1)>>, <<l.loop>>)
      f3 == CreateICmp(f2, "slt", Result(f1), end)
  IN  SetInsertPointAtEnd(CreateCondBr(f3, Result(f3), l.loop, l.after), l.after)

\* MUTANT: the insertion point stays in the block that was just closed.
CloseLoopUnmoved(f, l, end) ==
  LET f1 == CreateBinary(f, "add", l.phi, ConstInt("i64", 1))
      f2 == AddIncoming(f1, l.phi, <<Result(f1)>>, <<GetInsertBlock(f1)>>)
      f3 == CreateICmp(f2, "slt", Result(f1), end)
  IN  CreateCondBr(f3, Result(f3), l.loop, l.after)

\* MUTANT: the index is compared before the step.
CloseLoopTestsPhi(f, l, end) ==
  LET f1 == CreateBinary(f, "add", l.phi, ConstInt("i64", 1))
      f2 == AddIncoming(f1, l.phi, <<Result(f1)>>, <<GetInsertBlock(f1)>>)
      f3 == CreateICmp(f2, "slt", l.phi, end)
  IN  SetInsertPointAtEnd(CreateCondBr(f3, Result(f3), l.loop, l.after), l.after)

\* MUTANT: the exits are swapped.
CloseLoopSwapped(f, l, end) ==
  LET f1 == CreateBinary(f, "add", l.phi, ConstInt("i64", 1))
      f2 == AddIncoming(f1, l.phi, <<Result(f1)>>, <<GetInsertBlock(f1)>>)
      f3 == CreateICmp(f2, "slt", Result(f1), end)
  IN  SetInsertPointAtEnd(CreateCondBr(f3, Result(f3), l.after, l.loop), l.after)

\* MUTANT: the loop makes no progress.
CloseLoopNoStep(f, l, end) ==
  LET f1 == CreateBinary(f, "add", l.phi, ConstInt("i64", 0))
      f2 == AddIncoming(f1, l.phi, <<Result(f1)>>, <<GetInsertBlock(f1)>>)
      f3 == CreateICmp(f2, "slt", Result(f1), end)
  IN  SetInsertPointAtEnd(CreateCondBr(f3, Result(f3), l.loop, l.after), l.after)

\* The step, the back edge and the exit.  The back edge leaves the block the
\* body ended in, which need not be the loop block.
CloseLoop(f, l, end) ==
  LET f1     == CreateBinary(f, "add", l.phi, ConstInt("i64", 1))
      nextIt == Result(f1)
      f2     == AddIncoming(f1, l.phi, <<nextIt>>, <<GetInsertBlock(f1)>>)
      f3     == CreateICmp(f2, "slt", nextIt, end)
  IN  SetInsertPointAtEnd(CreateCondBr(f3, Result(f3), l.loop, l.after), l.after)

buildLoop(f, end, blockFn(_, _)) ==
  LET l == OpenLoop(f) IN CloseLoop(blockFn(l.fn, l.phi), l, end)

buildArrLoad(f, arr, idx) ==
  LET f1 == CreateInBoundsGEP(f, arr, idx) IN CreateLoad(f1, Result(f1))

-----------------------------------------------------------------------------
\* The entry block up to the trip count, read through parameter 0.
KernelEntry(elem) ==
  LET f == AddBasicBlock(AddFunction(<<"i64*", PointerType(elem), "i8*">>, "i64"))
      g == SetInsertPointAtEnd(f, LastBlock(f))
  IN  CreateLoad(g, Param(g, 0))

\* The body callback of CodegenSumInt64.
AccumulateInt64(f, it, accum) ==
  LET f1 == buildArrLoad(f, Param(f, 1), it)
      f2 == CreateLoad(f1, accum)
      f3 == CreateBinary(f2, "add", Result(f2), Result(f1))
  IN  CreateStore(f3, Result(f3), accum)

\* MUTANT: the accumulator is not initialised.
CodegenSumInt64NoInit ==
  LET f1    == KernelEntry("i64")
      f2    == CreateAlloca(f1, "i64")
      accum == Result(f2)
      f3    == buildLoop(f2, Result(f1),
                         LAMBDA f, it : AccumulateInt64(f, it, accum))
      f4    == CreateLoad(f3, accum)
  IN  CreateRet(f4, Result(f4))

CodegenSumInt64 ==
  LET f1    == KernelEntry("i64")
      f2    == CreateAlloca(f1, "i64")
      accum == Result(f2)
      f3    == CreateStore(f2, ConstInt("i64", 0), accum)
      f4    == buildLoop(f3, Result(f1),
                         LAMBDA f, it : AccumulateInt64(f, it, accum))
      f5    == CreateLoad(f4, accum)
  IN  CreateRet(f5, Result(f5))

\* The body callback of CodegenSumFloat64: the addition is marked fast.
AccumulateFloat64(f, it, accum) ==
  LET f1 == buildArrLoad(f, Param(f, 1), it)
      f2 == CreateLoad(f1, accum)
      f3 == CreateBinary(f2, "fadd", Result(f2), Result(f1))
  IN  CreateStore(MarkFastMathFlags(f3, Result(f3)), Result(f3), accum)

CodegenSumFloat64 ==
  LET f1    == KernelEntry("double")
      f2    == CreateAlloca(f1, "double")
      accum == Result(f2)
      f3    == CreateStore(f2, ConstInt("double", 0), accum)
      f4    == buildLoop(f3, Result(f1),
                         LAMBDA f, it : AccumulateFloat64(f, it, accum))
      f5    == CreateLoad(f4, accum)
      f6    == CreateCast(f5, "bitcast", Result(f5), "i64")
  IN  CreateRet(f6, Result(f6))
=============================================================================
