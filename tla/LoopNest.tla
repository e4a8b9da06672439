------------------------------ MODULE LoopNest ------------------------------
(***************************************************************************)
(* buildLoop (jit/jit.go) as its callers drive it.  Its body is a callback *)
(* that is free to emit code, to call buildLoop again (a nested loop, or   *)
(* several in a row) and so to leave the insertion point in a block other  *)
(* than the one it was called in.  Each activation of buildLoop that waits *)
(* for its callback is an element of nest, innermost last.                 *)
(*                                                                         *)
(* Bounds: at most MaxLoops calls of buildLoop, MaxStmts statements and    *)
(* MaxDepth activations at a time.                                         *)
(***************************************************************************)
EXTENDS Codegen, IRVerifier

CONSTANTS MaxLoops, MaxStmts, MaxDepth

ASSUME BoundsAssumption ==
  MaxLoops \in Nat /\ MaxStmts \in Nat /\ MaxDepth \in Nat

VARIABLES fn,      \* the function under construction
          count,   \* the trip count, loaded in the entry block
          accum,   \* the accumulator's stack slot
          nest,    \* the activations of buildLoop, innermost last
          loops,   \* calls of buildLoop so far
          stmts,   \* statements emitted so far
          done     \* the function has its return

vars == <<fn, count, accum, nest, loops, stmts, done>>

Top == nest[Len(nest)]

\* The entry of CodegenSumInt64, up to its call of buildLoop.
Init ==
  LET f1 == KernelEntry("i64")
      f2 == CreateAlloca(f1, "i64")
  IN  /\ count = Result(f1)
      /\ accum = Result(f2)
      /\ fn = CreateStore(f2, ConstInt("i64", 0), Result(f2))
      /\ nest = << >>
      /\ loops = 0 /\ stmts = 0
      /\ done = FALSE

\* buildLoop up to its call of blockFn.  The trip count of a loop is any
\* value at hand: the count, or the enclosing loop's iteration variable.
EnterLoop(end) ==
  /\ ~done /\ loops < MaxLoops /\ Len(nest) < MaxDepth
  /\ LET l == OpenLoop(fn)
     IN  /\ fn' = l.fn
         /\ nest' = Append(nest, [phi |-> l.phi, loop |-> l.loop,
                                  after |-> l.after, end |-> end])
  /\ loops' = loops + 1
  /\ UNCHANGED <<count, accum, stmts, done>>

\* Straight-line code in a body.
Statement ==
  /\ nest # << >> /\ stmts < MaxStmts
  /\ fn' = AccumulateInt64(fn, Top.phi, accum)
  /\ stmts' = stmts + 1
  /\ UNCHANGED <<count, accum, nest, loops, done>>

\* The innermost blockFn returns and its buildLoop runs to its end.
ExitLoop ==
  /\ nest # << >>
  /\ fn' = CloseLoop(fn, Top, Top.end)
  /\ nest' = SubSeq(nest, 1, Len(nest) - 1)
  /\ UNCHANGED <<count, accum, loops, stmts, done>>

\* No activation is left: load the result and return it.
Finish ==
  /\ ~done /\ nest = << >>
  /\ LET f1 == CreateLoad(fn, accum) IN fn' = CreateRet(f1, Result(f1))
  /\ done' = TRUE
  /\ UNCHANGED <<count, accum, nest, loops, stmts>>

Next == \/ EnterLoop(count)
        \/ nest # << >> /\ EnterLoop(Top.phi)
        \/ Statement
        \/ ExitLoop
        \/ Finish

Spec == Init /\ [][Next]_vars

-----------------------------------------------------------------------------
\* The type invariant: a well-formed record whose branches, phis, insertion
\* point and pending activations name blocks that exist.
TypeOK ==
  /\ fn \in Function
  /\ fn.at \in Blocks(fn)
  /\ \A p \in Points(fn) : SeqRange(At(fn, p).bbs) \subseteq Blocks(fn)
  /\ count \in Value /\ accum \in Value
  /\ nest \in Seq([phi : Value, loop : Nat, after : Nat, end : Value])
  /\ \A k \in DOMAIN nest : {nest[k].loop, nest[k].after} \subseteq Blocks(fn)
  /\ loops \in 0..MaxLoops /\ stmts \in 0..MaxStmts /\ done \in BOOLEAN

\* While code is being emitted the insertion point is in an open block, the
\* exit blocks of the activations that still wait for their callback are
\* empty and distinct, and every other block is closed: whatever a callback
\* did to the insertion point (jit.go:109-112), no block is left without a
\* terminator and none is continued after one.
OnlyPendingBlocksOpen ==
  /\ \A k \in DOMAIN nest : /\ fn.body[nest[k].after] = << >>
                            /\ nest[k].after # fn.at
                            /\ \A m \in DOMAIN nest :
                                 nest[m].after = nest[k].after => m = k
  /\ IF done THEN IsClosed(fn.body[fn.at]) ELSE IsOpen(fn.body[fn.at])
  /\ \A b \in Blocks(fn) \ {fn.at} :
       (\A k \in DOMAIN nest : nest[k].after # b) => IsClosed(fn.body[b])

\* A finished function passes the verifier whatever loops the callbacks
\* nested or put in a row: in particular the back edge of each phi comes
\* from the block its body ended in (jit.go:112-114).
FinishedVerifies == done => VerifyFunction(fn)

\* While a callback runs, whatever block it has moved the insertion point to
\* is dominated by the loop block of every activation that waits for it: the
\* step buildLoop emits next may use its phi there (jit.go:111).
BodyDominated ==
  ~done => \A k \in DOMAIN nest : Dominates(fn, nest[k].loop, fn.at)
=============================================================================
