----------------------------- MODULE KernelExec -----------------------------
(***************************************************************************)
(* The code CodegenSumInt64 emits, executed instruction by instruction     *)
(* (jit/jit.go:13-48 and 89-127) by callers that enter it concurrently     *)
(* through RunFunctionAddressWithArgPtrs (llvm/lljit.go:110-120), in its   *)
(* branch for two arguments, the vector and the count; that for one and    *)
(* the panic for other numbers of arguments are left out.  Each            *)
(* call has a frame of its own: the position, the block control came from, *)
(* the registers and the accumulator's stack slot.                         *)
(*                                                                         *)
(* A runtime value is a word or an address: the cell of the trip count,    *)
(* the stack slot, or an offset into the vector.  A read outside the       *)
(* vector returns whatever is there, i.e. any word; so does a read of the  *)
(* stack slot before it is written.                                        *)
(***************************************************************************)
EXTENDS Codegen

CONSTANTS Callers,   \* the goroutines that call the kernel
          HalfRange, \* half the number of words: 2^63 for int64
          Vectors    \* the vectors passed to it

Words == -HalfRange .. HalfRange - 1

\* The trip count is passed as a word.
ASSUME ExecAssumption ==
  /\ HalfRange \in Nat \ {0}
  /\ Vectors \subseteq Seq(Words)
  /\ Vectors # {}
  /\ \A v \in Vectors : Len(v) \in Words

\* MUTANT: the sum grows beyond its width.
PlainAdd(x, y) == x + y

WrapAdd(x, y) == IF x + y >= HalfRange THEN x + y - 2 * HalfRange
                 ELSE IF x + y < -HalfRange THEN x + y + 2 * HalfRange
                 ELSE x + y

Word(n)    == [space |-> "word", off |-> n]
CountCell  == [space |-> "count", off |-> 0]
StackSlot  == [space |-> "slot", off |-> 0]
Element(n) == [space |-> "data", off |-> n]

Runtime == [space : {"word", "count", "slot", "data"}, off : Int]

VARIABLES code,    \* the function the session compiled, shared by the callers
          frame    \* [Callers -> the frame of the caller's call]

vars == <<code, frame>>

Registers == 1..(code.next - 1)

Status == {"idle", "running", "returned"}

Frame == [status : Status, vec : Vectors, block : Nat, prev : Nat, ip : Nat,
          reg : [Registers -> Runtime], slot : Words, result : Words]

NoRegs == [r \in Registers |-> Word(0)]

Init ==
  /\ code = CodegenSumInt64
  /\ \E v \in Vectors :
       frame = [c \in Callers |->
                  [status |-> "idle", vec |-> v, block |-> 1, prev |-> 0,
                   ip |-> 1, reg |-> NoRegs, slot |-> 0, result |-> 0]]

\* The call with two arguments (lljit.go:114-115): execution starts in the
\* entry block, on a fresh stack slot that holds garbage.
Call(c, v) ==
  /\ frame[c].status # "running"
  /\ \E garbage \in Words :
       frame' = [frame EXCEPT ![c] =
                   [status |-> "running", vec |-> v, block |-> 1, prev |-> 0,
                    ip |-> 1, reg |-> NoRegs, slot |-> garbage, result |-> 0]]
  /\ UNCHANGED code

-----------------------------------------------------------------------------
(* Instructions.                                                           *)

Instr(fr) == code.body[fr.block][fr.ip]

Executes(c, op) == frame[c].status = "running" /\ Instr(frame[c]).op = op

\* Operand k of the current instruction.
Operand(fr, k) ==
  LET v == Instr(fr).args[k]
  IN  CASE v.kind = "const" -> Word(v.n)
        [] v.kind = "param" -> IF v.n = 0 THEN CountCell ELSE Element(0)
        [] OTHER            -> fr.reg[v.n]

\* What memory may hold at address p.
Contents(fr, p) ==
  CASE p.space = "count" -> {Len(fr.vec)}
    [] p.space = "slot"  -> {fr.slot}
    [] OTHER             -> IF p.off + 1 \in DOMAIN fr.vec
                            THEN {fr.vec[p.off + 1]} ELSE Words

\* The current instruction yields value v; control goes on to the next.
Yield(c, v) ==
  /\ frame' = [frame EXCEPT ![c].reg[Instr(frame[c]).id] = v, ![c].ip = @ + 1]
  /\ UNCHANGED code

Jump(c, b) ==
  /\ frame' = [frame EXCEPT ![c].prev = frame[c].block, ![c].block = b, ![c].ip = 1]
  /\ UNCHANGED code

Alloca(c) == Executes(c, "alloca") /\ Yield(c, StackSlot)

Load(c) ==
  /\ Executes(c, "load")
  /\ \E w \in Contents(frame[c], Operand(frame[c], 1)) : Yield(c, Word(w))

\* The kernel stores to its own stack slot only.
Store(c) ==
  /\ Executes(c, "store")
  /\ Operand(frame[c], 2) = StackSlot
  /\ frame' = [frame EXCEPT ![c].slot = Operand(frame[c], 1).off, ![c].ip = @ + 1]
  /\ UNCHANGED code

Gep(c) ==
  /\ Executes(c, "gep")
  /\ Yield(c, Element(Operand(frame[c], 1).off + Operand(frame[c], 2).off))

Add(c) ==
  /\ Executes(c, "add")
  /\ Yield(c, Word(WrapAdd(Operand(frame[c], 1).off, Operand(frame[c], 2).off)))

\* icmp slt, the signed comparison.
Compare(c) ==
  /\ Executes(c, "slt")
  /\ Yield(c, Word(IF Operand(frame[c], 1).off < Operand(frame[c], 2).off
                   THEN 1 ELSE 0))

\* A phi takes the operand of the edge control came by.
Phi(c) ==
  /\ Executes(c, "phi")
  /\ \E k \in DOMAIN Instr(frame[c]).bbs :
       /\ Instr(frame[c]).bbs[k] = frame[c].prev
       /\ Yield(c, Operand(frame[c], k))

Br(c) == Executes(c, "br") /\ Jump(c, Instr(frame[c]).bbs[1])

CondBr(c) ==
  /\ Executes(c, "condbr")
  /\ Jump(c, Instr(frame[c]).bbs[IF Operand(frame[c], 1) = Word(1) THEN 1 ELSE 2])

\* The frame dies with its call.
Ret(c) ==
  /\ Executes(c, "ret")
  /\ frame' = [frame EXCEPT ![c] = [@ EXCEPT !.status = "returned",
                                             !.result = Operand(frame[c], 1).off,
                                             !.reg = NoRegs]]
  /\ UNCHANGED code

Step(c) == \/ Alloca(c) \/ Load(c) \/ Store(c) \/ Gep(c) \/ Add(c)
           \/ Compare(c) \/ Phi(c) \/ Br(c) \/ CondBr(c) \/ Ret(c)

Next == \E c \in Callers : (\E v \in Vectors : Call(c, v)) \/ Step(c)

Spec == Init /\ [][Next]_vars

\* A processor goes on executing a call; nobody is obliged to make one.
FairSpec == Spec /\ \A c \in Callers : WF_vars(Step(c))

-----------------------------------------------------------------------------
\* The type invariant.
TypeOK == code \in Function /\ frame \in [Callers -> Frame]

\* s[k] is the sum of the first k elements of v, s[n] the last of them.
IsPartialSums(s, v, n) ==
  s[0] = 0 /\ \A k \in 1..n : s[k] = WrapAdd(s[k - 1], v[k])

SumsTo(v, n, r) ==
  \E s \in [0..n -> Words] : IsPartialSums(s, v, n) /\ s[n] = r

\* A call returns the sum of its vector, in words that wrap around, whatever
\* the other callers do and whatever was on its stack (jit.go:34-45).
ResultIsSum ==
  \A c \in Callers : frame[c].status = "returned" =>
     SumsTo(frame[c].vec, Len(frame[c].vec), frame[c].result)

\* The kernel reads its vector only inside the bounds it was given: the
\* comparison at the end of the loop stops it in time (jit.go:116).
ReadsInBounds ==
  \A c \in Callers : Executes(c, "load") =>
     LET p == Operand(frame[c], 1)
     IN  p.space = "data" => p.off + 1 \in DOMAIN frame[c].vec

\* Every call returns: the loop ends for every count a vector can have, the
\* largest word included (jit.go:111-117).
CallsReturn ==
  \A c \in Callers : frame[c].status = "running" ~> frame[c].status = "returned"

\* The iterations whose store has happened, while the frame is live.
Summed(fr) ==
  CASE fr.block = 1 -> 0
    [] fr.block = 2 /\ fr.ip = 1 -> IF fr.prev = 1 THEN 0 ELSE fr.reg[11].off
    [] fr.block = 2 /\ fr.ip > 1 -> fr.reg[5].off + (IF fr.ip > 6 THEN 1 ELSE 0)
    [] OTHER -> Len(fr.vec)

\* The loop of sum.c, whose variables the kernel keeps in registers and in
\* its stack slot.
Reference == INSTANCE SumReference WITH
  phase <- [c \in Callers |-> frame[c].status],
  arg   <- [c \in Callers |-> frame[c].vec],
  i     <- [c \in Callers |-> IF frame[c].status = "idle" THEN 0
                              ELSE Summed(frame[c])],
  res   <- [c \in Callers |-> IF frame[c].status = "returned" THEN frame[c].result
                              ELSE IF Summed(frame[c]) = 0 THEN 0
                              ELSE frame[c].slot]

\* The kernel, which tests at the end of its loop and keeps its index in a
\* phi, implements the loop that tests first (jit.go:113-117, sum.c:6-8).
ImplementsReference == Reference!Spec
=============================================================================
