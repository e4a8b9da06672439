---------------------------- MODULE SumReference ----------------------------
(***************************************************************************)
(* What a sum kernel promises its callers: the loop of sum_int64 in        *)
(* emitable/sum.c, which is also the loop the benchmark compares the       *)
(* kernel with (jit/jit_test.go).  Callers run it independently.  The sum  *)
(* wraps around at the width of a word: -fwrapv in C, always in Go.        *)
(***************************************************************************)
EXTENDS Integers, Sequences

CONSTANTS Callers,   \* the goroutines that call the kernel
          HalfRange, \* half the number of words: 2^63 for int64
          Vectors    \* the vectors they sum, whose length is a word

Words == -HalfRange .. HalfRange - 1

\* Addition of words, two's complement.
WrapAdd(x, y) == IF x + y >= HalfRange THEN x + y - 2 * HalfRange
                 ELSE IF x + y < -HalfRange THEN x + y + 2 * HalfRange
                 ELSE x + y

VARIABLES phase,  \* [Callers -> {"idle", "running", "returned"}]
          arg,    \* the vector of the call
          i, res  \* the local variables of the loop; res is the result at last

vars == <<phase, arg, i, res>>

Init == /\ phase = [c \in Callers |-> "idle"]
        /\ arg \in [Callers -> Vectors]
        /\ i = [c \in Callers |-> 0]
        /\ res = [c \in Callers |-> 0]

Call(c, v) ==
  /\ phase[c] # "running"
  /\ phase' = [phase EXCEPT ![c] = "running"]
  /\ arg' = [arg EXCEPT ![c] = v]
  /\ i' = [i EXCEPT ![c] = 0]
  /\ res' = [res EXCEPT ![c] = 0]

Iterate(c) ==
  /\ phase[c] = "running" /\ i[c] < Len(arg[c])
  /\ res' = [res EXCEPT ![c] = WrapAdd(@, arg[c][i[c] + 1])]
  /\ i' = [i EXCEPT ![c] = @ + 1]
  /\ UNCHANGED <<phase, arg>>

Return(c) ==
  /\ phase[c] = "running" /\ i[c] >= Len(arg[c])
  /\ phase' = [phase EXCEPT ![c] = "returned"]
  /\ UNCHANGED <<arg, i, res>>

Next == \E c \in Callers : \/ \E v \in Vectors : Call(c, v)
                           \/ Iterate(c)
                           \/ Return(c)

Spec == Init /\ [][Next]_vars
=============================================================================
