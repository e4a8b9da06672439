----------------------------- MODULE FloatKernel -----------------------------
(***************************************************************************)
(* The floating-point kernel, CodegenSumFloat64 (jit/jit.go:50-87), as     *)
(* LLVM may compile it.  MarkFastMathFlags (llvm/IRBindings.cpp:106-110)   *)
(* lets the addition be reassociated: the vectoriser keeps several partial *)
(* sums and adds them up in an order of its own.  The benchmark compares   *)
(* the result with a sequential sum, by != (jit/jit_test.go:179).          *)
(*                                                                         *)
(* A number is an integer, a multiple of some unit, with Precision bits    *)
(* that count; an addition rounds to the nearest, ties to even.  There is  *)
(* no overflow, no infinity and no NaN: "fast" makes those undefined.      *)
(***************************************************************************)
EXTENDS Codegen

CONSTANTS Callers,   \* the goroutines that call the kernel
          Precision, \* 53 for float64
          Vectors    \* the vectors they sum

Magnitude(x) == IF x < 0 THEN -x ELSE x

\* The powers of two.
Two[n \in Nat] == IF n = 0 THEN 1 ELSE 2 * Two[n - 1]

\* How many low bits of x >= 0 do not count.
Exponent(x) == CHOOSE k \in 0..x : /\ x < Two[Precision + k]
                                   /\ k = 0 \/ x >= Two[Precision + k - 1]

\* The number nearest to x >= 0 that has Precision bits.
RoundUpwards(x) ==
  LET unit == Two[Exponent(x)]
      q    == x \div unit
      rest == 2 * (x % unit)
  IN  (IF rest > unit \/ (rest = unit /\ q % 2 = 1) THEN q + 1 ELSE q) * unit

Round(x) == IF x < 0 THEN -RoundUpwards(-x) ELSE RoundUpwards(x)

\* The vectors hold numbers, and are not empty: the kernel would read behind
\* an empty one.
ASSUME FloatAssumption ==
  /\ Precision \in Nat \ {0}
  /\ Vectors # {}
  /\ \A v \in Vectors : v \in Seq(Int) /\ v # << >> /\ \A k \in DOMAIN v : Round(v[k]) = v[k]

FAdd(x, y) == Round(x + y)

VARIABLES phase, \* [Callers -> "idle", "running" or "returned"]
          arg,   \* the vector of the call
          i,     \* the loop's phi
          sums,  \* the partial sums there are, under the first index they hold
          result

vars == <<phase, arg, i, sums, result>>

\* Whether the additions of the kernel may be reassociated.
Reassociable ==
  \A b \in DOMAIN CodegenSumFloat64.body : \A k \in DOMAIN CodegenSumFloat64.body[b] :
    CodegenSumFloat64.body[b][k].op = "fadd" => CodegenSumFloat64.body[b][k].fast

Init == /\ phase = [c \in Callers |-> "idle"]
        /\ arg \in [Callers -> Vectors]
        /\ i = [c \in Callers |-> 0]
        /\ sums = [c \in Callers |-> << >>]
        /\ result = [c \in Callers |-> 0]

\* MUTANT: the loop is entered one index early.
CallBeforeFirst(c, v) ==
  /\ phase[c] # "running"
  /\ phase' = [phase EXCEPT ![c] = "running"]
  /\ arg' = [arg EXCEPT ![c] = v]
  /\ i' = [i EXCEPT ![c] = -1]
  /\ sums' = [sums EXCEPT ![c] = [k \in {0} |-> 0]]
  /\ result' = [result EXCEPT ![c] = 0]

\* The entry block stores 0 into the accumulator, the partial sum 0.
Call(c, v) ==
  /\ phase[c] # "running"
  /\ phase' = [phase EXCEPT ![c] = "running"]
  /\ arg' = [arg EXCEPT ![c] = v]
  /\ i' = [i EXCEPT ![c] = 0]
  /\ sums' = [sums EXCEPT ![c] = [k \in {0} |-> 0]]
  /\ result' = [result EXCEPT ![c] = 0]

\* The loop block is entered again while the next index is smaller than the
\* count, and the first time in any case.
Looping(c) == phase[c] = "running" /\ (i[c] = 0 \/ i[c] < Len(arg[c]))

\* Partial sums p with x as a partial sum of its own, under k.
Put(p, k, x) == [n \in DOMAIN p \cup {k} |-> IF n = k THEN x ELSE p[n]]

\* MUTANT: each partial sum of a reassociated loop starts afresh from the
\* accumulator's first value, which is added again.
IterateRestarts(c) ==
  LET x == arg[c][i[c] + 1]
  IN  /\ Looping(c)
      /\ i' = [i EXCEPT ![c] = @ + 1]
      /\ sums' = [sums EXCEPT ![c] = Put(@, i[c] + 1, FAdd(x, arg[c][1]))]
      /\ UNCHANGED <<phase, arg, result>>

\* One iteration: the element is added to the accumulator, or, when that may
\* be put off, becomes a partial sum.
Iterate(c) ==
  LET x == arg[c][i[c] + 1]
  IN  /\ Looping(c)
      /\ i' = [i EXCEPT ![c] = @ + 1]
      /\ sums' = [sums EXCEPT ![c] = IF Reassociable THEN Put(@, i[c] + 1, x)
                                     ELSE Put(@, 0, FAdd(@[0], x))]
      /\ UNCHANGED <<phase, arg, result>>

\* Partial sums p after those under s and t were added.
Merge(p, s, t) ==
  [n \in DOMAIN p \ {t} |-> IF n = s THEN FAdd(p[s], p[t]) ELSE p[n]]

\* MUTANT: equal partial sums are added once.
ReassociateEqual(c) ==
  /\ phase[c] = "running" /\ Reassociable
  /\ \E s, t \in DOMAIN sums[c] :
       /\ s < t
       /\ sums' = [sums EXCEPT ![c] =
                    [n \in {s} \cup {k \in DOMAIN @ : @[k] # @[t]} |->
                       IF n = s THEN FAdd(@[s], @[t]) ELSE @[n]]]
  /\ UNCHANGED <<phase, arg, i, result>>

\* Two partial sums are added, at any time.
Reassociate(c) ==
  /\ phase[c] = "running" /\ Reassociable
  /\ \E s, t \in DOMAIN sums[c] :
       s < t /\ sums' = [sums EXCEPT ![c] = Merge(@, s, t)]
  /\ UNCHANGED <<phase, arg, i, result>>

\* The bits of the accumulator are returned as an integer and turned back by
\* castUint64AsFloat64.
Return(c) ==
  /\ phase[c] = "running" /\ ~Looping(c)
  /\ \E k \in DOMAIN sums[c] :
       DOMAIN sums[c] = {k} /\ result' = [result EXCEPT ![c] = sums[c][k]]
  /\ phase' = [phase EXCEPT ![c] = "returned"]
  /\ UNCHANGED <<arg, i, sums>>

Step(c) == Iterate(c) \/ Reassociate(c) \/ Return(c)

Next == \E c \in Callers : (\E v \in Vectors : Call(c, v)) \/ Step(c)

Spec == Init /\ [][Next]_vars

-----------------------------------------------------------------------------
\* The type invariant.
TypeOK == /\ phase \in [Callers -> {"idle", "running", "returned"}]
          /\ arg \in [Callers -> Vectors]
          /\ i \in [Callers -> Nat]
          /\ DOMAIN sums = Callers
          /\ \A c \in Callers : /\ DOMAIN sums[c] \subseteq 0..i[c]
                                /\ sums[c] \in [DOMAIN sums[c] -> Int]
          /\ result \in [Callers -> Int]

\* What Add makes of the elements of v, one after the other.
Accumulate(v, Add(_, _)) ==
  LET acc[n \in 0..Len(v)] == IF n = 0 THEN 0 ELSE Add(acc[n - 1], v[n])
  IN  acc[Len(v)]

SumOf(v) == Accumulate(v, LAMBDA s, x : s + x)

Absolute(v) == Accumulate(v, LAMBDA s, x : s + Magnitude(x))

\* The loop of the benchmark and of sum_float64 in sum.c.
Sequential(v) == Accumulate(v, FAdd)

\* No partial sum of v, in any order, needs more bits than there are.
Exact(v) == Absolute(v) <= Two[Precision]

\* When every partial sum is exact the comparison of the benchmark holds
\* whatever order LLVM chose: its vector 0, 1, .. 102399 sums to less than
\* 2^33 (jit_test.go:107-110 and 179).
ExactSumsAgree ==
  \A c \in Callers : phase[c] = "returned" /\ Exact(arg[c]) =>
                       result[c] = Sequential(arg[c])

\* Otherwise the result is as near to the sum of the reals as any order of
\* n - 1 additions: within (n - 1) u / (1 - (n - 1) u) of the sum of the
\* absolute values, where u = 2^-Precision (jit.go:78).
ErrorBounded ==
  \A c \in Callers : phase[c] = "returned" =>
    LET steps == Len(arg[c]) - 1
    IN  Magnitude(result[c] - SumOf(arg[c])) * (Two[Precision] - steps)
          <= steps * Absolute(arg[c])
=============================================================================
