------------------------- MODULE KernelExec_proofs -------------------------
(***************************************************************************)
(* Proofs about KernelExec, for every word size, set of callers and set of *)
(* vectors: its type invariant, and, when no vector is empty, that a call  *)
(* returns the sum of its vector, that it reads inside the vector only,    *)
(* and that the kernel implements the loop of emitable/sum.c.              *)
(*                                                                         *)
(* The first half is about the code: Listing is what CodegenSumInt64       *)
(* emits, written out, and KernelListed the proof that the builder calls   *)
(* of jit/jit.go:13-48 and 89-127 produce it.                              *)
(*                                                                         *)
(* The second half is about its executions.  StepExecutes turns a step of  *)
(* KernelExec into one of the seventeen cases of Executed, a relation      *)
(* between the frame before and the frame after; all that follows is about *)
(* Executed, frame by frame.                                               *)
(***************************************************************************)
EXTENDS KernelExec, SequenceTheorems, TLAPS

-----------------------------------------------------------------------------
(* The code.                                                               *)

Ins(id, op, ty, args, bbs) ==
  [id |-> id, op |-> op, type |-> ty, fast |-> FALSE, args |-> args, bbs |-> bbs]

Inst(n, ty) == [kind |-> "inst", n |-> n, type |-> ty]
Arg(n, ty)  == [kind |-> "param", n |-> n, type |-> ty]

I1  == Ins(1, "load", "i64", <<Arg(0, "i64*")>>, << >>)
I2  == Ins(2, "alloca", "i64*", << >>, << >>)
I3  == Ins(3, "store", "void", <<ConstInt("i64", 0), Inst(2, "i64*")>>, << >>)
I4  == Ins(4, "br", "void", << >>, <<2>>)
I5  == Ins(5, "phi", "i64", <<ConstInt("i64", 0), Inst(11, "i64")>>, <<1, 2>>)
I6  == Ins(6, "gep", "i64*", <<Arg(1, "i64*"), Inst(5, "i64")>>, << >>)
I7  == Ins(7, "load", "i64", <<Inst(6, "i64*")>>, << >>)
I8  == Ins(8, "load", "i64", <<Inst(2, "i64*")>>, << >>)
I9  == Ins(9, "add", "i64", <<Inst(8, "i64"), Inst(7, "i64")>>, << >>)
I10 == Ins(10, "store", "void", <<Inst(9, "i64"), Inst(2, "i64*")>>, << >>)
I11 == Ins(11, "add", "i64", <<Inst(5, "i64"), ConstInt("i64", 1)>>, << >>)
I12 == Ins(12, "slt", "i1", <<Inst(11, "i64"), Inst(1, "i64")>>, << >>)
I13 == Ins(13, "condbr", "void", <<Inst(12, "i1")>>, <<2, 3>>)
I14 == Ins(14, "load", "i64", <<Inst(2, "i64*")>>, << >>)
I15 == Ins(15, "ret", "void", <<Inst(14, "i64")>>, << >>)

\* The phi as it is created, and before its back edge is known.
PhiNew  == Ins(5, "phi", "i64", << >>, << >>)
PhiOpen == Ins(5, "phi", "i64", <<ConstInt("i64", 0)>>, <<1>>)

Entry     == <<I1, I2, I3, I4>>
Loop(phi) == <<phi, I6, I7, I8, I9, I10, I11, I12, I13>>
Exit      == <<I14, I15>>

\* The function under construction.
Fn(body, at, next) ==
  [params |-> <<"i64*", "i64*", "i8*">>, ret |-> "i64", body |-> body,
   at |-> at, next |-> next]

Three(a, b, c) == <<a, b, c>>

Listing == Fn(Three(Entry, Loop(I5), Exit), 3, 16)

First(t, n) == SubSeq(t, 1, n)

\* Some instructions of the entry are emitted; then some of each block.
Begun(n) == Fn(<<First(Entry, n)>>, 1, n + 1)

Emitted(n, phi, m, k, at) ==
  Fn(Three(First(Entry, n), First(Loop(phi), m), First(Exit, k)), at, n + m + k + 1)

-----------------------------------------------------------------------------
(* Beginnings of blocks.                                                   *)

\* One element more: what the builder's append does to a block of the listing.
LEMMA FirstNext ==
  ASSUME NEW T, NEW t \in Seq(T), NEW n \in 0 .. Len(t) - 1
  PROVE  Append(First(t, n), t[n + 1]) = First(t, n + 1)
<1>1. First(t, n) \in Seq(T) /\ t[n + 1] \in T
  BY SubSeqProperties DEF First
<1>2. n + 1 \in 1 .. Len(t) /\ n + 1 \in 1 .. n + 1 /\ n + 1 \in 1 .. Len(t) /\ (n + 1) - 1 = n
  OBVIOUS
<1>3. SubSeq(t, 1, n + 1) = SubSeq(t, 1, n) \o <<t[n + 1]>>
  BY <1>2, SubSeqRecursiveSecond
<1> QED
  BY <1>1, <1>3, AppendIsConcat DEF First

\* Nothing of a block is emitted at first.
LEMMA FirstNone == ASSUME NEW t PROVE First(t, 0) = << >>
  BY SubSeqEmpty DEF First

\* The first n elements of a sequence.
LEMMA FirstElements ==
  ASSUME NEW T, NEW t \in Seq(T), NEW n \in 0 .. Len(t)
  PROVE  /\ First(t, n) \in Seq(T) /\ Len(First(t, n)) = n
         /\ \A j \in 1 .. n : First(t, n)[j] = t[j]
  BY SubSeqProperties DEF First

\* A block is complete when as many instructions are emitted as it has.
LEMMA FirstAll ==
  ASSUME NEW T, NEW t \in Seq(T)
  PROVE  First(t, Len(t)) = t
  BY SubSeqFull DEF First

\* The entry block as a sequence, and its beginnings.
LEMMA EntryElements ==
  /\ Len(Entry) = 4
  /\ Entry[1] = I1 /\ Entry[2] = I2 /\ Entry[3] = I3 /\ Entry[4] = I4
  /\ \A n \in 0 .. 3 : Append(First(Entry, n), Entry[n + 1]) = First(Entry, n + 1)
  /\ \A n \in 0 .. 4 : /\ Len(First(Entry, n)) = n
                       /\ \A j \in 1 .. n : First(Entry, n)[j] = Entry[j]
<1> DEFINE T == {I1, I2, I3, I4}
<1>1. /\ Entry \in Seq(T) /\ Len(Entry) = 4
      /\ Entry[1] = I1 /\ Entry[2] = I2 /\ Entry[3] = I3 /\ Entry[4] = I4
  BY DEF Entry
<1> HIDE DEF T
<1>2. ASSUME NEW n \in 0 .. 3
      PROVE  Append(First(Entry, n), Entry[n + 1]) = First(Entry, n + 1)
  <2>1. n \in 0 .. Len(Entry) - 1
    BY <1>1
  <2> QED
    BY <1>1, <2>1, FirstNext
<1>3. ASSUME NEW n \in 0 .. 4
      PROVE  /\ Len(First(Entry, n)) = n
             /\ \A j \in 1 .. n : First(Entry, n)[j] = Entry[j]
  <2>1. n \in 0 .. Len(Entry)
    BY <1>1
  <2> QED
    BY <1>1, <2>1, FirstElements
<1> QED
  BY <1>1, <1>2, <1>3

\* The same for the loop block, whatever its phi is so far.
LEMMA LoopElements ==
  ASSUME NEW phi
  PROVE  /\ Len(Loop(phi)) = 9
         /\ Loop(phi)[1] = phi /\ Loop(phi)[2] = I6 /\ Loop(phi)[3] = I7
         /\ Loop(phi)[4] = I8 /\ Loop(phi)[5] = I9 /\ Loop(phi)[6] = I10
         /\ Loop(phi)[7] = I11 /\ Loop(phi)[8] = I12 /\ Loop(phi)[9] = I13
         /\ \A n \in 0 .. 8 :
              Append(First(Loop(phi), n), Loop(phi)[n + 1]) = First(Loop(phi), n + 1)
         /\ \A n \in 0 .. 9 :
              /\ Len(First(Loop(phi), n)) = n /\ First(Loop(phi), n) \in Seq({phi, I6, I7, I8, I9, I10, I11, I12, I13})
              /\ \A j \in 1 .. n : First(Loop(phi), n)[j] = Loop(phi)[j]
<1> DEFINE T == {phi, I6, I7, I8, I9, I10, I11, I12, I13}
           t == Loop(phi)
<1>1. /\ t \in Seq(T) /\ Len(t) = 9
      /\ t[1] = phi /\ t[2] = I6 /\ t[3] = I7 /\ t[4] = I8 /\ t[5] = I9
      /\ t[6] = I10 /\ t[7] = I11 /\ t[8] = I12 /\ t[9] = I13
  BY DEF Loop
<1> HIDE DEF T, t
<1>2. ASSUME NEW n \in 0 .. 8
      PROVE  Append(First(t, n), t[n + 1]) = First(t, n + 1)
  <2>1. n \in 0 .. Len(t) - 1
    BY <1>1
  <2> QED
    BY <1>1, <2>1, FirstNext
<1>3. ASSUME NEW n \in 0 .. 9
      PROVE  /\ Len(First(t, n)) = n /\ First(t, n) \in Seq(T)
             /\ \A j \in 1 .. n : First(t, n)[j] = t[j]
  <2>1. n \in 0 .. Len(t)
    BY <1>1
  <2> QED
    BY <1>1, <2>1, FirstElements
<1> QED
  BY <1>1, <1>2, <1>3 DEF t, T

\* The same for the exit block.
LEMMA ExitElements ==
  /\ Len(Exit) = 2 /\ Exit[1] = I14 /\ Exit[2] = I15
  /\ \A n \in 0 .. 1 : Append(First(Exit, n), Exit[n + 1]) = First(Exit, n + 1)
  /\ \A n \in 0 .. 2 : /\ Len(First(Exit, n)) = n
                       /\ \A j \in 1 .. n : First(Exit, n)[j] = Exit[j]
<1> DEFINE T == {I14, I15}
<1>1. Exit \in Seq(T) /\ Len(Exit) = 2 /\ Exit[1] = I14 /\ Exit[2] = I15
  BY DEF Exit
<1> HIDE DEF T
<1>2. ASSUME NEW n \in 0 .. 1
      PROVE  Append(First(Exit, n), Exit[n + 1]) = First(Exit, n + 1)
  <2>1. n \in 0 .. Len(Exit) - 1
    BY <1>1
  <2> QED
    BY <1>1, <2>1, FirstNext
<1>3. ASSUME NEW n \in 0 .. 2
      PROVE  /\ Len(First(Exit, n)) = n
             /\ \A j \in 1 .. n : First(Exit, n)[j] = Exit[j]
  <2>1. n \in 0 .. Len(Exit)
    BY <1>1
  <2> QED
    BY <1>1, <2>1, FirstElements
<1> QED
  BY <1>1, <1>2, <1>3

-----------------------------------------------------------------------------
(* One instruction more.                                                   *)

\* Insert appends the next instruction of the entry block, while the function
\* has no other block.
LEMMA InsertBegun ==
  ASSUME NEW n \in 0 .. 3, NEW op, NEW ty, NEW args, NEW bbs,
         Entry[n + 1] = Ins(n + 1, op, ty, args, bbs)
  PROVE  Insert(Begun(n), op, ty, args, bbs) = Begun(n + 1)
<1>1. Append(First(Entry, n), Entry[n + 1]) = First(Entry, n + 1)
  BY EntryElements
<1>2. [<<First(Entry, n)>> EXCEPT ![1] = Append(@, Entry[n + 1])]
        = <<First(Entry, n + 1)>>
  BY <1>1
<1> QED
  BY <1>2 DEF Insert, Begun, Fn, Ins

\* Insert appends the next instruction of the entry block.
LEMMA InsertEntry ==
  ASSUME NEW n \in 0 .. 3, NEW phi, NEW op, NEW ty, NEW args, NEW bbs,
         Entry[n + 1] = Ins(n + 1, op, ty, args, bbs)
  PROVE  Insert(Emitted(n, phi, 0, 0, 1), op, ty, args, bbs) = Emitted(n + 1, phi, 0, 0, 1)
<1>1. Append(First(Entry, n), Entry[n + 1]) = First(Entry, n + 1)
  BY EntryElements
<1> DEFINE b == First(Loop(phi), 0)
           c == First(Exit, 0)
<1>2. [Three(First(Entry, n), b, c) EXCEPT ![1] = Append(@, Entry[n + 1])]
        = Three(First(Entry, n + 1), b, c)
  <2> HIDE DEF b, c
  <2> QED BY <1>1 DEF Three
<1>3. n + 0 + 0 + 1 = n + 1 /\ (n + 1) + 0 + 0 + 1 = (n + 1) + 1
  OBVIOUS
<1> QED
  BY <1>2, <1>3 DEF Insert, Emitted, Fn, Ins

\* Insert appends the next instruction of the loop block.
LEMMA InsertLoop ==
  ASSUME NEW m \in 0 .. 8, NEW phi, NEW op, NEW ty, NEW args, NEW bbs,
         Loop(phi)[m + 1] = Ins(m + 5, op, ty, args, bbs)
  PROVE  Insert(Emitted(4, phi, m, 0, 2), op, ty, args, bbs) = Emitted(4, phi, m + 1, 0, 2)
<1>1. Append(First(Loop(phi), m), Loop(phi)[m + 1]) = First(Loop(phi), m + 1)
  BY LoopElements
<1> DEFINE a == First(Entry, 4)
           c == First(Exit, 0)
<1>2. [Three(a, First(Loop(phi), m), c) EXCEPT ![2] = Append(@, Loop(phi)[m + 1])]
        = Three(a, First(Loop(phi), m + 1), c)
  <2> HIDE DEF a, c
  <2> QED BY <1>1 DEF Three
<1>3. 4 + m + 0 + 1 = m + 5 /\ 4 + (m + 1) + 0 + 1 = (m + 5) + 1
  OBVIOUS
<1> QED
  BY <1>2, <1>3 DEF Insert, Emitted, Fn, Ins

\* Insert appends the next instruction of the exit block.
LEMMA InsertExit ==
  ASSUME NEW k \in 0 .. 1, NEW phi, NEW op, NEW ty, NEW args, NEW bbs,
         Exit[k + 1] = Ins(k + 14, op, ty, args, bbs)
  PROVE  Insert(Emitted(4, phi, 9, k, 3), op, ty, args, bbs) = Emitted(4, phi, 9, k + 1, 3)
<1>1. Append(First(Exit, k), Exit[k + 1]) = First(Exit, k + 1)
  BY ExitElements
<1> DEFINE a == First(Entry, 4)
           b == First(Loop(phi), 9)
<1>2. [Three(a, b, First(Exit, k)) EXCEPT ![3] = Append(@, Exit[k + 1])]
        = Three(a, b, First(Exit, k + 1))
  <2> HIDE DEF a, b
  <2> QED BY <1>1 DEF Three
<1>3. 4 + 9 + k + 1 = k + 14 /\ 4 + 9 + (k + 1) + 1 = (k + 14) + 1
  OBVIOUS
<1> QED
  BY <1>2, <1>3 DEF Insert, Emitted, Fn, Ins

\* The value of the instruction emitted last, in the entry block.
LEMMA ResultBegun ==
  ASSUME NEW n \in 1 .. 4
  PROVE  Result(Begun(n)) = [kind |-> "inst", n |-> Entry[n].id, type |-> Entry[n].type]
<1>1. Len(First(Entry, n)) = n /\ First(Entry, n)[n] = Entry[n]
  BY EntryElements
<1> QED
  BY <1>1 DEF Result, Begun, Fn

\* The value of the instruction emitted last, in the loop block.
LEMMA ResultLoop ==
  ASSUME NEW m \in 1 .. 9, NEW phi
  PROVE  Result(Emitted(4, phi, m, 0, 2))
           = [kind |-> "inst", n |-> Loop(phi)[m].id, type |-> Loop(phi)[m].type]
<1>1. Len(First(Loop(phi), m)) = m /\ First(Loop(phi), m)[m] = Loop(phi)[m]
  <2>1. m \in 0 .. 9 /\ m \in 1 .. m
    OBVIOUS
  <2> QED
    BY <2>1, LoopElements
<1> QED
  BY <1>1 DEF Result, Emitted, Fn, Three

\* The value of the instruction emitted last, in the exit block.
LEMMA ResultExit ==
  ASSUME NEW k \in 1 .. 2, NEW phi
  PROVE  Result(Emitted(4, phi, 9, k, 3))
           = [kind |-> "inst", n |-> Exit[k].id, type |-> Exit[k].type]
<1>1. Len(First(Exit, k)) = k /\ First(Exit, k)[k] = Exit[k]
  BY ExitElements
<1> QED
  BY <1>1 DEF Result, Emitted, Fn, Three
-----------------------------------------------------------------------------
(* The edges of the phi.                                                   *)

Patched(blk, n, vals, bbs) ==
  [j \in DOMAIN blk |-> IF blk[j].id = n THEN WithIncoming(blk[j], vals, bbs)
                                         ELSE blk[j]]

\* AddIncoming goes through the three blocks one by one.
LEMMA AddIncomingThree ==
  ASSUME NEW a, NEW b, NEW c, NEW at, NEW n, NEW phi, NEW vals, NEW bbs
  PROVE  AddIncoming(Fn(Three(a, b, c), at, n), phi, vals, bbs)
           = Fn(Three(Patched(a, phi.n, vals, bbs), Patched(b, phi.n, vals, bbs),
                      Patched(c, phi.n, vals, bbs)), at, n)
<1> DEFINE body == Three(a, b, c)
           G(blk) == Patched(blk, phi.n, vals, bbs)
<1>1. [k \in DOMAIN body |-> G(body[k])] = Three(G(a), G(b), G(c))
  <2> HIDE DEF G
  <2> QED BY DEF Three
<1>2. AddIncoming(Fn(body, at, n), phi, vals, bbs)
        = Fn([k \in DOMAIN body |-> G(body[k])], at, n)
  BY DEF AddIncoming, Rewrite, Fn, Patched
<1> QED
  BY <1>1, <1>2

\* Only the phi has the number 5: AddIncoming leaves the entry block alone.
LEMMA PatchedEntry ==
  ASSUME NEW vals, NEW bbs
  PROVE  Patched(First(Entry, 4), 5, vals, bbs) = First(Entry, 4)
<1> DEFINE t == First(Entry, 4)
<1>1. \A j \in DOMAIN t : t[j].id # 5
  <2>1. Len(t) = 4 /\ t[1] = I1 /\ t[2] = I2 /\ t[3] = I3 /\ t[4] = I4
    BY EntryElements
  <2>2. DOMAIN t = 1 .. 4
    BY <2>1, EntryElements
  <2>3. I1.id # 5 /\ I2.id # 5 /\ I3.id # 5 /\ I4.id # 5
    BY DEF I1, I2, I3, I4, Ins
  <2> QED
    BY <2>1, <2>2, <2>3
<1>2. t = [j \in DOMAIN t |-> t[j]]
  BY EntryElements
<1> QED
  BY <1>1, <1>2 DEF Patched

\* AddIncoming leaves the exit block alone, which is still empty.
LEMMA PatchedExit ==
  ASSUME NEW vals, NEW bbs
  PROVE  Patched(First(Exit, 0), 5, vals, bbs) = First(Exit, 0)
<1> DEFINE p == Patched(<< >>, 5, vals, bbs)
<1>1. First(Exit, 0) = << >>
  BY FirstNone
<1>2. p \in [1 .. 0 -> {}]
  BY DEF Patched
<1>3. p \in Seq({}) /\ Len(p) = 0
  BY <1>2, SeqDef
<1>4. << >> \in Seq({}) /\ Len(<< >>) = 0
  BY EmptySeq
<1>5. p = << >>
  BY <1>3, <1>4, EmptySeq
<1> QED
  BY <1>1, <1>5

\* AddIncoming changes the phi at the head of the loop block and nothing else.
LEMMA PatchedLoop ==
  ASSUME NEW phi, phi.id = 5, NEW m \in 1 .. 9, NEW vals, NEW bbs
  PROVE  Patched(First(Loop(phi), m), 5, vals, bbs)
           = First(Loop(WithIncoming(phi, vals, bbs)), m)
<1> DEFINE new == WithIncoming(phi, vals, bbs)
           s == First(Loop(phi), m)
           t == First(Loop(new), m)
<1>1. /\ Len(s) = m /\ Len(t) = m /\ DOMAIN s = 1 .. m /\ DOMAIN t = 1 .. m
      /\ \A j \in 1 .. m : s[j] = Loop(phi)[j] /\ t[j] = Loop(new)[j]
      /\ t = [j \in DOMAIN t |-> t[j]]
  <2> HIDE DEF new
  <2>1. m \in 0 .. 9
    OBVIOUS
  <2>2. /\ Len(s) = m /\ s \in Seq({phi, I6, I7, I8, I9, I10, I11, I12, I13})
        /\ \A j \in 1 .. m : s[j] = Loop(phi)[j]
    BY <2>1, LoopElements
  <2>3. /\ Len(t) = m /\ t \in Seq({new, I6, I7, I8, I9, I10, I11, I12, I13})
        /\ \A j \in 1 .. m : t[j] = Loop(new)[j]
    BY <2>1, LoopElements
  <2> HIDE DEF s, t
  <2> QED
    BY <2>2, <2>3, LenProperties
<1>2. \A j \in 2 .. 9 : Loop(phi)[j] = Loop(new)[j] /\ Loop(phi)[j].id # 5
  <2> HIDE DEF new
  <2>1. /\ I6.id # 5 /\ I7.id # 5 /\ I8.id # 5 /\ I9.id # 5 /\ I10.id # 5
        /\ I11.id # 5 /\ I12.id # 5 /\ I13.id # 5
    BY DEF I6, I7, I8, I9, I10, I11, I12, I13, Ins
  <2>2. /\ Loop(phi)[2] = I6 /\ Loop(phi)[3] = I7 /\ Loop(phi)[4] = I8
        /\ Loop(phi)[5] = I9 /\ Loop(phi)[6] = I10 /\ Loop(phi)[7] = I11
        /\ Loop(phi)[8] = I12 /\ Loop(phi)[9] = I13
    BY LoopElements
  <2>3. /\ Loop(new)[2] = I6 /\ Loop(new)[3] = I7 /\ Loop(new)[4] = I8
        /\ Loop(new)[5] = I9 /\ Loop(new)[6] = I10 /\ Loop(new)[7] = I11
        /\ Loop(new)[8] = I12 /\ Loop(new)[9] = I13
    BY LoopElements
  <2>4. \A j \in 2 .. 9 : j \in {2, 3, 4, 5, 6, 7, 8, 9}
    OBVIOUS
  <2> QED
    BY <2>1, <2>2, <2>3, <2>4
<1>3. Loop(phi)[1] = phi /\ Loop(new)[1] = new
  BY LoopElements
<1>4. \A j \in 1 .. m : t[j] = IF s[j].id = 5 THEN WithIncoming(s[j], vals, bbs) ELSE s[j]
  <2> HIDE DEF new, s, t
  <2> SUFFICES ASSUME NEW j \in 1 .. m
               PROVE t[j] = IF s[j].id = 5 THEN WithIncoming(s[j], vals, bbs) ELSE s[j]
    OBVIOUS
  <2>1. CASE j = 1
    BY <2>1, <1>1, <1>3 DEF new
  <2>2. CASE j # 1
    BY <2>2, <1>1, <1>2
  <2> QED
    BY <2>1, <2>2
<1> HIDE DEF new, s, t
<1>5. Patched(s, 5, vals, bbs) = t
  BY <1>1, <1>4 DEF Patched
<1> QED
  BY <1>5 DEF new, s, t

\* The lists AddIncoming concatenates.
LEMMA Singletons ==
  ASSUME NEW x, NEW y
  PROVE  << >> \o <<x>> = <<x>> /\ <<x>> \o <<y>> = <<x, y>>
<1>1. << >> \o <<x>> = <<x>>
  BY ConcatEmptySeq
<1> DEFINE s == <<x>> \o <<y>>
           t == <<x, y>>
<1>2. s \in Seq({x, y}) /\ t \in Seq({x, y}) /\ Len(s) = Len(t)
  OBVIOUS
<1>3. s[1] = t[1] /\ s[2] = t[2]
  OBVIOUS
<1>4. \A i \in 1 .. Len(s) : s[i] = t[i]
  BY <1>2, <1>3
<1> QED
  BY <1>1, <1>2, <1>4, SeqEqual

\* The phi gets its edge from the preheader, then its edge from the loop.
LEMMA Edges ==
  /\ WithIncoming(PhiNew, <<ConstInt("i64", 0)>>, <<1>>) = PhiOpen
  /\ WithIncoming(PhiOpen, <<Inst(11, "i64")>>, <<2>>) = I5
<1>1. /\ << >> \o <<ConstInt("i64", 0)>> = <<ConstInt("i64", 0)>>
      /\ << >> \o <<1>> = <<1>>
      /\ <<ConstInt("i64", 0)>> \o <<Inst(11, "i64")>> = <<ConstInt("i64", 0), Inst(11, "i64")>>
      /\ <<1>> \o <<2>> = <<1, 2>>
  BY Singletons
<1>2. /\ WithIncoming(PhiNew, <<ConstInt("i64", 0)>>, <<1>>)
           = Ins(5, "phi", "i64", << >> \o <<ConstInt("i64", 0)>>, << >> \o <<1>>)
      /\ WithIncoming(PhiOpen, <<Inst(11, "i64")>>, <<2>>)
           = Ins(5, "phi", "i64", <<ConstInt("i64", 0)>> \o <<Inst(11, "i64")>>, <<1>> \o <<2>>)
  BY DEF WithIncoming, PhiNew, PhiOpen, Ins
<1> QED
  BY <1>1, <1>2 DEF PhiOpen, I5

\* AddIncoming changes the phi of the listing so far.
LEMMA AddIncomingEmitted ==
  ASSUME NEW m \in 1 .. 9, NEW phi, phi.id = 5, NEW vals, NEW bbs
  PROVE  AddIncoming(Emitted(4, phi, m, 0, 2), Inst(5, "i64"), vals, bbs)
           = Emitted(4, WithIncoming(phi, vals, bbs), m, 0, 2)
<1>1. Inst(5, "i64").n = 5
  BY DEF Inst
<1> QED
  BY <1>1, AddIncomingThree, PatchedEntry, PatchedLoop, PatchedExit DEF Emitted

-----------------------------------------------------------------------------
(* The calls of the code generator, in order.                              *)

\* The calls up to the loop: the trip count, the accumulator and its first
\* value (jit.go:27-35).
LEMMA EntryCalls ==
  /\ KernelEntry("i64") = Begun(1) /\ Result(Begun(1)) = Inst(1, "i64")
  /\ CreateAlloca(Begun(1), "i64") = Begun(2) /\ Result(Begun(2)) = Inst(2, "i64*")
  /\ CreateStore(Begun(2), ConstInt("i64", 0), Inst(2, "i64*")) = Begun(3)
<1>1. KernelEntry("i64") = CreateLoad(Begun(0), Arg(0, "i64*"))
  <2> DEFINE f == AddBasicBlock(AddFunction(<<"i64*", PointerType("i64"), "i8*">>, "i64"))
             g == SetInsertPointAtEnd(f, LastBlock(f))
  <2>1. f = Fn(<< << >> >>, 0, 1)
    BY DEF AddBasicBlock, AddFunction, PointerType, Fn
  <2>2. LastBlock(f) = 1
    BY <2>1 DEF LastBlock, Fn
  <2>3. g = Fn(<< << >> >>, 1, 1)
    BY <2>1, <2>2 DEF SetInsertPointAtEnd, Fn
  <2>4. First(Entry, 0) = << >>
    BY FirstNone
  <2>5. g = Begun(0)
    BY <2>3, <2>4 DEF Begun
  <2>6. Param(g, 0) = Arg(0, "i64*")
    BY <2>3 DEF Param, Fn, Arg
  <2>7. KernelEntry("i64") = CreateLoad(g, Param(g, 0))
    BY DEF KernelEntry
  <2> QED
    BY <2>5, <2>6, <2>7
<1>2. CreateLoad(Begun(0), Arg(0, "i64*")) = Begun(1)
  BY EntryElements, InsertBegun DEF CreateLoad, ElementType, Arg, I1
<1>3. CreateAlloca(Begun(1), "i64") = Begun(2)
  BY EntryElements, InsertBegun DEF CreateAlloca, PointerType, I2
<1>4. CreateStore(Begun(2), ConstInt("i64", 0), Inst(2, "i64*")) = Begun(3)
  BY EntryElements, InsertBegun DEF CreateStore, I3
<1>5. Result(Begun(1)) = Inst(1, "i64") /\ Result(Begun(2)) = Inst(2, "i64*")
  BY EntryElements, ResultBegun DEF I1, I2, Ins, Inst
<1> QED
  BY <1>1, <1>2, <1>3, <1>4, <1>5

\* The loop block and the exit block are added; the insertion point stays.
LEMMA BlockCalls ==
  ASSUME NEW phi
  PROVE  /\ AddBasicBlock(AddBasicBlock(Begun(3))) = Emitted(3, phi, 0, 0, 1)
         /\ LastBlock(AddBasicBlock(Begun(3))) = 2
         /\ LastBlock(Emitted(3, phi, 0, 0, 1)) = 3
         /\ GetInsertBlock(Begun(3)) = 1
<1> DEFINE a == First(Entry, 3)
<1>1. First(Loop(phi), 0) = << >> /\ First(Exit, 0) = << >>
  BY FirstNone
<1>2. Append(<<a>>, << >>) = <<a, << >> >> /\ Append(<<a, << >> >>, << >>) = Three(a, << >>, << >>)
  <2> HIDE DEF a
  <2> DEFINE T == {a, << >>}
  <2>1. \A x, y \in T : Append(<<x>>, y) = <<x, y>>
    <3> SUFFICES ASSUME NEW x \in T, NEW y \in T PROVE Append(<<x>>, y) = <<x, y>>
      OBVIOUS
    <3> HIDE DEF T
    <3> DEFINE s == Append(<<x>>, y)
               t == <<x, y>>
    <3>1. s \in Seq(T) /\ t \in Seq(T) /\ Len(s) = Len(t) /\ s[1] = t[1] /\ s[2] = t[2]
      OBVIOUS
    <3>2. \A i \in 1 .. Len(s) : s[i] = t[i]
      BY <3>1
    <3> QED
      BY <3>1, <3>2, SeqEqual
  <2>2. \A x, y, z \in T : Append(<<x, y>>, z) = Three(x, y, z)
    <3> SUFFICES ASSUME NEW x \in T, NEW y \in T, NEW z \in T
                 PROVE Append(<<x, y>>, z) = Three(x, y, z)
      OBVIOUS
    <3> HIDE DEF T
    <3> DEFINE s == Append(<<x, y>>, z)
               t == Three(x, y, z)
    <3>1. /\ s \in Seq(T) /\ t \in Seq(T) /\ Len(s) = Len(t)
          /\ s[1] = t[1] /\ s[2] = t[2] /\ s[3] = t[3]
      BY DEF Three
    <3>2. \A i \in 1 .. Len(s) : s[i] = t[i]
      BY <3>1 DEF Three
    <3> QED
      BY <3>1, <3>2, SeqEqual
  <2> QED
    BY <2>1, <2>2
<1>3. AddBasicBlock(Begun(3)) = Fn(<<a, << >> >>, 1, 4)
  <2> HIDE DEF a
  <2> SUFFICES AddBasicBlock(Fn(<<a>>, 1, 4)) = Fn(<<a, << >> >>, 1, 4)
    BY DEF Begun, a
  <2> QED
    BY <1>2 DEF AddBasicBlock, Fn
<1>4. AddBasicBlock(Fn(<<a, << >> >>, 1, 4)) = Fn(Three(a, << >>, << >>), 1, 4)
  BY <1>2 DEF AddBasicBlock, Fn
<1>5. Emitted(3, phi, 0, 0, 1) = Fn(Three(a, << >>, << >>), 1, 4)
  BY <1>1 DEF Emitted
<1>6. Len(<<a, << >> >>) = 2 /\ Len(Three(a, << >>, << >>)) = 3
  BY DEF Three
<1> QED
  BY <1>3, <1>4, <1>5, <1>6 DEF LastBlock, Fn, GetInsertBlock, Begun

\* The jump to the loop block and its phi (jit.go:103-107).
LEMMA OpenCalls ==
  /\ CreateBr(Emitted(3, PhiNew, 0, 0, 1), 2) = Emitted(4, PhiNew, 0, 0, 1)
  /\ SetInsertPointAtEnd(Emitted(4, PhiNew, 0, 0, 1), 2) = Emitted(4, PhiNew, 0, 0, 2)
  /\ CreatePHI(Emitted(4, PhiNew, 0, 0, 2), "i64") = Emitted(4, PhiNew, 1, 0, 2)
  /\ Result(Emitted(4, PhiNew, 1, 0, 2)) = Inst(5, "i64")
  /\ AddIncoming(Emitted(4, PhiNew, 1, 0, 2), Inst(5, "i64"), <<ConstInt("i64", 0)>>, <<1>>)
       = Emitted(4, PhiOpen, 1, 0, 2)
<1>1. Loop(PhiNew)[1] = PhiNew
  BY LoopElements
<1>2. CreateBr(Emitted(3, PhiNew, 0, 0, 1), 2) = Emitted(4, PhiNew, 0, 0, 1)
  BY EntryElements, InsertEntry DEF CreateBr, I4
<1>3. SetInsertPointAtEnd(Emitted(4, PhiNew, 0, 0, 1), 2) = Emitted(4, PhiNew, 0, 0, 2)
  BY DEF SetInsertPointAtEnd, Emitted, Fn
<1>4. CreatePHI(Emitted(4, PhiNew, 0, 0, 2), "i64") = Emitted(4, PhiNew, 1, 0, 2)
  BY <1>1, InsertLoop DEF CreatePHI, PhiNew
<1>5. Result(Emitted(4, PhiNew, 1, 0, 2)) = Inst(5, "i64")
  BY <1>1, ResultLoop DEF PhiNew, Ins, Inst
<1>6. PhiNew.id = 5
  BY DEF PhiNew, Ins
<1> QED
  BY <1>2, <1>3, <1>4, <1>5, <1>6, AddIncomingEmitted, Edges

\* What runs before the body callback (jit.go:99-107).
LEMMA OpenListing ==
  OpenLoop(Begun(3)) = [fn |-> Emitted(4, PhiOpen, 1, 0, 2), phi |-> Inst(5, "i64"),
                        loop |-> 2, after |-> 3]
<1> DEFINE f1 == AddBasicBlock(Begun(3))
           f2 == AddBasicBlock(f1)
           f3 == CreatePHI(SetInsertPointAtEnd(CreateBr(f2, LastBlock(f1)), LastBlock(f1)), "i64")
<1>1. OpenLoop(Begun(3))
        = [fn |-> AddIncoming(f3, Result(f3), <<ConstInt("i64", 0)>>, <<GetInsertBlock(Begun(3))>>),
           phi |-> Result(f3), loop |-> LastBlock(f1), after |-> LastBlock(f2)]
  BY DEF OpenLoop
<1>2. /\ f2 = Emitted(3, PhiNew, 0, 0, 1) /\ LastBlock(f1) = 2 /\ LastBlock(f2) = 3
      /\ GetInsertBlock(Begun(3)) = 1
  BY BlockCalls
<1> HIDE DEF f1, f2
<1>3. f3 = Emitted(4, PhiNew, 1, 0, 2)
  BY <1>2, OpenCalls
<1> HIDE DEF f3
<1> QED
  BY <1>1, <1>2, <1>3, OpenCalls

\* The body callback (jit.go:37-42).
LEMMA BodyListing ==
  AccumulateInt64(Emitted(4, PhiOpen, 1, 0, 2), Inst(5, "i64"), Inst(2, "i64*"))
    = Emitted(4, PhiOpen, 6, 0, 2)
<1> DEFINE E(m) == Emitted(4, PhiOpen, m, 0, 2)
<1>1. /\ Loop(PhiOpen)[1] = PhiOpen /\ Loop(PhiOpen)[2] = I6 /\ Loop(PhiOpen)[3] = I7
      /\ Loop(PhiOpen)[4] = I8 /\ Loop(PhiOpen)[5] = I9 /\ Loop(PhiOpen)[6] = I10
      /\ Loop(PhiOpen)[7] = I11 /\ Loop(PhiOpen)[8] = I12 /\ Loop(PhiOpen)[9] = I13
  BY LoopElements
<1>2. Param(E(1), 1) = Arg(1, "i64*")
  BY DEF Emitted, Fn, Param, Arg
<1>3. CreateInBoundsGEP(E(1), Arg(1, "i64*"), Inst(5, "i64")) = E(2)
  BY <1>1, InsertLoop DEF CreateInBoundsGEP, Arg, I6
<1>4. Result(E(2)) = Inst(6, "i64*")
  BY <1>1, ResultLoop DEF I6, Ins, Inst
<1>5. CreateLoad(E(2), Inst(6, "i64*")) = E(3)
  BY <1>1, InsertLoop DEF CreateLoad, ElementType, Inst, I7
<1>6. Result(E(3)) = Inst(7, "i64")
  BY <1>1, ResultLoop DEF I7, Ins, Inst
<1>7. CreateLoad(E(3), Inst(2, "i64*")) = E(4)
  BY <1>1, InsertLoop DEF CreateLoad, ElementType, Inst, I8
<1>8. Result(E(4)) = Inst(8, "i64")
  BY <1>1, ResultLoop DEF I8, Ins, Inst
<1>9. CreateBinary(E(4), "add", Inst(8, "i64"), Inst(7, "i64")) = E(5)
  BY <1>1, InsertLoop DEF CreateBinary, Inst, I9
<1>10. Result(E(5)) = Inst(9, "i64")
  BY <1>1, ResultLoop DEF I9, Ins, Inst
<1>11. CreateStore(E(5), Inst(9, "i64"), Inst(2, "i64*")) = E(6)
  BY <1>1, InsertLoop DEF CreateStore, I10
<1> HIDE DEF E
<1>12. buildArrLoad(E(1), Arg(1, "i64*"), Inst(5, "i64")) = E(3)
  BY <1>3, <1>4, <1>5 DEF buildArrLoad
<1>13. AccumulateInt64(E(1), Inst(5, "i64"), Inst(2, "i64*")) = E(6)
  BY <1>2, <1>6, <1>7, <1>8, <1>9, <1>10, <1>11, <1>12 DEF AccumulateInt64
<1> QED
  BY <1>13 DEF E

\* What runs after the body callback (jit.go:111-119).
LEMMA CloseListing ==
  ASSUME NEW l, l.phi = Inst(5, "i64"), l.loop = 2, l.after = 3
  PROVE  CloseLoop(Emitted(4, PhiOpen, 6, 0, 2), l, Inst(1, "i64")) = Emitted(4, I5, 9, 0, 3)
<1> DEFINE E(phi, m) == Emitted(4, phi, m, 0, 2)
<1>1. /\ Loop(PhiOpen)[1] = PhiOpen /\ Loop(PhiOpen)[2] = I6 /\ Loop(PhiOpen)[3] = I7
      /\ Loop(PhiOpen)[4] = I8 /\ Loop(PhiOpen)[5] = I9 /\ Loop(PhiOpen)[6] = I10
      /\ Loop(PhiOpen)[7] = I11 /\ Loop(PhiOpen)[8] = I12 /\ Loop(PhiOpen)[9] = I13
      /\ Loop(I5)[1] = I5 /\ Loop(I5)[2] = I6 /\ Loop(I5)[3] = I7
      /\ Loop(I5)[4] = I8 /\ Loop(I5)[5] = I9 /\ Loop(I5)[6] = I10
      /\ Loop(I5)[7] = I11 /\ Loop(I5)[8] = I12 /\ Loop(I5)[9] = I13
  BY LoopElements
<1>2. CreateBinary(E(PhiOpen, 6), "add", Inst(5, "i64"), ConstInt("i64", 1)) = E(PhiOpen, 7)
  BY <1>1, InsertLoop DEF CreateBinary, Inst, I11
<1>3. Result(E(PhiOpen, 7)) = Inst(11, "i64") /\ GetInsertBlock(E(PhiOpen, 7)) = 2
  BY <1>1, ResultLoop DEF I11, Ins, Inst, GetInsertBlock, Emitted, Fn
<1>4. AddIncoming(E(PhiOpen, 7), Inst(5, "i64"), <<Inst(11, "i64")>>, <<2>>) = E(I5, 7)
  <2>1. PhiOpen.id = 5
    BY DEF PhiOpen, Ins
  <2> QED
    BY <2>1, AddIncomingEmitted, Edges
<1>5. CreateICmp(E(I5, 7), "slt", Inst(11, "i64"), Inst(1, "i64")) = E(I5, 8)
  BY <1>1, InsertLoop DEF CreateICmp, I12
<1>6. Result(E(I5, 8)) = Inst(12, "i1")
  BY <1>1, ResultLoop DEF I12, Ins, Inst
<1>7. CreateCondBr(E(I5, 8), Inst(12, "i1"), 2, 3) = E(I5, 9)
  BY <1>1, InsertLoop DEF CreateCondBr, I13
<1>8. SetInsertPointAtEnd(E(I5, 9), 3) = Emitted(4, I5, 9, 0, 3)
  BY DEF SetInsertPointAtEnd, Emitted, Fn
<1> HIDE DEF E
<1>9. CloseLoop(E(PhiOpen, 6), l, Inst(1, "i64")) = Emitted(4, I5, 9, 0, 3)
  BY <1>2, <1>3, <1>4, <1>5, <1>6, <1>7, <1>8 DEF CloseLoop
<1> QED
  BY <1>9 DEF E

\* CodegenSumInt64 emits the listing: every builder call puts its instruction
\* where the next one expects it, and the phi, patched twice, ends with the
\* edges of the preheader and of the loop block (jit.go:13-48, 89-127).
THEOREM KernelListed == CodegenSumInt64 = Listing
<1> DEFINE l  == OpenLoop(Begun(3))
           f4 == CloseLoop(AccumulateInt64(l.fn, l.phi, Inst(2, "i64*")), l, Inst(1, "i64"))
           rest(f) == LET f5 == CreateLoad(f, Inst(2, "i64*")) IN CreateRet(f5, Result(f5))
<1>1. CodegenSumInt64 = rest(f4)
  <2> DEFINE g1 == KernelEntry("i64")
             g2 == CreateAlloca(g1, "i64")
             g3 == CreateStore(g2, ConstInt("i64", 0), Result(g2))
             k  == OpenLoop(g3)
             g4 == CloseLoop(AccumulateInt64(k.fn, k.phi, Result(g2)), k, Result(g1))
             g5 == CreateLoad(g4, Result(g2))
  <2>1. CodegenSumInt64 = CreateRet(g5, Result(g5))
    BY DEF CodegenSumInt64, buildLoop
  <2>2. g1 = Begun(1) /\ Result(Begun(1)) = Inst(1, "i64")
    BY EntryCalls
  <2>3. g2 = Begun(2) /\ Result(Begun(2)) = Inst(2, "i64*")
    BY <2>2, EntryCalls
  <2>4. g3 = Begun(3)
    BY <2>3, EntryCalls
  <2> HIDE DEF g1, g2, g3
  <2>5. k = l
    BY <2>4
  <2>6. g4 = f4
    BY <2>2, <2>3, <2>5
  <2> HIDE DEF g4
  <2> QED
    BY <2>1, <2>3, <2>6
<1>2. l.fn = Emitted(4, PhiOpen, 1, 0, 2) /\ l.phi = Inst(5, "i64")
  BY OpenListing
<1>3. f4 = Emitted(4, I5, 9, 0, 3)
  <2>1. /\ l.fn = Emitted(4, PhiOpen, 1, 0, 2) /\ l.phi = Inst(5, "i64")
        /\ l.loop = 2 /\ l.after = 3
    BY OpenListing
  <2> HIDE DEF l
  <2> QED
    BY <2>1, BodyListing, CloseListing
<1> HIDE DEF f4
<1>4. CreateLoad(Emitted(4, I5, 9, 0, 3), Inst(2, "i64*")) = Emitted(4, I5, 9, 1, 3)
  BY ExitElements, InsertExit DEF CreateLoad, ElementType, Inst, I14
<1>5. Result(Emitted(4, I5, 9, 1, 3)) = Inst(14, "i64")
  BY ExitElements, ResultExit DEF I14, Ins, Inst
<1>6. CreateRet(Emitted(4, I5, 9, 1, 3), Inst(14, "i64")) = Emitted(4, I5, 9, 2, 3)
  BY ExitElements, InsertExit DEF CreateRet, I15
<1>7. Emitted(4, I5, 9, 2, 3) = Listing
  <2>1. First(Entry, 4) = Entry /\ First(Loop(I5), 9) = Loop(I5) /\ First(Exit, 2) = Exit
    <3> DEFINE S == {I1, I2, I3, I4}
               T == {I5, I6, I7, I8, I9, I10, I11, I12, I13}
               U == {I14, I15}
    <3>1. /\ Entry \in Seq(S) /\ Len(Entry) = 4 /\ Loop(I5) \in Seq(T) /\ Len(Loop(I5)) = 9
          /\ Exit \in Seq(U) /\ Len(Exit) = 2
      BY DEF Entry, Loop, Exit
    <3> HIDE DEF S, T, U
    <3> QED
      BY <3>1, FirstAll
  <2> QED
    BY <2>1 DEF Emitted, Listing
<1> QED
  BY <1>1, <1>3, <1>4, <1>5, <1>6, <1>7

-----------------------------------------------------------------------------
(* The executions.                                                         *)

At(fr, b, k) == fr.block = b /\ fr.ip = k

\* Control is at an instruction of the listing.
Positioned(fr) ==
  \/ fr.block = 1 /\ fr.ip \in 1 .. 4
  \/ fr.block = 2 /\ fr.ip \in 1 .. 9 /\ fr.prev \in {1, 2}
  \/ fr.block = 3 /\ fr.ip \in 1 .. 2

\* The registers of type i64.
WordRegisters == {1, 5, 7, 8, 9, 11, 14}

IsWord(x) == x.off \in Words /\ x = Word(x.off)

\* What holds of a frame whatever its vector is.
Typed(fr) ==
  /\ Positioned(fr)
  /\ \A r \in WordRegisters : IsWord(fr.reg[r])

TInv ==
  /\ code = Listing
  /\ frame \in [Callers -> Frame]
  /\ \A c \in Callers : Typed(frame[c])

\* The loop's index.
Index(fr) == IF fr.ip > 1 THEN fr.reg[5].off
             ELSE IF fr.prev = 1 THEN 0 ELSE fr.reg[11].off

\* What the kernel has computed when it is about to execute instruction ip, in
\* the entry block, in the loop block and in the exit block.  In the loop, the
\* slot holds the sum of the Summed(fr) elements stored so far; the registers
\* of an iteration are known from the instruction that sets them to the one
\* that uses them.
InEntry(fr) ==
  /\ fr.ip > 1 => fr.reg[1] = Word(Len(fr.vec))
  /\ fr.ip > 2 => fr.reg[2] = StackSlot
  /\ fr.ip > 3 => fr.slot = 0

InLoop(fr) ==
  /\ fr.reg[1] = Word(Len(fr.vec)) /\ fr.reg[2] = StackSlot
  /\ Index(fr) \in 0 .. Len(fr.vec) - 1
  /\ SumsTo(fr.vec, Summed(fr), fr.slot)
  /\ fr.ip > 2 => fr.reg[6] = Element(Index(fr))
  /\ fr.ip > 3 => fr.reg[7] = Word(fr.vec[Index(fr) + 1])
  /\ fr.ip \in {5, 6} => fr.reg[8] = Word(fr.slot)
  /\ fr.ip = 6 => fr.reg[9] = Word(WrapAdd(fr.slot, fr.vec[Index(fr) + 1]))
  /\ fr.ip > 7 => fr.reg[11] = Word(Index(fr) + 1)
  /\ fr.ip > 8 => fr.reg[12] = Word(IF Index(fr) + 1 < Len(fr.vec) THEN 1 ELSE 0)

InExit(fr) ==
  /\ fr.reg[2] = StackSlot
  /\ SumsTo(fr.vec, Len(fr.vec), fr.slot)
  /\ fr.ip > 1 => fr.reg[14] = Word(fr.slot)

Computes(fr) ==
  CASE fr.status = "idle"     -> fr.block = 1
    [] fr.status = "returned" -> fr.block = 3 /\ SumsTo(fr.vec, Len(fr.vec), fr.result)
    [] OTHER -> /\ fr.block = 1 => InEntry(fr)
                /\ fr.block = 2 => InLoop(fr)
                /\ fr.block = 3 => InExit(fr)

\* The inductive invariant.
IInv == TInv /\ \A c \in Callers : Computes(frame[c])

-----------------------------------------------------------------------------
\* The listing, instruction by instruction.
LEMMA Instructions ==
  /\ Listing.body[1][1] = I1 /\ Listing.body[1][2] = I2 /\ Listing.body[1][3] = I3
  /\ Listing.body[1][4] = I4
  /\ Listing.body[2][1] = I5 /\ Listing.body[2][2] = I6 /\ Listing.body[2][3] = I7
  /\ Listing.body[2][4] = I8 /\ Listing.body[2][5] = I9 /\ Listing.body[2][6] = I10
  /\ Listing.body[2][7] = I11 /\ Listing.body[2][8] = I12 /\ Listing.body[2][9] = I13
  /\ Listing.body[3][1] = I14 /\ Listing.body[3][2] = I15
<1>1. Listing.body[1] = Entry /\ Listing.body[2] = Loop(I5) /\ Listing.body[3] = Exit
  BY DEF Listing, Fn, Three
<1> QED
  BY <1>1 DEF Entry, Loop, Exit

\* The listing is a function of the instruction builder.
LEMMA ListingTyped == Listing \in Function
<1>1. /\ Arg(0, "i64*") \in Value /\ Arg(1, "i64*") \in Value
      /\ ConstInt("i64", 0) \in Value /\ ConstInt("i64", 1) \in Value
      /\ \A n \in 1 .. 15 : Inst(n, "i64") \in Value /\ Inst(n, "i64*") \in Value
                            /\ Inst(n, "i1") \in Value
  BY DEF Arg, ConstInt, Inst, Value, Types
<1>2. I1 \in Instruction /\ I2 \in Instruction /\ I3 \in Instruction /\ I4 \in Instruction
  BY <1>1 DEF I1, I2, I3, I4, Ins, Instruction, Opcodes, Terminators, Types
<1>3. /\ I5 \in Instruction /\ I6 \in Instruction /\ I7 \in Instruction
      /\ I8 \in Instruction /\ I9 \in Instruction /\ I10 \in Instruction
  BY <1>1 DEF I5, I6, I7, I8, I9, I10, Ins, Instruction, Opcodes, Terminators, Types
<1>4. /\ I11 \in Instruction /\ I12 \in Instruction /\ I13 \in Instruction
      /\ I14 \in Instruction /\ I15 \in Instruction
  BY <1>1 DEF I11, I12, I13, I14, I15, Ins, Instruction, Opcodes, Terminators, Types
<1>5. /\ Entry \in Seq(Instruction) /\ Loop(I5) \in Seq(Instruction)
      /\ Exit \in Seq(Instruction)
  <2> HIDE DEF I1, I2, I3, I4, I5, I6, I7, I8, I9, I10, I11, I12, I13, I14, I15
  <2> QED
    BY <1>2, <1>3, <1>4 DEF Entry, Loop, Exit
<1>6. Three(Entry, Loop(I5), Exit) \in Seq(Seq(Instruction))
  BY <1>5 DEF Three
<1> QED
  BY <1>6 DEF Listing, Fn, Function, Types

-----------------------------------------------------------------------------
\* The frame gr is the frame fr after an instruction that sets register k, that
\* stores w, that jumps to block b, or that returns w.
Yields(fr, gr, k, v) ==
  gr = [status |-> fr.status, vec |-> fr.vec, block |-> fr.block, prev |-> fr.prev,
        ip |-> fr.ip + 1, reg |-> [fr.reg EXCEPT ![k] = v], slot |-> fr.slot,
        result |-> fr.result]

Stores(fr, gr, w) ==
  gr = [status |-> fr.status, vec |-> fr.vec, block |-> fr.block, prev |-> fr.prev,
        ip |-> fr.ip + 1, reg |-> fr.reg, slot |-> w, result |-> fr.result]

Jumps(fr, gr, b) ==
  gr = [status |-> fr.status, vec |-> fr.vec, block |-> b, prev |-> fr.block,
        ip |-> 1, reg |-> fr.reg, slot |-> fr.slot, result |-> fr.result]

Returns(fr, gr, w) ==
  gr = [status |-> "returned", vec |-> fr.vec, block |-> fr.block, prev |-> fr.prev,
        ip |-> fr.ip, reg |-> NoRegs, slot |-> fr.slot, result |-> w]

\* The assignments of KernelExec's actions, as relations between frames.
LEMMA Yielded ==
  ASSUME NEW c \in Callers, NEW v, code = Listing, frame \in [Callers -> Frame],
         Yield(c, v)
  PROVE  /\ code' = code
         /\ Yields(frame[c], frame'[c], Instr(frame[c]).id, v)
         /\ frame' = [frame EXCEPT ![c] = frame'[c]]
  BY DEF Yield, Yields, Frame

\* The same for a store.
LEMMA Stored ==
  ASSUME NEW c \in Callers, frame \in [Callers -> Frame], Store(c)
  PROVE  /\ code' = code
         /\ Stores(frame[c], frame'[c], Operand(frame[c], 1).off)
         /\ frame' = [frame EXCEPT ![c] = frame'[c]]
  BY DEF Store, Stores, Frame

\* The same for a jump.
LEMMA Jumped ==
  ASSUME NEW c \in Callers, NEW b, frame \in [Callers -> Frame], Jump(c, b)
  PROVE  /\ code' = code
         /\ Jumps(frame[c], frame'[c], b)
         /\ frame' = [frame EXCEPT ![c] = frame'[c]]
<1>1. frame' = [frame EXCEPT ![c] = frame'[c]]
  BY DEF Jump
<1>2. frame'[c] = [frame[c] EXCEPT !.prev = frame[c].block, !.block = b, !.ip = 1]
  BY DEF Jump
<1>3. frame[c] \in Frame
  OBVIOUS
<1>4. Jumps(frame[c], frame'[c], b)
  BY <1>2, <1>3 DEF Jumps, Frame
<1> QED
  BY <1>1, <1>4 DEF Jump

\* The same for a return.
LEMMA Returned ==
  ASSUME NEW c \in Callers, frame \in [Callers -> Frame], Ret(c)
  PROVE  /\ code' = code
         /\ Returns(frame[c], frame'[c], Operand(frame[c], 1).off)
         /\ frame' = [frame EXCEPT ![c] = frame'[c]]
  BY DEF Ret, Returns, Frame

-----------------------------------------------------------------------------
\* What the kernel does at each of its instructions.
Executed(fr, gr) ==
  \/ At(fr, 1, 1) /\ Yields(fr, gr, 1, Word(Len(fr.vec)))
  \/ At(fr, 1, 2) /\ Yields(fr, gr, 2, StackSlot)
  \/ At(fr, 1, 3) /\ fr.reg[2] = StackSlot /\ Stores(fr, gr, 0)
  \/ At(fr, 1, 4) /\ Jumps(fr, gr, 2)
  \/ At(fr, 2, 1) /\ fr.prev = 1 /\ Yields(fr, gr, 5, Word(0))
  \/ At(fr, 2, 1) /\ fr.prev = 2 /\ Yields(fr, gr, 5, fr.reg[11])
  \/ At(fr, 2, 2) /\ Yields(fr, gr, 6, Element(fr.reg[5].off))
  \/ At(fr, 2, 3) /\ \E w \in Contents(fr, fr.reg[6]) : Yields(fr, gr, 7, Word(w))
  \/ At(fr, 2, 4) /\ \E w \in Contents(fr, fr.reg[2]) : Yields(fr, gr, 8, Word(w))
  \/ At(fr, 2, 5) /\ Yields(fr, gr, 9, Word(WrapAdd(fr.reg[8].off, fr.reg[7].off)))
  \/ At(fr, 2, 6) /\ fr.reg[2] = StackSlot /\ Stores(fr, gr, fr.reg[9].off)
  \/ At(fr, 2, 7) /\ Yields(fr, gr, 11, Word(WrapAdd(fr.reg[5].off, 1)))
  \/ At(fr, 2, 8) /\ Yields(fr, gr, 12, Word(IF fr.reg[11].off < fr.reg[1].off
                                             THEN 1 ELSE 0))
  \/ At(fr, 2, 9) /\ fr.reg[12] = Word(1) /\ Jumps(fr, gr, 2)
  \/ At(fr, 2, 9) /\ fr.reg[12] # Word(1) /\ Jumps(fr, gr, 3)
  \/ At(fr, 3, 1) /\ \E w \in Contents(fr, fr.reg[2]) : Yields(fr, gr, 14, Word(w))
  \/ At(fr, 3, 2) /\ Returns(fr, gr, fr.reg[14].off)

\* The instruction at each position and the values of its operands.
LEMMA Operands ==
  ASSUME code = Listing, NEW fr
  PROVE  /\ At(fr, 1, 1) => Instr(fr) = I1 /\ Operand(fr, 1) = CountCell
         /\ At(fr, 1, 2) => Instr(fr) = I2
         /\ At(fr, 1, 3) => Instr(fr) = I3 /\ Operand(fr, 1) = Word(0)
                            /\ Operand(fr, 2) = fr.reg[2]
         /\ At(fr, 1, 4) => Instr(fr) = I4
         /\ At(fr, 2, 1) => Instr(fr) = I5 /\ Operand(fr, 1) = Word(0)
                            /\ Operand(fr, 2) = fr.reg[11]
         /\ At(fr, 2, 2) => Instr(fr) = I6 /\ Operand(fr, 1) = Element(0)
                            /\ Operand(fr, 2) = fr.reg[5]
         /\ At(fr, 2, 3) => Instr(fr) = I7 /\ Operand(fr, 1) = fr.reg[6]
         /\ At(fr, 2, 4) => Instr(fr) = I8 /\ Operand(fr, 1) = fr.reg[2]
         /\ At(fr, 2, 5) => Instr(fr) = I9 /\ Operand(fr, 1) = fr.reg[8]
                            /\ Operand(fr, 2) = fr.reg[7]
         /\ At(fr, 2, 6) => Instr(fr) = I10 /\ Operand(fr, 1) = fr.reg[9]
                            /\ Operand(fr, 2) = fr.reg[2]
         /\ At(fr, 2, 7) => Instr(fr) = I11 /\ Operand(fr, 1) = fr.reg[5]
                            /\ Operand(fr, 2) = Word(1)
         /\ At(fr, 2, 8) => Instr(fr) = I12 /\ Operand(fr, 1) = fr.reg[11]
                            /\ Operand(fr, 2) = fr.reg[1]
         /\ At(fr, 2, 9) => Instr(fr) = I13 /\ Operand(fr, 1) = fr.reg[12]
         /\ At(fr, 3, 1) => Instr(fr) = I14 /\ Operand(fr, 1) = fr.reg[2]
         /\ At(fr, 3, 2) => Instr(fr) = I15 /\ Operand(fr, 1) = fr.reg[14]
<1>1. ASSUME At(fr, 1, 1)
      PROVE  Instr(fr) = I1 /\ Operand(fr, 1) = CountCell
  <2>1. Instr(fr) = I1
    BY <1>1, Instructions DEF At, Instr
  <2>2. Instr(fr).args[1] = Arg(0, "i64*")
    BY <2>1 DEF I1, Ins
  <2> QED
    BY <2>1, <2>2 DEF Operand, ConstInt, Inst, Arg
<1>2. ASSUME At(fr, 1, 2) PROVE Instr(fr) = I2
  BY <1>2, Instructions DEF At, Instr
<1>3. ASSUME At(fr, 1, 3)
      PROVE  Instr(fr) = I3 /\ Operand(fr, 1) = Word(0) /\ Operand(fr, 2) = fr.reg[2]
  <2>1. Instr(fr) = I3
    BY <1>3, Instructions DEF At, Instr
  <2>2. Instr(fr).args[1] = ConstInt("i64", 0) /\ Instr(fr).args[2] = Inst(2, "i64*")
    BY <2>1 DEF I3, Ins
  <2> QED
    BY <2>1, <2>2 DEF Operand, ConstInt, Inst, Arg
<1>4. ASSUME At(fr, 1, 4) PROVE Instr(fr) = I4
  BY <1>4, Instructions DEF At, Instr
<1>5. ASSUME At(fr, 2, 1)
      PROVE  Instr(fr) = I5 /\ Operand(fr, 1) = Word(0) /\ Operand(fr, 2) = fr.reg[11]
  <2>1. Instr(fr) = I5
    BY <1>5, Instructions DEF At, Instr
  <2>2. Instr(fr).args[1] = ConstInt("i64", 0) /\ Instr(fr).args[2] = Inst(11, "i64")
    BY <2>1 DEF I5, Ins
  <2> QED
    BY <2>1, <2>2 DEF Operand, ConstInt, Inst, Arg
<1>6. ASSUME At(fr, 2, 2)
      PROVE  Instr(fr) = I6 /\ Operand(fr, 1) = Element(0) /\ Operand(fr, 2) = fr.reg[5]
  <2>1. Instr(fr) = I6
    BY <1>6, Instructions DEF At, Instr
  <2>2. Instr(fr).args[1] = Arg(1, "i64*") /\ Instr(fr).args[2] = Inst(5, "i64")
    BY <2>1 DEF I6, Ins
  <2> QED
    BY <2>1, <2>2 DEF Operand, ConstInt, Inst, Arg
<1>7. ASSUME At(fr, 2, 3)
      PROVE  Instr(fr) = I7 /\ Operand(fr, 1) = fr.reg[6]
  <2>1. Instr(fr) = I7
    BY <1>7, Instructions DEF At, Instr
  <2>2. Instr(fr).args[1] = Inst(6, "i64*")
    BY <2>1 DEF I7, Ins
  <2> QED
    BY <2>1, <2>2 DEF Operand, ConstInt, Inst, Arg
<1>8. ASSUME At(fr, 2, 4)
      PROVE  Instr(fr) = I8 /\ Operand(fr, 1) = fr.reg[2]
  <2>1. Instr(fr) = I8
    BY <1>8, Instructions DEF At, Instr
  <2>2. Instr(fr).args[1] = Inst(2, "i64*")
    BY <2>1 DEF I8, Ins
  <2> QED
    BY <2>1, <2>2 DEF Operand, ConstInt, Inst, Arg
<1>9. ASSUME At(fr, 2, 5)
      PROVE  Instr(fr) = I9 /\ Operand(fr, 1) = fr.reg[8] /\ Operand(fr, 2) = fr.reg[7]
  <2>1. Instr(fr) = I9
    BY <1>9, Instructions DEF At, Instr
  <2>2. Instr(fr).args[1] = Inst(8, "i64") /\ Instr(fr).args[2] = Inst(7, "i64")
    BY <2>1 DEF I9, Ins
  <2> QED
    BY <2>1, <2>2 DEF Operand, ConstInt, Inst, Arg
<1>10. ASSUME At(fr, 2, 6)
       PROVE  Instr(fr) = I10 /\ Operand(fr, 1) = fr.reg[9] /\ Operand(fr, 2) = fr.reg[2]
  <2>1. Instr(fr) = I10
    BY <1>10, Instructions DEF At, Instr
  <2>2. Instr(fr).args[1] = Inst(9, "i64") /\ Instr(fr).args[2] = Inst(2, "i64*")
    BY <2>1 DEF I10, Ins
  <2> QED
    BY <2>1, <2>2 DEF Operand, ConstInt, Inst, Arg
<1>11. ASSUME At(fr, 2, 7)
       PROVE  Instr(fr) = I11 /\ Operand(fr, 1) = fr.reg[5] /\ Operand(fr, 2) = Word(1)
  <2>1. Instr(fr) = I11
    BY <1>11, Instructions DEF At, Instr
  <2>2. Instr(fr).args[1] = Inst(5, "i64") /\ Instr(fr).args[2] = ConstInt("i64", 1)
    BY <2>1 DEF I11, Ins
  <2> QED
    BY <2>1, <2>2 DEF Operand, ConstInt, Inst, Arg
<1>12. ASSUME At(fr, 2, 8)
       PROVE  Instr(fr) = I12 /\ Operand(fr, 1) = fr.reg[11] /\ Operand(fr, 2) = fr.reg[1]
  <2>1. Instr(fr) = I12
    BY <1>12, Instructions DEF At, Instr
  <2>2. Instr(fr).args[1] = Inst(11, "i64") /\ Instr(fr).args[2] = Inst(1, "i64")
    BY <2>1 DEF I12, Ins
  <2> QED
    BY <2>1, <2>2 DEF Operand, ConstInt, Inst, Arg
<1>13. ASSUME At(fr, 2, 9)
       PROVE  Instr(fr) = I13 /\ Operand(fr, 1) = fr.reg[12]
  <2>1. Instr(fr) = I13
    BY <1>13, Instructions DEF At, Instr
  <2>2. Instr(fr).args[1] = Inst(12, "i1")
    BY <2>1 DEF I13, Ins
  <2> QED
    BY <2>1, <2>2 DEF Operand, ConstInt, Inst, Arg
<1>14. ASSUME At(fr, 3, 1)
       PROVE  Instr(fr) = I14 /\ Operand(fr, 1) = fr.reg[2]
  <2>1. Instr(fr) = I14
    BY <1>14, Instructions DEF At, Instr
  <2>2. Instr(fr).args[1] = Inst(2, "i64*")
    BY <2>1 DEF I14, Ins
  <2> QED
    BY <2>1, <2>2 DEF Operand, ConstInt, Inst, Arg
<1>15. ASSUME At(fr, 3, 2)
       PROVE  Instr(fr) = I15 /\ Operand(fr, 1) = fr.reg[14]
  <2>1. Instr(fr) = I15
    BY <1>15, Instructions DEF At, Instr
  <2>2. Instr(fr).args[1] = Inst(14, "i64")
    BY <2>1 DEF I15, Ins
  <2> QED
    BY <2>1, <2>2 DEF Operand, ConstInt, Inst, Arg
<1> QED
  BY <1>1, <1>2, <1>3, <1>4, <1>5, <1>6, <1>7, <1>8, <1>9, <1>10, <1>11, <1>12,
     <1>13, <1>14, <1>15

\* Where the instructions with a given opcode are.
LEMMA Positions ==
  ASSUME code = Listing, NEW fr, Positioned(fr)
  PROVE  /\ Instr(fr).op = "alloca" => At(fr, 1, 2)
         /\ Instr(fr).op = "load" => At(fr, 1, 1) \/ At(fr, 2, 3) \/ At(fr, 2, 4) \/ At(fr, 3, 1)
         /\ Instr(fr).op = "store" => At(fr, 1, 3) \/ At(fr, 2, 6)
         /\ Instr(fr).op = "gep" => At(fr, 2, 2)
         /\ Instr(fr).op = "add" => At(fr, 2, 5) \/ At(fr, 2, 7)
         /\ Instr(fr).op = "slt" => At(fr, 2, 8)
         /\ Instr(fr).op = "phi" => At(fr, 2, 1)
         /\ Instr(fr).op = "br" => At(fr, 1, 4)
         /\ Instr(fr).op = "condbr" => At(fr, 2, 9)
         /\ Instr(fr).op = "ret" => At(fr, 3, 2)
<1>1. \/ At(fr, 1, 1) \/ At(fr, 1, 2) \/ At(fr, 1, 3) \/ At(fr, 1, 4)
      \/ At(fr, 2, 1) \/ At(fr, 2, 2) \/ At(fr, 2, 3) \/ At(fr, 2, 4) \/ At(fr, 2, 5)
      \/ At(fr, 2, 6) \/ At(fr, 2, 7) \/ At(fr, 2, 8) \/ At(fr, 2, 9)
      \/ At(fr, 3, 1) \/ At(fr, 3, 2)
  BY DEF Positioned, At
<1>2. /\ I1.op = "load" /\ I2.op = "alloca" /\ I3.op = "store" /\ I4.op = "br"
      /\ I5.op = "phi" /\ I6.op = "gep" /\ I7.op = "load" /\ I8.op = "load"
      /\ I9.op = "add" /\ I10.op = "store" /\ I11.op = "add" /\ I12.op = "slt"
      /\ I13.op = "condbr" /\ I14.op = "load" /\ I15.op = "ret"
  BY DEF Ins, I1, I2, I3, I4, I5, I6, I7, I8, I9, I10, I11, I12, I13, I14, I15
<1> QED
  BY <1>1, <1>2, Operands

\* A step of a caller executes the instruction it is at.
LEMMA StepExecutes ==
  ASSUME TInv, NEW c \in Callers, Step(c)
  PROVE  /\ code' = code
         /\ frame[c].status = "running"
         /\ Executed(frame[c], frame'[c])
         /\ frame' = [frame EXCEPT ![c] = frame'[c]]
<1> DEFINE fr == frame[c]
<1>1. code = Listing /\ frame \in [Callers -> Frame] /\ Positioned(fr)
  BY DEF TInv, Typed
<1> USE <1>1
<1>2. CASE Alloca(c)
  <2>1. Instr(fr).op = "alloca" /\ fr.status = "running" /\ Yield(c, StackSlot)
    BY <1>2 DEF Alloca, Executes
  <2>2. At(fr, 1, 2) /\ Instr(fr).id = 2
    BY <2>1, Positions, Operands DEF I2, Ins
  <2> QED
    BY <2>1, <2>2, Yielded DEF Executed
<1>3. CASE Load(c)
  <2>1. PICK w \in Contents(fr, Operand(fr, 1)) : Yield(c, Word(w))
    BY <1>3 DEF Load
  <2>2. Instr(fr).op = "load" /\ fr.status = "running"
    BY <1>3 DEF Load, Executes
  <2>3. /\ code' = code /\ frame' = [frame EXCEPT ![c] = frame'[c]]
        /\ Yields(fr, frame'[c], Instr(fr).id, Word(w))
    BY <2>1, Yielded
  <2>4. CASE At(fr, 1, 1)
    <3>1. Instr(fr).id = 1 /\ w = Len(fr.vec)
      BY <2>1, <2>4, Operands DEF I1, Ins, Contents, CountCell
    <3> QED
      BY <2>2, <2>3, <2>4, <3>1 DEF Executed
  <2>5. CASE At(fr, 2, 3)
    <3>1. Instr(fr).id = 7 /\ w \in Contents(fr, fr.reg[6])
      BY <2>1, <2>5, Operands DEF I7, Ins
    <3> QED
      BY <2>2, <2>3, <2>5, <3>1 DEF Executed
  <2>6. CASE At(fr, 2, 4)
    <3>1. Instr(fr).id = 8 /\ w \in Contents(fr, fr.reg[2])
      BY <2>1, <2>6, Operands DEF I8, Ins
    <3> QED
      BY <2>2, <2>3, <2>6, <3>1 DEF Executed
  <2>7. CASE At(fr, 3, 1)
    <3>1. Instr(fr).id = 14 /\ w \in Contents(fr, fr.reg[2])
      BY <2>1, <2>7, Operands DEF I14, Ins
    <3> QED
      BY <2>2, <2>3, <2>7, <3>1 DEF Executed
  <2> QED
    BY <2>2, <2>4, <2>5, <2>6, <2>7, Positions
<1>4. CASE Store(c)
  <2>1. Instr(fr).op = "store" /\ fr.status = "running" /\ Operand(fr, 2) = StackSlot
    BY <1>4 DEF Store, Executes
  <2>2. At(fr, 1, 3) \/ At(fr, 2, 6)
    BY <2>1, Positions
  <2>3. Stores(fr, frame'[c], Operand(fr, 1).off)
    BY <1>4, Stored
  <2>4. fr.reg[2] = StackSlot
    BY <2>1, <2>2, Operands
  <2>5. At(fr, 1, 3) => Operand(fr, 1).off = 0
    BY Operands DEF Word
  <2>6. At(fr, 2, 6) => Operand(fr, 1).off = fr.reg[9].off
    BY Operands
  <2> QED
    BY <1>4, <2>1, <2>2, <2>3, <2>4, <2>5, <2>6, Stored DEF Executed
<1>5. CASE Gep(c)
  <2>1. /\ Instr(fr).op = "gep" /\ fr.status = "running"
        /\ Yield(c, Element(Operand(fr, 1).off + Operand(fr, 2).off))
    BY <1>5 DEF Gep, Executes
  <2>2. /\ At(fr, 2, 2) /\ Instr(fr).id = 6
        /\ Operand(fr, 1).off = 0 /\ Operand(fr, 2).off = fr.reg[5].off
    BY <2>1, Positions, Operands DEF I6, Ins, Element
  <2>3. fr.reg[5].off \in Int
    BY DEF TInv, Typed, WordRegisters, IsWord, Words
  <2>4. Operand(fr, 1).off + Operand(fr, 2).off = fr.reg[5].off
    BY <2>2, <2>3
  <2> QED
    BY <2>1, <2>2, <2>4, Yielded DEF Executed
<1>6. CASE Add(c)
  <2>1. /\ Instr(fr).op = "add" /\ fr.status = "running"
        /\ Yield(c, Word(WrapAdd(Operand(fr, 1).off, Operand(fr, 2).off)))
    BY <1>6 DEF Add, Executes
  <2>2. /\ code' = code /\ frame' = [frame EXCEPT ![c] = frame'[c]]
        /\ Yields(fr, frame'[c], Instr(fr).id,
                  Word(WrapAdd(Operand(fr, 1).off, Operand(fr, 2).off)))
    BY <2>1, Yielded
  <2>3. CASE At(fr, 2, 5)
    <3>1. /\ Instr(fr).id = 9 /\ Operand(fr, 1) = fr.reg[8] /\ Operand(fr, 2) = fr.reg[7]
      BY <2>3, Operands DEF I9, Ins
    <3> QED
      BY <2>1, <2>2, <2>3, <3>1 DEF Executed
  <2>4. CASE At(fr, 2, 7)
    <3>1. /\ Instr(fr).id = 11 /\ Operand(fr, 1) = fr.reg[5] /\ Operand(fr, 2).off = 1
      BY <2>4, Operands DEF I11, Ins, Word
    <3> QED
      BY <2>1, <2>2, <2>4, <3>1 DEF Executed
  <2> QED
    BY <2>1, <2>3, <2>4, Positions
<1>7. CASE Compare(c)
  <2>1. /\ Instr(fr).op = "slt" /\ fr.status = "running"
        /\ Yield(c, Word(IF Operand(fr, 1).off < Operand(fr, 2).off THEN 1 ELSE 0))
    BY <1>7 DEF Compare, Executes
  <2>2. /\ At(fr, 2, 8) /\ Instr(fr).id = 12
        /\ Operand(fr, 1) = fr.reg[11] /\ Operand(fr, 2) = fr.reg[1]
    BY <2>1, Positions, Operands DEF I12, Ins
  <2> QED
    BY <2>1, <2>2, Yielded DEF Executed
<1>8. CASE Phi(c)
  <2>1. PICK k \in DOMAIN Instr(fr).bbs : Instr(fr).bbs[k] = fr.prev /\ Yield(c, Operand(fr, k))
    BY <1>8 DEF Phi
  <2>2. /\ Instr(fr).op = "phi" /\ fr.status = "running"
    BY <1>8 DEF Phi, Executes
  <2>3. At(fr, 2, 1) /\ Instr(fr).id = 5 /\ Instr(fr).bbs = <<1, 2>>
    BY <2>2, Positions, Operands DEF I5, Ins
  <2>4. \/ k = 1 /\ fr.prev = 1 /\ Operand(fr, k) = Word(0)
        \/ k = 2 /\ fr.prev = 2 /\ Operand(fr, k) = fr.reg[11]
    BY <2>1, <2>3, Operands
  <2>5. /\ code' = code /\ frame' = [frame EXCEPT ![c] = frame'[c]]
        /\ Yields(fr, frame'[c], 5, Operand(fr, k))
    BY <2>1, <2>3, Yielded
  <2> QED
    BY <2>2, <2>3, <2>4, <2>5 DEF Executed
<1>9. CASE Br(c)
  <2>1. Instr(fr).op = "br" /\ fr.status = "running" /\ Jump(c, Instr(fr).bbs[1])
    BY <1>9 DEF Br, Executes
  <2>2. At(fr, 1, 4) /\ Instr(fr).bbs[1] = 2
    BY <2>1, Positions, Operands DEF I4, Ins
  <2> QED
    BY <2>1, <2>2, Jumped DEF Executed
<1>10. CASE CondBr(c)
  <2>1. /\ Instr(fr).op = "condbr" /\ fr.status = "running"
        /\ Jump(c, Instr(fr).bbs[IF Operand(fr, 1) = Word(1) THEN 1 ELSE 2])
    BY <1>10 DEF CondBr, Executes
  <2>2. At(fr, 2, 9) /\ Instr(fr).bbs = <<2, 3>> /\ Operand(fr, 1) = fr.reg[12]
    BY <2>1, Positions, Operands DEF I13, Ins
  <2>3. CASE fr.reg[12] = Word(1)
    <3>1. Jump(c, 2)
      BY <2>1, <2>2, <2>3
    <3> QED
      BY <2>1, <2>2, <2>3, <3>1, Jumped DEF Executed
  <2>4. CASE fr.reg[12] # Word(1)
    <3>1. Jump(c, 3)
      BY <2>1, <2>2, <2>4
    <3> QED
      BY <2>1, <2>2, <2>4, <3>1, Jumped DEF Executed
  <2> QED
    BY <2>3, <2>4
<1>11. CASE Ret(c)
  <2>1. Instr(fr).op = "ret" /\ fr.status = "running"
    BY <1>11 DEF Ret, Executes
  <2>2. At(fr, 3, 2) /\ Operand(fr, 1) = fr.reg[14]
    BY <2>1, Positions, Operands
  <2> QED
    BY <1>11, <2>1, <2>2, Returned DEF Executed
<1> QED
  BY <1>2, <1>3, <1>4, <1>5, <1>6, <1>7, <1>8, <1>9, <1>10, <1>11 DEF Step

-----------------------------------------------------------------------------
\* The listing uses fifteen registers.
LEMMA ListingRegisters == Listing.next = 16
  BY DEF Listing, Fn

\* The sum of two words is a word.
LEMMA WordsClosed ==
  ASSUME NEW x \in Words, NEW y \in Words
  PROVE  WrapAdd(x, y) \in Words
  BY ExecAssumption DEF Words, WrapAdd

\* Zero is a word.
LEMMA WordZero == 0 \in Words
  BY ExecAssumption DEF Words

\* The types of a frame's fields, with what is known of its vector.
LEMMA FrameFacts ==
  ASSUME code = Listing, NEW fr \in Frame
  PROVE  /\ fr.vec \in Seq(Words) /\ Len(fr.vec) \in Words /\ fr.slot \in Words
         /\ fr.reg \in [1 .. 15 -> Runtime] /\ fr.ip \in Nat
         /\ Len(fr.vec) \in Nat /\ DOMAIN fr.vec = 1 .. Len(fr.vec)
         /\ fr.vec # << >> => Len(fr.vec) > 0
<1>1. Registers = 1 .. 15
  BY ListingRegisters DEF Registers
<1>2. fr.vec \in Seq(Words) /\ Len(fr.vec) \in Words
  BY ExecAssumption DEF Frame
<1>3. fr.slot \in Words /\ fr.reg \in [1 .. 15 -> Runtime] /\ fr.ip \in Nat
  BY <1>1 DEF Frame
<1>4. /\ Len(fr.vec) \in Nat /\ DOMAIN fr.vec = 1 .. Len(fr.vec)
      /\ fr.vec # << >> => Len(fr.vec) > 0
  BY <1>2
<1> QED
  BY <1>2, <1>3, <1>4

\* An instruction that sets a register keeps the frame typed, unless it is the
\* last of its block.
LEMMA YieldTyped ==
  ASSUME code = Listing, NEW fr \in Frame, Typed(fr), NEW gr,
         NEW k \in 1 .. 15, NEW v \in Runtime, Yields(fr, gr, k, v),
         k \in WordRegisters => IsWord(v),
         fr.block = 1 => fr.ip < 4, fr.block = 2 => fr.ip < 9, fr.block = 3 => fr.ip < 2
  PROVE  gr \in Frame /\ Typed(gr)
<1>1. Registers = 1 .. 15
  BY ListingRegisters DEF Registers
<1>2. fr.reg \in [1 .. 15 -> Runtime]
  BY <1>1 DEF Frame
<1>3. gr.reg = [fr.reg EXCEPT ![k] = v] /\ gr.reg \in [1 .. 15 -> Runtime]
  BY <1>2 DEF Yields
<1>4. gr \in Frame
  BY <1>1, <1>3 DEF Frame, Yields
<1>5. Positioned(gr)
  BY DEF Typed, Positioned, Yields, Frame
<1>6. ASSUME NEW r \in WordRegisters PROVE IsWord(gr.reg[r])
  <2>1. gr.reg[r] = IF r = k THEN v ELSE fr.reg[r]
    BY <1>2, <1>3 DEF WordRegisters
  <2> QED
    BY <2>1 DEF Typed
<1> QED
  BY <1>4, <1>5, <1>6 DEF Typed

\* A load yields a word, even when it reads outside the vector.
LEMMA ContentsWords ==
  ASSUME code = Listing, NEW fr \in Frame, NEW p, NEW w \in Contents(fr, p)
  PROVE  w \in Words
<1>1. fr.vec \in Seq(Words) /\ Len(fr.vec) \in Words /\ fr.slot \in Words
  BY ExecAssumption DEF Frame
<1> QED
  BY <1>1 DEF Contents

\* Every instruction keeps the frame typed.
LEMMA TypedStep ==
  ASSUME code = Listing, NEW fr \in Frame, Typed(fr), fr.status = "running",
         NEW gr, Executed(fr, gr)
  PROVE  gr \in Frame /\ Typed(gr)
<1> USE ExecAssumption
<1>1. Registers = 1 .. 15
  BY ListingRegisters DEF Registers
<1>2. /\ fr.vec \in Vectors /\ fr.vec \in Seq(Words) /\ Len(fr.vec) \in Words
      /\ fr.slot \in Words /\ fr.reg \in [1 .. 15 -> Runtime] /\ fr.ip \in Nat
      /\ \A r \in WordRegisters : fr.reg[r].off \in Words /\ IsWord(fr.reg[r])
  BY <1>1 DEF Frame, Typed, IsWord
<1>3. \A w \in Words : Word(w) \in Runtime /\ IsWord(Word(w))
  BY DEF Words, Word, Runtime, IsWord
<1>4. \A r \in WordRegisters : fr.reg[r].off \in Words
  BY <1>2
<1>5. CASE At(fr, 1, 1) /\ Yields(fr, gr, 1, Word(Len(fr.vec)))
  <2>1. Word(Len(fr.vec)) \in Runtime /\ IsWord(Word(Len(fr.vec)))
    BY <1>2, <1>3
  <2> QED
    BY <2>1, <1>5, YieldTyped DEF At
<1>6. CASE At(fr, 1, 2) /\ Yields(fr, gr, 2, StackSlot)
  <2>1. StackSlot \in Runtime /\ 2 \notin WordRegisters
    BY DEF StackSlot, Runtime, WordRegisters
  <2> QED
    BY <2>1, <1>6, YieldTyped DEF At
<1>7. CASE At(fr, 1, 3) /\ Stores(fr, gr, 0)
  BY <1>7, WordZero DEF At, Stores, Frame, Typed, Positioned
<1>8. CASE At(fr, 1, 4) /\ Jumps(fr, gr, 2)
  BY <1>8 DEF At, Jumps, Frame, Typed, Positioned
<1>9. CASE At(fr, 2, 1) /\ Yields(fr, gr, 5, Word(0))
  BY <1>3, <1>9, WordZero, YieldTyped DEF At
<1>10. CASE At(fr, 2, 1) /\ Yields(fr, gr, 5, fr.reg[11])
  <2>1. fr.reg[11] \in Runtime /\ IsWord(fr.reg[11])
    BY <1>2 DEF WordRegisters
  <2> QED
    BY <2>1, <1>10, YieldTyped DEF At
<1>11. CASE At(fr, 2, 2) /\ Yields(fr, gr, 6, Element(fr.reg[5].off))
  <2>1. Element(fr.reg[5].off) \in Runtime /\ 6 \notin WordRegisters
    BY <1>2 DEF Element, Runtime, WordRegisters, Words
  <2> QED
    BY <2>1, <1>11, YieldTyped DEF At
<1>12. CASE At(fr, 2, 3) /\ \E w \in Contents(fr, fr.reg[6]) : Yields(fr, gr, 7, Word(w))
  BY <1>3, <1>12, ContentsWords, YieldTyped DEF At
<1>13. CASE At(fr, 2, 4) /\ \E w \in Contents(fr, fr.reg[2]) : Yields(fr, gr, 8, Word(w))
  BY <1>3, <1>13, ContentsWords, YieldTyped DEF At
<1>14. CASE At(fr, 2, 5) /\ Yields(fr, gr, 9, Word(WrapAdd(fr.reg[8].off, fr.reg[7].off)))
  <2>1. WrapAdd(fr.reg[8].off, fr.reg[7].off) \in Words
    BY <1>4, WordsClosed DEF WordRegisters
  <2> QED
    BY <1>3, <2>1, <1>14, YieldTyped DEF At
<1>15. CASE At(fr, 2, 6) /\ Stores(fr, gr, fr.reg[9].off)
  <2>1. fr.reg[9].off \in Words
    BY <1>4 DEF WordRegisters
  <2> QED
    BY <2>1, <1>15 DEF At, Stores, Frame, Typed, Positioned
<1>16. CASE At(fr, 2, 7) /\ Yields(fr, gr, 11, Word(WrapAdd(fr.reg[5].off, 1)))
  <2>1. WrapAdd(fr.reg[5].off, 1) \in Words
    <3>1. fr.reg[5].off \in Words
      BY <1>4 DEF WordRegisters
    <3>2. \A x \in Words : WrapAdd(x, 1) \in Words
      BY DEF WrapAdd, Words
    <3> QED
      BY <3>1, <3>2
  <2> QED
    BY <1>3, <2>1, <1>16, YieldTyped DEF At
<1>17. CASE At(fr, 2, 8) /\ Yields(fr, gr, 12, Word(IF fr.reg[11].off < fr.reg[1].off
                                                   THEN 1 ELSE 0))
  <2> DEFINE n == IF fr.reg[11].off < fr.reg[1].off THEN 1 ELSE 0
  <2>1. Word(n) \in Runtime /\ 12 \notin WordRegisters
    BY DEF Word, Runtime, WordRegisters
  <2> QED
    BY <2>1, <1>17, YieldTyped DEF At
<1>18. CASE At(fr, 2, 9) /\ Jumps(fr, gr, 2)
  BY <1>18 DEF At, Jumps, Frame, Typed, Positioned
<1>19. CASE At(fr, 2, 9) /\ Jumps(fr, gr, 3)
  BY <1>19 DEF At, Jumps, Frame, Typed, Positioned
<1>20. CASE At(fr, 3, 1) /\ \E w \in Contents(fr, fr.reg[2]) : Yields(fr, gr, 14, Word(w))
  BY <1>3, <1>20, ContentsWords, YieldTyped DEF At
<1>21. CASE At(fr, 3, 2) /\ Returns(fr, gr, fr.reg[14].off)
  <2>1. fr.reg[14].off \in Words
    BY <1>4 DEF WordRegisters
  <2>2. NoRegs \in [1 .. 15 -> Runtime] /\ \A r \in WordRegisters : IsWord(NoRegs[r])
    BY <1>1, <1>3, WordZero DEF NoRegs, WordRegisters
  <2> QED
    BY <1>1, <2>1, <2>2, <1>21 DEF At, Returns, Frame, Typed, Positioned, Status
<1> QED
  BY <1>5, <1>6, <1>7, <1>8, <1>9, <1>10, <1>11, <1>12, <1>13, <1>14, <1>15, <1>16,
     <1>17, <1>18, <1>19, <1>20, <1>21 DEF Executed

\* The typed frames are invariant.
LEMMA TypedInit == Init => TInv
<1> SUFFICES ASSUME Init PROVE TInv
  OBVIOUS
<1>1. code = Listing
  BY KernelListed DEF Init
<1>2. Registers = 1 .. 15
  BY <1>1, ListingRegisters DEF Registers
<1>3. Word(0) \in Runtime /\ IsWord(Word(0)) /\ 0 \in Words
  BY WordZero DEF Word, Runtime, IsWord
<1>4. PICK v \in Vectors :
        frame = [c \in Callers |->
                  [status |-> "idle", vec |-> v, block |-> 1, prev |-> 0,
                   ip |-> 1, reg |-> NoRegs, slot |-> 0, result |-> 0]]
  BY DEF Init
<1>5. NoRegs \in [Registers -> Runtime] /\ \A r \in WordRegisters : IsWord(NoRegs[r])
  BY <1>2, <1>3 DEF NoRegs, WordRegisters
<1>6. frame \in [Callers -> Frame]
  BY <1>3, <1>4, <1>5 DEF Frame, Status
<1>7. \A c \in Callers : Typed(frame[c])
  BY <1>4, <1>5 DEF Typed, Positioned
<1> QED
  BY <1>1, <1>6, <1>7 DEF TInv

\* No call and no instruction leaves them.
LEMMA TypedNext == TInv /\ [Next]_vars => TInv'
<1> SUFFICES ASSUME TInv, [Next]_vars PROVE TInv'
  OBVIOUS
<1>1. code = Listing /\ Registers = 1 .. 15
  BY ListingRegisters DEF TInv, Registers
<1>2. ASSUME code' = code PROVE Frame' = Frame
  BY <1>2 DEF Frame, Registers
<1>3. ASSUME NEW c \in Callers, NEW v \in Vectors, Call(c, v) PROVE TInv'
  <2>1. PICK garbage \in Words :
          frame' = [frame EXCEPT ![c] =
                     [status |-> "running", vec |-> v, block |-> 1, prev |-> 0,
                      ip |-> 1, reg |-> NoRegs, slot |-> garbage, result |-> 0]]
    BY <1>3 DEF Call
  <2>2. NoRegs \in [Registers -> Runtime] /\ \A r \in WordRegisters : IsWord(NoRegs[r])
    BY <1>1, WordZero DEF NoRegs, WordRegisters, Word, Runtime, IsWord
  <2> DEFINE fr == [status |-> "running", vec |-> v, block |-> 1, prev |-> 0,
                    ip |-> 1, reg |-> NoRegs, slot |-> garbage, result |-> 0]
  <2>3. fr \in Frame
    BY <2>2, WordZero DEF Frame, Status
  <2>4. Typed(fr)
    BY <2>2 DEF Typed, Positioned
  <2>5. code' = code
    BY <1>3 DEF Call
  <2> HIDE DEF fr
  <2> QED
    BY <1>2, <2>1, <2>3, <2>4, <2>5 DEF TInv, fr
<1>4. ASSUME NEW c \in Callers, Step(c) PROVE TInv'
  <2>1. /\ code' = code /\ frame' = [frame EXCEPT ![c] = frame'[c]]
        /\ frame'[c] \in Frame /\ Typed(frame'[c])
    BY <1>4, StepExecutes, TypedStep DEF TInv
  <2> QED
    BY <1>2, <2>1 DEF TInv
<1>5. CASE UNCHANGED vars
  BY <1>2, <1>5 DEF vars, TInv
<1> QED
  BY <1>3, <1>4, <1>5 DEF Next

\* Type correctness: execution never leaves the listing, the i64 registers and
\* the stack slot hold words whatever is read, and the store goes to the stack
\* slot (jit.go:13-48, 89-127).  No assumption on the vectors.
THEOREM TypeCorrect == Spec => []TypeOK
<1>1. TInv => TypeOK
  BY ListingTyped DEF TInv, TypeOK
<1> QED
  BY <1>1, TypedInit, TypedNext, PTL DEF Spec

-----------------------------------------------------------------------------
(* The sums.                                                               *)

\* No element sums to zero.
LEMMA SumsNothing == ASSUME NEW v PROVE SumsTo(v, 0, 0)
<1> DEFINE s == [k \in 0 .. 0 |-> 0]
<1>1. s \in [0 .. 0 -> Words] /\ s[0] = 0
  BY WordZero
<1>2. IsPartialSums(s, v, 0)
  BY <1>1 DEF IsPartialSums
<1> QED
  BY <1>1, <1>2 DEF SumsTo

\* And to nothing else.
LEMMA SumOfNothing == ASSUME NEW v, NEW r, SumsTo(v, 0, r) PROVE r = 0
  BY DEF SumsTo, IsPartialSums

\* One element more.
LEMMA SumsOneMore ==
  ASSUME NEW v \in Seq(Words), NEW n \in 0 .. Len(v) - 1, NEW r, SumsTo(v, n, r)
  PROVE  SumsTo(v, n + 1, WrapAdd(r, v[n + 1]))
<1>1. PICK s \in [0 .. n -> Words] : IsPartialSums(s, v, n) /\ s[n] = r
  BY DEF SumsTo
<1> DEFINE x == WrapAdd(r, v[n + 1])
           t == [k \in 0 .. n + 1 |-> IF k = n + 1 THEN x ELSE s[k]]
<1>2. x \in Words
  BY <1>1, WordsClosed
<1> HIDE DEF x
<1>3. t \in [0 .. n + 1 -> Words]
  BY <1>1, <1>2
<1>4. t[0] = 0
  BY <1>1 DEF IsPartialSums
<1>5. ASSUME NEW k \in 1 .. n + 1 PROVE t[k] = WrapAdd(t[k - 1], v[k])
  <2>1. CASE k = n + 1
    <3>1. t[k] = x /\ t[k - 1] = s[n]
      BY <2>1
    <3> QED
      BY <1>1, <2>1, <3>1 DEF x
  <2>2. CASE k # n + 1
    <3>1. k \in 1 .. n /\ t[k] = s[k] /\ t[k - 1] = s[k - 1]
      BY <2>2
    <3> QED
      BY <1>1, <3>1 DEF IsPartialSums
  <2> QED
    BY <2>1, <2>2
<1>6. t[n + 1] = x
  OBVIOUS
<1> HIDE DEF t
<1>7. IsPartialSums(t, v, n + 1)
  BY <1>4, <1>5 DEF IsPartialSums
<1> QED
  BY <1>3, <1>6, <1>7 DEF SumsTo, x

\* The counter does not wrap around: a count is a word.
LEMMA CounterSteps ==
  ASSUME NEW n \in Nat, NEW m \in Words, n < m
  PROVE  WrapAdd(n, 1) = n + 1 /\ 1 \in Words
  BY ExecAssumption DEF Words, WrapAdd

\* What the kernel computed stays in its registers.
LEMMA Kept ==
  ASSUME code = Listing, NEW fr \in Frame, fr.status = "running", fr.block = 2,
         NEW gr, NEW k \in 5 .. 12, NEW v, Yields(fr, gr, k, v)
  PROVE  /\ gr.status = "running" /\ gr.block = 2 /\ gr.ip = fr.ip + 1
         /\ gr.prev = fr.prev /\ gr.vec = fr.vec /\ gr.slot = fr.slot
         /\ gr.reg[k] = v
         /\ \A r \in 1 .. 15 : r # k => gr.reg[r] = fr.reg[r]
<1>1. fr.reg \in [1 .. 15 -> Runtime]
  BY FrameFacts
<1>2. gr.reg = [fr.reg EXCEPT ![k] = v]
  BY DEF Yields
<1>3. /\ gr.reg[k] = v
      /\ \A r \in 1 .. 15 : r # k => gr.reg[r] = fr.reg[r]
  BY <1>1, <1>2
<1> QED
  BY <1>3 DEF Yields

\* Within an iteration, the index and the number of elements summed only
\* change with the store.
LEMMA KeptIndex ==
  ASSUME code = Listing, NEW fr \in Frame, fr.status = "running", fr.block = 2,
         fr.ip \in {2, 3, 4, 5, 7, 8},
         NEW gr, NEW k \in 6 .. 12, NEW v, Yields(fr, gr, k, v)
  PROVE  Index(gr) = Index(fr) /\ Summed(gr) = Summed(fr)
<1>1. gr.block = 2 /\ gr.ip = fr.ip + 1 /\ gr.reg[5] = fr.reg[5]
  BY Kept
<1>2. gr.ip > 1 /\ fr.ip > 1 /\ (gr.ip > 6 <=> fr.ip > 6)
  BY <1>1
<1>3. Index(gr) = Index(fr)
  BY <1>1, <1>2 DEF Index
<1>4. ASSUME NEW x, x.block = 2, x.ip > 1, x.ip # 1
      PROVE  Summed(x) = x.reg[5].off + (IF x.ip > 6 THEN 1 ELSE 0)
  BY <1>4 DEF Summed
<1>5. gr.ip # 1 /\ fr.ip # 1
  BY <1>1
<1> QED
  BY <1>1, <1>2, <1>3, <1>4, <1>5

\* In the loop, what matters is InLoop.
LEMMA LoopComputes ==
  ASSUME NEW gr, gr.status = "running", gr.block = 2, InLoop(gr)
  PROVE  Computes(gr)
  BY DEF Computes

\* Every instruction does its part of the sum.  The vector is not empty: the
\* loop tests at its end, and would read the element 0 of an empty one.
LEMMA ComputesStep ==
  ASSUME code = Listing, NEW fr \in Frame, Typed(fr), fr.status = "running",
         fr.vec # << >>, Computes(fr), NEW gr, Executed(fr, gr)
  PROVE  Computes(gr)
<1>1. /\ fr.vec \in Seq(Words) /\ Len(fr.vec) \in Words /\ Len(fr.vec) > 0
      /\ fr.slot \in Words /\ fr.reg \in [1 .. 15 -> Runtime] /\ fr.ip \in Nat
  BY FrameFacts
<1>2. /\ Len(fr.vec) \in Nat /\ Len(fr.vec) > 0 /\ DOMAIN fr.vec = 1 .. Len(fr.vec)
  BY FrameFacts
<1>3. /\ fr.block = 1 => InEntry(fr)
      /\ fr.block = 2 => InLoop(fr)
      /\ fr.block = 3 => InExit(fr)
  BY DEF Computes
<1>4. CASE At(fr, 1, 1) /\ Yields(fr, gr, 1, Word(Len(fr.vec)))
  BY <1>1, <1>3, <1>4 DEF At, Yields, Computes, InEntry
<1>5. CASE At(fr, 1, 2) /\ Yields(fr, gr, 2, StackSlot)
  BY <1>1, <1>3, <1>5 DEF At, Yields, Computes, InEntry
<1>6. CASE At(fr, 1, 3) /\ Stores(fr, gr, 0)
  BY <1>1, <1>3, <1>6 DEF At, Stores, Computes, InEntry
<1>7. CASE At(fr, 1, 4) /\ Jumps(fr, gr, 2)
  <2>1. Index(gr) = 0 /\ Summed(gr) = 0 /\ gr.slot = 0
    BY <1>3, <1>7 DEF At, Jumps, Index, Summed, InEntry
  <2> QED
    BY <1>1, <1>3, <1>7, <2>1, SumsNothing DEF At, Jumps, Computes, InEntry, InLoop
<1>8. ASSUME fr.block = 2
       PROVE  /\ fr.reg[1] = Word(Len(fr.vec)) /\ fr.reg[2] = StackSlot
              /\ Index(fr) \in 0 .. Len(fr.vec) - 1
              /\ SumsTo(fr.vec, Summed(fr), fr.slot)
  BY <1>3, <1>8 DEF InLoop
<1>9. CASE At(fr, 2, 1) /\ fr.prev = 1 /\ Yields(fr, gr, 5, Word(0))
  <2>1. /\ gr.status = "running" /\ gr.block = 2 /\ gr.ip = 2
        /\ gr.vec = fr.vec /\ gr.slot = fr.slot /\ gr.reg[5] = Word(0)
        /\ gr.reg[1] = fr.reg[1] /\ gr.reg[2] = fr.reg[2]
    BY <1>9, Kept DEF At
  <2>2. Index(gr) = 0 /\ Index(fr) = 0 /\ Summed(gr) = 0 /\ Summed(fr) = 0
    BY <2>1, <1>9 DEF At, Index, Summed, Word
  <2> QED
    BY <1>9, <1>8, <2>1, <2>2 DEF At, Computes, InLoop
<1>10. CASE At(fr, 2, 1) /\ fr.prev = 2 /\ Yields(fr, gr, 5, fr.reg[11])
  <2>1. /\ gr.status = "running" /\ gr.block = 2 /\ gr.ip = 2
        /\ gr.vec = fr.vec /\ gr.slot = fr.slot /\ gr.reg[5] = fr.reg[11]
        /\ gr.reg[1] = fr.reg[1] /\ gr.reg[2] = fr.reg[2]
    BY <1>10, Kept DEF At
  <2>2. Index(fr) = fr.reg[11].off /\ Summed(fr) = fr.reg[11].off
    BY <1>10 DEF At, Index, Summed
  <2>3. Index(gr) = Index(fr) /\ Summed(gr) = Index(fr) + 0
    BY <2>1, <2>2 DEF Index, Summed
  <2>4. Index(fr) + 0 = Index(fr)
    BY <1>10, <1>8 DEF At
  <2> QED
    BY <1>10, <1>8, <2>1, <2>2, <2>3, <2>4 DEF At, Computes, InLoop
<1>11. CASE At(fr, 2, 2) /\ Yields(fr, gr, 6, Element(fr.reg[5].off))
  <2>1. fr.block = 2 /\ fr.ip = 2 /\ 6 \in 5 .. 12
    BY <1>11 DEF At
  <2>2. /\ gr.status = "running" /\ gr.block = 2 /\ gr.ip = 3
        /\ gr.vec = fr.vec /\ gr.slot = fr.slot /\ gr.reg[6] = Element(fr.reg[5].off)
        /\ gr.reg[1] = fr.reg[1] /\ gr.reg[2] = fr.reg[2]
    BY <1>11, <2>1, Kept
  <2>3. Index(gr) = Index(fr) /\ Summed(gr) = Summed(fr)
    BY <1>11, <2>1, KeptIndex
  <2>4. Index(fr) = fr.reg[5].off
    BY <1>11 DEF At, Index
  <2>5. InLoop(gr)
    BY <2>1, <1>8, <2>2, <2>4, <2>3 DEF InLoop
  <2> QED
    BY <2>5, <2>2, LoopComputes
<1>12. CASE At(fr, 2, 3) /\ \E w \in Contents(fr, fr.reg[6]) : Yields(fr, gr, 7, Word(w))
  <2>1. fr.block = 2 /\ fr.ip = 3 /\ 7 \in 5 .. 12
    BY <1>12 DEF At
  <2>2. PICK w \in Contents(fr, fr.reg[6]) : Yields(fr, gr, 7, Word(w))
    BY <1>12
  <2>3. fr.reg[6] = Element(Index(fr)) /\ Index(fr) \in 0 .. Len(fr.vec) - 1
    BY <1>3, <1>12 DEF At, InLoop
  <2>4. w = fr.vec[Index(fr) + 1]
    <3>1. Index(fr) + 1 \in DOMAIN fr.vec
      BY <1>2, <2>3
    <3>2. fr.reg[6].space = "data" /\ fr.reg[6].off = Index(fr)
      BY <2>3 DEF Element
    <3> QED
      BY <2>2, <3>1, <3>2 DEF Contents
  <2>5. /\ gr.status = "running" /\ gr.block = 2 /\ gr.ip = 4
        /\ gr.vec = fr.vec /\ gr.slot = fr.slot /\ gr.reg[7] = Word(w)
        /\ gr.reg[1] = fr.reg[1] /\ gr.reg[2] = fr.reg[2] /\ gr.reg[6] = fr.reg[6]
    BY <2>1, <2>2, Kept
  <2>6. Index(gr) = Index(fr) /\ Summed(gr) = Summed(fr)
    BY <2>1, <2>2, KeptIndex
  <2>7. InLoop(gr)
    BY <2>1, <1>8, <2>3, <2>4, <2>5, <2>6 DEF InLoop
  <2> QED
    BY <2>7, <2>5, LoopComputes
<1>13. CASE At(fr, 2, 4) /\ \E w \in Contents(fr, fr.reg[2]) : Yields(fr, gr, 8, Word(w))
  <2>1. fr.block = 2 /\ fr.ip = 4 /\ 8 \in 5 .. 12
    BY <1>13 DEF At
  <2>2. PICK w \in Contents(fr, fr.reg[2]) : Yields(fr, gr, 8, Word(w))
    BY <1>13
  <2>3. w = fr.slot
    BY <1>8, <1>13, <2>2 DEF At, Contents, StackSlot
  <2>4. /\ fr.reg[6] = Element(Index(fr)) /\ fr.reg[7] = Word(fr.vec[Index(fr) + 1])
    BY <1>3, <1>13 DEF At, InLoop
  <2>5. /\ gr.status = "running" /\ gr.block = 2 /\ gr.ip = 5
        /\ gr.vec = fr.vec /\ gr.slot = fr.slot /\ gr.reg[8] = Word(w)
        /\ gr.reg[1] = fr.reg[1] /\ gr.reg[2] = fr.reg[2]
        /\ gr.reg[6] = fr.reg[6] /\ gr.reg[7] = fr.reg[7]
    BY <2>1, <2>2, Kept
  <2>6. Index(gr) = Index(fr) /\ Summed(gr) = Summed(fr)
    BY <2>1, <2>2, KeptIndex
  <2>7. InLoop(gr)
    BY <2>1, <1>8, <2>3, <2>4, <2>5, <2>6 DEF InLoop
  <2> QED
    BY <2>7, <2>5, LoopComputes
<1>14. CASE At(fr, 2, 5) /\ Yields(fr, gr, 9, Word(WrapAdd(fr.reg[8].off, fr.reg[7].off)))
  <2>1. fr.block = 2 /\ fr.ip = 5 /\ 9 \in 5 .. 12
    BY <1>14 DEF At
  <2>2. /\ fr.reg[6] = Element(Index(fr)) /\ fr.reg[7] = Word(fr.vec[Index(fr) + 1])
        /\ fr.reg[8] = Word(fr.slot)
    BY <1>3, <1>14 DEF At, InLoop
  <2>3. fr.reg[8].off = fr.slot /\ fr.reg[7].off = fr.vec[Index(fr) + 1]
    BY <2>2 DEF Word
  <2>4. /\ gr.status = "running" /\ gr.block = 2 /\ gr.ip = 6
        /\ gr.vec = fr.vec /\ gr.slot = fr.slot
        /\ gr.reg[9] = Word(WrapAdd(fr.reg[8].off, fr.reg[7].off))
        /\ gr.reg[1] = fr.reg[1] /\ gr.reg[2] = fr.reg[2]
        /\ gr.reg[6] = fr.reg[6] /\ gr.reg[7] = fr.reg[7] /\ gr.reg[8] = fr.reg[8]
    BY <1>14, <2>1, Kept
  <2>5. Index(gr) = Index(fr) /\ Summed(gr) = Summed(fr)
    BY <1>14, <2>1, KeptIndex
  <2>6. InLoop(gr)
    BY <2>1, <1>8, <2>2, <2>3, <2>4, <2>5 DEF InLoop
  <2> QED
    BY <2>6, <2>4, LoopComputes
<1>15. CASE At(fr, 2, 6) /\ Stores(fr, gr, fr.reg[9].off)
  <2>1. fr.block = 2 /\ fr.ip = 6
    BY <1>15 DEF At
  <2>2. /\ fr.reg[6] = Element(Index(fr)) /\ fr.reg[7] = Word(fr.vec[Index(fr) + 1])
        /\ fr.reg[9] = Word(WrapAdd(fr.slot, fr.vec[Index(fr) + 1]))
    BY <1>3, <1>15 DEF At, InLoop
  <2>3. /\ gr.status = "running" /\ gr.block = 2 /\ gr.ip = 7
        /\ gr.vec = fr.vec /\ gr.reg = fr.reg
        /\ gr.slot = WrapAdd(fr.slot, fr.vec[Index(fr) + 1])
    BY <1>15, <2>2 DEF At, Stores, Word
  <2>4. /\ Index(fr) = fr.reg[5].off /\ Index(gr) = fr.reg[5].off
        /\ Summed(fr) = fr.reg[5].off + 0 /\ Summed(gr) = fr.reg[5].off + 1
    BY <1>15, <2>3 DEF At, Index, Summed
  <2>5. Index(fr) \in 0 .. Len(fr.vec) - 1 /\ Summed(fr) = Index(fr)
    BY <1>15, <1>8, <2>4 DEF At
  <2>6. SumsTo(fr.vec, Index(fr) + 1, gr.slot)
    BY <1>1, <1>15, <1>8, <2>3, <2>5, SumsOneMore DEF At
  <2>7. InLoop(gr)
    BY <2>1, <1>8, <2>2, <2>3, <2>4, <2>5, <2>6 DEF InLoop
  <2> QED
    BY <2>7, <2>3, LoopComputes
<1>16. CASE At(fr, 2, 7) /\ Yields(fr, gr, 11, Word(WrapAdd(fr.reg[5].off, 1)))
  <2>1. fr.block = 2 /\ fr.ip = 7 /\ 11 \in 5 .. 12
    BY <1>16 DEF At
  <2>2. /\ fr.reg[6] = Element(Index(fr)) /\ fr.reg[7] = Word(fr.vec[Index(fr) + 1])
    BY <1>3, <1>16 DEF At, InLoop
  <2>3. Index(fr) = fr.reg[5].off /\ Index(fr) \in Nat /\ Index(fr) < Len(fr.vec)
    <3>1. Index(fr) = fr.reg[5].off /\ Index(fr) \in 0 .. Len(fr.vec) - 1
      BY <2>1, <1>8 DEF Index
    <3> QED
      BY <1>2, <3>1
  <2>4. WrapAdd(Index(fr), 1) = Index(fr) + 1
    BY <1>1, <2>3, CounterSteps
  <2>5. /\ gr.status = "running" /\ gr.block = 2 /\ gr.ip = 8
        /\ gr.vec = fr.vec /\ gr.slot = fr.slot
        /\ gr.reg[11] = Word(WrapAdd(fr.reg[5].off, 1))
        /\ gr.reg[1] = fr.reg[1] /\ gr.reg[2] = fr.reg[2]
        /\ gr.reg[6] = fr.reg[6] /\ gr.reg[7] = fr.reg[7]
    BY <1>16, <2>1, Kept
  <2>6. Index(gr) = Index(fr) /\ Summed(gr) = Summed(fr)
    BY <1>16, <2>1, KeptIndex
  <2>7. InLoop(gr)
    BY <2>1, <1>8, <2>2, <2>3, <2>4, <2>5, <2>6 DEF InLoop
  <2> QED
    BY <2>7, <2>5, LoopComputes
<1>17. CASE At(fr, 2, 8) /\ Yields(fr, gr, 12, Word(IF fr.reg[11].off < fr.reg[1].off
                                                   THEN 1 ELSE 0))
  <2>1. fr.block = 2 /\ fr.ip = 8 /\ 12 \in 5 .. 12
    BY <1>17 DEF At
  <2>2. /\ fr.reg[6] = Element(Index(fr)) /\ fr.reg[7] = Word(fr.vec[Index(fr) + 1])
        /\ fr.reg[11] = Word(Index(fr) + 1)
    BY <1>3, <1>17 DEF At, InLoop
  <2>3. fr.reg[11].off = Index(fr) + 1 /\ fr.reg[1].off = Len(fr.vec)
    BY <2>1, <1>8, <2>2 DEF At, Word
  <2>4. /\ gr.status = "running" /\ gr.block = 2 /\ gr.ip = 9
        /\ gr.vec = fr.vec /\ gr.slot = fr.slot
        /\ gr.reg[12] = Word(IF fr.reg[11].off < fr.reg[1].off THEN 1 ELSE 0)
        /\ gr.reg[1] = fr.reg[1] /\ gr.reg[2] = fr.reg[2]
        /\ gr.reg[6] = fr.reg[6] /\ gr.reg[7] = fr.reg[7] /\ gr.reg[11] = fr.reg[11]
    BY <1>17, <2>1, Kept
  <2>5. Index(gr) = Index(fr) /\ Summed(gr) = Summed(fr)
    BY <1>17, <2>1, KeptIndex
  <2>6. InLoop(gr)
    BY <2>1, <1>8, <2>2, <2>3, <2>4, <2>5 DEF InLoop
  <2> QED
    BY <2>6, <2>4, LoopComputes
<1>18. ASSUME At(fr, 2, 9)
       PROVE  /\ fr.reg[11].off = Index(fr) + 1 /\ Summed(fr) = Index(fr) + 1
              /\ (fr.reg[12] = Word(1)) <=> (Index(fr) + 1 < Len(fr.vec))
  <2>1. /\ fr.reg[11] = Word(Index(fr) + 1)
        /\ fr.reg[12] = Word(IF Index(fr) + 1 < Len(fr.vec) THEN 1 ELSE 0)
    BY <1>3, <1>18 DEF At, InLoop
  <2>2. Index(fr) = fr.reg[5].off /\ Summed(fr) = fr.reg[5].off + 1
    BY <1>18 DEF At, Index, Summed
  <2>3. (fr.reg[12] = Word(1)) <=> (Index(fr) + 1 < Len(fr.vec))
    BY <2>1 DEF Word
  <2> QED
    BY <2>1, <2>2, <2>3 DEF Word
<1>19. CASE At(fr, 2, 9) /\ fr.reg[12] = Word(1) /\ Jumps(fr, gr, 2)
  <2>1. /\ gr.status = "running" /\ gr.block = 2 /\ gr.ip = 1 /\ gr.prev = 2
        /\ gr.vec = fr.vec /\ gr.slot = fr.slot /\ gr.reg = fr.reg
    BY <1>19 DEF At, Jumps
  <2>2. Index(gr) = fr.reg[11].off /\ Summed(gr) = fr.reg[11].off
    BY <2>1 DEF Index, Summed
  <2>3. Index(fr) + 1 \in 0 .. Len(fr.vec) - 1
    <3>1. Index(fr) \in 0 .. Len(fr.vec) - 1 /\ Index(fr) + 1 < Len(fr.vec)
      BY <1>19, <1>8, <1>18 DEF At
    <3> QED
      BY <1>2, <3>1
  <2> QED
    BY <1>19, <1>8, <1>18, <2>1, <2>2, <2>3 DEF At, Computes, InLoop
<1>20. CASE At(fr, 2, 9) /\ fr.reg[12] # Word(1) /\ Jumps(fr, gr, 3)
  <2>1. Summed(fr) = Len(fr.vec)
    <3>1. /\ Index(fr) \in 0 .. Len(fr.vec) - 1 /\ ~(Index(fr) + 1 < Len(fr.vec))
          /\ Summed(fr) = Index(fr) + 1
      BY <1>20, <1>8, <1>18 DEF At
    <3> QED
      BY <1>2, <3>1
  <2>2. /\ gr.status = "running" /\ gr.block = 3 /\ gr.ip = 1
        /\ gr.vec = fr.vec /\ gr.slot = fr.slot /\ gr.reg = fr.reg
    BY <1>20 DEF At, Jumps
  <2> QED
    BY <1>20, <1>8, <2>1, <2>2 DEF At, Computes, InExit
<1>21. CASE At(fr, 3, 1) /\ \E w \in Contents(fr, fr.reg[2]) : Yields(fr, gr, 14, Word(w))
  <2>1. PICK w \in Contents(fr, fr.reg[2]) : Yields(fr, gr, 14, Word(w))
    BY <1>21
  <2>2. w = fr.slot
    BY <1>3, <1>21, <2>1 DEF At, InExit, Contents, StackSlot
  <2> QED
    BY <1>1, <1>3, <1>21, <2>1, <2>2 DEF At, Yields, Computes, InExit
<1>22. CASE At(fr, 3, 2) /\ Returns(fr, gr, fr.reg[14].off)
  <2>1. /\ gr.status = "returned" /\ gr.block = 3 /\ gr.vec = fr.vec
        /\ gr.result = fr.reg[14].off
    BY <1>22 DEF At, Returns
  <2>2. fr.reg[14].off = fr.slot /\ SumsTo(fr.vec, Len(fr.vec), fr.slot)
    BY <1>3, <1>22 DEF At, InExit, Word
  <2> QED
    BY <2>1, <2>2 DEF Computes
<1> QED
  BY <1>4, <1>5, <1>6, <1>7, <1>9, <1>10, <1>11, <1>12, <1>13, <1>14, <1>15, <1>16,
     <1>17, <1>19, <1>20, <1>21, <1>22 DEF Executed

-----------------------------------------------------------------------------
\* IInv is an inductive invariant.
LEMMA InvInit == ASSUME << >> \notin Vectors PROVE Init => IInv
  BY TypedInit DEF Init, IInv, Computes

\* A call starts a frame of its own; a step changes its caller's frame only.
LEMMA InvNext ==
  ASSUME << >> \notin Vectors
  PROVE  IInv /\ [Next]_vars => IInv'
<1> SUFFICES ASSUME IInv, [Next]_vars PROVE IInv'
  OBVIOUS
<1>1. TInv /\ TInv'
  BY TypedNext DEF IInv
<1>2. ASSUME NEW c \in Callers, NEW v \in Vectors, Call(c, v)
      PROVE  \A d \in Callers : Computes(frame'[d])
  <2>1. PICK garbage \in Words :
          frame' = [frame EXCEPT ![c] =
                     [status |-> "running", vec |-> v, block |-> 1, prev |-> 0,
                      ip |-> 1, reg |-> NoRegs, slot |-> garbage, result |-> 0]]
    BY <1>2 DEF Call
  <2> DEFINE fr == [status |-> "running", vec |-> v, block |-> 1, prev |-> 0,
                    ip |-> 1, reg |-> NoRegs, slot |-> garbage, result |-> 0]
  <2>2. Computes(fr)
    BY DEF Computes, InEntry
  <2> HIDE DEF fr
  <2> QED
    BY <1>1, <2>1, <2>2 DEF IInv, TInv, fr
<1>3. ASSUME NEW c \in Callers, Step(c)
      PROVE  \A d \in Callers : Computes(frame'[d])
  <2>1. /\ frame[c].status = "running" /\ Executed(frame[c], frame'[c])
        /\ frame' = [frame EXCEPT ![c] = frame'[c]]
    BY <1>1, <1>3, StepExecutes
  <2>2. /\ code = Listing /\ frame[c] \in Frame /\ Typed(frame[c])
        /\ frame[c].vec # << >> /\ Computes(frame[c])
    BY DEF IInv, TInv, Frame
  <2>3. Computes(frame'[c])
    BY <2>1, <2>2, ComputesStep
  <2> QED
    BY <1>1, <2>1, <2>3 DEF IInv, TInv
<1>4. CASE UNCHANGED vars
  BY <1>1, <1>4 DEF vars, IInv
<1> QED
  BY <1>1, <1>2, <1>3, <1>4 DEF Next, IInv

\* A call returns the sum of its vector, in words that wrap around, whatever
\* the other callers do and whatever was on its stack (jit.go:34-45).
THEOREM KernelSums == ASSUME << >> \notin Vectors PROVE Spec => []ResultIsSum
<1>1. IInv => ResultIsSum
  BY DEF IInv, ResultIsSum, Computes
<1> QED
  BY <1>1, InvInit, InvNext, PTL DEF Spec

\* The kernel reads its vector only inside the bounds it was given
\* (jit.go:111-117).
THEOREM KernelReadsInBounds ==
  ASSUME << >> \notin Vectors PROVE Spec => []ReadsInBounds
<1>1. IInv => ReadsInBounds
  <2> SUFFICES ASSUME IInv, NEW c \in Callers, Executes(c, "load"),
                      Operand(frame[c], 1).space = "data"
               PROVE  Operand(frame[c], 1).off + 1 \in DOMAIN frame[c].vec
    BY DEF ReadsInBounds
  <2> DEFINE fr == frame[c]
  <2>1. /\ code = Listing /\ fr \in Frame /\ Positioned(fr) /\ Computes(fr)
        /\ fr.status = "running" /\ Instr(fr).op = "load"
    BY DEF IInv, TInv, Typed, Executes
  <2>2. /\ fr.block = 2 => InLoop(fr)
        /\ fr.block = 3 => InExit(fr)
    BY <2>1 DEF Computes
  <2>3. CountCell.space # "data" /\ StackSlot.space # "data"
    BY DEF CountCell, StackSlot
  <2>4. At(fr, 2, 3)
    <3>1. ~At(fr, 1, 1)
      BY <2>1, <2>3, Operands
    <3>2. ~At(fr, 2, 4)
      BY <2>1, <2>2, <2>3, Operands DEF At, InLoop
    <3>3. ~At(fr, 3, 1)
      BY <2>1, <2>2, <2>3, Operands DEF At, InExit
    <3> QED
      BY <2>1, <3>1, <3>2, <3>3, Positions
  <2>5. Operand(fr, 1) = Element(Index(fr)) /\ Index(fr) \in 0 .. Len(fr.vec) - 1
    BY <2>1, <2>2, <2>4, Operands DEF At, InLoop
  <2>6. fr.vec \in Seq(Words)
    BY <2>1, ExecAssumption DEF Frame
  <2> QED
    BY <2>5, <2>6 DEF Element
<1> QED
  BY <1>1, InvInit, InvNext, PTL DEF Spec

-----------------------------------------------------------------------------
(* The loop of sum.c.                                                      *)

\* The variables of the loop, read off a frame.
Iterations(fr) == IF fr.status = "idle" THEN 0 ELSE Summed(fr)

SumSoFar(fr) == IF fr.status = "returned" THEN fr.result
                ELSE IF Summed(fr) = 0 THEN 0 ELSE fr.slot

\* An instruction is an iteration of the loop (the store), the return, or
\* nothing the loop shows.
LEMMA StepImplements ==
  ASSUME code = Listing, NEW fr \in Frame, Typed(fr), fr.status = "running",
         fr.vec # << >>, Computes(fr), NEW gr, Executed(fr, gr), Computes(gr)
  PROVE  /\ gr.vec = fr.vec
         /\ \/ gr.status = "running" /\ Iterations(gr) = Iterations(fr)
               /\ SumSoFar(gr) = SumSoFar(fr)
            \/ /\ gr.status = "running" /\ Iterations(fr) < Len(fr.vec)
               /\ Iterations(gr) = Iterations(fr) + 1
               /\ SumSoFar(gr) = WrapAdd(SumSoFar(fr), fr.vec[Iterations(fr) + 1])
            \/ /\ gr.status = "returned" /\ Iterations(fr) >= Len(fr.vec)
               /\ Iterations(gr) = Iterations(fr) /\ SumSoFar(gr) = SumSoFar(fr)
<1>1. /\ fr.vec \in Seq(Words) /\ Len(fr.vec) \in Nat /\ Len(fr.vec) > 0
      /\ fr.reg \in [1 .. 15 -> Runtime] /\ fr.ip \in Nat
  BY FrameFacts
<1>2. Len(fr.vec) \in Nat /\ Len(fr.vec) > 0
  BY FrameFacts
<1>3. /\ fr.block = 2 => InLoop(fr)
      /\ fr.block = 3 => InExit(fr)
  BY DEF Computes
<1>4. gr.vec = fr.vec
  BY DEF Executed, Yields, Stores, Jumps, Returns
<1>5. Iterations(fr) = Summed(fr) /\ SumSoFar(fr) = IF Summed(fr) = 0 THEN 0 ELSE fr.slot
  BY DEF Iterations, SumSoFar
<1>6. ASSUME gr.status = "running", Summed(gr) = Summed(fr), gr.slot = fr.slot
      PROVE  /\ gr.status = "running" /\ Iterations(gr) = Iterations(fr)
             /\ SumSoFar(gr) = SumSoFar(fr)
  BY <1>5, <1>6 DEF Iterations, SumSoFar
<1>7. CASE fr.block = 1
  <2>1. gr.status = "running" /\ Summed(fr) = 0 /\ Summed(gr) = 0
    BY <1>7 DEF Executed, At, Yields, Stores, Jumps, Summed
  <2> QED
    BY <1>4, <1>5, <2>1 DEF Iterations, SumSoFar
<1>8. CASE fr.block = 2 /\ fr.ip = 1
  <2>1. PICK v : /\ Yields(fr, gr, 5, v)
                 /\ v = IF fr.prev = 1 THEN Word(0) ELSE fr.reg[11]
    BY <1>8 DEF Executed, At
  <2>2. /\ gr.status = "running" /\ gr.slot = fr.slot /\ gr.block = 2 /\ gr.ip = 2
        /\ gr.reg[5] = v
    BY <1>8, <2>1, Kept
  <2>3. Summed(fr) = v.off /\ v.off \in Int
    <3>1. v.off = IF fr.prev = 1 THEN 0 ELSE fr.reg[11].off
      BY <2>1 DEF Word
    <3>2. fr.reg[11].off \in Int
      <4>1. fr.reg[11] \in Runtime
        BY <1>1
      <4> QED
        BY <4>1 DEF Runtime
    <3> QED
      BY <1>8, <3>1, <3>2 DEF Summed
  <2>4. Summed(gr) = v.off + 0
    BY <2>2 DEF Summed
  <2> QED
    BY <1>4, <1>6, <2>2, <2>3, <2>4
<1>9. CASE fr.block = 2 /\ fr.ip \in {2, 3, 4, 5, 7, 8}
  <2>1. PICK k, v : k \in 6 .. 12 /\ Yields(fr, gr, k, v)
    BY <1>9 DEF Executed, At
  <2>2. gr.status = "running" /\ gr.slot = fr.slot
    BY <1>9, <2>1, Kept
  <2>3. Summed(gr) = Summed(fr)
    BY <1>9, <2>1, KeptIndex
  <2> QED
    BY <1>4, <1>6, <2>2, <2>3
<1>10. CASE fr.block = 2 /\ fr.ip = 6
  <2>1. Stores(fr, gr, fr.reg[9].off)
    BY <1>10 DEF Executed, At
  <2>2. /\ gr.status = "running" /\ gr.block = 2 /\ gr.ip = 7 /\ gr.reg = fr.reg
        /\ gr.slot = fr.reg[9].off
    BY <1>10, <2>1 DEF Stores
  <2>3. /\ fr.reg[9].off = WrapAdd(fr.slot, fr.vec[Index(fr) + 1])
        /\ Index(fr) \in 0 .. Len(fr.vec) - 1
        /\ SumsTo(fr.vec, Summed(fr), fr.slot)
    BY <1>3, <1>10 DEF InLoop, Word
  <2>4. /\ Index(fr) = fr.reg[5].off
        /\ Summed(fr) = fr.reg[5].off + 0 /\ Summed(gr) = fr.reg[5].off + 1
    BY <1>10, <2>2 DEF Index, Summed
  <2>5. Summed(fr) = Index(fr) /\ Summed(gr) = Index(fr) + 1
    BY <2>3, <2>4
  <2>6. SumSoFar(fr) = fr.slot
    BY <1>5, <2>3, SumOfNothing
  <2>7. SumSoFar(gr) = gr.slot /\ Iterations(gr) = Summed(gr)
    BY <2>2, <2>3, <2>5 DEF SumSoFar, Iterations
  <2> QED
    <3>1. Iterations(fr) = Index(fr) /\ Iterations(gr) = Index(fr) + 1
      BY <1>5, <2>5, <2>7
    <3>2. SumSoFar(gr) = WrapAdd(SumSoFar(fr), fr.vec[Index(fr) + 1])
      BY <2>2, <2>3, <2>6, <2>7
    <3>3. Index(fr) < Len(fr.vec)
      BY <1>2, <2>3
    <3> QED
      BY <1>4, <2>2, <3>1, <3>2, <3>3
<1>11. CASE fr.block = 2 /\ fr.ip = 9
  <2>1. /\ Index(fr) = fr.reg[5].off /\ Summed(fr) = fr.reg[5].off + 1
    BY <1>11 DEF Index, Summed
  <2>2. /\ Index(fr) \in 0 .. Len(fr.vec) - 1
        /\ fr.reg[11].off = Index(fr) + 1
        /\ fr.reg[12] = Word(IF Index(fr) + 1 < Len(fr.vec) THEN 1 ELSE 0)
    BY <1>3, <1>11 DEF InLoop, Word
  <2>3. CASE fr.reg[12] = Word(1) /\ Jumps(fr, gr, 2)
    <3>1. /\ gr.status = "running" /\ gr.slot = fr.slot
          /\ Summed(gr) = fr.reg[11].off
      BY <1>11, <2>3 DEF Jumps, Summed
    <3> QED
      BY <1>4, <1>6, <2>1, <2>2, <3>1
  <2>4. CASE fr.reg[12] # Word(1) /\ Jumps(fr, gr, 3)
    <3>1. /\ gr.status = "running" /\ gr.slot = fr.slot
          /\ Summed(gr) = Len(fr.vec)
      BY <1>11, <2>4 DEF Jumps, Summed
    <3>2. ~(Index(fr) + 1 < Len(fr.vec))
      BY <2>2, <2>4
    <3>3. Len(fr.vec) = Index(fr) + 1
      BY <1>2, <2>2, <3>2
    <3> QED
      BY <1>4, <1>6, <2>1, <3>1, <3>3
  <2> QED
    BY <1>11, <2>3, <2>4 DEF Executed, At
<1>12. CASE fr.block = 3 /\ fr.ip = 1
  <2>1. PICK v : Yields(fr, gr, 14, v)
    BY <1>12 DEF Executed, At
  <2>2. gr.status = "running" /\ gr.slot = fr.slot /\ gr.block = 3
    BY <1>12, <2>1 DEF Yields
  <2>3. Summed(gr) = Len(fr.vec) /\ Summed(fr) = Len(fr.vec)
    BY <1>4, <1>12, <2>2 DEF Summed
  <2> QED
    BY <1>4, <1>6, <2>2, <2>3
<1>13. CASE fr.block = 3 /\ fr.ip = 2
  <2>1. Returns(fr, gr, fr.reg[14].off)
    BY <1>13 DEF Executed, At
  <2>2. fr.reg[14].off = fr.slot
    BY <1>3, <1>13 DEF InExit, Word
  <2>3. gr.status = "returned" /\ gr.result = fr.slot /\ gr.block = 3
    BY <1>13, <2>1, <2>2 DEF Returns
  <2>4. Summed(gr) = Len(fr.vec) /\ Summed(fr) = Len(fr.vec)
    BY <1>4, <1>13, <2>3 DEF Summed
  <2> QED
    BY <1>1, <1>4, <1>5, <2>3, <2>4 DEF Iterations, SumSoFar
<1> QED
  BY <1>7, <1>8, <1>9, <1>10, <1>11, <1>12, <1>13 DEF Typed, Positioned

\* The kernel, which tests at the end of its loop and keeps its index in a
\* phi, implements the loop that tests first (jit.go:111-117, sum.c:6-8).
THEOREM KernelImplementsReference ==
  ASSUME << >> \notin Vectors PROVE Spec => ImplementsReference
<1>1. Init => Reference!Init
  <2> SUFFICES ASSUME Init PROVE Reference!Init
    OBVIOUS
  <2>1. PICK v \in Vectors :
          frame = [c \in Callers |->
                    [status |-> "idle", vec |-> v, block |-> 1, prev |-> 0,
                     ip |-> 1, reg |-> NoRegs, slot |-> 0, result |-> 0]]
    BY DEF Init
  <2> QED
    BY <2>1 DEF Reference!Init, Summed
<1>2. IInv /\ IInv' /\ [Next]_vars => [Reference!Next]_Reference!vars
  <2> SUFFICES ASSUME IInv, IInv', [Next]_vars
               PROVE  [Reference!Next]_Reference!vars
    OBVIOUS
  <2> DEFINE phase == [c \in Callers |-> frame[c].status]
             arg   == [c \in Callers |-> frame[c].vec]
             i     == [c \in Callers |-> Iterations(frame[c])]
             res   == [c \in Callers |-> SumSoFar(frame[c])]
  <2>1. frame \in [Callers -> Frame] /\ code = Listing
    BY DEF IInv, TInv
  <2>2. ASSUME NEW c \in Callers, NEW v \in Vectors, Call(c, v) PROVE Reference!Call(c, v)
    <3>1. PICK garbage \in Words :
            frame' = [frame EXCEPT ![c] =
                       [status |-> "running", vec |-> v, block |-> 1, prev |-> 0,
                        ip |-> 1, reg |-> NoRegs, slot |-> garbage, result |-> 0]]
      BY <2>2 DEF Call
    <3> DEFINE fr == [status |-> "running", vec |-> v, block |-> 1, prev |-> 0,
                      ip |-> 1, reg |-> NoRegs, slot |-> garbage, result |-> 0]
    <3>2. fr.status = "running" /\ fr.vec = v /\ Iterations(fr) = 0 /\ SumSoFar(fr) = 0
      BY DEF Iterations, SumSoFar, Summed
    <3>3. frame' = [frame EXCEPT ![c] = fr] /\ frame[c].status # "running"
      BY <2>2, <3>1 DEF Call
    <3> HIDE DEF fr
    <3>4. /\ phase' = [phase EXCEPT ![c] = "running"]
          /\ arg' = [arg EXCEPT ![c] = v]
          /\ i' = [i EXCEPT ![c] = 0]
          /\ res' = [res EXCEPT ![c] = 0]
      BY <2>1, <3>2, <3>3
    <3> QED
      BY <3>3, <3>4 DEF Reference!Call, Iterations, SumSoFar
  <2>3. ASSUME NEW c \in Callers, Step(c)
        PROVE  Reference!Iterate(c) \/ Reference!Return(c) \/ UNCHANGED Reference!vars
    <3> DEFINE fr == frame[c]
               gr == frame'[c]
    <3>1. /\ fr.status = "running" /\ Executed(fr, gr)
          /\ frame' = [frame EXCEPT ![c] = gr]
      BY <2>3, StepExecutes DEF IInv
    <3>2. /\ fr \in Frame /\ Typed(fr) /\ fr.vec # << >> /\ Computes(fr) /\ Computes(gr)
      BY DEF IInv, TInv, Frame
    <3>3. /\ gr.vec = fr.vec
          /\ \/ gr.status = "running" /\ Iterations(gr) = Iterations(fr)
                /\ SumSoFar(gr) = SumSoFar(fr)
             \/ /\ gr.status = "running" /\ Iterations(fr) < Len(fr.vec)
                /\ Iterations(gr) = Iterations(fr) + 1
                /\ SumSoFar(gr) = WrapAdd(SumSoFar(fr), fr.vec[Iterations(fr) + 1])
             \/ /\ gr.status = "returned" /\ Iterations(fr) >= Len(fr.vec)
                /\ Iterations(gr) = Iterations(fr) /\ SumSoFar(gr) = SumSoFar(fr)
      BY <2>1, <3>1, <3>2, StepImplements
    <3>4. /\ phase' = [phase EXCEPT ![c] = gr.status]
          /\ arg' = [arg EXCEPT ![c] = gr.vec]
          /\ i' = [i EXCEPT ![c] = Iterations(gr)]
          /\ res' = [res EXCEPT ![c] = SumSoFar(gr)]
      BY <2>1, <3>1
    <3>5. CASE gr.status = "running" /\ Iterations(gr) = Iterations(fr)
               /\ SumSoFar(gr) = SumSoFar(fr)
      <4>1. phase' = phase /\ arg' = arg /\ i' = i /\ res' = res
        <5>1. /\ phase[c] = gr.status /\ arg[c] = gr.vec
              /\ i[c] = Iterations(gr) /\ res[c] = SumSoFar(gr)
          BY <3>1, <3>3, <3>5
        <5>2. /\ phase' = [phase EXCEPT ![c] = phase[c]] /\ arg' = [arg EXCEPT ![c] = arg[c]]
              /\ i' = [i EXCEPT ![c] = i[c]] /\ res' = [res EXCEPT ![c] = res[c]]
          BY <3>4, <5>1
        <5> QED
          BY <5>2
      <4> QED
        BY <4>1 DEF Reference!vars, Iterations, SumSoFar
    <3>6. CASE /\ gr.status = "running" /\ Iterations(fr) < Len(fr.vec)
               /\ Iterations(gr) = Iterations(fr) + 1
               /\ SumSoFar(gr) = WrapAdd(SumSoFar(fr), fr.vec[Iterations(fr) + 1])
      <4>1. /\ phase[c] = "running" /\ arg[c] = fr.vec /\ i[c] = Iterations(fr)
            /\ res[c] = SumSoFar(fr)
        BY <3>1
      <4>2. /\ phase' = [phase EXCEPT ![c] = phase[c]] /\ arg' = [arg EXCEPT ![c] = arg[c]]
            /\ i' = [i EXCEPT ![c] = i[c] + 1]
            /\ res' = [res EXCEPT ![c] = WrapAdd(res[c], arg[c][i[c] + 1])]
        BY <3>3, <3>4, <3>6, <4>1
      <4>3. phase' = phase /\ arg' = arg
        BY <4>2
      <4>4. \A x, y : WrapAdd(x, y) = Reference!WrapAdd(x, y)
        BY DEF WrapAdd, Reference!WrapAdd
      <4>5. i[c] < Len(arg[c])
        BY <3>6, <4>1
      <4> HIDE DEF phase, arg, i, res
      <4>6. /\ phase[c] = "running" /\ i[c] < Len(arg[c])
            /\ res' = [res EXCEPT ![c] = Reference!WrapAdd(@, arg[c][i[c] + 1])]
            /\ i' = [i EXCEPT ![c] = @ + 1]
            /\ phase' = phase /\ arg' = arg
        BY <4>1, <4>2, <4>3, <4>4, <4>5
      <4> QED
        BY <4>6 DEF Reference!Iterate, phase, arg, i, res, Iterations, SumSoFar
    <3>7. CASE /\ gr.status = "returned" /\ Iterations(fr) >= Len(fr.vec)
               /\ Iterations(gr) = Iterations(fr) /\ SumSoFar(gr) = SumSoFar(fr)
      <4>1. /\ phase[c] = "running" /\ arg[c] = gr.vec /\ i[c] = Iterations(gr)
            /\ res[c] = SumSoFar(gr) /\ i[c] >= Len(arg[c])
        BY <3>1, <3>3, <3>7
      <4>2. /\ phase' = [phase EXCEPT ![c] = "returned"] /\ arg' = [arg EXCEPT ![c] = arg[c]]
            /\ i' = [i EXCEPT ![c] = i[c]] /\ res' = [res EXCEPT ![c] = res[c]]
        BY <3>4, <3>7, <4>1
      <4>3. arg' = arg /\ i' = i /\ res' = res
        BY <4>2
      <4> QED
        BY <4>1, <4>2, <4>3 DEF Reference!Return, Iterations, SumSoFar
    <3> QED
      BY <3>3, <3>5, <3>6, <3>7
  <2>4. CASE UNCHANGED vars
    BY <2>4 DEF vars, Reference!vars, Summed
  <2> QED
    BY <2>2, <2>3, <2>4 DEF Next, Reference!Next
<1> QED
  BY <1>1, <1>2, InvInit, InvNext, PTL DEF Spec, ImplementsReference, Reference!Spec
=============================================================================
