-------------------------- MODULE TypeString_proofs --------------------------
(***************************************************************************)
(* Proofs about TypeString, for contexts of any size: the printer enters   *)
(* no named struct twice, and what it prints refers only to what it has    *)
(* printed before, although it reuses texts that were cut where a struct   *)
(* was open.                                                               *)
(*                                                                         *)
(* The texts of the activations, outermost first, are what is printed so   *)
(* far.  A remembered text may refer to any struct defined in there: that  *)
(* only grows while the outermost call runs, and ends with it, as does the *)
(* memo.                                                                   *)
(*                                                                         *)
(* Read back, a text describes the type it was printed for.  What is known *)
(* of a text is what it does to a reader, whatever the reader waits for    *)
(* behind it: so the text of a type may stand wherever the type is         *)
(* mentioned.                                                              *)
(***************************************************************************)
EXTENDS TypeString, SequenceTheorems, WellFoundedInduction, TLAPS

\* Texts: sequences of tokens.
Token == [tag : {"def", "open", "ref", "close"}, of : Ids]
Text == Seq(Token)

\* The structs a text defines.
Names(s) == {x \in Ids : \E j \in DOMAIN s : s[j] = [tag |-> "def", of |-> x]}

\* Every reference in text s is to a struct defined before it or in D.
Covered(s, D) ==
  \A i \in DOMAIN s : s[i].tag = "ref" =>
     \/ \E j \in 1..(i - 1) : s[j] = [tag |-> "def", of |-> s[i].of]
     \/ s[i].of \in D

\* The structs defined by the activations below level k of stack st, whose
\* texts come before what is printed at level k.
Outer(st, k) == {x \in Ids : \E j \in DOMAIN st : j < k /\ x \in Names(st[j].text)}

\* The structs defined by what is printed so far.
Printed(st) == Outer(st, Len(st) + 1)

Frame == [of : Ids, next : Nat, text : Text]

\* A frame waits at an element of its type, or, if it is the last one, has
\* printed them all.
Positioned(st) ==
  \A k \in DOMAIN st :
     /\ st[k].next \in 1..(Len(type[st[k].of].sub) + 1)
     /\ k < Len(st) => st[k].next <= Len(type[st[k].of].sub)

Typed == /\ type \in [Ids -> Shapes] /\ root \in Ids /\ panicked \in BOOLEAN
         /\ text \in Text
         /\ stack \in Seq(Frame)
         /\ DOMAIN memo \subseteq Ids
         /\ \A x \in DOMAIN memo : memo[x] \in Text
         /\ Positioned(stack)

\* A named struct that is being printed is remembered.
OpenRemembered ==
  \A k \in DOMAIN stack : type[stack[k].of].named => stack[k].of \in DOMAIN memo

\* A remembered text may be appended to what is printed so far.
MemoCovered == stack # << >> => \A x \in DOMAIN memo : Covered(memo[x], Printed(stack))

StackCovered == \A k \in DOMAIN stack : Covered(stack[k].text, Outer(stack, k))

IInv == /\ Typed /\ NoReentry /\ OpenRemembered
        /\ MemoCovered /\ StackCovered /\ Covered(text, {})

-----------------------------------------------------------------------------
(* Texts.                                                                  *)

\* Tokens are tokens.
LEMMA Tokens ==
  ASSUME NEW t \in Ids
  PROVE  /\ Open(t) \in Token /\ Open(t).tag # "ref"
         /\ Ref(t) \in Token /\ Ref(t).tag = "ref" /\ Ref(t).of = t
         /\ Close(t) \in Token /\ Close(t).tag # "ref"
         /\ type[t].named => Open(t) = [tag |-> "def", of |-> t]
  BY DEF Token, Open, Ref, Close

\* The elements of the concatenation of two sequences.
LEMMA ConcatElements ==
  ASSUME NEW T, NEW s \in Seq(T), NEW t \in Seq(T), NEW u, u = s \o t
  PROVE  /\ u \in Seq(T) /\ Len(s) \in Nat /\ Len(t) \in Nat
         /\ DOMAIN s = 1 .. Len(s) /\ DOMAIN t = 1 .. Len(t)
         /\ DOMAIN u = 1 .. (Len(s) + Len(t))
         /\ \A i \in DOMAIN s : i \in DOMAIN u /\ u[i] = s[i]
         /\ \A i \in DOMAIN t : Len(s) + i \in DOMAIN u /\ u[Len(s) + i] = t[i]
  BY ConcatProperties

\* A text defines what its parts define, and it is covered when its first part
\* is, and its second part is after the first.
LEMMA ConcatText ==
  ASSUME NEW s \in Text, NEW t \in Text, NEW u, u = s \o t
  PROVE  /\ u \in Text /\ Names(u) = Names(s) \cup Names(t)
         /\ \A D, E : Covered(s, D) /\ Covered(t, E) /\ E \subseteq D \cup Names(s)
                        => Covered(u, D)
<1>1. /\ u \in Seq(Token) /\ Len(s) \in Nat /\ Len(t) \in Nat
      /\ DOMAIN s = 1 .. Len(s) /\ DOMAIN t = 1 .. Len(t)
      /\ DOMAIN u = 1 .. (Len(s) + Len(t))
      /\ \A i \in DOMAIN s : i \in DOMAIN u /\ u[i] = s[i]
      /\ \A i \in DOMAIN t : Len(s) + i \in DOMAIN u /\ u[Len(s) + i] = t[i]
  BY ConcatElements DEF Text
<1>2. ASSUME NEW i \in DOMAIN u
      PROVE  i \in DOMAIN s \/ (i - Len(s) \in DOMAIN t /\ i = Len(s) + (i - Len(s)))
  BY <1>1
<1>3. Names(u) = Names(s) \cup Names(t)
  <2>1. ASSUME NEW x \in Names(u) PROVE x \in Names(s) \cup Names(t)
    <3>1. PICK i \in DOMAIN u : x \in Ids /\ u[i] = [tag |-> "def", of |-> x]
      BY DEF Names
    <3>2. CASE i \in DOMAIN s
      BY <1>1, <3>1, <3>2 DEF Names
    <3>3. CASE i - Len(s) \in DOMAIN t /\ i = Len(s) + (i - Len(s))
      <4>1. t[i - Len(s)] = u[i]
        BY <1>1, <3>3
      <4> QED
        BY <3>1, <3>3, <4>1 DEF Names
    <3> QED
      BY <1>2, <3>2, <3>3
  <2>2. ASSUME NEW x \in Names(s) PROVE x \in Names(u)
    BY <1>1 DEF Names
  <2>3. ASSUME NEW x \in Names(t) PROVE x \in Names(u)
    <3>1. PICK i \in DOMAIN t : x \in Ids /\ t[i] = [tag |-> "def", of |-> x]
      BY DEF Names
    <3>2. Len(s) + i \in DOMAIN u /\ u[Len(s) + i] = [tag |-> "def", of |-> x]
      BY <1>1, <3>1
    <3> QED
      BY <3>1, <3>2 DEF Names
  <2> QED
    BY <2>1, <2>2, <2>3
<1>4. ASSUME NEW D, NEW E, Covered(s, D), Covered(t, E), E \subseteq D \cup Names(s)
      PROVE  Covered(u, D)
  <2> SUFFICES ASSUME NEW i \in DOMAIN u, u[i].tag = "ref"
               PROVE  \/ \E j \in 1..(i - 1) : u[j] = [tag |-> "def", of |-> u[i].of]
                      \/ u[i].of \in D
    BY DEF Covered
  <2>1. CASE i \in DOMAIN s
    <3>1. u[i] = s[i]
      BY <1>1, <2>1
    <3>2. CASE s[i].of \in D
      BY <3>1, <3>2
    <3>3. CASE \E j \in 1..(i - 1) : s[j] = [tag |-> "def", of |-> s[i].of]
      <4>1. PICK j \in 1..(i - 1) : s[j] = [tag |-> "def", of |-> s[i].of]
        BY <3>3
      <4>2. j \in DOMAIN s
        BY <1>1, <2>1
      <4>3. u[j] = s[j]
        BY <1>1, <4>2
      <4> QED
        BY <3>1, <4>1, <4>3
    <3> QED
      BY <1>4, <2>1, <3>1, <3>2, <3>3 DEF Covered
  <2>2. CASE i - Len(s) \in DOMAIN t /\ i = Len(s) + (i - Len(s))
    <3> DEFINE k == i - Len(s)
    <3>1. u[i] = t[k] /\ k \in DOMAIN t /\ k \in Nat /\ i = Len(s) + k
      BY <1>1, <2>2
    <3> HIDE DEF k
    <3>2. \/ \E j \in 1..(k - 1) : t[j] = [tag |-> "def", of |-> t[k].of]
          \/ t[k].of \in E
      BY <1>4, <3>1 DEF Covered
    <3>3. CASE \E j \in 1..(k - 1) : t[j] = [tag |-> "def", of |-> t[k].of]
      <4>1. PICK j \in 1..(k - 1) : t[j] = [tag |-> "def", of |-> t[k].of]
        BY <3>3
      <4>2. j \in DOMAIN t /\ Len(s) + j \in 1..(i - 1)
        BY <1>1, <3>1
      <4>3. u[Len(s) + j] = t[j]
        BY <1>1, <4>2
      <4> QED
        BY <3>1, <4>1, <4>2, <4>3
    <3>4. CASE t[k].of \in D
      BY <3>1, <3>4
    <3>5. CASE t[k].of \in Names(s)
      <4>1. PICK j \in DOMAIN s : s[j] = [tag |-> "def", of |-> t[k].of]
        BY <3>5 DEF Names
      <4>2. j \in 1..(i - 1)
        BY <1>1, <3>1
      <4>3. u[j] = s[j]
        BY <1>1
      <4> QED
        BY <3>1, <4>1, <4>2, <4>3
    <3> QED
      BY <1>4, <3>2, <3>3, <3>4, <3>5
  <2> QED
    BY <1>2, <2>1, <2>2
<1> QED
  BY <1>1, <1>3, <1>4 DEF Text

\* A text of one token.
LEMMA OneToken ==
  ASSUME NEW e \in Token, NEW s, s = <<e>>
  PROVE  /\ s \in Text
         /\ \A D : e.tag # "ref" \/ e.of \in D => Covered(s, D)
         /\ \A x \in Ids : e = [tag |-> "def", of |-> x] => x \in Names(s)
<1>1. s \in Text /\ DOMAIN s = {1} /\ s[1] = e
  BY DEF Text
<1>2. \A D : e.tag # "ref" \/ e.of \in D => Covered(s, D)
  BY <1>1 DEF Covered
<1>3. \A x \in Ids : e = [tag |-> "def", of |-> x] => x \in Names(s)
  BY <1>1 DEF Names
<1> QED
  BY <1>1, <1>2, <1>3

\* A closing token at the end.
LEMMA Closed ==
  ASSUME NEW s \in Text, NEW t \in Ids, NEW e, e = Close(t), NEW u, u = Append(s, e)
  PROVE  /\ u \in Text /\ Names(s) \subseteq Names(u)
         /\ \A D : Covered(s, D) => Covered(u, D)
<1> DEFINE c == <<e>>
<1>1. e \in Token /\ e.tag # "ref"
  BY Tokens
<1>2. c \in Text /\ Covered(c, {})
  BY <1>1, OneToken
<1>3. u = s \o c
  <2>1. s \in Seq(Token)
    BY DEF Text
  <2> QED
    BY <1>1, <2>1, AppendIsConcat
<1> HIDE DEF c
<1>4. u \in Text /\ Names(u) = Names(s) \cup Names(c)
  BY <1>2, <1>3, ConcatText
<1>5. ASSUME NEW D, Covered(s, D) PROVE Covered(u, D)
  <2>1. {} \subseteq D \cup Names(s)
    OBVIOUS
  <2> QED
    BY <1>2, <1>3, <1>5, <2>1, ConcatText
<1> QED
  BY <1>4, <1>5

-----------------------------------------------------------------------------
(* Stacks.                                                                 *)

\* The elements of a stack, and their fields.
LEMMA StackElements ==
  ASSUME NEW st \in Seq(Frame)
  PROVE  /\ Len(st) \in Nat /\ DOMAIN st = 1 .. Len(st)
         /\ \A k \in DOMAIN st : /\ st[k] \in Frame /\ st[k].of \in Ids
                                 /\ st[k].next \in Nat /\ st[k].text \in Text
<1>1. Len(st) \in Nat /\ DOMAIN st = 1 .. Len(st) /\ \A k \in DOMAIN st : st[k] \in Frame
  OBVIOUS
<1> QED
  BY <1>1 DEF Frame

\* The first n frames of a stack, and one more.
LEMMA PushElements ==
  ASSUME NEW st \in Seq(Frame), NEW n \in Nat, n <= Len(st), NEW f \in Frame,
         NEW g, g = Append(SubSeq(st, 1, n), f)
  PROVE  /\ g \in Seq(Frame) /\ Len(g) = n + 1 /\ DOMAIN g = 1 .. (n + 1)
         /\ g[n + 1] = f /\ \A k \in 1 .. n : g[k] = st[k]
<1> DEFINE b == SubSeq(st, 1, n)
           F == Frame
<1> HIDE DEF F
<1>1. st \in Seq(F) /\ f \in F
  BY DEF F
<1>2. b \in Seq(F) /\ Len(b) = n /\ DOMAIN b = 1 .. n /\ \A k \in 1 .. n : b[k] = st[k]
  BY <1>1
<1>3. g = Append(b, f)
  OBVIOUS
<1> HIDE DEF b
<1>4. g \in Seq(F) /\ Len(g) = n + 1 /\ DOMAIN g = 1 .. (n + 1)
      /\ g[n + 1] = f /\ \A k \in 1 .. n : g[k] = b[k]
  BY <1>1, <1>2, <1>3
<1> QED
  BY <1>2, <1>4 DEF F

\* What is below a level depends on the frames below it only.
LEMMA OuterSame ==
  ASSUME NEW st \in Seq(Frame), NEW g \in Seq(Frame), NEW m \in Nat,
         m <= Len(st) + 1, m <= Len(g) + 1,
         \A k \in 1 .. (m - 1) : g[k] = st[k]
  PROVE  Outer(g, m) = Outer(st, m)
<1>1. /\ Len(st) \in Nat /\ DOMAIN st = 1 .. Len(st)
      /\ Len(g) \in Nat /\ DOMAIN g = 1 .. Len(g)
  OBVIOUS
<1>2. ASSUME NEW j, j \in DOMAIN st \/ j \in DOMAIN g, j < m
      PROVE  j \in DOMAIN st /\ j \in DOMAIN g /\ g[j] = st[j]
  BY <1>1, <1>2
<1> QED
  BY <1>2 DEF Outer

\* What the last activation defines comes after what is below it.
LEMMA PrintedSplit ==
  ASSUME NEW st \in Seq(Frame), NEW n \in Nat, Len(st) = n + 1
  PROVE  Printed(st) = Outer(st, n + 1) \cup Names(st[n + 1].text)
<1>1. DOMAIN st = 1 .. (n + 1)
  OBVIOUS
<1>2. \A j \in DOMAIN st : j < Len(st) + 1 <=> j < n + 1 \/ j = n + 1
  BY <1>1
<1>3. Names(st[n + 1].text) \subseteq Ids /\ n + 1 \in DOMAIN st
  BY <1>1 DEF Names
<1> QED
  BY <1>2, <1>3 DEF Printed, Outer

\* A push keeps what was printed.
LEMMA Push ==
  ASSUME NEW st \in Seq(Frame), NEW n \in Nat, n <= Len(st),
         NEW g \in Seq(Frame), Len(g) = n + 1, \A k \in 1 .. n : g[k] = st[k]
  PROVE  /\ \A k \in 1 .. (n + 1) : Outer(g, k) = Outer(st, k)
         /\ Printed(g) = Outer(st, n + 1) \cup Names(g[n + 1].text)
<1>1. /\ g \in Seq(Frame) /\ Len(g) = n + 1
      /\ \A k \in 1 .. n : g[k] = st[k]
  OBVIOUS
<1>2. Len(st) \in Nat
  OBVIOUS
<1>3. ASSUME NEW k \in 1 .. (n + 1) PROVE Outer(g, k) = Outer(st, k)
  <2>1. k \in Nat /\ k <= Len(st) + 1 /\ k <= Len(g) + 1 /\ \A j \in 1 .. (k - 1) : g[j] = st[j]
    BY <1>1, <1>2
  <2> QED
    BY <1>1, <2>1, OuterSame
<1>4. Printed(g) = Outer(g, n + 1) \cup Names(g[n + 1].text)
  BY <1>1, PrintedSplit
<1>5. Outer(g, n + 1) = Outer(st, n + 1)
  <2>1. n + 1 \in 1 .. (n + 1)
    OBVIOUS
  <2> QED
    BY <1>3, <2>1
<1> QED
  BY <1>1, <1>3, <1>4, <1>5

-----------------------------------------------------------------------------
(* The steps of the printer.                                               *)

\* What may be remembered of a type x in place of the memo mm, when D is
\* defined by what is printed so far.
Remembers(mm, D) ==
  /\ DOMAIN memo \subseteq DOMAIN mm /\ DOMAIN mm \subseteq Ids
  /\ \A x \in DOMAIN mm : /\ mm[x] \in Text
                          /\ Covered(mm[x], D) \/ (x \in DOMAIN memo /\ mm[x] = memo[x])

\* The stack after a step is its first n frames and frame f.
LEMMA StepPreserves ==
  ASSUME IInv, stack # << >>,
         NEW n \in Nat, n <= Len(stack), NEW f \in Frame,
         stack' = Append(SubSeq(stack, 1, n), f),
         UNCHANGED <<type, text, root>>, panicked' \in BOOLEAN,
         f.next \in 1 .. (Len(type[f.of].sub) + 1),
         \A k \in 1 .. n : stack[k].next <= Len(type[stack[k].of].sub),
         Covered(f.text, Outer(stack, n + 1)),
         Printed(stack) \subseteq Outer(stack, n + 1) \cup Names(f.text),
         Remembers(memo', Outer(stack, n + 1) \cup Names(f.text)),
         type[f.of].named => f.of \in DOMAIN memo' /\ \A k \in 1 .. n : stack[k].of # f.of
  PROVE  IInv'
<1> DEFINE g == stack'
           mm == memo'
           D == Outer(stack, n + 1) \cup Names(f.text)
<1>1. stack \in Seq(Frame) /\ Typed
  BY DEF IInv, Typed
<1>2. /\ g \in Seq(Frame) /\ Len(g) = n + 1 /\ DOMAIN g = 1 .. (n + 1)
      /\ g[n + 1] = f /\ \A k \in 1 .. n : g[k] = stack[k]
  BY <1>1, PushElements
<1>3. /\ \A k \in 1 .. (n + 1) : Outer(g, k) = Outer(stack, k)
      /\ Printed(g) = D
  <2> HIDE DEF g
  <2> QED
    BY <1>1, <1>2, Push
<1>4. Len(stack) \in Nat /\ DOMAIN stack = 1 .. Len(stack) /\ 1 .. n \subseteq DOMAIN stack
  BY <1>1
<1>5. ASSUME NEW k \in DOMAIN g
      PROVE  k = n + 1 \/ (k \in 1 .. n /\ k \in DOMAIN stack /\ g[k] = stack[k])
  BY <1>2, <1>4
<1>6. type' = type /\ text' = text /\ root' = root
  OBVIOUS
<1>7. \A k \in DOMAIN g : /\ g[k].next \in 1 .. (Len(type[g[k].of].sub) + 1)
                          /\ k < Len(g) => g[k].next <= Len(type[g[k].of].sub)
  <2> SUFFICES ASSUME NEW k \in DOMAIN g
               PROVE  /\ g[k].next \in 1 .. (Len(type[g[k].of].sub) + 1)
                      /\ k < Len(g) => g[k].next <= Len(type[g[k].of].sub)
    OBVIOUS
  <2>1. CASE k = n + 1
    BY <1>2, <2>1
  <2>2. CASE k \in 1 .. n /\ k \in DOMAIN stack /\ g[k] = stack[k]
    <3>1. stack[k].next \in 1 .. (Len(type[stack[k].of].sub) + 1)
      BY <1>1, <2>2 DEF Typed, Positioned
    <3>2. stack[k].next <= Len(type[stack[k].of].sub)
      BY <2>2
    <3> QED
      BY <2>2, <3>1, <3>2
  <2> QED
    BY <1>5, <2>1, <2>2
<1>8. DOMAIN memo \subseteq DOMAIN mm /\ DOMAIN mm \subseteq Ids /\ \A x \in DOMAIN mm : mm[x] \in Text
  BY DEF Remembers
<1> HIDE DEF g, mm
<1>9. Typed'
  BY <1>1, <1>2, <1>6, <1>7, <1>8 DEF Typed, Positioned, g, mm
<1>10. NoReentry'
  <2>1. ASSUME NEW j \in DOMAIN g, NEW k \in DOMAIN g, type[g[j].of].named, g[j].of = g[k].of
        PROVE  j = k
    <3>1. CASE j \in 1 .. n /\ k \in 1 .. n
      <4>1. j \in DOMAIN stack /\ k \in DOMAIN stack /\ g[j] = stack[j] /\ g[k] = stack[k]
        BY <1>2, <1>4, <3>1
      <4> QED
        BY <2>1, <4>1 DEF IInv, NoReentry
    <3>2. CASE j = n + 1 /\ k = n + 1
      BY <3>2
    <3>3. CASE j = n + 1 /\ k \in 1 .. n
      BY <1>2, <2>1, <3>3
    <3>4. CASE j \in 1 .. n /\ k = n + 1
      BY <1>2, <2>1, <3>4
    <3> QED
      BY <1>5, <3>1, <3>2, <3>3, <3>4
  <2> QED
    BY <1>6, <2>1 DEF NoReentry, g
<1>11. OpenRemembered'
  <2>1. ASSUME NEW k \in DOMAIN g, type[g[k].of].named PROVE g[k].of \in DOMAIN mm
    <3>1. CASE k = n + 1
      BY <1>2, <2>1, <3>1 DEF mm
    <3>2. CASE k \in DOMAIN stack /\ g[k] = stack[k]
      BY <1>8, <2>1, <3>2 DEF IInv, OpenRemembered
    <3> QED
      BY <1>5, <3>1, <3>2
  <2> QED
    BY <1>6, <2>1 DEF OpenRemembered, g, mm
<1>12. MemoCovered'
  <2>1. ASSUME NEW x \in DOMAIN mm PROVE Covered(mm[x], Printed(g))
    <3>1. Covered(mm[x], D) \/ (x \in DOMAIN memo /\ mm[x] = memo[x])
      BY DEF Remembers, mm
    <3>2. CASE Covered(mm[x], D)
      BY <1>3, <3>2
    <3>3. CASE x \in DOMAIN memo /\ mm[x] = memo[x]
      <4>1. Covered(mm[x], Printed(stack)) /\ Printed(stack) \subseteq Printed(g)
        BY <1>3, <3>3 DEF IInv, MemoCovered
      <4> QED
        BY <4>1 DEF Covered
    <3> QED
      BY <3>1, <3>2, <3>3
  <2> QED
    BY <2>1 DEF MemoCovered, g, mm
<1>13. StackCovered'
  <2>1. ASSUME NEW k \in DOMAIN g PROVE Covered(g[k].text, Outer(g, k))
    <3>1. Outer(g, k) = Outer(stack, k)
      BY <1>2, <1>3
    <3>2. CASE k = n + 1
      BY <1>2, <3>1, <3>2
    <3>3. CASE k \in DOMAIN stack /\ g[k] = stack[k]
      BY <3>1, <3>3 DEF IInv, StackCovered
    <3> QED
      BY <1>5, <3>2, <3>3
  <2> QED
    BY <2>1 DEF StackCovered, g
<1>14. Covered(text', {})
  BY <1>6 DEF IInv
<1> QED
  BY <1>9, <1>10, <1>11, <1>12, <1>13, <1>14 DEF IInv, Covered

\* The activation that is printing.
LEMMA TopFacts ==
  ASSUME IInv, stack # << >>
  PROVE  /\ Len(stack) \in Nat \ {0} /\ Len(stack) \in DOMAIN stack
         /\ Top \in Frame /\ Top.of \in Ids /\ Top.next \in Nat /\ Top.text \in Text
         /\ Top.next \in 1 .. (Len(type[Top.of].sub) + 1)
         /\ Covered(Top.text, Outer(stack, Len(stack)))
         /\ Printed(stack) = Outer(stack, Len(stack)) \cup Names(Top.text)
         /\ \A k \in 1 .. (Len(stack) - 1) :
               /\ stack[k].next <= Len(type[stack[k].of].sub)
               /\ type[Top.of].named => stack[k].of # Top.of
         /\ type[Top.of].named => Top.of \in DOMAIN memo
<1>1. stack \in Seq(Frame) /\ Positioned(stack)
  BY DEF IInv, Typed
<1>2. Len(stack) \in Nat \ {0} /\ DOMAIN stack = 1 .. Len(stack)
  BY <1>1
<1>3. Len(stack) \in DOMAIN stack
  BY <1>2
<1>4. Top \in Frame /\ Top.of \in Ids /\ Top.next \in Nat /\ Top.text \in Text
  BY <1>1, <1>3, StackElements DEF Top
<1>5. Top.next \in 1 .. (Len(type[Top.of].sub) + 1)
  BY <1>1, <1>3 DEF Positioned, Top
<1>6. Covered(Top.text, Outer(stack, Len(stack)))
  BY <1>3 DEF IInv, StackCovered, Top
<1>7. Printed(stack) = Outer(stack, Len(stack)) \cup Names(Top.text)
  <2> DEFINE n == Len(stack) - 1
  <2>1. n \in Nat /\ Len(stack) = n + 1
    BY <1>2
  <2> HIDE DEF n
  <2>2. Printed(stack) = Outer(stack, n + 1) \cup Names(stack[n + 1].text)
    BY <1>1, <2>1, PrintedSplit
  <2> QED
    BY <2>1, <2>2 DEF Top
<1>8. ASSUME NEW k \in 1 .. (Len(stack) - 1)
      PROVE  /\ stack[k].next <= Len(type[stack[k].of].sub)
             /\ type[Top.of].named => stack[k].of # Top.of
  <2>1. k \in DOMAIN stack /\ k < Len(stack) /\ k # Len(stack)
    <3> DEFINE L == Len(stack)
    <3>1. L \in Nat /\ DOMAIN stack = 1 .. L /\ k \in 1 .. (L - 1)
      BY <1>2
    <3> HIDE DEF L
    <3>2. k \in DOMAIN stack /\ k < L /\ k # L
      BY <3>1
    <3> QED
      BY <3>2 DEF L
  <2>2. stack[k].next <= Len(type[stack[k].of].sub)
    BY <1>1, <2>1 DEF Positioned
  <2>3. type[Top.of].named => stack[k].of # Top.of
    BY <1>3, <2>1 DEF IInv, NoReentry, Top
  <2> QED
    BY <2>2, <2>3
<1>9. type[Top.of].named => Top.of \in DOMAIN memo
  BY <1>3 DEF IInv, OpenRemembered, Top
<1> QED
  BY <1>2, <1>3, <1>4, <1>5, <1>6, <1>7, <1>8, <1>9

\* The type that is mentioned next.
LEMMA CurrentFacts ==
  ASSUME IInv, Pending
  PROVE  Current \in Ids /\ Top.next \in Nat /\ Top.next <= Len(type[Top.of].sub)
<1>1. stack # << >> /\ Top.next <= Len(type[Top.of].sub)
  BY DEF Pending
<1>2. Top.of \in Ids /\ Top.next \in 1 .. (Len(type[Top.of].sub) + 1)
  BY <1>1, TopFacts
<1>3. type[Top.of] \in Shapes
  BY <1>2 DEF IInv, Typed
<1>4. type[Top.of].sub \in Seq(Ids)
  BY <1>3, ShapesAssumption
<1>5. Top.next \in DOMAIN type[Top.of].sub
  BY <1>1, <1>2, <1>4
<1> QED
  BY <1>1, <1>2, <1>4, <1>5 DEF Current

\* A frame that goes on to the next element of its type.
LEMMA Advance ==
  ASSUME NEW f \in Frame, NEW s
  PROVE  [f EXCEPT !.next = @ + 1, !.text = @ \o s]
           = [of |-> f.of, next |-> f.next + 1, text |-> f.text \o s]
<1> DEFINE a == f.next + 1
           b == f.text \o s
           g == [f EXCEPT !.next = a, !.text = b]
<1> HIDE DEF a, b
<1>1. g \in [of : Ids, next : {a}, text : {b}] /\ g.of = f.of
  BY DEF Frame
<1> HIDE DEF g
<1>2. g = [of |-> g.of, next |-> g.next, text |-> g.text] /\ g.next = a /\ g.text = b
  BY <1>1
<1>3. g = [of |-> f.of, next |-> a, text |-> b]
  BY <1>1, <1>2
<1> QED
  BY <1>3 DEF a, b, g

\* A remembered text is used again.
LEMMA RecallPreserves ==
  ASSUME IInv, Recall
  PROVE  IInv'
<1> DEFINE m == Len(stack) - 1
           t == Current
           u == Top.text \o memo[t]
           f == [of |-> Top.of, next |-> Top.next + 1, text |-> u]
<1>1. stack # << >> /\ Pending /\ t \in DOMAIN memo
  BY DEF Recall, Pending
<1>2. m \in Nat /\ m <= Len(stack) /\ Len(stack) = m + 1
  BY <1>1, TopFacts
<1>3. /\ Top.of \in Ids /\ Top.next \in Nat /\ Top.text \in Text
      /\ Top.next <= Len(type[Top.of].sub) /\ Top \in Frame
  BY <1>1, TopFacts, CurrentFacts
<1>4. /\ memo[t] \in Text /\ Covered(memo[t], Printed(stack))
      /\ Covered(Top.text, Outer(stack, Len(stack)))
      /\ Printed(stack) = Outer(stack, Len(stack)) \cup Names(Top.text)
  BY <1>1, TopFacts DEF IInv, Typed, MemoCovered
<1> HIDE DEF t
<1>5. /\ u \in Text /\ Names(u) = Names(Top.text) \cup Names(memo[t])
      /\ Covered(u, Outer(stack, Len(stack)))
  <2> DEFINE a == Top.text
             b == memo[t]
             A == Outer(stack, Len(stack))
             B == Printed(stack)
  <2>1. a \in Text /\ b \in Text /\ u = a \o b
    BY <1>3, <1>4
  <2>2. Covered(a, A) /\ Covered(b, B) /\ B \subseteq A \cup Names(a)
    BY <1>4
  <2> HIDE DEF u, a, b, A, B
  <2>3. u \in Text /\ Names(u) = Names(a) \cup Names(b)
    BY <2>1, ConcatText
  <2>4. Covered(u, A)
    BY <2>1, <2>2, ConcatText
  <2> QED
    BY <2>3, <2>4 DEF a, b, A
<1>6. f = [Top EXCEPT !.next = @ + 1, !.text = @ \o memo[t]]
  BY <1>3, Advance
<1>7. stack' = Append(SubSeq(stack, 1, m), f)
  BY <1>6 DEF Recall, Below, t
<1> HIDE DEF u
<1>8. f \in Frame /\ f.of = Top.of /\ f.next = Top.next + 1 /\ f.text = u
  BY <1>3, <1>5 DEF Frame
<1> HIDE DEF f, m
<1>9. UNCHANGED <<type, memo, text, root, panicked>> /\ panicked \in BOOLEAN /\ DOMAIN memo \subseteq Ids
  BY DEF Recall, IInv, Typed
<1>10. Len(type[f.of].sub) \in Nat
  <2>1. type[Top.of] \in Shapes
    BY <1>3 DEF IInv, Typed
  <2>2. type[Top.of].sub \in Seq(Ids)
    BY <2>1, ShapesAssumption
  <2> QED
    BY <1>8, <2>2
<1>11. f.next \in 1 .. (Len(type[f.of].sub) + 1)
  BY <1>3, <1>8, <1>10
<1>12. \A k \in 1 .. m : /\ stack[k].next <= Len(type[stack[k].of].sub)
                         /\ type[f.of].named => stack[k].of # f.of
  <2>1. Len(stack) - 1 = m
    BY <1>2
  <2> QED
    BY <1>1, <1>8, <2>1, TopFacts
<1>13. type[f.of].named => f.of \in DOMAIN memo
  BY <1>1, <1>8, TopFacts
<1> DEFINE D == Outer(stack, m + 1) \cup Names(f.text)
<1>14. Printed(stack) \subseteq D /\ Covered(f.text, Outer(stack, m + 1))
  BY <1>2, <1>4, <1>5, <1>8
<1>15. Remembers(memo', D)
  BY <1>9 DEF Remembers, IInv, Typed
<1> QED
  BY <1>1, <1>2, <1>7, <1>8, <1>9, <1>11, <1>12, <1>13, <1>14, <1>15, StepPreserves

\* The name of a struct is remembered when it has been printed.
LEMMA NameRemembered ==
  ASSUME IInv, NEW t \in Ids, RememberName(t), NEW D, type[t].named => t \in D
  PROVE  /\ Remembers(memo', D)
         /\ type[t].named => t \in DOMAIN memo'
<1>1. DOMAIN memo \subseteq Ids /\ \A x \in DOMAIN memo : memo[x] \in Text
  BY DEF IInv, Typed
<1>2. CASE type[t].named
  <2> DEFINE r == <<Ref(t)>>
  <2>1. memo' = [x \in DOMAIN memo \cup {t} |-> IF x = t THEN r ELSE memo[x]]
    BY <1>2 DEF RememberName, Remember
  <2>2. r \in Text /\ Covered(r, D)
    BY <1>2, Tokens, OneToken
  <2> HIDE DEF r
  <2> QED
    BY <1>1, <2>1, <2>2 DEF Remembers
<1>3. CASE ~ type[t].named
  BY <1>1, <1>3 DEF RememberName, Remembers
<1> QED
  BY <1>2, <1>3

\* What an activation has printed when it begins.
LEMMA ActivationFacts ==
  ASSUME IInv, NEW t \in Ids
  PROVE  /\ Activation(t) \in Frame /\ Activation(t).of = t
         /\ Activation(t).next \in 1 .. (Len(type[t].sub) + 1)
         /\ Covered(Activation(t).text, {})
         /\ type[t].named => t \in Names(Activation(t).text)
<1> DEFINE o == <<Open(t)>>
<1>1. Activation(t) = [of |-> t, next |-> 1, text |-> o]
  BY DEF Activation
<1>2. o \in Text /\ Covered(o, {}) /\ (type[t].named => t \in Names(o))
  BY Tokens, OneToken
<1> HIDE DEF o
<1>3. type[t].sub \in Seq(Ids)
  <2>1. type[t] \in Shapes
    BY DEF IInv, Typed
  <2> QED
    BY <2>1, ShapesAssumption
<1>4. 1 \in 1 .. (Len(type[t].sub) + 1)
  BY <1>3
<1> QED
  BY <1>1, <1>2, <1>4 DEF Frame

\* typeString calls itself.
LEMMA DescendPreserves ==
  ASSUME IInv, Descend
  PROVE  IInv'
<1> DEFINE m == Len(stack)
           t == Current
           f == Activation(t)
           D == Outer(stack, m + 1) \cup Names(f.text)
<1>1. /\ stack # << >> /\ Pending /\ t \notin DOMAIN memo /\ t \in Ids
      /\ Top.next <= Len(type[Top.of].sub)
  BY CurrentFacts DEF Descend, Pending
<1>2. m \in Nat /\ m <= Len(stack) /\ DOMAIN stack = 1 .. m
  BY DEF IInv, Typed
<1>3. /\ f \in Frame /\ f.of = t /\ f.next \in 1 .. (Len(type[t].sub) + 1)
      /\ Covered(f.text, {}) /\ (type[t].named => t \in Names(f.text))
  BY <1>1, ActivationFacts
<1>4. /\ stack' = Append(stack, f) /\ UNCHANGED <<type, text, root>> /\ RememberName(t)
      /\ panicked' \in BOOLEAN
  BY DEF Descend, NameKind
<1>5. stack' = Append(SubSeq(stack, 1, m), f)
  <2>1. stack \in Seq(Frame)
    BY DEF IInv, Typed
  <2>2. SubSeq(stack, 1, Len(stack)) = stack
    BY <2>1
  <2> QED
    BY <1>4, <2>2
<1> HIDE DEF f, t
<1>6. \A k \in 1 .. m : stack[k].next <= Len(type[stack[k].of].sub)
  <2> SUFFICES ASSUME NEW k \in 1 .. m PROVE stack[k].next <= Len(type[stack[k].of].sub)
    OBVIOUS
  <2>1. CASE k = m
    BY <1>1, <2>1 DEF Top
  <2>2. CASE k # m
    <3>1. k \in 1 .. (Len(stack) - 1)
      <4>1. k \in 1 .. (m - 1)
        <5> HIDE DEF m
        <5> QED
          BY <1>2, <2>2
      <4> QED
        BY <4>1
    <3> QED
      BY <1>1, <3>1, TopFacts
  <2> QED
    BY <2>1, <2>2
<1>7. Remembers(memo', D) /\ (type[t].named => t \in DOMAIN memo')
  BY <1>1, <1>3, <1>4, NameRemembered
<1>8. type[t].named => \A k \in 1 .. m : stack[k].of # t
  BY <1>1, <1>2 DEF IInv, OpenRemembered
<1>9. Covered(f.text, Outer(stack, m + 1)) /\ Printed(stack) \subseteq D
  BY <1>3 DEF Covered, Printed
<1> HIDE DEF m
<1> QED
  BY <1>1, <1>2, <1>3, <1>4, <1>5, <1>6, <1>7, <1>8, <1>9, StepPreserves

\* What a level defines comes after what is below it.
LEMMA OuterNext ==
  ASSUME NEW st \in Seq(Frame), NEW n \in Nat, n + 1 <= Len(st)
  PROVE  Outer(st, n + 2) = Outer(st, n + 1) \cup Names(st[n + 1].text)
<1>1. DOMAIN st = 1 .. Len(st) /\ Len(st) \in Nat
  OBVIOUS
<1>2. \A j \in DOMAIN st : (j < n + 2) <=> (j < n + 1 \/ j = n + 1)
  BY <1>1
<1>3. Names(st[n + 1].text) \subseteq Ids /\ n + 1 \in DOMAIN st
  BY <1>1 DEF Names
<1> QED
  BY <1>2, <1>3 DEF Outer

\* An activation returns to the one that called it.
LEMMA ReturnPreserves ==
  ASSUME IInv, Finish, Len(stack) # 1
  PROVE  IInv'
<1> DEFINE m == Len(stack) - 2
           up == stack[m + 1]
           txt == Append(Top.text, Close(Top.of))
           u == up.text \o txt
           f == [of |-> up.of, next |-> up.next + 1, text |-> u]
           D == Outer(stack, m + 1) \cup Names(f.text)
<1>1. stack # << >> /\ stack \in Seq(Frame) /\ panicked \in BOOLEAN
  BY DEF Finish, IInv, Typed
<1>2. m \in Nat /\ m <= Len(stack) /\ Len(stack) = m + 2 /\ Len(stack) - 1 = m + 1 /\ DOMAIN stack = 1 .. (m + 2)
  <2>1. Len(stack) \in Nat \ {0} /\ DOMAIN stack = 1 .. Len(stack)
    BY <1>1
  <2> QED
    BY <2>1
<1>3. /\ stack' = Append(SubSeq(stack, 1, m), [up EXCEPT !.next = @ + 1, !.text = @ \o txt])
      /\ Remember(Top.of, txt) /\ UNCHANGED <<type, text, root, panicked>>
  BY <1>2 DEF Finish
<1> HIDE DEF m
<1>4. m + 1 \in DOMAIN stack /\ m + 1 \in 1 .. (Len(stack) - 1)
  BY <1>2
<1>5. up \in Frame /\ up.of \in Ids /\ up.next \in Nat /\ up.text \in Text
  BY <1>1, <1>4, StackElements
<1>6. /\ up.next <= Len(type[up.of].sub) /\ up.next \in 1 .. (Len(type[up.of].sub) + 1)
  BY <1>1, <1>4, TopFacts DEF IInv, Typed, Positioned
<1>7. Len(type[up.of].sub) \in Nat
  <2>1. type[up.of] \in Shapes
    BY <1>5 DEF IInv, Typed
  <2>2. type[up.of].sub \in Seq(Ids)
    BY <2>1, ShapesAssumption
  <2> QED
    BY <2>2
<1>8. Covered(up.text, Outer(stack, m + 1))
  BY <1>4 DEF IInv, StackCovered
<1>9. /\ txt \in Text /\ Names(Top.text) \subseteq Names(txt)
      /\ Covered(txt, Outer(stack, Len(stack)))
      /\ Printed(stack) = Outer(stack, Len(stack)) \cup Names(Top.text)
      /\ Top.of \in Ids
  <2>1. /\ Top.of \in Ids /\ Top.text \in Text /\ Covered(Top.text, Outer(stack, Len(stack)))
        /\ Printed(stack) = Outer(stack, Len(stack)) \cup Names(Top.text)
    BY <1>1, TopFacts
  <2> DEFINE a == Top.text
             e == Close(Top.of)
  <2>2. a \in Text /\ e = Close(Top.of) /\ txt = Append(a, e)
    BY <2>1
  <2> HIDE DEF a, e, txt
  <2>3. txt \in Text /\ Names(a) \subseteq Names(txt) /\ \A ds : Covered(a, ds) => Covered(txt, ds)
    BY <2>1, <2>2, Closed
  <2> QED
    BY <2>1, <2>3 DEF a
<1>10. Outer(stack, Len(stack)) = Outer(stack, m + 1) \cup Names(up.text)
  <2>1. Outer(stack, m + 2) = Outer(stack, m + 1) \cup Names(up.text)
    BY <1>1, <1>2, OuterNext
  <2> QED
    BY <1>2, <2>1
<1>11. stack' = Append(SubSeq(stack, 1, m), f)
  <2>1. [up EXCEPT !.next = @ + 1, !.text = @ \o txt] = f
    BY <1>5, Advance
  <2> QED
    BY <1>3, <2>1
<1> HIDE DEF up, txt
<1>12. u \in Text /\ Names(u) = Names(up.text) \cup Names(txt) /\ Covered(u, Outer(stack, m + 1))
  <2> DEFINE a == up.text
             A == Outer(stack, m + 1)
             B == Outer(stack, Len(stack))
  <2>1. a \in Text /\ u = a \o txt /\ Covered(a, A) /\ Covered(txt, B) /\ B \subseteq A \cup Names(a)
    BY <1>5, <1>8, <1>9, <1>10
  <2> HIDE DEF u, a, A, B
  <2>2. u \in Text /\ Names(u) = Names(a) \cup Names(txt)
    BY <1>9, <2>1, ConcatText
  <2>3. Covered(u, A)
    BY <1>9, <2>1, ConcatText
  <2> QED
    BY <2>2, <2>3 DEF a, A
<1> HIDE DEF u
<1>13. f \in Frame /\ f.of = up.of /\ f.next = up.next + 1 /\ f.text = u
  BY <1>5, <1>12 DEF Frame
<1> HIDE DEF f
<1>14. f.next \in 1 .. (Len(type[f.of].sub) + 1)
  BY <1>5, <1>6, <1>7, <1>13
<1>15. \A k \in 1 .. m : stack[k].next <= Len(type[stack[k].of].sub)
  <2>1. \A k \in 1 .. m : k \in 1 .. (Len(stack) - 1)
    BY <1>2
  <2> QED
    BY <1>1, <2>1, TopFacts
<1>16. Covered(f.text, Outer(stack, m + 1)) /\ Printed(stack) \subseteq D
  BY <1>9, <1>10, <1>12, <1>13
<1>17. Remembers(memo', D) /\ DOMAIN memo \subseteq DOMAIN memo'
  <2>1. memo' = [x \in DOMAIN memo \cup {Top.of} |-> IF x = Top.of THEN txt ELSE memo[x]]
    BY <1>3 DEF Remember
  <2>2. Covered(txt, D)
    BY <1>9, <1>10, <1>12, <1>13 DEF Covered
  <2>3. DOMAIN memo \subseteq Ids /\ \A x \in DOMAIN memo : memo[x] \in Text
    BY DEF IInv, Typed
  <2> HIDE DEF D
  <2> QED
    BY <1>9, <2>1, <2>2, <2>3 DEF Remembers
<1>18. type[f.of].named => f.of \in DOMAIN memo' /\ \A k \in 1 .. m : stack[k].of # f.of
  <2>1. type[f.of].named => f.of \in DOMAIN memo
    BY <1>4, <1>13 DEF IInv, OpenRemembered, up
  <2>2. ASSUME NEW k \in 1 .. m, type[f.of].named PROVE stack[k].of # f.of
    <3>1. k \in DOMAIN stack /\ k # m + 1
      BY <1>2
    <3>2. f.of = stack[m + 1].of
      BY <1>13 DEF up
    <3> QED
      BY <1>4, <2>2, <3>1, <3>2 DEF IInv, NoReentry
  <2> QED
    BY <1>17, <2>1, <2>2
<1>19. UNCHANGED <<type, text, root>> /\ panicked' \in BOOLEAN
  BY <1>1, <1>3
<1> QED
  BY <1>1, <1>2, <1>11, <1>13, <1>14, <1>15, <1>16, <1>17, <1>18, <1>19, StepPreserves

\* The outermost activation returns the text.
LEMMA FinalPreserves ==
  ASSUME IInv, Finish, Len(stack) = 1
  PROVE  IInv'
<1> DEFINE txt == Append(Top.text, Close(Top.of))
<1>1. stack # << >> /\ stack \in Seq(Frame)
  BY DEF Finish, IInv, Typed
<1>2. /\ stack' = << >> /\ text' = txt /\ Remember(Top.of, txt)
      /\ UNCHANGED <<type, root, panicked>>
  BY DEF Finish
<1>3. Outer(stack, 1) = {}
  <2>1. DOMAIN stack = {1}
    BY <1>1
  <2> QED
    BY <2>1 DEF Outer
<1>4. txt \in Text /\ Covered(txt, {}) /\ Top.of \in Ids
  <2>1. Top.of \in Ids /\ Top.text \in Text /\ Covered(Top.text, {})
    BY <1>1, <1>3, TopFacts
  <2> DEFINE a == Top.text
             e == Close(Top.of)
  <2>2. a \in Text /\ e = Close(Top.of) /\ txt = Append(a, e)
    BY <2>1
  <2> HIDE DEF a, e, txt
  <2>3. txt \in Text /\ \A ds : Covered(a, ds) => Covered(txt, ds)
    BY <2>1, <2>2, Closed
  <2> QED
    BY <2>1, <2>3 DEF a
<1>5. memo' = [x \in DOMAIN memo \cup {Top.of} |-> IF x = Top.of THEN txt ELSE memo[x]]
  BY <1>2 DEF Remember
<1> HIDE DEF txt
<1>6. Typed'
  <2>1. << >> \in Seq(Frame) /\ DOMAIN << >> = {}
    OBVIOUS
  <2>2. DOMAIN memo' \subseteq Ids /\ \A x \in DOMAIN memo' : memo'[x] \in Text
    BY <1>4, <1>5 DEF IInv, Typed
  <2> QED
    BY <1>2, <1>4, <2>1, <2>2 DEF IInv, Typed, Positioned
<1>7. NoReentry' /\ OpenRemembered' /\ MemoCovered' /\ StackCovered'
  <2>1. stack' = << >> /\ DOMAIN stack' = {}
    BY <1>2
  <2> QED
    BY <2>1 DEF NoReentry, OpenRemembered, MemoCovered, StackCovered
<1>8. Covered(text', {})
  BY <1>2, <1>4
<1> QED
  BY <1>6, <1>7, <1>8 DEF IInv, Covered

\* A call from outside remembers nothing but the name of its type.
LEMMA StringPreserves ==
  ASSUME IInv, NEW t \in Ids, String(t)
  PROVE  IInv'
<1> DEFINE f == Activation(t)
           r == <<Ref(t)>>
           g == <<f>>
<1>1. /\ text' = << >> /\ root' = t /\ stack' = g /\ type' = type /\ panicked' \in BOOLEAN
      /\ memo' = IF type[t].named THEN [x \in {t} |-> r] ELSE << >>
  BY DEF String, NameKind
<1>2. /\ f \in Frame /\ f.of = t /\ f.next \in 1 .. (Len(type[t].sub) + 1)
      /\ Covered(f.text, {}) /\ (type[t].named => t \in Names(f.text))
  BY ActivationFacts
<1> HIDE DEF f
<1>3. g \in Seq(Frame) /\ Len(g) = 1 /\ DOMAIN g = {1} /\ g[1] = f
  BY <1>2
<1>4. r \in Text /\ \A D : t \in D => Covered(r, D)
  BY Tokens, OneToken
<1> HIDE DEF r, g
<1>5. DOMAIN memo' \subseteq {t} /\ (type[t].named => t \in DOMAIN memo')
      /\ \A x \in DOMAIN memo' : memo'[x] = r /\ type[t].named
  BY <1>1
<1>6. Names(f.text) \subseteq Printed(g)
  BY <1>3 DEF Printed, Outer, Names
<1>7. Typed'
  <2>1. << >> \in Text /\ type \in [Ids -> Shapes]
    BY DEF Text, IInv, Typed
  <2>2. Positioned(stack)'
    BY <1>1, <1>2, <1>3 DEF Positioned
  <2> QED
    BY <1>1, <1>3, <1>4, <1>5, <2>1, <2>2 DEF Typed
<1>8. NoReentry' /\ OpenRemembered'
  BY <1>1, <1>2, <1>3, <1>5 DEF NoReentry, OpenRemembered
<1>9. MemoCovered'
  <2>1. ASSUME NEW x \in DOMAIN memo' PROVE Covered(memo'[x], Printed(g))
    BY <1>2, <1>4, <1>5, <1>6
  <2> QED
    BY <1>1, <2>1 DEF MemoCovered
<1>10. StackCovered'
  <2>1. Covered(g[1].text, Outer(g, 1))
    BY <1>2, <1>3 DEF Covered
  <2> QED
    BY <1>1, <1>3, <2>1 DEF StackCovered
<1>11. Covered(text', {})
  BY <1>1 DEF Covered
<1> QED
  BY <1>7, <1>8, <1>9, <1>10, <1>11 DEF IInv, Covered

\* Nothing is printed at first.
LEMMA InvInit == Init => IInv
<1> SUFFICES ASSUME Init PROVE IInv
  OBVIOUS
<1>1. /\ type \in [Ids -> Shapes] /\ root \in Ids /\ panicked = FALSE
      /\ memo = << >> /\ stack = << >> /\ text = << >>
  BY DEF Init, Context
<1>2. << >> \in Seq(Frame) /\ << >> \in Text /\ DOMAIN << >> = {}
  BY DEF Text
<1>3. Typed
  BY <1>1, <1>2 DEF Typed, Positioned
<1>4. NoReentry /\ OpenRemembered /\ MemoCovered /\ StackCovered /\ Covered(text, {})
  BY <1>1, <1>2 DEF NoReentry, OpenRemembered, MemoCovered, StackCovered, Covered
<1> QED
  BY <1>3, <1>4 DEF IInv

\* Every step keeps the invariant.
LEMMA InvNext == IInv /\ [Next]_vars => IInv'
<1> SUFFICES ASSUME IInv, [Next]_vars PROVE IInv'
  OBVIOUS
<1>1. CASE \E t \in Ids : String(t)
  BY <1>1, StringPreserves
<1>2. CASE Recall
  BY <1>2, RecallPreserves
<1>3. CASE Descend
  BY <1>3, DescendPreserves
<1>4. CASE Finish
  BY <1>4, ReturnPreserves, FinalPreserves
<1>5. CASE UNCHANGED vars
  <2>1. /\ type' = type /\ memo' = memo /\ stack' = stack /\ text' = text
        /\ root' = root /\ panicked' = panicked
    BY <1>5 DEF vars
  <2>2. Typed'
    BY <2>1 DEF IInv, Typed, Positioned
  <2>3. NoReentry' /\ OpenRemembered'
    BY <2>1 DEF IInv, NoReentry, OpenRemembered
  <2>4. MemoCovered'
    BY <2>1 DEF IInv, MemoCovered
  <2>5. StackCovered'
    BY <2>1 DEF IInv, StackCovered
  <2>6. Covered(text', {})
    BY <2>1 DEF IInv
  <2> QED
    BY <2>2, <2>3, <2>4, <2>5, <2>6 DEF IInv, Covered
<1> QED
  BY <1>1, <1>2, <1>3, <1>4, <1>5 DEF Next

\* The inductive invariant holds for every context.
THEOREM Invariant == Spec => []IInv
  BY InvInit, InvNext, PTL DEF Spec

\* Every activation stands at an element of its type or behind the last, and
\* only types of the context are remembered (string.go:63-106).
THEOREM TypeCorrect == Spec => []TypeOK
<1>1. IInv => TypeOK
  <2> SUFFICES ASSUME IInv PROVE TypeOK
    OBVIOUS
  <2>1. \A k \in DOMAIN stack :
          stack[k].of \in Ids /\ stack[k].next \in 1..(Len(type[stack[k].of].sub) + 1)
    BY StackElements DEF IInv, Typed, Positioned
  <2> QED
    BY <2>1 DEF IInv, Typed, TypeOK
<1> QED
  BY <1>1, Invariant, PTL

\* typeString is never entered for a named struct it is printing already,
\* however the types of the context refer to each other (string.go:87-88).
THEOREM NeverReentered == Spec => []NoReentry
<1>1. IInv => NoReentry
  BY DEF IInv
<1> QED
  BY <1>1, Invariant, PTL

\* A text refers only to structs it has defined before, although remembered
\* texts are reused where other structs are open (string.go:63-65, 104).
THEOREM ReferencesFollow == Spec => []ReferencesDefined
<1>1. IInv => ReferencesDefined
  BY DEF IInv, Covered, ReferencesDefined
<1> QED
  BY <1>1, Invariant, PTL
-----------------------------------------------------------------------------
(* Reading a text back.                                                    *)

\* What a reader may wait for.
Want == [tag : {"text", "close", "nothing"}, of : Ids]
Wants == Seq(Want)

\* First w, then what is in L.
Before(w, L) == <<w>> \o L

\* What is waited for in the middle of t, whose next element is its n-th.
Remaining(ty, t, n) ==
  [k \in 1 .. (Len(ty[t].sub) - n + 2) |->
     IF n + k - 1 <= Len(ty[t].sub) THEN Wanted(ty[t].sub[n + k - 1]) ELSE Close(t)]

\* Reading e leads from waiting for L to waiting for K.
Takes(ty, L, e, K) ==
  \/ e.tag = "close" /\ L = Before(e, K)
  \/ \E t \in Ids : e = Ref(t) /\ ty[t].named /\ L = Before(Wanted(t), K)
  \/ \E t \in Ids, M \in Wants :
        /\ e = [tag |-> IF ty[t].named THEN "def" ELSE "open", of |-> t]
        /\ L = Before(Wanted(t), M) /\ K = Remaining(ty, t, 1) \o M

\* What is waited for before and behind each token of s.
Readings(ty, s, L, K) ==
  {g \in [0 .. Len(s) -> Wants] : /\ g[0] = L /\ g[Len(s)] = K
                                  /\ \A i \in 1 .. Len(s) : Takes(ty, g[i - 1], s[i], g[i])}

Reads(ty, s, L, K) == Readings(ty, s, L, K) # {}

\* Text s describes type t, whatever comes behind it.
Describes(ty, s, t) ==
  /\ s \in Text
  /\ \A K \in Wants : Reads(ty, s, Before(Wanted(t), K), K)

\* The text of an activation describes its type up to the next element.
Begins(ty, f) ==
  /\ f.text \in Text /\ f.text # << >> /\ f.text[1].tag # "ref"
  /\ \A K \in Wants : Reads(ty, f.text, Before(Wanted(f.of), K), Remaining(ty, f.of, f.next) \o K)

\* The elements of types are types.
Proper(ty) == \A t \in Ids : ty[t].sub \in Seq(Ids)

\* What is waited for.
LEMMA WantTypes ==
  /\ \A t \in Ids : Wanted(t) \in Want /\ Close(t) \in Want
  /\ \A t \in Ids : Close(t).tag = "close" /\ Wanted(t).tag = "text" /\ Wanted(t).of = t
  BY DEF Want, Wanted, Close

\* What is behind the first of what is waited for.
LEMMA BeforeElements ==
  ASSUME NEW w \in Want, NEW L \in Wants, NEW u, u = Before(w, L)
  PROVE  /\ u \in Wants /\ u # << >> /\ Len(u) = 1 + Len(L) /\ u[1] = w
         /\ \A i \in 1 .. Len(L) : u[1 + i] = L[i]
         /\ Head(u) = w /\ Tail(u) = L
<1> DEFINE s == <<w>>
           W == Want
<1>1. s \in Seq(W) /\ Len(s) = 1 /\ s[1] = w /\ L \in Seq(W) /\ w \in W
  BY DEF Wants
<1>2. u = s \o L
  BY DEF Before
<1> HIDE DEF s, W
<1>3. /\ u \in Seq(W) /\ Len(u) = 1 + Len(L) /\ DOMAIN u = 1 .. (1 + Len(L)) /\ Len(L) \in Nat
      /\ \A i \in DOMAIN L : u[1 + i] = L[i]
      /\ u[1] = w
  <2>1. /\ u \in Seq(W) /\ Len(s) \in Nat /\ Len(L) \in Nat
        /\ DOMAIN s = 1 .. Len(s) /\ DOMAIN L = 1 .. Len(L)
        /\ DOMAIN u = 1 .. (Len(s) + Len(L))
        /\ \A i \in DOMAIN s : i \in DOMAIN u /\ u[i] = s[i]
        /\ \A i \in DOMAIN L : Len(s) + i \in DOMAIN u /\ u[Len(s) + i] = L[i]
    <3>1. s \in Seq(W) /\ L \in Seq(W)
      BY <1>1
    <3> QED
      BY <1>2, <3>1, ConcatElements
  <2>2. 1 \in DOMAIN s
    BY <1>1, <2>1
  <2>3. Len(u) = Len(s) + Len(L)
    BY <2>1
  <2> QED
    BY <1>1, <2>1, <2>2, <2>3
<1>4. u # << >> /\ Head(u) = w /\ DOMAIN L = 1 .. Len(L)
  BY <1>1, <1>3
<1>5. Tail(u) = L
  <2>1. /\ Tail(u) \in Seq(W) /\ Len(Tail(u)) = Len(u) - 1
        /\ \A i \in 1 .. Len(Tail(u)) : Tail(u)[i] = u[i + 1]
    BY <1>3, <1>4, HeadTailProperties
  <2> DEFINE v == Tail(u)
  <2> HIDE DEF v
  <2>2. Len(v) = Len(L) /\ \A i \in 1 .. Len(v) : v[i] = L[i]
    BY <1>3, <1>4, <2>1 DEF v
  <2>3. v = L
    BY <1>1, <2>1, <2>2, SeqEqual DEF v
  <2> QED
    BY <2>3 DEF v
<1> QED
  BY <1>3, <1>4, <1>5 DEF W, Wants

\* r is what is waited for in the middle of t.
Remains(ty, t, n, r) ==
  /\ Len(ty[t].sub) \in Nat
  /\ r \in Wants /\ Len(r) = Len(ty[t].sub) - n + 2
  /\ \A k \in 1 .. Len(r) : r[k] = IF n + k - 1 <= Len(ty[t].sub)
                                   THEN Wanted(ty[t].sub[n + k - 1]) ELSE Close(t)

\* What remains is something to wait for.
LEMMA RemainingTypes ==
  ASSUME NEW ty, Proper(ty), NEW t \in Ids, NEW n \in Nat \ {0}, n <= Len(ty[t].sub) + 1,
         NEW r, r = Remaining(ty, t, n)
  PROVE  Remains(ty, t, n, r)
<1> DEFINE m == Len(ty[t].sub)
           s == ty[t].sub
           l == m - n + 2
<1>1. s \in Seq(Ids)
  BY DEF Proper
<1>2. m \in Nat /\ DOMAIN s = 1 .. m
  BY <1>1
<1>3. l \in Nat \ {0}
  BY <1>2
<1>4. \A k \in 1 .. l : n + k - 1 <= m => s[n + k - 1] \in Ids
  BY <1>1, <1>2
<1>5. r = [k \in 1 .. l |-> IF n + k - 1 <= m THEN Wanted(s[n + k - 1]) ELSE Close(t)]
  BY DEF Remaining
<1> HIDE DEF m, s, l
<1>6. \A k \in 1 .. l : r[k] = IF n + k - 1 <= m THEN Wanted(s[n + k - 1]) ELSE Close(t)
  BY <1>5
<1>7. r \in [1 .. l -> Want]
  BY <1>4, <1>5, WantTypes
<1>8. r \in Seq(Want) /\ Len(r) = l
  BY <1>3, <1>7
<1> QED
  BY <1>2, <1>6, <1>8 DEF m, s, l, Wants, Remains

\* The next element of t is waited for first, and its closing token when there
\* is none.
InOrder(ty, t) ==
  \A n \in Nat \ {0}, K \in Wants :
    /\ n <= Len(ty[t].sub) =>
          /\ Remaining(ty, t, n + 1) \o K \in Wants
          /\ Remaining(ty, t, n) \o K
               = Before(Wanted(ty[t].sub[n]), Remaining(ty, t, n + 1) \o K)
    /\ n = Len(ty[t].sub) + 1 => Remaining(ty, t, n) \o K = Before(Close(t), K)

\* What remains of a type is waited for in the order of its elements.
LEMMA RemainingSteps ==
  ASSUME NEW ty, Proper(ty), NEW t \in Ids
  PROVE  InOrder(ty, t)
<1> SUFFICES ASSUME NEW n \in Nat \ {0}, NEW K \in Wants
             PROVE  /\ n <= Len(ty[t].sub) =>
                          /\ Remaining(ty, t, n + 1) \o K \in Wants
                          /\ Remaining(ty, t, n) \o K
                               = Before(Wanted(ty[t].sub[n]), Remaining(ty, t, n + 1) \o K)
                    /\ n = Len(ty[t].sub) + 1 => Remaining(ty, t, n) \o K = Before(Close(t), K)
  BY DEF InOrder
<1> DEFINE m == Len(ty[t].sub)
           r == Remaining(ty, t, n)
           q == Remaining(ty, t, n + 1)
           W == Want
           u == r \o K
           v == q \o K
<1>1. ty[t].sub \in Seq(Ids) /\ m \in Nat /\ DOMAIN ty[t].sub = 1 .. m /\ Len(K) \in Nat
      /\ K \in Seq(W) /\ DOMAIN K = 1 .. Len(K)
  BY DEF Proper, Wants
<1>2. CASE n <= Len(ty[t].sub)
  <2> DEFINE w == Wanted(ty[t].sub[n])
             b == Before(w, v)
  <2>1. /\ r \in Seq(W) /\ Len(r) = m - n + 2
        /\ \A k \in 1 .. Len(r) : r[k] = IF n + k - 1 <= m THEN Wanted(ty[t].sub[n + k - 1]) ELSE Close(t)
    <3>1. n <= Len(ty[t].sub) + 1
      BY <1>1, <1>2
    <3>2. Remains(ty, t, n, r)
      BY <3>1, RemainingTypes
    <3> QED
      BY <3>2 DEF Wants, Remains
  <2>2. /\ q \in Seq(W) /\ Len(q) = m - n + 1
        /\ \A k \in 1 .. Len(q) : q[k] = IF n + k <= m THEN Wanted(ty[t].sub[n + k]) ELSE Close(t)
    <3> DEFINE p == n + 1
    <3>1. p \in Nat \ {0} /\ p <= Len(ty[t].sub) + 1 /\ p = n + 1 /\ q = Remaining(ty, t, p)
      BY <1>1, <1>2
    <3> HIDE DEF p, q
    <3>2. /\ q \in Wants /\ Len(q) = Len(ty[t].sub) - p + 2
          /\ \A k \in 1 .. Len(q) : q[k] = IF p + k - 1 <= Len(ty[t].sub)
                                           THEN Wanted(ty[t].sub[p + k - 1]) ELSE Close(t)
      <4>1. Remains(ty, t, p, q)
        BY <3>1, RemainingTypes
      <4> QED
        BY <4>1 DEF Remains
    <3> DEFINE l == Len(q)
    <3>3. l = m - n + 1
      BY <1>1, <3>1, <3>2
    <3>4. l \in Nat
      BY <1>1, <1>2, <3>3
    <3>5. \A k \in 1 .. l : p + k - 1 = n + k
      <4> HIDE DEF l
      <4> QED
        BY <3>1, <3>4
    <3> QED
      BY <3>2, <3>3, <3>5 DEF Wants
  <2>3. w \in Want
    <3>1. ty[t].sub[n] \in Ids
      BY <1>1, <1>2
    <3> QED
      BY <3>1, WantTypes
  <2>4. \A k \in 1 .. Len(q) : r[1 + k] = q[k]
    <3> HIDE DEF r, q, m
    <3> SUFFICES ASSUME NEW k \in 1 .. Len(q) PROVE r[1 + k] = q[k]
      OBVIOUS
    <3>1. 1 + k \in 1 .. Len(r) /\ n + (1 + k) - 1 = n + k
      BY <1>1, <2>1, <2>2
    <3> QED
      BY <2>1, <2>2, <3>1
  <2>5. r[1] = w
    <3>1. 1 \in 1 .. Len(r) /\ n + 1 - 1 = n /\ n <= m
      BY <1>1, <1>2, <2>1
    <3> QED
      BY <2>1, <3>1
  <2> HIDE DEF r, q, m, w, W
  <2>6. /\ u \in Seq(W) /\ Len(u) = Len(r) + Len(K)
        /\ \A i \in DOMAIN r : u[i] = r[i]
        /\ \A i \in DOMAIN K : u[Len(r) + i] = K[i]
        /\ DOMAIN r = 1 .. Len(r)
    <3> HIDE DEF u
    <3>1. u = r \o K
      BY DEF u
    <3>2. /\ u \in Seq(W) /\ Len(r) \in Nat /\ Len(K) \in Nat
          /\ DOMAIN r = 1 .. Len(r) /\ DOMAIN K = 1 .. Len(K)
          /\ DOMAIN u = 1 .. (Len(r) + Len(K))
          /\ \A i \in DOMAIN r : i \in DOMAIN u /\ u[i] = r[i]
          /\ \A i \in DOMAIN K : Len(r) + i \in DOMAIN u /\ u[Len(r) + i] = K[i]
      <4>1. r \in Seq(W) /\ K \in Seq(W)
        BY <1>1, <2>1
      <4> QED
        BY <3>1, <4>1, ConcatElements
    <3> QED
      BY <1>1, <3>2
  <2>7. /\ v \in Seq(W) /\ Len(v) = Len(q) + Len(K)
        /\ \A i \in DOMAIN q : v[i] = q[i]
        /\ \A i \in DOMAIN K : v[Len(q) + i] = K[i]
        /\ DOMAIN q = 1 .. Len(q)
    <3> HIDE DEF v
    <3>1. v = q \o K
      BY DEF v
    <3>2. /\ v \in Seq(W) /\ Len(q) \in Nat /\ Len(K) \in Nat
          /\ DOMAIN q = 1 .. Len(q) /\ DOMAIN K = 1 .. Len(K)
          /\ DOMAIN v = 1 .. (Len(q) + Len(K))
          /\ \A i \in DOMAIN q : i \in DOMAIN v /\ v[i] = q[i]
          /\ \A i \in DOMAIN K : Len(q) + i \in DOMAIN v /\ v[Len(q) + i] = K[i]
      <4>1. q \in Seq(W) /\ K \in Seq(W)
        BY <1>1, <2>2
      <4> QED
        BY <3>1, <4>1, ConcatElements
    <3> QED
      BY <1>1, <3>2
  <2> HIDE DEF u, v
  <2>8. /\ b \in Seq(W) /\ Len(b) = 1 + Len(v) /\ b[1] = w
        /\ \A i \in 1 .. Len(v) : b[1 + i] = v[i]
    <3>1. v \in Wants /\ b = Before(w, v)
      BY <2>7 DEF W, Wants
    <3> HIDE DEF b
    <3>2. /\ b \in Wants /\ b # << >> /\ Len(b) = 1 + Len(v) /\ b[1] = w
          /\ \A i \in 1 .. Len(v) : b[1 + i] = v[i]
          /\ Head(b) = w /\ Tail(b) = v
      BY <2>3, <3>1, BeforeElements, SMTT(30)
    <3> QED
      BY <3>2 DEF W, Wants
  <2> HIDE DEF b
  <2>9. /\ n \in Nat /\ m \in Nat /\ n <= m /\ Len(K) \in Nat
         /\ Len(r) = m - n + 2 /\ Len(q) = m - n + 1
         /\ Len(u) = Len(r) + Len(K) /\ Len(v) = Len(q) + Len(K) /\ Len(b) = 1 + Len(v)
         /\ DOMAIN r = 1 .. Len(r) /\ DOMAIN q = 1 .. Len(q) /\ DOMAIN K = 1 .. Len(K)
    BY <1>1, <1>2, <2>1, <2>2, <2>6, <2>7, <2>8 DEF m
  <2>10. Len(u) = Len(b)
    BY <2>9
  <2>11. ASSUME NEW i \in 1 .. Len(u) PROVE u[i] = b[i]
    <3>1. CASE i = 1
      <4>1. 1 \in DOMAIN r
        BY <2>9
      <4> QED
        BY <2>5, <2>6, <2>8, <3>1, <4>1
    <3>2. CASE i # 1 /\ i <= Len(r)
      <4> DEFINE j == i - 1
      <4>1. j \in 1 .. Len(q) /\ j \in 1 .. Len(v) /\ i = 1 + j /\ i \in 1 .. Len(r)
        BY <2>9, <3>2
      <4> HIDE DEF j
      <4>2. u[i] = r[1 + j] /\ b[i] = v[j] /\ v[j] = q[j] /\ r[1 + j] = q[j]
        BY <2>4, <2>6, <2>7, <2>8, <2>9, <4>1
      <4> QED
        BY <4>2
    <3>3. CASE ~ (i <= Len(r))
      <4> DEFINE j == i - Len(r)
                 l == Len(q) + j
      <4>1. j \in 1 .. Len(K) /\ l \in 1 .. Len(v) /\ i = 1 + l /\ i = Len(r) + j
        BY <2>9, <3>3
      <4>2. l = Len(q) + j
        OBVIOUS
      <4> HIDE DEF j, l
      <4>3. u[i] = K[j] /\ b[i] = v[l] /\ v[l] = K[j]
        BY <2>6, <2>7, <2>8, <2>9, <4>1, <4>2
      <4> QED
        BY <4>3
    <3> QED
      BY <3>1, <3>2, <3>3
  <2>12. u = b
    BY <2>6, <2>8, <2>10, <2>11, SeqEqual
  <2> QED
    BY <1>1, <1>2, <2>7, <2>12 DEF u, b, v, w, r, q, W, m, Wants
<1>3. CASE n = Len(ty[t].sub) + 1
  <2>1. /\ r \in Seq(W) /\ Len(r) = 1 /\ r[1] = Close(t)
    <3> HIDE DEF r
    <3>1. n <= Len(ty[t].sub) + 1 /\ r = Remaining(ty, t, n)
      BY <1>1, <1>3 DEF r
    <3>2. /\ r \in Wants /\ Len(r) = Len(ty[t].sub) - n + 2
          /\ \A k \in 1 .. Len(r) : r[k] = IF n + k - 1 <= Len(ty[t].sub)
                                           THEN Wanted(ty[t].sub[n + k - 1]) ELSE Close(t)
      <4>1. Remains(ty, t, n, r)
        BY <3>1, RemainingTypes
      <4> QED
        BY <4>1 DEF Remains
    <3> DEFINE l == Len(ty[t].sub)
    <3>3. Len(r) = 1 /\ 1 \in 1 .. Len(r) /\ ~ (n + 1 - 1 <= l)
      <4>1. l \in Nat /\ n = l + 1 /\ Len(r) = l - n + 2
        BY <1>1, <1>3, <3>2
      <4> HIDE DEF l
      <4> QED
        BY <4>1
    <3> QED
      BY <3>2, <3>3 DEF Wants
  <2>2. r = <<Close(t)>>
    <3> DEFINE c == Close(t)
               s == <<c>>
    <3>1. c \in Want
      BY WantTypes
    <3> HIDE DEF c, r
    <3>2. s \in Seq(W) /\ Len(s) = 1 /\ s[1] = c
      BY <3>1
    <3> HIDE DEF s, W
    <3>3. \A i \in 1 .. Len(r) : r[i] = s[i]
      BY <2>1, <3>2 DEF c
    <3>4. r = s
      BY <2>1, <3>2, <3>3, SeqEqual
    <3> QED
      BY <3>4 DEF s, c
  <2> HIDE DEF r
  <2>3. r \o K = Before(Close(t), K)
    BY <2>2 DEF Before
  <2> QED
    BY <1>1, <1>3, <2>3 DEF r
<1> QED
  BY <1>2, <1>3

-----------------------------------------------------------------------------
(* Reading token after token.                                              *)

\* One token.
LEMMA ReadOne ==
  ASSUME NEW ty, NEW e, NEW s, s = <<e>>, NEW L \in Wants, NEW K \in Wants, Takes(ty, L, e, K)
  PROVE  Reads(ty, s, L, K)
<1> DEFINE g == [i \in 0 .. 1 |-> IF i = 0 THEN L ELSE K]
<1>1. Len(s) = 1 /\ s[1] = e
  OBVIOUS
<1>2. g \in [0 .. 1 -> Wants] /\ g[0] = L /\ g[1] = K
  OBVIOUS
<1> HIDE DEF g
<1>3. \A i \in 1 .. 1 : i = 1 /\ i - 1 = 0
  OBVIOUS
<1>4. \A i \in 1 .. 1 : Takes(ty, g[i - 1], s[i], g[i])
  BY <1>1, <1>2, <1>3
<1>5. g \in Readings(ty, s, L, K)
  BY <1>1, <1>2, <1>4 DEF Readings
<1> QED
  BY <1>5 DEF Reads

\* One text after another.
LEMMA ReadBoth ==
  ASSUME NEW ty, NEW s \in Text, NEW t \in Text, NEW u, u = s \o t,
         NEW L, NEW M, NEW K, Reads(ty, s, L, M), Reads(ty, t, M, K)
  PROVE  u \in Text /\ Reads(ty, u, L, K)
<1>1. PICK g : g \in Readings(ty, s, L, M)
  BY DEF Reads
<1>2. PICK h : h \in Readings(ty, t, M, K)
  BY DEF Reads
<1> DEFINE m == Len(s)
           n == Len(t)
           f == [i \in 0 .. (m + n) |-> IF i <= m THEN g[i] ELSE h[i - m]]
<1>3. s \in Seq(Token) /\ t \in Seq(Token)
  BY DEF Text
<1>4. /\ u \in Seq(Token) /\ m \in Nat /\ n \in Nat
      /\ DOMAIN s = 1 .. m /\ DOMAIN t = 1 .. n /\ DOMAIN u = 1 .. (m + n)
      /\ \A i \in DOMAIN s : i \in DOMAIN u /\ u[i] = s[i]
      /\ \A i \in DOMAIN t : m + i \in DOMAIN u /\ u[m + i] = t[i]
  BY <1>3, ConcatElements
<1>5. Len(u) = m + n
  BY <1>4
<1>6. /\ g \in [0 .. m -> Wants] /\ g[0] = L /\ g[m] = M
      /\ \A i \in 1 .. m : Takes(ty, g[i - 1], s[i], g[i])
  BY <1>1 DEF Readings
<1>7. /\ h \in [0 .. n -> Wants] /\ h[0] = M /\ h[n] = K
      /\ \A i \in 1 .. n : Takes(ty, h[i - 1], t[i], h[i])
  BY <1>2 DEF Readings
<1> HIDE DEF m, n
<1>8. \A i \in 0 .. (m + n) : f[i] \in Wants
  <2> SUFFICES ASSUME NEW i \in 0 .. (m + n) PROVE f[i] \in Wants
    OBVIOUS
  <2>1. CASE i <= m
    BY <1>4, <1>6, <2>1
  <2>2. CASE ~ (i <= m)
    <3>1. i - m \in 0 .. n
      BY <1>4, <2>2
    <3> QED
      BY <1>7, <2>2, <3>1
  <2> QED
    BY <2>1, <2>2
<1>9. f \in [0 .. (m + n) -> Wants]
  <2>1. f = [i \in 0 .. (m + n) |-> f[i]]
    OBVIOUS
  <2> HIDE DEF f
  <2> QED
    BY <1>8, <2>1
<1>10. /\ \A i \in 0 .. m : f[i] = g[i]
       /\ \A i \in 0 .. n : f[m + i] = h[i]
  <2>1. ASSUME NEW i \in 0 .. m PROVE f[i] = g[i]
    BY <1>4
  <2>2. ASSUME NEW i \in 0 .. n PROVE f[m + i] = h[i]
    <3>1. m + i \in 0 .. (m + n) /\ (m + i) - m = i
      BY <1>4
    <3>2. CASE i = 0
      BY <1>4, <1>6, <1>7, <3>1, <3>2
    <3>3. CASE i # 0
      <4>1. ~ (m + i <= m)
        BY <1>4, <3>3
      <4> QED
        BY <3>1, <4>1
    <3> QED
      BY <3>2, <3>3
  <2> QED
    BY <2>1, <2>2
<1> HIDE DEF f
<1>11. f[0] = L /\ f[m + n] = K
  <2>1. 0 \in 0 .. m /\ n \in 0 .. n
    BY <1>4
  <2> QED
    BY <1>6, <1>7, <1>10, <2>1
<1>12. ASSUME NEW i \in 1 .. (m + n) PROVE Takes(ty, f[i - 1], u[i], f[i])
  <2>1. CASE i <= m
    <3>1. i \in 1 .. m /\ i \in 0 .. m /\ i - 1 \in 0 .. m
      BY <1>4, <2>1
    <3>2. f[i - 1] = g[i - 1] /\ u[i] = s[i] /\ f[i] = g[i]
      BY <1>4, <1>10, <3>1
    <3> QED
      BY <1>6, <3>1, <3>2
  <2>2. CASE ~ (i <= m)
    <3> DEFINE j == i - m
    <3>1. j \in 1 .. n /\ j \in 0 .. n /\ j - 1 \in 0 .. n /\ i = m + j /\ i - 1 = m + (j - 1)
      BY <1>4, <2>2
    <3> HIDE DEF j
    <3>2. f[i] = h[j] /\ f[i - 1] = h[j - 1]
      BY <1>10, <3>1
    <3>3. u[i] = t[j]
      BY <1>4, <3>1
    <3> QED
      BY <1>7, <3>1, <3>2, <3>3
  <2> QED
    BY <2>1, <2>2
<1>13. f \in Readings(ty, u, L, K)
  BY <1>5, <1>9, <1>11, <1>12 DEF Readings
<1> QED
  BY <1>4, <1>13 DEF Reads, Text

\* A remembered name is read as a description of its struct.
LEMMA NameDescribes ==
  ASSUME NEW ty, NEW t \in Ids, ty[t].named, NEW s, s = <<Ref(t)>>
  PROVE  Describes(ty, s, t)
<1>1. s \in Text
  BY Tokens, OneToken
<1>2. ASSUME NEW K \in Wants PROVE Reads(ty, s, Before(Wanted(t), K), K)
  <2> DEFINE L == Before(Wanted(t), K)
             e == Ref(t)
  <2>1. L \in Wants
    BY WantTypes, BeforeElements
  <2>2. Takes(ty, L, e, K)
    BY DEF Takes
  <2>3. s = <<e>>
    OBVIOUS
  <2> HIDE DEF L, e
  <2>4. Reads(ty, s, L, K)
    BY <2>1, <2>2, <2>3, ReadOne
  <2> QED
    BY <2>4 DEF L
<1> QED
  BY <1>1, <1>2 DEF Describes

\* An activation begins with its opening token.
LEMMA ActivationBegins ==
  ASSUME Proper(type), NEW t \in Ids
  PROVE  Begins(type, Activation(t))
<1> DEFINE e == Open(t)
           s == <<e>>
<1>1. Activation(t) = [of |-> t, next |-> 1, text |-> s]
  BY DEF Activation
<1>2. e \in Token /\ e.tag # "ref" /\ e = [tag |-> IF type[t].named THEN "def" ELSE "open", of |-> t]
  BY Tokens DEF Open
<1> HIDE DEF e
<1>3. s \in Text /\ s # << >> /\ s[1] = e
  BY <1>2, OneToken
<1>4. ASSUME NEW K \in Wants PROVE Reads(type, s, Before(Wanted(t), K), Remaining(type, t, 1) \o K)
  <2> DEFINE L == Before(Wanted(t), K)
             M == Remaining(type, t, 1) \o K
             r == Remaining(type, t, 1)
  <2>1. L \in Wants
    BY WantTypes, BeforeElements
  <2>2. r \in Wants
    <3>1. 1 \in Nat \ {0} /\ 1 <= Len(type[t].sub) + 1
      BY DEF Proper
    <3>2. Remains(type, t, 1, r)
      BY <3>1, RemainingTypes
    <3> QED
      BY <3>2 DEF Remains
  <2>3. M \in Wants
    <3> HIDE DEF r
    <3>1. r \o K \in Wants
      BY <2>2 DEF Wants
    <3> QED
      BY <3>1 DEF r
  <2>4. Takes(type, L, e, M)
    BY <1>2 DEF Takes
  <2>5. s = <<e>>
    OBVIOUS
  <2> HIDE DEF L, M, s
  <2>6. Reads(type, s, L, M)
    BY <2>1, <2>3, <2>4, <2>5, ReadOne
  <2> QED
    BY <2>6 DEF L, M
<1> HIDE DEF s
<1> QED
  BY <1>1, <1>2, <1>3, <1>4 DEF Begins

\* An element has been printed.
LEMMA ElementRead ==
  ASSUME NEW ty, Proper(ty), NEW f, f.of \in Ids, f.next \in Nat \ {0},
         Begins(ty, f), f.next <= Len(ty[f.of].sub),
         NEW s, Describes(ty, s, ty[f.of].sub[f.next]),
         NEW h, h.of = f.of, h.next = f.next + 1, h.text = f.text \o s
  PROVE  Begins(ty, h)
<1> DEFINE a == f.text
           u == h.text
           t == f.of
           n == f.next
           w == ty[t].sub[n]
<1>1. /\ a \in Text /\ a # << >> /\ a[1].tag # "ref" /\ s \in Text /\ u = a \o s
      /\ t \in Ids /\ n \in Nat \ {0} /\ n <= Len(ty[t].sub)
  BY DEF Begins, Describes
<1>2. u \in Text /\ u # << >> /\ u[1] = a[1]
  <2> HIDE DEF a, u
  <2>1. a \in Seq(Token) /\ s \in Seq(Token)
    BY <1>1 DEF Text
  <2>2. /\ u \in Seq(Token) /\ Len(a) \in Nat /\ Len(s) \in Nat
        /\ DOMAIN a = 1 .. Len(a) /\ DOMAIN s = 1 .. Len(s)
        /\ DOMAIN u = 1 .. (Len(a) + Len(s))
        /\ \A i \in DOMAIN a : i \in DOMAIN u /\ u[i] = a[i]
        /\ \A i \in DOMAIN s : Len(a) + i \in DOMAIN u /\ u[Len(a) + i] = s[i]
    <3>1. u = a \o s
      BY <1>1
    <3> QED
      BY <2>1, <3>1, ConcatElements, SMTT(30)
  <2>3. 1 \in DOMAIN a
    BY <1>1, <2>1, <2>2
  <2> QED
    BY <2>2, <2>3 DEF Text
<1>3. ASSUME NEW K \in Wants
      PROVE  Reads(ty, u, Before(Wanted(t), K), Remaining(ty, t, n + 1) \o K)
  <2> DEFINE L == Before(Wanted(t), K)
             M == Remaining(ty, t, n) \o K
             N == Remaining(ty, t, n + 1) \o K
  <2>1. Reads(ty, a, L, M)
    BY DEF Begins
  <2>2. N \in Wants /\ M = Before(Wanted(w), N)
    <3> HIDE DEF t, n, M, N, w
    <3>1. M = Remaining(ty, t, n) \o K /\ N = Remaining(ty, t, n + 1) \o K /\ w = ty[t].sub[n]
      BY DEF M, N, w
    <3>2. /\ Remaining(ty, t, n + 1) \o K \in Wants
          /\ Remaining(ty, t, n) \o K
               = Before(Wanted(ty[t].sub[n]), Remaining(ty, t, n + 1) \o K)
      <4>1. InOrder(ty, t)
        BY <1>1, RemainingSteps
      <4> QED
        BY <1>1, <4>1 DEF InOrder
    <3> QED
      BY <3>1, <3>2
  <2>3. Reads(ty, s, M, N)
    <3> HIDE DEF N, M
    <3>1. Reads(ty, s, Before(Wanted(w), N), N)
      BY <2>2 DEF Describes
    <3> QED
      BY <2>2, <3>1
  <2> HIDE DEF L, M, N, a, u
  <2>4. Reads(ty, u, L, N)
    BY <1>1, <2>1, <2>3, ReadBoth
  <2> QED
    BY <2>4 DEF L, N, u
<1> QED
  BY <1>1, <1>2, <1>3 DEF Begins

\* Everything has been printed.
LEMMA TypeRead ==
  ASSUME NEW ty, Proper(ty), NEW f, f.of \in Ids, Begins(ty, f), f.next = Len(ty[f.of].sub) + 1,
         NEW u, u = Append(f.text, Close(f.of))
  PROVE  Describes(ty, u, f.of) /\ u # << >> /\ u[1].tag # "ref"
<1> DEFINE a == f.text
           t == f.of
           e == Close(t)
           c == <<e>>
<1>1. a \in Text /\ a # << >> /\ a[1].tag # "ref" /\ t \in Ids /\ u = Append(a, e)
  BY DEF Begins
<1>2. e \in Token /\ e \in Want /\ e.tag = "close"
  <2> HIDE DEF t
  <2> QED
    BY <1>1, Tokens, WantTypes
<1> HIDE DEF e
<1>3. c \in Text
  BY <1>2, OneToken
<1>4. u = a \o c /\ u # << >> /\ u[1] = a[1]
  <2> HIDE DEF a
  <2>1. a \in Seq(Token)
    BY <1>1 DEF Text
  <2>2. u = a \o c
    BY <1>1, <1>2, <2>1, AppendIsConcat
  <2>3. u # << >> /\ u[1] = a[1]
    BY <1>1, <1>2, <2>1
  <2> QED
    BY <2>2, <2>3
<1>5. ASSUME NEW K \in Wants PROVE u \in Text /\ Reads(ty, u, Before(Wanted(t), K), K)
  <2> DEFINE L == Before(Wanted(t), K)
             M == Remaining(ty, t, f.next) \o K
  <2>1. Reads(ty, a, L, M)
    BY DEF Begins
  <2>2. M = Before(e, K)
    <3> DEFINE n == f.next
    <3>1. n \in Nat \ {0} /\ n = Len(ty[t].sub) + 1
      BY DEF Proper
    <3> HIDE DEF n, t
    <3>2. Remaining(ty, t, n) \o K = Before(Close(t), K)
      <4>1. InOrder(ty, t)
        BY <1>1, RemainingSteps
      <4> QED
        BY <1>1, <3>1, <4>1 DEF InOrder
    <3> QED
      BY <3>2 DEF e, n
  <2>3. M \in Wants
    BY <1>2, <2>2, BeforeElements
  <2>4. Takes(ty, M, e, K)
    BY <1>2, <2>2 DEF Takes
  <2> HIDE DEF L, M
  <2>5. Reads(ty, c, M, K)
    BY <2>3, <2>4, ReadOne
  <2> HIDE DEF a, c
  <2>6. u \in Text /\ Reads(ty, u, L, K)
    BY <1>1, <1>3, <1>4, <2>1, <2>5, ReadBoth
  <2> QED
    BY <2>6 DEF L
<1>6. << >> \in Wants
  BY DEF Wants
<1> QED
  BY <1>1, <1>4, <1>5, <1>6 DEF Describes

\* The elements of the types of a context are types.
LEMMA ProperTypes == IInv => Proper(type)
<1> SUFFICES ASSUME IInv, NEW t \in Ids PROVE type[t].sub \in Seq(Ids)
  BY DEF Proper
<1>1. type[t] \in Shapes
  BY DEF IInv, Typed
<1> QED
  BY <1>1, ShapesAssumption

\* What a token leads to is what Behind says.
LEMMA TakesBehind ==
  ASSUME IInv, NEW L \in Wants, NEW K \in Wants, NEW e \in Token, Takes(type, L, e, K)
  PROVE  Behind(L, e) = K
<1>1. CASE e.tag = "close" /\ L = Before(e, K)
  <2>1. e \in Want
    BY <1>1 DEF Token, Want
  <2>2. L # << >> /\ Head(L) = e /\ Tail(L) = K
    BY <1>1, <2>1, BeforeElements
  <2>3. e # Ref(e.of) /\ e # Open(e.of)
    BY <1>1 DEF Ref, Open
  <2> QED
    BY <1>1, <2>2, <2>3 DEF Behind
<1>2. CASE \E t \in Ids : e = Ref(t) /\ type[t].named /\ L = Before(Wanted(t), K)
  <2>1. PICK t \in Ids : e = Ref(t) /\ type[t].named /\ L = Before(Wanted(t), K)
    BY <1>2
  <2>2. L # << >> /\ Head(L) = Wanted(t) /\ Tail(L) = K
    <3> DEFINE w == Wanted(t)
    <3>1. w \in Want /\ L = Before(w, K)
      BY <2>1, WantTypes
    <3> HIDE DEF w
    <3>2. L # << >> /\ Head(L) = w /\ Tail(L) = K
      BY <3>1, BeforeElements
    <3> QED
      BY <3>2 DEF w
  <2>3. e.of = t /\ e.tag # "close" /\ e = Ref(e.of) /\ e # Open(e.of)
    BY <2>1 DEF Ref, Open
  <2> QED
    BY <2>1, <2>2, <2>3 DEF Behind
<1>3. CASE \E t \in Ids, M \in Wants :
             /\ e = [tag |-> IF type[t].named THEN "def" ELSE "open", of |-> t]
             /\ L = Before(Wanted(t), M) /\ K = Remaining(type, t, 1) \o M
  <2>1. PICK t \in Ids, M \in Wants :
               /\ e = [tag |-> IF type[t].named THEN "def" ELSE "open", of |-> t]
               /\ L = Before(Wanted(t), M) /\ K = Remaining(type, t, 1) \o M
    BY <1>3
  <2>2. L # << >> /\ Head(L) = Wanted(t) /\ Tail(L) = M
    <3> DEFINE w == Wanted(t)
    <3>1. w \in Want /\ L = Before(w, M)
      BY <2>1, WantTypes
    <3> HIDE DEF w
    <3>2. L # << >> /\ Head(L) = w /\ Tail(L) = M
      BY <3>1, BeforeElements
    <3> QED
      BY <3>2 DEF w
  <2>3. e.of = t /\ e.tag # "close" /\ e # Ref(e.of) /\ e = Open(e.of)
    BY <2>1 DEF Ref, Open
  <2>4. Elements(t) = Remaining(type, t, 1)
    <3> DEFINE s == type[t].sub
               m == Len(s)
    <3>1. s \in Seq(Ids)
      BY ProperTypes DEF Proper
    <3>2. m \in Nat
      BY <3>1
    <3>3. m - 1 + 2 = m + 1 /\ \A k \in 1 .. (m + 1) : 1 + k - 1 = k
      <4> HIDE DEF m
      <4> QED
        BY <3>2
    <3>4. Remaining(type, t, 1)
            = [k \in 1 .. (m - 1 + 2) |->
                 IF 1 + k - 1 <= m THEN Wanted(s[1 + k - 1]) ELSE Close(t)]
      BY DEF Remaining
    <3>5. Elements(t) = [k \in 1 .. (m + 1) |-> IF k <= m THEN Wanted(s[k]) ELSE Close(t)]
      BY DEF Elements
    <3> HIDE DEF m, s
    <3> QED
      BY <3>3, <3>4, <3>5
  <2> QED
    BY <2>1, <2>2, <2>3, <2>4 DEF Behind
<1> QED
  BY <1>1, <1>2, <1>3 DEF Takes

LessThan == {p \in Nat \X Nat : p[1] < p[2]}

\* A set of numbers that is not empty has a least one.
LEMMA Least ==
  ASSUME NEW T \in SUBSET Nat, T # {}
  PROVE  \E n \in T : \A m \in T : n <= m
<1>1. IsWellFoundedOn(OpToRel(<, Nat), Nat)
  BY NatLessThanWellFounded
<1>2. OpToRel(<, Nat) = LessThan
  BY DEF OpToRel, LessThan
<1>3. IsWellFoundedOn(LessThan, Nat)
  BY <1>1, <1>2
<1>4. PICK n \in T : \A m \in T : <<m, n>> \notin LessThan
  BY <1>3, WFMin
<1>5. ASSUME NEW m \in T PROVE n <= m
  <2>1. m \in Nat /\ n \in Nat /\ <<m, n>> \notin LessThan
    BY <1>4
  <2>2. ~ (m < n)
    BY <2>1 DEF LessThan
  <2> QED
    BY <2>1, <2>2
<1> QED
  BY <1>5

\* The reader waits for what the readings of the text say: they satisfy its
\* definition, and nothing else does.
LEMMA AwaitedReads ==
  ASSUME IInv, Reads(type, text, <<Wanted(root)>>, << >>)
  PROVE  Awaited[Len(text)] = << >>
<1> DEFINE n == Len(text)
           w == <<Wanted(root)>>
<1>1. PICK g : g \in Readings(type, text, w, << >>)
  BY DEF Reads
<1>2. /\ g \in [0 .. n -> Wants] /\ g[0] = w /\ g[n] = << >>
      /\ \A i \in 1 .. n : Takes(type, g[i - 1], text[i], g[i])
  BY <1>1 DEF Readings
<1>3. text \in Seq(Token)
  BY DEF IInv, Typed, Text
<1>4. n \in Nat /\ \A i \in 1 .. n : text[i] \in Token
  BY <1>3
<1> HIDE DEF n, w
<1>5. ASSUME NEW i \in 1 .. n PROVE Behind(g[i - 1], text[i]) = g[i]
  <2>1. i - 1 \in 0 .. n /\ i \in 0 .. n
    BY <1>4
  <2>2. g[i - 1] \in Wants /\ g[i] \in Wants /\ text[i] \in Token
    BY <1>2, <1>4, <2>1
  <2>3. Takes(type, g[i - 1], text[i], g[i])
    BY <1>2
  <2> QED
    BY <2>2, <2>3, TakesBehind
<1> DEFINE Body(f) == [i \in 0 .. n |-> IF i = 0 THEN w ELSE Behind(f[i - 1], text[i])]
<1>6. g = Body(g)
  <2>1. ASSUME NEW i \in 0 .. n PROVE g[i] = IF i = 0 THEN w ELSE Behind(g[i - 1], text[i])
    <3>1. i # 0 => i \in 1 .. n
      BY <1>4
    <3> QED
      BY <1>2, <1>5, <3>1
  <2>2. g = [i \in 0 .. n |-> g[i]]
    BY <1>2
  <2> QED
    BY <2>1, <2>2
<1>7. Awaited = CHOOSE f : f = Body(f)
  BY DEF Awaited, n, w
<1>8. PICK a : a = Awaited
  OBVIOUS
<1>9. a = Body(a)
  BY <1>6, <1>7, <1>8
<1>10. /\ a[0] = w
       /\ \A i \in 1 .. n : a[i] = Behind(a[i - 1], text[i])
  <2>1. \A i \in 0 .. n : a[i] = IF i = 0 THEN w ELSE Behind(a[i - 1], text[i])
    BY <1>9
  <2>2. 0 \in 0 .. n /\ \A i \in 1 .. n : i \in 0 .. n /\ i # 0
    BY <1>4
  <2> QED
    BY <2>1, <2>2
<1> DEFINE T == {i \in 0 .. n : a[i] # g[i]}
<1>11. T = {}
  <2> SUFFICES ASSUME T # {} PROVE FALSE
    OBVIOUS
  <2>1. T \in SUBSET Nat
    BY <1>4
  <2>2. PICK i \in T : \A j \in T : i <= j
    BY <2>1, Least
  <2>3. i \in 1 .. n /\ i - 1 \in 0 .. n /\ ~ (i <= i - 1)
    <3>1. i \in 0 .. n /\ i # 0
      BY <1>2, <1>10
    <3> QED
      BY <1>4, <3>1
  <2>4. a[i - 1] = g[i - 1]
    BY <2>2, <2>3
  <2>5. a[i] = g[i]
    BY <1>5, <1>10, <2>3, <2>4
  <2> QED
    BY <2>5
<1>12. n \in 0 .. n
  BY <1>4
<1>13. a[n] = << >>
  BY <1>2, <1>11, <1>12
<1> QED
  BY <1>8, <1>13 DEF n

\* Every activation was called for the type that its caller mentions.
CalledForElement ==
  \A k \in 1 .. (Len(stack) - 1) : type[stack[k].of].sub[stack[k].next] = stack[k + 1].of

\* What the texts of the activations, of the memo and of the program describe.
TextsRead ==
  /\ CalledForElement
  /\ \A x \in DOMAIN memo : Describes(type, memo[x], x)
  /\ \A k \in DOMAIN stack : Begins(type, stack[k])
  /\ stack # << >> => stack[1].of = root
  /\ (stack = << >> /\ text # << >>) => Describes(type, text, root) /\ text[1].tag # "ref"

\* The stack after a step is its first n frames and frame f.
LEMMA StepReads ==
  ASSUME IInv, TextsRead, stack # << >>,
         NEW n \in Nat, n <= Len(stack), NEW f \in Frame,
         stack' = Append(SubSeq(stack, 1, n), f), UNCHANGED <<type, text, root>>,
         Begins(type, f), n = 0 => f.of = root,
         n # 0 => type[stack[n].of].sub[stack[n].next] = f.of,
         \A x \in DOMAIN memo' : Describes(type, memo'[x], x)
  PROVE  TextsRead'
<1> DEFINE g == stack'
<1>1. stack \in Seq(Frame)
  BY DEF IInv, Typed
<1>2. /\ g \in Seq(Frame) /\ Len(g) = n + 1 /\ DOMAIN g = 1 .. (n + 1)
      /\ g[n + 1] = f /\ \A k \in 1 .. n : g[k] = stack[k]
  BY <1>1, PushElements
<1> HIDE DEF g
<1>3. g # << >> /\ DOMAIN stack = 1 .. Len(stack) /\ Len(stack) \in Nat
  BY <1>1, <1>2
<1>4. ASSUME NEW k \in DOMAIN g PROVE Begins(type, g[k])
  <2>1. CASE k = n + 1
    BY <1>2, <2>1
  <2>2. CASE k # n + 1
    <3>1. k \in 1 .. n /\ k \in DOMAIN stack
      BY <1>2, <1>3, <2>2
    <3>2. g[k] = stack[k]
      BY <1>2, <3>1
    <3> QED
      BY <3>1, <3>2 DEF TextsRead
  <2> QED
    BY <2>1, <2>2
<1>5. g[1].of = root
  <2>1. CASE n = 0
    BY <1>2, <2>1
  <2>2. CASE n # 0
    <3>1. 1 \in 1 .. n
      BY <2>2
    <3> QED
      BY <1>2, <3>1 DEF TextsRead
  <2> QED
    BY <2>1, <2>2
<1>6. type' = type /\ root' = root
  OBVIOUS
<1>7. ASSUME NEW k \in 1 .. (Len(g) - 1) PROVE type[g[k].of].sub[g[k].next] = g[k + 1].of
  <2>1. k \in 1 .. n /\ g[k] = stack[k]
    BY <1>2
  <2>2. CASE k = n
    BY <1>2, <2>1, <2>2
  <2>3. CASE k # n
    <3>1. k + 1 \in 1 .. n /\ k \in 1 .. (Len(stack) - 1)
      BY <1>3, <2>1, <2>3
    <3>2. g[k + 1] = stack[k + 1]
      BY <1>2, <3>1
    <3> QED
      BY <2>1, <3>1, <3>2 DEF TextsRead, CalledForElement
  <2> QED
    BY <2>2, <2>3
<1>8. CalledForElement'
  BY <1>6, <1>7 DEF CalledForElement, g
<1> QED
  BY <1>3, <1>4, <1>5, <1>6, <1>8 DEF TextsRead, g

\* Used again, a remembered text describes the type that is mentioned.
LEMMA RecallReads ==
  ASSUME IInv, TextsRead, Recall
  PROVE  TextsRead'
<1> DEFINE m == Len(stack) - 1
           t == Current
           s == memo[t]
           f == [of |-> Top.of, next |-> Top.next + 1, text |-> Top.text \o s]
<1>1. stack # << >> /\ Pending /\ t \in DOMAIN memo
  BY DEF Recall, Pending
<1>2. m \in Nat /\ m <= Len(stack) /\ Len(stack) = m + 1 /\ Len(stack) \in DOMAIN stack
  BY <1>1, TopFacts
<1>3. /\ Top.of \in Ids /\ Top.next \in Nat \ {0} /\ Top.text \in Text
      /\ Top.next <= Len(type[Top.of].sub) /\ Top \in Frame
  BY <1>1, TopFacts, CurrentFacts
<1>4. Begins(type, Top)
  BY <1>2 DEF TextsRead, Top
<1>5. Describes(type, s, type[Top.of].sub[Top.next])
  BY <1>1 DEF TextsRead, Current
<1>6. f.of = Top.of /\ f.next = Top.next + 1 /\ f.text = Top.text \o s
  OBVIOUS
<1>7. f = [Top EXCEPT !.next = @ + 1, !.text = @ \o s]
  BY <1>3, Advance
<1>8. stack' = Append(SubSeq(stack, 1, m), f)
  BY <1>7 DEF Recall, Below
<1>9. f \in Frame
  <2>1. Top.text \o s \in Text
    BY <1>3, <1>5 DEF Describes, Text
  <2> QED
    BY <1>3, <2>1 DEF Frame
<1> HIDE DEF f, s
<1>10. Begins(type, f)
  BY <1>3, <1>4, <1>5, <1>6, ProperTypes, ElementRead
<1>11. m = 0 => f.of = root
  <2>1. m = 0 => Top = stack[1]
    BY <1>2 DEF Top
  <2>2. stack[1].of = root
    BY <1>1 DEF TextsRead
  <2> QED
    BY <1>6, <2>1, <2>2
<1>12. UNCHANGED <<type, memo, text, root>>
  BY DEF Recall
<1> HIDE DEF m
<1>13. \A x \in DOMAIN memo' : Describes(type, memo'[x], x)
  BY <1>12 DEF TextsRead
<1>14. m # 0 => type[stack[m].of].sub[stack[m].next] = f.of
  <2>1. m # 0 => m \in 1 .. (Len(stack) - 1)
    BY <1>2
  <2> QED
    BY <1>2, <1>6, <2>1 DEF TextsRead, CalledForElement, Top
<1> QED
  BY <1>1, <1>2, <1>8, <1>9, <1>10, <1>11, <1>12, <1>13, <1>14, StepReads

\* What is remembered after the name of a struct has been printed.
LEMMA NameReads ==
  ASSUME TextsRead, NEW t \in Ids, RememberName(t)
  PROVE  \A x \in DOMAIN memo' : Describes(type, memo'[x], x)
<1>1. CASE type[t].named
  <2> DEFINE r == <<Ref(t)>>
  <2>1. memo' = [x \in DOMAIN memo \cup {t} |-> IF x = t THEN r ELSE memo[x]]
    BY <1>1 DEF RememberName, Remember
  <2>2. Describes(type, r, t)
    BY <1>1, NameDescribes
  <2> HIDE DEF r
  <2> QED
    BY <2>1, <2>2 DEF TextsRead
<1>2. CASE ~ type[t].named
  BY <1>2 DEF RememberName, TextsRead
<1> QED
  BY <1>1, <1>2

\* A new activation begins to describe its type.
LEMMA DescendReads ==
  ASSUME IInv, TextsRead, Descend
  PROVE  TextsRead'
<1> DEFINE m == Len(stack)
           t == Current
           f == Activation(t)
<1>1. stack # << >> /\ Pending /\ t \in Ids
  BY CurrentFacts DEF Descend, Pending
<1>2. stack \in Seq(Frame)
  BY DEF IInv, Typed
<1>3. m \in Nat /\ m <= Len(stack) /\ m # 0
  BY <1>1, <1>2
<1>4. f \in Frame /\ Begins(type, f)
  BY <1>1, ActivationFacts, ActivationBegins, ProperTypes
<1>5. stack' = Append(stack, f) /\ UNCHANGED <<type, text, root>> /\ RememberName(t)
  BY DEF Descend
<1>6. stack' = Append(SubSeq(stack, 1, m), f)
  <2>1. SubSeq(stack, 1, Len(stack)) = stack
    BY <1>2
  <2> QED
    BY <1>5, <2>1
<1>7. f.of = t /\ type[stack[m].of].sub[stack[m].next] = t
  BY DEF Activation, Current, Top
<1> HIDE DEF f, m, t
<1>8. \A x \in DOMAIN memo' : Describes(type, memo'[x], x)
  BY <1>1, <1>5, NameReads
<1> QED
  BY <1>1, <1>3, <1>4, <1>5, <1>6, <1>8, <1>7, StepReads

\* What the last activation has printed when it ends.
LEMMA FinishText ==
  ASSUME IInv, TextsRead, Finish, NEW u, u = Append(Top.text, Close(Top.of))
  PROVE  /\ Top.of \in Ids /\ Len(stack) \in Nat \ {0}
         /\ Describes(type, u, Top.of) /\ u # << >> /\ u[1].tag # "ref"
<1>1. stack # << >>
  BY DEF Finish
<1>2. /\ Len(stack) \in Nat \ {0} /\ Len(stack) \in DOMAIN stack
      /\ Top.of \in Ids /\ Top.next \in 1 .. (Len(type[Top.of].sub) + 1)
  BY <1>1, TopFacts
<1>3. ~ (Top.next <= Len(type[Top.of].sub))
  BY DEF Finish, Pending
<1>4. Begins(type, Top)
  BY <1>2 DEF TextsRead, Top
<1>5. Top.next = Len(type[Top.of].sub) + 1
  <2> DEFINE n == Top.next
             l == Len(type[Top.of].sub)
  <2>1. l \in Nat
    BY <1>2, ProperTypes DEF Proper
  <2>2. n \in 1 .. (l + 1) /\ ~ (n <= l)
    BY <1>2, <1>3
  <2> HIDE DEF n, l
  <2>3. n = l + 1
    BY <2>1, <2>2
  <2> QED
    BY <2>3 DEF n, l
<1> QED
  BY <1>2, <1>4, <1>5, ProperTypes, TypeRead

\* What is remembered when an activation has ended.
LEMMA FullReads ==
  ASSUME TextsRead, NEW t, NEW u, Describes(type, u, t), Remember(t, u)
  PROVE  \A x \in DOMAIN memo' : Describes(type, memo'[x], x)
  BY DEF TextsRead, Remember

\* The text an activation returns describes the type its caller mentions.
LEMMA ReturnReads ==
  ASSUME IInv, TextsRead, Finish, Len(stack) # 1
  PROVE  TextsRead'
<1> DEFINE m == Len(stack) - 2
           up == stack[m + 1]
           txt == Append(Top.text, Close(Top.of))
           f == [of |-> up.of, next |-> up.next + 1, text |-> up.text \o txt]
<1>1. stack # << >> /\ stack \in Seq(Frame)
  BY DEF Finish, IInv, Typed
<1>2. Top.of \in Ids /\ Len(stack) \in Nat \ {0} /\ Describes(type, txt, Top.of)
  BY FinishText
<1>3. /\ m \in Nat /\ m <= Len(stack) /\ Len(stack) = m + 2 /\ Len(stack) - 1 = m + 1
      /\ DOMAIN stack = 1 .. (m + 2)
  <2>1. DOMAIN stack = 1 .. Len(stack)
    BY <1>1
  <2> QED
    BY <1>2, <2>1
<1>4. /\ stack' = Append(SubSeq(stack, 1, m), [up EXCEPT !.next = @ + 1, !.text = @ \o txt])
      /\ Remember(Top.of, txt) /\ UNCHANGED <<type, text, root>>
  BY <1>3 DEF Finish
<1> HIDE DEF m, txt
<1>5. m + 1 \in DOMAIN stack /\ m + 1 \in 1 .. (Len(stack) - 1) /\ m + 1 < Len(stack)
  BY <1>3
<1>6. up \in Frame /\ up.of \in Ids /\ up.next \in Nat /\ up.text \in Text
  BY <1>1, <1>5, StackElements
<1>7. up.next <= Len(type[up.of].sub) /\ up.next \in 1 .. (Len(type[up.of].sub) + 1)
  BY <1>5 DEF IInv, Typed, Positioned
<1>8. type[up.of].sub[up.next] = Top.of
  <2>1. m + 1 \in 1 .. (Len(stack) - 1) /\ (m + 1) + 1 = Len(stack)
    BY <1>3, <1>5
  <2> QED
    BY <2>1 DEF TextsRead, CalledForElement, Top
<1>9. stack' = Append(SubSeq(stack, 1, m), f)
  <2>1. [up EXCEPT !.next = @ + 1, !.text = @ \o txt] = f
    BY <1>6, Advance
  <2> QED
    BY <1>4, <2>1
<1>10. Begins(type, up)
  BY <1>5 DEF TextsRead
<1>11. f.of = up.of /\ f.next = up.next + 1 /\ f.text = up.text \o txt
  OBVIOUS
<1>12. f \in Frame
  <2>1. up.text \o txt \in Text
    BY <1>2, <1>6 DEF Describes, Text
  <2> QED
    BY <1>6, <2>1 DEF Frame
<1>13. m = 0 => up.of = root
  BY <1>1 DEF TextsRead
<1>14. m # 0 => type[stack[m].of].sub[stack[m].next] = up.of
  <2>1. m # 0 => m \in 1 .. (Len(stack) - 1)
    BY <1>3
  <2> QED
    BY <2>1 DEF TextsRead, CalledForElement
<1> HIDE DEF f, up
<1>15. Begins(type, f)
  <2>1. up.next \in Nat \ {0}
    BY <1>6, <1>7
  <2> QED
    BY <1>2, <1>6, <1>7, <1>8, <1>10, <1>11, <2>1, ProperTypes, ElementRead
<1>16. \A x \in DOMAIN memo' : Describes(type, memo'[x], x)
  BY <1>2, <1>4, FullReads
<1> QED
  BY <1>1, <1>3, <1>4, <1>9, <1>11, <1>12, <1>13, <1>15, <1>16, <1>14, StepReads

\* The text of the outermost activation describes the type of the call.
LEMMA FinalReads ==
  ASSUME IInv, TextsRead, Finish, Len(stack) = 1
  PROVE  TextsRead'
<1> DEFINE txt == Append(Top.text, Close(Top.of))
<1>1. /\ stack' = << >> /\ text' = txt /\ Remember(Top.of, txt)
      /\ type' = type /\ root' = root /\ stack # << >>
  BY DEF Finish
<1>2. Describes(type, txt, Top.of) /\ txt[1].tag # "ref"
  BY FinishText
<1>3. Top.of = root
  BY <1>1 DEF TextsRead, Top
<1> HIDE DEF txt
<1>4. \A x \in DOMAIN memo' : Describes(type, memo'[x], x)
  BY <1>1, <1>2, FullReads
<1>5. DOMAIN stack' = {} /\ Len(stack') = 0
  BY <1>1
<1>6. CalledForElement'
  <2>1. 1 .. (Len(stack') - 1) = {}
    BY <1>5
  <2> QED
    BY <2>1 DEF CalledForElement
<1> QED
  BY <1>1, <1>2, <1>3, <1>4, <1>5, <1>6 DEF TextsRead

\* A call from outside begins to describe its type.
LEMMA StringReads ==
  ASSUME IInv, NEW t \in Ids, String(t)
  PROVE  TextsRead'
<1> DEFINE f == Activation(t)
           r == <<Ref(t)>>
           g == <<f>>
<1>1. /\ root' = t /\ stack' = g /\ type' = type
      /\ memo' = IF type[t].named THEN [x \in {t} |-> r] ELSE << >>
  BY DEF String
<1>2. f.of = t /\ Begins(type, f)
  BY ActivationBegins, ProperTypes DEF Activation
<1>3. type[t].named => Describes(type, r, t)
  BY NameDescribes
<1> HIDE DEF f, r
<1>4. Len(g) = 1 /\ DOMAIN g = {1} /\ g[1] = f /\ g # << >>
  OBVIOUS
<1> HIDE DEF g
<1>5. \A x \in DOMAIN memo' : Describes(type, memo'[x], x)
  BY <1>1, <1>3
<1>6. CalledForElement'
  <2>1. 1 .. (Len(stack') - 1) = {}
    BY <1>1, <1>4
  <2> QED
    BY <2>1 DEF CalledForElement
<1> QED
  BY <1>1, <1>2, <1>4, <1>5, <1>6 DEF TextsRead

\* At first there are no texts.
LEMMA ReadsInit == Init => TextsRead
<1> SUFFICES ASSUME Init PROVE TextsRead
  OBVIOUS
<1>1. memo = << >> /\ stack = << >> /\ text = << >>
  BY DEF Init
<1>2. DOMAIN memo = {} /\ DOMAIN stack = {} /\ 1 .. (Len(stack) - 1) = {}
  BY <1>1
<1> QED
  BY <1>1, <1>2 DEF TextsRead, CalledForElement

\* Every step keeps the texts descriptions.
LEMMA ReadsNext == IInv /\ TextsRead /\ [Next]_vars => TextsRead'
<1> SUFFICES ASSUME IInv, TextsRead, [Next]_vars PROVE TextsRead'
  OBVIOUS
<1>1. CASE \E t \in Ids : String(t)
  BY <1>1, StringReads
<1>2. CASE Recall
  BY <1>2, RecallReads
<1>3. CASE Descend
  BY <1>3, DescendReads
<1>4. CASE Finish
  BY <1>4, ReturnReads, FinalReads
<1>5. CASE UNCHANGED vars
  <2>1. /\ type' = type /\ memo' = memo /\ stack' = stack /\ text' = text /\ root' = root
    BY <1>5 DEF vars
  <2>2. CalledForElement'
    BY <2>1 DEF TextsRead, CalledForElement
  <2> QED
    BY <2>1, <2>2 DEF TextsRead
<1> QED
  BY <1>1, <1>2, <1>3, <1>4, <1>5 DEF Next

\* A text, read token after token, describes the type String was called for and
\* nothing more, whatever was remembered and used again on the way
\* (string.go:63-65, 104).
THEOREM TextsDenoteTypes == Spec => []TextDenotesType
<1>1. IInv /\ TextsRead => TextDenotesType
  <2> SUFFICES ASSUME IInv, TextsRead, stack = << >>, text # << >>
               PROVE  text[1].tag # "ref" /\ Awaited[Len(text)] = << >>
    BY DEF TextDenotesType
  <2>1. Describes(type, text, root) /\ text[1].tag # "ref" /\ root \in Ids
    BY DEF TextsRead, IInv, Typed
  <2> DEFINE e == << >>
             L == Before(Wanted(root), e)
  <2>2. e \in Wants
    BY DEF Wants
  <2>3. Reads(type, text, L, e)
    <3> HIDE DEF e
    <3> QED
      BY <2>1, <2>2 DEF Describes
  <2>4. L = <<Wanted(root)>>
    <3> DEFINE s == <<Wanted(root)>>
    <3>1. s \in Seq(Want)
      BY <2>1, WantTypes
    <3> HIDE DEF s
    <3>2. s \o << >> = s
      BY <3>1, ConcatEmptySeq
    <3> QED
      BY <3>2 DEF s, Before
  <2>5. Reads(type, text, <<Wanted(root)>>, << >>)
    BY <2>3, <2>4
  <2>6. Awaited[Len(text)] = << >>
    BY <2>5, AwaitedReads
  <2> QED
    BY <2>1, <2>6
<1> QED
  BY <1>1, Invariant, ReadsInit, ReadsNext, PTL DEF Spec
=============================================================================
