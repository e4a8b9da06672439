------------------------ MODULE FunctionEditing_proofs ------------------------
(***************************************************************************)
(* Proofs about FunctionEditing, for any number of blocks, instructions    *)
(* and builders and for functions of any size.                             *)
(*                                                                         *)
(* The invariants of FunctionEditing are proved together, since each needs *)
(* the others: what an erased block leaves behind depends on where its     *)
(* instructions are listed, and where an instruction may be put on what    *)
(* comes before it.  IInv says them part by part and adds what they leave  *)
(* out: no block is twice in the function, and an instruction that is not  *)
(* made yet or erased is in no block.                                      *)
(*                                                                         *)
(* Linking and unlinking are one relation between lists read both ways     *)
(* (Inserted): it tells where every position is afterwards, which is all   *)
(* that the order of definitions and uses depends on.                      *)
(***************************************************************************)
EXTENDS FunctionEditing, SequenceTheorems, TLAPS

\* No element occurs twice.
Distinct(s) == \A j, k \in DOMAIN s : s[j] = s[k] => j = k

\* The parts of OnePlace.
Listed == \A i \in Insts, b \in Blocks :
            (\E k \in DOMAIN body[b] : body[b][k] = i) <=> (parent[i] = b)

ListedOnce == \A b \in Blocks : Distinct(body[b])

UnlinkedEmpty == \A b \in Blocks \ Linked : body[b] = << >>

\* A point that a builder may have.
Sound(p) == p.block # Nowhere =>
              p.block \in Linked /\ (p.before = End \/ parent[p.before] = p.block)

BuildersSound == \A x \in Builders : Sound(point[x])

\* What is not made yet, or erased, is in no block; only phis have blocks.
Kinds == /\ \A i \in Insts : inst[i].kind \in {"free", "erased"} => parent[i] = Nowhere
         /\ \A i \in Insts : inst[i].kind # "phi" => inst[i].incoming = {}

EntryFirst == /\ 1 \in DOMAIN blocks
              /\ blocks[1] = entry
              /\ Distinct(blocks)

EntryApart == \A i \in Insts : /\ entry \notin inst[i].targets
                               /\ inst[i].kind = "phi" => parent[i] # entry

\* Two neighbours in a block.
MayFollow(i, j) == /\ inst[j].kind = "phi" => inst[i].kind = "phi"
                   /\ inst[i].kind # "terminator"

InOrder == \A b \in Blocks : \A k \in DOMAIN body[b] :
             k + 1 \in DOMAIN body[b] => MayFollow(body[b][k], body[b][k + 1])

\* The parts of DefinedBeforeUse and of NoDanglingUse.
DefinedFirst(i) ==
  IF inst[i].kind = "phi"
  THEN \A p \in inst[i].incoming : parent[p[1]] \in {p[2], entry, Nowhere}
  ELSE \A j \in Operands(i) \cap Placed : DefinedAt(j, At(i))

Alive(i) == /\ \A j \in Operands(i) : inst[j].kind \notin {"free", "erased"}
            /\ \A b \in inst[i].targets \cup {p[2] : p \in inst[i].incoming} : b \in Linked

IInv == /\ TypeOK /\ Listed /\ ListedOnce /\ UnlinkedEmpty /\ BuildersSound
        /\ Kinds /\ EntryFirst /\ EntryApart /\ InOrder
        /\ \A i \in Insts : Alive(i)
        /\ \A i \in Placed : DefinedFirst(i)

-----------------------------------------------------------------------------
(* Lists.  t is s with e put where n is.                                   *)

Has(s, e) == \E k \in DOMAIN s : s[k] = e

Inserted(t, s, n, e) ==
  /\ Len(s) \in Nat /\ DOMAIN s = 1 .. Len(s)
  /\ DOMAIN t = 1 .. Len(s) + 1
  /\ n \in DOMAIN t /\ t[n] = e
  /\ \A k \in DOMAIN s : k < n => t[k] = s[k]
  /\ \A k \in DOMAIN s : k >= n => t[k + 1] = s[k]
  /\ \A k \in DOMAIN t : k > n => t[k] = s[k - 1]

\* What is at each position after an insertion,
LEMMA InsertAtInserts ==
  ASSUME NEW T, NEW s \in Seq(T), NEW n \in 1 .. Len(s) + 1, NEW e \in T
  PROVE  InsertAt(s, n, e) \in Seq(T) /\ Inserted(InsertAt(s, n, e), s, n, e)
  <1> DEFINE left == SubSeq(s, 1, n - 1)
             right == SubSeq(s, n, Len(s))
             one == <<e>>
  <1>1. Len(s) \in Nat /\ DOMAIN s = 1 .. Len(s) /\ \A k \in 1 .. Len(s) : s[k] \in T
    BY LenProperties, ElementOfSeq
  <1>2. /\ left \in Seq(T) /\ Len(left) = n - 1
        /\ \A k \in 1 .. n - 1 : left[k] = s[k]
    <2>1. /\ left \in Seq(T)
          /\ Len(left) = IF 1 <= n - 1 THEN (n - 1) - 1 + 1 ELSE 0
          /\ \A k \in 1 .. (n - 1) - 1 + 1 : left[k] = s[1 + k - 1]
      BY <1>1, SubSeqProperties
    <2> QED BY <1>1, <2>1
  <1>3. /\ right \in Seq(T) /\ Len(right) = Len(s) - n + 1
        /\ \A k \in 1 .. Len(s) - n + 1 : right[k] = s[n + k - 1]
    <2>1. /\ right \in Seq(T)
          /\ Len(right) = IF n <= Len(s) THEN Len(s) - n + 1 ELSE 0
          /\ \A k \in 1 .. Len(s) - n + 1 : right[k] = s[n + k - 1]
      BY <1>1, SubSeqProperties
    <2> QED BY <1>1, <2>1
  <1>4. one \in Seq(T) /\ Len(one) = 1 /\ one[1] = e
    OBVIOUS
  <1> HIDE DEF left, right, one
  <1> DEFINE begun == left \o one
             t == begun \o right
  <1>5. /\ begun \in Seq(T) /\ Len(begun) = n
        /\ \A k \in 1 .. n : begun[k] = IF k < n THEN s[k] ELSE e
    <2>1. /\ begun \in Seq(T) /\ Len(begun) = Len(left) + Len(one)
          /\ \A k \in 1 .. Len(left) + Len(one) :
               begun[k] = IF k <= Len(left) THEN left[k] ELSE one[k - Len(left)]
      BY <1>2, <1>4, ConcatProperties
    <2> QED BY <1>1, <1>2, <1>4, <2>1
  <1> HIDE DEF begun
  <1>6. /\ t \in Seq(T) /\ Len(t) = Len(s) + 1
        /\ \A k \in 1 .. Len(s) + 1 :
             t[k] = IF k <= n THEN begun[k] ELSE right[k - n]
    <2>1. /\ t \in Seq(T) /\ Len(t) = Len(begun) + Len(right)
          /\ \A k \in 1 .. Len(begun) + Len(right) :
               t[k] = IF k <= Len(begun) THEN begun[k] ELSE right[k - Len(begun)]
      BY <1>3, <1>5, ConcatProperties
    <2> QED BY <1>1, <1>3, <1>5, <2>1
  <1>7. DOMAIN t = 1 .. Len(s) + 1
    BY <1>6, LenProperties
  <1> HIDE DEF t
  <1>8. Inserted(t, s, n, e)
    <2>1. \A k \in DOMAIN s : k < n => t[k] = s[k]
      BY <1>1, <1>5, <1>6
    <2>2. t[n] = e
      BY <1>1, <1>5, <1>6
    <2>3. \A k \in DOMAIN s : k >= n => t[k + 1] = s[k]
      <3> SUFFICES ASSUME NEW k \in 1 .. Len(s), k >= n PROVE t[k + 1] = s[k]
        BY <1>1
      <3>1. t[k + 1] = right[k + 1 - n]
        BY <1>1, <1>6
      <3>2. k + 1 - n \in 1 .. Len(s) - n + 1 /\ n + (k + 1 - n) - 1 = k
        BY <1>1
      <3>3. right[k + 1 - n] = s[n + (k + 1 - n) - 1]
        BY <1>3, <3>2
      <3> QED BY <3>1, <3>2, <3>3
    <2>4. \A k \in DOMAIN t : k > n => t[k] = s[k - 1]
      <3> SUFFICES ASSUME NEW k \in 1 .. Len(s) + 1, k > n PROVE t[k] = s[k - 1]
        BY <1>7
      <3>1. k - 1 \in DOMAIN s /\ k - 1 >= n /\ (k - 1) + 1 = k
        BY <1>1
      <3> QED BY <2>3, <3>1
    <2> QED BY <1>1, <1>7, <2>1, <2>2, <2>3, <2>4 DEF Inserted
  <1>9. InsertAt(s, n, e) = t
    BY DEF InsertAt, t, begun, left, right, one
  <1> QED BY <1>6, <1>8, <1>9

\* a removal: what is left has the element inserted to give the old list,
LEMMA RemoveAtInserts ==
  ASSUME NEW T, NEW s \in Seq(T), NEW n \in DOMAIN s
  PROVE  RemoveAt(s, n) \in Seq(T) /\ Inserted(s, RemoveAt(s, n), n, s[n])
  <1> DEFINE left == SubSeq(s, 1, n - 1)
             right == SubSeq(s, n + 1, Len(s))
             t == left \o right
  <1>1. Len(s) \in Nat /\ DOMAIN s = 1 .. Len(s) /\ \A k \in 1 .. Len(s) : s[k] \in T
    BY LenProperties, ElementOfSeq
  <1>2. /\ left \in Seq(T) /\ Len(left) = n - 1
        /\ \A k \in 1 .. n - 1 : left[k] = s[k]
    <2>1. /\ left \in Seq(T)
          /\ Len(left) = IF 1 <= n - 1 THEN (n - 1) - 1 + 1 ELSE 0
          /\ \A k \in 1 .. (n - 1) - 1 + 1 : left[k] = s[1 + k - 1]
      BY <1>1, SubSeqProperties
    <2> QED BY <1>1, <2>1
  <1>3. /\ right \in Seq(T) /\ Len(right) = Len(s) - n
        /\ \A k \in 1 .. Len(s) - n : right[k] = s[n + k]
    <2>1. /\ right \in Seq(T)
          /\ Len(right) = IF n + 1 <= Len(s) THEN Len(s) - (n + 1) + 1 ELSE 0
          /\ \A k \in 1 .. Len(s) - (n + 1) + 1 : right[k] = s[(n + 1) + k - 1]
      BY <1>1, SubSeqProperties
    <2>2. \A k \in 1 .. Len(s) - n : right[k] = s[n + k]
      <3> SUFFICES ASSUME NEW k \in 1 .. Len(s) - n PROVE right[k] = s[n + k]
        OBVIOUS
      <3>1. k \in 1 .. Len(s) - (n + 1) + 1 /\ (n + 1) + k - 1 = n + k
        BY <1>1
      <3> QED BY <2>1, <3>1
    <2>3. Len(right) = Len(s) - n
      BY <1>1, <2>1
    <2> QED BY <2>1, <2>2, <2>3
  <1> HIDE DEF left, right
  <1>4. /\ t \in Seq(T) /\ Len(t) = Len(s) - 1
        /\ \A k \in 1 .. Len(s) - 1 : k < n => t[k] = s[k]
        /\ \A k \in 1 .. Len(s) - 1 : k >= n => t[k] = s[k + 1]
    <2>1. /\ t \in Seq(T) /\ Len(t) = Len(left) + Len(right)
          /\ \A k \in 1 .. Len(left) + Len(right) :
               t[k] = IF k <= Len(left) THEN left[k] ELSE right[k - Len(left)]
      BY <1>2, <1>3, ConcatProperties
    <2> HIDE DEF t
    <2>2. Len(t) = Len(s) - 1
      BY <1>1, <1>2, <1>3, <2>1
    <2>3. \A k \in 1 .. Len(s) - 1 : k < n => t[k] = s[k]
      <3> SUFFICES ASSUME NEW k \in 1 .. Len(s) - 1, k < n PROVE t[k] = s[k]
        OBVIOUS
      <3>1. k \in 1 .. Len(left) + Len(right) /\ k <= Len(left) /\ k \in 1 .. n - 1
        BY <1>1, <1>2, <1>3
      <3> QED BY <1>2, <2>1, <3>1
    <2>4. \A k \in 1 .. Len(s) - 1 : k >= n => t[k] = s[k + 1]
      <3> SUFFICES ASSUME NEW k \in 1 .. Len(s) - 1, k >= n PROVE t[k] = s[k + 1]
        OBVIOUS
      <3>1. t[k] = right[k - (n - 1)]
        <4>1. k \in 1 .. Len(left) + Len(right) /\ ~(k <= Len(left)) /\ Len(left) = n - 1
          BY <1>1, <1>2, <1>3
        <4> QED BY <2>1, <4>1
      <3>2. k - (n - 1) \in 1 .. Len(s) - n /\ n + (k - (n - 1)) = k + 1
        BY <1>1
      <3>3. right[k - (n - 1)] = s[n + (k - (n - 1))]
        BY <1>3, <3>2
      <3> QED BY <3>1, <3>2, <3>3
    <2> QED BY <2>1, <2>2, <2>3, <2>4
  <1>5. DOMAIN t = 1 .. Len(s) - 1
    BY <1>4, LenProperties
  <1> HIDE DEF t
  <1>6. Inserted(s, t, n, s[n])
    BY <1>1, <1>4, <1>5 DEF Inserted
  <1>7. RemoveAt(s, n) = t
    BY DEF RemoveAt, t, left, right
  <1> QED BY <1>4, <1>6, <1>7

\* Appending is inserting behind the end.
LEMMA AppendInserts ==
  ASSUME NEW T, NEW s \in Seq(T), NEW e \in T
  PROVE  Append(s, e) \in Seq(T) /\ Inserted(Append(s, e), s, Len(s) + 1, e)
  <1> DEFINE t == Append(s, e)
  <1>1. Len(s) \in Nat /\ DOMAIN s = 1 .. Len(s)
    BY LenProperties
  <1>2. /\ t \in Seq(T) /\ Len(t) = Len(s) + 1
        /\ \A k \in 1 .. Len(s) : t[k] = s[k]
        /\ t[Len(s) + 1] = e
    BY AppendProperties
  <1>3. DOMAIN t = 1 .. Len(s) + 1
    BY <1>2, LenProperties
  <1> HIDE DEF t
  <1>4. Inserted(t, s, Len(s) + 1, e)
    BY <1>1, <1>2, <1>3 DEF Inserted
  <1> QED BY <1>2, <1>4 DEF t

\* An insertion adds one element.
LEMMA InsertedHas ==
  ASSUME NEW t, NEW s, NEW n, NEW e, Inserted(t, s, n, e)
  PROVE  \A x : Has(t, x) <=> (Has(s, x) \/ x = e)
  <1> SUFFICES ASSUME NEW x PROVE Has(t, x) <=> (Has(s, x) \/ x = e)
    OBVIOUS
  <1>1. ASSUME NEW k \in DOMAIN t, t[k] = x, x # e PROVE Has(s, x)
    <2>1. CASE k < n
      <3>1. k \in DOMAIN s /\ s[k] = x
        BY <1>1, <2>1 DEF Inserted
      <3> QED BY <3>1 DEF Has
    <2>2. CASE k > n
      <3>1. k - 1 \in DOMAIN s /\ s[k - 1] = x
        BY <1>1, <2>2 DEF Inserted
      <3> QED BY <3>1 DEF Has
    <2> QED BY <1>1, <2>1, <2>2 DEF Inserted
  <1>2. ASSUME NEW k \in DOMAIN s, s[k] = x PROVE Has(t, x)
    <2>1. CASE k < n
      BY <1>2, <2>1 DEF Inserted, Has
    <2>2. CASE k >= n
      <3>1. k + 1 \in DOMAIN t /\ t[k + 1] = x
        BY <1>2, <2>2 DEF Inserted
      <3> QED BY <3>1 DEF Has
    <2> QED BY <1>2, <2>1, <2>2 DEF Inserted
  <1> QED BY <1>1, <1>2 DEF Has, Inserted

\* A new element keeps the elements apart.
LEMMA InsertedDistinct ==
  ASSUME NEW t, NEW s, NEW n, NEW e, Inserted(t, s, n, e), Distinct(s), ~Has(s, e)
  PROVE  Distinct(t)
  BY DEF Inserted, Distinct, Has

\* Where an element is after the insertion,
LEMMA InsertedShift ==
  ASSUME NEW t, NEW s, NEW n, NEW e, Inserted(t, s, n, e), NEW k \in DOMAIN s
  PROVE  /\ k < n => k \in DOMAIN t /\ t[k] = s[k]
         /\ k >= n => k + 1 \in DOMAIN t /\ t[k + 1] = s[k]
  BY DEF Inserted

\* and where it was before.
LEMMA InsertedUnshift ==
  ASSUME NEW t, NEW s, NEW n, NEW e, Inserted(t, s, n, e), NEW k \in DOMAIN t
  PROVE  /\ k < n => k \in DOMAIN s /\ s[k] = t[k]
         /\ k > n => k - 1 \in DOMAIN s /\ s[k - 1] = t[k]
  BY DEF Inserted

\* What is taken from a list without repetition is gone.
LEMMA RemovedDistinct ==
  ASSUME NEW t, NEW s, NEW n, NEW e, Inserted(t, s, n, e), Distinct(t)
  PROVE  Distinct(s) /\ ~Has(s, e)
  <1> DEFINE Now(k) == IF k < n THEN k ELSE k + 1
  <1>1. ASSUME NEW k \in DOMAIN s
        PROVE  k \in Nat /\ Now(k) \in DOMAIN t /\ t[Now(k)] = s[k] /\ Now(k) # n
    BY <1>1 DEF Inserted
  <1>2. n \in DOMAIN t /\ t[n] = e /\ n \in Nat
    BY DEF Inserted
  <1>3. ~Has(s, e)
    <2> SUFFICES ASSUME NEW k \in DOMAIN s, s[k] = e PROVE FALSE
      BY DEF Has
    <2>1. Now(k) \in DOMAIN t /\ t[Now(k)] = t[n] /\ Now(k) # n
      BY <1>1, <1>2
    <2> QED BY <1>2, <2>1 DEF Distinct
  <1>4. Distinct(s)
    <2> SUFFICES ASSUME NEW j \in DOMAIN s, NEW k \in DOMAIN s, s[j] = s[k] PROVE j = k
      BY DEF Distinct
    <2>1. Now(j) = Now(k)
      BY <1>1 DEF Distinct
    <2>2. j \in Nat /\ k \in Nat /\ n \in Nat
      BY <1>1, <1>2
    <2> QED BY <2>1, <2>2
  <1> QED BY <1>3, <1>4

\* Where an element is that occurs once.
LEMMA IndexIs ==
  ASSUME NEW s, Distinct(s), NEW k \in DOMAIN s
  PROVE  (CHOOSE j \in DOMAIN s : s[j] = s[k]) = k
  BY DEF Distinct

-----------------------------------------------------------------------------
(* What the invariant says of the state.                                   *)

\* The blocks of the function are the elements of the list, now
LEMMA LinkedHas == \A b : b \in Linked <=> Has(blocks, b)
  BY DEF Linked, ToSet, Has

\* and after a step.
LEMMA LinkedHasNext == \A b : b \in Linked' <=> Has(blocks', b)
  BY DEF Linked, ToSet, Has

\* The blocks of the function are blocks.
LEMMA LinkedBlocks == ASSUME TypeOK PROVE Linked \subseteq Blocks
  <1>1. \A k \in DOMAIN blocks : blocks[k] \in Blocks
    BY LenProperties, ElementOfSeq DEF TypeOK
  <1> QED BY <1>1 DEF Linked, ToSet

\* The list of a block is a sequence of instructions.
LEMMA BodyList ==
  ASSUME TypeOK, NEW b \in Blocks
  PROVE  /\ body[b] \in Seq(Insts)
         /\ Len(body[b]) \in Nat
         /\ DOMAIN body[b] = 1 .. Len(body[b])
         /\ \A k \in DOMAIN body[b] : body[b][k] \in Insts
  <1>1. body[b] \in Seq(Insts)
    BY DEF TypeOK
  <1> QED BY <1>1, LenProperties, ElementOfSeq

\* What stands at k in the list of b is in b, at position k.
LEMMA PositionIs ==
  ASSUME TypeOK, Listed, ListedOnce,
         NEW b \in Blocks, NEW k \in DOMAIN body[b]
  PROVE  parent[body[b][k]] = b /\ Position(body[b][k]) = k
  <1>1. body[b][k] \in Insts
    BY BodyList
  <1>2. parent[body[b][k]] = b
    BY <1>1 DEF Listed
  <1>3. (CHOOSE j \in DOMAIN body[b] : body[b][j] = body[b][k]) = k
    BY IndexIs DEF ListedOnce
  <1> QED BY <1>2, <1>3 DEF Position

\* An instruction that is in a block is in its list, at its position.
LEMMA PositionIn ==
  ASSUME TypeOK, Listed, ListedOnce, NEW i \in Placed
  PROVE  /\ i \in Insts /\ parent[i] \in Blocks
         /\ Position(i) \in DOMAIN body[parent[i]]
         /\ Position(i) \in Nat
         /\ body[parent[i]][Position(i)] = i
  <1>1. i \in Insts /\ parent[i] \in Blocks
    BY DEF Placed, TypeOK
  <1>2. PICK k \in DOMAIN body[parent[i]] : body[parent[i]][k] = i
    BY <1>1 DEF Listed
  <1>3. Position(i) = k
    BY <1>1, <1>2, PositionIs
  <1>4. DOMAIN body[parent[i]] \subseteq Nat
    BY <1>1, BodyList
  <1> QED BY <1>1, <1>2, <1>3, <1>4

\* What is in a list is in no other.
LEMMA Elsewhere ==
  ASSUME TypeOK, Listed, NEW i \in Insts, NEW b \in Blocks, parent[i] # b
  PROVE  ~Has(body[b], i)
  BY DEF Listed, Has

\* Blocks with instructions are in the function.
LEMMA PlacedLinked ==
  ASSUME TypeOK, Listed, UnlinkedEmpty, NEW i \in Placed
  PROVE  parent[i] \in Linked
  <1>1. i \in Insts /\ parent[i] \in Blocks
    BY DEF Placed, TypeOK
  <1>2. PICK k \in DOMAIN body[parent[i]] : body[parent[i]][k] = i
    BY <1>1 DEF Listed
  <1>3. body[parent[i]] # << >>
    <2>1. DOMAIN << >> = {}
      OBVIOUS
    <2> QED BY <1>2, <2>1
  <1> QED BY <1>1, <1>3 DEF UnlinkedEmpty

\* The entry is in the function.
LEMMA EntryLinked == ASSUME EntryFirst PROVE entry \in Linked
  BY DEF EntryFirst, Linked, ToSet

\* Definition before an instruction, by their positions.
LEMMA DefinedAtPlaced ==
  ASSUME NEW j, NEW u \in Placed
  PROVE  DefinedAt(j, At(u)) <=> IF parent[j] = parent[u] THEN Position(j) < Position(u)
                                 ELSE parent[j] = entry
  <1>1. u \in Insts /\ u # End
    BY EditingAssumption DEF Placed
  <1> QED BY <1>1 DEF DefinedAt, At

\* OnePlace, part by part.
LEMMA OnePlaceParts ==
  OnePlace <=> Listed /\ ListedOnce /\ UnlinkedEmpty /\ BuildersSound
  <1>1. \A i, b : {k \in DOMAIN body[b] : body[b][k] = i} # {}
                  <=> \E k \in DOMAIN body[b] : body[b][k] = i
    OBVIOUS
  <1> QED BY <1>1 DEF OnePlace, Listed, ListedOnce, UnlinkedEmpty, BuildersSound,
             Sound, Distinct

-----------------------------------------------------------------------------
(* Steps that change the order of the blocks.                              *)

\* A list with the same blocks, or more, and the entry first.
LEMMA OrderPreserves ==
  ASSUME IInv, blocks' \in Seq(Blocks), EntryFirst', Linked \subseteq Linked',
         UNCHANGED <<body, inst, parent, point>>
  PROVE  IInv'
  <1>1. TypeOK'
    BY DEF IInv, TypeOK
  <1>2. Listed' /\ ListedOnce' /\ UnlinkedEmpty'
    BY DEF IInv, Listed, ListedOnce, UnlinkedEmpty
  <1>3. BuildersSound'
    BY DEF IInv, BuildersSound, Sound
  <1>4. Kinds' /\ EntryApart' /\ InOrder'
    BY DEF IInv, Kinds, EntryApart, InOrder, MayFollow
  <1>5. \A i \in Insts : Alive(i)'
    BY DEF IInv, Alive, Operands
  <1>6. \A i \in Insts : DefinedFirst(i)' <=> DefinedFirst(i)
    BY DEF DefinedFirst, Operands, Placed, DefinedAt, At, Position
  <1>7. \A i \in Placed' : DefinedFirst(i)'
    BY <1>6 DEF IInv, Placed
  <1> QED BY <1>1, <1>2, <1>3, <1>4, <1>5, <1>7 DEF IInv

\* The entry stays first when a block is inserted behind it,
LEMMA InsertedBehindEntry ==
  ASSUME NEW t, NEW s, NEW n, NEW e, Inserted(t, s, n, e),
         1 \in DOMAIN s, s[1] = entry, Distinct(s), ~Has(s, e), n # 1
  PROVE  1 \in DOMAIN t /\ t[1] = entry /\ Distinct(t)
  <1>1. Distinct(t)
    BY InsertedDistinct
  <1> QED BY <1>1 DEF Inserted

\* and when another block is taken out.
LEMMA RemovedBehindEntry ==
  ASSUME NEW t, NEW s, NEW n, NEW e, Inserted(t, s, n, e),
         1 \in DOMAIN t, t[1] = entry, Distinct(t), e # entry
  PROVE  1 \in DOMAIN s /\ s[1] = entry /\ Distinct(s) /\ ~Has(s, e) /\ n # 1
  <1>1. Distinct(s) /\ ~Has(s, e)
    BY RemovedDistinct
  <1> QED BY <1>1 DEF Inserted

\* A new block, anywhere behind the entry.
LEMMA NewBlockPreserves ==
  ASSUME IInv, NEW b \in Blocks, b \notin Linked, NEW n, n # 1,
         blocks' \in Seq(Blocks), Inserted(blocks', blocks, n, b),
         UNCHANGED <<body, inst, parent, point>>
  PROVE  IInv'
  <1>1. EntryFirst'
    BY InsertedBehindEntry, LinkedHas DEF IInv, EntryFirst
  <1>2. Linked \subseteq Linked'
    BY InsertedHas, LinkedHas, LinkedHasNext
  <1> QED BY <1>1, <1>2, OrderPreserves

\* At the end.
LEMMA AddBasicBlockPreserves ==
  ASSUME IInv, NEW b \in Blocks, AddBasicBlock(b)
  PROVE  IInv'
  <1>1. blocks \in Seq(Blocks)
    BY DEF IInv, TypeOK
  <1>2. blocks' \in Seq(Blocks) /\ Inserted(blocks', blocks, Len(blocks) + 1, b)
    BY <1>1, AppendInserts DEF AddBasicBlock
  <1>3. Len(blocks) + 1 # 1
    BY <1>1, LenProperties DEF IInv, EntryFirst
  <1> QED BY <1>2, <1>3, NewBlockPreserves DEF AddBasicBlock, Unborn

\* A block of the function has an index.
LEMMA IndexOfLinked ==
  ASSUME NEW b \in Linked
  PROVE  IndexOf(b) \in DOMAIN blocks /\ blocks[IndexOf(b)] = b
  <1>1. \E k \in DOMAIN blocks : blocks[k] = b
    BY LinkedHas DEF Has
  <1> QED BY <1>1 DEF IndexOf

\* Before a block that is not the entry.
LEMMA InsertBasicBlockPreserves ==
  ASSUME IInv, NEW ref \in Blocks, NEW b \in Blocks, InsertBasicBlock(ref, b)
  PROVE  IInv'
  <1> DEFINE n == IndexOf(ref)
  <1>1. blocks \in Seq(Blocks)
    BY DEF IInv, TypeOK
  <1>2. n \in DOMAIN blocks /\ blocks[n] = ref
    BY IndexOfLinked DEF InsertBasicBlock
  <1>3. n \in 1 .. Len(blocks) + 1
    BY <1>1, <1>2, LenProperties
  <1>4. n # 1
    BY <1>2 DEF InsertBasicBlock, IInv, EntryFirst
  <1>5. blocks' = InsertAt(blocks, n, b)
    BY DEF InsertBasicBlock
  <1> HIDE DEF n
  <1>6. blocks' \in Seq(Blocks) /\ Inserted(blocks', blocks, n, b)
    BY <1>1, <1>3, <1>5, InsertAtInserts
  <1> QED BY <1>4, <1>6, NewBlockPreserves DEF InsertBasicBlock, Unborn

\* A block other than the entry is taken out and put in again behind the entry.
LEMMA MovePreserves ==
  ASSUME IInv, NEW b \in Linked, b # entry, NEW rest \in Seq(Blocks), NEW n,
         Inserted(blocks, rest, IndexOf(b), b),
         blocks' \in Seq(Blocks), Inserted(blocks', rest, n, b), n # 1,
         UNCHANGED <<body, inst, parent, point>>
  PROVE  IInv'
  <1>1. 1 \in DOMAIN rest /\ rest[1] = entry /\ Distinct(rest) /\ ~Has(rest, b)
    BY RemovedBehindEntry DEF IInv, EntryFirst
  <1>2. EntryFirst'
    BY <1>1, InsertedBehindEntry DEF EntryFirst
  <1>3. Linked \subseteq Linked'
    BY InsertedHas, LinkedHas, LinkedHasNext
  <1> QED BY <1>2, <1>3, OrderPreserves

\* What is left when b is taken out, and where pos is in it.
LEMMA Taken ==
  ASSUME IInv, NEW b \in Linked, NEW pos \in Linked, b # pos, b # entry
  PROVE  LET rest == RemoveAt(blocks, IndexOf(b))
             n    == CHOOSE k \in DOMAIN rest : rest[k] = pos
         IN  /\ rest \in Seq(Blocks) /\ Inserted(blocks, rest, IndexOf(b), b)
             /\ n \in 1 .. Len(rest) /\ Len(rest) \in Nat /\ rest[n] = pos
             /\ rest[1] = entry
  <1> DEFINE rest == RemoveAt(blocks, IndexOf(b))
             n == CHOOSE k \in DOMAIN rest : rest[k] = pos
  <1>1. blocks \in Seq(Blocks)
    BY DEF IInv, TypeOK
  <1>2. IndexOf(b) \in DOMAIN blocks /\ blocks[IndexOf(b)] = b
    BY IndexOfLinked
  <1>3. rest \in Seq(Blocks) /\ Inserted(blocks, rest, IndexOf(b), b)
    BY <1>1, <1>2, RemoveAtInserts
  <1> HIDE DEF rest
  <1>4. Has(rest, pos)
    BY <1>3, InsertedHas, LinkedHas
  <1>5. n \in DOMAIN rest /\ rest[n] = pos
    BY <1>4 DEF Has
  <1>6. rest[1] = entry
    BY <1>3, RemovedBehindEntry DEF IInv, EntryFirst
  <1>7. Len(rest) \in Nat /\ DOMAIN rest = 1 .. Len(rest)
    BY <1>3, LenProperties
  <1> HIDE DEF n
  <1>8. n \in 1 .. Len(rest)
    BY <1>5, <1>7
  <1> QED BY <1>3, <1>5, <1>6, <1>7, <1>8 DEF rest, n

\* Before another block.
LEMMA MoveBeforePreserves ==
  ASSUME IInv, NEW b \in Blocks, NEW pos \in Blocks, MoveBefore(b, pos)
  PROVE  IInv'
  <1> DEFINE rest == RemoveAt(blocks, IndexOf(b))
             n == CHOOSE k \in DOMAIN rest : rest[k] = pos
  <1>1. b \in Linked /\ pos \in Linked /\ b # pos /\ b # entry /\ pos # entry
    BY DEF MoveBefore
  <1>2. /\ rest \in Seq(Blocks) /\ Inserted(blocks, rest, IndexOf(b), b)
        /\ n \in 1 .. Len(rest) /\ Len(rest) \in Nat /\ rest[n] = pos
        /\ rest[1] = entry
    BY <1>1, Taken
  <1>3. blocks' = InsertAt(rest, n, b) /\ UNCHANGED <<body, inst, parent, point>>
    BY DEF MoveBefore
  <1> HIDE DEF n, rest
  <1>4. n \in 1 .. Len(rest) + 1 /\ n # 1
    BY <1>1, <1>2
  <1>5. blocks' \in Seq(Blocks) /\ Inserted(blocks', rest, n, b)
    BY <1>2, <1>3, <1>4, InsertAtInserts
  <1> QED BY <1>1, <1>2, <1>3, <1>4, <1>5, MovePreserves

\* After another block, the entry included.
LEMMA MoveAfterPreserves ==
  ASSUME IInv, NEW b \in Blocks, NEW pos \in Blocks, MoveAfter(b, pos)
  PROVE  IInv'
  <1> DEFINE rest == RemoveAt(blocks, IndexOf(b))
             n == CHOOSE k \in DOMAIN rest : rest[k] = pos
  <1>1. b \in Linked /\ pos \in Linked /\ b # pos /\ b # entry
    BY DEF MoveAfter
  <1>2. /\ rest \in Seq(Blocks) /\ Inserted(blocks, rest, IndexOf(b), b)
        /\ n \in 1 .. Len(rest) /\ Len(rest) \in Nat /\ rest[n] = pos
        /\ rest[1] = entry
    BY <1>1, Taken
  <1>3. blocks' = InsertAt(rest, 1 + n, b) /\ UNCHANGED <<body, inst, parent, point>>
    BY DEF MoveAfter
  <1> HIDE DEF n, rest
  <1>4. 1 + n \in 1 .. Len(rest) + 1 /\ 1 + n # 1
    BY <1>2
  <1>5. blocks' \in Seq(Blocks) /\ Inserted(blocks', rest, 1 + n, b)
    BY <1>2, <1>3, <1>4, InsertAtInserts
  <1> QED BY <1>1, <1>2, <1>3, <1>4, <1>5, MovePreserves

-----------------------------------------------------------------------------
(* Steps that move a builder.                                              *)

\* A builder is put at a sound point.
LEMMA PointPreserves ==
  ASSUME IInv, NEW x \in Builders,
         NEW p \in [block : Blocks \cup {Nowhere}, before : Insts \cup {End}], Sound(p),
         point' = [point EXCEPT ![x] = p], UNCHANGED <<blocks, body, inst, parent>>
  PROVE  IInv'
  <1>1. TypeOK'
    BY DEF IInv, TypeOK
  <1>2. Listed' /\ ListedOnce' /\ UnlinkedEmpty'
    BY DEF IInv, Listed, ListedOnce, UnlinkedEmpty, Linked
  <1>3. \A y \in Builders : point'[y] = IF y = x THEN p ELSE point[y]
    BY DEF IInv, TypeOK
  <1>4. \A y \in Builders : Sound(point[y]) => Sound(point[y])'
    <2> SUFFICES ASSUME NEW y \in Builders, Sound(point[y]) PROVE Sound(point[y])'
      OBVIOUS
    <2>1. CASE y = x
      BY <1>3, <2>1 DEF Sound, Linked
    <2>2. CASE y # x
      BY <1>3, <2>2 DEF Sound, Linked
    <2> QED BY <2>1, <2>2
  <1>5. BuildersSound'
    BY <1>4 DEF IInv, BuildersSound
  <1>6. Kinds' /\ EntryFirst' /\ EntryApart' /\ InOrder'
    BY DEF IInv, Kinds, EntryFirst, EntryApart, InOrder, MayFollow
  <1>7. \A i \in Insts : Alive(i)'
    BY DEF IInv, Alive, Operands, Linked
  <1>8. \A i \in Insts : DefinedFirst(i)' <=> DefinedFirst(i)
    BY DEF DefinedFirst, Operands, Placed, DefinedAt, At, Position
  <1>9. \A i \in Placed' : DefinedFirst(i)'
    BY <1>8 DEF IInv, Placed
  <1> QED BY <1>1, <1>2, <1>5, <1>6, <1>7, <1>9 DEF IInv

\* The end of a block and the point before an instruction are sound.
LEMMA SetInsertPointPreserves ==
  ASSUME IInv, NEW x \in Builders, NEW b \in Blocks, NEW before \in Insts \cup {End},
         SetInsertPoint(x, b, before)
  PROVE  IInv'
  <1>1. CASE before = End /\ SetInsertPointAtEnd(x, b)
    <2> DEFINE p == [block |-> b, before |-> End]
    <2>1. p \in [block : Blocks \cup {Nowhere}, before : Insts \cup {End}]
      OBVIOUS
    <2>2. Sound(p)
      BY <1>1 DEF SetInsertPointAtEnd, Sound
    <2>3. point' = [point EXCEPT ![x] = p] /\ UNCHANGED <<blocks, body, inst, parent>>
      BY <1>1 DEF SetInsertPointAtEnd
    <2> HIDE DEF p
    <2> QED BY <2>1, <2>2, <2>3, PointPreserves
  <1>2. CASE before \in Insts /\ parent[before] = b /\ SetInsertPointBefore(x, before)
    <2>1. before \in Placed /\ point' = [point EXCEPT ![x] = At(before)]
          /\ UNCHANGED <<blocks, body, inst, parent>>
      BY <1>2 DEF SetInsertPointBefore
    <2>2. At(before) \in [block : Blocks \cup {Nowhere}, before : Insts \cup {End}]
      BY <1>2 DEF At
    <2>3. b \in Linked
      BY <1>2, <2>1, PlacedLinked DEF IInv
    <2>4. Sound(At(before))
      BY <1>2, <2>3 DEF At, Sound
    <2> HIDE DEF At
    <2> QED BY <2>1, <2>2, <2>4, PointPreserves
  <1> QED BY <1>1, <1>2 DEF SetInsertPoint

\* So is nowhere.
LEMMA ClearInsertionPointPreserves ==
  ASSUME IInv, NEW x \in Builders, ClearInsertionPoint(x)
  PROVE  IInv'
  <1> DEFINE p == [block |-> Nowhere, before |-> End]
  <1>1. p \in [block : Blocks \cup {Nowhere}, before : Insts \cup {End}]
    OBVIOUS
  <1>2. Sound(p)
    BY DEF Sound
  <1>3. point' = [point EXCEPT ![x] = p] /\ UNCHANGED <<blocks, body, inst, parent>>
    BY DEF ClearInsertionPoint
  <1> HIDE DEF p
  <1> QED BY <1>1, <1>2, <1>3, PointPreserves

-----------------------------------------------------------------------------
(* Steps that change what instructions use, and neither their kinds nor    *)
(* their places.                                                           *)

\* One field of an instruction is replaced.
LEMMA FieldArgs ==
  ASSUME NEW r \in Instruction, NEW v
  PROVE  [r EXCEPT !.args = v] =
           [kind |-> r.kind, args |-> v, targets |-> r.targets, incoming |-> r.incoming]
  BY DEF Instruction

\* The same for the targets,
LEMMA FieldTargets ==
  ASSUME NEW r \in Instruction, NEW v
  PROVE  [r EXCEPT !.targets = v] =
           [kind |-> r.kind, args |-> r.args, targets |-> v, incoming |-> r.incoming]
  BY DEF Instruction

\* for the blocks of a phi,
LEMMA FieldIncoming ==
  ASSUME NEW r \in Instruction, NEW v
  PROVE  [r EXCEPT !.incoming = v] =
           [kind |-> r.kind, args |-> r.args, targets |-> r.targets, incoming |-> v]
  BY DEF Instruction

\* and for two fields.
LEMMA FieldsTwo ==
  ASSUME NEW r \in Instruction, NEW v, NEW w
  PROVE  [r EXCEPT !.args = v, !.incoming = w] =
           [kind |-> r.kind, args |-> v, targets |-> r.targets, incoming |-> w]
  <1>1. [r EXCEPT !.args = v, !.incoming = w] = [[r EXCEPT !.args = v] EXCEPT !.incoming = w]
    BY DEF Instruction
  <1>2. [r EXCEPT !.args = v] =
          [kind |-> r.kind, args |-> v, targets |-> r.targets, incoming |-> r.incoming]
    BY FieldArgs
  <1>3. [[kind |-> r.kind, args |-> v, targets |-> r.targets, incoming |-> r.incoming]
           EXCEPT !.incoming = w]
        = [kind |-> r.kind, args |-> v, targets |-> r.targets, incoming |-> w]
    OBVIOUS
  <1> QED BY <1>1, <1>2, <1>3

SameKinds == \A i \in Insts : inst'[i].kind = inst[i].kind

\* What has to be shown of a step that changes uses.
LEMMA UsesPreserve ==
  ASSUME IInv, inst' \in [Insts -> Instruction], SameKinds,
         \A i \in Insts : inst[i].kind # "phi" => inst'[i].incoming = {},
         \A i \in Insts : entry \notin inst'[i].targets,
         \A i \in Insts : Alive(i)',
         \A i \in Placed : DefinedFirst(i)',
         UNCHANGED <<blocks, body, parent, point>>
  PROVE  IInv'
  <1>1. TypeOK'
    BY DEF IInv, TypeOK
  <1>2. Listed' /\ ListedOnce' /\ UnlinkedEmpty' /\ BuildersSound'
    BY DEF IInv, Listed, ListedOnce, UnlinkedEmpty, BuildersSound, Sound, Linked
  <1>3. Kinds' /\ EntryFirst' /\ EntryApart'
    BY DEF IInv, Kinds, EntryFirst, EntryApart, SameKinds
  <1>4. InOrder'
    <2>1. \A b \in Blocks : \A k \in DOMAIN body[b] : body[b][k] \in Insts
      BY BodyList DEF IInv
    <2> QED BY <2>1 DEF IInv, InOrder, MayFollow, SameKinds
  <1>5. \A i \in Placed' : DefinedFirst(i)'
    BY DEF Placed
  <1> QED BY <1>1, <1>2, <1>3, <1>4, <1>5 DEF IInv

\* Where nothing moves, a point is where it was.
LEMMA PlacesUnmoved ==
  ASSUME UNCHANGED <<body, parent>>
  PROVE  /\ Placed' = Placed
         /\ \A i : Position(i)' = Position(i)
         /\ \A i, u : DefinedAt(i, At(u))' <=> DefinedAt(i, At(u))
  BY DEF Placed, Position, DefinedAt, At

\* The same operands are still alive and defined first.
LEMMA SameOperands ==
  ASSUME IInv, SameKinds, UNCHANGED <<blocks, body, parent>>,
         NEW i \in Insts, inst'[i].args = inst[i].args, inst'[i].incoming = inst[i].incoming
  PROVE  /\ \A j \in Operands(i)' : inst'[j].kind \notin {"free", "erased"}
         /\ i \in Placed => DefinedFirst(i)'
  <1>1. Operands(i)' = Operands(i)
    BY DEF Operands
  <1>2. Operands(i) \subseteq Insts
    BY DEF IInv, TypeOK, Instruction, Operands, ToSet
  <1>3. \A j \in Operands(i)' : inst'[j].kind \notin {"free", "erased"}
    BY <1>1, <1>2 DEF IInv, Alive, SameKinds
  <1>4. i \in Placed => DefinedFirst(i)'
    BY <1>1, PlacesUnmoved DEF IInv, DefinedFirst, SameKinds
  <1> QED BY <1>3, <1>4

\* One instruction uses something else.
LEMMA UsePreserves ==
  ASSUME IInv, NEW i \in Insts, NEW new \in Instruction, inst' = [inst EXCEPT ![i] = new],
         new.kind = inst[i].kind, new.kind # "phi" => new.incoming = {},
         entry \notin new.targets, Alive(i)', i \in Placed => DefinedFirst(i)',
         UNCHANGED <<blocks, body, parent, point>>
  PROVE  IInv'
  <1>1. inst \in [Insts -> Instruction]
    BY DEF IInv, TypeOK
  <1>2. /\ inst' \in [Insts -> Instruction]
        /\ \A u \in Insts : inst'[u] = IF u = i THEN new ELSE inst[u]
    BY <1>1
  <1>3. SameKinds
    BY <1>2 DEF SameKinds
  <1>4. \A u \in Insts : Alive(u)'
    <2> SUFFICES ASSUME NEW u \in Insts, u # i PROVE Alive(u)'
      OBVIOUS
    <2>1. \A j \in Operands(u)' : inst'[j].kind \notin {"free", "erased"}
      BY <1>2, <1>3, SameOperands
    <2>2. \A c \in inst'[u].targets \cup {p[2] : p \in inst'[u].incoming} : c \in Linked'
      BY <1>2 DEF IInv, Alive, Linked
    <2> QED BY <2>1, <2>2 DEF Alive
  <1>5. \A u \in Placed : DefinedFirst(u)'
    <2> SUFFICES ASSUME NEW u \in Placed, u # i PROVE DefinedFirst(u)'
      OBVIOUS
    <2>1. u \in Insts
      BY DEF Placed
    <2> QED BY <1>2, <1>3, <2>1, SameOperands
  <1>6. /\ \A u \in Insts : inst[u].kind # "phi" => inst'[u].incoming = {}
        /\ \A u \in Insts : entry \notin inst'[u].targets
    BY <1>2 DEF IInv, Kinds, EntryApart
  <1> QED BY <1>2, <1>3, <1>4, <1>5, <1>6, UsesPreserve

\* A terminator may lead to any block but the entry.
LEMMA AddTargetPreserves ==
  ASSUME IInv, NEW i \in Insts, NEW b \in Linked \ {entry}, AddTarget(i, b)
  PROVE  IInv'
  <1> DEFINE new == [inst[i] EXCEPT !.targets = @ \cup {b}]
  <1>1. inst \in [Insts -> Instruction] /\ inst[i] \in Instruction /\ b \in Blocks
    BY LinkedBlocks DEF IInv, TypeOK
  <1>2. inst' = [inst EXCEPT ![i] = new] /\ UNCHANGED <<blocks, body, parent, point>>
    BY <1>1 DEF AddTarget
  <1>3. new = [kind |-> inst[i].kind, args |-> inst[i].args,
               targets |-> inst[i].targets \cup {b}, incoming |-> inst[i].incoming]
    BY <1>1, FieldTargets
  <1>4. new \in Instruction
    BY <1>1, <1>3 DEF Instruction
  <1>5. /\ new.kind = inst[i].kind /\ new.args = inst[i].args
        /\ new.incoming = inst[i].incoming /\ new.targets = inst[i].targets \cup {b}
    BY <1>3
  <1> HIDE DEF new
  <1>6. inst'[i] = new /\ SameKinds
    BY <1>1, <1>2, <1>5 DEF SameKinds
  <1>7. /\ \A j \in Operands(i)' : inst'[j].kind \notin {"free", "erased"}
        /\ i \in Placed => DefinedFirst(i)'
    BY <1>2, <1>5, <1>6, SameOperands
  <1>8. Alive(i)'
    BY <1>2, <1>5, <1>6, <1>7 DEF IInv, Alive, Linked
  <1>9. /\ entry \notin new.targets
        /\ new.kind # "phi" => new.incoming = {}
    BY <1>5 DEF IInv, EntryApart, Kinds
  <1> QED BY <1>2, <1>4, <1>5, <1>7, <1>8, <1>9, UsePreserves

\* A phi takes a value of the block it comes from, or of the entry.
LEMMA AddIncomingPreserves ==
  ASSUME IInv, NEW i \in Insts, NEW v \in Insts, NEW b \in Blocks, AddIncoming(i, v, b)
  PROVE  IInv'
  <1> DEFINE new == [inst[i] EXCEPT !.incoming = @ \cup {<<v, b>>}]
  <1>1. inst \in [Insts -> Instruction] /\ inst[i] \in Instruction
    BY DEF IInv, TypeOK
  <1>2. inst' = [inst EXCEPT ![i] = new] /\ UNCHANGED <<blocks, body, parent, point>>
    BY <1>1 DEF AddIncoming
  <1>3. new = [kind |-> inst[i].kind, args |-> inst[i].args,
               targets |-> inst[i].targets, incoming |-> inst[i].incoming \cup {<<v, b>>}]
    BY <1>1, FieldIncoming
  <1>4. new \in Instruction
    <2>1. inst[i].incoming \cup {<<v, b>>} \in SUBSET (Insts \X Blocks)
      BY <1>1 DEF Instruction
    <2> HIDE DEF new
    <2> QED BY <1>1, <1>3, <2>1 DEF Instruction
  <1>5. /\ new.kind = "phi" /\ new.kind = inst[i].kind /\ new.args = inst[i].args
        /\ new.targets = inst[i].targets /\ new.incoming = inst[i].incoming \cup {<<v, b>>}
    BY <1>3 DEF AddIncoming
  <1> HIDE DEF new
  <1>6. inst'[i] = new /\ SameKinds
    BY <1>1, <1>2, <1>5 DEF SameKinds
  <1>7. i \in Placed /\ b \in Linked /\ parent[v] \in {b, entry}
    BY DEF AddIncoming
  <1>8. inst[v].kind \notin {"free", "erased"}
    BY <1>7, EditingAssumption DEF IInv, Kinds
  <1>9. Alive(i)'
    <2>1. Operands(i)' \subseteq Operands(i) \cup {v}
      BY <1>5, <1>6 DEF Operands
    <2>2. Operands(i) \subseteq Insts
      BY <1>1 DEF Instruction, Operands, ToSet
    <2>3. \A j \in Operands(i)' : inst'[j].kind \notin {"free", "erased"}
      BY <1>6, <1>8, <2>1, <2>2 DEF IInv, Alive, SameKinds
    <2>4. \A c \in inst'[i].targets \cup {p[2] : p \in inst'[i].incoming} : c \in Linked'
      BY <1>2, <1>5, <1>6, <1>7 DEF IInv, Alive, Linked
    <2> QED BY <2>3, <2>4 DEF Alive
  <1>10. DefinedFirst(i)'
    BY <1>2, <1>5, <1>6, <1>7 DEF IInv, DefinedFirst
  <1>11. entry \notin new.targets
    BY <1>5 DEF IInv, EntryApart
  <1> QED BY <1>2, <1>4, <1>5, <1>9, <1>10, <1>11, UsePreserves

\* What is defined before an instruction is in a block and not erased.
LEMMA DefinedAtAlive ==
  ASSUME IInv, NEW v \in Insts, NEW i \in Placed, DefinedAt(v, At(i))
  PROVE  v \in Placed /\ inst[v].kind \notin {"free", "erased"}
  <1>1. parent[v] \in {parent[i], entry}
    BY DefinedAtPlaced
  <1>2. v \in Placed
    BY <1>1, EditingAssumption DEF Placed
  <1> QED BY <1>2 DEF IInv, Kinds, Placed

\* An operand becomes something defined before the instruction.
LEMMA SetOperandPreserves ==
  ASSUME IInv, NEW i \in Insts, NEW v \in Insts, NEW k \in DOMAIN inst[i].args,
         SetOperand(i, k, v)
  PROVE  IInv'
  <1> DEFINE args == [inst[i].args EXCEPT ![k] = v]
             new == [inst[i] EXCEPT !.args = args]
  <1>1. inst \in [Insts -> Instruction] /\ inst[i] \in Instruction
    BY DEF IInv, TypeOK
  <1>2. inst' = [inst EXCEPT ![i] = new] /\ UNCHANGED <<blocks, body, parent, point>>
    BY <1>1 DEF SetOperand
  <1>3. inst[i].args \in Seq(Insts)
    BY <1>1 DEF Instruction
  <1>4. args \in Seq(Insts) /\ ToSet(args) \subseteq ToSet(inst[i].args) \cup {v}
    <2>1. k \in 1 .. Len(inst[i].args)
      BY <1>3, LenProperties
    <2>2. args \in Seq(Insts)
      BY <1>3, <2>1, ExceptSeq
    <2> QED BY <2>2 DEF ToSet
  <1> HIDE DEF args
  <1>5. new = [kind |-> inst[i].kind, args |-> args,
               targets |-> inst[i].targets, incoming |-> inst[i].incoming]
    BY <1>1, FieldArgs
  <1>6. new \in Instruction
    BY <1>1, <1>4, <1>5 DEF Instruction
  <1>7. /\ new.kind = inst[i].kind /\ new.args = args
        /\ new.targets = inst[i].targets /\ new.incoming = inst[i].incoming
    BY <1>5
  <1> HIDE DEF new
  <1>8. inst'[i] = new /\ SameKinds
    BY <1>1, <1>2, <1>7 DEF SameKinds
  <1>9. i \in Placed /\ DefinedAt(v, At(i))
    BY DEF SetOperand
  <1>10. v \in Placed /\ inst[v].kind \notin {"free", "erased"}
    BY <1>9, DefinedAtAlive
  <1>11. Operands(i)' \subseteq Operands(i) \cup {v}
    BY <1>4, <1>7, <1>8 DEF Operands
  <1>12. Alive(i)'
    <2>1. Operands(i) \subseteq Insts
      BY <1>1 DEF Instruction, Operands, ToSet
    <2>2. \A j \in Operands(i)' : inst'[j].kind \notin {"free", "erased"}
      BY <1>8, <1>10, <1>11, <2>1 DEF IInv, Alive, SameKinds
    <2>3. \A c \in inst'[i].targets \cup {p[2] : p \in inst'[i].incoming} : c \in Linked'
      BY <1>2, <1>7, <1>8 DEF IInv, Alive, Linked
    <2> QED BY <2>2, <2>3 DEF Alive
  <1>13. DefinedFirst(i)'
    <2>1. DefinedFirst(i)
      BY <1>9 DEF IInv
    <2>2. CASE inst[i].kind = "phi"
      BY <1>2, <1>7, <1>8, <2>1, <2>2 DEF DefinedFirst
    <2>3. CASE inst[i].kind # "phi"
      BY <1>2, <1>7, <1>8, <1>9, <1>11, <2>1, <2>3, PlacesUnmoved DEF DefinedFirst
    <2> QED BY <2>2, <2>3
  <1>14. /\ entry \notin new.targets
         /\ new.kind # "phi" => new.incoming = {}
    BY <1>7 DEF IInv, EntryApart, Kinds
  <1> QED BY <1>2, <1>6, <1>7, <1>12, <1>13, <1>14, UsePreserves

\* What comes first may replace what comes after it.
LEMMA ReplaceAllUsesWithPreserves ==
  ASSUME IInv, NEW v \in Insts, NEW new \in Insts, ReplaceAllUsesWith(v, new)
  PROVE  IInv'
  <1> DEFINE Out(p) == <<IF p[1] = v THEN new ELSE p[1], p[2]>>
  <1>1. inst \in [Insts -> Instruction] /\ \A i \in Insts : inst[i] \in Instruction
    BY DEF IInv, TypeOK
  <1>2. UNCHANGED <<blocks, body, parent, point>>
    BY DEF ReplaceAllUsesWith
  <1>3. /\ v \in Placed /\ new \in Placed
        /\ parent[new] = parent[v] /\ Position(new) < Position(v)
    BY DEF ReplaceAllUsesWith, MayReplace
  <1>4. \A i \in Insts :
          inst'[i] = [kind |-> inst[i].kind, args |-> ReplaceAll(inst[i].args, v, new),
                      targets |-> inst[i].targets,
                      incoming |-> {Out(p) : p \in inst[i].incoming}]
    <2>1. inst' = [i \in Insts |->
                     [inst[i] EXCEPT !.args = ReplaceAll(@, v, new),
                                     !.incoming = {Out(p) : p \in @}]]
      BY DEF ReplaceAllUsesWith
    <2> SUFFICES ASSUME NEW i \in Insts
                 PROVE  inst'[i] = [kind |-> inst[i].kind,
                                    args |-> ReplaceAll(inst[i].args, v, new),
                                    targets |-> inst[i].targets,
                                    incoming |-> {Out(p) : p \in inst[i].incoming}]
      OBVIOUS
    <2> DEFINE a == ReplaceAll(inst[i].args, v, new)
               c == {Out(p) : p \in inst[i].incoming}
    <2>2. inst'[i] = [inst[i] EXCEPT !.args = a, !.incoming = c]
      BY <2>1
    <2>3. inst[i] \in Instruction
      BY <1>1
    <2> HIDE DEF a, c
    <2>4. inst'[i] = [kind |-> inst[i].kind, args |-> a,
                      targets |-> inst[i].targets, incoming |-> c]
      BY <2>2, <2>3, FieldsTwo
    <2> QED BY <2>4 DEF a, c
  <1>5. \A i \in Insts : /\ inst'[i].kind = inst[i].kind
                         /\ inst'[i].args = ReplaceAll(inst[i].args, v, new)
                         /\ inst'[i].targets = inst[i].targets
                         /\ inst'[i].incoming = {Out(p) : p \in inst[i].incoming}
    <2> SUFFICES ASSUME NEW i \in Insts
                 PROVE  /\ inst'[i].kind = inst[i].kind
                        /\ inst'[i].args = ReplaceAll(inst[i].args, v, new)
                        /\ inst'[i].targets = inst[i].targets
                        /\ inst'[i].incoming = {Out(p) : p \in inst[i].incoming}
      OBVIOUS
    <2> DEFINE a == ReplaceAll(inst[i].args, v, new)
               c == {Out(p) : p \in inst[i].incoming}
    <2>1. inst'[i] = [kind |-> inst[i].kind, args |-> a,
                      targets |-> inst[i].targets, incoming |-> c]
      BY <1>4
    <2>2. /\ inst'[i].kind = inst[i].kind /\ inst'[i].args = a
          /\ inst'[i].targets = inst[i].targets /\ inst'[i].incoming = c
      <3> HIDE DEF a, c
      <3> QED BY <2>1
    <2> QED BY <2>2
  <1>6. SameKinds
    BY <1>5 DEF SameKinds
  <1>7. \A i \in Insts : /\ ReplaceAll(inst[i].args, v, new) \in Seq(Insts)
                         /\ \A j \in ToSet(ReplaceAll(inst[i].args, v, new)) :
                              j \in ToSet(inst[i].args) \/ (j = new /\ v \in ToSet(inst[i].args))
    <2> SUFFICES ASSUME NEW i \in Insts
                 PROVE  /\ ReplaceAll(inst[i].args, v, new) \in Seq(Insts)
                        /\ \A j \in ToSet(ReplaceAll(inst[i].args, v, new)) :
                             j \in ToSet(inst[i].args) \/ (j = new /\ v \in ToSet(inst[i].args))
      OBVIOUS
    <2> DEFINE s == inst[i].args
    <2>1. s \in Seq(Insts)
      BY <1>1 DEF Instruction
    <2> HIDE DEF s
    <2>2. Len(s) \in Nat /\ DOMAIN s = 1 .. Len(s) /\ \A k \in 1 .. Len(s) : s[k] \in Insts
      BY <2>1, LenProperties, ElementOfSeq
    <2>3. ReplaceAll(s, v, new) \in Seq(Insts)
      BY <2>2 DEF ReplaceAll
    <2>4. \A j \in ToSet(ReplaceAll(s, v, new)) : j \in ToSet(s) \/ (j = new /\ v \in ToSet(s))
      BY <2>2 DEF ReplaceAll, ToSet
    <2> QED BY <2>3, <2>4 DEF s
  <1>8. \A i \in Insts : \A q \in inst'[i].incoming :
          \E p \in inst[i].incoming : q[2] = p[2] /\ (q[1] = p[1] \/ (q[1] = new /\ p[1] = v))
    BY <1>5
  <1>9. \A i \in Insts : \A j \in Operands(i)' :
          j \in Operands(i) \/ (j = new /\ v \in Operands(i))
    <2> SUFFICES ASSUME NEW i \in Insts, NEW j \in Operands(i)'
                 PROVE  j \in Operands(i) \/ (j = new /\ v \in Operands(i))
      OBVIOUS
    <2>1. CASE j \in ToSet(inst'[i].args)
      <3>1. j \in ToSet(ReplaceAll(inst[i].args, v, new))
        BY <1>5, <2>1
      <3>2. j \in ToSet(inst[i].args) \/ (j = new /\ v \in ToSet(inst[i].args))
        BY <1>7, <3>1
      <3> QED BY <3>2 DEF Operands
    <2>2. CASE \E q \in inst'[i].incoming : j = q[1]
      BY <1>8, <2>2 DEF Operands
    <2> QED BY <2>1, <2>2 DEF Operands
  <1>10. inst' \in [Insts -> Instruction]
    <2>1. inst' = [i \in Insts |-> inst'[i]]
      BY DEF ReplaceAllUsesWith
    <2>2. \A i \in Insts : {Out(p) : p \in inst[i].incoming} \in SUBSET (Insts \X Blocks)
      BY <1>1 DEF Instruction
    <2>3. \A i \in Insts : inst'[i] \in Instruction
      <3> SUFFICES ASSUME NEW i \in Insts PROVE inst'[i] \in Instruction
        OBVIOUS
      <3> DEFINE a == ReplaceAll(inst[i].args, v, new)
                 c == {Out(p) : p \in inst[i].incoming}
      <3>1. /\ inst'[i] = [kind |-> inst[i].kind, args |-> a,
                           targets |-> inst[i].targets, incoming |-> c]
            /\ a \in Seq(Insts) /\ c \in SUBSET (Insts \X Blocks)
        BY <1>4, <1>7, <2>2
      <3> HIDE DEF a, c
      <3> QED BY <1>1, <3>1 DEF Instruction
    <2> QED BY <2>1, <2>3
  <1>11. \A i \in Insts : Alive(i)'
    <2> SUFFICES ASSUME NEW i \in Insts PROVE Alive(i)'
      OBVIOUS
    <2>1. inst[new].kind \notin {"free", "erased"}
      BY <1>3 DEF IInv, Kinds, Placed
    <2>2. Operands(i) \subseteq Insts
      BY <1>1 DEF Instruction, Operands, ToSet
    <2>3. \A j \in Operands(i)' : inst'[j].kind \notin {"free", "erased"}
      BY <1>6, <1>9, <2>1, <2>2 DEF IInv, Alive, SameKinds
    <2>4. \A c \in inst'[i].targets \cup {p[2] : p \in inst'[i].incoming} : c \in Linked'
      BY <1>2, <1>5, <1>8 DEF IInv, Alive, Linked
    <2> QED BY <2>3, <2>4 DEF Alive
  <1>12. \A i \in Placed : DefinedFirst(i)'
    <2> SUFFICES ASSUME NEW i \in Placed PROVE DefinedFirst(i)'
      OBVIOUS
    <2>1. i \in Insts /\ DefinedFirst(i)
      BY DEF IInv, Placed
    <2>2. CASE inst[i].kind = "phi"
      BY <1>2, <1>3, <1>5, <1>8, <2>1, <2>2 DEF DefinedFirst
    <2>3. CASE inst[i].kind # "phi"
      <3>1. ASSUME NEW j \in Operands(i)' \cap Placed PROVE DefinedAt(j, At(i))
        <4>1. CASE j \in Operands(i)
          BY <2>1, <2>3, <3>1, <4>1 DEF DefinedFirst
        <4>2. CASE j = new /\ v \in Operands(i)
          <5>1. DefinedAt(v, At(i))
            BY <1>3, <2>1, <2>3, <4>2 DEF DefinedFirst
          <5>2. Position(new) \in Nat /\ Position(v) \in Nat /\ Position(i) \in Nat
            BY <1>3, PositionIn DEF IInv
          <5> QED BY <1>3, <4>2, <5>1, <5>2, DefinedAtPlaced
        <4> QED BY <1>9, <2>1, <3>1, <4>1, <4>2
      <3> QED BY <1>2, <1>5, <2>1, <2>3, <3>1, PlacesUnmoved DEF DefinedFirst
    <2> QED BY <2>2, <2>3
  <1>13. /\ \A i \in Insts : inst[i].kind # "phi" => inst'[i].incoming = {}
         /\ \A i \in Insts : entry \notin inst'[i].targets
    BY <1>5 DEF IInv, Kinds, EntryApart
  <1> QED BY <1>2, <1>6, <1>10, <1>11, <1>12, <1>13, UsesPreserve

-----------------------------------------------------------------------------
(* Steps that put an instruction into a block.                             *)

\* PositionIs, after a step.
LEMMA PositionIsNext ==
  ASSUME TypeOK', Listed', ListedOnce',
         NEW b \in Blocks, NEW k \in DOMAIN body'[b], NEW j, body'[b][k] = j
  PROVE  parent'[j] = b /\ Position(j)' = k
  <1>1. body'[b] \in Seq(Insts)
    BY DEF TypeOK
  <1>2. j \in Insts
    BY <1>1, LenProperties, ElementOfSeq
  <1>3. parent'[j] = b
    BY <1>2 DEF Listed
  <1>4. (CHOOSE l \in DOMAIN body'[b] : body'[b][l] = j) = k
    BY IndexIs DEF ListedOnce
  <1> QED BY <1>3, <1>4 DEF Position

\* The list of b grows by i at n, and no other list changes.
Grown(new, old, b, n, i) == /\ new \in [Blocks -> Seq(Insts)]
                            /\ \A c \in Blocks : c # b => new[c] = old[c]
                            /\ Inserted(new[b], old[b], n, i)

\* Native insertion puts i where the instruction after the point was.
LEMMA LinkGrows ==
  ASSUME TypeOK, Listed, ListedOnce,
         NEW p, p.before \in Insts \cup {End}, p.block \in Blocks, Sound(p),
         NEW i \in Insts, Link(p, i)
  PROVE  \E n : /\ Grown(body', body, p.block, n, i)
                /\ p.before = End => n = Len(body[p.block]) + 1
                /\ p.before # End => /\ p.before \in Placed /\ parent[p.before] = p.block
                                     /\ n = Position(p.before)
  <1> DEFINE b == p.block
  <1>1. b # Nowhere
    BY EditingAssumption
  <1>2. /\ body \in [Blocks -> Seq(Insts)] /\ body[b] \in Seq(Insts)
        /\ Len(body[b]) \in Nat /\ DOMAIN body[b] = 1 .. Len(body[b])
    BY BodyList DEF TypeOK
  <1>3. CASE p.before = End
    <2> DEFINE list == Append(body[b], i)
    <2>1. body' = [body EXCEPT ![b] = list]
      BY <1>1, <1>3 DEF Link
    <2>2. list \in Seq(Insts) /\ Inserted(list, body[b], Len(body[b]) + 1, i)
      BY <1>2, AppendInserts
    <2> HIDE DEF list
    <2>3. Grown(body', body, b, Len(body[b]) + 1, i)
      BY <1>2, <2>1, <2>2 DEF Grown
    <2> QED BY <1>3, <2>3
  <1>4. CASE p.before # End
    <2> DEFINE k == p.before
               Where(c) == CHOOSE j \in DOMAIN body[c] : body[c][j] = k
    <2>1. k \in Insts /\ parent[k] = b /\ k \in Placed
      BY <1>1, <1>4 DEF Sound, Placed
    <2>2. body' = [c \in Blocks |-> IF Contains(body[c], k)
                                    THEN InsertAt(body[c], Where(c), i) ELSE body[c]]
      BY <1>1, <1>4 DEF Link
    <2>3. Position(k) \in DOMAIN body[b] /\ body[b][Position(k)] = k
      BY <2>1, PositionIn
    <2>4. Contains(body[b], k) /\ Where(b) = Position(k)
      BY <1>2, <2>1, <2>3 DEF Contains, Position
    <2>5. \A c \in Blocks : c # b => ~Contains(body[c], k)
      BY <2>1, BodyList DEF Contains, Listed
    <2> DEFINE list == InsertAt(body[b], Position(k), i)
    <2>6. list \in Seq(Insts) /\ Inserted(list, body[b], Position(k), i)
      <3>1. Position(k) \in 1 .. Len(body[b]) + 1
        BY <1>2, <2>3
      <3> QED BY <1>2, <3>1, InsertAtInserts
    <2>7. \A c \in Blocks : body'[c] = IF c = b THEN list ELSE body[c]
      BY <2>2, <2>4, <2>5
    <2>8. DOMAIN body' = Blocks /\ body' = [c \in Blocks |-> body'[c]]
      BY <2>2
    <2> HIDE DEF list
    <2>9. Grown(body', body, b, Position(k), i)
      BY <1>2, <2>6, <2>7, <2>8 DEF Grown
    <2> QED BY <1>4, <2>1, <2>9
  <1> QED BY <1>3, <1>4

\* i is in b now, and what was not before it in b is one further on.
LEMMA GrownPlaces ==
  ASSUME TypeOK, TypeOK', Listed, ListedOnce, UnlinkedEmpty,
         NEW b \in Linked, NEW n, NEW i \in Insts, parent[i] = Nowhere,
         Grown(body', body, b, n, i), parent' = [parent EXCEPT ![i] = b],
         UNCHANGED blocks
  PROVE  /\ Listed' /\ ListedOnce' /\ UnlinkedEmpty'
         /\ Position(i)' = n
         /\ \A j \in Placed :
              /\ parent'[j] = parent[j]
              /\ parent[j] = b /\ Position(j) >= n => Position(j)' = Position(j) + 1
              /\ ~(parent[j] = b /\ Position(j) >= n) => Position(j)' = Position(j)
  <1>1. b \in Blocks /\ b # Nowhere
    BY LinkedBlocks, EditingAssumption
  <1>2. \A j \in Insts : parent'[j] = IF j = i THEN b ELSE parent[j]
    BY DEF TypeOK
  <1>3. \A c \in Blocks : ~Has(body[c], i)
    BY Elsewhere, EditingAssumption
  <1>4. Inserted(body'[b], body[b], n, i) /\ \A c \in Blocks : c # b => body'[c] = body[c]
    BY DEF Grown
  <1>5. Listed'
    <2> SUFFICES ASSUME NEW j \in Insts, NEW c \in Blocks
                 PROVE  Has(body'[c], j) <=> parent'[j] = c
      BY DEF Listed, Has
    <2>1. Has(body[c], j) <=> parent[j] = c
      BY DEF Listed, Has
    <2>2. CASE c = b
      <3>1. Has(body'[b], j) <=> (Has(body[b], j) \/ j = i)
        BY <1>4, InsertedHas
      <3> QED BY <1>2, <2>1, <2>2, <3>1
    <2>3. CASE c # b
      BY <1>2, <1>3, <1>4, <2>1, <2>3
    <2> QED BY <2>2, <2>3
  <1>6. ListedOnce'
    <2>1. Distinct(body'[b])
      BY <1>1, <1>3, <1>4, InsertedDistinct DEF ListedOnce
    <2> QED BY <1>4, <2>1 DEF ListedOnce
  <1>7. UnlinkedEmpty'
    BY <1>4 DEF UnlinkedEmpty, Linked
  <1>8. Position(i)' = n
    <2>1. n \in DOMAIN body'[b] /\ body'[b][n] = i
      BY <1>4 DEF Inserted
    <2> QED BY <1>1, <1>5, <1>6, <2>1, PositionIsNext
  <1>9. ASSUME NEW j \in Placed
        PROVE  /\ parent'[j] = parent[j]
               /\ parent[j] = b /\ Position(j) >= n => Position(j)' = Position(j) + 1
               /\ ~(parent[j] = b /\ Position(j) >= n) => Position(j)' = Position(j)
    <2> DEFINE k == Position(j)
    <2>1. /\ j \in Insts /\ parent[j] \in Blocks /\ k \in DOMAIN body[parent[j]]
          /\ body[parent[j]][k] = j /\ k \in Nat
      BY PositionIn
    <2>2. j # i /\ parent'[j] = parent[j]
      BY <1>2 DEF Placed
    <2> HIDE DEF k
    <2>3. CASE parent[j] = b /\ k >= n
      <3>1. k + 1 \in DOMAIN body'[b] /\ body'[b][k + 1] = j
        BY <1>4, <2>1, <2>3, InsertedShift
      <3>2. Position(j)' = k + 1
        BY <1>1, <1>5, <1>6, <3>1, PositionIsNext
      <3> QED BY <2>2, <2>3, <3>2 DEF k
    <2>4. CASE ~(parent[j] = b /\ k >= n)
      <3>1. k \in DOMAIN body'[parent[j]] /\ body'[parent[j]][k] = j
        <4>1. CASE parent[j] = b
          <5>1. k < n
            BY <1>4, <2>1, <2>4, <4>1 DEF Inserted
          <5> QED BY <1>4, <2>1, <4>1, <5>1, InsertedShift
        <4>2. CASE parent[j] # b
          BY <1>4, <2>1, <4>2
        <4> QED BY <4>1, <4>2
      <3>2. Position(j)' = k
        BY <1>5, <1>6, <2>1, <3>1, PositionIsNext
      <3> QED BY <2>2, <2>4, <3>2 DEF k
    <2> QED BY <2>3, <2>4
  <1> QED BY <1>5, <1>6, <1>7, <1>8, <1>9

\* What room means for the neighbours of the place n that p stands at.
LEMMA RoomNeighbours ==
  ASSUME TypeOK, Listed, ListedOnce,
         NEW p, p.block \in Blocks, NEW n,
         p.before = End => n = Len(body[p.block]) + 1,
         p.before # End => p.before \in Placed /\ parent[p.before] = p.block
                           /\ n = Position(p.before),
         NEW kind \in {"value", "phi", "terminator"}, HasRoom(p, kind)
  PROVE  /\ n - 1 \in DOMAIN body[p.block] =>
              /\ kind = "phi" => inst[body[p.block][n - 1]].kind = "phi"
              /\ inst[body[p.block][n - 1]].kind # "terminator"
         /\ n \in DOMAIN body[p.block] =>
              /\ inst[body[p.block][n]].kind = "phi" => kind = "phi"
              /\ kind # "terminator"
         /\ kind = "phi" => p.block # entry
  <1> DEFINE b == p.block
             list == body[b]
  <1>1. Len(list) \in Nat /\ DOMAIN list = 1 .. Len(list)
        /\ \A k \in DOMAIN list : list[k] \in Insts
    BY BodyList
  <1>2. \A i \in Insts : inst[i].kind # "none"
    BY DEF TypeOK, Instruction
  <1>3. CASE p.before = End
    <2>1. Previous(p) = IF Len(list) = 0 THEN "none" ELSE inst[list[Len(list)]].kind
      BY <1>3 DEF Previous
    <2>2. n = Len(list) + 1
      BY <1>3
    <2> HIDE DEF list
    <2>3. n - 1 \in DOMAIN list => Previous(p) = inst[list[n - 1]].kind
      BY <1>1, <2>1, <2>2
    <2>4. n \notin DOMAIN list
      BY <1>1, <2>2
    <2>5. n - 1 \in DOMAIN list => Previous(p) # "none"
      BY <1>1, <1>2, <2>3
    <2>6. kind = "phi" => p.block # entry
      BY DEF HasRoom
    <2>7. n - 1 \in DOMAIN list => /\ kind = "phi" => inst[list[n - 1]].kind = "phi"
                                   /\ inst[list[n - 1]].kind # "terminator"
      BY <2>3, <2>5 DEF HasRoom
    <2> QED BY <2>4, <2>6, <2>7 DEF list
  <1>4. CASE p.before # End
    <2>1. /\ p.before \in Insts /\ parent[p.before] = b /\ n = Position(p.before)
          /\ n \in DOMAIN list /\ list[n] = p.before
      BY <1>4, PositionIn
    <2>2. Previous(p) = IF n - 1 = 0 THEN "none" ELSE inst[list[n - 1]].kind
      BY <1>4, <2>1 DEF Previous
    <2>3. Following(p) = inst[list[n]].kind
      BY <1>4, <2>1 DEF Following
    <2> HIDE DEF list
    <2>4. n - 1 \in DOMAIN list => Previous(p) = inst[list[n - 1]].kind
      BY <1>1, <2>2
    <2>5. n - 1 \in DOMAIN list => Previous(p) # "none"
      BY <1>1, <1>2, <2>4
    <2>6. Following(p) # "none"
      BY <1>2, <2>1, <2>3
    <2>7. kind = "phi" => p.block # entry
      BY DEF HasRoom
    <2>8. n - 1 \in DOMAIN list => /\ kind = "phi" => inst[list[n - 1]].kind = "phi"
                                   /\ inst[list[n - 1]].kind # "terminator"
      BY <2>4, <2>5 DEF HasRoom
    <2>9. /\ inst[list[n]].kind = "phi" => kind = "phi"
          /\ kind # "terminator"
      BY <2>3, <2>6 DEF HasRoom
    <2> QED BY <2>7, <2>8, <2>9 DEF list
  <1> QED BY <1>3, <1>4

\* An instruction is put where there is room for it, what it uses is defined
\* and what uses it comes behind.
LEMMA LinkPreserves ==
  ASSUME IInv, NEW x \in Builders, NEW i \in Insts, parent[i] = Nowhere,
         point[x].block # Nowhere, Link(point[x], i),
         NEW new \in Instruction, inst' = [inst EXCEPT ![i] = new],
         MayLink(point[x], new), new.kind \in {"value", "phi", "terminator"},
         new.kind # "phi" => new.incoming = {}, entry \notin new.targets,
         \A j \in ToSet(new.args) \cup {q[1] : q \in new.incoming} :
           inst[j].kind \notin {"free", "erased"},
         \A c \in new.targets \cup {q[2] : q \in new.incoming} : c \in Linked,
         DefinesUsesFrom(i, point[x]),
         \A q \in new.incoming : q[1] = i => point[x].block \in {q[2], entry}
  PROVE  IInv'
  <1> DEFINE p == point[x]
             b == p.block
  <1>1. /\ p.before \in Insts \cup {End} /\ b \in Blocks /\ b \in Linked /\ Sound(p)
    BY DEF IInv, TypeOK, BuildersSound, Sound
  <1>2. /\ TypeOK /\ Listed /\ ListedOnce /\ UnlinkedEmpty
        /\ inst \in [Insts -> Instruction] /\ parent \in [Insts -> Blocks \cup {Nowhere}]
    BY DEF IInv, TypeOK
  <1> HIDE DEF p
  <1>3. /\ UNCHANGED <<blocks, point>> /\ parent' = [parent EXCEPT ![i] = b] /\ Link(p, i)
    BY DEF Link, p
  <1>4. PICK n : /\ Grown(body', body, b, n, i)
                 /\ p.before = End => n = Len(body[b]) + 1
                 /\ p.before # End => /\ p.before \in Placed /\ parent[p.before] = b
                                      /\ n = Position(p.before)
    BY <1>1, <1>2, <1>3, LinkGrows
  <1>5. TypeOK'
    <2>1. inst' \in [Insts -> Instruction]
      BY <1>2
    <2>2. parent' \in [Insts -> Blocks \cup {Nowhere}]
      BY <1>1, <1>2, <1>3
    <2>3. body' \in [Blocks -> Seq(Insts)]
      BY <1>4 DEF Grown
    <2> QED BY <1>2, <1>3, <2>1, <2>2, <2>3 DEF TypeOK
  <1>6. /\ Listed' /\ ListedOnce' /\ UnlinkedEmpty'
        /\ Position(i)' = n
        /\ \A j \in Placed :
             /\ parent'[j] = parent[j]
             /\ parent[j] = b /\ Position(j) >= n => Position(j)' = Position(j) + 1
             /\ ~(parent[j] = b /\ Position(j) >= n) => Position(j)' = Position(j)
    BY <1>1, <1>2, <1>3, <1>4, <1>5, GrownPlaces
  <1>7. /\ \A j \in Insts : inst'[j] = IF j = i THEN new ELSE inst[j]
        /\ \A j \in Insts : parent'[j] = IF j = i THEN b ELSE parent[j]
    BY <1>2, <1>3
  <1>8. BuildersSound'
    BY <1>3, <1>7 DEF IInv, TypeOK, BuildersSound, Sound, Linked
  <1>9. Kinds'
    BY <1>7 DEF IInv, Kinds
  <1>10. EntryFirst'
    BY <1>3 DEF IInv, EntryFirst
  <1>11. HasRoom(p, new.kind)
         /\ (\A j \in ToSet(new.args) : DefinedAt(j, p))
         /\ \A q \in new.incoming : parent[q[1]] \in {q[2], entry, Nowhere}
    BY DEF MayLink, p
  <1>12. /\ n - 1 \in DOMAIN body[b] =>
              /\ new.kind = "phi" => inst[body[b][n - 1]].kind = "phi"
              /\ inst[body[b][n - 1]].kind # "terminator"
         /\ n \in DOMAIN body[b] =>
              /\ inst[body[b][n]].kind = "phi" => new.kind = "phi"
              /\ new.kind # "terminator"
         /\ new.kind = "phi" => b # entry
    BY <1>1, <1>2, <1>4, <1>11, RoomNeighbours
  <1>13. EntryApart'
    BY <1>7, <1>12 DEF IInv, EntryApart
  <1>14. Inserted(body'[b], body[b], n, i) /\ \A c \in Blocks : c # b => body'[c] = body[c]
    BY <1>4 DEF Grown
  <1>15. InOrder'
    <2>1. \A c \in Blocks : \A k \in DOMAIN body[c] : body[c][k] \in Insts /\ body[c][k] # i
      BY <1>2, BodyList, EditingAssumption DEF Listed
    <2>2. \A c \in Blocks : \A k \in DOMAIN body[c] : inst'[body[c][k]] = inst[body[c][k]]
      BY <1>7, <2>1
    <2> SUFFICES ASSUME NEW c \in Blocks, NEW k \in DOMAIN body'[c], k + 1 \in DOMAIN body'[c]
                 PROVE  /\ inst'[body'[c][k + 1]].kind = "phi" => inst'[body'[c][k]].kind = "phi"
                        /\ inst'[body'[c][k]].kind # "terminator"
      BY DEF InOrder, MayFollow
    <2>3. CASE c # b
      BY <1>14, <2>2, <2>3 DEF IInv, InOrder, MayFollow
    <2>4. CASE c = b
      <3> DEFINE s == body[b]
                 t == body'[b]
      <3>1. /\ Len(s) \in Nat /\ DOMAIN s = 1 .. Len(s) /\ DOMAIN t = 1 .. Len(s) + 1
            /\ n \in DOMAIN t /\ t[n] = i
            /\ \A l \in DOMAIN s : l < n => t[l] = s[l]
            /\ \A l \in DOMAIN t : l > n => t[l] = s[l - 1]
        BY <1>14 DEF Inserted
      <3>2. \A l \in DOMAIN s : inst'[s[l]] = inst[s[l]]
        BY <1>1, <2>2
      <3>3. \A l \in DOMAIN s : l + 1 \in DOMAIN s => MayFollow(s[l], s[l + 1])
        BY <1>1 DEF IInv, InOrder
      <3>4. inst'[i] = new
        BY <1>7
      <3>5. /\ k \in 1 .. Len(s) + 1 /\ k + 1 \in 1 .. Len(s) + 1
            /\ n \in 1 .. Len(s) + 1
        BY <2>4, <3>1
      <3> SUFFICES /\ inst'[t[k + 1]].kind = "phi" => inst'[t[k]].kind = "phi"
                   /\ inst'[t[k]].kind # "terminator"
        BY <2>4
      <3> HIDE DEF s, t
      <3>6. CASE k + 1 < n
        <4>1. /\ k \in DOMAIN s /\ k + 1 \in DOMAIN s
              /\ t[k] = s[k] /\ t[k + 1] = s[k + 1]
          BY <3>1, <3>5, <3>6
        <4> QED BY <3>2, <3>3, <4>1 DEF MayFollow
      <3>7. CASE k + 1 = n
        <4>1. k \in DOMAIN s /\ n - 1 = k /\ t[k] = s[k] /\ t[k + 1] = i
          BY <3>1, <3>5, <3>7
        <4> QED BY <1>12, <3>2, <3>4, <4>1 DEF s
      <3>8. CASE k = n
        <4>1. n \in DOMAIN s /\ t[k] = i /\ t[k + 1] = s[n]
          BY <3>1, <3>5, <3>8
        <4> QED BY <1>12, <3>2, <3>4, <4>1 DEF s
      <3>9. CASE k > n
        <4>1. /\ k - 1 \in DOMAIN s /\ (k - 1) + 1 = k /\ k \in DOMAIN s
              /\ t[k] = s[k - 1] /\ t[k + 1] = s[k]
          BY <3>1, <3>5, <3>9
        <4>2. MayFollow(s[k - 1], s[k])
          BY <3>3, <4>1
        <4> QED BY <3>2, <4>1, <4>2 DEF MayFollow
      <3> QED BY <3>5, <3>6, <3>7, <3>8, <3>9
    <2> QED BY <2>3, <2>4
  <1>16. \A u \in Insts : Alive(u)'
    <2> SUFFICES ASSUME NEW u \in Insts PROVE Alive(u)'
      OBVIOUS
    <2>1. Linked' = Linked
      BY <1>3 DEF Linked
    <2>2. \A j \in Insts : inst[j].kind \notin {"free", "erased"} =>
                           inst'[j].kind \notin {"free", "erased"}
      BY <1>7
    <2>3. CASE u = i
      <3>1. Operands(u)' = ToSet(new.args) \cup {q[1] : q \in new.incoming}
        BY <1>7, <2>3 DEF Operands
      <3>2. Operands(u)' \subseteq Insts
        BY <3>1 DEF Instruction, ToSet
      <3> QED BY <1>7, <2>1, <2>2, <2>3, <3>1, <3>2 DEF Alive
    <2>4. CASE u # i
      <3>1. Operands(u)' = Operands(u)
        BY <1>7, <2>4 DEF Operands
      <3>2. Operands(u) \subseteq Insts
        BY <1>2 DEF Instruction, Operands, ToSet
      <3> QED BY <1>7, <2>1, <2>2, <2>4, <3>1, <3>2 DEF IInv, Alive
    <2> QED BY <2>3, <2>4
  <1>17. \A u \in Placed' : DefinedFirst(u)'
    <2> SUFFICES ASSUME NEW u \in Placed' PROVE DefinedFirst(u)'
      OBVIOUS
    <2>1. u \in Insts /\ (u = i \/ u \in Placed)
      BY <1>7 DEF Placed
    <2>2. n \in Nat
      BY <1>14 DEF Inserted
    <2>3. \A j \in Placed : /\ j \in Insts /\ Position(j) \in Nat
                            /\ Position(j) \in DOMAIN body[parent[j]]
      BY <1>2, PositionIn
    <2>4. \A j \in Insts : \A v \in Placed' :
            DefinedAt(j, At(v))' <=> IF parent'[j] = parent'[v]
                                     THEN Position(j)' < Position(v)' ELSE parent'[j] = entry
      BY EditingAssumption DEF DefinedAt, At, Placed
    <2>5. CASE u = i /\ new.kind = "phi"
      <3>1. \A q \in new.incoming : q[1] \in Insts
        BY DEF Instruction
      <3> QED BY <1>7, <1>11, <2>5, <3>1 DEF DefinedFirst, p
    <2>6. CASE u = i /\ new.kind # "phi"
      <3>1. Operands(u)' = ToSet(new.args)
        BY <1>7, <2>6 DEF Operands
      <3>2. ASSUME NEW j \in ToSet(new.args) PROVE DefinedAt(j, At(u))'
        <4>1. j \in Insts /\ DefinedAt(j, p)
          BY <1>11 DEF Instruction, ToSet
        <4>2. CASE parent[j] = b
          <5>1. j \in Placed
            BY <1>1, <4>1, <4>2, EditingAssumption DEF Placed
          <5>2. Position(j) < n
            <6>1. CASE p.before = End
              <7>1. Len(body[b]) \in Nat /\ DOMAIN body[b] = 1 .. Len(body[b])
                BY <1>1, <1>2, BodyList
              <7> QED BY <1>4, <2>3, <4>2, <5>1, <6>1, <7>1
            <6>2. CASE p.before # End
              BY <1>4, <4>1, <4>2, <6>2 DEF DefinedAt
            <6> QED BY <6>1, <6>2
          <5>3. Position(j)' = Position(j) /\ parent'[j] = b
            BY <1>6, <2>2, <2>3, <4>2, <5>1, <5>2
          <5> QED BY <1>6, <1>7, <2>4, <2>6, <4>1, <5>2, <5>3
        <4>3. CASE parent[j] # b
          <5>1. parent[j] = entry
            BY <4>1, <4>3 DEF DefinedAt
          <5>2. j # i
            BY <5>1, EditingAssumption
          <5>3. parent'[j] = entry /\ parent'[u] = b
            BY <1>7, <2>6, <4>1, <5>1, <5>2
          <5> QED BY <2>4, <4>1, <4>3, <5>1, <5>3
        <4> QED BY <4>2, <4>3
      <3> QED BY <1>7, <2>6, <3>1, <3>2 DEF DefinedFirst
    <2>7. CASE u # i /\ inst[u].kind = "phi"
      <3>1. u \in Placed /\ DefinedFirst(u) /\ inst'[u] = inst[u]
        BY <1>7, <2>1, <2>7 DEF IInv
      <3>2. \A q \in inst[u].incoming : q[1] \in Insts
        BY <1>2, <2>1 DEF Instruction
      <3>3. \A q \in inst[u].incoming : q[1] = i => b \in {q[2], entry}
        <4> SUFFICES ASSUME NEW q \in inst[u].incoming, q[1] = i PROVE b \in {q[2], entry}
          OBVIOUS
        <4>1. u \in Users(i)
          BY <2>1 DEF Users, Operands
        <4> QED BY <2>7, <3>1, <4>1 DEF DefinesUsesFrom, p
      <3> QED BY <1>7, <2>7, <3>1, <3>2, <3>3 DEF DefinedFirst
    <2>8. CASE u # i /\ inst[u].kind # "phi"
      <3>1. u \in Placed /\ DefinedFirst(u) /\ inst'[u] = inst[u]
        BY <1>7, <2>1, <2>8 DEF IInv
      <3>2. Operands(u)' = Operands(u) /\ Operands(u) \subseteq Insts
        BY <1>2, <2>1, <3>1 DEF Operands, Instruction, ToSet
      <3>3. parent'[u] = parent[u]
        BY <1>6, <3>1
      <3>4. ASSUME i \in Operands(u) PROVE DefinedAt(i, At(u))'
        <4>1. u \in Users(i)
          BY <2>1, <3>4 DEF Users
        <4>2. IF parent[u] = b THEN p.before # End /\ Position(p.before) <= Position(u)
              ELSE b = entry
          BY <2>8, <3>1, <4>1 DEF DefinesUsesFrom, p
        <4>3. CASE parent[u] = b
          <5>1. Position(u) >= n
            BY <1>4, <2>2, <2>3, <3>1, <4>2, <4>3
          <5>2. Position(u)' = Position(u) + 1
            BY <1>6, <3>1, <4>3, <5>1
          <5>3. Position(i)' < Position(u)'
            BY <1>6, <2>2, <2>3, <3>1, <5>1, <5>2
          <5> QED BY <1>7, <2>4, <3>3, <4>3, <5>3
        <4>4. CASE parent[u] # b
          BY <1>7, <2>4, <3>3, <4>2, <4>4
        <4> QED BY <4>3, <4>4
      <3>5. ASSUME NEW j \in Operands(u) \cap Placed PROVE DefinedAt(j, At(u))'
        <4>1. IF parent[j] = parent[u] THEN Position(j) < Position(u) ELSE parent[j] = entry
          BY <2>8, <3>1, <3>5, DefinedAtPlaced DEF DefinedFirst
        <4>2. parent'[j] = parent[j]
          BY <1>6, <3>5
        <4>3. parent[j] = parent[u] => Position(j)' < Position(u)'
          <5> HAVE parent[j] = parent[u]
          <5>1. Position(j) < Position(u) /\ Position(j) \in Nat /\ Position(u) \in Nat
            BY <2>3, <3>1, <3>5, <4>1
          <5>2. Position(j)' \in {Position(j), Position(j) + 1}
            BY <1>6, <3>5
          <5>3. CASE parent[j] = b /\ Position(j) >= n
            <6>1. Position(j)' = Position(j) + 1 /\ Position(u)' = Position(u) + 1
                <7>1. Position(u) >= n
                BY <2>2, <5>1, <5>3
              <7> QED BY <1>6, <3>1, <3>5, <5>3, <7>1
            <6> QED BY <5>1, <6>1
          <5>4. CASE ~(parent[j] = b /\ Position(j) >= n)
            <6>1. Position(j)' = Position(j)
              BY <1>6, <3>5, <5>4
            <6>2. Position(u)' \in {Position(u), Position(u) + 1}
              BY <1>6, <3>1
            <6> QED BY <5>1, <6>1, <6>2
          <5> QED BY <5>3, <5>4
        <4> QED BY <2>4, <3>2, <3>3, <3>5, <4>1, <4>2, <4>3
      <3>6. \A j \in Operands(u)' \cap Placed' : j = i \/ j \in Operands(u) \cap Placed
        BY <1>7, <3>2 DEF Placed
      <3> QED BY <2>8, <3>1, <3>2, <3>4, <3>5, <3>6 DEF DefinedFirst
    <2> QED BY <2>1, <2>5, <2>6, <2>7, <2>8
  <1> QED BY <1>5, <1>6, <1>8, <1>9, <1>10, <1>13, <1>15, <1>16, <1>17 DEF IInv

\* An instruction that is nowhere becomes another one.
LEMMA AsidePreserves ==
  ASSUME IInv, NEW i \in Insts, parent[i] = Nowhere,
         NEW new \in Instruction, inst' = [inst EXCEPT ![i] = new],
         new.kind # "phi" => new.incoming = {}, entry \notin new.targets,
         \A u \in Insts : Alive(u)',
         UNCHANGED <<blocks, body, parent, point>>
  PROVE  IInv'
  <1>1. /\ inst' \in [Insts -> Instruction]
        /\ \A u \in Insts : inst'[u] = IF u = i THEN new ELSE inst[u]
    BY DEF IInv, TypeOK
  <1>2. TypeOK'
    BY <1>1 DEF IInv, TypeOK
  <1>3. Listed' /\ ListedOnce' /\ UnlinkedEmpty' /\ BuildersSound'
    BY DEF IInv, Listed, ListedOnce, UnlinkedEmpty, BuildersSound, Sound, Linked
  <1>4. Kinds' /\ EntryFirst' /\ EntryApart'
    BY <1>1, EditingAssumption DEF IInv, Kinds, EntryFirst, EntryApart
  <1>5. InOrder'
    <2>1. \A b \in Blocks : \A k \in DOMAIN body[b] : body[b][k] \in Insts /\ body[b][k] # i
      BY BodyList, EditingAssumption DEF IInv, Listed
    <2>2. \A b \in Blocks : \A k \in DOMAIN body[b] : inst'[body[b][k]] = inst[body[b][k]]
      BY <1>1, <2>1
    <2> QED BY <2>2 DEF IInv, InOrder, MayFollow
  <1>6. \A u \in Placed' : DefinedFirst(u)'
    <2> SUFFICES ASSUME NEW u \in Placed' PROVE DefinedFirst(u)'
      OBVIOUS
    <2>1. u \in Placed /\ u # i /\ u \in Insts
      BY DEF Placed
    <2>2. inst'[u] = inst[u] /\ Operands(u)' = Operands(u) /\ DefinedFirst(u)
      BY <1>1, <2>1 DEF IInv, Operands
    <2> QED BY <2>1, <2>2, PlacesUnmoved DEF DefinedFirst
  <1> QED BY <1>2, <1>3, <1>4, <1>5, <1>6 DEF IInv

\* A new instruction, in a block or nowhere.
LEMMA CreatePreserves ==
  ASSUME IInv, NEW x \in Builders, NEW new \in Instruction, Create(x, new),
         new.kind \in {"value", "phi", "terminator"}, new.incoming = {},
         new.targets \subseteq Linked \ {entry}, ToSet(new.args) \subseteq Placed
  PROVE  IInv'
  <1>1. PICK i \in Insts : /\ inst[i].kind = "free" /\ inst' = [inst EXCEPT ![i] = new]
                           /\ Link(point[x], i)
    BY DEF Create
  <1>2. parent[i] = Nowhere
    BY <1>1 DEF IInv, Kinds
  <1>3. Users(i) = {}
    BY <1>1 DEF IInv, Alive, Users
  <1>4. \A j \in ToSet(new.args) : j \in Insts /\ inst[j].kind \notin {"free", "erased"}
    BY DEF Placed, IInv, Kinds
  <1>5. MayLink(point[x], new)
    BY DEF Create
  <1>6. CASE point[x].block # Nowhere
    <2>1. DefinesUsesFrom(i, point[x])
      <3>1. Users(i) \cap (Placed \cup {i}) = {}
        BY <1>3
      <3> QED BY <3>1 DEF DefinesUsesFrom
    <2>2. /\ new.kind # "phi" => new.incoming = {}
          /\ entry \notin new.targets
          /\ \A q \in new.incoming : q[1] = i => point[x].block \in {q[2], entry}
      OBVIOUS
    <2>3. /\ \A j \in ToSet(new.args) \cup {q[1] : q \in new.incoming} :
               inst[j].kind \notin {"free", "erased"}
          /\ \A c \in new.targets \cup {q[2] : q \in new.incoming} : c \in Linked
      BY <1>4
    <2> QED BY <1>1, <1>2, <1>5, <1>6, <2>1, <2>2, <2>3, LinkPreserves
  <1>7. CASE point[x].block = Nowhere
    <2>1. UNCHANGED <<blocks, body, parent, point>>
      <3>1. body' = body
        BY <1>1, <1>7 DEF Link
      <3>2. parent' = parent
        BY <1>1, <1>2, <1>7 DEF Link, IInv, TypeOK
      <3> QED BY <1>1, <3>1, <3>2 DEF Link
    <2>2. \A u \in Insts : inst'[u] = IF u = i THEN new ELSE inst[u]
      BY <1>1 DEF IInv, TypeOK
    <2>3. \A u \in Insts : Alive(u)'
      <3> SUFFICES ASSUME NEW u \in Insts PROVE Alive(u)'
        OBVIOUS
      <3>1. \A j \in Insts : inst[j].kind \notin {"free", "erased"} =>
                             inst'[j].kind \notin {"free", "erased"}
        BY <2>2
      <3>2. CASE u = i
        <4>1. Operands(u)' = ToSet(new.args)
          BY <2>2, <3>2 DEF Operands
        <4> QED BY <1>4, <2>1, <2>2, <3>1, <3>2, <4>1 DEF Alive, Linked
      <3>3. CASE u # i
        <4>1. Operands(u)' = Operands(u)
          BY <2>2, <3>3 DEF Operands
        <4>2. Operands(u) \subseteq Insts
          BY DEF IInv, TypeOK, Instruction, Operands, ToSet
        <4> QED BY <2>1, <2>2, <3>1, <3>3, <4>1, <4>2 DEF IInv, Alive, Linked
      <3> QED BY <3>2, <3>3
    <2> QED BY <1>1, <1>2, <2>1, <2>3, AsidePreserves
  <1> QED BY <1>6, <1>7

\* A value that uses at most what is in a block.
LEMMA CreateValuePreserves ==
  ASSUME IInv, NEW x \in Builders, NEW args \in Seq(Insts), ToSet(args) \subseteq Placed,
         CreateValue(x, args)
  PROVE  IInv'
  <1> DEFINE new == [Blank("value") EXCEPT !.args = args]
  <1>1. new = [kind |-> "value", args |-> args, targets |-> {}, incoming |-> {}]
    <2> DEFINE r == Blank("value")
    <2>1. r \in Instruction
      BY DEF Blank, Instruction
    <2>2. r.kind = "value" /\ r.args = << >> /\ r.targets = {} /\ r.incoming = {}
      BY DEF Blank
    <2> HIDE DEF r
    <2>3. [r EXCEPT !.args = args] =
            [kind |-> r.kind, args |-> args, targets |-> r.targets, incoming |-> r.incoming]
      BY <2>1, FieldArgs
    <2> QED BY <2>2, <2>3 DEF r
  <1>2. Create(x, new)
    BY DEF CreateValue
  <1>3. new \in Instruction
    BY <1>1 DEF Instruction
  <1>4. new.kind = "value" /\ new.incoming = {} /\ new.targets = {} /\ new.args = args
    BY <1>1
  <1> HIDE DEF new
  <1> QED BY <1>2, <1>3, <1>4, CreatePreserves

\* No arguments.
LEMMA NoArguments == << >> \in Seq(Insts) /\ ToSet(<< >>) = {}
  BY DEF ToSet

\* A phi without blocks.
LEMMA CreatePHIPreserves ==
  ASSUME IInv, NEW x \in Builders, CreatePHI(x)
  PROVE  IInv'
  <1> DEFINE new == Blank("phi")
  <1>1. new \in Instruction
    BY DEF Blank, Instruction
  <1>2. new.kind = "phi" /\ new.incoming = {} /\ new.targets = {} /\ new.args = << >>
    BY DEF Blank
  <1>3. Create(x, new)
    BY DEF CreatePHI
  <1> HIDE DEF new
  <1> QED BY <1>1, <1>2, <1>3, NoArguments, CreatePreserves

\* A terminator.
LEMMA CreateTerminatorPreserves ==
  ASSUME IInv, NEW x \in Builders, NEW targets \in SUBSET (Linked \ {entry}),
         CreateTerminator(x, targets)
  PROVE  IInv'
  <1> DEFINE new == [Blank("terminator") EXCEPT !.targets = targets]
  <1>1. new = [kind |-> "terminator", args |-> << >>, targets |-> targets, incoming |-> {}]
    <2> DEFINE r == Blank("terminator")
    <2>1. r \in Instruction
      BY DEF Blank, Instruction
    <2>2. r.kind = "terminator" /\ r.args = << >> /\ r.targets = {} /\ r.incoming = {}
      BY DEF Blank
    <2> HIDE DEF r
    <2>3. [r EXCEPT !.targets = targets] =
            [kind |-> r.kind, args |-> r.args, targets |-> targets, incoming |-> r.incoming]
      BY <2>1, FieldTargets
    <2> QED BY <2>2, <2>3 DEF r
  <1>2. Create(x, new)
    BY DEF CreateTerminator
  <1>3. targets \in SUBSET Blocks
    BY LinkedBlocks DEF IInv
  <1>4. new \in Instruction
    <2> HIDE DEF new
    <2> QED BY <1>1, <1>3, NoArguments DEF Instruction
  <1>5. new.kind = "terminator" /\ new.incoming = {} /\ new.targets = targets
        /\ new.args = << >>
    BY <1>1
  <1> HIDE DEF new
  <1> QED BY <1>2, <1>4, <1>5, NoArguments, CreatePreserves

\* A removed instruction is put back.
LEMMA InsertPreserves ==
  ASSUME IInv, NEW x \in Builders, NEW i \in Insts, Insert(x, i)
  PROVE  IInv'
  <1> DEFINE new == inst[i]
  <1>1. /\ parent[i] = Nowhere /\ new.kind \notin {"free", "erased"}
        /\ point[x].block # Nowhere /\ MayLink(point[x], new)
        /\ DefinesUsesFrom(i, point[x]) /\ Link(point[x], i)
    BY DEF Insert, Floating
  <1>2. new \in Instruction /\ inst' = [inst EXCEPT ![i] = new]
    BY DEF Insert, IInv, TypeOK
  <1>3. new.kind \in {"value", "phi", "terminator"}
    BY <1>1, <1>2 DEF Instruction
  <1>4. /\ new.kind # "phi" => new.incoming = {}
        /\ entry \notin new.targets
    BY DEF IInv, Kinds, EntryApart
  <1>5. /\ \A j \in ToSet(new.args) \cup {q[1] : q \in new.incoming} :
             inst[j].kind \notin {"free", "erased"}
        /\ \A c \in new.targets \cup {q[2] : q \in new.incoming} : c \in Linked
    BY DEF IInv, Alive, Operands
  <1>6. \A q \in new.incoming : q[1] = i => point[x].block \in {q[2], entry}
    <2> SUFFICES ASSUME NEW q \in new.incoming, q[1] = i
                 PROVE  point[x].block \in {q[2], entry}
      OBVIOUS
    <2>1. new.kind = "phi" /\ i \in Users(i)
      BY <1>4 DEF Users, Operands
    <2> QED BY <1>1, <2>1 DEF DefinesUsesFrom
  <1> HIDE DEF new
  <1> QED BY <1>1, <1>2, <1>3, <1>4, <1>5, <1>6, LinkPreserves

-----------------------------------------------------------------------------
(* Steps that take instructions out of their blocks.                       *)

\* Native removal, read backwards, is an insertion.
LEMMA UnlinkShrinks ==
  ASSUME TypeOK, Listed, ListedOnce, NEW i \in Placed, Unlink(i)
  PROVE  /\ Grown(body, body', parent[i], Position(i), i)
         /\ body' \in [Blocks -> Seq(Insts)]
  <1> DEFINE b == parent[i]
             list == RemoveAt(body[b], Position(i))
  <1>1. /\ i \in Insts /\ b \in Blocks
        /\ Position(i) \in DOMAIN body[b] /\ body[b][Position(i)] = i
    BY PositionIn
  <1>2. body \in [Blocks -> Seq(Insts)] /\ body[b] \in Seq(Insts)
    BY <1>1 DEF TypeOK
  <1>3. list \in Seq(Insts) /\ Inserted(body[b], list, Position(i), i)
    BY <1>1, <1>2, RemoveAtInserts
  <1>4. body' = [body EXCEPT ![b] = list]
    BY DEF Unlink
  <1> HIDE DEF list, b
  <1>5. \A c \in Blocks : body'[c] = IF c = b THEN list ELSE body[c]
    BY <1>1, <1>2, <1>4
  <1>6. body' \in [Blocks -> Seq(Insts)]
    BY <1>1, <1>2, <1>3, <1>4
  <1> QED BY <1>1, <1>2, <1>3, <1>5, <1>6 DEF Grown, b

\* i is gone, and what was behind it in its block is one further up.
LEMMA ShrunkPlaces ==
  ASSUME TypeOK, TypeOK', Listed, ListedOnce, UnlinkedEmpty,
         NEW i \in Placed, Unlink(i)
  PROVE  /\ Listed' /\ ListedOnce' /\ UnlinkedEmpty'
         /\ \A j \in Placed : j # i =>
              /\ parent'[j] = parent[j]
              /\ parent[j] = parent[i] /\ Position(j) > Position(i) =>
                   Position(j)' = Position(j) - 1
              /\ ~(parent[j] = parent[i] /\ Position(j) > Position(i)) =>
                   Position(j)' = Position(j)
  <1> DEFINE b == parent[i]
             n == Position(i)
  <1>1. i \in Insts /\ b \in Blocks /\ n \in Nat
    BY PositionIn
  <1>2. \A j \in Insts : parent'[j] = IF j = i THEN Nowhere ELSE parent[j]
    BY <1>1 DEF Unlink, TypeOK
  <1>3. /\ Inserted(body[b], body'[b], n, i)
        /\ \A c \in Blocks : c # b => body'[c] = body[c]
    BY UnlinkShrinks DEF Grown
  <1> HIDE DEF n, b
  <1>4. Distinct(body'[b]) /\ ~Has(body'[b], i)
    BY <1>1, <1>3, RemovedDistinct DEF ListedOnce
  <1>5. Listed'
    <2> SUFFICES ASSUME NEW j \in Insts, NEW c \in Blocks
                 PROVE  Has(body'[c], j) <=> parent'[j] = c
      BY DEF Listed, Has
    <2>1. Has(body[c], j) <=> parent[j] = c
      BY DEF Listed, Has
    <2>2. CASE c = b
      <3>1. Has(body[b], j) <=> (Has(body'[b], j) \/ j = i)
        BY <1>3, InsertedHas
      <3> QED BY <1>1, <1>2, <1>4, <2>1, <2>2, <3>1, EditingAssumption
    <2>3. CASE c # b
      BY <1>2, <1>3, <2>1, <2>3, EditingAssumption DEF b
    <2> QED BY <2>2, <2>3
  <1>6. ListedOnce'
    BY <1>3, <1>4 DEF ListedOnce
  <1>7. UnlinkedEmpty'
    <2>1. b \in Linked
      BY PlacedLinked DEF b
    <2> QED BY <1>3, <2>1 DEF UnlinkedEmpty, Linked, Unlink
  <1>8. ASSUME NEW j \in Placed, j # i
        PROVE  /\ parent'[j] = parent[j]
               /\ parent[j] = b /\ Position(j) > n => Position(j)' = Position(j) - 1
               /\ ~(parent[j] = b /\ Position(j) > n) => Position(j)' = Position(j)
    <2> DEFINE k == Position(j)
    <2>1. /\ j \in Insts /\ parent[j] \in Blocks /\ k \in DOMAIN body[parent[j]]
          /\ body[parent[j]][k] = j /\ k \in Nat
      BY PositionIn
    <2>2. parent'[j] = parent[j]
      BY <1>2, <1>8, <2>1
    <2> HIDE DEF k
    <2>3. CASE parent[j] = b /\ k > n
      <3>1. k - 1 \in DOMAIN body'[b] /\ body'[b][k - 1] = j
        BY <1>3, <2>1, <2>3, InsertedUnshift
      <3>2. Position(j)' = k - 1
        BY <1>1, <1>5, <1>6, <3>1, PositionIsNext
      <3> QED BY <2>2, <2>3, <3>2 DEF k
    <2>4. CASE ~(parent[j] = b /\ k > n)
      <3>1. k \in DOMAIN body'[parent[j]] /\ body'[parent[j]][k] = j
        <4>1. CASE parent[j] = b
          <5>1. k < n
            BY <1>1, <1>3, <1>8, <2>1, <2>4, <4>1 DEF Inserted
          <5> QED BY <1>3, <2>1, <4>1, <5>1, InsertedUnshift
        <4>2. CASE parent[j] # b
          BY <1>3, <2>1, <4>2
        <4> QED BY <4>1, <4>2
      <3>2. Position(j)' = k
        BY <1>5, <1>6, <2>1, <3>1, PositionIsNext
      <3> QED BY <2>2, <2>4, <3>2 DEF k
    <2> QED BY <2>3, <2>4
  <1> QED BY <1>5, <1>6, <1>7, <1>8 DEF b, n

\* An instruction that no builder watches leaves its block, and becomes new.
LEMMA UnlinkPreserves ==
  ASSUME IInv, NEW i \in Insts, MayUnlink(i), Unlink(i),
         NEW new \in Instruction, inst' = [inst EXCEPT ![i] = new],
         new.kind # "phi" => new.incoming = {}, entry \notin new.targets,
         \A u \in Insts : Alive(u)'
  PROVE  IInv'
  <1> DEFINE b == parent[i]
             n == Position(i)
  <1>1. /\ TypeOK /\ Listed /\ ListedOnce /\ UnlinkedEmpty
        /\ inst \in [Insts -> Instruction] /\ parent \in [Insts -> Blocks \cup {Nowhere}]
    BY DEF IInv, TypeOK
  <1>2. i \in Placed /\ WatchedBy(i) = {}
    BY DEF MayUnlink
  <1>3. /\ b \in Blocks /\ n \in Nat
        /\ UNCHANGED <<blocks, point>>
        /\ \A j \in Insts : parent'[j] = IF j = i THEN Nowhere ELSE parent[j]
        /\ \A j \in Insts : inst'[j] = IF j = i THEN new ELSE inst[j]
    BY <1>1, <1>2, PositionIn DEF Unlink
  <1>4. TypeOK'
    <2>1. inst' \in [Insts -> Instruction] /\ parent' \in [Insts -> Blocks \cup {Nowhere}]
      BY <1>1 DEF Unlink
    <2>2. body' \in [Blocks -> Seq(Insts)]
      BY <1>1, <1>2, UnlinkShrinks
    <2> QED BY <1>1, <1>3, <2>1, <2>2 DEF TypeOK
  <1>5. /\ Listed' /\ ListedOnce' /\ UnlinkedEmpty'
        /\ \A j \in Placed : j # i =>
             /\ parent'[j] = parent[j]
             /\ parent[j] = b /\ Position(j) > n => Position(j)' = Position(j) - 1
             /\ ~(parent[j] = b /\ Position(j) > n) => Position(j)' = Position(j)
    BY <1>1, <1>2, <1>4, ShrunkPlaces
  <1>6. BuildersSound'
    BY <1>2, <1>3 DEF IInv, TypeOK, BuildersSound, Sound, Linked, WatchedBy
  <1>7. Kinds' /\ EntryFirst' /\ EntryApart'
    BY <1>3, EditingAssumption DEF IInv, Kinds, EntryFirst, EntryApart
  <1>8. /\ Inserted(body[b], body'[b], n, i)
        /\ \A c \in Blocks : c # b => body'[c] = body[c]
    BY <1>1, <1>2, UnlinkShrinks DEF Grown
  <1>9. InOrder'
    <2>1. \A c \in Blocks : \A k \in DOMAIN body'[c] : body'[c][k] \in Insts /\ body'[c][k] # i
      <3>1. \A c \in Blocks : body'[c] \in Seq(Insts)
        BY <1>4 DEF TypeOK
      <3>2. \A c \in Blocks : \A k \in DOMAIN body'[c] : body'[c][k] \in Insts
        BY <3>1, LenProperties, ElementOfSeq
      <3> QED BY <1>3, <1>5, <3>2, EditingAssumption DEF Listed
    <2>2. \A c \in Blocks : \A k \in DOMAIN body'[c] : inst'[body'[c][k]] = inst[body'[c][k]]
      BY <1>3, <2>1
    <2> SUFFICES ASSUME NEW c \in Blocks, NEW k \in DOMAIN body'[c], k + 1 \in DOMAIN body'[c]
                 PROVE  MayFollow(body'[c][k], body'[c][k + 1])
      BY <2>2 DEF InOrder, MayFollow
    <2>3. CASE c # b
      BY <1>8, <2>3 DEF IInv, InOrder
    <2>4. CASE c = b
      <3> DEFINE s == body'[b]
                 t == body[b]
      <3>1. /\ Len(s) \in Nat /\ DOMAIN s = 1 .. Len(s) /\ DOMAIN t = 1 .. Len(s) + 1
            /\ n \in DOMAIN t
            /\ \A l \in DOMAIN s : l < n => t[l] = s[l]
            /\ \A l \in DOMAIN s : l >= n => t[l + 1] = s[l]
        BY <1>8 DEF Inserted
      <3>2. \A l \in DOMAIN t : l + 1 \in DOMAIN t => MayFollow(t[l], t[l + 1])
        BY <1>3 DEF IInv, InOrder
      <3>3. k \in 1 .. Len(s) /\ k + 1 \in 1 .. Len(s) /\ n \in 1 .. Len(s) + 1
        BY <2>4, <3>1
      <3> SUFFICES MayFollow(s[k], s[k + 1])
        BY <2>4
      <3> HIDE DEF s, t, n
      <3>4. CASE k + 1 < n
        <4>1. k \in DOMAIN t /\ k + 1 \in DOMAIN t /\ t[k] = s[k] /\ t[k + 1] = s[k + 1]
          BY <3>1, <3>3, <3>4
        <4> QED BY <3>2, <4>1
      <3>5. CASE k + 1 = n
        <4>1. /\ k \in DOMAIN t /\ k + 1 \in DOMAIN t /\ (k + 1) + 1 \in DOMAIN t
              /\ t[k] = s[k] /\ t[(k + 1) + 1] = s[k + 1]
          BY <3>1, <3>3, <3>5
        <4>2. MayFollow(t[k], t[k + 1]) /\ MayFollow(t[k + 1], t[(k + 1) + 1])
          BY <3>2, <4>1
        <4> QED BY <4>1, <4>2 DEF MayFollow
      <3>6. CASE k >= n
        <4>1. /\ k + 1 \in DOMAIN t /\ (k + 1) + 1 \in DOMAIN t
              /\ t[k + 1] = s[k] /\ t[(k + 1) + 1] = s[k + 1]
          BY <3>1, <3>3, <3>6
        <4> QED BY <3>2, <4>1
      <3> QED BY <3>3, <3>4, <3>5, <3>6
    <2> QED BY <2>3, <2>4
  <1>10. \A u \in Placed' : DefinedFirst(u)'
    <2> SUFFICES ASSUME NEW u \in Placed' PROVE DefinedFirst(u)'
      OBVIOUS
    <2>1. /\ u \in Placed /\ u \in Insts /\ u # i /\ DefinedFirst(u)
          /\ inst'[u] = inst[u] /\ parent'[u] = parent[u]
      BY <1>3 DEF Placed, IInv
    <2>2. Operands(u)' = Operands(u) /\ Operands(u) \subseteq Insts
      BY <1>1, <2>1 DEF Operands, Instruction, ToSet
    <2>3. CASE inst[u].kind = "phi"
      <3>1. \A q \in inst[u].incoming : q[1] \in Insts
        BY <1>1, <2>1 DEF Instruction
      <3> QED BY <1>3, <2>1, <2>3, <3>1 DEF DefinedFirst
    <2>4. CASE inst[u].kind # "phi"
      <3>1. ASSUME NEW j \in Operands(u) \cap Placed' PROVE DefinedAt(j, At(u))'
        <4>1. j \in Placed /\ j # i /\ j \in Insts /\ parent'[j] = parent[j]
          BY <1>3, <3>1 DEF Placed
        <4>2. IF parent[j] = parent[u] THEN Position(j) < Position(u) ELSE parent[j] = entry
          BY <2>1, <2>4, <3>1, <4>1, DefinedAtPlaced DEF DefinedFirst
        <4>3. Position(j) \in Nat /\ Position(u) \in Nat /\ Position(i) \in Nat
          BY <1>1, <1>2, <2>1, <4>1, PositionIn
        <4>4. parent[j] = parent[u] => Position(j)' < Position(u)'
          <5> HAVE parent[j] = parent[u]
          <5>1. Position(j) < Position(u)
            BY <4>2
          <5> HIDE DEF n
          <5>2. CASE parent[j] = b /\ Position(u) > n
            <6>1. Position(u)' = Position(u) - 1
              BY <1>5, <2>1, <5>2
            <6>2. CASE Position(j) > n
              <7>1. Position(j)' = Position(j) - 1
                BY <1>5, <4>1, <5>2, <6>2
              <7> QED BY <4>3, <5>1, <6>1, <7>1
            <6>3. CASE ~(Position(j) > n)
              <7>1. Position(j)' = Position(j)
                BY <1>5, <4>1, <5>2, <6>3
              <7>2. Position(j) # n
                <8>1. body[b][Position(j)] = j /\ body[b][Position(i)] = i
                  BY <1>1, <1>2, <4>1, <5>2, PositionIn
                <8> QED BY <4>1, <8>1 DEF n
              <7>3. n \in Nat
                BY <4>3 DEF n
              <7>4. Position(j) < n
                BY <4>3, <6>3, <7>2, <7>3
              <7> QED BY <4>3, <5>2, <6>1, <7>1, <7>3, <7>4
            <6> QED BY <6>2, <6>3
          <5>3. CASE ~(parent[j] = b /\ Position(u) > n)
            <6>1. Position(u)' = Position(u)
              BY <1>5, <2>1, <5>3
            <6>2. ~(parent[j] = b /\ Position(j) > n)
              BY <1>3, <4>3, <5>1, <5>3 DEF n
            <6>3. Position(j)' = Position(j)
              BY <1>5, <4>1, <6>2
            <6> QED BY <5>1, <6>1, <6>3
          <5> QED BY <5>2, <5>3
        <4>5. DefinedAt(j, At(u))' <=> IF parent'[j] = parent'[u]
                                       THEN Position(j)' < Position(u)' ELSE parent'[j] = entry
          BY <2>1, EditingAssumption DEF DefinedAt, At
        <4> QED BY <2>1, <4>1, <4>2, <4>4, <4>5
      <3> QED BY <2>1, <2>2, <2>4, <3>1 DEF DefinedFirst
    <2> QED BY <2>3, <2>4
  <1> QED BY <1>4, <1>5, <1>6, <1>7, <1>9, <1>10 DEF IInv

\* A removed instruction is kept as it is.
LEMMA RemoveFromParentPreserves ==
  ASSUME IInv, NEW i \in Insts, RemoveFromParentAsInstruction(i)
  PROVE  IInv'
  <1> DEFINE new == inst[i]
  <1>1. MayUnlink(i) /\ Unlink(i) /\ inst' = inst /\ blocks' = blocks
    BY DEF RemoveFromParentAsInstruction, Unlink
  <1>2. new \in Instruction /\ inst' = [inst EXCEPT ![i] = new]
    BY <1>1 DEF IInv, TypeOK
  <1>3. /\ new.kind # "phi" => new.incoming = {}
        /\ entry \notin new.targets
    BY DEF IInv, Kinds, EntryApart
  <1>4. \A u \in Insts : Alive(u)'
    BY <1>1 DEF IInv, Alive, Operands, Linked
  <1> HIDE DEF new
  <1> QED BY <1>1, <1>2, <1>3, <1>4, UnlinkPreserves

\* An erased one is gone: nothing used it.
LEMMA EraseFromParentPreserves ==
  ASSUME IInv, NEW i \in Insts, EraseFromParentAsInstruction(i)
  PROVE  IInv'
  <1> DEFINE new == Blank("erased")
  <1>1. /\ MayUnlink(i) /\ Users(i) = {} /\ Unlink(i) /\ blocks' = blocks
        /\ inst' = [inst EXCEPT ![i] = new]
    BY DEF EraseFromParentAsInstruction, Unlink
  <1>2. new \in Instruction
    BY DEF Blank, Instruction
  <1>3. new.args = << >> /\ new.incoming = {} /\ new.targets = {}
    BY DEF Blank
  <1> HIDE DEF new
  <1>4. \A u \in Insts : inst'[u] = IF u = i THEN new ELSE inst[u]
    BY <1>1 DEF IInv, TypeOK
  <1>5. \A u \in Insts : Alive(u)'
    <2> SUFFICES ASSUME NEW u \in Insts PROVE Alive(u)'
      OBVIOUS
    <2>1. CASE u = i
      <3>1. Operands(u)' = {}
        BY <1>3, <1>4, <2>1, NoArguments DEF Operands
      <3> QED BY <1>3, <1>4, <2>1, <3>1 DEF Alive
    <2>2. CASE u # i
      <3>1. Operands(u)' = Operands(u)
        BY <1>4, <2>2 DEF Operands
      <3>2. Operands(u) \subseteq Insts /\ i \notin Operands(u)
        <4>1. Operands(u) \subseteq Insts
          BY DEF IInv, TypeOK, Instruction, Operands, ToSet
        <4> QED BY <1>1, <4>1 DEF Users
      <3> QED BY <1>1, <1>4, <2>2, <3>1, <3>2 DEF IInv, Alive, Linked
    <2> QED BY <2>1, <2>2
  <1> QED BY <1>1, <1>2, <1>3, <1>5, UnlinkPreserves

\* A block goes with all that is in it.
LEMMA EraseBlockPreserves ==
  ASSUME IInv, NEW b \in Blocks, EraseBlock(b)
  PROVE  IInv'
  <1> DEFINE own == ToSet(body[b])
  <1>1. /\ TypeOK /\ Listed /\ ListedOnce /\ UnlinkedEmpty /\ blocks \in Seq(Blocks)
        /\ inst \in [Insts -> Instruction] /\ parent \in [Insts -> Blocks \cup {Nowhere}]
        /\ body \in [Blocks -> Seq(Insts)]
    BY DEF IInv, TypeOK
  <1>2. /\ b \in Linked /\ b # entry
        /\ \A x \in Builders : point[x].block # b
        /\ BlockUsers(b) \subseteq own /\ PhisOver(b) \subseteq own
        /\ \A i \in own : Users(i) \subseteq own
    BY DEF EraseBlock, MayEraseBlock
  <1>3. \A i \in Insts : i \in own <=> parent[i] = b
    BY <1>1 DEF Listed, ToSet
  <1>4. own \subseteq Insts
    BY <1>1, BodyList DEF ToSet
  <1>5. /\ \A i \in Insts : inst'[i] = IF i \in own THEN Blank("erased") ELSE inst[i]
        /\ \A i \in Insts : parent'[i] = IF i \in own THEN Nowhere ELSE parent[i]
        /\ \A c \in Blocks : body'[c] = IF c = b THEN << >> ELSE body[c]
        /\ point' = point /\ blocks' = RemoveAt(blocks, IndexOf(b))
    BY <1>1 DEF EraseBlock
  <1> HIDE DEF own
  <1>6. blocks' \in Seq(Blocks) /\ Inserted(blocks, blocks', IndexOf(b), b)
    <2>1. IndexOf(b) \in DOMAIN blocks /\ blocks[IndexOf(b)] = b
      BY <1>2, IndexOfLinked
    <2> QED BY <1>1, <1>5, <2>1, RemoveAtInserts
  <1>7. EntryFirst' /\ ~Has(blocks', b)
    BY <1>2, <1>6, RemovedBehindEntry DEF IInv, EntryFirst
  <1>8. \A c : c \in Linked' <=> (c \in Linked /\ c # b)
    BY <1>6, <1>7, InsertedHas, LinkedHas, LinkedHasNext
  <1>9. Blank("erased") \in Instruction
    BY DEF Blank, Instruction
  <1>10. /\ Blank("erased").kind = "erased" /\ Blank("erased").args = << >>
         /\ Blank("erased").targets = {} /\ Blank("erased").incoming = {}
    BY DEF Blank
  <1>11. TypeOK'
    <2>1. inst' \in [Insts -> Instruction]
      BY <1>1, <1>9 DEF EraseBlock
    <2>2. parent' \in [Insts -> Blocks \cup {Nowhere}]
      BY <1>1 DEF EraseBlock
    <2>3. body' \in [Blocks -> Seq(Insts)]
      BY <1>1, NoArguments DEF EraseBlock
    <2> QED BY <1>1, <1>5, <1>6, <2>1, <2>2, <2>3 DEF TypeOK
  <1>12. DOMAIN << >> = {}
    OBVIOUS
  <1>13. Listed' /\ ListedOnce' /\ UnlinkedEmpty'
    <2>1. Listed'
      <3> SUFFICES ASSUME NEW i \in Insts, NEW c \in Blocks
                   PROVE  Has(body'[c], i) <=> parent'[i] = c
        BY DEF Listed, Has
      <3>1. Has(body[c], i) <=> parent[i] = c
        BY <1>1 DEF Listed, Has
      <3>2. CASE c = b
        BY <1>3, <1>5, <1>12, <3>2, EditingAssumption DEF Has
      <3>3. CASE c # b
        BY <1>3, <1>5, <3>1, <3>3, EditingAssumption
      <3> QED BY <3>2, <3>3
    <2>2. ListedOnce'
      BY <1>1, <1>5, <1>12 DEF ListedOnce, Distinct
    <2>3. UnlinkedEmpty'
      BY <1>1, <1>5, <1>8 DEF UnlinkedEmpty
    <2> QED BY <2>1, <2>2, <2>3
  <1>14. BuildersSound'
    <2> SUFFICES ASSUME NEW x \in Builders, point[x].block # Nowhere
                 PROVE  /\ point[x].block \in Linked'
                        /\ point[x].before = End \/ parent'[point[x].before] = point[x].block
      BY <1>5 DEF BuildersSound, Sound
    <2>1. /\ point[x].block \in Linked /\ point[x].before \in Insts \cup {End}
          /\ point[x].before = End \/ parent[point[x].before] = point[x].block
      BY DEF IInv, TypeOK, BuildersSound, Sound
    <2> QED BY <1>2, <1>3, <1>5, <1>8, <2>1
  <1>15. Kinds' /\ EntryApart'
    BY <1>5, <1>10, EditingAssumption DEF IInv, Kinds, EntryApart
  <1>16. InOrder'
    <2> SUFFICES ASSUME NEW c \in Blocks, NEW k \in DOMAIN body'[c], k + 1 \in DOMAIN body'[c]
                 PROVE  /\ inst'[body'[c][k + 1]].kind = "phi" => inst'[body'[c][k]].kind = "phi"
                        /\ inst'[body'[c][k]].kind # "terminator"
      BY DEF InOrder, MayFollow
    <2>1. c # b /\ body'[c] = body[c]
      BY <1>5, <1>12
    <2>2. /\ body[c][k] \in Insts /\ body[c][k + 1] \in Insts
          /\ parent[body[c][k]] = c /\ parent[body[c][k + 1]] = c
      BY <1>1, <2>1, PositionIs, BodyList
    <2>3. inst'[body[c][k]] = inst[body[c][k]] /\ inst'[body[c][k + 1]] = inst[body[c][k + 1]]
      BY <1>3, <1>5, <2>1, <2>2
    <2> QED BY <2>1, <2>3 DEF IInv, InOrder, MayFollow
  <1>17. \A u \in Insts : u \notin own => /\ inst'[u] = inst[u]
                                          /\ Operands(u)' = Operands(u)
                                          /\ Operands(u) \subseteq Insts \ own
    <2> SUFFICES ASSUME NEW u \in Insts, u \notin own
                 PROVE  /\ inst'[u] = inst[u] /\ Operands(u)' = Operands(u)
                        /\ Operands(u) \subseteq Insts \ own
      OBVIOUS
    <2>1. inst'[u] = inst[u]
      BY <1>5
    <2>2. Operands(u)' = Operands(u)
      BY <2>1 DEF Operands
    <2>3. Operands(u) \subseteq Insts
      BY <1>1 DEF Instruction, Operands, ToSet
    <2>4. \A j \in own : j \notin Operands(u)
      BY <1>2 DEF Users
    <2> QED BY <2>1, <2>2, <2>3, <2>4
  <1>18. \A u \in Insts : Alive(u)'
    <2> SUFFICES ASSUME NEW u \in Insts PROVE Alive(u)'
      OBVIOUS
    <2>1. CASE u \in own
      <3>1. inst'[u] = Blank("erased")
        BY <1>5, <2>1
      <3>2. Operands(u)' = {}
        BY <1>10, <3>1, NoArguments DEF Operands
      <3> QED BY <1>10, <3>1, <3>2 DEF Alive
    <2>2. CASE u \notin own
      <3>1. Alive(u) /\ inst'[u] = inst[u] /\ Operands(u)' = Operands(u)
            /\ Operands(u) \subseteq Insts \ own
        BY <1>17, <2>2 DEF IInv
      <3>2. b \notin inst[u].targets /\ \A q \in inst[u].incoming : q[2] # b
        BY <1>2, <2>2 DEF BlockUsers, PhisOver
      <3> QED BY <1>5, <1>8, <3>1, <3>2 DEF Alive
    <2> QED BY <2>1, <2>2
  <1>19. \A u \in Placed' : DefinedFirst(u)'
    <2> SUFFICES ASSUME NEW u \in Placed' PROVE DefinedFirst(u)'
      OBVIOUS
    <2>1. u \in Placed /\ u \in Insts /\ u \notin own /\ parent'[u] = parent[u]
      BY <1>5 DEF Placed
    <2>2. /\ DefinedFirst(u) /\ inst'[u] = inst[u] /\ Operands(u)' = Operands(u)
          /\ Operands(u) \subseteq Insts \ own
      BY <1>17, <2>1 DEF IInv
    <2>3. CASE inst[u].kind = "phi"
      <3>1. \A q \in inst[u].incoming : q[1] \in Insts
        BY <1>1, <2>1 DEF Instruction
      <3> QED BY <1>5, <2>2, <2>3, <3>1 DEF DefinedFirst
    <2>4. CASE inst[u].kind # "phi"
      <3>1. ASSUME NEW v \in Insts \ own, v \in Placed
            PROVE  parent'[v] = parent[v] /\ Position(v)' = Position(v)
        <4>1. parent'[v] = parent[v] /\ parent[v] # b /\ parent[v] \in Blocks
          BY <1>1, <1>3, <1>5, <3>1 DEF Placed
        <4>2. body'[parent[v]] = body[parent[v]]
          BY <1>5, <4>1
        <4> QED BY <4>1, <4>2 DEF Position
      <3>2. ASSUME NEW j \in Operands(u)' \cap Placed' PROVE DefinedAt(j, At(u))'
        <4>1. j \in Insts \ own /\ j \in Placed /\ j \in Operands(u)
          BY <1>5, <2>2, <3>2 DEF Placed
        <4>2. IF parent[j] = parent[u] THEN Position(j) < Position(u) ELSE parent[j] = entry
          BY <2>1, <2>2, <2>4, <4>1, DefinedAtPlaced DEF DefinedFirst
        <4>3. DefinedAt(j, At(u))' <=> IF parent'[j] = parent'[u]
                                       THEN Position(j)' < Position(u)' ELSE parent'[j] = entry
          BY <2>1, EditingAssumption DEF DefinedAt, At
        <4>4. /\ parent'[j] = parent[j] /\ Position(j)' = Position(j)
              /\ parent'[u] = parent[u] /\ Position(u)' = Position(u)
          BY <2>1, <3>1, <4>1
        <4> QED BY <4>2, <4>3, <4>4
      <3> QED BY <2>2, <2>4, <3>2 DEF DefinedFirst
    <2> QED BY <2>3, <2>4
  <1> QED BY <1>7, <1>11, <1>13, <1>14, <1>15, <1>16, <1>18, <1>19 DEF IInv

-----------------------------------------------------------------------------
(* The theorems.                                                           *)

\* An empty function.
LEMMA InvInit == Init => IInv
  <1> SUFFICES ASSUME Init PROVE IInv
    OBVIOUS
  <1>1. blocks \in Seq(Blocks) /\ DOMAIN blocks = {1} /\ blocks[1] = entry
    BY EditingAssumption DEF Init
  <1>2. \A b \in Blocks : body[b] = << >> /\ DOMAIN body[b] = {}
    BY DEF Init
  <1>3. \A i \in Insts : inst[i] = Blank("free") /\ parent[i] = Nowhere
    BY DEF Init
  <1>4. /\ Blank("free").kind = "free" /\ Blank("free").args = << >>
        /\ Blank("free").targets = {} /\ Blank("free").incoming = {}
        /\ Blank("free") \in Instruction
    BY DEF Blank, Instruction
  <1>5. TypeOK
    <2>1. body \in [Blocks -> Seq(Insts)] /\ parent \in [Insts -> Blocks \cup {Nowhere}]
      BY NoArguments DEF Init
    <2>2. inst \in [Insts -> Instruction]
      BY <1>4 DEF Init
    <2>3. point \in [Builders -> [block : Blocks \cup {Nowhere}, before : Insts \cup {End}]]
      BY DEF Init
    <2> QED BY <1>1, <2>1, <2>2, <2>3 DEF TypeOK
  <1>6. Listed /\ ListedOnce /\ UnlinkedEmpty
    BY <1>2, <1>3, EditingAssumption DEF Listed, ListedOnce, UnlinkedEmpty, Distinct
  <1>7. BuildersSound
    BY DEF Init, BuildersSound, Sound
  <1>8. Kinds /\ EntryFirst /\ EntryApart /\ InOrder
    BY <1>1, <1>2, <1>3, <1>4 DEF Kinds, EntryFirst, EntryApart, InOrder, Distinct
  <1>9. \A i \in Insts : Alive(i)
    <2>1. \A i \in Insts : Operands(i) = {}
      BY <1>3, <1>4, NoArguments DEF Operands
    <2> QED BY <1>3, <1>4, <2>1 DEF Alive
  <1>10. Placed = {}
    BY <1>3 DEF Placed
  <1> QED BY <1>5, <1>6, <1>7, <1>8, <1>9, <1>10 DEF IInv

\* Nothing happens.
LEMMA StutterPreserves == ASSUME IInv, UNCHANGED vars PROVE IInv'
  <1>1. /\ blocks' \in Seq(Blocks) /\ EntryFirst' /\ Linked \subseteq Linked'
        /\ UNCHANGED <<body, inst, parent, point>>
    BY DEF IInv, TypeOK, EntryFirst, Linked, vars
  <1> QED BY <1>1, OrderPreserves

\* Every step on blocks,
LEMMA BlockStepPreserves == ASSUME IInv, BlockStep PROVE IInv'
  <1>1. ASSUME NEW b \in Blocks, AddBasicBlock(b) PROVE IInv'
    BY <1>1, AddBasicBlockPreserves
  <1>2. ASSUME NEW b \in Blocks, EraseBlock(b) PROVE IInv'
    BY <1>2, EraseBlockPreserves
  <1>3. ASSUME NEW b \in Blocks, NEW pos \in Blocks, InsertBasicBlock(pos, b) PROVE IInv'
    BY <1>3, InsertBasicBlockPreserves
  <1>4. ASSUME NEW b \in Blocks, NEW pos \in Blocks, MoveBefore(b, pos) PROVE IInv'
    BY <1>4, MoveBeforePreserves
  <1>5. ASSUME NEW b \in Blocks, NEW pos \in Blocks, MoveAfter(b, pos) PROVE IInv'
    BY <1>5, MoveAfterPreserves
  <1> QED BY <1>1, <1>2, <1>3, <1>4, <1>5 DEF BlockStep

\* every step of a builder
LEMMA BuilderStepPreserves == ASSUME IInv, BuilderStep PROVE IInv'
  <1>0. PICK x \in Builders :
          \/ \E b \in Blocks, before \in Insts \cup {End} : SetInsertPoint(x, b, before)
          \/ ClearInsertionPoint(x)
          \/ CreateValue(x, << >>) \/ CreatePHI(x)
          \/ \E v \in Placed : CreateValue(x, <<v>>)
          \/ \E targets \in SUBSET (Linked \ {entry}) : CreateTerminator(x, targets)
          \/ \E i \in Insts : Insert(x, i)
    BY DEF BuilderStep
  <1>1. CASE \E b \in Blocks, before \in Insts \cup {End} : SetInsertPoint(x, b, before)
    BY <1>1, SetInsertPointPreserves
  <1>2. CASE ClearInsertionPoint(x)
    BY <1>2, ClearInsertionPointPreserves
  <1>3. CASE CreateValue(x, << >>)
    BY <1>3, NoArguments, CreateValuePreserves
  <1>4. CASE CreatePHI(x)
    BY <1>4, CreatePHIPreserves
  <1>5. ASSUME NEW v \in Placed, CreateValue(x, <<v>>) PROVE IInv'
    <2>1. <<v>> \in Seq(Insts) /\ ToSet(<<v>>) = {v}
      BY DEF Placed, ToSet
    <2> QED BY <1>5, <2>1, CreateValuePreserves
  <1>6. CASE \E targets \in SUBSET (Linked \ {entry}) : CreateTerminator(x, targets)
    BY <1>6, CreateTerminatorPreserves
  <1>7. CASE \E i \in Insts : Insert(x, i)
    BY <1>7, InsertPreserves
  <1> QED BY <1>0, <1>1, <1>2, <1>3, <1>4, <1>5, <1>6, <1>7

\* and every step on instructions keeps the invariant.
LEMMA InstructionStepPreserves == ASSUME IInv, InstructionStep PROVE IInv'
  <1>1. ASSUME NEW i \in Insts, NEW b \in Linked \ {entry}, AddTarget(i, b) PROVE IInv'
    BY <1>1, AddTargetPreserves
  <1>2. ASSUME NEW i \in Insts, NEW v \in Insts, NEW b \in Blocks, AddIncoming(i, v, b)
        PROVE  IInv'
    BY <1>2, AddIncomingPreserves
  <1>3. ASSUME NEW i \in Insts, NEW v \in Insts, NEW k \in DOMAIN inst[i].args,
               SetOperand(i, k, v)
        PROVE  IInv'
    BY <1>3, SetOperandPreserves
  <1>4. ASSUME NEW v \in Insts, NEW new \in Insts, ReplaceAllUsesWith(v, new) PROVE IInv'
    BY <1>4, ReplaceAllUsesWithPreserves
  <1>5. ASSUME NEW i \in Insts, RemoveFromParentAsInstruction(i) PROVE IInv'
    BY <1>5, RemoveFromParentPreserves
  <1>6. ASSUME NEW i \in Insts, EraseFromParentAsInstruction(i) PROVE IInv'
    BY <1>6, EraseFromParentPreserves
  <1> QED BY <1>1, <1>2, <1>3, <1>4, <1>5, <1>6 DEF InstructionStep

\* So the invariant is inductive.
LEMMA InvNext == IInv /\ [Next]_vars => IInv'
  BY StutterPreserves, BlockStepPreserves, BuilderStepPreserves, InstructionStepPreserves
     DEF Next

\* Whatever the program does, the invariant holds.
THEOREM Invariant == Spec => []IInv
  BY InvInit, InvNext, PTL DEF Spec

\* The lists, the parents, the uses and the builders have their types.
THEOREM TypeCorrect == Spec => []TypeOK
  <1>1. IInv => TypeOK
    BY DEF IInv
  <1> QED BY <1>1, Invariant, PTL

\* An instruction is in the list of one block, once, the one it names as its
\* parent, and every builder stands where it thinks it does, after any blocks
\* and instructions were inserted, moved and erased (ir.go:1266-1267, 1349).
THEOREM PlacesAgree == Spec => []OnePlace
  <1>1. IInv => OnePlace
    BY OnePlaceParts DEF IInv
  <1> QED BY <1>1, Invariant, PTL

\* Nothing uses what was erased (ir.go:1261, 1266).
THEOREM NothingDangles == Spec => []NoDanglingUse
  <1>1. IInv => NoDanglingUse
    BY DEF IInv, NoDanglingUse, Alive
  <1> QED BY <1>1, Invariant, PTL

\* The entry stays first and free of branches, phis begin their blocks and a
\* terminator ends its own, with any number of builders (ir.go:1262-1263, 1353).
THEOREM ShapeKept == Spec => []BlocksHaveShape
  <1>1. ASSUME IInv PROVE BlocksHaveShape
    <2>1. blocks[1] = entry
      BY <1>1 DEF IInv, EntryFirst
    <2>2. \A i \in Insts : /\ entry \notin inst[i].targets
                           /\ inst[i].kind = "phi" => parent[i] # entry
      BY <1>1 DEF IInv, EntryApart
    <2>3. ASSUME NEW b \in Linked, NEW k \in 2 .. Len(body[b])
          PROVE  /\ inst[body[b][k]].kind = "phi" => inst[body[b][k - 1]].kind = "phi"
                 /\ inst[body[b][k - 1]].kind # "terminator"
      <3>1. b \in Blocks
        BY <1>1, LinkedBlocks DEF IInv
      <3>2. Len(body[b]) \in Nat /\ DOMAIN body[b] = 1 .. Len(body[b])
        BY <1>1, <3>1, BodyList DEF IInv
      <3>3. k - 1 \in DOMAIN body[b] /\ (k - 1) + 1 = k /\ k \in DOMAIN body[b]
        BY <3>2
      <3>4. MayFollow(body[b][k - 1], body[b][k])
        BY <1>1, <3>1, <3>3 DEF IInv, InOrder
      <3> QED BY <3>4 DEF MayFollow
    <2> QED BY <2>1, <2>2, <2>3 DEF BlocksHaveShape
  <1> QED BY <1>1, Invariant, PTL

\* What an instruction uses is defined before it, whatever was inserted,
\* replaced or taken out in between (ir.go:716, 803, 1356).
THEOREM UsesDefined == Spec => []DefinedBeforeUse
  <1>1. IInv => DefinedBeforeUse
    BY DEF IInv, DefinedBeforeUse, DefinedFirst
  <1> QED BY <1>1, Invariant, PTL
=============================================================================
