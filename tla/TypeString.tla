----------------------------- MODULE TypeString -----------------------------
(***************************************************************************)
(* Type.String (llvm/string.go:53-106): typeString walks a type, which may *)
(* be recursive through named structs, and remembers the text of each type *)
(* it has met.  A named struct is remembered as a bare reference while its *)
(* elements are printed, and as its full text afterwards.                  *)
(*                                                                         *)
(* The recursion is an explicit stack, innermost call last.  A text is a   *)
(* sequence of tokens: an opening token per type, a reference, a closing   *)
(* token.  TypeKind.String panics for a kind it does not list, and so does *)
(* every activation below it.  Bounds: the types of a context (Ids) and their shapes (Shapes). *)
(***************************************************************************)
EXTENDS Integers, Sequences, FiniteSets

CONSTANTS Ids,     \* the types of a context
          Shapes   \* what a type may be: [kind, named, sub]

(* sub lists the types a type mentions, in the order they are printed: the *)
(* element of an array or a pointer, the parameters of a function before   *)
(* its result, the elements of a struct.  Only a struct may be named.      *)

\* The kinds TypeKind.String has a case for; "int" is any kind without parts.
ListedKinds == {"int", "pointer", "array", "function", "struct"}

\* The kinds there are: the token type is made by Context.TokenType.
Kinds == ListedKinds \cup {"token"}

ASSUME ShapesAssumption ==
  \A s \in Shapes : /\ s.kind \in Kinds /\ s.named \in BOOLEAN
                    /\ s.named => s.kind = "struct"
                    /\ s.sub \in Seq(Ids)

VARIABLES type,    \* [Ids -> Shapes]
          memo,    \* ts.s: the types met so far, with their text
          stack,   \* the activations of typeString
          text,    \* what the last String returned
          root,    \* the type it was called for
          panicked \* TypeKind.String has panicked

vars == <<type, memo, stack, text, root, panicked>>

Open(t) == [tag |-> IF type[t].named THEN "def" ELSE "open", of |-> t]
Ref(t)  == [tag |-> "ref", of |-> t]
Close(t) == [tag |-> "close", of |-> t]

\* The types t mentions without going through a named struct.
Inline(ty, t) ==
  LET Sub(x) == IF ty[x].named THEN {} ELSE {ty[x].sub[k] : k \in DOMAIN ty[x].sub}
      Within[n \in 1..Cardinality(Ids)] ==
        IF n = 1 THEN Sub(t)
        ELSE Within[n - 1] \cup UNION {Sub(x) : x \in Within[n - 1]}
  IN  Within[Cardinality(Ids)]

\* LLVM has no type that contains itself other than through a named struct.
Context == {ty \in [Ids -> Shapes] : \A t \in Ids : t \notin Inline(ty, t)}

Init == /\ type \in Context
        /\ memo = << >> /\ stack = << >>
        /\ text = << >> /\ root \in Ids
        /\ panicked = FALSE

-----------------------------------------------------------------------------
Top == stack[Len(stack)]
Below == SubSeq(stack, 1, Len(stack) - 1)

Remember(t, txt) ==
  memo' = [x \in DOMAIN memo \cup {t} |-> IF x = t THEN txt ELSE memo[x]]

\* A call that finds nothing remembered: what is printed before the elements.
Activation(t) == [of |-> t, next |-> 1, text |-> <<Open(t)>>]

\* typeString asks for the kind's name before anything else.
NameKind(t) == ~panicked /\ panicked' = (type[t].kind \notin ListedKinds)

\* MUTANT: the name of a struct is not remembered.
RememberNothing(t) == UNCHANGED memo

RememberName(t) ==
  IF type[t].named THEN Remember(t, <<Ref(t)>>) ELSE UNCHANGED memo

\* MUTANT: what is remembered outlives the call.
StringKeepsMemo(t) ==
  /\ stack = << >> /\ NameKind(t)
  /\ root' = t /\ text' = << >>
  /\ stack' = <<Activation(t)>>
  /\ RememberName(t)
  /\ UNCHANGED type

\* String makes a typeStringer that remembers nothing.
String(t) ==
  /\ stack = << >> /\ NameKind(t)
  /\ root' = t /\ text' = << >>
  /\ stack' = <<Activation(t)>>
  /\ memo' = IF type[t].named THEN [x \in {t} |-> <<Ref(t)>>] ELSE << >>
  /\ UNCHANGED type

Pending == stack # << >> /\ ~panicked /\ Top.next <= Len(type[Top.of].sub)
Current == type[Top.of].sub[Top.next]

\* MUTANT: a remembered type also skips the one after it.
RecallSkips ==
  /\ Pending /\ Current \in DOMAIN memo
  /\ stack' = Append(Below, [Top EXCEPT !.next = @ + 2,
                                        !.text = @ \o memo[Current]])
  /\ UNCHANGED <<type, memo, text, root, panicked>>

\* The next mentioned type is remembered: its text is used again.
Recall ==
  /\ Pending /\ Current \in DOMAIN memo
  /\ stack' = Append(Below, [Top EXCEPT !.next = @ + 1,
                                        !.text = @ \o memo[Current]])
  /\ UNCHANGED <<type, memo, text, root, panicked>>

\* It is not: typeString calls itself.
Descend ==
  /\ Pending /\ Current \notin DOMAIN memo
  /\ NameKind(Current)
  /\ RememberName(Current)
  /\ stack' = Append(stack, Activation(Current))
  /\ UNCHANGED <<type, text, root>>

\* MUTANT: a type is remembered by its text without the closing token.
FinishRemembersPrefix ==
  /\ stack # << >> /\ ~panicked /\ ~Pending
  /\ LET txt == Append(Top.text, Close(Top.of))
         up  == stack[Len(stack) - 1]
     IN  /\ Remember(Top.of, Top.text)
         /\ IF Len(stack) = 1
            THEN stack' = << >> /\ text' = txt
            ELSE /\ stack' = Append(SubSeq(stack, 1, Len(stack) - 2),
                                    [up EXCEPT !.next = @ + 1, !.text = @ \o txt])
                 /\ UNCHANGED text
  /\ UNCHANGED <<type, root, panicked>>

\* Everything is printed: the full text replaces what was remembered, and is
\* the caller's to use.
Finish ==
  /\ stack # << >> /\ ~panicked /\ ~Pending
  /\ LET txt == Append(Top.text, Close(Top.of))
         up  == stack[Len(stack) - 1]
     IN  /\ Remember(Top.of, txt)
         /\ IF Len(stack) = 1
            THEN stack' = << >> /\ text' = txt
            ELSE /\ stack' = Append(SubSeq(stack, 1, Len(stack) - 2),
                                    [up EXCEPT !.next = @ + 1, !.text = @ \o txt])
                 /\ UNCHANGED text
  /\ UNCHANGED <<type, root, panicked>>

Next == (\E t \in Ids : String(t)) \/ Recall \/ Descend \/ Finish

Spec == Init /\ [][Next]_vars

-----------------------------------------------------------------------------
\* The type invariant.
TypeOK ==
  /\ type \in [Ids -> Shapes] /\ root \in Ids /\ panicked \in BOOLEAN
  /\ DOMAIN memo \subseteq Ids
  /\ \A k \in DOMAIN stack :
       stack[k].of \in Ids /\ stack[k].next \in 1..(Len(type[stack[k].of].sub) + 1)

\* The recursion ends: typeString is never entered for a named struct it is
\* already printing, however the types refer to each other, so the activations
\* are at most one level of unnamed types per named struct (string.go:87-88).
\* A pointer, say, may well be entered again inside the struct it points to.
NoReentry ==
  \A j, k \in DOMAIN stack :
    (type[stack[j].of].named /\ stack[j].of = stack[k].of) => j = k

\* A reference %A in a text comes after the definition "%A: ...": remembered
\* texts, which are cut at the structs that were open when they were made,
\* are only reused where these are printed (string.go:104).
ReferencesDefined ==
  \A i \in DOMAIN text : text[i].tag = "ref" =>
     \E j \in 1..(i - 1) : text[j] = [tag |-> "def", of |-> text[i].of]

(* A text read back.  A reader keeps what it waits for, the next first: the *)
(* text of a type, or the closing token behind the elements of one.        *)

Wanted(t) == [tag |-> "text", of |-> t]

\* What is waited for behind the opening token of t.
Elements(t) ==
  LET n == Len(type[t].sub)
  IN  [k \in 1..(n + 1) |-> IF k <= n THEN Wanted(type[t].sub[k]) ELSE Close(t)]

\* What is never read.
Nothing == [tag |-> "nothing", of |-> root]

\* What is waited for when L was and token e is read: the reference to a named
\* struct stands for its text.
Behind(L, e) ==
  CASE L # << >> /\ e.tag = "close" /\ Head(L) = e -> Tail(L)
    [] L # << >> /\ e = Ref(e.of) /\ type[e.of].named /\ Head(L) = Wanted(e.of) -> Tail(L)
    [] L # << >> /\ e = Open(e.of) /\ Head(L) = Wanted(e.of) -> Elements(e.of) \o Tail(L)
    [] OTHER -> <<Nothing>>

\* What is waited for behind the first i tokens of the last text.
Awaited[i \in 0..Len(text)] ==
  IF i = 0 THEN <<Wanted(root)>> ELSE Behind(Awaited[i - 1], text[i])

\* Read as a description of a type, a text describes the one String was
\* called for and nothing more: what is remembered under a type is a text of
\* that type (string.go:63-65, 104).
TextDenotesType ==
  (stack = << >> /\ text # << >>) =>
     /\ text[1].tag # "ref"
     /\ Awaited[Len(text)] = << >>

\* Every type a program can make has a text: the panic behind the cases of
\* TypeKind.String is unreachable, as its message says (string.go:50).
PanicUnreachable == ~panicked
=============================================================================
