----------------------------- MODULE DebugScopes -----------------------------
(***************************************************************************)
(* What instructions say about where they come from: the subprograms and   *)
(* lexical blocks of the debug-info builder (llvm/dibuilder.go), the       *)
(* subprogram of a function, the location a builder carries along and the  *)
(* locations it leaves on instructions (llvm/ir.go:1349-1384).             *)
(*                                                                         *)
(* A builder's location survives its move to the end of another function,  *)
(* but not its move to an instruction, whose location it takes.  Inserting *)
(* an instruction replaces its location by the builder's, if there is one. *)
(* The bindings check none of this; LLVM's verifier does, when the module  *)
(* is complete.  The rules Fits, MaySay, MayKeep, ... are what a program   *)
(* can look at step by step, and the invariants are the verifier's.        *)
(*                                                                         *)
(* Its specification has names of its own, so that a module may extend it  *)
(* and DebugInfo.                                                          *)
(***************************************************************************)
EXTENDS Naturals, FiniteSets

CONSTANTS Functions,      \* functions of the module
          Subprograms,    \* what CreateFunction makes, with IsDefinition
          LexicalBlocks,  \* what CreateLexicalBlock makes
          Insts,          \* instructions
          None,           \* null, and nothing
          MaxSize         \* bound: scopes and instructions made

ASSUME ScopesAssumption ==
  /\ Subprograms \cap LexicalBlocks = {}
  /\ None \notin Functions \cup Subprograms \cup LexicalBlocks

Scopes == Subprograms \cup LexicalBlocks

VARIABLES unit,      \* whether the debug-info builder has its compile unit
          owner,     \* [Scopes -> the subprogram the scope is in, once made]
          attached,  \* [Functions -> its subprogram]
          function,  \* where the builder is
          location,  \* the builder's location
          trusted,   \* whether the program knows that location is of function
          saved,     \* a function and a location to return to
          kind,      \* [Insts -> {"free", "plain", "call", "declare"}]
          home,      \* [Insts -> the function it is in, or was removed from]
          loc,       \* [Insts -> its location]
          about,     \* [Insts -> the callee, or the subprogram of the variable]
          placed     \* the instructions that are in a block

builder == <<function, location, trusted>>
insts == <<kind, home, loc, about, placed>>
scopesVars == <<unit, owner, attached, builder, saved, insts>>

\* A location is in a scope, inlined into the caller's scope or nowhere.
Locations == [scope : Scopes, caller : Scopes \cup {None}]

Subprogram(l) == owner[l.scope]

InlinedInto(l) == IF l.caller = None THEN owner[l.scope] ELSE owner[l.caller]

Known(l) == owner[l.scope] # None /\ (l.caller # None => owner[l.caller] # None)

ScopesInit ==
  /\ unit = FALSE
  /\ owner = [s \in Scopes |-> None]
  /\ attached = [f \in Functions |-> None]
  /\ function = None /\ location = None /\ trusted = FALSE
  /\ saved = [function |-> None, location |-> None]
  /\ kind = [i \in Insts |-> "free"]
  /\ home = [i \in Insts |-> None]
  /\ loc = [i \in Insts |-> None]
  /\ about = [i \in Insts |-> None]
  /\ placed = {}

-----------------------------------------------------------------------------
(* What the program looks at.                                              *)

\* A location for a function: none, or one that is at last in its subprogram.
Fits(l, f) ==
  l # None => attached[f] # None /\ Known(l) /\ InlinedInto(l) = attached[f]

\* MUTANT: any location of the function will do.
MaySayAnything(k, f, what, l) == k = "call" => (attached[f] # None => l # None)

\* A call in a function with a subprogram has a location, and a declaration
\* of a variable has one in the variable's subprogram.
MaySay(k, f, what, l) ==
  /\ k = "call" => (attached[f] # None => l # None)
  /\ k = "declare" => l # None /\ Subprogram(l) = what

\* MUTANT: instructions that were taken out are forgotten.
UntouchedNow(f) == \A i \in placed : home[i] # f

Untouched(f) == \A i \in Insts : home[i] # f

\* MUTANT: inlined locations are kept too.
MayKeepInlined(l) == l # None

\* GetCurrentDebugLocation loses what a location is inlined at.
MayKeep(l) == l # None /\ l.caller = None

HasSpace ==
  Cardinality({s \in Scopes : owner[s] # None})
    + Cardinality({i \in Insts : kind[i] # "free"}) < MaxSize

-----------------------------------------------------------------------------
(* The debug-info builder.                                                 *)

CreateCompileUnit ==
  /\ ~unit /\ unit' = TRUE
  /\ UNCHANGED <<owner, attached, builder, saved, insts>>

\* A definition is in the compile unit there is.
CreateFunction(s) ==
  /\ unit /\ owner[s] = None /\ HasSpace
  /\ owner' = [owner EXCEPT ![s] = s]
  /\ UNCHANGED <<unit, attached, builder, saved, insts>>

\* CreateLexicalBlock, CreateLexicalBlockFile.
CreateLexicalBlock(b, scope) ==
  /\ owner[b] = None /\ owner[scope] # None /\ HasSpace
  /\ owner' = [owner EXCEPT ![b] = owner[scope]]
  /\ UNCHANGED <<unit, attached, builder, saved, insts>>

\* MUTANT: any scope is attached.
SetSubprogramToScope(f, s) ==
  /\ owner[s] # None /\ \A g \in Functions : attached[g] # s
  /\ attached[f] = None /\ Untouched(f)
  /\ attached' = [attached EXCEPT ![f] = s]
  /\ UNCHANGED <<unit, owner, builder, saved, insts>>

\* A subprogram describes one function, whose body is still to be built.
SetSubprogram(f, s) ==
  /\ owner[s] = s /\ \A g \in Functions : attached[g] # s
  /\ attached[f] = None /\ Untouched(f)
  /\ attached' = [attached EXCEPT ![f] = s]
  /\ UNCHANGED <<unit, owner, builder, saved, insts>>

-----------------------------------------------------------------------------
(* The builder.                                                            *)

\* MUTANT: the program expects the location to change with the function.
SetInsertPointAtEndTrusting(f) ==
  /\ function' = f
  /\ UNCHANGED <<unit, owner, attached, location, trusted, saved, insts>>

\* The location stays.
SetInsertPointAtEnd(f) ==
  /\ function' = f
  /\ trusted' = (trusted /\ function = f)
  /\ UNCHANGED <<unit, owner, attached, location, saved, insts>>

\* The location, or that there is none, is the instruction's.
SetInsertPointBefore(i) ==
  /\ i \in placed
  /\ function' = home[i] /\ location' = loc[i] /\ trusted' = TRUE
  /\ UNCHANGED <<unit, owner, attached, saved, insts>>

\* Without a scope there is no location.
SetCurrentDebugLocation(l) ==
  /\ function # None /\ Fits(l, function)
  /\ location' = l /\ trusted' = TRUE
  /\ UNCHANGED <<unit, owner, attached, function, saved, insts>>

\* The program leaves its place, to build another function ...
GetCurrentDebugLocation ==
  /\ trusted /\ MayKeep(location)
  /\ saved' = [function |-> function,
               location |-> [scope |-> location.scope, caller |-> None]]
  /\ UNCHANGED <<unit, owner, attached, builder, insts>>

\* ... and comes back: SetInsertPointAtEnd and SetCurrentDebugLocation.
Return ==
  /\ saved.function # None
  /\ function' = saved.function /\ location' = saved.location /\ trusted' = TRUE
  /\ UNCHANGED <<unit, owner, attached, saved, insts>>

-----------------------------------------------------------------------------
(* Instructions.                                                           *)

New(i, k, f, what, l) ==
  /\ kind[i] = "free" /\ HasSpace /\ MaySay(k, f, what, l)
  /\ kind' = [kind EXCEPT ![i] = k]
  /\ home' = [home EXCEPT ![i] = f]
  /\ loc' = [loc EXCEPT ![i] = l]
  /\ about' = [about EXCEPT ![i] = what]
  /\ placed' = placed \cup {i}
  /\ UNCHANGED <<unit, owner, attached, builder, saved>>

CreateValue(i) == trusted /\ New(i, "plain", function, None, location)

CreateCall(i, g) == trusted /\ New(i, "call", function, g, location)

\* A builder of its own inserts the call, with the location given.
InsertDeclareAtEnd(i, f, scope, l) ==
  /\ attached[f] # None /\ owner[scope] # None /\ Fits(l, f)
  /\ New(i, "declare", f, owner[scope], l)

Say(i, l) == /\ MaySay(kind[i], home[i], about[i], l)
             /\ loc' = [loc EXCEPT ![i] = l]
             /\ UNCHANGED <<unit, owner, attached, builder, saved, kind, home, about, placed>>

\* Without a location the builder leaves the instruction alone.
SetInstDebugLocation(i) ==
  /\ i \in placed /\ trusted /\ home[i] = function /\ location # None
  /\ Say(i, location)

InstructionSetDebugLoc(i, l) == i \in placed /\ Fits(l, home[i]) /\ Say(i, l)

RemoveFromParentAsInstruction(i) ==
  /\ i \in placed /\ placed' = placed \ {i}
  /\ UNCHANGED <<unit, owner, attached, builder, saved, kind, home, loc, about>>

\* Without a location the instruction keeps its own, which must be right.
Insert(i) ==
  /\ i \notin placed /\ kind[i] # "free" /\ trusted
  /\ location = None => home[i] = function
  /\ loc' = [loc EXCEPT ![i] = IF location = None THEN @ ELSE location]
  /\ location # None => MaySay(kind[i], function, about[i], location)
  /\ home' = [home EXCEPT ![i] = function]
  /\ placed' = placed \cup {i}
  /\ UNCHANGED <<unit, owner, attached, builder, saved, kind, about>>

-----------------------------------------------------------------------------
ScopesNext ==
  \/ CreateCompileUnit
  \/ \E s \in Subprograms : CreateFunction(s)
  \/ \E b \in LexicalBlocks, scope \in Scopes : CreateLexicalBlock(b, scope)
  \/ \E f \in Functions, s \in Scopes : SetSubprogram(f, s)
  \/ \E f \in Functions : SetInsertPointAtEnd(f)
  \/ \E l \in Locations \cup {None} : SetCurrentDebugLocation(l)
  \/ GetCurrentDebugLocation \/ Return
  \/ \E i \in Insts :
       \/ SetInsertPointBefore(i) \/ CreateValue(i) \/ SetInstDebugLocation(i)
       \/ RemoveFromParentAsInstruction(i) \/ Insert(i)
       \/ \E g \in Functions : CreateCall(i, g)
       \/ \E f \in Functions, scope \in Scopes, l \in Locations :
            InsertDeclareAtEnd(i, f, scope, l)
       \/ \E l \in Locations \cup {None} : InstructionSetDebugLoc(i, l)

ScopesSpec == ScopesInit /\ [][ScopesNext]_scopesVars

-----------------------------------------------------------------------------
\* The type invariant.
ScopesTypeOK ==
  /\ unit \in BOOLEAN
  /\ owner \in [Scopes -> Subprograms \cup {None}]
  /\ attached \in [Functions -> Subprograms \cup {None}]
  /\ function \in Functions \cup {None}
  /\ location \in Locations \cup {None}
  /\ trusted \in BOOLEAN
  /\ saved \in [function : Functions \cup {None}, location : Locations \cup {None}]
  /\ kind \in [Insts -> {"free", "plain", "call", "declare"}]
  /\ home \in [Insts -> Functions \cup {None}]
  /\ loc \in [Insts -> Locations \cup {None}]
  /\ about \in [Insts -> Functions \cup Subprograms \cup {None}]
  /\ placed \subseteq Insts

\* In a function with a subprogram every location is, at last, in that
\* subprogram, wherever the builder has been in between (ir.go:1353, 1356,
\* 1371; dibuilder.go:593).
LocationsInFunction ==
  \A i \in placed : attached[home[i]] # None /\ loc[i] # None =>
                      InlinedInto(loc[i]) = attached[home[i]]

\* A call between functions that both have a subprogram has a location, also
\* when the callee got its subprogram later; a declaration of a variable has
\* one in the variable's own subprogram, after moves and new locations too
\* (ir.go:1840, 1356; dibuilder.go:577, 593).
CallsLocated ==
  \A i \in placed :
    /\ kind[i] = "call" /\ attached[home[i]] # None /\ attached[about[i]] # None
         => loc[i] # None
    /\ kind[i] = "declare" => loc[i] # None /\ Subprogram(loc[i]) = about[i]
=============================================================================
