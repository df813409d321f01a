---------------------------- MODULE Decompiler ----------------------------
(***************************************************************************)
(* A function of an .hbc file printed as JavaScript                        *)
(* (internal/hermes/decompiler.go).  No structure is recovered: when the   *)
(* function has more than one basic block, the statements stand inside     *)
(* for(var _ip = 0; ; ) switch(_ip), a case label in front of every block, *)
(* and a jump is printed as  _ip = address; continue.                      *)
(*                                                                         *)
(* What is decompiled here is what the assembler writes: the functions of  *)
(* FunctionAssembler, before and after a patch.  They have no exception    *)
(* handlers.                                                               *)
(***************************************************************************)
EXTENDS FunctionAssembler

CONSTANTS
  Conditional,  \* jumps that test a register; the others always jump
  Leaves,       \* Ret, Throw, Unreachable
  Silent        \* ProfilePoint, Debugger, AsyncBreakCheck: no statement

ASSUME DecompilerAssumption ==
  /\ Conditional \subseteq ShortJump \cup LongJump
  /\ Leaves \subseteq Plain
  /\ Silent \subseteq Plain \ Leaves

Jump == ShortJump \cup LongJump

End(code) == Offsets(Ops(code))[Len(code) + 1]

At(code, i) == Offsets(Ops(code))[i]

(* The addresses that the lines of code jump to. *)
JumpTargets(code) ==
  UNION {{Meant(Ops(code), i, code[i].addr[n]) : n \in DOMAIN code[i].addr} : i \in DOMAIN code}

(* A mutant of Boundaries: a block begins after every jump, and the line
   jumped to stays inside the one before. *)
MutBoundariesAfterOnly(code) ==
  {0, End(code)}
    \cup {At(code, i + 1) : i \in {k \in DOMAIN code : code[k].op \in Addressing \cup Leaves}}

(* pass1BuildCFG: where one basic block ends and the next begins. *)
Boundaries(code) ==
  {0, End(code)}
    \cup {At(code, i + 1) : i \in {k \in DOMAIN code : code[k].op \in Addressing \cup Leaves}}
    \cup JumpTargets(code)

BlockStarts(code) == {b \in Boundaries(code) : \E c \in Boundaries(code) : b < c}

(* There is a switch to continue only if there are two blocks. *)
Dispatched(code) == Cardinality(BlockStarts(code)) > 1

(* pass2TransformCode: the lines that become a statement. *)
Printed(code) == {i \in DOMAIN code : code[i].op \notin Silent}

-----------------------------------------------------------------------------
(* The bytecode and the printed function, one line at a time.  A place is a
   line; 0 when the function is left. *)

Left == 0

(* No case has the address: the loop goes around for ever.  Without a loop,
   the continue is not even JavaScript. *)
Lost == -1

(* The line a jump takes the bytecode to. *)
Target(code, i) == Addressed(Ops(code), i, code[i].addr[1])

Following(code, i) == IF i < Len(code) THEN i + 1 ELSE Left

(* The bytecode after line i; holds is what the condition of a jump says. *)
CodeNext(code, i, holds) ==
  CASE code[i].op \in Leaves                                     -> Left
    [] code[i].op \in Jump /\ (code[i].op \in Conditional => holds)  -> Target(code, i)
    [] OTHER                                                     -> Following(code, i)

(* The statement at or below a place. *)
Statement(code, p) ==
  LET below == {i \in Printed(code) : i >= p}
  IN  IF p = Left \/ below = {} THEN Left ELSE CHOOSE i \in below : \A k \in below : i <= k

(* outputCode prints a case label together with the statement at its address. *)
Labelled(code) ==
  {i \in Printed(code) : Dispatched(code) /\ At(code, i) \in BlockStarts(code)}

(* Where  _ip = a; continue  leads. *)
Dispatch(code, a) ==
  LET there == {i \in Labelled(code) : At(code, i) = a}
  IN  IF there = {} THEN Lost ELSE CHOOSE i \in there : TRUE

(* outputJumpStatement prints the negation of the condition that makes the
   bytecode jump. *)
Tested(holds) == ~holds

(* The printed function after the statement of line i. *)
PrintedNext(code, i, holds) ==
  CASE code[i].op \in Leaves -> Left
    [] code[i].op \in Jump /\ (code[i].op \in Conditional => Tested(holds))
         -> Dispatch(code, Meant(Ops(code), i, code[i].addr[1]))
    [] OTHER -> Statement(code, Following(code, i))

-----------------------------------------------------------------------------
(* The compiler wrote jumps that lead to lines. *)
Closed(code) ==
  \A i \in DOMAIN code : \A n \in DOMAIN code[i].addr :
    Addressed(Ops(code), i, code[i].addr[n]) # 0

ASSUME ProgramAssumption == \A code \in Programs : Closed(code)

(* What can be decompiled now: the patched function, and the one it was. *)
AtHand == IF phase = "done" THEN {current, output} ELSE {current}

(* A switch is printed as nothing (TokenSwitchImm), a block that begins with
   a silent line has no case label, and one block has no loop around it. *)
Expressible(code) ==
  /\ \A i \in DOMAIN code : code[i].op \notin Switch
  /\ \A i \in DOMAIN code : At(code, i) \in BlockStarts(code) => i \in Printed(code)
  /\ JumpTargets(code) # {} => Dispatched(code)

(***************************************************************************)
(* Whatever edits and promotions made the function, the printed loop goes  *)
(* from statement to statement the way the bytecode does, once every       *)
(* condition is read as its negation: a patched function decompiles to the *)
(* same paths, and no dispatch is lost.                                    *)
(***************************************************************************)
PathsKept ==
  \A code \in AtHand : Expressible(code) =>
    /\ Dispatched(code) => Dispatch(code, 0) = Statement(code, 1)
    /\ \A i \in Printed(code), holds \in BOOLEAN :
         PrintedNext(code, i, ~holds) = Statement(code, CodeNext(code, i, holds))

(***************************************************************************)
(* "JNotLess r1, r2 -> !(r1 < r2)": the printed jump is taken when the     *)
(* condition of the instruction holds.                                     *)
(***************************************************************************)
ConditionsKept ==
  \A code \in AtHand : Expressible(code) =>
    \A i \in Printed(code), holds \in BOOLEAN :
      code[i].op \in Conditional =>
        PrintedNext(code, i, holds) = Statement(code, CodeNext(code, i, holds))
=============================================================================
