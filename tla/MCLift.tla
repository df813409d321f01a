------------------------------- MODULE MCLift -------------------------------
(***************************************************************************)
(* Small paths for StraightLine, and small functions for LiftedProgram:    *)
(* what a compiler makes of every source program up to a size, and every   *)
(* sequence of branches up to a length.                                    *)
(***************************************************************************)
EXTENDS StraightLine, ControlFlow, LiftedProgram, Compiler

CONSTANTS
  SourceSize,   \* statements of a source program
  JoinedSize,   \* and of one whose while loops test && and || conditions
  JumpLength,   \* instructions of a function of branches that lead forward
  TangleLength  \* and of one whose branches lead anywhere

RECURSIVE Source(_, _, _)
(* The source programs of n statements, in a loop or not, with conds the   *)
(* conditions of while loops.                                              *)
Source(n, loop, conds) ==
  IF n = 0 THEN {<<>>}
  ELSE LET leaf == {Leaf(k) : k \in {"store", "return"}
                                    \cup (IF loop THEN {"break", "continue"} ELSE {})}
           first(m) ==
             (IF m = 1 THEN leaf ELSE {})
               \cup UNION {{IfElse(Atom, a, b) :
                              a \in Source(i, loop, conds), b \in Source(m - 1 - i, loop, conds)}
                             : i \in 1 .. m - 1}
               \cup {Loop(k, c, b) : k \in {"while", "while2"}, c \in conds, b \in Source(m - 1, TRUE, conds)}
               \cup {Loop("do", Atom, b) : b \in Source(m - 1, TRUE, conds)}
       IN  UNION {{<<f>> \o r : f \in first(m), r \in Source(n - m, loop, conds)} : m \in 1 .. n}

RECURSIVE Escapes(_, _), Recoverable(_)
(* By one of these kinds of statement. *)
Escapes(body, kinds) ==
  \E i \in DOMAIN body :
    LET s == body[i] IN
    CASE s.kind = "if" -> Escapes(s.then, kinds) \/ Escapes(s.else, kinds)
      [] s.kind \in {"while", "while2", "do"} -> Escapes(s.body, kinds \ {"break"})
      [] OTHER -> s.kind \in kinds

(* A do-while loop is left at its end only, and does not begin with        *)
(* another: the lifter loses the loop around the start of such a body.     *)
Recoverable(stmts) ==
  \A i \in DOMAIN stmts :
    LET s == stmts[i] IN
    CASE s.kind = "if" -> Recoverable(s.then) /\ Recoverable(s.else)
      [] s.kind = "do" -> /\ Recoverable(s.body) /\ ~Escapes(s.body, {"break", "return"})
                          /\ s.body # <<>> => s.body[1].kind # "do"
      [] s.kind \in {"while", "while2"} -> Recoverable(s.body)
      [] OTHER -> TRUE

JoinedTests == {Atom, OrElse(Atom, Atom), And(Atom, Atom)}

Sources ==
  UNION {Source(n, FALSE, {Atom}) : n \in 1 .. SourceSize}
    \cup UNION {Source(n, FALSE, JoinedTests) : n \in 1 .. JoinedSize}

Compiled(sources) == {[code |-> Compile(s), kind |-> "source"] : s \in sources}

RECURSIVE JumpCode(_, _, _)
(* Stores, returns and branches of both kinds from the i-th instruction to *)
(* the n-th, then a return; the branches lead forward, or anywhere.        *)
JumpCode(i, n, forward) ==
  IF i > n THEN {<<Inst("ret", <<>>)>>}
  ELSE LET targets == (IF forward THEN i + 1 ELSE 1) .. n + 1
           here == {Inst("str", <<Reg(<<"wzr", 0>>), Mem(SP, i, FALSE)>>), Inst("ret", <<>>)}
                     \cup {Inst("b", <<Imm(t)>>) : t \in targets}
                     \cup {Inst("cbz", <<Reg(W(0)), Imm(t)>>) : t \in targets}
       IN  {<<x>> \o r : x \in here, r \in JumpCode(i + 1, n, forward)}

JumpFunctions ==
  {[code |-> c, kind |-> "goto"] :
     c \in JumpCode(1, JumpLength, TRUE) \cup JumpCode(1, TangleLength, FALSE)}

RecoverableFunctions == Compiled({s \in Sources : Recoverable(s)}) \cup JumpFunctions

-----------------------------------------------------------------------------
ParamNames == <<"a">>
ArityOfOne == [s \in {1} |-> 0]

NoFunction == [code |-> <<>>, kind |-> "goto"]

(* One of the two systems, the other at rest. *)
LiftInit ==
  \/ /\ StraightInit
     /\ fn = NoFunction /\ lift = NotLifted /\ pc = 1 /\ rest = <<>>
  \/ /\ LiftedInit
     /\ lifter = NewLifter /\ held = [n \in Numbers |-> NotAddr] /\ sure = Numbers
     /\ placed = {} /\ again = {} /\ steps = 0 /\ ended = TRUE

LiftNext ==
  \/ StraightNext /\ UNCHANGED lifted
  \/ LiftedNext /\ UNCHANGED straight

LiftSpec == LiftInit /\ [][LiftNext]_<<straight, lifted>>

-----------------------------------------------------------------------------
(* break and continue are only written inside a loop, whatever the graph   *)
(* of the function: the statements are C.                                  *)
JumpsInLoops == pc = 1 => JumpsIn(lift.stmts)
=============================================================================
