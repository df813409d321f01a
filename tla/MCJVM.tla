------------------------------- MODULE MCJVM -------------------------------
(***************************************************************************)
(* Straight methods of a few instructions for ExpressionStack, and for     *)
(* RecoveredMethod what a Java compiler makes of small sources: every      *)
(* source up to a size, and chains and loops of more than that.            *)
(***************************************************************************)
EXTENDS ExpressionStack, RecoveredMethod, JavaCompiler

CONSTANT SourceSize \* calls, returns, ifs and loops of a source

RECURSIVE SourceOf(_)
(* The sources of n statements.  Java has nothing behind a return.  A      *)
(* "store" is a call here.                                                 *)
SourceOf(n) ==
  IF n = 0 THEN {<<>>}
  ELSE LET tests == {Atom, OrElse(Atom, Atom), And(Atom, Atom)}
           first(m) ==
             (IF m = 1 THEN {Leaf("store")} ELSE {})
               \cup UNION {{IfElse(c, a, b) : c \in tests, a \in SourceOf(i), b \in SourceOf(m - 1 - i)}
                             : i \in 1 .. m - 1}
               \cup {Loop("while", c, b) : c \in tests, b \in SourceOf(m - 1)}
       IN  (IF n = 1 THEN {<<Leaf("return")>>} ELSE {})
             \cup UNION {{<<f>> \o r : f \in first(m), r \in SourceOf(n - m)} : m \in 1 .. n}

Returns(stmts) == stmts # <<>> /\ Last(stmts).kind = "return"
Simple(stmts)  == stmts = <<>> \/ Last(stmts).kind \in {"store", "return"}
HasTest(stmts) == \E i \in DOMAIN stmts : stmts[i].kind \in {"if", "while"}

RECURSIVE Regular(_, _, _, _)
(* The sources whose bytecode the matchers read right.  At the top a loop  *)
(* is not in front of a return (matchGuardClause takes its test), and only *)
(* there may a test be a || (matchOrChainGuard), without an else to jump   *)
(* over.  A loop asks one question.  A loop body, and an arm that jumps    *)
(* over an else, do not end with a test: a compiler lets its branch jump   *)
(* on from there.  Static calls are no ternary's: only one arm has tests.  *)
Regular(stmts, top, returning, static) ==
  \A i \in DOMAIN stmts :
    LET s     == stmts[i]
        final == IF i = Len(stmts) THEN returning ELSE stmts[i + 1].kind = "return"
    IN  CASE s.kind = "while" ->
               /\ s.cond = Atom
               /\ ~(top /\ final)
               /\ Simple(s.body)
               /\ Regular(s.body, FALSE, FALSE, static)
          [] s.kind = "if" ->
               /\ s.then # <<>>
               /\ s.cond.op = "or" => top /\ (s.else = <<>> \/ Returns(s.then))
               /\ s.else # <<>> => Simple(s.then)
               /\ static /\ HasTest(s.else) => ~HasTest(s.then) /\ s.cond = Atom
               /\ Regular(s.then, FALSE, final, static)
               /\ Regular(s.else, top /\ Returns(s.then), final, static)
          [] OTHER -> s.kind # "forever"

Small == UNION {SourceOf(n) : n \in 1 .. SourceSize}

(* if/else-if/else, with a call in front of the second test or not. *)
Chains ==
  LET arms  == {<<Leaf("store")>>, <<Leaf("return")>>}
      tests == {Atom, And(Atom, Atom)}
  IN  {<<IfElse(c, a, before \o <<IfElse(d, b, e)>>), Leaf("store")>> :
         c \in tests, d \in tests, a \in arms, b \in arms, e \in arms \cup {<<>>},
         before \in {<<>>, <<Leaf("store")>>}}

(* An if that does nothing: its test branches to what follows anyway. *)
EmptyIfs ==
  {<<IfElse(c, <<>>, <<>>)>> \o s : c \in {Atom, OrElse(Atom, Atom)}, s \in SourceOf(0) \cup SourceOf(1)}

(* for (;;), left by a return or never. *)
Endless ==
  {<<Loop("forever", Atom, s)>> :
     s \in SourceOf(2) \cup {<<IfElse(Atom, <<Leaf("return")>>, <<>>)>> \o r : r \in SourceOf(1)}}

(* Loops with bodies of more than one statement. *)
Loops == {<<Loop("while", Atom, s), Leaf("store")>> : s \in Small}

SourcesFor(static) ==
  Small \cup Chains \cup EmptyIfs \cup Endless \cup {l \in Loops : Regular(l, TRUE, TRUE, static)}

CompiledMethod(source, static, threaded) ==
  [code    |-> CompileJava(source, static, threaded),
   static  |-> static,
   regular |-> Regular(source, TRUE, TRUE, static)]

-----------------------------------------------------------------------------
NoMethod == [code |-> <<>>, static |-> TRUE, regular |-> FALSE]

(* One of the two systems, the other at rest. *)
JVMInit ==
  \/ /\ Init
     /\ method = NoMethod /\ recovered = NotRecovered /\ at = 0 /\ todo = <<>>
  \/ /\ \E static, threaded \in BOOLEAN : \E s \in SourcesFor(static) :
          RecoveryInit(CompiledMethod(s, static, threaded))
     /\ words = <<>> /\ locals = [x \in Locals |-> Argument(x)] /\ raw = {} /\ did = <<>>
     /\ stack = <<>> /\ out = <<>> /\ ended = TRUE /\ disturbed = FALSE /\ dropped = FALSE /\ copied = FALSE

JVMNext ==
  \/ Next /\ UNCHANGED recovery
  \/ method # NoMethod /\ RecoveryNext /\ UNCHANGED vars

JVMSpec == JVMInit /\ [][JVMNext]_<<vars, recovery>>
=============================================================================
