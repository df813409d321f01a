-------------------------- MODULE RecoveredMethod --------------------------
(***************************************************************************)
(* A JVM method and the statements recovered from it, executed side by     *)
(* side: the JVM runs the bytecode, a reader of the printed source runs    *)
(* the statements.  Both show calls, questions and the end of the method,  *)
(* and get the same answers.                                               *)
(***************************************************************************)
EXTENDS StatementRecovery

CONSTANTS
  Decompile(_, _), \* from the code and a budget, [stmts, flat]: DecompileCode
  WorkLimits \* values of maxBlockBodyCallsPerMethod

ASSUME WorkAssumption == WorkLimits \subseteq Nat \ {0}

VARIABLES
  method,    \* the method: [code, static, regular]
  recovered, \* what Decompile returned
  at,        \* the next instruction of the JVM, 0 before
  todo       \* what the reader has left to execute

recovery == <<method, recovered, at, todo>>

-----------------------------------------------------------------------------
(* What can be seen: <<"call", position>>, <<"ask", position>>, <<"end">>;  *)
(* of the reader also <<"unknown">>, a value no source names.              *)

RECURSIVE JVMFrom(_, _)
JVMFrom(p, i) ==
  CASE IsInvoke(p[i])      -> [event |-> <<p[i].op, i>>, at |-> i]
    [] p[i].op = "return"  -> [event |-> <<"end">>, at |-> i]
    [] p[i].op = "goto"    -> JVMFrom(p, p[i].to)
    [] OTHER               -> JVMFrom(p, i + 1)

(* The reader's stack of frames: statements, loops to come back to, and    *)
(* values being computed, with what follows on either.                     *)
Stmts(stmts)      == [kind |-> "stmts", stmts |-> stmts]
Again(loop)       == [kind |-> "again", loop |-> loop]
Decide(e, t, f)   == [kind |-> "decide", expr |-> e, true |-> t, false |-> f]

RECURSIVE ReaderFrom(_)
ReaderFrom(frames) ==
  IF frames = <<>> THEN [event |-> <<"end">>, frames |-> <<>>]
  ELSE LET top   == Head(frames)
           below == Tail(frames)
           e     == top.expr
           stmt  == Head(top.stmts)
           after == <<Stmts(Tail(top.stmts))>> \o below
           both(x, t, f) == ReaderFrom(<<Decide(x, t, f)>> \o below)
       IN  CASE top.kind = "again" ->
                  both(top.loop.cond, <<Stmts(top.loop.body), top>>, <<>>)
             [] top.kind = "decide" /\ e.kind = "ask" /\ e.on.kind \in {"this", "nothing"} ->
                  [event |-> <<"ask", e.at>>, frames |-> frames]
             [] top.kind = "decide" /\ e.kind = "test" ->
                  IF e.when THEN both(e.of, top.true, top.false) ELSE both(e.of, top.false, top.true)
             [] top.kind = "decide" /\ e.kind = "or" ->
                  both(e.left, top.true, <<Decide(e.right, top.true, top.false)>>)
             [] top.kind = "decide" /\ e.kind = "ternary" ->
                  both(e.cond, <<Decide(e.true, top.true, top.false)>>, <<Decide(e.false, top.true, top.false)>>)
             [] top.kind = "decide" -> [event |-> <<"unknown">>, frames |-> frames]
             [] top.kind = "stmts" /\ top.stmts = <<>> -> ReaderFrom(below)
             [] OTHER ->
                  CASE stmt.kind = "call" /\ stmt.on.kind \in {"this", "nothing"} ->
                         [event |-> <<"call", stmt.at>>, frames |-> after]
                    [] stmt.kind = "return" -> [event |-> <<"end">>, frames |-> <<>>]
                    [] stmt.kind = "expr" -> ReaderFrom(<<Decide(stmt.expr, <<>>, <<>>)>> \o after)
                    [] stmt.kind = "if" ->
                         ReaderFrom(<<Decide(stmt.cond, <<Stmts(stmt.then)>>, <<Stmts(stmt.else)>>)>> \o after)
                    [] stmt.kind = "while" -> ReaderFrom(<<Again(stmt)>> \o after)
                    [] OTHER -> [event |-> <<"unknown">>, frames |-> after]

JVM    == JVMFrom(method.code, at)
Source == ReaderFrom(todo)

-----------------------------------------------------------------------------
NotRecovered == [stmts |-> <<>>, flat |-> FALSE]

(* A method m is about to be decompiled. *)
RecoveryInit(m) ==
  /\ method = m
  /\ recovered = NotRecovered
  /\ at = 0
  /\ todo = <<>>

Recover == \E limit \in WorkLimits :
  /\ at = 0
  /\ recovered' = Decompile(method.code, limit)
  /\ at' = 1
  /\ todo' = <<Stmts(recovered'.stmts)>>
  /\ UNCHANGED method

(* The same thing seen of both. *)
Both(what) ==
  /\ at > 0
  /\ JVM.event = Source.event
  /\ JVM.event[1] = what
  /\ UNCHANGED <<method, recovered>>

Call ==
  /\ Both("call")
  /\ at' = JVM.at + 1
  /\ todo' = Source.frames

(* The branch behind the question is taken or not. *)
Answer == \E yes \in BOOLEAN :
  LET top    == Head(Source.frames)
      branch == method.code[JVM.at + 1]
  IN  /\ Both("ask")
      /\ at' = IF (branch.op = "ifne") = yes THEN branch.to ELSE JVM.at + 2
      /\ todo' = (IF yes THEN top.true ELSE top.false) \o Tail(Source.frames)

RecoveryNext == Recover \/ Call \/ Answer

-----------------------------------------------------------------------------
(* What the code in front of the first return calls, if the matchers gave  *)
(* up: what is behind it is not printed.                                   *)
Promised ==
  LET p == method.code
  IN  {i \in DOMAIN p : p[i].op = "call"
         /\ (recovered.flat => \A k \in 1 .. i : p[k].op # "return")}

RECURSIVE Called(_)
(* The calls somewhere in the statements. *)
Called(stmts) ==
  UNION {CASE stmts[i].kind = "call"  -> {stmts[i].at}
           [] stmts[i].kind = "if"    -> Called(stmts[i].then) \cup Called(stmts[i].else)
           [] stmts[i].kind = "while" -> Called(stmts[i].body)
           [] OTHER -> {} : i \in DOMAIN stmts}

(* Executed, the statements recovered from a regular method make the calls *)
(* of the bytecode and ask its questions, in the same order, whatever the  *)
(* answers are.                                                            *)
SameStatements ==
  at > 0 /\ method.regular /\ ~recovered.flat => JVM.event = Source.event

(* Whatever shape the matchers take a method for, and also if they give up *)
(* in the middle of it, each call is printed somewhere.  Two arms in front *)
(* of a static call may be taken for a ternary and are lost with all they  *)
(* call.                                                                   *)
NoCallLost ==
  at = 1 /\ (method.regular \/ ~method.static) => Promised \subseteq Called(recovered.stmts)
=============================================================================
