------------------------- MODULE StatementRecovery -------------------------
(***************************************************************************)
(* The branches of a JVM method recovered as statements                    *)
(* (internal/jvm/decompiler.go).  There is no graph: matchers look at the  *)
(* places branches lead to and at the instruction in front of such a       *)
(* place, take a range of bytecode for a loop, an if or a guard, and       *)
(* decompile the ranges inside it in turn.                                 *)
(*                                                                         *)
(* A method is a sequence of instructions; an offset is a position in it.  *)
(* It has calls without a result and calls that answer a question, each    *)
(* with a receiver on the stack or static; a question is asked to branch   *)
(* on it.  It has no constants, no switch and no exception table, so the   *)
(* matchers that start from one (boolean values, toggles, array            *)
(* initialisers, for-each, try) do not apply.                              *)
(***************************************************************************)
EXTENDS Naturals, Sequences

IsConditional(inst) == inst.op \in {"ifeq", "ifne"}
IsBranch(inst)      == IsConditional(inst) \/ inst.op = "goto"
IsInvoke(inst)      == inst.op \in {"call", "ask"}

(* The first branch of positions from .. upTo - 1, or upTo. *)
FirstBranch(p, from, upTo) ==
  LET branches == {i \in from .. upTo - 1 : IsBranch(p[i])}
  IN  IF branches = {} THEN upTo ELSE CHOOSE i \in branches : \A k \in branches : i <= k

-----------------------------------------------------------------------------
(* Expressions and statements. *)

This          == [kind |-> "this"]
Unknown    == [kind |-> "stack_value"]
Nothing       == [kind |-> "nothing"]
Ask(at, on)   == [kind |-> "ask", at |-> at, on |-> on]
(* e is true, or false. *)
Test(e, when) == [kind |-> "test", of |-> e, when |-> when]
Either(a, b)  == [kind |-> "or", left |-> a, right |-> b]
Ternary(c, t, f) == [kind |-> "ternary", cond |-> c, true |-> t, false |-> f]

Negated(test) == Test(test.of, ~test.when)

CallStmt(at, on) == [kind |-> "call", at |-> at, on |-> on]
ExprStmt(e)      == [kind |-> "expr", expr |-> e]
ReturnStmt       == [kind |-> "return"]
Unrecovered      == [kind |-> "unrecovered"]
IfStmt(c, then, else) == [kind |-> "if", cond |-> c, then |-> then, else |-> else]
WhileStmt(c, body)    == [kind |-> "while", cond |-> c, body |-> body]

(* What is behind a return is not printed. *)
EliminateDeadCode(stmts) ==
  LET returns == {i \in DOMAIN stmts : stmts[i].kind = "return"}
  IN  IF returns = {} THEN stmts
      ELSE SubSeq(stmts, 1, CHOOSE i \in returns : \A k \in returns : i <= k)

(* Expressions nothing consumed; a name alone is no statement. *)
LeftOver(stack) ==
  LET exprs == SelectSeq(stack, LAMBDA e : e.kind \notin {"this", "stack_value"})
  IN  [i \in DOMAIN exprs |-> ExprStmt(exprs[i])]

Peek(stack) == IF stack = <<>> THEN Unknown ELSE stack[Len(stack)]
Pop(stack)  == IF stack = <<>> THEN <<>> ELSE SubSeq(stack, 1, Len(stack) - 1)

-----------------------------------------------------------------------------
(* decompileInstruction: what one instruction that is no branch does; on a *)
(* branch it does nothing.                                                 *)
Decode(p, at, stack) ==
  LET inst == p[at]
      on   == IF inst.static THEN Nothing ELSE Peek(stack)
      rest == IF inst.static THEN stack ELSE Pop(stack)
  IN  CASE inst.op = "this"   -> [stack |-> Append(stack, This), stmts |-> <<>>]
        [] inst.op = "ask"    -> [stack |-> Append(rest, Ask(at, on)), stmts |-> <<>>]
        [] inst.op = "call"   -> [stack |-> rest, stmts |-> <<CallStmt(at, on)>>]
        [] inst.op = "return" -> [stack |-> stack, stmts |-> <<ReturnStmt>>]
        [] OTHER              -> [stack |-> stack, stmts |-> <<>>]

(* Positions from .. upTo - 1 one after another, beginning with stack. *)
DecodeRange(p, from, upTo, stack) ==
  LET after[i \in from - 1 .. upTo - 1] ==
        IF i < from THEN [stack |-> stack, stmts |-> <<>>]
        ELSE LET d == Decode(p, i, after[i - 1].stack)
             IN  [stack |-> d.stack, stmts |-> after[i - 1].stmts \o d.stmts]
  IN  IF upTo <= from THEN [stack |-> stack, stmts |-> <<>>] ELSE after[upTo - 1]

(* The condition under which the branch is not taken. *)
BuildCondition(p, at, stack) == Test(Peek(stack), p[at].op = "ifeq")

(* A mutant of FallsThroughTo: branches on the way do not count. *)
MutFallsThroughTo(p, from, to) == from <= to

(* Two places are one if nothing between them branches or leaves. *)
FallsThroughTo(p, from, to) ==
  /\ from <= to
  /\ \A i \in from .. to - 1 : ~IsBranch(p[i]) /\ p[i].op # "return"

-----------------------------------------------------------------------------
(* matchGeneralTernary: an if whose arms both leave a value for the call   *)
(* behind them.                                                            *)
MatchGeneralTernary(p, at, stack) ==
  LET false == p[at].to
      merge == p[false - 1].to
      t == DecodeRange(p, at + 1, false - 1, <<>>).stack
      f == DecodeRange(p, false, merge, <<>>).stack
      isTernary ==
        /\ p[false].op # "goto"
        /\ false > 1 /\ p[false - 1].op = "goto"
        /\ IsInvoke(p[merge])
        /\ t # <<>> /\ f # <<>>
  IN  IF isTernary
      THEN [ok |-> TRUE, next |-> merge,
            stack |-> Append(Pop(stack), Ternary(BuildCondition(p, at, stack), Peek(t), Peek(f)))]
      ELSE [ok |-> FALSE, next |-> at, stack |-> stack]

(* matchGuardClause: a branch onto a return. *)
MatchGuardClause(p, at) == p[at].to > at /\ p[p[at].to].op = "return"

RECURSIVE OrLinks(_, _, _)
(* The tests between from and the body that lead into it: [at, inverted,   *)
(* decoded], with what is in front of each.  The last may lead around the  *)
(* body instead.  A sequence that does not end with an end is no chain.    *)
OrLinks(p, from, body) ==
  LET at   == FirstBranch(p, from, body)
      link(inverted) == [at |-> at, inverted |-> inverted, decoded |-> DecodeRange(p, from, at, <<>>)]
  IN  IF from = body THEN [links |-> <<>>, ok |-> TRUE]
      ELSE IF at = body \/ ~IsConditional(p[at]) THEN [links |-> <<>>, ok |-> FALSE]
      ELSE IF p[at].to = body
           THEN LET more == OrLinks(p, at + 1, body)
                IN  [links |-> <<link(FALSE)>> \o more.links, ok |-> more.ok]
      ELSE [links |-> <<link(TRUE)>>, ok |-> at = body - 1 /\ p[at].to > body]

(* Where a body without a branch leaves the method, or 0. *)
TerminatorEnd(p, body) ==
  LET stops == {i \in body .. Len(p) : p[i].op = "return" \/ IsBranch(p[i])}
      first == CHOOSE i \in stops : \A k \in stops : i <= k
  IN  IF stops # {} /\ p[first].op = "return" THEN first + 1 ELSE 0

(* matchOrChainGuard: several tests that share one body. *)
MatchOrChainGuard(p, at, stack) ==
  LET body  == p[at].to
      found == OrLinks(p, at + 1, body)
      links == <<[at |-> at, inverted |-> FALSE, decoded |-> [stack |-> stack, stmts |-> <<>>]]>>
                 \o found.links
      last  == links[Len(links)]
      end   == IF last.inverted THEN p[last.at].to ELSE TerminatorEnd(p, body)
      none  == [ok |-> FALSE, links |-> <<>>, body |-> 0, end |-> 0]
  IN  IF body <= at + 1 \/ ~found.ok \/ Len(links) < 2 \/ end = 0 THEN none
      ELSE [ok |-> TRUE, links |-> links, body |-> body, end |-> end]

(* A test that leads into the body holds when its branch is taken. *)
LinkCondition(p, link) ==
  LET raw == BuildCondition(p, link.at, link.decoded.stack)
  IN  IF link.inverted THEN raw ELSE Negated(raw)

AnyOf(p, links) ==
  LET first[i \in 1 .. Len(links)] ==
        IF i = 1 THEN LinkCondition(p, links[1]) ELSE Either(first[i - 1], LinkCondition(p, links[i]))
  IN  first[Len(links)]

RECURSIVE ChainLinks(_, _, _)
(* collectElseIfChain: the if/else-if links from cursor on whose bodies    *)
(* end in a jump to the end of the chain, or to where it falls through to. *)
ChainLinks(p, cursor, end) ==
  LET at      == FirstBranch(p, cursor, end)
      else    == p[at].to
      decoded == DecodeRange(p, cursor, at, <<>>)
      isLink  ==
        /\ at < end
        /\ IsConditional(p[at])
        /\ else > at + 1 /\ else <= end
        /\ p[else - 1].op = "goto"
        /\ FallsThroughTo(p, p[else - 1].to, end)
      more    == ChainLinks(p, else, end)
      link    == [cond |-> BuildCondition(p, at, decoded.stack), preamble |-> decoded.stmts,
                  start |-> at + 1, end |-> else - 1]
  IN  IF isLink THEN [links |-> <<link>> \o more.links, cursor |-> more.cursor]
      ELSE [links |-> <<>>, cursor |-> cursor]

-----------------------------------------------------------------------------
(* blockBodyCallBudget: the bodies that may still be begun.  When none is  *)
(* left everything under way is given up.                                  *)
GivenUp(left) == left <= 0

NoMatch(stack, left) == [ok |-> FALSE, stmts |-> <<>>, next |-> 0, stack |-> stack, left |-> left]
Match(stmts, next, stack, left) ==
  [ok |-> TRUE, stmts |-> stmts, next |-> next, stack |-> stack, left |-> left]

RECURSIVE Body(_, _, _, _), BodyFrom(_, _, _, _, _, _)

RECURSIVE Bodies(_, _, _)
(* The bodies of links, one after another. *)
Bodies(p, links, left) ==
  IF links = <<>> THEN [bodies |-> <<>>, left |-> left]
  ELSE LET body == Body(p, links[1].start, links[1].end, left)
           more == Bodies(p, Tail(links), body.left)
       IN  [bodies |-> <<body.stmts>> \o more.bodies, left |-> more.left]

RECURSIVE Nested(_, _, _)
(* Every link is the else of the one before it, behind its preamble. *)
Nested(links, bodies, tail) ==
  IF links = <<>> THEN tail
  ELSE Append(links[1].preamble,
              IfStmt(links[1].cond, bodies[1], Nested(Tail(links), Tail(bodies), tail)))

CollectElseIfChain(p, first, end, left) ==
  LET found  == ChainLinks(p, first.end + 1, end)
      links  == <<first>> \o found.links
      tail   == Body(p, found.cursor, end, left)
      bodies == Bodies(p, links, tail.left)
  IN  IF found.links = <<>> THEN [ok |-> FALSE, stmts |-> <<>>, left |-> left]
      ELSE [ok |-> TRUE, stmts |-> Nested(links, bodies.bodies, tail.stmts), left |-> bodies.left]

(* decompileIfElse: what is in front of the place the branch leads to      *)
(* tells a loop from an if, and where its else ends.                       *)
DecompileIfElse(p, at, stack, left) ==
  LET else  == p[at].to
      jump  == p[else - 1]
      cond  == BuildCondition(p, at, stack)
      rest  == Pop(stack)
      short == Body(p, at + 1, else - 1, left)
      whole == Body(p, at + 1, else, left)
      chain == CollectElseIfChain(p, [cond |-> cond, preamble |-> <<>>, start |-> at + 1, end |-> else - 1],
                                  jump.to, left)
      other == Body(p, else, jump.to, short.left)
  IN  IF else <= at + 1 THEN NoMatch(stack, left)
      ELSE IF jump.op = "goto" /\ jump.to <= at
           THEN Match(<<WhileStmt(cond, short.stmts)>>, else, rest, short.left)
      ELSE IF jump.op # "goto" \/ jump.to <= else
           THEN Match(<<IfStmt(cond, whole.stmts, <<>>)>>, else, rest, whole.left)
      ELSE IF chain.ok THEN Match(chain.stmts, jump.to, rest, chain.left)
      ELSE Match(<<IfStmt(cond, short.stmts, other.stmts)>>, jump.to, rest, other.left)

(* decompileBlockBody: positions start .. end - 1, with a stack of their own. *)
Body(p, start, end, left) ==
  IF GivenUp(left - 1) THEN [stmts |-> <<>>, left |-> 0]
  ELSE BodyFrom(p, start, end, <<>>, <<>>, left - 1)

BodyFrom(p, at, end, stack, stmts, left) ==
  IF GivenUp(left) \/ at >= end
  THEN [stmts |-> EliminateDeadCode(stmts \o LeftOver(stack)), left |-> left]
  ELSE LET ternary == MatchGeneralTernary(p, at, stack)
           if      == DecompileIfElse(p, at, stack, left)
           decoded == Decode(p, at, stack)
       IN  IF ~IsConditional(p[at])
           THEN BodyFrom(p, at + 1, end, decoded.stack, stmts \o decoded.stmts, left)
           ELSE IF ternary.ok THEN BodyFrom(p, ternary.next, end, ternary.stack, stmts, left)
           ELSE IF if.ok THEN BodyFrom(p, if.next, end, if.stack, stmts \o if.stmts, if.left)
           ELSE BodyFrom(p, at + 1, end, Append(Pop(stack), BuildCondition(p, at, stack)), stmts, left)

-----------------------------------------------------------------------------
(* decompileOrChainGuard, decompileGuardClause: only at the top of a method. *)
DecompileOrChainGuard(p, at, chain, stack, left) ==
  LET body == Body(p, chain.body, chain.end, left)
      preambles[i \in 0 .. Len(chain.links)] ==
        IF i = 0 THEN <<>> ELSE preambles[i - 1] \o chain.links[i].decoded.stmts
  IN  Match(Append(preambles[Len(chain.links)], IfStmt(AnyOf(p, chain.links), body.stmts, <<>>)),
            chain.end, Pop(stack), body.left)

DecompileGuardClause(p, at, stack, left) ==
  LET body == Body(p, at + 1, p[at].to, left)
  IN  Match(<<IfStmt(Negated(BuildCondition(p, at, stack)), <<ReturnStmt>>, <<>>)>> \o body.stmts,
            p[at].to + 1, Pop(stack), body.left)

(* tryWhileLoop: a jump back, to a test within five instructions.  What it *)
(* took from the stack and the budget is gone also if the loop it finds    *)
(* does not end behind the jump.                                           *)
TryWhileLoop(p, at, stack, left) ==
  LET near == {i \in p[at].to .. p[at].to + 4 : i <= Len(p) /\ IsConditional(p[i])}
      test == CHOOSE i \in near : \A k \in near : i <= k
      end  == p[test].to
      body == Body(p, test + 1, end, left)
  IN  IF near = {} \/ end <= test + 1 THEN NoMatch(stack, left)
      ELSE [Match(<<WhileStmt(BuildCondition(p, test, stack), body.stmts)>>, end, Pop(stack), body.left)
              EXCEPT !.ok = end > at]

RECURSIVE ControlFlowFrom(_, _, _, _, _)
(* decompileControlFlow from position at on. *)
ControlFlowFrom(p, at, stack, stmts, left) ==
  LET chain   == MatchOrChainGuard(p, at, stack)
      ternary == MatchGeneralTernary(p, at, stack)
      found   == CASE IsConditional(p[at]) /\ chain.ok -> DecompileOrChainGuard(p, at, chain, stack, left)
                   [] IsConditional(p[at]) /\ ~chain.ok /\ MatchGuardClause(p, at) ->
                        DecompileGuardClause(p, at, stack, left)
                   [] IsConditional(p[at]) /\ ~chain.ok /\ ~MatchGuardClause(p, at) /\ ternary.ok ->
                        Match(<<>>, ternary.next, ternary.stack, left)
                   [] IsConditional(p[at]) /\ ~chain.ok /\ ~MatchGuardClause(p, at) /\ ~ternary.ok ->
                        DecompileIfElse(p, at, stack, left)
                   [] p[at].op = "goto" /\ p[at].to < at -> TryWhileLoop(p, at, stack, left)
                   [] OTHER -> NoMatch(Decode(p, at, stack).stack, left)
  IN  IF GivenUp(left) \/ at > Len(p) THEN [stmts |-> stmts, stack |-> stack, left |-> left]
      ELSE IF found.ok
           THEN ControlFlowFrom(p, found.next, found.stack, stmts \o found.stmts, found.left)
           ELSE ControlFlowFrom(p, at + 1, found.stack, stmts \o Decode(p, at, stack).stmts, found.left)

RECURSIVE FlatFrom(_, _, _, _)
(* decompileFlat: one instruction after another, a mark for every branch. *)
FlatFrom(p, at, stack, stmts) ==
  LET decoded == Decode(p, at, stack)
  IN  IF at > Len(p) THEN stmts \o LeftOver(stack)
      ELSE IF IsConditional(p[at]) THEN FlatFrom(p, at + 1, Pop(stack), Append(stmts, Unrecovered))
      ELSE FlatFrom(p, at + 1, decoded.stack, stmts \o decoded.stmts)

(* A mutant of DecompileCode: what was recovered before the matchers gave   *)
(* up is printed.                                                          *)
MutDecompileCode(p, budget) ==
  LET all == ControlFlowFrom(p, 1, <<>>, <<>>, budget)
  IN  [stmts |-> EliminateDeadCode(all.stmts \o LeftOver(all.stack)), flat |-> GivenUp(all.left)]

(* decompileCode, and whether the matchers gave up. *)
DecompileCode(p, budget) ==
  LET all == ControlFlowFrom(p, 1, <<>>, <<>>, budget)
  IN  [stmts |-> EliminateDeadCode(IF GivenUp(all.left) THEN FlatFrom(p, 1, <<>>, <<>>)
                                   ELSE all.stmts \o LeftOver(all.stack)),
       flat  |-> GivenUp(all.left)]
=============================================================================
