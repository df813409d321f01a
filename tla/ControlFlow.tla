---------------------------- MODULE ControlFlow ----------------------------
(***************************************************************************)
(* How the ARM64 lifter turns the control flow graph of a function into    *)
(* nested statements (liftBlockGraph and what it calls in                  *)
(* internal/arm64lift/lift.go).  Nothing is shared at a merge: both arms   *)
(* of an if lift the blocks after it, each with its own copy of the        *)
(* register file; one budget, shared by all of them, bounds the work.      *)
(*                                                                         *)
(* A lift in progress c holds the register file l, whose out are the       *)
(* statements so far, the budget left, and for every do-while loop met     *)
(* (doWhileTailState) the condition captured at its tail.  A function      *)
(* under g is its control flow graph.                                      *)
(***************************************************************************)
EXTENDS RegisterFile, BlockSearch, SequencesExt

NoCond == [kind |-> "none"]

(* The condition of a block, told apart by where its branch is. *)
Test(g, s) == [kind |-> "test", at |-> g.branch[s]]
Not(c)   == [kind |-> "not", left |-> c]
Or(a, b) == [kind |-> "or", left |-> a, right |-> b]

If(c, a, b)   == [kind |-> "if", cond |-> c, then |-> a, else |-> b]
While(c, b)   == [kind |-> "while", cond |-> c, body |-> b]
DoWhile(c, b) == [kind |-> "dowhile", cond |-> c, body |-> b]
Break         == [kind |-> "break"]
Continue      == [kind |-> "continue"]

-----------------------------------------------------------------------------
(* The cases of run(), as StraightLine takes them one at a time. *)
LiftInst(l, inst) ==
  LET op == inst.ops
      dst == op[1].reg
  IN  CASE inst.op = "mov"  -> LiftMov(l, dst, op[2])
        [] inst.op = "adr"  -> LiftAddr(l, dst, op[2].imm)
        [] inst.op = "add"  -> LiftAdd(l, dst, op[2].reg, op[3])
        [] inst.op = "alu"  -> LiftALU(l, dst, op[2].reg, op[3])
        [] inst.op = "cmp"  -> LiftCmp(l, dst, op[2])
        [] inst.op = "cset" -> LiftCset(l, dst)
        [] inst.op = "str"  -> LiftStr(l, dst, op[2])
        [] inst.op = "ldr"  -> LiftLdr(l, dst, op[2])
        [] inst.op = "bl"   -> LiftCall(l, op[1].imm)
        [] inst.op = "blr"  -> LiftBlr(l, dst)
        [] inst.op = "b"    -> LiftTailCall(l, op[1].imm)
        [] inst.op = "br"   -> LiftBr(l, dst)
        [] inst.op = "ret"  -> LiftRet(l)
        [] OTHER            -> l

Run(c, insts) == [c EXCEPT !.l = FoldLeft(LiftInst, @, insts)]

(* A conditional block up to its branch, and the branch. *)
RunToBranch(c, insts) ==
  LET before == Run(c, Front(insts)) IN [before EXCEPT !.l = LiftCondition(@, Last(insts))]

Flush(c)      == [c EXCEPT !.l = FlushRemaining(@)]
Say(c, stmt)  == [c EXCEPT !.l.out = Append(@, stmt)]
Spend(c, r)   == [c EXCEPT !.budget = r.budget]

(* A fork shares the budget and the captured conditions, nothing else. *)
Fork(c)       == [c EXCEPT !.l.out = <<>>]
Join(c, f)    == [c EXCEPT !.budget = f.budget, !.tails = f.tails]

-----------------------------------------------------------------------------
IsPlainConditionLink(insts) ==
  Len(insts) = 1 \/ (Len(insts) = 2 /\ insts[1].op = "cmp")

NoLink(c) == [ok |-> FALSE, cond |-> NoCond, body |-> Nowhere, exit |-> Nowhere, c |-> c]

(* tryOrChainLink: addr is one more test of the loop's condition.  A link  *)
(* is run after the links behind it.                                       *)
RECURSIVE OrChainLink(_, _, _, _, _)
OrChainLink(g, head, addr, loop, c) ==
  IF addr \notin g.blocks \/ ~g.cond[addr] \/ ~IsPlainConditionLink(g.insts[addr]) THEN NoLink(c)
  ELSE LET t   == g.succs[addr][1]
           e   == g.succs[addr][2]
           rt  == Reaches(g, t, head, loop, c.budget)
           re  == Reaches(g, e, head, loop, rt.budget)
           now == Spend(c, re)
           link(cond, body, exit, from) ==
             [ok |-> TRUE, cond |-> cond, body |-> body, exit |-> exit,
              c |-> RunToBranch(from, g.insts[addr])]
           viaE == OrChainLink(g, head, e, loop, now)
           viaT == OrChainLink(g, head, t, loop, viaE.c)
       IN  CASE rt.found /\ ~re.found -> link(Test(g, addr), t, e, now)
             [] ~rt.found /\ re.found -> link(Not(Test(g, addr)), e, t, now)
             [] ~rt.found /\ ~re.found -> NoLink(now)
             [] rt.found /\ re.found /\ viaE.ok ->
                  link(Or(Test(g, addr), viaE.cond), viaE.body, viaE.exit, viaE.c)
             [] rt.found /\ re.found /\ ~viaE.ok /\ viaT.ok ->
                  link(Or(Not(Test(g, addr)), viaT.cond), viaT.body, viaT.exit, viaT.c)
             [] OTHER -> NoLink(viaT.c)

-----------------------------------------------------------------------------
(* A mutant of WhileShape: the branch is taken into the body always. *)
WhileShapeUnnegated(g, s, loop, c) ==
  LET t  == g.succs[s][1]
      e  == g.succs[s][2]
      rt == Reaches(g, t, s, loop, c.budget)
      re == Reaches(g, e, s, loop, rt.budget)
      in(body, exit) == [ok |-> TRUE, cond |-> Test(g, s), body |-> body, exit |-> exit, c |-> Spend(c, re)]
  IN  IF rt.found = re.found THEN NoLink(Spend(c, re))
      ELSE IF rt.found THEN in(t, e) ELSE in(e, t)

(* tryLiftWhileLoop, what it recognizes: one side of s leads back to s, or *)
(* both do and a chain of tests tells which of them is the body.           *)
WhileShape(g, s, loop, c) ==
  LET t   == g.succs[s][1]
      e   == g.succs[s][2]
      rt  == Reaches(g, t, s, loop, c.budget)
      re  == Reaches(g, e, s, loop, rt.budget)
      now == Spend(c, re)
      in(cond, body, exit) == [ok |-> TRUE, cond |-> cond, body |-> body, exit |-> exit, c |-> now]
      viaE == OrChainLink(g, s, e, loop, now)
      viaT == OrChainLink(g, s, t, loop, viaE.c)
  IN  CASE rt.found /\ ~re.found  -> in(Test(g, s), t, e)
        [] ~rt.found /\ re.found  -> in(Not(Test(g, s)), e, t)
        [] ~rt.found /\ ~re.found -> NoLink(now)
        [] rt.found /\ re.found /\ viaE.ok -> [viaE EXCEPT !.cond = Or(Test(g, s), @)]
        [] rt.found /\ re.found /\ ~viaE.ok /\ viaT.ok -> [viaT EXCEPT !.cond = Or(Not(Test(g, s)), @)]
        [] OTHER -> NoLink(viaT.c)

(* liftDoWhileTail: every path to the tail runs it again; the first one    *)
(* gives the loop its condition.                                           *)
DoWhileTail(g, loop, c) ==
  LET s    == loop.head
      cond == IF g.succs[s][1] = loop.exit THEN Not(Test(g, s)) ELSE Test(g, s)
      run  == RunToBranch(c, g.insts[s])
  IN  IF s \notin g.blocks \/ ~g.cond[s] THEN c
      ELSE Flush([run EXCEPT !.tails[loop.tail] = IF @ = NoCond THEN cond ELSE @])

RECURSIVE LiftBlock(_, _, _, _, _), Dispatch(_, _, _, _, _)

(* A mutant of LoopEdge: every block met before is a loop to continue. *)
LoopEdgeToVisited(g, s, visited, loop, c) ==
  LET fork == LiftBlock(g, s, visited, loop, Fork(c))
  IN  CASE s \in visited \cup {loop.head} -> [stmts |-> <<Continue>>, c |-> c]
        [] s \notin visited /\ loop # NoLoop /\ s = loop.exit -> [stmts |-> <<Break>>, c |-> c]
        [] s \notin g.blocks /\ s \notin {loop.head, loop.exit} -> [stmts |-> <<>>, c |-> c]
        [] OTHER -> [stmts |-> fork.l.out, c |-> Join(c, fork)]

(* liftLoopEdge: one arm of an if.  A jump to the tail of a do-while runs  *)
(* the tail in the lifter of the if itself, anything else in a fork.       *)
LoopEdge(g, s, visited, loop, c) ==
  LET tail == DoWhileTail(g, loop, Fork(c))
      fork == LiftBlock(g, s, visited, loop, Fork(c))
  IN  CASE loop # NoLoop /\ s = loop.head /\ loop.tail # 0 ->
             [stmts |-> Append(tail.l.out, Continue), c |-> [tail EXCEPT !.l.out = c.l.out]]
        [] loop # NoLoop /\ s = loop.head /\ loop.tail = 0 -> [stmts |-> <<Continue>>, c |-> c]
        [] loop # NoLoop /\ s # loop.head /\ s = loop.exit -> [stmts |-> <<Break>>, c |-> c]
        [] s \notin g.blocks /\ s \notin {loop.head, loop.exit} -> [stmts |-> <<>>, c |-> c]
        [] OTHER -> [stmts |-> fork.l.out, c |-> Join(c, fork)]

Failed(c) == [ok |-> FALSE, c |-> c]
Done(c)   == [ok |-> TRUE, c |-> c]

(* What comes after a loop is lifted in the context around it. *)
AfterLoop(g, exit, visited, outer, c) ==
  IF exit \in g.blocks THEN LiftBlock(g, exit, visited, outer, c) ELSE c

TryWhileLoop(g, s, visited, outer, c) ==
  LET shape == WhileShape(g, s, outer, c)
      loop  == [head |-> s, exit |-> shape.exit, tail |-> 0]
      body  == Flush(LiftBlock(g, shape.body, visited, loop, Fork(shape.c)))
  IN  IF ~shape.ok \/ shape.body \notin g.blocks THEN Failed(shape.c)
      ELSE Done(AfterLoop(g, shape.exit, visited, outer,
                          Say(Join(shape.c, body), While(shape.cond, body.l.out))))

(* tryLiftDoWhileLoop.  A block that tests first, with one side leading    *)
(* back to it, is left to TryWhileLoop.                                    *)
TryDoWhileLoop(g, s, visited, outer, c) ==
  LET tests == g.cond[s] /\ g.succs[s][1] # s /\ g.succs[s][2] # s
      rt    == Reaches(g, g.succs[s][1], s, outer, c.budget)
      re    == Reaches(g, g.succs[s][2], s, outer, rt.budget)
      now   == IF tests THEN Spend(c, re) ELSE c
      found == FindTail(g, s, visited, outer, now.budget)
      n     == Len(c.tails) + 1
      start == [Spend(now, found) EXCEPT !.tails = Append(@, NoCond)]
      loop  == [head |-> found.tail, exit |-> found.exit, tail |-> n]
      body  == Flush(Dispatch(g, s, visited \cup {s}, loop, Fork(start)))
      after == Join(start, body)
  IN  IF tests /\ rt.found # re.found THEN Failed(now)
      ELSE IF found.tail = Nowhere THEN Failed(Spend(now, found))
      ELSE IF body.tails[n] = NoCond THEN Failed(after)
      ELSE Done(AfterLoop(g, found.exit, visited, outer,
                          Say(after, DoWhile(body.tails[n], body.l.out))))

(* liftBlockGraph *)
LiftBlock(g, s, visited, loop, c) ==
  IF s \in visited THEN Flush(c)
  ELSE IF c.budget <= 0 THEN c
  ELSE LET try == TryDoWhileLoop(g, s, visited, loop, [c EXCEPT !.budget = @ - 1])
       IN  IF try.ok THEN try.c ELSE Dispatch(g, s, visited \cup {s}, loop, try.c)

(* liftBlockGraphDispatch *)
Dispatch(g, s, visited, loop, c) ==
  LET succs == g.succs[s]
      head  == Flush(RunToBranch(c, g.insts[s]))
      try   == TryWhileLoop(g, s, visited, loop, head)
      then  == LoopEdge(g, succs[1], visited, loop, try.c)
      else  == LoopEdge(g, succs[2], visited, loop, then.c)
      ran   == Run(c, g.insts[s])
  IN  IF loop.tail # 0 /\ s = loop.head THEN DoWhileTail(g, loop, c)
      ELSE IF g.cond[s]
           THEN IF try.ok THEN try.c ELSE Say(else.c, If(Test(g, s), then.stmts, else.stmts))
      ELSE IF Len(succs) # 1 THEN Flush(ran)
      ELSE IF loop # NoLoop /\ succs[1] = loop.exit THEN Say(Flush(ran), Break)
      ELSE IF loop # NoLoop /\ succs[1] = loop.head
           THEN IF loop.tail # 0 THEN DoWhileTail(g, loop, ran) ELSE Flush(ran)
      ELSE IF succs[1] \in g.blocks THEN LiftBlock(g, succs[1], visited, loop, ran)
      ELSE Flush(ran)

(* LiftFunction: what it returns, and what is left of the budget (20000).  *)
LiftFunction(prog, budget) ==
  LET g     == Graph(prog)
      start == [l |-> NewLifter, budget |-> budget, tails |-> <<>>]
      end   == IF Cardinality(g.blocks) <= 1 THEN Flush(Run(start, prog))
               ELSE LiftBlock(g, 1, {}, NoLoop, start)
  IN  [stmts |-> end.l.out, budget |-> end.budget]

-----------------------------------------------------------------------------
RECURSIVE JumpsIn(_)
(* Every break and continue of the list has a loop around it there. *)
JumpsIn(stmts) ==
  \A i \in DOMAIN stmts :
    CASE stmts[i].kind \in {"break", "continue"} -> FALSE
      [] stmts[i].kind = "if" -> JumpsIn(stmts[i].then) /\ JumpsIn(stmts[i].else)
      [] OTHER -> TRUE
=============================================================================
