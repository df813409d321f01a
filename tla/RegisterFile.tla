---------------------------- MODULE RegisterFile ----------------------------
(***************************************************************************)
(* What the ARM64 lifter keeps while it walks a run of instructions (the   *)
(* type lifter of internal/arm64lift/lift.go): the expression each         *)
(* register holds, the addresses some of them are known to hold, the names *)
(* of stack slots, the operands of the last comparison, and which call     *)
(* expressions are already part of the output.                             *)
(*                                                                         *)
(* An expression is abstracted to what decides what is printed: its kind,  *)
(* the name of a variable, the identity of a call, the calls printed with  *)
(* it (calls) and those a pointer load embedded without consuming them     *)
(* (loose).  Calls are numbered in the order they are made.                *)
(***************************************************************************)
EXTENDS BasicBlocks, FiniteSets

CONSTANTS
  Numbers,    \* the numbers of the general registers in use
  ArgCount,   \* x0 .. x(ArgCount - 1) carry arguments: 8
  Params,     \* the names of the parameters, in order
  Symbols,    \* addresses the SymbolResolver knows
  Strings,    \* addresses the StringResolver knows
  Arity,      \* knownArity: the number of arguments of some of the Symbols
  AddrSpace   \* addresses are computed modulo this: 2^64

ASSUME RegisterAssumption ==
  /\ Numbers \subseteq Nat
  /\ ArgCount \in Nat \ {0}
  /\ 0 .. ArgCount - 1 \subseteq Numbers
  /\ AddrSpace \in Nat \ {0}
  /\ DOMAIN Arity \subseteq Symbols
  /\ \A s \in DOMAIN Arity : Arity[s] \in 0 .. ArgCount

X(n) == <<"x", n>>
W(n) == <<"w", n>>
Names == {X(n) : n \in Numbers} \cup {W(n) : n \in Numbers}

Addresses == 0 .. AddrSpace - 1
NoAddr    == AddrSpace

-----------------------------------------------------------------------------
(* Expressions. *)

Expr(kind, name, calls, loose) ==
  [kind |-> kind, name |-> name, id |-> 0, calls |-> calls, loose |-> loose]

Nothing   == Expr("none", <<>>, {}, {})
IntLit    == Expr("int", <<>>, {}, {})
Local(nm) == Expr("local", nm, {}, {})

Binary(a, b) ==
  Expr("binary", <<>>, a.calls \cup b.calls, a.loose \cup b.loose)

IsCall(e) == e.kind = "call"

(* Reading through a pointer embeds it without consuming it. *)
FieldAccess(e) ==
  LET own == IF IsCall(e) THEN {e.id} ELSE {}
  IN  Expr("field", <<>>, e.calls \ own, e.loose \cup own)

(* The target of a store consumes the pointer it is reached through. *)
Stored(e) == Expr("field", <<>>, e.calls, e.loose)

(* The id-th call, with the expressions printed inside it. *)
Call(id, parts) ==
  [kind  |-> "call", name |-> <<>>, id |-> id,
   calls |-> {id} \cup UNION {e.calls : e \in parts},
   loose |-> UNION {e.loose : e \in parts}]

(* Statements: what is assigned to or printed around, and the value. *)
Stmt(kind, target, value) == [kind |-> kind, target |-> target, value |-> value]
ExprStmt(e)   == Stmt("expr", Nothing, e)
Assign(t, v)  == Stmt("assign", t, v)
Return(v)     == Stmt("return", Nothing, v)

-----------------------------------------------------------------------------
(* The lifter, and how a register is read and written.                     *)

Consume(l, es) ==
  [l EXCEPT !.consumed = @ \cup {e.id : e \in {x \in es : IsCall(x)}}]

RegValue(l, r) ==
  IF r \in Names /\ l.regs[r] # Nothing THEN l.regs[r] ELSE Local(r)

(* Those of the numbers 1 .. n that are in S, in order. *)
InOrder(n, S) ==
  LET chosen[k \in 0 .. n] ==
        IF k = 0 THEN <<>>
        ELSE IF k \in S THEN Append(chosen[k - 1], k) ELSE chosen[k - 1]
  IN  chosen[n]

(* A mutant of Orphan: held by another register or not. *)
Unread(l, r, gone) == IsCall(l.regs[r]) /\ l.regs[r].id \notin l.consumed

(* A call nobody consumed, held by r and by no name that stays. *)
Orphan(l, r, gone) ==
  /\ IsCall(l.regs[r])
  /\ l.regs[r].id \notin l.consumed
  /\ \A q \in Names \ gone : l.regs[q] # l.regs[r]

(* clobberReg, for names overwritten one after the other: each of them     *)
(* holds nothing and no known address any more, and a call that only they  *)
(* held becomes a statement when the last of them goes.                    *)
Forget(l, names) ==
  LET gone == {names[i] : i \in DOMAIN names}
      lost == {l.regs[r].id : r \in {q \in gone : Orphan(l, q, gone)}}
      last == InOrder(Len(names),
                {i \in DOMAIN names :
                   /\ Orphan(l, names[i], gone)
                   /\ \A j \in DOMAIN names : j > i => l.regs[names[j]] # l.regs[names[i]]})
  IN  [l EXCEPT
         !.regs     = [r \in Names |-> IF r \in gone THEN Nothing ELSE @[r]],
         !.addrRegs = [r \in Names |-> IF r \in gone THEN NoAddr ELSE @[r]],
         !.consumed = @ \cup lost,
         !.printed  = @ \cup lost,
         !.out      = @ \o [k \in DOMAIN last |-> ExprStmt(l.regs[names[last[k]]])]]

(* A mutant of Written: the 64-bit name keeps its old value. *)
WrittenAlone(r) == <<r>>

(* Writing w<n> zero-extends into x<n>; x<n> says nothing of w<n>. *)
Written(r) == IF r[1] = "w" THEN <<r, X(r[2])>> ELSE <<r>>

ClobberReg(l, r) == Forget(l, Written(r))

SetReg(l, r, e) ==
  LET set == {Written(r)[i] : i \in DOMAIN Written(r)}
  IN  [ClobberReg(l, r) EXCEPT !.regs = [q \in Names |-> IF q \in set THEN e ELSE @[q]]]

(* Every call not consumed yet, as a statement, in the order made. *)
FlushRemaining(l) ==
  LET left == InOrder(Len(l.calls), {i \in DOMAIN l.calls : l.calls[i].id \notin l.consumed})
      ids  == {l.calls[i].id : i \in DOMAIN l.calls} \ l.consumed
  IN  [l EXCEPT
         !.consumed = @ \cup ids,
         !.printed  = @ \cup ids,
         !.out      = @ \o [k \in DOMAIN left |-> ExprStmt(l.calls[left[k]])]]

-----------------------------------------------------------------------------
(* One operator for each instruction, given its operands.                  *)

LiftMov(l, dst, src) ==
  SetReg(l, dst, IF src.type = "imm" THEN IntLit ELSE RegValue(l, src.reg))

(* adrp, adr *)
LiftAddr(l, dst, addr) == [SetReg(l, dst, IntLit) EXCEPT !.addrRegs[dst] = addr]

(* The value of an operand of an arithmetic instruction. *)
OperandValue(l, op) == IF op.type = "imm" THEN IntLit ELSE RegValue(l, op.reg)

(* sub, and, orr, eor, mul and the shifts *)
LiftALU(l, dst, lhs, rhs) ==
  LET a == RegValue(l, lhs)
      b == OperandValue(l, rhs)
  IN  SetReg(Consume(l, {a, b}), dst, Binary(a, b))

(* add: with an immediate, a known address moves on. *)
LiftAdd(l, dst, lhs, rhs) ==
  LET sum == LiftALU(l, dst, lhs, rhs)
  IN  IF rhs.type = "imm" /\ lhs \in Names /\ l.addrRegs[lhs] # NoAddr
      THEN [sum EXCEPT !.addrRegs[dst] = (l.addrRegs[lhs] + rhs.imm) % AddrSpace]
      ELSE sum

LiftCmp(l, lhs, rhs) ==
  LET a == RegValue(l, lhs)
      b == OperandValue(l, rhs)
  IN  [Consume(l, {a, b}) EXCEPT !.lastCmp = [lhs |-> a, rhs |-> b]]

LiftCset(l, dst) ==
  SetReg(l, dst, IF l.lastCmp.lhs = Nothing THEN Local(<<"cond">>)
                 ELSE Binary(l.lastCmp.lhs, l.lastCmp.rhs))

IsParam(e) == e.kind = "local" /\ \E i \in DOMAIN Params : e.name = <<"param", Params[i]>>

SlotName(disp) == <<"local", disp>>

(* A mutant of LiftStr: the value is consumed before the address is looked *)
(* at.                                                                     *)
StrConsumesFirst(l, src, mem) ==
  LET v    == RegValue(l, src)
      base == RegValue(l, mem.reg)
  IN  IF mem.indexed \/ mem.reg \in {NoReg, SP} THEN Consume(l, {v})
      ELSE [Consume(l, {base, v}) EXCEPT !.out = Append(@, Assign(Stored(base), v))]

(* A parameter stored to a fresh slot names the slot; anything else is an  *)
(* assignment.  Nothing is lifted for an indexed address.                  *)
LiftStr(l, src, mem) ==
  LET v     == RegValue(l, src)
      fresh == mem.imm \notin DOMAIN l.stack
      name  == IF fresh THEN SlotName(mem.imm) ELSE l.stack[mem.imm]
      named(n) == [d \in DOMAIN l.stack \cup {mem.imm} |-> IF d = mem.imm THEN n ELSE l.stack[d]]
      base  == RegValue(l, mem.reg)
      store(t, es) == [Consume(l, es) EXCEPT !.out = Append(@, Assign(t, v))]
  IN  IF mem.indexed \/ mem.reg = NoReg THEN l
      ELSE IF mem.reg # SP THEN store(Stored(base), {base, v})
      ELSE IF fresh /\ IsParam(v) THEN [l EXCEPT !.stack = named(v.name)]
      ELSE [store(Local(name), {v}) EXCEPT !.stack = named(name)]

(* Nothing is lifted for an indexed address, and the register is kept. *)
LiftLdr(l, dst, mem) ==
  LET at == IF mem.reg \in Names THEN l.addrRegs[mem.reg] ELSE NoAddr
      to == (at + mem.imm) % AddrSpace
  IN  IF mem.indexed THEN l
      ELSE IF mem.reg = SP
           THEN IF mem.imm \in DOMAIN l.stack THEN SetReg(l, dst, Local(l.stack[mem.imm]))
                ELSE ClobberReg(l, dst)
      ELSE IF at # NoAddr /\ to \in Symbols THEN SetReg(l, dst, Local(<<"symbol", to>>))
      ELSE IF mem.reg # NoReg THEN SetReg(l, dst, FieldAccess(RegValue(l, mem.reg)))
      ELSE ClobberReg(l, dst)

-----------------------------------------------------------------------------
(* Calls. *)

(* The values of the first n argument registers, up to the first that was  *)
(* never assigned; an address of a string gives the string.                *)
CallArgs(l, n) ==
  {IF l.addrRegs[X(i)] \in Strings THEN Expr("string", <<"string", l.addrRegs[X(i)]>>, {}, {})
   ELSE l.regs[X(i)] :
     i \in {k \in 0 .. n - 1 : \A j \in 0 .. k : l.regs[X(j)] # Nothing}}

ArgsOf(l, target) == CallArgs(l, IF target \in DOMAIN Arity THEN Arity[target] ELSE ArgCount)

ArgNames == [i \in 1 .. 2 * ArgCount |-> IF i % 2 = 1 THEN X(i \div 2) ELSE W(i \div 2 - 1)]

(* A mutant of FinishCall: calls are numbered from 0. *)
FinishCallFromZero(l, parts) ==
  LET call == Call(Len(l.calls), parts)
      gone == Forget(Consume(l, parts), ArgNames)
  IN  SetReg([gone EXCEPT !.calls = Append(@, call)], W(0), call)

(* The call takes its arguments, the argument registers hold nothing any   *)
(* more, and w0 and x0 hold the call.                                      *)
FinishCall(l, parts) ==
  LET call == Call(Len(l.calls) + 1, parts)
      gone == Forget(Consume(l, parts), ArgNames)
  IN  SetReg([gone EXCEPT !.calls = Append(@, call)], W(0), call)

LiftCall(l, target) == FinishCall(l, ArgsOf(l, target))

LiftBlr(l, r) == FinishCall(l, {RegValue(l, r)} \cup CallArgs(l, ArgCount))

(* A call in tail position is a statement at once. *)
PrintCall(l) ==
  LET call == l.calls[Len(l.calls)]
  IN  [l EXCEPT !.consumed = @ \cup {call.id},
                !.printed  = @ \cup {call.id},
                !.out      = Append(@, ExprStmt(call))]

(* "b": a tail call only when the resolver knows the target. *)
LiftTailCall(l, target) ==
  IF target \in Symbols THEN PrintCall(LiftCall(l, target)) ELSE l

LiftBr(l, r) == PrintCall(LiftBlr(l, r))

(* w0 goes before x0. *)
LiftRet(l) ==
  LET v == IF l.regs[W(0)] # Nothing THEN l.regs[W(0)]
           ELSE IF l.regs[X(0)] # Nothing THEN l.regs[X(0)]
           ELSE Local(W(0))
  IN  [Consume(l, {v}) EXCEPT !.out = Append(@, Return(v))]

(* cbz and tbz read their register, "b.cond" what lastCmp has consumed. *)
Condition(l, inst) ==
  IF inst.op = "b.cond"
  THEN IF l.lastCmp.lhs = Nothing THEN Local(<<"cond">>) ELSE Binary(l.lastCmp.lhs, l.lastCmp.rhs)
  ELSE Binary(RegValue(l, inst.ops[1].reg), IntLit)

LiftCondition(l, inst) ==
  IF inst.op = "b.cond" THEN l ELSE Consume(l, {RegValue(l, inst.ops[1].reg)})

-----------------------------------------------------------------------------
(* seedParams: the first parameters are in the argument registers. *)
NewLifter ==
  [regs     |-> [r \in Names |->
                   IF r[2] < ArgCount /\ r[2] + 1 \in DOMAIN Params
                   THEN Local(<<"param", Params[r[2] + 1]>>) ELSE Nothing],
   addrRegs |-> [r \in Names |-> NoAddr],
   stack    |-> <<>>,
   lastCmp  |-> [lhs |-> Nothing, rhs |-> Nothing],
   calls    |-> <<>>,
   consumed |-> {},
   printed  |-> {},
   out      |-> <<>>]
=============================================================================
