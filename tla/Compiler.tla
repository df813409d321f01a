------------------------------ MODULE Compiler ------------------------------
(***************************************************************************)
(* How a compiler lays out the structured statements of C as ARM64 code,   *)
(* in the ways the lifter's comments describe: the environment of          *)
(* LiftFunction.                                                           *)
(***************************************************************************)
EXTENDS BasicBlocks, SequencesExt, FiniteSetsExt

(* Source: sequences of these. *)
Leaf(kind)          == [kind |-> kind]
IfElse(c, a, b)     == [kind |-> "if", cond |-> c, then |-> a, else |-> b]
Loop(kind, c, body) == [kind |-> kind, cond |-> c, body |-> body]

Atom       == [op |-> "atom"]
And(a, b)  == [op |-> "and", left |-> a, right |-> b]
OrElse(a, b) == [op |-> "or", left |-> a, right |-> b]

(* Code with labels. *)
Label(lab)      == [kind |-> "label", op |-> "", to |-> lab]
Jump(op, lab)   == [kind |-> "inst", op |-> op, to |-> lab]
Plain(op)       == [kind |-> "inst", op |-> op, to |-> <<>>]

RECURSIVE CondCode(_, _, _, _, _)
(* Jumps to t or to f; the code that follows is at next, one of them. *)
CondCode(c, t, f, next, path) ==
  LET mid == Append(path, 9)
      two(t1, f1) == CondCode(c.left, t1, f1, mid, Append(path, 1))
                       \o <<Label(mid)>> \o CondCode(c.right, t, f, next, Append(path, 2))
  IN  CASE c.op = "atom" -> IF next = f THEN <<Jump("cbnz", t)>> ELSE <<Jump("cbz", f)>>
        [] c.op = "and"  -> two(mid, f)
        [] c.op = "or"   -> two(t, mid)

Leaves(stmts) == stmts # <<>> /\ Last(stmts).kind \in {"break", "continue", "return"}

RECURSIVE Code(_, _, _, _)
Code(stmts, path, brk, cont) ==
  IF stmts = <<>> THEN <<>>
  ELSE LET s    == Head(stmts)
           at(i) == Append(path, i)
           end  == at(3)
           jump(lab, after) == IF Leaves(after) THEN <<>> ELSE <<Jump("b", lab)>>
           body == Code(s.body, at(4), end, at(1))
           one ==
             CASE s.kind = "store"    -> <<Plain("str")>>
               [] s.kind = "return"   -> <<Plain("ret")>>
               [] s.kind = "break"    -> <<Jump("b", brk)>>
               [] s.kind = "continue" -> <<Jump("b", cont)>>
               [] s.kind = "if" ->
                    CondCode(s.cond, at(1), at(2), at(1), at(5))
                      \o <<Label(at(1))>> \o Code(s.then, at(6), brk, cont)
                      \o (IF s.else = <<>> THEN <<>> ELSE jump(end, s.then))
                      \o <<Label(at(2))>> \o Code(s.else, at(7), brk, cont) \o <<Label(end)>>
               [] s.kind = "while" ->
                    <<Label(at(1))>> \o CondCode(s.cond, at(2), end, at(2), at(5))
                      \o <<Label(at(2))>> \o body \o jump(at(1), s.body) \o <<Label(end)>>
               [] s.kind = "while2" ->
                    <<Jump("b", at(1)), Label(at(2))>> \o body
                      \o <<Label(at(1))>> \o CondCode(s.cond, at(2), end, end, at(5)) \o <<Label(end)>>
               [] s.kind = "do" ->
                    <<Label(at(2))>> \o body
                      \o <<Label(at(1))>> \o CondCode(s.cond, at(2), end, end, at(5)) \o <<Label(end)>>
               [] s.kind = "forever" -> <<Label(at(1))>> \o body \o jump(at(1), s.body) \o <<Label(end)>>
       IN  one \o Code(Tail(stmts), at(8), brk, cont)

(* Labels become addresses. *)
Assemble(code) ==
  LET insts == SelectSeq(code, LAMBDA c : c.kind = "inst")
      address(lab) ==
        LET i == CHOOSE i \in DOMAIN code : code[i] = Label(lab)
        IN  1 + Cardinality({j \in 1 .. i : code[j].kind = "inst"})
      inst(i) ==
        LET c == insts[i] IN
        CASE c.op = "str" -> Inst("str", <<Reg(<<"wzr", 0>>), Mem(SP, i, FALSE)>>)
          [] c.op = "ret" -> Inst("ret", <<>>)
          [] c.op = "sub" -> Inst("sub", <<Reg(SP), Reg(SP), Imm(16)>>)
          [] c.op = "b"   -> Inst("b", <<Imm(address(c.to))>>)
          [] OTHER        -> Inst(c.op, <<Reg(<<"w", 0>>), Imm(address(c.to))>>)
  IN  [i \in DOMAIN insts |-> inst(i)]

(* A function makes room for its variables first: no branch leads to its   *)
(* own address, which the resolver knows.                                  *)
Compile(stmts) ==
  Assemble(<<Plain("sub")>> \o Code(stmts, <<>>, <<>>, <<>>) \o <<Plain("ret")>>)
=============================================================================
