---------------------------- MODULE JavaCompiler ----------------------------
(***************************************************************************)
(* Bytecode of structured statements, as a Java compiler writes it: the    *)
(* environment of DecompileCode.  The order of code is Compiler's; a test  *)
(* is a question and a branch.                                             *)
(***************************************************************************)
EXTENDS Compiler

Bytecode(op, to, static) == [op |-> op, to |-> to, static |-> static]

(* One piece of labelled code.  Methods are static, or called on this. *)
Written(c, static) ==
  LET invoke(op) == (IF static THEN <<>> ELSE <<Bytecode("this", <<>>, TRUE)>>)
                      \o <<Bytecode(op, <<>>, static)>>
  IN  CASE c.kind = "label" -> <<c>>
        [] c.op = "str"  -> invoke("call")
        [] c.op = "ret"  -> <<Bytecode("return", <<>>, TRUE)>>
        [] c.op = "b"    -> <<Bytecode("goto", c.to, TRUE)>>
        [] c.op = "cbz"  -> invoke("ask") \o <<Bytecode("ifeq", c.to, TRUE)>>
        [] c.op = "cbnz" -> invoke("ask") \o <<Bytecode("ifne", c.to, TRUE)>>

Jumps(inst) == inst.op \in {"goto", "ifeq", "ifne"}

(* Labels become positions. *)
Placed(code) ==
  LET insts  == SelectSeq(code, LAMBDA c : "static" \in DOMAIN c)
      places == [lab \in {code[i].to : i \in {k \in DOMAIN code : "static" \notin DOMAIN code[k]}} |->
                   LET i == CHOOSE i \in DOMAIN code : code[i] = Label(lab)
                   IN  1 + Cardinality({j \in 1 .. i : "static" \in DOMAIN code[j]})]
  IN  [i \in DOMAIN insts |->
         [insts[i] EXCEPT !.to = IF Jumps(insts[i]) THEN places[@] ELSE 0]]

RECURSIVE JumpEnd(_, _)
(* A jump to a jump leads where that one leads (Code.branch of javac). *)
JumpEnd(p, i) == IF p[i].op = "goto" THEN JumpEnd(p, p[i].to) ELSE i

Threaded(p) ==
  [i \in DOMAIN p |-> [p[i] EXCEPT !.to = IF Jumps(p[i]) THEN JumpEnd(p, @) ELSE 0]]

RECURSIVE Reached(_, _)
Reached(p, from) ==
  LET on == from \cup {i + 1 : i \in {k \in from : p[k].op \notin {"goto", "return"}}}
                 \cup {p[i].to : i \in {k \in from : Jumps(p[k])}}
  IN  IF on = from THEN from ELSE Reached(p, on)

(* Code that cannot be reached is not written. *)
Alive(p) ==
  LET alive    == Reached(p, {1})
      place(i) == Cardinality({k \in alive : k <= i})
      was      == [n \in 1 .. Cardinality(alive) |-> CHOOSE i \in alive : place(i) = n]
  IN  [n \in DOMAIN was |->
         [p[was[n]] EXCEPT !.to = IF Jumps(p[was[n]]) THEN place(@) ELSE 0]]

CompileJava(stmts, static, threaded) ==
  LET code == Code(stmts, <<>>, <<>>, <<>>) \o <<Plain("ret")>>
      p    == Placed(FlattenSeq([i \in DOMAIN code |-> Written(code[i], static)]))
  IN  Alive(IF threaded THEN Threaded(p) ELSE p)
=============================================================================
