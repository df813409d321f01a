---------------------------- MODULE BasicBlocks ----------------------------
(***************************************************************************)
(* The control flow graph the ARM64 lifter works on (buildCFG in           *)
(* internal/arm64lift/lift.go).  A program is a sequence of instructions;  *)
(* an address is a position in it, so the instruction after p is p + 1 and *)
(* an address outside the sequence is one outside the function.            *)
(*                                                                         *)
(* An instruction has a mnemonic and operands, as Capstone delivers them.  *)
(* Registers are pairs <<"w", n>> and <<"x", n>>.                          *)
(***************************************************************************)
EXTENDS Naturals, Sequences

SP      == <<"sp", 0>>
NoReg   == <<"", 0>>

Reg(r)  == [type |-> "reg", reg |-> r, imm |-> 0, indexed |-> FALSE]
Imm(i)  == [type |-> "imm", reg |-> NoReg, imm |-> i, indexed |-> FALSE]
(* [base, #disp], or [base, index] *)
Mem(base, disp, indexed) ==
  [type |-> "mem", reg |-> base, imm |-> disp, indexed |-> indexed]

Inst(op, ops) == [op |-> op, ops |-> ops]

-----------------------------------------------------------------------------
IsConditionalBranch(inst) == inst.op \in {"cbz", "cbnz", "tbz", "tbnz", "b.cond"}

(* Calls come back to the next instruction: "bl" and "blr" end no block. *)
IsAnyBranch(inst) == inst.op \in {"b", "br"} \/ IsConditionalBranch(inst)

LastOperand(inst) == inst.ops[Len(inst.ops)]

(* The target is the last operand; that of "br" is a register. *)
HasTarget(inst) ==
  /\ IsAnyBranch(inst)
  /\ inst.ops # <<>>
  /\ LastOperand(inst).type = "imm"

BranchTarget(inst) == LastOperand(inst).imm

-----------------------------------------------------------------------------
(* A mutant of Leaders: a branch does not end its block. *)
TargetsOnly(prog) ==
  {i \in DOMAIN prog :
     i = 1 \/ \E j \in DOMAIN prog : HasTarget(prog[j]) /\ BranchTarget(prog[j]) = i}

Leaders(prog) ==
  {i \in DOMAIN prog :
     \/ i = 1
     \/ \E j \in DOMAIN prog : HasTarget(prog[j]) /\ BranchTarget(prog[j]) = i
     \/ i - 1 \in DOMAIN prog /\ IsAnyBranch(prog[i - 1])}

(* The addresses of the block that starts at s. *)
Members(prog, s) ==
  LET leaders == Leaders(prog)
  IN  {i \in DOMAIN prog : s <= i /\ \A j \in (s + 1) .. i : j \notin leaders}

LastOf(prog, s) ==
  LET members == Members(prog, s)
  IN  CHOOSE i \in members : i + 1 \notin members

Instructions(prog, s) == SubSeq(prog, s, LastOf(prog, s))

(* LastCond of the block: it ends in a conditional branch. *)
HasCond(prog, s) ==
  LET last == prog[LastOf(prog, s)] IN HasTarget(last) /\ IsConditionalBranch(last)

(* A mutant of Succs: the fallthrough first. *)
SuccsSwapped(prog, s) ==
  LET at   == LastOf(prog, s)
      last == prog[at]
  IN  IF HasCond(prog, s) THEN <<at + 1, BranchTarget(last)>>
      ELSE IF HasTarget(last) THEN <<BranchTarget(last)>>
      ELSE IF last.op \notin {"ret", "br"} /\ at + 1 \in Leaders(prog)
           THEN <<at + 1>>
           ELSE <<>>

(* Branch taken first, fallthrough second; "ret" and "br" have none.  The  *)
(* target of a branch may be outside the function, the fallthrough of a    *)
(* block without a branch may not.                                         *)
Succs(prog, s) ==
  LET at   == LastOf(prog, s)
      last == prog[at]
  IN  IF HasCond(prog, s) THEN <<BranchTarget(last), at + 1>>
      ELSE IF HasTarget(last) THEN <<BranchTarget(last)>>
      ELSE IF last.op \notin {"ret", "br"} /\ at + 1 \in Leaders(prog)
           THEN <<at + 1>>
           ELSE <<>>

-----------------------------------------------------------------------------
(* The instructions of the function that may run right after the i-th, as   *)
(* far as the code says: nothing says where "br" and "ret" lead.           *)
Follows(prog, i) ==
  DOMAIN prog \cap
    ((IF HasTarget(prog[i]) THEN {BranchTarget(prog[i])} ELSE {})
       \cup (IF prog[i].op \in {"b", "br", "ret"} THEN {} ELSE {i + 1}))

(* Every instruction is in one block.  Inside a block control goes to the   *)
(* next instruction or, behind a "ret", nowhere; from the last one it goes  *)
(* to the first of a block.  A block with "ret" before its end is against   *)
(* the comment of BasicBlock ("control ... leaves only at the last"): what  *)
(* stands behind it there never runs.                                       *)
Partitioned(prog) ==
  LET blocks == [s \in Leaders(prog) |-> Members(prog, s)]
  IN  \A i \in DOMAIN prog :
        \E s \in DOMAIN blocks :
          /\ \A t \in DOMAIN blocks : i \in blocks[t] <=> t = s
          /\ Follows(prog, i) \subseteq
               IF i + 1 \in blocks[s] THEN {i + 1} ELSE DOMAIN blocks
=============================================================================
