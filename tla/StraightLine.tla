---------------------------- MODULE StraightLine ----------------------------
(***************************************************************************)
(* Lifting one path through a function: run() of the ARM64 lifter takes    *)
(* the instructions one by one, and what is still pending is flushed where *)
(* the path ends.  Beside the lifter the model keeps what the processor    *)
(* does to the registers, as far as addresses go, and where every call has *)
(* been printed.                                                           *)
(*                                                                         *)
(* A register is sure while its value was computed by instructions the     *)
(* lifter lifts, from sure registers, and no call was free to overwrite    *)
(* it: compiled code reads no other after a call, and of an instruction    *)
(* run() has no case for the lifter knows nothing.                         *)
(***************************************************************************)
EXTENDS RegisterFile

CONSTANTS
  Scratch,    \* numbers a callee may overwrite (x0 .. x18)
  Immediates, \* immediates and addresses in instructions
  Slots,      \* displacements of stack slots
  MaxCalls,   \* bound on the calls of a path
  MaxSteps    \* bound on its instructions

ASSUME PathAssumption ==
  /\ Scratch \subseteq Numbers
  /\ 0 .. ArgCount - 1 \subseteq Scratch
  /\ Immediates \subseteq Addresses
  /\ Strings \subseteq Addresses /\ Symbols \subseteq Addresses

VARIABLES
  lifter,     \* the lifter; out holds the statements of the last step
  held,       \* the address each general register holds, if it is one
  sure,       \* the registers whose value is known to be what was lifted
  placed,     \* history: the calls that have been part of something printed
              \* or of a value kept in a register
  again,      \* history: the calls a register was moved onto itself with
  steps,      \* instructions lifted
  ended       \* the path has ended

straight == <<lifter, held, sure, placed, again, steps, ended>>

(* Held by a register without being an address. *)
NotAddr == AddrSpace

-----------------------------------------------------------------------------
(* What has become of the calls. *)

Inside(e) == IF IsCall(e) THEN e.calls \ {e.id} ELSE e.calls

InRegisters(l)  == UNION {Inside(l.regs[r]) : r \in Names}
InStatements(l) == UNION {l.out[k].target.calls \cup l.out[k].value.calls : k \in DOMAIN l.out}
InComparison(l) == l.lastCmp.lhs.calls \cup l.lastCmp.rhs.calls

Placed(l) == l.printed \cup InRegisters(l) \cup InStatements(l) \cup InComparison(l)

-----------------------------------------------------------------------------
(* The processor: d is written with an address or something else, from the *)
(* registers in reads.                                                     *)

WriteTo(d, addr, reads) ==
  /\ held' = [held EXCEPT ![d[2]] = IF d[1] = "x" THEN addr ELSE NotAddr]
  /\ sure' = IF reads \subseteq sure THEN sure \cup {d[2]} ELSE sure \ {d[2]}

(* A callee may overwrite the scratch registers, and returns in x0. *)
Called ==
  /\ held' = [n \in Numbers |-> IF n \in Scratch THEN NotAddr ELSE held[n]]
  /\ sure' = (sure \ Scratch) \cup {0}

ReadBy(op) == IF op.type = "reg" /\ op.reg \in Names THEN {op.reg[2]} ELSE {}

-----------------------------------------------------------------------------
(* One action for each case of run().                                      *)

Cleared == [lifter EXCEPT !.out = <<>>]

(* After the instruction the lifter is l, and in the end m. *)
Take(l, m, over) ==
  /\ ~ended /\ steps < MaxSteps
  /\ lifter' = m
  /\ placed' = placed \cup Placed(l) \cup Placed(m)
  /\ again'  = again \cup over
  /\ steps'  = steps + 1

Lift(l, over) == Take(l, l, over) /\ ended' = FALSE

(* The path ends: what nothing will read any more is flushed, as           *)
(* LiftFunction and liftBlockGraph do after the last instruction.          *)
End(l) == Take(l, FlushRemaining(l), {}) /\ ended' = TRUE

(* The operands of one instruction have one width. *)
Like(dst)     == {r \in Names : r[1] = dst[1]}
Operands(dst) == {Reg(r) : r \in Like(dst)} \cup {Imm(i) : i \in Immediates}

Mov == \E dst \in Names : \E src \in Operands(dst) :
  LET own == src.type = "reg" /\ src.reg[2] = dst[2]
      e   == lifter.regs[dst]
  IN  /\ Lift(LiftMov(Cleared, dst, src), IF own /\ IsCall(e) THEN {e.id} ELSE {})
      /\ WriteTo(dst,
           IF src.type = "reg" /\ src.reg[1] = "x" THEN held[src.reg[2]] ELSE NotAddr,
           ReadBy(src))

Addr == \E n \in Numbers, a \in Immediates :
  /\ Lift(LiftAddr(Cleared, X(n), a), {})
  /\ WriteTo(X(n), a, {})

Add == \E dst \in Names : \E lhs \in Like(dst), rhs \in Operands(dst) :
  /\ Lift(LiftAdd(Cleared, dst, lhs, rhs), {})
  /\ WriteTo(dst,
       IF rhs.type = "imm" /\ lhs[1] = "x" /\ held[lhs[2]] # NotAddr
       THEN (held[lhs[2]] + rhs.imm) % AddrSpace ELSE NotAddr,
       {lhs[2]} \cup ReadBy(rhs))

ALU == \E dst \in Names : \E lhs \in Like(dst), rhs \in Operands(dst) :
  /\ Lift(LiftALU(Cleared, dst, lhs, rhs), {})
  /\ WriteTo(dst, NotAddr, {lhs[2]} \cup ReadBy(rhs))

Cmp == \E lhs \in Names : \E rhs \in Operands(lhs) :
  /\ Lift(LiftCmp(Cleared, lhs, rhs), {})
  /\ UNCHANGED <<held, sure>>

Cset == \E dst \in Names :
  /\ Lift(LiftCset(Cleared, dst), {})
  /\ WriteTo(dst, NotAddr, {})

Bases == {SP, NoReg} \cup {X(n) : n \in Numbers}
MemOperands == {Mem(b, d, ix) : b \in Bases, d \in Slots, ix \in BOOLEAN}

Str == \E src \in Names, mem \in MemOperands :
  /\ Lift(LiftStr(Cleared, src, mem), {})
  /\ UNCHANGED <<held, sure>>

(* What an indexed load brings the lifter does not know. *)
Ldr == \E dst \in Names, mem \in MemOperands :
  /\ Lift(LiftLdr(Cleared, dst, mem), {})
  /\ held' = [held EXCEPT ![dst[2]] = NotAddr]
  /\ sure' = IF mem.indexed THEN sure \ {dst[2]} ELSE sure \cup {dst[2]}

(* A mnemonic without a case: the processor writes a register all the same.*)
Other == \E n \in Numbers :
  /\ Lift(Cleared, {})
  /\ held' = [held EXCEPT ![n] = NotAddr]
  /\ sure' = sure \ {n}

Bl == \E target \in Immediates :
  /\ Len(lifter.calls) < MaxCalls
  /\ Lift(LiftCall(Cleared, target), {})
  /\ Called

Blr == \E r \in {X(n) : n \in Numbers} :
  /\ Len(lifter.calls) < MaxCalls
  /\ Lift(LiftBlr(Cleared, r), {})
  /\ Called

(* The ends of a path. *)
Ret ==
  /\ End(LiftRet(Cleared))
  /\ UNCHANGED <<held, sure>>

TailCall == \E target \in Immediates :
  /\ Len(lifter.calls) < MaxCalls
  /\ End(LiftTailCall(Cleared, target))
  /\ UNCHANGED <<held, sure>>

Br == \E r \in {X(n) : n \in Numbers} :
  /\ Len(lifter.calls) < MaxCalls
  /\ End(LiftBr(Cleared, r))
  /\ UNCHANGED <<held, sure>>

-----------------------------------------------------------------------------
StraightInit ==
  /\ lifter = NewLifter
  /\ held = [n \in Numbers |-> NotAddr]
  /\ sure = Numbers
  /\ placed = {} /\ again = {}
  /\ steps = 0
  /\ ended = FALSE

StraightNext ==
  \/ Mov \/ Addr \/ Add \/ ALU \/ Cmp \/ Cset \/ Str \/ Ldr \/ Other
  \/ Bl \/ Blr \/ Ret \/ TailCall \/ Br

StraightSpec == StraightInit /\ [][StraightNext]_straight

-----------------------------------------------------------------------------
Kinds == {"none", "int", "local", "binary", "field", "string", "call"}

IsExpr(e, n) ==
  /\ e.kind \in Kinds
  /\ e.id \in 0 .. n
  /\ e.calls \subseteq 1 .. n
  /\ e.loose \subseteq 1 .. n
  /\ IsCall(e) => e.id \in e.calls

(* What became a statement of its own in the last step. *)
Bare == {lifter.out[k].value.id : k \in {i \in DOMAIN lifter.out : lifter.out[i].kind = "expr"}}

StraightTypeOK ==
  LET n == Len(lifter.calls) IN
  /\ \A r \in Names : IsExpr(lifter.regs[r], n)
  /\ \A r \in Names : lifter.addrRegs[r] \in Addresses \cup {NoAddr}
  /\ IsExpr(lifter.lastCmp.lhs, n) /\ IsExpr(lifter.lastCmp.rhs, n)
  /\ \A i \in DOMAIN lifter.calls : lifter.calls[i].kind = "call" /\ lifter.calls[i].id = i
  /\ lifter.printed \subseteq lifter.consumed /\ lifter.consumed \subseteq 1 .. n
  /\ Bare \subseteq lifter.printed
  /\ held \in [Numbers -> Addresses \cup {NotAddr}]
  /\ sure \subseteq Numbers
  /\ placed \subseteq 1 .. n /\ again \subseteq 1 .. n
  /\ ended \in BOOLEAN

(* The address the lifter takes a register to hold is the one the          *)
(* processor computed into it, whatever ran in between: calls, writes      *)
(* through the 32-bit name, loads, arithmetic.  A string literal printed   *)
(* as an argument is the string the program passes.                        *)
AddressesCurrent ==
  \A n \in sure : lifter.addrRegs[X(n)] # NoAddr => lifter.addrRegs[X(n)] = held[n]

(* A call printed as a statement of its own, because the last register     *)
(* with its result went, is in no register and no comparison any more: no  *)
(* later statement prints, and so repeats, it.  (Only moving a register    *)
(* onto itself, as zero extension does, prints a call and keeps it; what   *)
(* is read through the result as a pointer is accounted for separately.)   *)
PrintedOnce ==
  ~ended =>
    \A c \in lifter.printed \ again :
      /\ \A r \in Names : c \notin lifter.regs[r].calls
      /\ c \notin InComparison(lifter)

(* A call is never marked as consumed unless it has been part of a         *)
(* statement or of a value, and when the path has ended every call it made *)
(* has been: none disappears.                                              *)
NothingVanishes ==
  /\ lifter.consumed \subseteq placed
  /\ ended => \A i \in DOMAIN lifter.calls : lifter.calls[i].id \in placed
=============================================================================
