------------------------ MODULE StraightLine_proofs ------------------------
(***************************************************************************)
(* The proofs about StraightLine: the invariants of lifting one path, and  *)
(* what BasicBlocks cuts the code into before that.                        *)
(*                                                                         *)
(* PrintedOnce and NothingVanishes rest on one invariant, CallsInv: the    *)
(* lifter is Sound.  Of every value in a register, each call embedded in   *)
(* it has been consumed, so only a call held as it is can still be printed *)
(* as a statement, and that happens when no other register holds it.  Each *)
(* operator of RegisterFile has a lemma saying that it leaves the lifter   *)
(* Right.  AddressesCurrent rests on AddressInv: an instruction forgets    *)
(* addresses, and learns one only for the register it writes.  The types   *)
(* rest on TypedInv alone, which holds after the end of a path as well.    *)
(***************************************************************************)
EXTENDS StraightLine, TLAPS, SequenceTheorems, WellFoundedInduction

-----------------------------------------------------------------------------
(* Numbers. *)

(* A non-empty set of naturals has a least element. *)
LEMMA LeastElement ==
  ASSUME NEW S, S \subseteq Nat, S # {}
  PROVE  \E e \in S : \A x \in S : e <= x
<1>1. \E e \in S : \A x \in S : ~ (<<x, e>> \in OpToRel(<, Nat))
  BY NatLessThanWellFounded, WFMin
<1>2. PICK e \in S : \A x \in S : ~ (<<x, e>> \in OpToRel(<, Nat))
  BY <1>1
<1>3. ASSUME NEW x \in S, x < e
      PROVE  <<x, e>> \in OpToRel(<, Nat)
  <2>1. <<x, e>> \in Nat \X Nat /\ <<x, e>>[1] = x /\ <<x, e>>[2] = e
    OBVIOUS
  <2> QED
    BY <1>3, <2>1, Zenon DEF OpToRel
<1>4. \A x \in S : ~ (x < e)
  BY <1>2, <1>3, Zenon
<1> QED
  BY <1>4

(* A set with 0 and with each number the next one has them all. *)
LEMMA EveryNumber ==
  ASSUME NEW T, 0 \in T, \A n \in Nat : n \in T => n + 1 \in T
  PROVE  Nat \subseteq T
<1> DEFINE Out == Nat \ T
<1>1. SUFFICES ASSUME Out # {} PROVE FALSE
  OBVIOUS
<1>2. PICK n \in Out : \A m \in Out : n <= m
  <2>1. Out \subseteq Nat
    OBVIOUS
  <2> HIDE DEF Out
  <2> QED
    BY <1>1, <2>1, LeastElement
<1>3. n \in Nat /\ n # 0 /\ n - 1 \in Nat /\ n - 1 \notin Out
  BY <1>2
<1>4. n - 1 \in T
  BY <1>3
<1>5. (n - 1) + 1 \in T
  BY <1>3, <1>4
<1> QED
  BY <1>2, <1>3, <1>5

-----------------------------------------------------------------------------
(* Expressions. *)

CallExprs == [kind : {"call"}, name : {<<>>}, id : Nat, calls : SUBSET Nat, loose : SUBSET Nat]

(* Of the shape the lifter has. *)
Fields == {"regs", "addrRegs", "stack", "lastCmp", "calls", "consumed", "printed", "out"}
Shaped(l) ==
  /\ l = [f \in Fields |-> l[f]]
  /\ l.regs = [r \in Names |-> l.regs[r]]
  /\ l.addrRegs = [r \in Names |-> l.addrRegs[r]]

(* What is embedded in the value has been consumed, and a call held as it  *)
(* is, is one of those made.                                               *)
Known(l, e) ==
  /\ IsCall(e) => e.id \in DOMAIN l.calls /\ e = l.calls[e.id]
  /\ Inside(e) \subseteq l.consumed
  /\ e.loose \subseteq Nat

Sound(l) ==
  /\ Shaped(l)
  /\ l.calls \in Seq(CallExprs)
  /\ \A i \in DOMAIN l.calls : l.calls[i].id = i /\ i \in l.calls[i].calls
  /\ l.printed \subseteq l.consumed /\ l.consumed \subseteq DOMAIN l.calls
  /\ \A r \in Names : Known(l, l.regs[r])
  /\ InComparison(l) \subseteq l.consumed
  /\ l.lastCmp.lhs.loose \cup l.lastCmp.rhs.loose \subseteq Nat

Held(l, c) ==
  \/ \E r \in Names : c \in l.regs[r].calls
  \/ c \in InComparison(l)

(* No call printed is held, but those in over. *)
Once(l, over) == \A c \in l.printed \ over : ~Held(l, c)

-----------------------------------------------------------------------------
Lost(l, gone) == {l.regs[r].id : r \in {q \in gone : Orphan(l, q, gone)}}

(* What Forget does to each field. *)
LEMMA ForgetFields ==
  ASSUME NEW l, NEW names, Shaped(l)
  PROVE  LET f    == Forget(l, names)
             gone == {names[i] : i \in DOMAIN names}
         IN  /\ Shaped(f)
             /\ \A r \in Names : f.regs[r] = IF r \in gone THEN Nothing ELSE l.regs[r]
             /\ \A r \in Names : f.addrRegs[r] = IF r \in gone THEN NoAddr ELSE l.addrRegs[r]
             /\ f.consumed = l.consumed \cup Lost(l, gone)
             /\ f.printed = l.printed \cup Lost(l, gone)
             /\ f.calls = l.calls /\ f.lastCmp = l.lastCmp
<1> DEFINE gone == {names[i] : i \in DOMAIN names}
           last == InOrder(Len(names),
                {i \in DOMAIN names :
                   /\ Orphan(l, names[i], gone)
                   /\ \A j \in DOMAIN names : j > i => l.regs[names[j]] # l.regs[names[i]]})
           more == [k \in DOMAIN last |-> ExprStmt(l.regs[names[last[k]]])]
           regs == [r \in Names |-> IF r \in gone THEN Nothing ELSE l.regs[r]]
           addr == [r \in Names |-> IF r \in gone THEN NoAddr ELSE l.addrRegs[r]]
           cons == l.consumed \cup Lost(l, gone)
           prin == l.printed \cup Lost(l, gone)
           outs == l.out \o more
           f    == [l EXCEPT !.regs = regs, !.addrRegs = addr, !.consumed = cons,
                             !.printed = prin, !.out = outs]
<1>1. Forget(l, names) = f
  BY DEF Forget, Lost
<1>2. regs = [r \in Names |-> regs[r]] /\ addr = [r \in Names |-> addr[r]]
  OBVIOUS
<1> HIDE DEF regs, addr, more, last, gone, cons, prin, outs
<1>4. f = [l EXCEPT !.regs = regs, !.addrRegs = addr, !.consumed = cons, !.printed = prin, !.out = outs]
  OBVIOUS
<1> HIDE DEF f
<1>3. /\ Shaped(f)
      /\ f.regs = regs /\ f.addrRegs = addr
      /\ f.consumed = cons /\ f.printed = prin
      /\ f.calls = l.calls /\ f.lastCmp = l.lastCmp
  BY <1>2, <1>4 DEF Shaped, Fields
<1> QED BY <1>1, <1>3 DEF gone, regs, addr, cons, prin

(* A call that is lost was held by no other register, alone or embedded:   *)
(* printing it repeats nothing.                                            *)
LEMMA LostIsGone ==
  ASSUME NEW l, NEW gone \in SUBSET Names, Sound(l), NEW c \in Lost(l, gone)
  PROVE  /\ c \in DOMAIN l.calls /\ c \notin l.consumed
         /\ \A q \in Names \ gone : c \notin l.regs[q].calls
         /\ c \notin InComparison(l)
<1>1. PICK r \in gone : Orphan(l, r, gone) /\ c = l.regs[r].id
  BY DEF Lost
<1>2. IsCall(l.regs[r]) /\ c \notin l.consumed /\ \A q \in Names \ gone : l.regs[q] # l.regs[r]
  BY <1>1 DEF Orphan
<1>3. c \in DOMAIN l.calls /\ l.regs[r] = l.calls[c]
  BY <1>1, <1>2 DEF Sound, Known
<1>4. ASSUME NEW q \in Names \ gone, c \in l.regs[q].calls PROVE FALSE
  <2>1. Known(l, l.regs[q])
    BY DEF Sound
  <2>2. c \notin Inside(l.regs[q])
    BY <1>2, <2>1 DEF Known
  <2>3. IsCall(l.regs[q]) /\ l.regs[q].id = c
    BY <2>2, <1>4 DEF Inside
  <2>4. l.regs[q] = l.regs[r]
    BY <1>3, <2>1, <2>3 DEF Known
  <2> QED BY <1>2, <2>4
<1> QED BY <1>2, <1>3, <1>4 DEF Sound

-----------------------------------------------------------------------------
(* Consuming registers. *)

(* What can be read without embedding anything: a register, or no call.    *)
Readable(l, e) ==
  \/ ~IsCall(e) /\ e.calls = {} /\ e.loose = {}
  \/ \E r \in Names : e = l.regs[r]

(* What is readable is accounted for, and no printed call is in it. *)
LEMMA ReadableKnown ==
  ASSUME NEW l, NEW e, Sound(l), Readable(l, e)
  PROVE  /\ Known(l, e)
         /\ \A over : Once(l, over) => e.calls \cap (l.printed \ over) = {}
         /\ IsCall(e) => e.id \in e.calls
BY DEF Readable, Sound, Known, Inside, Once, Held

Ids(es) == {e.id : e \in {x \in es : IsCall(x)}}

(* Consuming what is readable marks the calls embedded in it and nothing   *)
(* else.                                                                   *)
LEMMA ConsumeSound ==
  ASSUME NEW l, NEW es, Sound(l), \A e \in es : Readable(l, e)
  PROVE  LET m == Consume(l, es)
         IN  /\ Sound(m)
             /\ m.regs = l.regs /\ m.addrRegs = l.addrRegs /\ m.calls = l.calls
             /\ m.printed = l.printed /\ m.lastCmp = l.lastCmp
             /\ m.consumed = l.consumed \cup Ids(es)
             /\ \A e \in es : e.calls \subseteq m.consumed
<1> DEFINE m == Consume(l, es)
<1>1. /\ Shaped(m)
      /\ m.regs = l.regs /\ m.addrRegs = l.addrRegs /\ m.calls = l.calls
      /\ m.printed = l.printed /\ m.lastCmp = l.lastCmp
      /\ m.consumed = l.consumed \cup Ids(es)
  <2> DEFINE c == l.consumed \cup Ids(es)
  <2>1. m = [l EXCEPT !.consumed = c]
    BY DEF Consume, Ids
  <2> HIDE DEF c, m
  <2>2. Shaped(l)
    BY DEF Sound
  <2> QED BY <2>1, <2>2 DEF Shaped, Fields, c
<1> HIDE DEF m
<1>2. \A e \in es : Known(l, e)
  BY ReadableKnown
<1>3. Ids(es) \subseteq DOMAIN l.calls
  BY <1>2 DEF Ids, Known
<1>4. \A r \in Names : Known(m, m.regs[r])
  BY <1>1 DEF Sound, Known
<1>5. Sound(m)
  BY <1>1, <1>3, <1>4 DEF Sound, InComparison
<1>6. \A e \in es : e.calls \subseteq m.consumed
  BY <1>1, <1>2 DEF Known, Inside, Ids
<1> QED BY <1>1, <1>5, <1>6 DEF m

-----------------------------------------------------------------------------
(* Writing registers. *)

Set(r) == {Written(r)[i] : i \in DOMAIN Written(r)}

(* A write goes to the register named and, of a 32-bit one, to the 64-bit  *)
(* name.                                                                   *)
LEMMA SetNames ==
  ASSUME NEW r \in Names
  PROVE  Set(r) \subseteq Names /\ r \in Set(r) /\ (r[1] = "x" => Set(r) = {r})
<1>1. PICK n \in Numbers : r = X(n) \/ r = W(n)
  BY DEF Names
<1>2. CASE r = X(n)
  <2>1. r[1] = "x"
    BY <1>2 DEF X
  <2>2. Written(r) = <<r>>
    BY <2>1 DEF Written
  <2> QED BY <2>2 DEF Set
<1>3. CASE r = W(n)
  <2>1. r[1] = "w" /\ r[2] = n
    BY <1>3 DEF W
  <2>2. Written(r) = <<r, X(n)>>
    BY <2>1 DEF Written
  <2>3. X(n) \in Names
    BY DEF Names
  <2> QED BY <2>1, <2>2, <2>3 DEF Set
<1> QED BY <1>1, <1>2, <1>3

(* Some of the registers hold nothing any more. *)
LEMMA ForgetSound ==
  ASSUME NEW l, NEW names, Sound(l), {names[i] : i \in DOMAIN names} \subseteq Names
  PROVE  Sound(Forget(l, names))
<1> DEFINE gone == {names[i] : i \in DOMAIN names}
           f == Forget(l, names)
<1>1. Shaped(l)
  BY DEF Sound
<1>2. /\ Shaped(f)
      /\ \A r \in Names : f.regs[r] = IF r \in gone THEN Nothing ELSE l.regs[r]
      /\ \A r \in Names : f.addrRegs[r] = IF r \in gone THEN NoAddr ELSE l.addrRegs[r]
      /\ f.consumed = l.consumed \cup Lost(l, gone)
      /\ f.printed = l.printed \cup Lost(l, gone)
      /\ f.calls = l.calls /\ f.lastCmp = l.lastCmp
  BY <1>1, ForgetFields
<1> HIDE DEF f, gone
<1>3. Lost(l, gone) \subseteq DOMAIN l.calls
  BY LostIsGone DEF gone
<1>4. ASSUME NEW r \in Names PROVE Known(f, f.regs[r])
  <2>1. CASE r \in gone
    BY <2>1, <1>2 DEF Known, Nothing, Expr, IsCall, Inside
  <2>2. CASE r \notin gone
    BY <2>2, <1>2 DEF Known, Sound
  <2> QED BY <2>1, <2>2
<1>5. Sound(f)
  BY <1>2, <1>3, <1>4 DEF Sound, InComparison
<1> QED BY <1>5 DEF f

(* What SetReg does to each field. *)
LEMMA SetRegFields ==
  ASSUME NEW l, NEW r, NEW e, Shaped(l)
  PROVE  LET m == SetReg(l, r, e)
         IN  /\ Shaped(m)
             /\ \A q \in Names : m.regs[q] = IF q \in Set(r) THEN e ELSE l.regs[q]
             /\ \A q \in Names : m.addrRegs[q] = IF q \in Set(r) THEN NoAddr ELSE l.addrRegs[q]
             /\ m.consumed = l.consumed \cup Lost(l, Set(r))
             /\ m.printed = l.printed \cup Lost(l, Set(r))
             /\ m.calls = l.calls /\ m.lastCmp = l.lastCmp
<1> DEFINE m == SetReg(l, r, e)
           f == Forget(l, Written(r))
           regs == [q \in Names |-> IF q \in Set(r) THEN e ELSE f.regs[q]]
<1>1. m = [f EXCEPT !.regs = regs]
  BY DEF SetReg, ClobberReg, Set
<1>2. /\ Shaped(f)
      /\ \A q \in Names : f.regs[q] = IF q \in Set(r) THEN Nothing ELSE l.regs[q]
      /\ \A q \in Names : f.addrRegs[q] = IF q \in Set(r) THEN NoAddr ELSE l.addrRegs[q]
      /\ f.consumed = l.consumed \cup Lost(l, Set(r))
      /\ f.printed = l.printed \cup Lost(l, Set(r))
      /\ f.calls = l.calls /\ f.lastCmp = l.lastCmp
  BY ForgetFields DEF Set
<1>3. regs = [q \in Names |-> regs[q]]
  OBVIOUS
<1>4. \A q \in Names : regs[q] = IF q \in Set(r) THEN e ELSE l.regs[q]
  BY <1>2
<1> HIDE DEF f, regs, m
<1>5. /\ Shaped(m) /\ m.regs = regs /\ m.addrRegs = f.addrRegs
      /\ m.consumed = f.consumed /\ m.printed = f.printed
      /\ m.calls = f.calls /\ m.lastCmp = f.lastCmp
  <2>1. Shaped(f)
    BY <1>2
  <2> QED BY <1>1, <1>3, <2>1 DEF Shaped, Fields
<1> QED BY <1>2, <1>4, <1>5 DEF m

(* A register takes a value already accounted for. *)
LEMMA SetRegSound ==
  ASSUME NEW l, NEW r \in Names, NEW e, Sound(l), Known(l, e)
  PROVE  Sound(SetReg(l, r, e))
<1> DEFINE m == SetReg(l, r, e)
<1>1. /\ Shaped(m)
      /\ \A q \in Names : m.regs[q] = IF q \in Set(r) THEN e ELSE l.regs[q]
      /\ m.consumed = l.consumed \cup Lost(l, Set(r))
      /\ m.printed = l.printed \cup Lost(l, Set(r))
      /\ m.calls = l.calls /\ m.lastCmp = l.lastCmp
  BY SetRegFields DEF Sound
<1> HIDE DEF m
<1>2. Lost(l, Set(r)) \subseteq DOMAIN l.calls
  BY SetNames, LostIsGone
<1>3. ASSUME NEW q \in Names PROVE Known(m, m.regs[q])
  <2>1. Known(l, l.regs[q])
    BY DEF Sound
  <2>2. m.regs[q] = e \/ m.regs[q] = l.regs[q]
    BY <1>1
  <2> QED BY <2>1, <2>2, <1>1 DEF Known
<1>4. Sound(m)
  BY <1>1, <1>2, <1>3 DEF Sound, InComparison
<1> QED BY <1>4 DEF m

(* And unless it is put back into the register it was in, no call printed  *)
(* is held.                                                                *)
LEMMA SetRegOnce ==
  ASSUME NEW l, NEW r \in Names, NEW e, Sound(l), Known(l, e), NEW over, NEW more, Once(l, over),
         e.calls \cap (l.printed \ over) = {},
         e.calls \cap Lost(l, Set(r)) \subseteq over \cup more
  PROVE  Once(SetReg(l, r, e), over \cup more)
<1> DEFINE m == SetReg(l, r, e)
           gone == Set(r)
<1>0. Shaped(l)
  BY DEF Sound
<1>1. /\ \A q \in Names : m.regs[q] = IF q \in gone THEN e ELSE l.regs[q]
      /\ m.printed = l.printed \cup Lost(l, gone)
      /\ m.lastCmp = l.lastCmp
  BY <1>0, SetRegFields
<1>2. gone \subseteq Names
  BY SetNames
<1> HIDE DEF m, gone
<1>3. ASSUME NEW c \in m.printed \ (over \cup more) PROVE ~Held(m, c)
  <2>1. CASE c \in Lost(l, gone)
    <3>1. /\ \A q \in Names \ gone : c \notin l.regs[q].calls
          /\ c \notin InComparison(l)
      BY <2>1, <1>2, LostIsGone
    <3>2. c \notin e.calls
      BY <2>1, <1>3 DEF gone
    <3> QED BY <3>1, <3>2, <1>1 DEF Held, InComparison
  <2>2. CASE c \notin Lost(l, gone)
    <3>1. c \in l.printed \ over
      BY <2>2, <1>1, <1>3
    <3>2. ~Held(l, c) /\ c \notin e.calls
      BY <3>1 DEF Once
    <3> QED BY <3>2, <1>1 DEF Held, InComparison
  <2> QED BY <2>1, <2>2
<1> QED BY <1>3 DEF Once, m

(* A register overwritten takes nothing with it. *)
LEMMA ForgetOnce ==
  ASSUME NEW l, NEW names, Sound(l), NEW over, Once(l, over),
         {names[i] : i \in DOMAIN names} \subseteq Names
  PROVE  Once(Forget(l, names), over)
<1> DEFINE gone == {names[i] : i \in DOMAIN names}
           f == Forget(l, names)
<1>1. Shaped(l)
  BY DEF Sound
<1>2. /\ \A r \in Names : f.regs[r] = IF r \in gone THEN Nothing ELSE l.regs[r]
      /\ f.printed = l.printed \cup Lost(l, gone)
      /\ f.lastCmp = l.lastCmp
  BY <1>1, ForgetFields
<1>3. gone \subseteq Names
  OBVIOUS
<1> HIDE DEF f, gone
<1>4. ASSUME NEW c \in f.printed \ over PROVE ~Held(f, c)
  <2>1. /\ \A q \in Names \ gone : c \notin l.regs[q].calls
        /\ c \notin InComparison(l)
    <3>1. CASE c \in Lost(l, gone)
      BY <3>1, <1>3, LostIsGone
    <3>2. CASE c \notin Lost(l, gone)
      BY <3>2, <1>2, <1>4 DEF Once, Held
    <3> QED BY <3>1, <3>2
  <2>2. ASSUME NEW q \in Names PROVE c \notin f.regs[q].calls
    <3>1. CASE q \in gone
      BY <3>1, <1>2 DEF Nothing, Expr
    <3>2. CASE q \notin gone
      BY <3>2, <1>2, <2>1
    <3> QED BY <3>1, <3>2
  <2> QED BY <2>1, <2>2, <1>2 DEF Held, InComparison
<1> QED BY <1>4 DEF Once, f

-----------------------------------------------------------------------------
(* What one instruction does to the lifter: it stays sound, prints nothing *)
(* it holds but the calls in over, and has placed what it consumed.        *)
Right(l, m, over) ==
  /\ Sound(m)
  /\ \A o : Once(l, o) => Once(m, o \cup over)
  /\ m.consumed \subseteq l.consumed \cup Placed(m)

(* Nothing is placed by less than this. *)
LEMMA PlacedParts ==
  ASSUME NEW l
  PROVE  /\ l.printed \subseteq Placed(l)
         /\ \A r \in Names : Inside(l.regs[r]) \subseteq Placed(l)
         /\ InComparison(l) \subseteq Placed(l)
         /\ \A k \in DOMAIN l.out :
              l.out[k].target.calls \cup l.out[k].value.calls \subseteq Placed(l)
<1>1. /\ l.printed \subseteq Placed(l)
      /\ InComparison(l) \subseteq Placed(l)
  BY DEF Placed
<1>2. ASSUME NEW r \in Names PROVE Inside(l.regs[r]) \subseteq Placed(l)
  <2>1. Inside(l.regs[r]) \subseteq InRegisters(l)
    BY DEF InRegisters
  <2> QED BY <2>1 DEF Placed
<1>3. ASSUME NEW k \in DOMAIN l.out
      PROVE  l.out[k].target.calls \cup l.out[k].value.calls \subseteq Placed(l)
  <2>1. l.out[k].target.calls \cup l.out[k].value.calls \subseteq InStatements(l)
    BY DEF InStatements
  <2> QED BY <2>1 DEF Placed
<1> QED BY <1>1, <1>2, <1>3

(* A value without a call of its own, of calls consumed, goes to a         *)
(* register.                                                               *)
Settled(l, v) ==
  /\ ~IsCall(v)
  /\ v.calls \subseteq l.consumed
  /\ v.loose \subseteq Nat
  /\ \A o : Once(l, o) => v.calls \cap (l.printed \ o) = {}

(* Such a value in a register keeps all in order, and places its calls. *)
LEMMA SetRegSettled ==
  ASSUME NEW l, NEW r \in Names, NEW v, Sound(l), Settled(l, v)
  PROVE  /\ Right(l, SetReg(l, r, v), {})
         /\ v.calls \subseteq Placed(SetReg(l, r, v))
<1> DEFINE m == SetReg(l, r, v)
<1>1. Known(l, v)
  BY DEF Known, Settled, Inside
<1>2. Sound(m)
  BY <1>1, SetRegSound
<1>3. v.calls \cap Lost(l, Set(r)) = {}
  BY SetNames, LostIsGone DEF Settled
<1>4. ASSUME NEW o, Once(l, o) PROVE Once(m, o \cup {})
  <2>1. v.calls \cap (l.printed \ o) = {}
    BY <1>4 DEF Settled
  <2> QED BY <1>1, <1>3, <1>4, <2>1, SetRegOnce
<1>5. Shaped(l)
  BY DEF Sound
<1>6. /\ \A q \in Names : m.regs[q] = IF q \in Set(r) THEN v ELSE l.regs[q]
      /\ m.consumed = l.consumed \cup Lost(l, Set(r))
      /\ m.printed = l.printed \cup Lost(l, Set(r))
      /\ m.calls = l.calls
  BY <1>5, SetRegFields
<1> HIDE DEF m
<1>7. m.regs[r] = v
  BY <1>6, SetNames
<1>8. Inside(m.regs[r]) = v.calls
  BY <1>7 DEF Settled, Inside
<1>9. v.calls \subseteq Placed(m) /\ m.consumed \subseteq l.consumed \cup Placed(m)
  BY <1>6, <1>8, PlacedParts
<1> QED BY <1>2, <1>4, <1>6, <1>9 DEF Right, m

-----------------------------------------------------------------------------
(* The instructions. *)

(* A register read gives what it holds, or its name. *)
LEMMA ReadRegister ==
  ASSUME NEW l, NEW r
  PROVE  Readable(l, RegValue(l, r)) /\ (RegValue(l, r) # Local(r) => r \in Names /\ RegValue(l, r) = l.regs[r])
BY DEF Readable, RegValue, Local, Expr, IsCall

(* So does an operand, or it is a literal. *)
LEMMA ReadOperand ==
  ASSUME NEW l, NEW op
  PROVE  Readable(l, OperandValue(l, op))
BY ReadRegister DEF OperandValue, Readable, IntLit, Expr, IsCall

(* Once l has consumed the operands of v, it is m. *)
Ready(l, m, v) ==
  /\ Settled(m, v)
  /\ Sound(m)
  /\ \A o : Once(l, o) => Once(m, o)
  /\ m.consumed \subseteq l.consumed \cup v.calls
  /\ m.regs = l.regs /\ m.addrRegs = l.addrRegs /\ m.calls = l.calls
  /\ m.printed = l.printed /\ m.lastCmp = l.lastCmp

(* Two operands consumed and their value kept. *)
LEMMA ComputedSettled ==
  ASSUME NEW l, NEW a, NEW b, Sound(l), Readable(l, a), Readable(l, b)
  PROVE  Ready(l, Consume(l, {a, b}), Binary(a, b))
<1> DEFINE m == Consume(l, {a, b})
<1>1. /\ Sound(m)
      /\ m.regs = l.regs /\ m.addrRegs = l.addrRegs /\ m.calls = l.calls
      /\ m.printed = l.printed /\ m.lastCmp = l.lastCmp
      /\ m.consumed = l.consumed \cup Ids({a, b})
      /\ a.calls \subseteq m.consumed /\ b.calls \subseteq m.consumed
  BY ConsumeSound
<1>2. /\ Known(l, a) /\ \A o : Once(l, o) => a.calls \cap (l.printed \ o) = {}
      /\ IsCall(a) => a.id \in a.calls
  BY ReadableKnown
<1>3. /\ Known(l, b) /\ \A o : Once(l, o) => b.calls \cap (l.printed \ o) = {}
      /\ IsCall(b) => b.id \in b.calls
  BY ReadableKnown
<1> HIDE DEF m
<1>4. /\ Binary(a, b).calls = a.calls \cup b.calls
      /\ Binary(a, b).loose = a.loose \cup b.loose
      /\ ~IsCall(Binary(a, b))
  BY DEF Binary, Expr, IsCall
<1>5. \A o : Once(l, o) <=> Once(m, o)
  BY <1>1 DEF Once, Held, InComparison
<1>6. Settled(m, Binary(a, b))
  BY <1>1, <1>2, <1>3, <1>4, <1>5 DEF Settled, Known
<1>7. Ids({a, b}) \subseteq a.calls \cup b.calls
  BY <1>2, <1>3 DEF Ids
<1>8. Ready(l, m, Binary(a, b))
  BY <1>1, <1>4, <1>5, <1>6, <1>7 DEF Ready
<1> QED BY <1>8 DEF m

(* Arithmetic: the calls of both operands go into the value. *)
LEMMA ALURight ==
  ASSUME NEW l, NEW dst \in Names, NEW lhs, NEW rhs, Sound(l)
  PROVE  Right(l, LiftALU(l, dst, lhs, rhs), {})
<1> DEFINE a == RegValue(l, lhs)
           b == OperandValue(l, rhs)
           c == Consume(l, {a, b})
           v == Binary(a, b)
           m == SetReg(c, dst, v)
<1>1. Readable(l, a) /\ Readable(l, b)
  BY ReadRegister, ReadOperand
<1> HIDE DEF a, b
<1>2. Ready(l, c, v)
  BY <1>1, ComputedSettled
<1> HIDE DEF c, v
<1>3. Right(c, m, {}) /\ v.calls \subseteq Placed(m)
  BY <1>2, SetRegSettled DEF Ready
<1> HIDE DEF m
<1>4. Right(l, m, {})
  BY <1>2, <1>3 DEF Right, Ready
<1> QED BY <1>4 DEF LiftALU, a, b, c, v, m

(* The known addresses matter to none of this. *)
LEMMA AddressRight ==
  ASSUME NEW l, NEW k, NEW over, Right(l, k, over), NEW r \in Names, NEW a
  PROVE  Right(l, [k EXCEPT !.addrRegs[r] = a], over)
<1> DEFINE m == [k EXCEPT !.addrRegs[r] = a]
           addr == [k.addrRegs EXCEPT ![r] = a]
<1>1. m = [k EXCEPT !.addrRegs = addr]
  OBVIOUS
<1>2. Sound(k) /\ Shaped(k)
  BY DEF Right, Sound
<1>3. addr = [q \in Names |-> addr[q]]
  BY <1>2 DEF Shaped
<1> HIDE DEF addr, m
<1>4. /\ Shaped(m)
      /\ m.regs = k.regs /\ m.calls = k.calls /\ m.lastCmp = k.lastCmp /\ m.out = k.out
      /\ m.consumed = k.consumed /\ m.printed = k.printed
  BY <1>1, <1>2, <1>3 DEF Shaped, Fields
<1>5. Sound(m)
  BY <1>2, <1>4 DEF Sound, Known, InComparison
<1>6. \A o : Once(k, o) <=> Once(m, o)
  BY <1>4 DEF Once, Held, InComparison
<1>7. Placed(m) = Placed(k)
  BY <1>4 DEF Placed, InRegisters, InStatements, InComparison
<1>8. Right(l, m, over)
  BY <1>4, <1>5, <1>6, <1>7 DEF Right
<1> QED BY <1>8 DEF m

(* The same for add, which may also know the address of the sum. *)
LEMMA AddRight ==
  ASSUME NEW l, NEW dst \in Names, NEW lhs, NEW rhs, Sound(l)
  PROVE  Right(l, LiftAdd(l, dst, lhs, rhs), {})
<1> DEFINE m == LiftALU(l, dst, lhs, rhs)
           a == (l.addrRegs[lhs] + rhs.imm) % AddrSpace
<1>1. Right(l, m, {})
  BY ALURight
<1>2. LiftAdd(l, dst, lhs, rhs) \in {m, [m EXCEPT !.addrRegs[dst] = a]}
  BY DEF LiftAdd
<1> HIDE DEF m, a
<1>3. Right(l, [m EXCEPT !.addrRegs[dst] = a], {})
  BY <1>1, AddressRight
<1> QED BY <1>1, <1>2, <1>3

(* A value without calls needs nothing consumed. *)
LEMMA NoCallSettled ==
  ASSUME NEW l, NEW e, ~IsCall(e), e.calls = {}, e.loose = {}
  PROVE  Settled(l, e)
BY DEF Settled

(* An immediate is one. *)
LEMMA IntSettled ==
  ASSUME NEW l
  PROVE  Settled(l, IntLit)
BY NoCallSettled DEF IntLit, Expr, IsCall

(* The name of a variable is one. *)
LEMMA LocalSettled ==
  ASSUME NEW l, NEW name
  PROVE  Settled(l, Local(name))
BY NoCallSettled DEF Local, Expr, IsCall

(* adrp and adr put an address into a register. *)
LEMMA AddrRight ==
  ASSUME NEW l, NEW dst \in Names, NEW a, Sound(l)
  PROVE  Right(l, LiftAddr(l, dst, a), {})
<1>1. Right(l, SetReg(l, dst, IntLit), {})
  BY IntSettled, SetRegSettled
<1> QED BY <1>1, AddressRight DEF LiftAddr

(* Moving a register onto the one it shares its number with prints the     *)
(* call it holds and keeps it.                                             *)
LEMMA MovRight ==
  ASSUME NEW l, Sound(l), NEW dst \in Names, NEW src \in Operands(dst)
  PROVE  LET own == src.type = "reg" /\ src.reg[2] = dst[2]
         IN  Right(l, LiftMov(l, dst, src),
                   IF own /\ IsCall(l.regs[dst]) THEN {l.regs[dst].id} ELSE {})
<1> DEFINE own == src.type = "reg" /\ src.reg[2] = dst[2]
           over == IF own /\ IsCall(l.regs[dst]) THEN {l.regs[dst].id} ELSE {}
           e == RegValue(l, src.reg)
           m == SetReg(l, dst, e)
<1>1. CASE src.type = "imm"
  <2>1. LiftMov(l, dst, src) = SetReg(l, dst, IntLit) /\ ~own
    BY <1>1 DEF LiftMov
  <2> QED BY <2>1, IntSettled, SetRegSettled
<1>2. CASE src.type # "imm"
  <2>1. PICK r \in Names : src = Reg(r) /\ r[1] = dst[1]
    BY <1>2 DEF Operands, Imm, Like
  <2>2. src.type = "reg" /\ src.reg = r
    BY <2>1 DEF Reg
  <2>3. LiftMov(l, dst, src) = m
    BY <1>2 DEF LiftMov
  <2>4. r[2] = dst[2] => r = dst
    BY <2>1 DEF Names, X, W
  <2>5. Readable(l, e) /\ (e = Local(r) \/ e = l.regs[r])
    BY <2>2, ReadRegister
  <2> HIDE DEF e
  <2>6. Known(l, e) /\ \A o : Once(l, o) => e.calls \cap (l.printed \ o) = {}
    BY <2>5, ReadableKnown
  <2>7. ASSUME NEW c \in e.calls \cap Lost(l, Set(dst)) PROVE c \in over
    <3>1. /\ c \notin l.consumed
          /\ \A q \in Names \ Set(dst) : c \notin l.regs[q].calls
      BY <2>7, SetNames, LostIsGone
    <3>2. e = l.regs[r]
      BY <2>5, <2>7 DEF Local, Expr
    <3>3. r \in Set(dst)
      BY <3>1, <3>2, <2>7
    <3>4. r[2] = dst[2]
      BY <3>3 DEF Set, Written, X
    <3>5. r = dst /\ own
      BY <2>2, <2>4, <3>4
    <3>6. IsCall(e) /\ c = e.id
      BY <3>1, <2>6, <2>7 DEF Known, Inside
    <3> QED BY <3>2, <3>5, <3>6
  <2> HIDE DEF over
  <2>8. \A o : Once(l, o) => Once(m, o \cup over)
    BY <2>6, <2>7, SetRegOnce
  <2>9. Sound(m)
    BY <2>6, SetRegSound
  <2>10. Shaped(l)
    BY DEF Sound
  <2>11. /\ m.consumed = l.consumed \cup Lost(l, Set(dst))
         /\ m.printed = l.printed \cup Lost(l, Set(dst))
         /\ m.calls = l.calls
    BY <2>10, SetRegFields
  <2> HIDE DEF m
  <2>12. m.consumed \subseteq l.consumed \cup Placed(m)
    BY <2>11, PlacedParts
  <2>13. Right(l, m, over)
    BY <2>8, <2>9, <2>11, <2>12 DEF Right
  <2> QED BY <2>3, <2>13 DEF over
<1> QED BY <1>1, <1>2

(* A comparison keeps its operands, consumed, for the branch that follows. *)
LEMMA CmpRight ==
  ASSUME NEW l, NEW lhs, NEW rhs, Sound(l)
  PROVE  Right(l, LiftCmp(l, lhs, rhs), {})
<1> DEFINE a == RegValue(l, lhs)
           b == OperandValue(l, rhs)
           c == Consume(l, {a, b})
           cmp == [lhs |-> a, rhs |-> b]
           m == [c EXCEPT !.lastCmp = cmp]
<1>1. Readable(l, a) /\ Readable(l, b)
  BY ReadRegister, ReadOperand
<1>2. cmp.lhs = a /\ cmp.rhs = b
  OBVIOUS
<1> HIDE DEF a, b, cmp
<1>3. Ready(l, c, Binary(a, b))
  BY <1>1, ComputedSettled
<1>4. /\ Binary(a, b).calls = a.calls \cup b.calls
      /\ Binary(a, b).loose = a.loose \cup b.loose
  BY DEF Binary, Expr
<1> HIDE DEF c
<1>5. Sound(c) /\ Shaped(c)
  BY <1>3 DEF Ready, Sound
<1>6. m = [c EXCEPT !.lastCmp = cmp]
  OBVIOUS
<1> HIDE DEF m
<1>7. /\ Shaped(m)
      /\ m.regs = c.regs /\ m.calls = c.calls /\ m.lastCmp = cmp
      /\ m.consumed = c.consumed /\ m.printed = c.printed
  BY <1>5, <1>6 DEF Shaped, Fields
<1>8. InComparison(m) = Binary(a, b).calls /\ m.lastCmp.lhs.loose \cup m.lastCmp.rhs.loose = Binary(a, b).loose
  BY <1>2, <1>4, <1>7 DEF InComparison
<1>9. Sound(m)
  BY <1>3, <1>5, <1>7, <1>8 DEF Sound, Known, Ready, Settled
<1>10. ASSUME NEW o, Once(l, o) PROVE Once(m, o)
  <2>1. Once(c, o) /\ Binary(a, b).calls \cap (c.printed \ o) = {}
    BY <1>3, <1>10 DEF Ready, Settled
  <2> QED BY <2>1, <1>7, <1>8 DEF Once, Held
<1>11. m.consumed \subseteq l.consumed \cup Placed(m)
  BY <1>3, <1>7, <1>8 DEF Ready, Placed
<1>12. m.calls = l.calls
  BY <1>3, <1>7 DEF Ready
<1>13. Right(l, m, {})
  BY <1>9, <1>10, <1>11, <1>12 DEF Right
<1> QED BY <1>13 DEF LiftCmp, a, b, c, m, cmp

(* cset puts the comparison into a register. *)
LEMMA CsetRight ==
  ASSUME NEW l, NEW dst \in Names, Sound(l)
  PROVE  Right(l, LiftCset(l, dst), {})
<1> DEFINE v == Binary(l.lastCmp.lhs, l.lastCmp.rhs)
<1>1. /\ v.calls = InComparison(l) /\ v.loose = l.lastCmp.lhs.loose \cup l.lastCmp.rhs.loose
      /\ ~IsCall(v)
  BY DEF Binary, Expr, IsCall, InComparison
<1> HIDE DEF v
<1>2. Settled(l, v)
  BY <1>1 DEF Settled, Sound, Once, Held
<1>3. Settled(l, Local(<<"cond">>))
  BY LocalSettled
<1> DEFINE e == IF l.lastCmp.lhs = Nothing THEN Local(<<"cond">>) ELSE v
<1>4. Settled(l, e)
  BY <1>2, <1>3
<1> HIDE DEF e
<1>5. Right(l, SetReg(l, dst, e), {})
  BY <1>4, SetRegSettled
<1> QED BY <1>5 DEF LiftCset, e, v

(* A load gives a variable, a symbol, a field read through a pointer, or   *)
(* nothing.                                                                *)
LEMMA LdrRight ==
  ASSUME NEW l, NEW dst \in Names, NEW mem, Sound(l)
  PROVE  Right(l, LiftLdr(l, dst, mem), {})
<1> DEFINE f == FieldAccess(RegValue(l, mem.reg))
           e == RegValue(l, mem.reg)
<1>1. Right(l, l, {})
  BY DEF Right
<1>2. Right(l, ClobberReg(l, dst), {})
  <2> DEFINE m == Forget(l, Written(dst))
  <2>1. Set(dst) \subseteq Names /\ Shaped(l)
    BY SetNames DEF Sound
  <2>2. Sound(m) /\ \A o : Once(l, o) => Once(m, o)
    BY <2>1, ForgetSound, ForgetOnce DEF Set
  <2>3. /\ m.consumed = l.consumed \cup Lost(l, Set(dst))
        /\ m.printed = l.printed \cup Lost(l, Set(dst))
        /\ m.calls = l.calls
    BY <2>1, ForgetFields DEF Set
  <2> HIDE DEF m
  <2>4. m.consumed \subseteq l.consumed \cup Placed(m)
    BY <2>3, PlacedParts
  <2>5. Right(l, m, {})
    BY <2>2, <2>3, <2>4 DEF Right
  <2> QED BY <2>5 DEF m, ClobberReg
<1>3. \A name : Right(l, SetReg(l, dst, Local(name)), {})
  BY LocalSettled, SetRegSettled
<1>4. Right(l, SetReg(l, dst, f), {})
  <2>1. Readable(l, e)
    BY ReadRegister
  <2> HIDE DEF e
  <2>2. /\ Known(l, e) /\ \A o : Once(l, o) => e.calls \cap (l.printed \ o) = {}
    BY <2>1, ReadableKnown
  <2>3. f.calls = Inside(e) /\ ~IsCall(f) /\ f.loose \subseteq e.loose \cup (IF IsCall(e) THEN {e.id} ELSE {})
    BY DEF FieldAccess, Expr, IsCall, Inside, e
  <2> HIDE DEF f
  <2>4. IsCall(e) => e.id \in Nat
    BY <2>2 DEF Known, Sound
  <2>5. Inside(e) \subseteq e.calls
    BY DEF Inside
  <2>6. Settled(l, f)
    BY <2>2, <2>3, <2>4, <2>5 DEF Settled, Known
  <2> QED BY <2>6, SetRegSettled
<1> HIDE DEF f
<1> QED BY <1>1, <1>2, <1>3, <1>4 DEF LiftLdr, f

(* A statement is all that is new, besides the calls it consumes and the   *)
(* names of the stack slots.                                               *)
LEMMA StatementRight ==
  ASSUME NEW l, Sound(l), l.out = <<>>, NEW es, \A e \in es : Readable(l, e),
         NEW s, UNION {e.calls : e \in es} \subseteq s.target.calls \cup s.value.calls,
         NEW stack
  PROVE  /\ Right(l, [Consume(l, es) EXCEPT !.out = Append(@, s)], {})
         /\ Right(l, [[Consume(l, es) EXCEPT !.out = Append(@, s)] EXCEPT !.stack = stack], {})
<1> DEFINE c == Consume(l, es)
           m == [c EXCEPT !.out = Append(@, s)]
           n == [[c EXCEPT !.out = Append(@, s)] EXCEPT !.stack = stack]
<1>1. /\ Sound(c) /\ Shaped(c) /\ Shaped(l)
      /\ c.regs = l.regs /\ c.calls = l.calls
      /\ c.printed = l.printed /\ c.lastCmp = l.lastCmp
      /\ c.consumed = l.consumed \cup Ids(es)
  BY ConsumeSound DEF Sound
<1>2. c.out = l.out
  <2> DEFINE cons == l.consumed \cup Ids(es)
  <2>1. c = [l EXCEPT !.consumed = cons]
    BY DEF Consume, Ids
  <2> HIDE DEF c, cons
  <2> QED BY <2>1, <1>1 DEF Shaped, Fields
<1>3. Append(c.out, s) = <<s>>
  BY <1>2
<1>4. Ids(es) \subseteq s.target.calls \cup s.value.calls
  BY ReadableKnown DEF Ids
<1> HIDE DEF c
<1>5. /\ m = [c EXCEPT !.out = <<s>>]
      /\ n = [[c EXCEPT !.out = <<s>>] EXCEPT !.stack = stack]
  BY <1>3
<1> HIDE DEF m, n
<1>6. ASSUME NEW k \in {m, n} PROVE Right(l, k, {})
  <2>1. /\ Shaped(k)
        /\ k.regs = c.regs /\ k.calls = c.calls /\ k.lastCmp = c.lastCmp
        /\ k.consumed = c.consumed /\ k.printed = c.printed
        /\ k.out = <<s>>
    BY <1>1, <1>5 DEF Shaped, Fields
  <2>2. Sound(k)
    BY <1>1, <2>1 DEF Sound, Known, InComparison
  <2>3. \A o : Once(l, o) => Once(k, o)
    BY <1>1, <2>1 DEF Once, Held, InComparison
  <2>4. 1 \in DOMAIN k.out /\ k.out[1] = s
    BY <2>1
  <2>5. Ids(es) \subseteq Placed(k)
    BY <1>4, <2>4, PlacedParts
  <2> QED BY <1>1, <2>1, <2>2, <2>3, <2>5 DEF Right
<1> QED BY <1>6 DEF m, n, c

(* The name of a stack slot matters to none of the calls. *)
LEMMA StackRight ==
  ASSUME NEW l, Sound(l), NEW stack
  PROVE  Right(l, [l EXCEPT !.stack = stack], {})
<1> DEFINE m == [l EXCEPT !.stack = stack]
<1>1. Shaped(l)
  BY DEF Sound
<1>2. m = [l EXCEPT !.stack = stack]
  OBVIOUS
<1> HIDE DEF m
<1>3. /\ Shaped(m)
      /\ m.regs = l.regs /\ m.calls = l.calls /\ m.lastCmp = l.lastCmp
      /\ m.consumed = l.consumed /\ m.printed = l.printed
  BY <1>1, <1>2 DEF Shaped, Fields
<1>4. Sound(m) /\ \A o : Once(l, o) => Once(m, o)
  BY <1>3 DEF Sound, Known, InComparison, Once, Held
<1>5. Right(l, m, {})
  BY <1>3, <1>4 DEF Right
<1> QED BY <1>5 DEF m

(* A store consumes the value and the pointer it goes through. *)
LEMMA StrRight ==
  ASSUME NEW l, Sound(l), l.out = <<>>, NEW src, NEW mem
  PROVE  Right(l, LiftStr(l, src, mem), {})
<1> DEFINE v == RegValue(l, src)
           base == RegValue(l, mem.reg)
<1>1. Readable(l, v) /\ Readable(l, base)
  BY ReadRegister
<1>2. /\ \A t : Assign(t, v).target = t /\ Assign(t, v).value = v
      /\ Stored(base).calls = base.calls
  BY DEF Assign, Stmt, Stored, Expr
<1> HIDE DEF v, base
<1>3. Right(l, [Consume(l, {base, v}) EXCEPT !.out = Append(@, Assign(Stored(base), v))], {})
  <2> DEFINE s == Assign(Stored(base), v)
  <2>1. s.target.calls = base.calls /\ s.value.calls = v.calls
    BY <1>2
  <2> HIDE DEF s
  <2>2. UNION {e.calls : e \in {base, v}} \subseteq s.target.calls \cup s.value.calls
    BY <2>1
  <2> DEFINE es == {base, v}
  <2>3. \A e \in es : Readable(l, e)
    BY <1>1
  <2> HIDE DEF es
  <2>4. Right(l, [Consume(l, es) EXCEPT !.out = Append(@, s)], {})
    BY <2>2, <2>3, StatementRight DEF es
  <2> QED BY <2>4 DEF s, es
<1>4. \A t, stack :
        Right(l, [[Consume(l, {v}) EXCEPT !.out = Append(@, Assign(t, v))] EXCEPT !.stack = stack], {})
  <2> TAKE t, stack
  <2> DEFINE s == Assign(t, v)
  <2>1. s.value.calls = v.calls
    BY <1>2
  <2> HIDE DEF s
  <2>2. UNION {e.calls : e \in {v}} \subseteq s.target.calls \cup s.value.calls
    BY <2>1
  <2> DEFINE es == {v}
  <2>3. \A e \in es : Readable(l, e)
    BY <1>1
  <2> HIDE DEF es
  <2>4. Right(l, [[Consume(l, es) EXCEPT !.out = Append(@, s)] EXCEPT !.stack = stack], {})
    BY <2>2, <2>3, StatementRight DEF es
  <2> QED BY <2>4 DEF s, es
<1>5. \A stack : Right(l, [l EXCEPT !.stack = stack], {})
  BY StackRight
<1>6. Right(l, l, {})
  BY DEF Right
<1> QED BY <1>3, <1>4, <1>5, <1>6 DEF LiftStr, v, base

(* A return consumes what it returns. *)
LEMMA RetRight ==
  ASSUME NEW l, Sound(l), l.out = <<>>
  PROVE  Right(l, LiftRet(l), {})
<1> DEFINE v == IF l.regs[W(0)] # Nothing THEN l.regs[W(0)]
                ELSE IF l.regs[X(0)] # Nothing THEN l.regs[X(0)]
                ELSE Local(W(0))
           s == Return(v)
<1>1. X(0) \in Names /\ W(0) \in Names
  BY RegisterAssumption DEF Names
<1>2. Readable(l, Local(W(0)))
  BY DEF Readable, Local, Expr, IsCall
<1>3. Readable(l, v)
  BY <1>1, <1>2 DEF Readable
<1>4. s.value = v
  BY DEF Return, Stmt
<1> HIDE DEF v, s
<1> DEFINE es == {v}
<1>5. \A e \in es : Readable(l, e)
  BY <1>3
<1>6. UNION {e.calls : e \in es} \subseteq s.target.calls \cup s.value.calls
  BY <1>4
<1> HIDE DEF es
<1>7. Right(l, [Consume(l, es) EXCEPT !.out = Append(@, s)], {})
  BY <1>5, <1>6, StatementRight
<1> QED BY <1>7 DEF LiftRet, v, s, es

-----------------------------------------------------------------------------
(* Calls. *)

(* The argument registers are registers. *)
LEMMA ArgNamesAreNames ==
  {ArgNames[i] : i \in DOMAIN ArgNames} \subseteq Names
<1>1. ASSUME NEW i \in 1 .. 2 * ArgCount PROVE ArgNames[i] \in Names
  <2>1. ArgCount \in Nat /\ 0 .. ArgCount - 1 \subseteq Numbers
    BY RegisterAssumption
  <2>2. CASE i % 2 = 1
    <3>1. i \div 2 \in 0 .. ArgCount - 1
      BY <2>1, <2>2
    <3> QED BY <2>1, <2>2, <3>1 DEF ArgNames, Names
  <2>3. CASE i % 2 # 1
    <3>1. i \div 2 - 1 \in 0 .. ArgCount - 1
      BY <2>1, <2>3
    <3> QED BY <2>1, <2>3, <3>1 DEF ArgNames, Names
  <2> QED BY <2>2, <2>3
<1> QED BY <1>1 DEF ArgNames

(* An argument is what an argument register holds, or a string. *)
LEMMA ArgsReadable ==
  ASSUME NEW l, NEW n \in 0 .. ArgCount
  PROVE  \A e \in CallArgs(l, n) : Readable(l, e)
<1>1. ASSUME NEW i \in 0 .. n - 1 PROVE X(i) \in Names
  BY RegisterAssumption DEF Names
<1>2. \A nm : Readable(l, Expr("string", nm, {}, {}))
  BY DEF Readable, Expr, IsCall
<1> QED BY <1>1, <1>2 DEF CallArgs, Readable

(* The expressions inside a call and its number. *)
LEMMA CallParts ==
  ASSUME NEW id \in Nat, NEW parts,
         \A e \in parts : e.calls \subseteq Nat /\ e.loose \subseteq Nat
  PROVE  LET call == Call(id, parts)
         IN  /\ call \in CallExprs
             /\ IsCall(call) /\ call.id = id
             /\ call.calls = {id} \cup UNION {e.calls : e \in parts}
<1> DEFINE calls == {id} \cup UNION {e.calls : e \in parts}
           loose == UNION {e.loose : e \in parts}
<1>1. calls \subseteq Nat /\ loose \subseteq Nat
  OBVIOUS
<1> HIDE DEF calls, loose
<1>2. Call(id, parts) = [kind |-> "call", name |-> <<>>, id |-> id, calls |-> calls, loose |-> loose]
  BY DEF Call, calls, loose
<1>3. Call(id, parts) \in CallExprs /\ IsCall(Call(id, parts)) /\ Call(id, parts).id = id
      /\ Call(id, parts).calls = calls
  BY <1>1, <1>2 DEF CallExprs, IsCall
<1> QED BY <1>3 DEF calls

(* Only the calls made grow. *)
Appended(g, h, call) ==
  /\ Shaped(h)
  /\ h.calls = Append(g.calls, call)
  /\ h.regs = g.regs /\ h.addrRegs = g.addrRegs /\ h.lastCmp = g.lastCmp
  /\ h.consumed = g.consumed /\ h.printed = g.printed

(* Appending to the calls changes no other field. *)
LEMMA AppendFields ==
  ASSUME NEW g, Shaped(g), NEW call
  PROVE  Appended(g, [g EXCEPT !.calls = Append(@, call)], call)
<1> DEFINE calls == Append(g.calls, call)
           h == [g EXCEPT !.calls = calls]
<1> HIDE DEF calls
<1>1. h = [g EXCEPT !.calls = calls]
  OBVIOUS
<1> HIDE DEF h
<1>2. /\ Shaped(h) /\ h.calls = calls
      /\ h.regs = g.regs /\ h.addrRegs = g.addrRegs /\ h.lastCmp = g.lastCmp
      /\ h.consumed = g.consumed /\ h.printed = g.printed
  BY <1>1 DEF Shaped, Fields
<1> QED BY <1>2 DEF Appended, h, calls

(* A call made is numbered after those before it, and held by nothing yet. *)
LEMMA MadeSound ==
  ASSUME NEW g, Sound(g), NEW call \in CallExprs, call.id = Len(g.calls) + 1,
         call.id \in call.calls, NEW h, Appended(g, h, call)
  PROVE  /\ Sound(h)
         /\ \A o : Once(g, o) => Once(h, o)
         /\ call.id \in DOMAIN h.calls /\ h.calls[call.id] = call
         /\ call.id \notin DOMAIN g.calls
<1>1. g.calls \in Seq(CallExprs)
  BY DEF Sound
<1>2. /\ h.calls \in Seq(CallExprs)
      /\ DOMAIN g.calls = 1 .. Len(g.calls) /\ Len(g.calls) \in Nat
      /\ DOMAIN h.calls = 1 .. Len(g.calls) + 1
      /\ h.calls[Len(g.calls) + 1] = call
      /\ \A i \in DOMAIN g.calls : h.calls[i] = g.calls[i]
  BY <1>1 DEF Appended
<1>3. \A i \in DOMAIN h.calls : h.calls[i].id = i /\ i \in h.calls[i].calls
  BY <1>2 DEF Sound
<1>4. \A r \in Names : Known(h, h.regs[r])
  BY <1>2 DEF Appended, Sound, Known
<1>5. Sound(h)
  BY <1>2, <1>3, <1>4 DEF Sound, Appended, InComparison
<1>6. \A o : Once(g, o) => Once(h, o)
  BY DEF Appended, Once, Held, InComparison
<1> QED BY <1>2, <1>5, <1>6

(* What l consumed is printed or in a register. *)
Kept(k, l) == l.consumed \subseteq k.consumed \cup l.printed \cup InRegisters(l)

(* A call takes its arguments and goes to w0 and x0; the argument          *)
(* registers lose what only they held.                                     *)
LEMMA FinishCallRight ==
  ASSUME NEW l, Sound(l), NEW parts, \A e \in parts : Readable(l, e)
  PROVE  Right(l, FinishCall(l, parts), {}) /\ Kept(l, FinishCall(l, parts))
<1> DEFINE id   == Len(l.calls) + 1
           call == Call(id, parts)
           c    == Consume(l, parts)
           g    == Forget(c, ArgNames)
           h    == [g EXCEPT !.calls = Append(@, call)]
           m    == SetReg(h, W(0), call)
           args == {ArgNames[i] : i \in DOMAIN ArgNames}
           inside == UNION {e.calls : e \in parts}
<1>1. FinishCall(l, parts) = m
  BY DEF FinishCall
<1>2. /\ Sound(c)
      /\ c.regs = l.regs /\ c.calls = l.calls
      /\ c.printed = l.printed /\ c.lastCmp = l.lastCmp
      /\ c.consumed = l.consumed \cup Ids(parts)
      /\ \A e \in parts : e.calls \subseteq c.consumed
  BY ConsumeSound
<1>3. /\ Sound(g) /\ \A o : Once(c, o) => Once(g, o)
      /\ g.consumed = c.consumed \cup Lost(c, args)
      /\ g.printed = c.printed \cup Lost(c, args)
      /\ g.calls = c.calls
  <2>1. Sound(g) /\ \A o : Once(c, o) => Once(g, o)
    BY <1>2, ArgNamesAreNames, ForgetSound, ForgetOnce
  <2>2. Shaped(c)
    BY <1>2 DEF Sound
  <2> QED BY <2>1, <2>2, ForgetFields
<1>4. id \in Nat /\ DOMAIN l.calls = 1 .. Len(l.calls)
  BY DEF Sound
<1>5. \A e \in parts : e.calls \subseteq Nat /\ e.loose \subseteq Nat
  <2>1. c.consumed \subseteq Nat
    BY <1>2, <1>4 DEF Sound
  <2>2. \A e \in parts : Known(l, e)
    BY ReadableKnown
  <2> QED BY <1>2, <2>1, <2>2 DEF Known
<1> HIDE DEF id
<1>6. /\ call \in CallExprs /\ IsCall(call) /\ call.id = id
      /\ call.calls = {id} \cup inside
  BY <1>4, <1>5, CallParts
<1>7. inside \subseteq c.consumed
  BY <1>2
<1>8. \A o : Once(l, o) => inside \cap (l.printed \ o) = {}
  BY ReadableKnown
<1>9. Ids(parts) \subseteq inside
  BY ReadableKnown DEF Ids
<1>10. args \subseteq Names
  BY ArgNamesAreNames
<1> HIDE DEF c, call, inside, args, g
<1>11. Appended(g, h, call)
  BY <1>3, AppendFields DEF Sound
<1> HIDE DEF h
<1>12. /\ Sound(h) /\ \A o : Once(g, o) => Once(h, o)
       /\ id \in DOMAIN h.calls /\ h.calls[id] = call /\ id \notin DOMAIN g.calls
  BY <1>2, <1>3, <1>6, <1>11, MadeSound DEF id
<1>13. Known(h, call)
  <2>1. Inside(call) \subseteq h.consumed
    BY <1>3, <1>6, <1>7, <1>11 DEF Inside, Appended
  <2>2. call.loose \subseteq Nat
    BY <1>6 DEF CallExprs
  <2> QED BY <1>6, <1>12, <2>1, <2>2 DEF Known
<1>14. W(0) \in Names
  BY RegisterAssumption DEF Names
<1>15. Lost(h, Set(W(0))) \subseteq DOMAIN g.calls
  <2>1. ASSUME NEW x \in Lost(h, Set(W(0))) PROVE x \in DOMAIN g.calls
    <3>1. PICK r \in Set(W(0)) : IsCall(h.regs[r]) /\ h.regs[r].id = x
      BY DEF Lost, Orphan
    <3>2. r \in Names
      BY <1>14, SetNames
    <3>3. Known(g, g.regs[r])
      BY <1>3, <3>2 DEF Sound
    <3> QED BY <1>11, <3>1, <3>3 DEF Appended, Known
  <2> QED BY <2>1
<1>16. call.calls \cap Lost(h, Set(W(0))) = {}
  <2>1. Lost(h, Set(W(0))) \cap h.consumed = {}
    BY <1>12, <1>14, SetNames, LostIsGone
  <2>2. inside \subseteq h.consumed
    BY <1>3, <1>7, <1>11 DEF Appended
  <2> QED BY <1>6, <1>12, <1>15, <2>1, <2>2
<1>17. ASSUME NEW o, Once(l, o) PROVE Once(m, o)
  <2>1. Once(c, o)
    BY <1>2, <1>17 DEF Once, Held, InComparison
  <2>2. Once(h, o)
    BY <2>1, <1>3, <1>12
  <2>3. Lost(c, args) \cap c.consumed = {}
    BY <1>2, <1>10, LostIsGone
  <2>4. id \notin h.printed
    BY <1>3, <1>11, <1>12 DEF Sound, Appended
  <2>5. h.printed = l.printed \cup Lost(c, args)
    BY <1>2, <1>3, <1>11 DEF Appended
  <2>6. inside \cap (h.printed \ o) = {}
    BY <1>7, <1>8, <1>17, <2>3, <2>5
  <2>7. call.calls \cap (h.printed \ o) = {}
    BY <1>6, <2>4, <2>6
  <2>8. Once(m, o \cup {})
    BY <1>12, <1>13, <1>14, <1>16, <2>2, <2>7, SetRegOnce
  <2> QED BY <2>8
<1>18. Sound(m)
  BY <1>12, <1>13, <1>14, SetRegSound
<1>19. /\ \A q \in Names : m.regs[q] = IF q \in Set(W(0)) THEN call ELSE h.regs[q]
       /\ m.consumed = h.consumed \cup Lost(h, Set(W(0)))
       /\ m.printed = h.printed \cup Lost(h, Set(W(0)))
       /\ m.calls = h.calls
  BY <1>12, SetRegFields DEF Sound
<1> HIDE DEF m
<1>20. m.regs[W(0)] = call
  BY <1>14, <1>19, SetNames
<1>21. Ids(parts) \subseteq InRegisters(m)
  <2>1. id \notin inside
    BY <1>2, <1>3, <1>7, <1>12 DEF Sound
  <2>2. Inside(call) = inside
    BY <1>6, <2>1 DEF Inside
  <2> QED BY <1>9, <1>14, <1>20, <2>2 DEF InRegisters
<1>22. Kept(l, m)
  <2>1. m.consumed \subseteq l.consumed \cup Ids(parts) \cup m.printed
    BY <1>2, <1>3, <1>11, <1>19 DEF Appended
  <2> QED BY <2>1, <1>21 DEF Kept
<1>23. m.consumed \subseteq l.consumed \cup Placed(m)
  BY <1>22 DEF Kept, Placed
<1>24. Right(l, m, {})
  BY <1>17, <1>18, <1>23 DEF Right
<1> QED BY <1>1, <1>22, <1>24

(* A direct call. *)
LEMMA CallRight ==
  ASSUME NEW l, Sound(l), NEW target
  PROVE  Right(l, LiftCall(l, target), {}) /\ Kept(l, LiftCall(l, target))
<1>1. (IF target \in DOMAIN Arity THEN Arity[target] ELSE ArgCount) \in 0 .. ArgCount
  BY RegisterAssumption
<1>2. \A e \in ArgsOf(l, target) : Readable(l, e)
  BY <1>1, ArgsReadable DEF ArgsOf
<1> QED BY <1>2, FinishCallRight DEF LiftCall

(* A call through a register, which becomes part of it. *)
LEMMA BlrRight ==
  ASSUME NEW l, Sound(l), NEW r
  PROVE  Right(l, LiftBlr(l, r), {}) /\ Kept(l, LiftBlr(l, r))
<1> DEFINE parts == {RegValue(l, r)} \cup CallArgs(l, ArgCount)
<1>1. ArgCount \in 0 .. ArgCount
  BY RegisterAssumption
<1>2. \A e \in CallArgs(l, ArgCount) : Readable(l, e)
  BY <1>1, ArgsReadable
<1>3. \A e \in parts : Readable(l, e)
  BY <1>2, ReadRegister
<1> HIDE DEF parts
<1>4. Right(l, FinishCall(l, parts), {}) /\ Kept(l, FinishCall(l, parts))
  BY <1>3, FinishCallRight
<1> QED BY <1>4 DEF LiftBlr, parts

(* All that l consumed has been placed: the path may end here. *)
Settles(k, l) == Shaped(l) /\ l.consumed \subseteq k.consumed \cup Placed(l)

(* An instruction that leaves all in order may be the last. *)
LEMMA RightSettles ==
  ASSUME NEW k, NEW l, NEW over, Right(k, l, over)
  PROVE  Settles(k, l)
BY DEF Right, Settles, Sound

(* So may a call in tail position, printed at once. *)
LEMMA PrintCallSettles ==
  ASSUME NEW k, NEW l, Right(k, l, {}), Kept(k, l)
  PROVE  Settles(k, PrintCall(l))
<1> DEFINE call == l.calls[Len(l.calls)]
           cons == l.consumed \cup {call.id}
           prin == l.printed \cup {call.id}
           outs == Append(l.out, ExprStmt(call))
           m    == [l EXCEPT !.consumed = cons, !.printed = prin, !.out = outs]
<1>1. PrintCall(l) = m
  BY DEF PrintCall
<1> HIDE DEF outs, call
<1> DEFINE c == cons
           p == prin
<1>2. m = [l EXCEPT !.consumed = c, !.printed = p, !.out = outs]
  OBVIOUS
<1>3. Shaped(l)
  BY DEF Right, Sound
<1> HIDE DEF m, c, p
<1>4. /\ Shaped(m) /\ m.consumed = c /\ m.printed = p
      /\ m.regs = l.regs /\ m.lastCmp = l.lastCmp /\ m.calls = l.calls /\ m.out = outs
  BY <1>2, <1>3 DEF Shaped, Fields
<1>5. p \subseteq Placed(m)
  BY <1>4, PlacedParts
<1>6. InRegisters(m) = InRegisters(l)
  BY <1>4 DEF InRegisters
<1>7. InRegisters(m) \subseteq Placed(m)
  BY DEF Placed
<1> QED BY <1>1, <1>4, <1>5, <1>6, <1>7 DEF Settles, Kept, c, p

-----------------------------------------------------------------------------
(* The calls of a path. *)

CallsInv ==
  /\ ~ended => Sound(lifter) /\ Once(lifter, again)
  /\ lifter.consumed \subseteq placed
  /\ ended => \A i \in DOMAIN lifter.calls : lifter.calls[i].id \in placed

(* Before the first instruction no call is made. *)
LEMMA CallsInit == StraightInit => CallsInv
<1> SUFFICES ASSUME StraightInit PROVE CallsInv
  OBVIOUS
<1> DEFINE regs == [r \in Names |->
                     IF r[2] < ArgCount /\ r[2] + 1 \in DOMAIN Params
                     THEN Local(<<"param", Params[r[2] + 1]>>) ELSE Nothing]
           addr == [r \in Names |-> NoAddr]
           cmp  == [lhs |-> Nothing, rhs |-> Nothing]
<1>1. lifter = [regs |-> regs, addrRegs |-> addr, stack |-> <<>>, lastCmp |-> cmp,
                calls |-> <<>>, consumed |-> {}, printed |-> {}, out |-> <<>>]
  BY DEF StraightInit, NewLifter
<1>2. \A r \in Names : regs[r].calls = {} /\ regs[r].loose = {} /\ ~IsCall(regs[r])
  BY DEF Local, Nothing, Expr, IsCall
<1>3. /\ cmp.lhs.calls = {} /\ cmp.rhs.calls = {}
      /\ cmp.lhs.loose = {} /\ cmp.rhs.loose = {}
  BY DEF Nothing, Expr
<1>4. regs = [r \in Names |-> regs[r]] /\ addr = [r \in Names |-> addr[r]]
  OBVIOUS
<1> HIDE DEF regs, addr, cmp
<1>5. Shaped(lifter)
  BY <1>1, <1>4 DEF Shaped, Fields
<1>6. \A r \in Names : Known(lifter, lifter.regs[r])
  BY <1>1, <1>2 DEF Known, Inside
<1>7. lifter.calls = <<>> /\ <<>> \in Seq(CallExprs) /\ DOMAIN <<>> = {}
  BY <1>1
<1>8. InComparison(lifter) = {} /\ lifter.lastCmp.lhs.loose \cup lifter.lastCmp.rhs.loose \subseteq Nat
  BY <1>1, <1>3 DEF InComparison
<1>9. Sound(lifter)
  BY <1>1, <1>5, <1>6, <1>7, <1>8 DEF Sound
<1> QED BY <1>1, <1>9 DEF CallsInv, Once, StraightInit

(* Dropping the statements of the last step changes no other field. *)
LEMMA ClearedSame ==
  ASSUME Shaped(lifter)
  PROVE  /\ Shaped(Cleared)
         /\ Cleared.regs = lifter.regs /\ Cleared.addrRegs = lifter.addrRegs
         /\ Cleared.calls = lifter.calls /\ Cleared.lastCmp = lifter.lastCmp
         /\ Cleared.consumed = lifter.consumed /\ Cleared.printed = lifter.printed
         /\ Cleared.out = <<>>
<1> DEFINE l == lifter
           m == [l EXCEPT !.out = <<>>]
<1> HIDE DEF l
<1>1. Shaped(l) => /\ Shaped(m)
                   /\ m.regs = l.regs /\ m.addrRegs = l.addrRegs
                   /\ m.calls = l.calls /\ m.lastCmp = l.lastCmp
                   /\ m.consumed = l.consumed /\ m.printed = l.printed
                   /\ m.out = <<>>
  BY DEF Shaped, Fields
<1> QED BY <1>1 DEF Cleared, l

(* And leaves all in order. *)
LEMMA ClearedSound ==
  ASSUME CallsInv, ~ended
  PROVE  Sound(Cleared) /\ Once(Cleared, again) /\ Cleared.out = <<>>
<1>1. Sound(lifter) /\ Shaped(lifter) /\ Once(lifter, again)
  BY DEF CallsInv, Sound
<1> QED BY <1>1, ClearedSame DEF Sound, Known, InComparison, Once, Held

(* An instruction that leaves all in order keeps the invariant. *)
LEMMA LiftKeeps ==
  ASSUME CallsInv, NEW l, NEW over, Right(Cleared, l, over), Lift(l, over)
  PROVE  CallsInv'
<1>1. ~ended /\ Sound(lifter) /\ Shaped(lifter) /\ Once(lifter, again)
  BY DEF CallsInv, Sound, Lift, Take
<1>2. lifter' = l /\ placed' = placed \cup Placed(l) /\ again' = again \cup over /\ ~ended'
  BY DEF Lift, Take
<1>3. Once(Cleared, again) /\ Cleared.consumed = lifter.consumed
  BY <1>1, ClearedSound, ClearedSame
<1>4. Sound(l) /\ Once(l, again \cup over) /\ l.consumed \subseteq lifter.consumed \cup Placed(l)
  BY <1>3 DEF Right
<1> QED BY <1>2, <1>4 DEF CallsInv

(* What the flush at the end does to each field it concerns. *)
LEMMA FlushFields ==
  ASSUME NEW l, Shaped(l)
  PROVE  LET f   == FlushRemaining(l)
             ids == {l.calls[i].id : i \in DOMAIN l.calls} \ l.consumed
         IN  /\ f.calls = l.calls
             /\ f.consumed = l.consumed \cup ids
             /\ f.printed = l.printed \cup ids
<1> DEFINE left == InOrder(Len(l.calls), {i \in DOMAIN l.calls : l.calls[i].id \notin l.consumed})
           ids  == {l.calls[i].id : i \in DOMAIN l.calls} \ l.consumed
           cons == l.consumed \cup ids
           prin == l.printed \cup ids
           outs == l.out \o [k \in DOMAIN left |-> ExprStmt(l.calls[left[k]])]
           f    == [l EXCEPT !.consumed = cons, !.printed = prin, !.out = outs]
<1>1. FlushRemaining(l) = f
  BY DEF FlushRemaining
<1> HIDE DEF outs, ids, left
<1> DEFINE c == cons
           p == prin
           o == outs
<1>2. f = [l EXCEPT !.consumed = c, !.printed = p, !.out = o]
  OBVIOUS
<1> HIDE DEF f, c, p, o
<1>3. f.calls = l.calls /\ f.consumed = c /\ f.printed = p
  BY <1>2 DEF Shaped, Fields
<1> QED BY <1>1, <1>3 DEF ids, c, p

(* The end of the path places every call. *)
LEMMA EndKeeps ==
  ASSUME CallsInv, NEW l, Settles(Cleared, l), End(l)
  PROVE  CallsInv'
<1> DEFINE ids == {l.calls[i].id : i \in DOMAIN l.calls} \ l.consumed
           m   == FlushRemaining(l)
<1>1. ~ended /\ Shaped(lifter)
  BY DEF CallsInv, Sound, End, Take
<1>2. lifter' = m /\ placed' = placed \cup Placed(l) \cup Placed(m) /\ ended'
  BY DEF End, Take
<1>3. l.consumed \subseteq placed \cup Placed(l)
  BY <1>1, ClearedSame DEF Settles, CallsInv
<1>4. m.calls = l.calls /\ m.consumed = l.consumed \cup ids /\ m.printed = l.printed \cup ids
  BY FlushFields DEF Settles
<1> HIDE DEF m
<1>5. ids \subseteq Placed(m)
  BY <1>4, PlacedParts
<1>6. m.consumed \subseteq placed'
  BY <1>2, <1>3, <1>4, <1>5
<1>7. \A i \in DOMAIN l.calls : l.calls[i].id \in m.consumed
  BY <1>4
<1> QED BY <1>2, <1>4, <1>6, <1>7 DEF CallsInv

(* Every instruction keeps the invariant. *)
LEMMA CallsNext ==
  ASSUME CallsInv, [StraightNext]_straight
  PROVE  CallsInv'
<1> USE DEF StraightNext
<1>a. ASSUME ~ended PROVE Sound(Cleared) /\ Cleared.out = <<>>
  BY <1>a, ClearedSound
<1>1. CASE Mov
  <2>1. PICK dst \in Names : \E src \in Operands(dst) :
          LET own == src.type = "reg" /\ src.reg[2] = dst[2]
              e   == lifter.regs[dst]
          IN  Lift(LiftMov(Cleared, dst, src), IF own /\ IsCall(e) THEN {e.id} ELSE {})
    BY <1>1 DEF Mov
  <2>2. PICK src \in Operands(dst) :
          LET own == src.type = "reg" /\ src.reg[2] = dst[2]
              e   == lifter.regs[dst]
          IN  Lift(LiftMov(Cleared, dst, src), IF own /\ IsCall(e) THEN {e.id} ELSE {})
    BY <2>1
  <2>3. ~ended /\ Sound(lifter)
    BY <2>2 DEF Lift, Take, CallsInv
  <2>4. Sound(Cleared) /\ Cleared.regs = lifter.regs
    BY <2>3, <1>a, ClearedSame DEF Sound
  <2> DEFINE over == IF (src.type = "reg" /\ src.reg[2] = dst[2]) /\ IsCall(lifter.regs[dst])
                     THEN {lifter.regs[dst].id} ELSE {}
  <2>5. Right(Cleared, LiftMov(Cleared, dst, src),
              IF (src.type = "reg" /\ src.reg[2] = dst[2]) /\ IsCall(Cleared.regs[dst])
              THEN {Cleared.regs[dst].id} ELSE {})
    BY <2>4, MovRight
  <2>6. Right(Cleared, LiftMov(Cleared, dst, src), over)
    BY <2>4, <2>5
  <2> QED BY <2>2, <2>6, LiftKeeps
<1>2. CASE Addr
  <2>1. PICK n \in Numbers, a \in Immediates : Lift(LiftAddr(Cleared, X(n), a), {})
    BY <1>2 DEF Addr
  <2>2. Right(Cleared, LiftAddr(Cleared, X(n), a), {})
    BY <2>1, <1>a, AddrRight DEF Lift, Take, Names
  <2> QED BY <2>1, <2>2, LiftKeeps
<1>3. CASE Add
  <2>1. PICK dst \in Names : \E lhs \in Like(dst), rhs \in Operands(dst) :
          Lift(LiftAdd(Cleared, dst, lhs, rhs), {})
    BY <1>3 DEF Add
  <2>2. PICK lhs \in Like(dst), rhs \in Operands(dst) : Lift(LiftAdd(Cleared, dst, lhs, rhs), {})
    BY <2>1
  <2>3. Right(Cleared, LiftAdd(Cleared, dst, lhs, rhs), {})
    BY <2>2, <1>a, AddRight DEF Lift, Take
  <2> QED BY <2>2, <2>3, LiftKeeps
<1>4. CASE ALU
  <2>1. PICK dst \in Names : \E lhs \in Like(dst), rhs \in Operands(dst) :
          Lift(LiftALU(Cleared, dst, lhs, rhs), {})
    BY <1>4 DEF ALU
  <2>2. PICK lhs \in Like(dst), rhs \in Operands(dst) : Lift(LiftALU(Cleared, dst, lhs, rhs), {})
    BY <2>1
  <2>3. Right(Cleared, LiftALU(Cleared, dst, lhs, rhs), {})
    BY <2>2, <1>a, ALURight DEF Lift, Take
  <2> QED BY <2>2, <2>3, LiftKeeps
<1>5. CASE Cmp
  <2>1. PICK lhs \in Names : \E rhs \in Operands(lhs) : Lift(LiftCmp(Cleared, lhs, rhs), {})
    BY <1>5 DEF Cmp
  <2>2. PICK rhs \in Operands(lhs) : Lift(LiftCmp(Cleared, lhs, rhs), {})
    BY <2>1
  <2>3. Right(Cleared, LiftCmp(Cleared, lhs, rhs), {})
    BY <2>2, <1>a, CmpRight DEF Lift, Take
  <2> QED BY <2>2, <2>3, LiftKeeps
<1>6. CASE Cset
  <2>1. PICK dst \in Names : Lift(LiftCset(Cleared, dst), {})
    BY <1>6 DEF Cset
  <2>2. Right(Cleared, LiftCset(Cleared, dst), {})
    BY <2>1, <1>a, CsetRight DEF Lift, Take
  <2> QED BY <2>1, <2>2, LiftKeeps
<1>7. CASE Str
  <2>1. PICK src \in Names, mem \in MemOperands : Lift(LiftStr(Cleared, src, mem), {})
    BY <1>7 DEF Str
  <2>2. Right(Cleared, LiftStr(Cleared, src, mem), {})
    BY <2>1, <1>a, StrRight DEF Lift, Take
  <2> QED BY <2>1, <2>2, LiftKeeps
<1>8. CASE Ldr
  <2>1. PICK dst \in Names, mem \in MemOperands : Lift(LiftLdr(Cleared, dst, mem), {})
    BY <1>8 DEF Ldr
  <2>2. Right(Cleared, LiftLdr(Cleared, dst, mem), {})
    BY <2>1, <1>a, LdrRight DEF Lift, Take
  <2> QED BY <2>1, <2>2, LiftKeeps
<1>9. CASE Other
  <2>1. Lift(Cleared, {})
    BY <1>9 DEF Other
  <2>2. Right(Cleared, Cleared, {})
    BY <2>1, <1>a DEF Lift, Take, Right
  <2> QED BY <2>1, <2>2, LiftKeeps
<1>10. CASE Bl
  <2>1. PICK target \in Immediates : Lift(LiftCall(Cleared, target), {})
    BY <1>10 DEF Bl
  <2>2. Right(Cleared, LiftCall(Cleared, target), {})
    BY <2>1, <1>a, CallRight DEF Lift, Take
  <2> QED BY <2>1, <2>2, LiftKeeps
<1>11. CASE Blr
  <2>1. PICK r \in {X(n) : n \in Numbers} : Lift(LiftBlr(Cleared, r), {})
    BY <1>11 DEF Blr
  <2>2. Right(Cleared, LiftBlr(Cleared, r), {})
    BY <2>1, <1>a, BlrRight DEF Lift, Take
  <2> QED BY <2>1, <2>2, LiftKeeps
<1>12. CASE Ret
  <2>1. End(LiftRet(Cleared))
    BY <1>12 DEF Ret
  <2>2. Right(Cleared, LiftRet(Cleared), {})
    BY <2>1, <1>a, RetRight DEF End, Take
  <2> QED BY <2>1, <2>2, RightSettles, EndKeeps
<1>13. CASE TailCall
  <2>1. PICK target \in Immediates : End(LiftTailCall(Cleared, target))
    BY <1>13 DEF TailCall
  <2>2. Sound(Cleared)
    BY <2>1, <1>a DEF End, Take
  <2>3. Settles(Cleared, PrintCall(LiftCall(Cleared, target)))
    BY <2>2, CallRight, PrintCallSettles
  <2>4. Settles(Cleared, Cleared)
    BY <2>2 DEF Settles, Sound
  <2>5. Settles(Cleared, LiftTailCall(Cleared, target))
    BY <2>3, <2>4 DEF LiftTailCall
  <2> QED BY <2>1, <2>5, EndKeeps
<1>14. CASE Br
  <2>1. PICK r \in {X(n) : n \in Numbers} : End(LiftBr(Cleared, r))
    BY <1>14 DEF Br
  <2>2. Sound(Cleared)
    BY <2>1, <1>a DEF End, Take
  <2>3. Settles(Cleared, PrintCall(LiftBlr(Cleared, r)))
    BY <2>2, BlrRight, PrintCallSettles
  <2> QED BY <2>1, <2>3, EndKeeps DEF LiftBr
<1>15. CASE UNCHANGED straight
  BY <1>15 DEF straight, CallsInv
<1> QED BY <1>1, <1>2, <1>3, <1>4, <1>5, <1>6, <1>7, <1>8, <1>9, <1>10, <1>11, <1>12, <1>13, <1>14, <1>15

(* A call printed as a statement because the last register with its result *)
(* went is in no register and no comparison any more (clobberReg,          *)
(* internal/arm64lift/lift.go): nothing later repeats it.                  *)
THEOREM PrintedOnceHolds == StraightSpec => []PrintedOnce
<1>1. CallsInv => PrintedOnce
  BY DEF CallsInv, PrintedOnce, Once, Held
<1> QED BY <1>1, CallsInit, CallsNext, PTL DEF StraightSpec

(* Of no call is it lost that it was made: what is marked as consumed has  *)
(* been printed or is part of a value, and where the path ends the flush   *)
(* has brought out the rest.                                               *)
THEOREM NothingVanishesHolds == StraightSpec => []NothingVanishes
<1>1. CallsInv => NothingVanishes
  BY DEF CallsInv, NothingVanishes
<1> QED BY <1>1, CallsInit, CallsNext, PTL DEF StraightSpec

-----------------------------------------------------------------------------
(* The addresses of a path: an instruction forgets some, and may learn one *)
(* for the register it writes.                                             *)

Forgets(l, m) ==
  Shaped(m) /\ \A k \in Numbers : m.addrRegs[X(k)] \in {l.addrRegs[X(k)], NoAddr}

Overwrites(l, m, n) == Forgets(l, m) /\ m.addrRegs[X(n)] = NoAddr

(* One step after the other. *)
LEMMA ForgetsTransitive ==
  ASSUME NEW k, NEW l, NEW m, Forgets(k, l), Forgets(l, m)
  PROVE  Forgets(k, m)
BY DEF Forgets

(* The other fields have nothing to do with the addresses. *)
LEMMA OtherFieldsForget ==
  ASSUME NEW l, Shaped(l), NEW v
  PROVE  /\ Forgets(l, [l EXCEPT !.out = v])
         /\ Forgets(l, [l EXCEPT !.stack = v])
         /\ Forgets(l, [l EXCEPT !.lastCmp = v])
         /\ Forgets(l, [l EXCEPT !.calls = v])
         /\ Forgets(l, [l EXCEPT !.consumed = v])
         /\ Forgets(l, [l EXCEPT !.printed = v])
<1>1. Forgets(l, [l EXCEPT !.out = v])
  BY DEF Forgets, Shaped, Fields
<1>2. Forgets(l, [l EXCEPT !.stack = v])
  BY DEF Forgets, Shaped, Fields
<1>3. Forgets(l, [l EXCEPT !.lastCmp = v])
  BY DEF Forgets, Shaped, Fields
<1>4. Forgets(l, [l EXCEPT !.calls = v])
  BY DEF Forgets, Shaped, Fields
<1>5. Forgets(l, [l EXCEPT !.consumed = v])
  BY DEF Forgets, Shaped, Fields
<1>6. Forgets(l, [l EXCEPT !.printed = v])
  BY DEF Forgets, Shaped, Fields
<1> QED BY <1>1, <1>2, <1>3, <1>4, <1>5, <1>6

(* Nor has consuming calls. *)
LEMMA ConsumeForgets ==
  ASSUME NEW l, Shaped(l), NEW es
  PROVE  Forgets(l, Consume(l, es))
BY OtherFieldsForget DEF Consume

(* Overwritten registers lose theirs. *)
LEMMA ForgetForgets ==
  ASSUME NEW l, Shaped(l), NEW names
  PROVE  Forgets(l, Forget(l, names))
<1> DEFINE f == Forget(l, names)
           gone == {names[i] : i \in DOMAIN names}
<1>1. Shaped(f) /\ \A r \in Names : f.addrRegs[r] = IF r \in gone THEN NoAddr ELSE l.addrRegs[r]
  BY ForgetFields
<1> HIDE DEF f, gone
<1>2. Forgets(l, f)
  BY <1>1 DEF Forgets, Names
<1> QED BY <1>2 DEF f

(* A name has a number, and a write to it reaches the 64-bit name of that  *)
(* number.                                                                 *)
LEMMA NumberOf ==
  ASSUME NEW dst \in Names
  PROVE  dst[2] \in Numbers /\ X(dst[2]) \in Set(dst) /\ (dst[1] = "x" => dst = X(dst[2]))
<1>1. PICK n \in Numbers : dst = X(n) \/ dst = W(n)
  BY DEF Names
<1>2. CASE dst = X(n)
  <2>1. dst[2] = n /\ dst[1] = "x"
    BY <1>2 DEF X
  <2> QED BY <1>2, <2>1, SetNames
<1>3. CASE dst = W(n)
  <2>1. dst[1] = "w" /\ dst[2] = n
    BY <1>3 DEF W
  <2>2. Written(dst) = <<dst, X(n)>>
    BY <2>1 DEF Written
  <2> QED BY <2>1, <2>2 DEF Set
<1> QED BY <1>1, <1>2, <1>3

(* A register written has no known address. *)
LEMMA SetRegOverwrites ==
  ASSUME NEW l, Shaped(l), NEW dst \in Names, NEW e
  PROVE  Overwrites(l, SetReg(l, dst, e), dst[2])
<1> DEFINE m == SetReg(l, dst, e)
<1>1. Shaped(m) /\ \A q \in Names : m.addrRegs[q] = IF q \in Set(dst) THEN NoAddr ELSE l.addrRegs[q]
  BY SetRegFields
<1> HIDE DEF m
<1>2. Overwrites(l, m, dst[2])
  BY <1>1, NumberOf DEF Overwrites, Forgets, Names
<1> QED BY <1>2 DEF m

(* Nor has the result of arithmetic. *)
LEMMA ALUOverwrites ==
  ASSUME NEW l, Shaped(l), NEW dst \in Names, NEW lhs, NEW rhs
  PROVE  Overwrites(l, LiftALU(l, dst, lhs, rhs), dst[2])
<1> DEFINE c == Consume(l, {RegValue(l, lhs), OperandValue(l, rhs)})
           m == SetReg(c, dst, Binary(RegValue(l, lhs), OperandValue(l, rhs)))
<1>1. Forgets(l, c)
  BY ConsumeForgets
<1> HIDE DEF c
<1>2. Overwrites(c, m, dst[2])
  BY <1>1, SetRegOverwrites DEF Forgets
<1> HIDE DEF m
<1>3. Overwrites(l, m, dst[2])
  BY <1>1, <1>2, ForgetsTransitive DEF Overwrites
<1> QED BY <1>3 DEF LiftALU, m, c

(* Only the register written can have an address it had not. *)
LEMMA AddressAt ==
  ASSUME NEW l, Shaped(l), NEW r \in Names, NEW a
  PROVE  /\ Shaped([l EXCEPT !.addrRegs[r] = a])
         /\ \A k \in Numbers : [l EXCEPT !.addrRegs[r] = a].addrRegs[X(k)] =
                                 IF X(k) = r THEN a ELSE l.addrRegs[X(k)]
<1> DEFINE m == [l EXCEPT !.addrRegs[r] = a]
           addr == [l.addrRegs EXCEPT ![r] = a]
<1>1. m = [l EXCEPT !.addrRegs = addr]
  OBVIOUS
<1>2. addr = [q \in Names |-> addr[q]] /\ \A q \in Names : addr[q] = IF q = r THEN a ELSE l.addrRegs[q]
  BY DEF Shaped
<1> HIDE DEF addr, m
<1>3. Shaped(m) /\ m.addrRegs = addr
  BY <1>1, <1>2 DEF Shaped, Fields
<1>4. \A k \in Numbers : m.addrRegs[X(k)] = IF X(k) = r THEN a ELSE l.addrRegs[X(k)]
  BY <1>2, <1>3 DEF Names
<1> QED BY <1>3, <1>4 DEF m

(* Nor what a load brings, unless the load is indexed and not lifted. *)
LEMMA LdrForgets ==
  ASSUME NEW l, Shaped(l), NEW dst \in Names, NEW mem
  PROVE  /\ Forgets(l, LiftLdr(l, dst, mem))
         /\ ~mem.indexed => Overwrites(l, LiftLdr(l, dst, mem), dst[2])
<1>1. Forgets(l, l)
  BY DEF Forgets
<1>2. \A e : Overwrites(l, SetReg(l, dst, e), dst[2])
  BY SetRegOverwrites
<1>3. Overwrites(l, ClobberReg(l, dst), dst[2])
  <2> DEFINE m == Forget(l, Written(dst))
  <2>1. /\ Shaped(m)
        /\ \A q \in Names : m.addrRegs[q] = IF q \in Set(dst) THEN NoAddr ELSE l.addrRegs[q]
    BY ForgetFields DEF Set
  <2> HIDE DEF m
  <2>2. Overwrites(l, m, dst[2])
    BY <2>1, NumberOf DEF Overwrites, Forgets, Names
  <2> QED BY <2>2 DEF m, ClobberReg
<1> QED BY <1>1, <1>2, <1>3 DEF LiftLdr, Overwrites

(* A store learns no address. *)
LEMMA StrForgets ==
  ASSUME NEW l, Shaped(l), NEW src, NEW mem
  PROVE  Forgets(l, LiftStr(l, src, mem))
<1>1. \A es, s : Forgets(l, [Consume(l, es) EXCEPT !.out = Append(@, s)])
  <2> TAKE es, s
  <2> DEFINE c == Consume(l, es)
             o == Append(c.out, s)
  <2>1. Forgets(l, c)
    BY ConsumeForgets
  <2> HIDE DEF c, o
  <2>2. Forgets(c, [c EXCEPT !.out = o])
    BY <2>1, OtherFieldsForget DEF Forgets
  <2>3. Forgets(l, [c EXCEPT !.out = o])
    BY <2>1, <2>2, ForgetsTransitive
  <2> QED BY <2>3 DEF c, o
<1>2. \A es, s, stack :
        Forgets(l, [[Consume(l, es) EXCEPT !.out = Append(@, s)] EXCEPT !.stack = stack])
  <2> TAKE es, s, stack
  <2> DEFINE c == [Consume(l, es) EXCEPT !.out = Append(@, s)]
  <2>1. Forgets(l, c)
    BY <1>1
  <2> HIDE DEF c
  <2>2. Forgets(c, [c EXCEPT !.stack = stack])
    BY <2>1, OtherFieldsForget DEF Forgets
  <2>3. Forgets(l, [c EXCEPT !.stack = stack])
    BY <2>1, <2>2, ForgetsTransitive
  <2> QED BY <2>3 DEF c
<1>3. \A stack : Forgets(l, [l EXCEPT !.stack = stack])
  BY OtherFieldsForget
<1>4. Forgets(l, l)
  BY DEF Forgets
<1> QED BY <1>1, <1>2, <1>3, <1>4 DEF LiftStr

(* A call learns none, and x0 has none after it. *)
LEMMA FinishCallForgets ==
  ASSUME NEW l, Shaped(l), NEW parts
  PROVE  Overwrites(l, FinishCall(l, parts), 0)
<1> DEFINE call == Call(Len(l.calls) + 1, parts)
           c    == Consume(l, parts)
           g    == Forget(c, ArgNames)
           h    == [g EXCEPT !.calls = Append(@, call)]
           m    == SetReg(h, W(0), call)
<1>1. FinishCall(l, parts) = m
  BY DEF FinishCall
<1> HIDE DEF call
<1>2. Forgets(l, c)
  BY ConsumeForgets
<1> HIDE DEF c
<1>3. Forgets(c, g)
  BY <1>2, ForgetForgets DEF Forgets
<1> HIDE DEF g
<1>4. Forgets(g, h)
  BY <1>3, OtherFieldsForget DEF Forgets
<1> HIDE DEF h
<1>5. W(0) \in Names /\ W(0)[2] = 0
  BY RegisterAssumption DEF Names, W
<1>6. Overwrites(h, m, 0)
  BY <1>4, <1>5, SetRegOverwrites DEF Forgets
<1> HIDE DEF m
<1>7. Forgets(l, m)
  BY <1>2, <1>3, <1>4, <1>6, ForgetsTransitive DEF Overwrites
<1> QED BY <1>1, <1>6, <1>7 DEF Overwrites

(* Nor does printing the call. *)
LEMMA PrintCallForgets ==
  ASSUME NEW l, Shaped(l)
  PROVE  Forgets(l, PrintCall(l))
<1> DEFINE call == l.calls[Len(l.calls)]
           cons == l.consumed \cup {call.id}
           prin == l.printed \cup {call.id}
           outs == Append(l.out, ExprStmt(call))
           m    == [l EXCEPT !.consumed = cons, !.printed = prin, !.out = outs]
<1>1. PrintCall(l) = m
  BY DEF PrintCall
<1> HIDE DEF cons, prin, outs, call
<1>2. Forgets(l, m)
  BY DEF Forgets, Shaped, Fields
<1> QED BY <1>1, <1>2

(* Nor does the flush. *)
LEMMA FlushForgets ==
  ASSUME NEW l, Shaped(l)
  PROVE  Forgets(l, FlushRemaining(l))
<1> DEFINE left == InOrder(Len(l.calls), {i \in DOMAIN l.calls : l.calls[i].id \notin l.consumed})
           ids  == {l.calls[i].id : i \in DOMAIN l.calls} \ l.consumed
           cons == l.consumed \cup ids
           prin == l.printed \cup ids
           outs == l.out \o [k \in DOMAIN left |-> ExprStmt(l.calls[left[k]])]
           m    == [l EXCEPT !.consumed = cons, !.printed = prin, !.out = outs]
<1>1. FlushRemaining(l) = m
  BY DEF FlushRemaining
<1> HIDE DEF cons, prin, outs, ids, left
<1>2. Forgets(l, m)
  BY DEF Forgets, Shaped, Fields
<1> QED BY <1>1, <1>2

-----------------------------------------------------------------------------
AddressInv ==
  /\ Shaped(lifter)
  /\ held = [n \in Numbers |-> held[n]]
  /\ sure \subseteq Numbers
  /\ AddressesCurrent

(* At first no register is known to hold an address. *)
LEMMA AddressInit == StraightInit => AddressInv
<1> SUFFICES ASSUME StraightInit PROVE AddressInv
  OBVIOUS
<1>1. Shaped(lifter)
  BY CallsInit DEF StraightInit, CallsInv, Sound
<1> DEFINE regs == [r \in Names |->
                     IF r[2] < ArgCount /\ r[2] + 1 \in DOMAIN Params
                     THEN Local(<<"param", Params[r[2] + 1]>>) ELSE Nothing]
           addr == [r \in Names |-> NoAddr]
           cmp  == [lhs |-> Nothing, rhs |-> Nothing]
<1> HIDE DEF regs, addr, cmp
<1>2. lifter = [regs |-> regs, addrRegs |-> addr, stack |-> <<>>, lastCmp |-> cmp,
                calls |-> <<>>, consumed |-> {}, printed |-> {}, out |-> <<>>]
  BY DEF StraightInit, NewLifter, regs, addr, cmp
<1>3. lifter.addrRegs = addr
  BY <1>2
<1>4. \A n \in Numbers : lifter.addrRegs[X(n)] = NoAddr
  BY <1>3 DEF addr, Names
<1> QED BY <1>1, <1>4 DEF AddressInv, AddressesCurrent, StraightInit

(* An instruction that writes d: nothing else learns an address, and what  *)
(* d is taken to hold, if it is sure, it holds.                            *)
LEMMA WriteCurrent ==
  ASSUME AddressInv, NEW dst \in Names, NEW addr, NEW reads, WriteTo(dst, addr, reads),
         Shaped(lifter'),
         \A k \in Numbers \ {dst[2]} : lifter'.addrRegs[X(k)] \in {lifter.addrRegs[X(k)], NoAddr},
         reads \subseteq sure =>
           lifter'.addrRegs[X(dst[2])] \in {IF dst[1] = "x" THEN addr ELSE NotAddr, NoAddr}
  PROVE  AddressInv'
<1> DEFINE d == dst[2]
<1>1. d \in Numbers
  BY NumberOf
<1>2. /\ held' = [held EXCEPT ![d] = IF dst[1] = "x" THEN addr ELSE NotAddr]
      /\ sure' = IF reads \subseteq sure THEN sure \cup {d} ELSE sure \ {d}
  BY DEF WriteTo
<1>3. held' = [n \in Numbers |-> held'[n]] /\ sure' \subseteq Numbers
  BY <1>1, <1>2 DEF AddressInv
<1>4. ASSUME NEW n \in sure', lifter'.addrRegs[X(n)] # NoAddr
      PROVE  lifter'.addrRegs[X(n)] = held'[n]
  <2>1. CASE n = d
    BY <1>1, <1>2, <1>4, <2>1 DEF AddressInv
  <2>2. CASE n # d
    <3>1. n \in sure /\ n \in Numbers /\ held'[n] = held[n]
      BY <1>2, <1>4, <2>2 DEF AddressInv
    <3>2. lifter'.addrRegs[X(n)] = lifter.addrRegs[X(n)]
      BY <1>4, <2>2, <3>1
    <3> QED BY <1>4, <3>1, <3>2 DEF AddressInv, AddressesCurrent
  <2> QED BY <2>1, <2>2
<1> QED BY <1>3, <1>4 DEF AddressInv, AddressesCurrent

(* An instruction that writes no register keeps the addresses current. *)
LEMMA ForgetCurrent ==
  ASSUME AddressInv, Forgets(lifter, lifter'), UNCHANGED <<held, sure>>
  PROVE  AddressInv'
BY DEF AddressInv, AddressesCurrent, Forgets

(* A callee overwrites the scratch registers, among which are all argument *)
(* registers: none of them is sure afterwards but x0.                      *)
LEMMA CalledCurrent ==
  ASSUME AddressInv, Overwrites(lifter, lifter', 0), Called
  PROVE  AddressInv'
<1>1. 0 \in Numbers /\ Scratch \subseteq Numbers
  BY RegisterAssumption, PathAssumption
<1>2. ASSUME NEW n \in sure', lifter'.addrRegs[X(n)] # NoAddr
      PROVE  lifter'.addrRegs[X(n)] = held'[n]
  <2>1. n # 0
    BY <1>2 DEF Overwrites
  <2>2. n \in sure \ Scratch /\ n \in Numbers
    BY <1>2, <2>1 DEF Called, AddressInv
  <2>3. held'[n] = held[n]
    BY <2>2 DEF Called
  <2> QED BY <1>2, <2>2, <2>3 DEF AddressInv, AddressesCurrent, Overwrites, Forgets
<1> QED BY <1>1, <1>2 DEF AddressInv, AddressesCurrent, Called, Overwrites, Forgets

(* The statements dropped have nothing to do with it either. *)
LEMMA ClearedForgets ==
  ASSUME AddressInv
  PROVE  Shaped(Cleared) /\ \A m : Forgets(Cleared, m) => Forgets(lifter, m)
BY ClearedSame DEF AddressInv, Forgets

(* A register written without a known address. *)
LEMMA OverwriteCurrent ==
  ASSUME AddressInv, NEW dst \in Names, NEW addr, NEW reads, WriteTo(dst, addr, reads),
         Overwrites(Cleared, lifter', dst[2])
  PROVE  AddressInv'
<1>1. Overwrites(lifter, lifter', dst[2])
  BY ClearedForgets DEF Overwrites
<1> QED BY <1>1, WriteCurrent DEF Overwrites, Forgets

(* A known address moves on by what is added to it, in the lifter and in   *)
(* the processor.                                                          *)
LEMMA AddCurrent ==
  ASSUME AddressInv, NEW dst \in Names, NEW lhs \in Like(dst), NEW rhs \in Operands(dst),
         lifter' = LiftAdd(Cleared, dst, lhs, rhs),
         WriteTo(dst,
           IF rhs.type = "imm" /\ lhs[1] = "x" /\ held[lhs[2]] # NotAddr
           THEN (held[lhs[2]] + rhs.imm) % AddrSpace ELSE NotAddr,
           {lhs[2]} \cup ReadBy(rhs))
  PROVE  AddressInv'
<1> DEFINE l == Cleared
           sum == LiftALU(l, dst, lhs, rhs)
           a   == (l.addrRegs[lhs] + rhs.imm) % AddrSpace
           addr == IF rhs.type = "imm" /\ lhs[1] = "x" /\ held[lhs[2]] # NotAddr
                   THEN (held[lhs[2]] + rhs.imm) % AddrSpace ELSE NotAddr
           reads == {lhs[2]} \cup ReadBy(rhs)
<1>1. Shaped(Cleared) /\ Cleared.addrRegs = lifter.addrRegs
  BY ClearedSame DEF AddressInv
<1>2. Overwrites(Cleared, sum, dst[2])
  BY <1>1, ALUOverwrites
<1>3. lhs \in Names /\ lhs[1] = dst[1]
  BY DEF Like
<1>4. CASE lifter' = sum
  BY <1>2, <1>4, OverwriteCurrent
<1>5. CASE /\ lifter' = [sum EXCEPT !.addrRegs[dst] = a]
           /\ rhs.type = "imm" /\ l.addrRegs[lhs] # NoAddr
  <2> HIDE DEF sum, a, addr, l
  <2>1. Shaped(sum)
    BY <1>2 DEF Overwrites, Forgets
  <2>2. /\ Shaped(lifter')
        /\ \A k \in Numbers : lifter'.addrRegs[X(k)] = IF X(k) = dst THEN a ELSE sum.addrRegs[X(k)]
    <3> DEFINE m == [sum EXCEPT !.addrRegs[dst] = a]
    <3>1. /\ Shaped(m)
          /\ \A k \in Numbers : m.addrRegs[X(k)] = IF X(k) = dst THEN a ELSE sum.addrRegs[X(k)]
      BY <2>1, AddressAt
    <3>2. lifter' = m
      BY <1>5
    <3> HIDE DEF m
    <3> QED BY <3>1, <3>2
  <2>3. \A k \in Numbers \ {dst[2]} : X(k) # dst
    BY NumberOf DEF X
  <2>4. \A k \in Numbers \ {dst[2]} : lifter'.addrRegs[X(k)] \in {lifter.addrRegs[X(k)], NoAddr}
    BY <1>1, <1>2, <2>2, <2>3 DEF Overwrites, Forgets
  <2>5. ASSUME reads \subseteq sure
        PROVE  lifter'.addrRegs[X(dst[2])] \in {IF dst[1] = "x" THEN addr ELSE NotAddr, NoAddr}
    <3>1. CASE X(dst[2]) # dst
      BY <1>2, <2>2, <3>1, NumberOf DEF Overwrites
    <3>2. CASE X(dst[2]) = dst
      <4>1. dst[1] = "x"
        BY <3>2 DEF X
      <4>2. lhs[1] = "x" /\ lhs = X(lhs[2]) /\ lhs[2] \in sure
        BY <1>3, <2>5, <4>1, NumberOf
      <4>3. l.addrRegs[lhs] = held[lhs[2]] /\ held[lhs[2]] # NotAddr
        BY <1>1, <1>5, <4>2 DEF AddressInv, AddressesCurrent, NoAddr, NotAddr, l
      <4>4. addr = a
        BY <1>5, <4>2, <4>3 DEF addr, a
      <4>5. lifter'.addrRegs[X(dst[2])] = a
        BY <2>2, <3>2, NumberOf
      <4> QED BY <4>1, <4>4, <4>5
    <3> QED BY <3>1, <3>2
  <2>6. WriteTo(dst, addr, reads)
    BY DEF addr
  <2> HIDE DEF reads
  <2> QED BY <2>2, <2>4, <2>5, <2>6, WriteCurrent
<1>6. lifter' = IF rhs.type = "imm" /\ lhs \in Names /\ l.addrRegs[lhs] # NoAddr
                THEN [sum EXCEPT !.addrRegs[dst] = a] ELSE sum
  BY DEF LiftAdd
<1> QED BY <1>4, <1>5, <1>6

(* adrp and adr: the address written is the one known. *)
LEMMA AddrCurrent ==
  ASSUME AddressInv, NEW n \in Numbers, NEW a,
         lifter' = LiftAddr(Cleared, X(n), a), WriteTo(X(n), a, {})
  PROVE  AddressInv'
<1> DEFINE l == SetReg(Cleared, X(n), IntLit)
<1>1. X(n) \in Names /\ X(n)[1] = "x" /\ X(n)[2] = n
  BY DEF Names, X
<1>2. Shaped(Cleared) /\ Cleared.addrRegs = lifter.addrRegs
  BY ClearedSame DEF AddressInv
<1>3. Overwrites(Cleared, l, n)
  BY <1>1, <1>2, SetRegOverwrites
<1>4. lifter' = [l EXCEPT !.addrRegs[X(n)] = a]
  BY DEF LiftAddr
<1> HIDE DEF l
<1>5. /\ Shaped(lifter')
      /\ \A k \in Numbers : lifter'.addrRegs[X(k)] = IF X(k) = X(n) THEN a ELSE l.addrRegs[X(k)]
  BY <1>1, <1>3, <1>4, AddressAt DEF Overwrites, Forgets
<1>6. \A k \in Numbers \ {n} : X(k) # X(n)
  BY DEF X
<1>7. \A k \in Numbers \ {n} : lifter'.addrRegs[X(k)] \in {lifter.addrRegs[X(k)], NoAddr}
  BY <1>2, <1>3, <1>5, <1>6 DEF Overwrites, Forgets
<1>8. lifter'.addrRegs[X(n)] = a
  BY <1>5
<1> QED BY <1>1, <1>5, <1>7, <1>8, WriteCurrent

(* The end of a path learns no address. *)
LEMMA EndForgets ==
  ASSUME AddressInv, NEW l, Forgets(Cleared, l), End(l), UNCHANGED <<held, sure>>
  PROVE  AddressInv'
<1>1. Forgets(lifter, l)
  BY ClearedForgets
<1>2. Forgets(l, lifter')
  BY <1>1, FlushForgets DEF Forgets, End, Take
<1>3. Forgets(lifter, lifter')
  BY <1>1, <1>2, ForgetsTransitive
<1> QED BY <1>3, ForgetCurrent

(* Every instruction keeps the addresses current. *)
LEMMA AddressNext ==
  ASSUME AddressInv, [StraightNext]_straight
  PROVE  AddressInv'
<1>a. Shaped(Cleared) /\ \A m : Forgets(Cleared, m) => Forgets(lifter, m)
  BY ClearedForgets
<1>1. CASE Mov
  <2>1. PICK dst, src, addr, reads :
          dst \in Names /\ lifter' = LiftMov(Cleared, dst, src) /\ WriteTo(dst, addr, reads)
    BY <1>1 DEF Mov, Lift, Take
  <2>2. PICK e : LiftMov(Cleared, dst, src) = SetReg(Cleared, dst, e)
    BY DEF LiftMov
  <2> QED BY <1>a, <2>1, <2>2, SetRegOverwrites, OverwriteCurrent
<1>2. CASE Addr
  BY <1>2, AddrCurrent DEF Addr, Lift, Take
<1>3. CASE Add
  BY <1>3, AddCurrent DEF Add, Lift, Take
<1>4. CASE ALU
  <2>1. PICK dst, lhs, rhs, addr, reads :
          dst \in Names /\ lifter' = LiftALU(Cleared, dst, lhs, rhs) /\ WriteTo(dst, addr, reads)
    BY <1>4 DEF ALU, Lift, Take
  <2> QED BY <1>a, <2>1, ALUOverwrites, OverwriteCurrent
<1>5. CASE Cmp
  <2>1. PICK lhs, rhs : lifter' = LiftCmp(Cleared, lhs, rhs) /\ UNCHANGED <<held, sure>>
    BY <1>5 DEF Cmp, Lift, Take
  <2> DEFINE c   == Consume(Cleared, {RegValue(Cleared, lhs), OperandValue(Cleared, rhs)})
             cmp == [lhs |-> RegValue(Cleared, lhs), rhs |-> OperandValue(Cleared, rhs)]
  <2>2. lifter' = [c EXCEPT !.lastCmp = cmp]
    BY <2>1 DEF LiftCmp
  <2>3. Forgets(Cleared, c)
    BY <1>a, ConsumeForgets
  <2> HIDE DEF c, cmp
  <2>4. Forgets(Cleared, lifter')
    <3>1. Forgets(c, [c EXCEPT !.lastCmp = cmp])
      BY <2>3, OtherFieldsForget DEF Forgets
    <3> QED BY <2>2, <2>3, <3>1, ForgetsTransitive
  <2> QED BY <1>a, <2>1, <2>4, ForgetCurrent
<1>6. CASE Cset
  <2>1. PICK dst, addr, reads :
          dst \in Names /\ lifter' = LiftCset(Cleared, dst) /\ WriteTo(dst, addr, reads)
    BY <1>6 DEF Cset, Lift, Take
  <2>2. PICK e : LiftCset(Cleared, dst) = SetReg(Cleared, dst, e)
    BY DEF LiftCset
  <2> QED BY <1>a, <2>1, <2>2, SetRegOverwrites, OverwriteCurrent
<1>7. CASE Str
  <2>1. PICK src, mem : lifter' = LiftStr(Cleared, src, mem) /\ UNCHANGED <<held, sure>>
    BY <1>7 DEF Str, Lift, Take
  <2> QED BY <1>a, <2>1, StrForgets, ForgetCurrent
<1>8. CASE Ldr
  <2>1. PICK dst \in Names, mem \in MemOperands :
          /\ lifter' = LiftLdr(Cleared, dst, mem)
          /\ held' = [held EXCEPT ![dst[2]] = NotAddr]
          /\ sure' = IF mem.indexed THEN sure \ {dst[2]} ELSE sure \cup {dst[2]}
    BY <1>8 DEF Ldr, Lift, Take
  <2>2. Forgets(lifter, lifter')
    BY <1>a, <2>1, LdrForgets
  <2>3. CASE mem.indexed
    <3>1. held' = [n \in Numbers |-> held'[n]] /\ sure' \subseteq Numbers
      BY <2>1, <2>3 DEF AddressInv
    <3>2. \A n \in sure' : n \in sure /\ n \in Numbers /\ held'[n] = held[n]
      BY <2>1, <2>3 DEF AddressInv
    <3> QED BY <2>2, <3>1, <3>2 DEF AddressInv, AddressesCurrent, Forgets
  <2>4. CASE ~mem.indexed
    <3>1. Overwrites(Cleared, lifter', dst[2])
      BY <1>a, <2>1, <2>4, LdrForgets
    <3>2. WriteTo(dst, NotAddr, {})
      BY <2>1, <2>4 DEF WriteTo
    <3> QED BY <3>1, <3>2, OverwriteCurrent
  <2> QED BY <2>3, <2>4
<1>9. CASE Other
  <2>1. PICK n \in Numbers : /\ lifter' = Cleared
                             /\ held' = [held EXCEPT ![n] = NotAddr]
                             /\ sure' = sure \ {n}
    BY <1>9 DEF Other, Lift, Take
  <2>2. Forgets(lifter, lifter')
    BY <1>a, <2>1 DEF Forgets
  <2>3. held' = [k \in Numbers |-> held'[k]] /\ sure' \subseteq Numbers
    BY <2>1 DEF AddressInv
  <2>4. \A k \in sure' : k \in sure /\ k \in Numbers /\ held'[k] = held[k]
    BY <2>1 DEF AddressInv
  <2> QED BY <2>2, <2>3, <2>4 DEF AddressInv, AddressesCurrent, Forgets
<1>10. CASE Bl \/ Blr
  <2>1. PICK parts : lifter' = FinishCall(Cleared, parts) /\ Called
    BY <1>10 DEF Bl, Blr, Lift, Take, LiftCall, LiftBlr
  <2>2. Overwrites(Cleared, lifter', 0)
    BY <1>a, <2>1, FinishCallForgets
  <2>3. Overwrites(lifter, lifter', 0)
    BY <1>a, <2>2 DEF Overwrites
  <2> QED BY <2>1, <2>3, CalledCurrent
<1>11. CASE Ret
  <2>1. PICK es, s : LiftRet(Cleared) = [Consume(Cleared, es) EXCEPT !.out = Append(@, s)]
    BY DEF LiftRet
  <2> DEFINE c == Consume(Cleared, es)
             o == Append(c.out, s)
  <2>2. Forgets(Cleared, c)
    BY <1>a, ConsumeForgets
  <2>3. LiftRet(Cleared) = [c EXCEPT !.out = o]
    BY <2>1
  <2> HIDE DEF c, o
  <2>4. Forgets(Cleared, LiftRet(Cleared))
    <3>1. Forgets(c, [c EXCEPT !.out = o])
      BY <2>2, OtherFieldsForget DEF Forgets
    <3> QED BY <2>2, <2>3, <3>1, ForgetsTransitive
  <2>5. End(LiftRet(Cleared)) /\ UNCHANGED <<held, sure>>
    BY <1>11 DEF Ret
  <2> QED BY <2>4, <2>5, EndForgets
<1>12. CASE TailCall \/ Br
  <2>1. PICK l, parts : /\ l \in {Cleared, PrintCall(FinishCall(Cleared, parts))}
                        /\ End(l) /\ UNCHANGED <<held, sure>>
    <3>1. CASE TailCall
      <4>1. PICK target : End(LiftTailCall(Cleared, target)) /\ UNCHANGED <<held, sure>>
        BY <3>1 DEF TailCall
      <4>2. LiftTailCall(Cleared, target) \in
              {Cleared, PrintCall(FinishCall(Cleared, ArgsOf(Cleared, target)))}
        BY DEF LiftTailCall, LiftCall
      <4> QED BY <4>1, <4>2
    <3>2. CASE Br
      <4>1. PICK r : End(LiftBr(Cleared, r)) /\ UNCHANGED <<held, sure>>
        BY <3>2 DEF Br
      <4> DEFINE parts == {RegValue(Cleared, r)} \cup CallArgs(Cleared, ArgCount)
      <4>2. LiftBr(Cleared, r) = PrintCall(FinishCall(Cleared, parts))
        BY DEF LiftBr, LiftBlr
      <4> QED BY <4>1, <4>2
    <3> QED BY <1>12, <3>1, <3>2
  <2>2. Forgets(Cleared, Cleared)
    BY <1>a DEF Forgets
  <2>3. Forgets(Cleared, PrintCall(FinishCall(Cleared, parts)))
    <3> DEFINE f == FinishCall(Cleared, parts)
    <3>1. Forgets(Cleared, f)
      BY <1>a, FinishCallForgets DEF Overwrites
    <3> HIDE DEF f
    <3>2. Forgets(f, PrintCall(f))
      BY <3>1, PrintCallForgets DEF Forgets
    <3>3. Forgets(Cleared, PrintCall(f))
      BY <3>1, <3>2, ForgetsTransitive
    <3> QED BY <3>3 DEF f
  <2> QED BY <2>1, <2>2, <2>3, EndForgets
<1>13. CASE UNCHANGED straight
  BY <1>13 DEF straight, AddressInv, AddressesCurrent
<1> QED BY <1>1, <1>2, <1>3, <1>4, <1>5, <1>6, <1>7, <1>8, <1>9, <1>10, <1>11, <1>12, <1>13 DEF StraightNext

(* The address the lifter takes a sure register to hold (addrRegs in       *)
(* internal/arm64lift/lift.go) is the one the processor computed into it,  *)
(* whatever calls, 32-bit writes, loads and arithmetic ran in between.     *)
THEOREM AddressesCurrentHolds == StraightSpec => []AddressesCurrent
<1>1. AddressInv => AddressesCurrent
  BY DEF AddressInv
<1> QED BY <1>1, AddressInit, AddressNext, PTL DEF StraightSpec

-----------------------------------------------------------------------------
(* The types. *)

(* How InOrder gets there. *)
Counts(f, n, S) ==
  f = [k \in 0 .. n |->
         IF k = 0 THEN <<>>
         ELSE IF k \in S THEN Append(f[k - 1], k) ELSE f[k - 1]]

(* Such a function exists for every n. *)
LEMMA CountExists ==
  ASSUME NEW S, NEW n \in Nat
  PROVE  \E f : Counts(f, n, S)
<1> DEFINE T == {m \in Nat : \E f : Counts(f, m, S)}
<1>1. 0 \in T
  <2> DEFINE f == [k \in 0 .. 0 |-> <<>>]
  <2>1. Counts(f, 0, S)
    BY DEF Counts
  <2> QED BY <2>1
<1>2. ASSUME NEW m \in Nat, m \in T PROVE m + 1 \in T
  <2>1. PICK f : Counts(f, m, S)
    BY <1>2
  <2> DEFINE g == [k \in 0 .. (m + 1) |->
                     IF k = m + 1 THEN IF k \in S THEN Append(f[m], k) ELSE f[m] ELSE f[k]]
  <2>2. ASSUME NEW k \in 0 .. (m + 1)
        PROVE  g[k] = IF k = 0 THEN <<>>
                      ELSE IF k \in S THEN Append(g[k - 1], k) ELSE g[k - 1]
    <3>1. CASE k = m + 1
      <4>1. k # 0 /\ k - 1 = m /\ m \in 0 .. (m + 1) /\ m # m + 1
        BY <3>1
      <4>2. g[m] = f[m]
        BY <4>1
      <4> QED BY <3>1, <4>1, <4>2
    <3>2. CASE k # m + 1
      <4>1. k \in 0 .. m /\ (k # 0 => k - 1 \in 0 .. m /\ k - 1 \in 0 .. (m + 1) /\ k - 1 # m + 1)
        BY <3>2
      <4>2. f[k] = IF k = 0 THEN <<>>
                   ELSE IF k \in S THEN Append(f[k - 1], k) ELSE f[k - 1]
        BY <2>1, <4>1 DEF Counts
      <4>3. g[k] = f[k] /\ (k # 0 => g[k - 1] = f[k - 1])
        BY <3>2, <4>1
      <4> QED BY <4>2, <4>3
    <3> QED BY <3>1, <3>2
  <2>3. g = [k \in 0 .. (m + 1) |-> g[k]]
    OBVIOUS
  <2> HIDE DEF g
  <2>4. Counts(g, m + 1, S)
    BY <2>2, <2>3, Zenon DEF Counts
  <2> QED BY <2>4
<1> HIDE DEF T
<1>3. Nat \subseteq T
  BY <1>1, <1>2, EveryNumber
<1> QED BY <1>3 DEF T

(* InOrder picks numbers of S. *)
LEMMA InOrderParts ==
  ASSUME NEW S, NEW n \in Nat
  PROVE  InOrder(n, S) \in Seq(S \cap (1 .. n))
<1> DEFINE f == CHOOSE c : Counts(c, n, S)
           P == S \cap (1 .. n)
           T == {k \in Nat : k <= n => f[k] \in Seq(P)}
<1>1. Counts(f, n, S)
  BY CountExists
<1>2. InOrder(n, S) = f[n]
  BY DEF InOrder, Counts
<1> HIDE DEF f
<1>3. \A k \in 0 .. n : f[k] = IF k = 0 THEN <<>>
                               ELSE IF k \in S THEN Append(f[k - 1], k) ELSE f[k - 1]
  BY <1>1, Zenon DEF Counts
<1> HIDE DEF P
<1>4. 0 \in T
  <2>1. 0 \in 0 .. n
    OBVIOUS
  <2>2. f[0] = <<>>
    BY <1>3, <2>1
  <2>3. f[0] \in Seq(P)
    BY <2>2
  <2> QED BY <2>3
<1>5. ASSUME NEW k \in Nat, k \in T PROVE k + 1 \in T
  <2>1. SUFFICES ASSUME k + 1 <= n PROVE f[k + 1] \in Seq(P)
    OBVIOUS
  <2>2. k + 1 \in 0 .. n /\ k + 1 # 0 /\ (k + 1) - 1 = k /\ k <= n
    BY <2>1
  <2>3. f[k + 1] = IF k + 1 \in S THEN Append(f[k], k + 1) ELSE f[k]
    BY <1>3, <2>2
  <2>4. f[k] \in Seq(P)
    BY <1>5, <2>2
  <2>5. k + 1 \in S => k + 1 \in P
    BY <2>2 DEF P
  <2> QED BY <2>3, <2>4, <2>5
<1> HIDE DEF T
<1>6. n \in T
  BY <1>4, <1>5, EveryNumber
<1>7. f[n] \in Seq(P)
  BY <1>6 DEF T
<1> QED BY <1>2, <1>7 DEF P

-----------------------------------------------------------------------------
(* The statements of a step are typed, and the calls among them printed. *)
Told(l) ==
  /\ \E S : l.out \in Seq(S)
  /\ \A k \in DOMAIN l.out :
       /\ l.out[k].kind = "expr" => l.out[k].value.id \in l.printed
       /\ l.out[k].target.calls \cup l.out[k].value.calls \subseteq 1 .. Len(l.calls)

Typed(l) ==
  /\ Shaped(l)
  /\ l.calls \in Seq(CallExprs)
  /\ \A i \in DOMAIN l.calls : l.calls[i].id = i /\ IsExpr(l.calls[i], Len(l.calls))
  /\ \A r \in Names : IsExpr(l.regs[r], Len(l.calls))
  /\ \A r \in Names : l.addrRegs[r] \in Addresses \cup {NoAddr}
  /\ IsExpr(l.lastCmp.lhs, Len(l.calls)) /\ IsExpr(l.lastCmp.rhs, Len(l.calls))
  /\ l.printed \subseteq l.consumed /\ l.consumed \subseteq 1 .. Len(l.calls)
  /\ Told(l)

(* What an instruction makes of the lifter. *)
Becomes(l, m) == Typed(m) /\ Len(l.calls) <= Len(m.calls)

(* More calls may be made. *)
LEMMA ExprGrows ==
  ASSUME NEW n \in Nat, NEW m \in Nat, n <= m, NEW e, IsExpr(e, n)
  PROVE  IsExpr(e, m)
BY DEF IsExpr

(* Values without a call of their own. *)
LEMMA PlainTyped ==
  ASSUME NEW n \in Nat
  PROVE  /\ IsExpr(Nothing, n) /\ IsExpr(IntLit, n)
         /\ \A nm : IsExpr(Local(nm), n) /\ IsExpr(Expr("string", nm, {}, {}), n)
         /\ \A a, b : IsExpr(a, n) /\ IsExpr(b, n) => IsExpr(Binary(a, b), n)
         /\ \A e : IsExpr(e, n) => IsExpr(FieldAccess(e), n) /\ IsExpr(Stored(e), n)
<1>1. \A k \in Kinds \ {"call"} : \A nm : \A c, o \in SUBSET (1 .. n) : IsExpr(Expr(k, nm, c, o), n)
  BY DEF IsExpr, Expr, IsCall, Kinds
<1>2. IsExpr(Nothing, n) /\ IsExpr(IntLit, n)
  BY <1>1 DEF Nothing, IntLit, Kinds
<1>3. \A nm : IsExpr(Local(nm), n) /\ IsExpr(Expr("string", nm, {}, {}), n)
  BY <1>1 DEF Local, Kinds
<1>4. ASSUME NEW a, NEW b, IsExpr(a, n), IsExpr(b, n) PROVE IsExpr(Binary(a, b), n)
  <2>1. a.calls \cup b.calls \in SUBSET (1 .. n) /\ a.loose \cup b.loose \in SUBSET (1 .. n)
    BY <1>4 DEF IsExpr
  <2>2. "binary" \in Kinds \ {"call"}
    BY DEF Kinds
  <2> QED BY <1>1, <2>1, <2>2, Zenon DEF Binary
<1>5. ASSUME NEW e, IsExpr(e, n) PROVE IsExpr(FieldAccess(e), n) /\ IsExpr(Stored(e), n)
  <2> DEFINE own == IF IsCall(e) THEN {e.id} ELSE {}
  <2>1. /\ e.calls \ own \in SUBSET (1 .. n) /\ e.loose \cup own \in SUBSET (1 .. n)
        /\ e.calls \in SUBSET (1 .. n) /\ e.loose \in SUBSET (1 .. n)
    BY <1>5 DEF IsExpr
  <2>2. "field" \in Kinds \ {"call"}
    BY DEF Kinds
  <2>3. FieldAccess(e) = Expr("field", <<>>, e.calls \ own, e.loose \cup own)
    BY DEF FieldAccess
  <2> HIDE DEF own
  <2>4. IsExpr(FieldAccess(e), n)
    BY <1>1, <2>1, <2>2, <2>3, Zenon
  <2>5. IsExpr(Stored(e), n)
    BY <1>1, <2>1, <2>2, Zenon DEF Stored
  <2> QED BY <2>4, <2>5
<1> QED BY <1>2, <1>3, <1>4, <1>5

(* A register read. *)
LEMMA ReadTyped ==
  ASSUME NEW l, Typed(l)
  PROVE  /\ \A r : IsExpr(RegValue(l, r), Len(l.calls))
         /\ \A op : IsExpr(OperandValue(l, op), Len(l.calls))
<1>1. Len(l.calls) \in Nat
  BY DEF Typed
<1>2. \A r : IsExpr(RegValue(l, r), Len(l.calls))
  BY <1>1, PlainTyped DEF RegValue, Typed
<1> QED BY <1>1, <1>2, PlainTyped DEF OperandValue

(* Consuming calls. *)
LEMMA ConsumeTyped ==
  ASSUME NEW l, Typed(l), NEW es, \A e \in es : IsExpr(e, Len(l.calls))
  PROVE  LET m == Consume(l, es)
         IN  /\ Typed(m) /\ m.calls = l.calls /\ m.out = l.out /\ m.lastCmp = l.lastCmp
             /\ m.regs = l.regs /\ m.addrRegs = l.addrRegs /\ m.printed = l.printed
             /\ m.stack = l.stack
<1> DEFINE c == l.consumed \cup Ids(es)
           m == [l EXCEPT !.consumed = c]
<1>1. Consume(l, es) = m
  BY DEF Consume, Ids
<1>2. Ids(es) \subseteq 1 .. Len(l.calls)
  BY DEF Ids, IsExpr
<1>3. c \subseteq 1 .. Len(l.calls) /\ l.printed \subseteq c
  BY <1>2 DEF Typed
<1> HIDE DEF c
<1>0. m = [l EXCEPT !.consumed = c]
  OBVIOUS
<1> HIDE DEF m
<1>4. /\ Shaped(m) /\ m.consumed = c /\ m.out = l.out
      /\ m.regs = l.regs /\ m.addrRegs = l.addrRegs /\ m.stack = l.stack
      /\ m.lastCmp = l.lastCmp /\ m.calls = l.calls /\ m.printed = l.printed
  BY <1>0 DEF Typed, Shaped, Fields
<1>5. Typed(m)
  BY <1>3, <1>4 DEF Typed, Told
<1> QED BY <1>1, <1>4, <1>5 DEF m, c

(* Statements added. *)
LEMMA ToldMore ==
  ASSUME NEW l, NEW m, Told(l), NEW R, NEW more \in Seq(R),
         m.out = l.out \o more, m.calls = l.calls, l.printed \subseteq m.printed,
         \A k \in DOMAIN more :
           /\ more[k].kind = "expr" => more[k].value.id \in m.printed
           /\ more[k].target.calls \cup more[k].value.calls \subseteq 1 .. Len(l.calls)
  PROVE  Told(m)
<1>1. PICK S : l.out \in Seq(S)
  BY DEF Told
<1>2. l.out \in Seq(S \cup R) /\ more \in Seq(S \cup R)
  BY <1>1
<1>3. m.out \in Seq(S \cup R)
  BY <1>2
<1>4. ASSUME NEW k \in DOMAIN m.out
      PROVE  \/ k \in DOMAIN l.out /\ m.out[k] = l.out[k]
             \/ \E i \in DOMAIN more : m.out[k] = more[i]
  <2>1. Len(l.out) \in Nat /\ Len(more) \in Nat /\ Len(m.out) = Len(l.out) + Len(more)
        /\ k \in 1 .. Len(l.out) + Len(more)
    BY <1>2
  <2>2. CASE k <= Len(l.out)
    BY <1>2, <2>1, <2>2
  <2>3. CASE k > Len(l.out)
    <3>1. k - Len(l.out) \in 1 .. Len(more)
      BY <2>1, <2>3
    <3>2. m.out[k] = more[k - Len(l.out)]
      BY <1>2, <2>1, <2>3
    <3> QED BY <3>1, <3>2, <1>2
  <2> QED BY <2>1, <2>2, <2>3
<1>5. ASSUME NEW k \in DOMAIN m.out
      PROVE  /\ m.out[k].kind = "expr" => m.out[k].value.id \in m.printed
             /\ m.out[k].target.calls \cup m.out[k].value.calls \subseteq 1 .. Len(m.calls)
  <2>1. CASE k \in DOMAIN l.out /\ m.out[k] = l.out[k]
    BY <2>1 DEF Told
  <2>2. CASE \E i \in DOMAIN more : m.out[k] = more[i]
    BY <2>2
  <2> QED BY <1>4, <2>1, <2>2
<1> QED BY <1>3, <1>5 DEF Told

(* One statement that is no call of its own. *)
LEMMA SayTyped ==
  ASSUME NEW l, Typed(l), NEW s, s.kind # "expr",
         s.target.calls \cup s.value.calls \subseteq 1 .. Len(l.calls)
  PROVE  LET m == [l EXCEPT !.out = Append(@, s)] IN Typed(m) /\ m.calls = l.calls
<1> DEFINE o == Append(l.out, s)
           m == [l EXCEPT !.out = o]
<1>1. o = l.out \o <<s>>
  BY DEF Typed, Told
<1> HIDE DEF o
<1>0. m = [l EXCEPT !.out = o]
  OBVIOUS
<1> HIDE DEF m
<1>2. /\ Shaped(m) /\ m.out = o
      /\ m.regs = l.regs /\ m.addrRegs = l.addrRegs
      /\ m.lastCmp = l.lastCmp /\ m.calls = l.calls
      /\ m.consumed = l.consumed /\ m.printed = l.printed
  BY <1>0 DEF Typed, Shaped, Fields
<1> DEFINE more == <<s>>
           R    == {s}
<1>3. more \in Seq(R) /\ \A k \in DOMAIN more : more[k] = s
  OBVIOUS
<1> HIDE DEF more, R
<1>4. Told(m)
  <2>1. Told(l) /\ m.out = l.out \o more
    BY <1>1, <1>2 DEF Typed, more
  <2> QED BY <1>2, <1>3, <2>1, ToldMore
<1>5. Typed(m)
  BY <1>2, <1>4 DEF Typed
<1> QED BY <1>2, <1>5 DEF m, o

(* The stack slots have no type to keep. *)
LEMMA StackTyped ==
  ASSUME NEW l, Typed(l), NEW v
  PROVE  LET m == [l EXCEPT !.stack = v] IN Typed(m) /\ m.calls = l.calls
<1> DEFINE m == [l EXCEPT !.stack = v]
<1>0. m = [l EXCEPT !.stack = v]
  OBVIOUS
<1> HIDE DEF m
<1>1. /\ Shaped(m) /\ m.out = l.out
      /\ m.regs = l.regs /\ m.addrRegs = l.addrRegs
      /\ m.lastCmp = l.lastCmp /\ m.calls = l.calls
      /\ m.consumed = l.consumed /\ m.printed = l.printed
  BY <1>0 DEF Typed, Shaped, Fields
<1>2. Typed(m)
  BY <1>1 DEF Typed, Told
<1> QED BY <1>1, <1>2 DEF m

-----------------------------------------------------------------------------
(* Registers forgotten: what becomes a statement is marked as printed. *)
LEMMA ForgetTyped ==
  ASSUME NEW l, Typed(l), NEW names \in Seq(Names)
  PROVE  Typed(Forget(l, names)) /\ Forget(l, names).calls = l.calls
<1> DEFINE gone == {names[i] : i \in DOMAIN names}
           sel  == {i \in DOMAIN names :
                     /\ Orphan(l, names[i], gone)
                     /\ \A j \in DOMAIN names : j > i => l.regs[names[j]] # l.regs[names[i]]}
           last == InOrder(Len(names), sel)
           more == [k \in DOMAIN last |-> ExprStmt(l.regs[names[last[k]]])]
           f    == Forget(l, names)
<1>1. /\ Shaped(f)
      /\ \A r \in Names : f.regs[r] = IF r \in gone THEN Nothing ELSE l.regs[r]
      /\ \A r \in Names : f.addrRegs[r] = IF r \in gone THEN NoAddr ELSE l.addrRegs[r]
      /\ f.consumed = l.consumed \cup Lost(l, gone)
      /\ f.printed = l.printed \cup Lost(l, gone)
      /\ f.calls = l.calls /\ f.lastCmp = l.lastCmp
  BY ForgetFields DEF Typed
<1>2. f.out = l.out \o more
  <2> DEFINE regs == [r \in Names |-> IF r \in gone THEN Nothing ELSE l.regs[r]]
             addr == [r \in Names |-> IF r \in gone THEN NoAddr ELSE l.addrRegs[r]]
             cons == l.consumed \cup Lost(l, gone)
             prin == l.printed \cup Lost(l, gone)
             outs == l.out \o more
  <2>1. f = [l EXCEPT !.regs = regs, !.addrRegs = addr, !.consumed = cons,
                      !.printed = prin, !.out = outs]
    BY DEF Forget, Lost
  <2> HIDE DEF f, regs, addr, cons, prin, outs
  <2>2. f.out = outs
    BY <2>1 DEF Typed, Shaped, Fields
  <2> QED BY <2>2 DEF outs
<1>3. last \in Seq(sel)
  <2>1. Len(names) \in Nat /\ DOMAIN names = 1 .. Len(names)
    OBVIOUS
  <2>2. sel \cap (1 .. Len(names)) = sel
    BY <2>1
  <2> HIDE DEF sel
  <2> QED BY <2>1, <2>2, InOrderParts
<1>4. gone \subseteq Names
  OBVIOUS
<1>5. Lost(l, gone) \subseteq 1 .. Len(l.calls)
  <2> HIDE DEF gone
  <2> QED BY <1>4 DEF Lost, Orphan, Typed, IsExpr
<1>6. \A i \in sel : names[i] \in gone /\ Orphan(l, names[i], gone)
  OBVIOUS
<1> HIDE DEF sel, last, f, gone
<1>7. ASSUME NEW k \in DOMAIN more
      PROVE  /\ more[k].value.id \in Lost(l, gone)
             /\ more[k].target.calls \cup more[k].value.calls \subseteq 1 .. Len(l.calls)
  <2> DEFINE r == names[last[k]]
  <2>1. last[k] \in sel
    BY <1>3
  <2>2. r \in gone /\ Orphan(l, r, gone)
    BY <1>6, <2>1
  <2>3. more[k] = ExprStmt(l.regs[r])
    OBVIOUS
  <2> HIDE DEF r, more
  <2>4. IsExpr(l.regs[r], Len(l.calls))
    BY <1>4, <2>2 DEF Typed
  <2>5. more[k].value = l.regs[r] /\ more[k].target.calls = {}
    BY <2>3 DEF ExprStmt, Stmt, Nothing, Expr
  <2>6. l.regs[r].id \in Lost(l, gone)
    BY <2>2 DEF Lost
  <2> QED BY <2>4, <2>5, <2>6 DEF IsExpr
<1>8. \E R : more \in Seq(R)
  <2>1. DOMAIN last = 1 .. Len(last) /\ Len(last) \in Nat
    BY <1>3
  <2> DEFINE R == {more[k] : k \in DOMAIN last}
  <2>2. more \in [1 .. Len(last) -> R]
    BY <2>1
  <2>3. more \in Seq(R)
    BY <2>1, <2>2
  <2> QED BY <2>3
<1> HIDE DEF more
<1>9. Told(f)
  BY <1>1, <1>2, <1>7, <1>8, ToldMore DEF Typed
<1>10. ASSUME NEW r \in Names
       PROVE  IsExpr(f.regs[r], Len(f.calls)) /\ f.addrRegs[r] \in Addresses \cup {NoAddr}
  <2>1. IsExpr(Nothing, Len(l.calls))
    BY PlainTyped DEF Typed
  <2> QED BY <1>1, <2>1 DEF Typed
<1>11. Typed(f)
  BY <1>1, <1>5, <1>9, <1>10 DEF Typed
<1> QED BY <1>1, <1>11 DEF f

(* The names a write goes to. *)
LEMMA WrittenNames ==
  ASSUME NEW r \in Names
  PROVE  Written(r) \in Seq(Names)
<1>1. PICK n \in Numbers : r = X(n) \/ r = W(n)
  BY DEF Names
<1>2. X(n) \in Names
  BY DEF Names
<1>3. r[2] = n
  BY <1>1 DEF X, W
<1>4. Written(r) = <<r, X(n)>> \/ Written(r) = <<r>>
  BY <1>3 DEF Written
<1>5. <<r, X(n)>> \in Seq(Names) /\ <<r>> \in Seq(Names)
  BY <1>2
<1> QED BY <1>4, <1>5

(* A register written. *)
LEMMA SetRegTyped ==
  ASSUME NEW l, Typed(l), NEW r \in Names, NEW e, IsExpr(e, Len(l.calls))
  PROVE  LET m == SetReg(l, r, e) IN Typed(m) /\ m.calls = l.calls
<1> DEFINE f == Forget(l, Written(r))
           m == SetReg(l, r, e)
<1>1. Typed(f) /\ f.calls = l.calls
  BY WrittenNames, ForgetTyped
<1>2. /\ Shaped(m)
      /\ \A q \in Names : m.regs[q] = IF q \in Set(r) THEN e ELSE l.regs[q]
      /\ \A q \in Names : m.addrRegs[q] = IF q \in Set(r) THEN NoAddr ELSE l.addrRegs[q]
      /\ m.consumed = l.consumed \cup Lost(l, Set(r))
      /\ m.printed = l.printed \cup Lost(l, Set(r))
      /\ m.calls = l.calls /\ m.lastCmp = l.lastCmp
  BY SetRegFields DEF Typed
<1>3. m.out = f.out /\ m.printed = f.printed /\ m.consumed = f.consumed
  <2> DEFINE regs == [q \in Names |-> IF q \in Set(r) THEN e ELSE f.regs[q]]
  <2>1. m = [f EXCEPT !.regs = regs]
    BY DEF SetReg, ClobberReg, Set
  <2> HIDE DEF m, f, regs
  <2> QED BY <1>1, <2>1 DEF Typed, Shaped, Fields
<1> HIDE DEF m, f
<1>4. Told(m)
  BY <1>1, <1>2, <1>3 DEF Typed, Told
<1>5. ASSUME NEW q \in Names
      PROVE  IsExpr(m.regs[q], Len(m.calls)) /\ m.addrRegs[q] \in Addresses \cup {NoAddr}
  BY <1>2 DEF Typed
<1>6. Typed(m)
  BY <1>1, <1>2, <1>3, <1>4, <1>5 DEF Typed
<1> QED BY <1>2, <1>6 DEF m

-----------------------------------------------------------------------------
(* One statement for each call not consumed yet. *)
LEMMA FlushTyped ==
  ASSUME NEW l, Typed(l)
  PROVE  LET m == FlushRemaining(l) IN Typed(m) /\ m.calls = l.calls
<1> DEFINE sel  == {i \in DOMAIN l.calls : l.calls[i].id \notin l.consumed}
           left == InOrder(Len(l.calls), sel)
           ids  == {l.calls[i].id : i \in DOMAIN l.calls} \ l.consumed
           cons == l.consumed \cup ids
           prin == l.printed \cup ids
           more == [k \in DOMAIN left |-> ExprStmt(l.calls[left[k]])]
           outs == l.out \o more
           m    == FlushRemaining(l)
<1>1. m = [l EXCEPT !.consumed = cons, !.printed = prin, !.out = outs]
  BY DEF FlushRemaining
<1>2. left \in Seq(sel)
  <2>1. Len(l.calls) \in Nat /\ DOMAIN l.calls = 1 .. Len(l.calls)
    BY DEF Typed
  <2>2. sel \cap (1 .. Len(l.calls)) = sel
    BY <2>1
  <2> HIDE DEF sel
  <2> QED BY <2>1, <2>2, InOrderParts
<1>3. ids \subseteq 1 .. Len(l.calls)
  BY DEF Typed
<1>4. \A i \in sel : /\ i \in DOMAIN l.calls /\ l.calls[i].id \in ids
                     /\ IsExpr(l.calls[i], Len(l.calls))
  BY DEF Typed
<1>5. cons \subseteq 1 .. Len(l.calls) /\ prin \subseteq cons
  BY <1>3 DEF Typed
<1>6. ids \subseteq prin /\ l.printed \subseteq prin
  OBVIOUS
<1> HIDE DEF sel, left, ids, cons, prin, m
<1>7. ASSUME NEW k \in DOMAIN more
      PROVE  /\ more[k].value.id \in prin
             /\ more[k].target.calls \cup more[k].value.calls \subseteq 1 .. Len(l.calls)
  <2> DEFINE e == l.calls[left[k]]
  <2>1. left[k] \in sel
    BY <1>2
  <2>2. e.id \in ids /\ IsExpr(e, Len(l.calls))
    BY <1>4, <2>1
  <2>3. more[k] = ExprStmt(e)
    OBVIOUS
  <2> HIDE DEF e, more
  <2>4. more[k].value = e /\ more[k].target.calls = {}
    BY <2>3 DEF ExprStmt, Stmt, Nothing, Expr
  <2> QED BY <1>6, <2>2, <2>4 DEF IsExpr
<1>8. \E R : more \in Seq(R)
  <2>1. DOMAIN left = 1 .. Len(left) /\ Len(left) \in Nat
    BY <1>2
  <2> DEFINE R == {more[k] : k \in DOMAIN left}
  <2>2. more \in [1 .. Len(left) -> R]
    BY <2>1
  <2>3. more \in Seq(R)
    BY <2>1, <2>2
  <2> QED BY <2>3
<1> HIDE DEF more, outs
<1>9. /\ Shaped(m) /\ m.consumed = cons /\ m.printed = prin /\ m.out = outs
      /\ m.regs = l.regs /\ m.addrRegs = l.addrRegs
      /\ m.calls = l.calls /\ m.lastCmp = l.lastCmp
  BY <1>1 DEF Typed, Shaped, Fields
<1>10. Told(m)
  BY <1>6, <1>7, <1>8, <1>9, ToldMore DEF Typed, outs
<1>11. Typed(m)
  BY <1>5, <1>9, <1>10 DEF Typed
<1> QED BY <1>9, <1>11 DEF m

(* A call made is typed, and so is everything that came before it. *)
LEMMA FinishCallTyped ==
  ASSUME NEW l, Typed(l), NEW parts, \A e \in parts : IsExpr(e, Len(l.calls))
  PROVE  LET m == FinishCall(l, parts)
         IN  Typed(m) /\ Len(m.calls) = Len(l.calls) + 1
<1> DEFINE n     == Len(l.calls)
           inner == UNION {e.calls : e \in parts}
           loose == UNION {e.loose : e \in parts}
           call  == Call(n + 1, parts)
           c     == Consume(l, parts)
           g     == Forget(c, ArgNames)
           calls == Append(g.calls, call)
           h     == [g EXCEPT !.calls = calls]
           m     == SetReg(h, W(0), call)
<1>1. FinishCall(l, parts) = m
  BY DEF FinishCall
<1>2. Typed(c) /\ c.calls = l.calls
  BY ConsumeTyped
<1>3. Typed(g) /\ g.calls = l.calls
  <2>1. ArgNames \in Seq(Names)
    <3>1. 2 * ArgCount \in Nat
      BY RegisterAssumption
    <3>2. DOMAIN ArgNames = 1 .. 2 * ArgCount /\ ArgNames = [i \in 1 .. 2 * ArgCount |-> ArgNames[i]]
      BY DEF ArgNames
    <3>3. \A i \in 1 .. 2 * ArgCount : ArgNames[i] \in Names
      BY <3>2, ArgNamesAreNames
    <3> QED BY <3>1, <3>2, <3>3
  <2> HIDE DEF c
  <2> QED BY <1>2, <2>1, ForgetTyped
<1>4. n \in Nat /\ DOMAIN l.calls = 1 .. n
  BY DEF Typed
<1>5. inner \subseteq 1 .. n /\ loose \subseteq 1 .. n
  BY DEF IsExpr
<1>6. call = [kind |-> "call", name |-> <<>>, id |-> n + 1, calls |-> {n + 1} \cup inner, loose |-> loose]
  BY DEF Call
<1> HIDE DEF n, inner, loose, call, c, g
<1>7. call \in CallExprs /\ call.id = n + 1 /\ IsExpr(call, n + 1)
  <2> DEFINE cs == {n + 1} \cup inner
  <2>1. cs \subseteq 1 .. (n + 1) /\ loose \subseteq 1 .. (n + 1) /\ n + 1 \in cs /\ n + 1 \in Nat
    BY <1>4, <1>5
  <2>2. cs \subseteq Nat /\ loose \subseteq Nat
    BY <2>1
  <2>3. call = [kind |-> "call", name |-> <<>>, id |-> n + 1, calls |-> cs, loose |-> loose]
    BY <1>6
  <2> HIDE DEF cs
  <2>4. call \in CallExprs
    BY <2>1, <2>2, <2>3 DEF CallExprs
  <2>5. IsExpr(call, n + 1)
    BY <2>1, <2>3 DEF IsExpr, Kinds, IsCall
  <2> QED BY <2>3, <2>4, <2>5
<1>8. /\ calls \in Seq(CallExprs) /\ Len(calls) = n + 1 /\ DOMAIN calls = 1 .. (n + 1)
      /\ calls[n + 1] = call /\ \A i \in 1 .. n : calls[i] = l.calls[i]
  BY <1>3, <1>4, <1>7 DEF Typed, n
<1> HIDE DEF calls
<1>0. h = [g EXCEPT !.calls = calls]
  OBVIOUS
<1> HIDE DEF h
<1>9. /\ Shaped(h) /\ h.calls = calls /\ h.out = g.out
      /\ h.regs = g.regs /\ h.addrRegs = g.addrRegs
      /\ h.lastCmp = g.lastCmp /\ h.consumed = g.consumed /\ h.printed = g.printed
  BY <1>0, <1>3 DEF Typed, Shaped, Fields
<1>10. \A e : IsExpr(e, n) => IsExpr(e, n + 1)
  BY <1>4, ExprGrows
<1>11. \A i \in DOMAIN h.calls : h.calls[i].id = i /\ IsExpr(h.calls[i], n + 1)
  <2>1. ASSUME NEW i \in DOMAIN h.calls PROVE h.calls[i].id = i /\ IsExpr(h.calls[i], n + 1)
    <3>1. CASE i = n + 1
      BY <1>7, <1>8, <1>9, <3>1
    <3>2. CASE i # n + 1
      <4>1. i \in 1 .. n
        BY <1>4, <1>8, <1>9, <3>2
      <4>2. h.calls[i] = l.calls[i] /\ l.calls[i].id = i /\ IsExpr(l.calls[i], n)
        BY <1>4, <1>8, <1>9, <4>1 DEF Typed, n
      <4> QED BY <1>10, <4>2
    <3> QED BY <3>1, <3>2
  <2> QED BY <2>1
<1>12. Len(g.calls) = n
  BY <1>3 DEF n
<1>13. Told(h)
  <2>1. 1 .. n \subseteq 1 .. (n + 1)
    BY <1>4
  <2>2. Told(g)
    BY <1>3 DEF Typed
  <2> QED BY <1>8, <1>9, <1>12, <2>1, <2>2 DEF Told
<1>14. Typed(h)
  <2>1. \A r \in Names : IsExpr(h.regs[r], n + 1) /\ h.addrRegs[r] \in Addresses \cup {NoAddr}
    BY <1>3, <1>9, <1>10, <1>12 DEF Typed
  <2>2. IsExpr(h.lastCmp.lhs, n + 1) /\ IsExpr(h.lastCmp.rhs, n + 1)
    BY <1>3, <1>9, <1>10, <1>12 DEF Typed
  <2>3. h.printed \subseteq h.consumed /\ h.consumed \subseteq 1 .. (n + 1)
    <3>1. g.printed \subseteq g.consumed /\ g.consumed \subseteq 1 .. n
      BY <1>3, <1>12 DEF Typed
    <3> QED BY <1>4, <1>9, <3>1
  <2> QED BY <1>8, <1>9, <1>11, <1>13, <2>1, <2>2, <2>3 DEF Typed
<1>15. W(0) \in Names
  BY RegisterAssumption DEF Names
<1>16. Typed(m) /\ m.calls = h.calls
  BY <1>7, <1>8, <1>9, <1>14, <1>15, SetRegTyped
<1> QED BY <1>1, <1>8, <1>9, <1>16 DEF n

(* A call in tail position. *)
LEMMA PrintCallTyped ==
  ASSUME NEW l, Typed(l), Len(l.calls) # 0
  PROVE  LET m == PrintCall(l) IN Typed(m) /\ m.calls = l.calls
<1> DEFINE n    == Len(l.calls)
           call == l.calls[n]
           cons == l.consumed \cup {call.id}
           prin == l.printed \cup {call.id}
           s    == ExprStmt(call)
           outs == Append(l.out, s)
           m    == [l EXCEPT !.consumed = cons, !.printed = prin, !.out = outs]
<1>1. PrintCall(l) = m
  BY DEF PrintCall
<1>2. n \in DOMAIN l.calls /\ n \in 1 .. n /\ call.id = n /\ IsExpr(call, n)
  BY DEF Typed
<1>3. s.value = call /\ s.target.calls = {}
  BY DEF ExprStmt, Stmt, Nothing, Expr
<1>4. outs = l.out \o <<s>>
  BY DEF Typed, Told
<1>5. cons \subseteq 1 .. n /\ prin \subseteq cons /\ call.id \in prin /\ l.printed \subseteq prin
  BY <1>2 DEF Typed
<1> HIDE DEF call, cons, prin, s, outs
<1>0. m = [l EXCEPT !.consumed = cons, !.printed = prin, !.out = outs]
  OBVIOUS
<1> HIDE DEF m
<1>6. /\ Shaped(m) /\ m.consumed = cons /\ m.printed = prin /\ m.out = outs
      /\ m.regs = l.regs /\ m.addrRegs = l.addrRegs
      /\ m.calls = l.calls /\ m.lastCmp = l.lastCmp
  BY <1>0 DEF Typed, Shaped, Fields
<1> DEFINE more == <<s>>
           R    == {s}
<1>7. more \in Seq(R) /\ \A k \in DOMAIN more : more[k] = s
  OBVIOUS
<1>8. m.out = l.out \o more
  BY <1>4, <1>6
<1> HIDE DEF more, R
<1>9. s.value.id \in m.printed /\ s.target.calls \cup s.value.calls \subseteq 1 .. n
  BY <1>2, <1>3, <1>5, <1>6 DEF IsExpr
<1>10. Told(m)
  <2>1. Told(l) /\ l.printed \subseteq m.printed
    BY <1>5, <1>6 DEF Typed
  <2>2. \A k \in DOMAIN more :
          /\ more[k].kind = "expr" => more[k].value.id \in m.printed
          /\ more[k].target.calls \cup more[k].value.calls \subseteq 1 .. Len(l.calls)
    BY <1>7, <1>9
  <2> QED BY <1>6, <1>7, <1>8, <2>1, <2>2, ToldMore
<1>11. Typed(m)
  BY <1>5, <1>6, <1>10 DEF Typed
<1> QED BY <1>1, <1>6, <1>11

-----------------------------------------------------------------------------
(* The instructions. *)

(* mov *)
LEMMA MovTyped ==
  ASSUME NEW l, Typed(l), NEW dst \in Names, NEW src
  PROVE  Typed(LiftMov(l, dst, src)) /\ LiftMov(l, dst, src).calls = l.calls
<1>1. IsExpr(IF src.type = "imm" THEN IntLit ELSE RegValue(l, src.reg), Len(l.calls))
  BY ReadTyped, PlainTyped DEF Typed
<1> QED BY <1>1, SetRegTyped DEF LiftMov

(* A known address set. *)
LEMMA AddressTyped ==
  ASSUME NEW l, Typed(l), NEW dst \in Names, NEW a \in Addresses
  PROVE  LET m == [l EXCEPT !.addrRegs[dst] = a] IN Typed(m) /\ m.calls = l.calls
<1> DEFINE regs == [l.addrRegs EXCEPT ![dst] = a]
           m    == [l EXCEPT !.addrRegs = regs]
<1>1. [l EXCEPT !.addrRegs[dst] = a] = m
  OBVIOUS
<1>2. /\ regs = [r \in Names |-> regs[r]]
      /\ \A r \in Names : regs[r] \in Addresses \cup {NoAddr}
  BY DEF Typed, Shaped
<1> HIDE DEF regs
<1>3. m = [l EXCEPT !.addrRegs = regs]
  OBVIOUS
<1> HIDE DEF m
<1>4. /\ Shaped(m) /\ m.addrRegs = regs /\ m.out = l.out
      /\ m.regs = l.regs /\ m.calls = l.calls /\ m.lastCmp = l.lastCmp
      /\ m.consumed = l.consumed /\ m.printed = l.printed
  BY <1>2, <1>3 DEF Typed, Shaped, Fields
<1>5. Typed(m)
  BY <1>2, <1>4 DEF Typed, Told
<1> QED BY <1>1, <1>4, <1>5

(* adrp, adr *)
LEMMA AddrTyped ==
  ASSUME NEW l, Typed(l), NEW dst \in Names, NEW a \in Addresses
  PROVE  Typed(LiftAddr(l, dst, a)) /\ LiftAddr(l, dst, a).calls = l.calls
<1> DEFINE m == SetReg(l, dst, IntLit)
<1>1. Typed(m) /\ m.calls = l.calls
  BY PlainTyped, SetRegTyped DEF Typed
<1> HIDE DEF m
<1>2. LET k == [m EXCEPT !.addrRegs[dst] = a] IN Typed(k) /\ k.calls = m.calls
  BY <1>1, AddressTyped
<1> QED BY <1>1, <1>2 DEF LiftAddr, m

(* Arithmetic. *)
LEMMA ALUTyped ==
  ASSUME NEW l, Typed(l), NEW dst \in Names, NEW lhs, NEW rhs
  PROVE  Typed(LiftALU(l, dst, lhs, rhs)) /\ LiftALU(l, dst, lhs, rhs).calls = l.calls
<1> DEFINE a == RegValue(l, lhs)
           b == OperandValue(l, rhs)
           m == Consume(l, {a, b})
<1>1. IsExpr(a, Len(l.calls)) /\ IsExpr(b, Len(l.calls))
  BY ReadTyped
<1>2. IsExpr(Binary(a, b), Len(l.calls))
  BY <1>1, PlainTyped DEF Typed
<1> HIDE DEF a, b
<1>3. Typed(m) /\ m.calls = l.calls
  BY <1>1, ConsumeTyped
<1> HIDE DEF m
<1>4. LET k == SetReg(m, dst, Binary(a, b)) IN Typed(k) /\ k.calls = m.calls
  BY <1>2, <1>3, SetRegTyped
<1> QED BY <1>3, <1>4 DEF LiftALU, a, b, m

(* add *)
LEMMA AddTyped ==
  ASSUME NEW l, Typed(l), NEW dst \in Names, NEW lhs, NEW rhs,
         rhs.type = "imm" => rhs.imm \in Nat
  PROVE  Typed(LiftAdd(l, dst, lhs, rhs)) /\ LiftAdd(l, dst, lhs, rhs).calls = l.calls
<1> DEFINE m == LiftALU(l, dst, lhs, rhs)
           a == (l.addrRegs[lhs] + rhs.imm) % AddrSpace
<1>1. Typed(m) /\ m.calls = l.calls
  BY ALUTyped
<1> HIDE DEF m
<1>2. CASE rhs.type = "imm" /\ lhs \in Names /\ l.addrRegs[lhs] # NoAddr
  <2>1. l.addrRegs[lhs] \in Addresses
    BY <1>2 DEF Typed
  <2>2. l.addrRegs[lhs] \in Nat /\ AddrSpace \in Nat \ {0} /\ rhs.imm \in Nat
    BY <1>2, <2>1, RegisterAssumption DEF Addresses
  <2>3. a \in Addresses
    BY <2>2 DEF Addresses
  <2> HIDE DEF a
  <2>4. LET k == [m EXCEPT !.addrRegs[dst] = a] IN Typed(k) /\ k.calls = m.calls
    BY <1>1, <2>3, AddressTyped
  <2> QED BY <1>1, <1>2, <2>4 DEF LiftAdd, m, a
<1>3. CASE ~(rhs.type = "imm" /\ lhs \in Names /\ l.addrRegs[lhs] # NoAddr)
  BY <1>1, <1>3, Zenon DEF LiftAdd, m
<1> QED BY <1>2, <1>3

(* cmp *)
LEMMA CmpTyped ==
  ASSUME NEW l, Typed(l), NEW lhs, NEW rhs
  PROVE  Typed(LiftCmp(l, lhs, rhs)) /\ LiftCmp(l, lhs, rhs).calls = l.calls
<1> DEFINE a == RegValue(l, lhs)
           b == OperandValue(l, rhs)
           m == Consume(l, {a, b})
           c == [lhs |-> a, rhs |-> b]
           k == [m EXCEPT !.lastCmp = c]
<1>1. IsExpr(a, Len(l.calls)) /\ IsExpr(b, Len(l.calls))
  BY ReadTyped
<1> HIDE DEF a, b
<1>2. Typed(m) /\ m.calls = l.calls
  BY <1>1, ConsumeTyped
<1>3. c.lhs = a /\ c.rhs = b
  OBVIOUS
<1> HIDE DEF m, c
<1>0. k = [m EXCEPT !.lastCmp = c]
  OBVIOUS
<1> HIDE DEF k
<1>4. /\ Shaped(k) /\ k.lastCmp = c /\ k.out = m.out
      /\ k.regs = m.regs /\ k.addrRegs = m.addrRegs
      /\ k.calls = m.calls /\ k.consumed = m.consumed /\ k.printed = m.printed
  BY <1>0, <1>2 DEF Typed, Shaped, Fields
<1>5. Typed(k)
  BY <1>1, <1>2, <1>3, <1>4 DEF Typed, Told
<1> QED BY <1>2, <1>4, <1>5 DEF LiftCmp, k, m, c, a, b

(* cset *)
LEMMA CsetTyped ==
  ASSUME NEW l, Typed(l), NEW dst \in Names
  PROVE  Typed(LiftCset(l, dst)) /\ LiftCset(l, dst).calls = l.calls
<1> DEFINE e == IF l.lastCmp.lhs = Nothing THEN Local(<<"cond">>)
                ELSE Binary(l.lastCmp.lhs, l.lastCmp.rhs)
<1>1. IsExpr(e, Len(l.calls))
  BY PlainTyped DEF Typed
<1> QED BY <1>1, SetRegTyped DEF LiftCset

(* str *)
LEMMA StrTyped ==
  ASSUME NEW l, Typed(l), NEW src, NEW mem
  PROVE  Typed(LiftStr(l, src, mem)) /\ LiftStr(l, src, mem).calls = l.calls
<1> DEFINE v    == RegValue(l, src)
           base == RegValue(l, mem.reg)
<1>1. IsExpr(v, Len(l.calls)) /\ IsExpr(base, Len(l.calls))
  BY ReadTyped
<1> HIDE DEF v, base
<1>2. ASSUME NEW t, t.calls \subseteq 1 .. Len(l.calls), NEW es \in SUBSET {base, v}
      PROVE  LET m == [Consume(l, es) EXCEPT !.out = Append(@, Assign(t, v))]
             IN  Typed(m) /\ m.calls = l.calls
  <2> DEFINE c == Consume(l, es)
             s == Assign(t, v)
  <2>1. Typed(c) /\ c.calls = l.calls
    BY <1>1, ConsumeTyped
  <2>2. s.kind # "expr" /\ s.target.calls \cup s.value.calls \subseteq 1 .. Len(l.calls)
    BY <1>1, <1>2 DEF Assign, Stmt, IsExpr
  <2> HIDE DEF c, s
  <2>3. LET m == [c EXCEPT !.out = Append(@, s)] IN Typed(m) /\ m.calls = c.calls
    BY <2>1, <2>2, SayTyped
  <2> QED BY <2>1, <2>3 DEF c, s
<1>3. LET m == [Consume(l, {base, v}) EXCEPT !.out = Append(@, Assign(Stored(base), v))]
      IN  Typed(m) /\ m.calls = l.calls
  <2>1. Stored(base).calls \subseteq 1 .. Len(l.calls)
    BY <1>1 DEF Stored, Expr, IsExpr
  <2> QED BY <1>2, <2>1
<1>4. ASSUME NEW nm, NEW stack
      PROVE  LET m == [[Consume(l, {v}) EXCEPT !.out = Append(@, Assign(Local(nm), v))]
                          EXCEPT !.stack = stack]
             IN  Typed(m) /\ m.calls = l.calls
  <2> DEFINE k == [Consume(l, {v}) EXCEPT !.out = Append(@, Assign(Local(nm), v))]
  <2>1. Local(nm).calls \subseteq 1 .. Len(l.calls)
    BY DEF Local, Expr
  <2>2. Typed(k) /\ k.calls = l.calls
    BY <1>2, <2>1
  <2> HIDE DEF k
  <2>3. LET m == [k EXCEPT !.stack = stack] IN Typed(m) /\ m.calls = k.calls
    BY <2>2, StackTyped
  <2> QED BY <2>2, <2>3 DEF k
<1>5. \A stack : LET m == [l EXCEPT !.stack = stack] IN Typed(m) /\ m.calls = l.calls
  BY StackTyped
<1> QED BY <1>3, <1>4, <1>5 DEF LiftStr, v, base

(* ldr *)
LEMMA LdrTyped ==
  ASSUME NEW l, Typed(l), NEW dst \in Names, NEW mem
  PROVE  Typed(LiftLdr(l, dst, mem)) /\ LiftLdr(l, dst, mem).calls = l.calls
<1> DEFINE f == FieldAccess(RegValue(l, mem.reg))
<1>1. Typed(ClobberReg(l, dst)) /\ ClobberReg(l, dst).calls = l.calls
  BY WrittenNames, ForgetTyped DEF ClobberReg
<1>2. \A name : LET m == SetReg(l, dst, Local(name)) IN Typed(m) /\ m.calls = l.calls
  BY PlainTyped, SetRegTyped DEF Typed
<1>3. LET m == SetReg(l, dst, f) IN Typed(m) /\ m.calls = l.calls
  <2>1. IsExpr(f, Len(l.calls))
    BY ReadTyped, PlainTyped DEF Typed
  <2> HIDE DEF f
  <2> QED BY <2>1, SetRegTyped
<1> HIDE DEF f
<1> QED BY <1>1, <1>2, <1>3 DEF LiftLdr, f

(* ret *)
LEMMA RetTyped ==
  ASSUME NEW l, Typed(l)
  PROVE  Typed(LiftRet(l)) /\ LiftRet(l).calls = l.calls
<1> DEFINE v == IF l.regs[W(0)] # Nothing THEN l.regs[W(0)]
                ELSE IF l.regs[X(0)] # Nothing THEN l.regs[X(0)]
                ELSE Local(W(0))
           es == {v}
           c == Consume(l, es)
           s == Return(v)
<1>1. X(0) \in Names /\ W(0) \in Names
  BY RegisterAssumption DEF Names
<1>2. IsExpr(v, Len(l.calls))
  BY <1>1, PlainTyped DEF Typed
<1> HIDE DEF v
<1>3. Typed(c) /\ c.calls = l.calls
  BY <1>2, ConsumeTyped
<1>4. s.kind # "expr" /\ s.target.calls \cup s.value.calls \subseteq 1 .. Len(l.calls)
  BY <1>2 DEF Return, Stmt, Nothing, Expr, IsExpr
<1> HIDE DEF c, s
<1>5. LET m == [c EXCEPT !.out = Append(@, s)] IN Typed(m) /\ m.calls = c.calls
  BY <1>3, <1>4, SayTyped
<1> QED BY <1>3, <1>5 DEF LiftRet, v, c, s

(* The arguments of a call. *)
LEMMA ArgsTyped ==
  ASSUME NEW l, Typed(l), NEW n \in 0 .. ArgCount
  PROVE  \A e \in CallArgs(l, n) : IsExpr(e, Len(l.calls))
<1>1. ASSUME NEW i \in 0 .. n - 1 PROVE IsExpr(l.regs[X(i)], Len(l.calls))
  BY RegisterAssumption DEF Names, Typed
<1>2. \A nm : IsExpr(Expr("string", nm, {}, {}), Len(l.calls))
  BY PlainTyped DEF Typed
<1> QED BY <1>1, <1>2 DEF CallArgs

(* bl, blr *)
LEMMA CallTyped ==
  ASSUME NEW l, Typed(l)
  PROVE  /\ \A target : LET m == LiftCall(l, target)
                        IN  Typed(m) /\ Len(m.calls) = Len(l.calls) + 1
         /\ \A r : LET m == LiftBlr(l, r)
                   IN  Typed(m) /\ Len(m.calls) = Len(l.calls) + 1
<1>1. ASSUME NEW target
      PROVE  LET m == LiftCall(l, target) IN Typed(m) /\ Len(m.calls) = Len(l.calls) + 1
  <2>1. (IF target \in DOMAIN Arity THEN Arity[target] ELSE ArgCount) \in 0 .. ArgCount
    BY RegisterAssumption
  <2>2. \A e \in ArgsOf(l, target) : IsExpr(e, Len(l.calls))
    BY <2>1, ArgsTyped DEF ArgsOf
  <2> QED BY <2>2, FinishCallTyped DEF LiftCall
<1>2. ASSUME NEW r
      PROVE  LET m == LiftBlr(l, r) IN Typed(m) /\ Len(m.calls) = Len(l.calls) + 1
  <2> DEFINE parts == {RegValue(l, r)} \cup CallArgs(l, ArgCount)
  <2>1. ArgCount \in 0 .. ArgCount
    BY RegisterAssumption
  <2>2. \A e \in parts : IsExpr(e, Len(l.calls))
    BY <2>1, ArgsTyped, ReadTyped
  <2> HIDE DEF parts
  <2>3. LET m == FinishCall(l, parts) IN Typed(m) /\ Len(m.calls) = Len(l.calls) + 1
    BY <2>2, FinishCallTyped
  <2> QED BY <2>3 DEF LiftBlr, parts
<1> QED BY <1>1, <1>2

-----------------------------------------------------------------------------
(* The types along a path. *)

(* The history and the processor. *)
ProcessorTyped ==
  /\ held \in [Numbers -> Addresses \cup {NotAddr}]
  /\ sure \subseteq Numbers

TypedInv ==
  /\ Typed(lifter)
  /\ ProcessorTyped
  /\ placed \subseteq 1 .. Len(lifter.calls) /\ again \subseteq 1 .. Len(lifter.calls)
  /\ ended \in BOOLEAN

(* Before the first instruction. *)
LEMMA TypedInit == StraightInit => TypedInv
<1> SUFFICES ASSUME StraightInit PROVE TypedInv
  OBVIOUS
<1> DEFINE regs == [r \in Names |->
                     IF r[2] < ArgCount /\ r[2] + 1 \in DOMAIN Params
                     THEN Local(<<"param", Params[r[2] + 1]>>) ELSE Nothing]
           addr == [r \in Names |-> NoAddr]
           cmp  == [lhs |-> Nothing, rhs |-> Nothing]
<1>1. lifter = [regs |-> regs, addrRegs |-> addr, stack |-> <<>>, lastCmp |-> cmp,
                calls |-> <<>>, consumed |-> {}, printed |-> {}, out |-> <<>>]
  BY DEF StraightInit, NewLifter
<1>2. \A r \in Names : IsExpr(regs[r], 0) /\ addr[r] = NoAddr
  BY PlainTyped
<1>3. IsExpr(cmp.lhs, 0) /\ IsExpr(cmp.rhs, 0)
  BY PlainTyped
<1>4. regs = [r \in Names |-> regs[r]] /\ addr = [r \in Names |-> addr[r]]
  OBVIOUS
<1> HIDE DEF regs, addr, cmp
<1>5. Shaped(lifter)
  BY <1>1, <1>4 DEF Shaped, Fields
<1>6. /\ lifter.calls = <<>> /\ lifter.out = <<>> /\ lifter.regs = regs /\ lifter.addrRegs = addr
      /\ lifter.lastCmp = cmp /\ lifter.consumed = {} /\ lifter.printed = {}
  BY <1>1
<1>7. Len(lifter.calls) = 0 /\ lifter.calls \in Seq(CallExprs) /\ DOMAIN lifter.calls = {}
  BY <1>6
<1>8. Told(lifter)
  <2>1. lifter.out \in Seq({}) /\ DOMAIN lifter.out = {}
    BY <1>6
  <2> QED BY <2>1 DEF Told
<1>9. Typed(lifter)
  BY <1>2, <1>3, <1>5, <1>6, <1>7, <1>8 DEF Typed
<1>10. ProcessorTyped
  BY DEF StraightInit, ProcessorTyped, NotAddr
<1> QED BY <1>9, <1>10 DEF TypedInv, StraightInit

(* Without the statements of the last step. *)
LEMMA ClearedTyped ==
  ASSUME TypedInv
  PROVE  Typed(Cleared) /\ Cleared.calls = lifter.calls /\ Cleared.regs = lifter.regs
<1>1. Typed(lifter) /\ Shaped(lifter)
  BY DEF TypedInv, Typed
<1>2. /\ Shaped(Cleared)
      /\ Cleared.regs = lifter.regs /\ Cleared.addrRegs = lifter.addrRegs
      /\ Cleared.calls = lifter.calls /\ Cleared.lastCmp = lifter.lastCmp
      /\ Cleared.consumed = lifter.consumed /\ Cleared.printed = lifter.printed
      /\ Cleared.out = <<>>
  BY <1>1, ClearedSame
<1>3. Told(Cleared)
  <2>1. Cleared.out \in Seq({}) /\ DOMAIN Cleared.out = {}
    BY <1>2
  <2> QED BY <2>1 DEF Told
<1> QED BY <1>1, <1>2, <1>3 DEF Typed

(* What has been placed are calls made. *)
LEMMA PlacedTyped ==
  ASSUME NEW l, Typed(l)
  PROVE  Placed(l) \subseteq 1 .. Len(l.calls)
<1>1. l.printed \subseteq 1 .. Len(l.calls)
  BY DEF Typed
<1>2. InRegisters(l) \subseteq 1 .. Len(l.calls)
  BY DEF InRegisters, Inside, Typed, IsExpr
<1>3. InStatements(l) \subseteq 1 .. Len(l.calls)
  BY DEF InStatements, Typed, Told
<1>4. InComparison(l) \subseteq 1 .. Len(l.calls)
  BY DEF InComparison, Typed, IsExpr
<1> QED BY <1>1, <1>2, <1>3, <1>4 DEF Placed

(* An instruction, and the end of the path after it. *)
LEMMA TakeTyped ==
  ASSUME TypedInv, NEW l, NEW m, NEW over, Take(l, m, over),
         Becomes(Cleared, l), Becomes(l, m), over \subseteq 1 .. Len(lifter.calls),
         ProcessorTyped', ended' \in BOOLEAN
  PROVE  TypedInv'
<1>1. /\ lifter' = m
      /\ placed' = placed \cup Placed(l) \cup Placed(m) /\ again' = again \cup over
  BY DEF Take
<1>2. /\ Len(lifter.calls) \in Nat /\ Len(l.calls) \in Nat /\ Len(m.calls) \in Nat
      /\ Len(lifter.calls) <= Len(l.calls) /\ Len(l.calls) <= Len(m.calls)
  BY ClearedTyped DEF Becomes, Typed
<1>3. 1 .. Len(lifter.calls) \subseteq 1 .. Len(m.calls) /\ 1 .. Len(l.calls) \subseteq 1 .. Len(m.calls)
  BY <1>2
<1>4. Placed(l) \subseteq 1 .. Len(l.calls) /\ Placed(m) \subseteq 1 .. Len(m.calls)
  BY PlacedTyped DEF Becomes
<1>5. placed' \subseteq 1 .. Len(m.calls) /\ again' \subseteq 1 .. Len(m.calls)
  BY <1>1, <1>3, <1>4 DEF TypedInv
<1> QED BY <1>1, <1>5 DEF TypedInv, Becomes

(* One instruction of the block, whichever it is, keeps the typed state. *)
LEMMA LiftTyped ==
  ASSUME TypedInv, NEW l, NEW over, Lift(l, over), Becomes(Cleared, l),
         over \subseteq 1 .. Len(lifter.calls), ProcessorTyped'
  PROVE  TypedInv'
<1>1. Take(l, l, over) /\ ended' \in BOOLEAN
  BY DEF Lift
<1>2. Becomes(l, l)
  BY DEF Becomes, Typed
<1> QED BY <1>1, <1>2, TakeTyped

(* The end of the block, where what the code left pending is written out,  *)
(* keeps it too.                                                           *)
LEMMA EndTyped ==
  ASSUME TypedInv, NEW l, End(l), Becomes(Cleared, l), UNCHANGED <<held, sure>>
  PROVE  TypedInv'
<1>1. Take(l, FlushRemaining(l), {}) /\ ended' \in BOOLEAN
  BY DEF End
<1>2. Becomes(l, FlushRemaining(l))
  BY FlushTyped DEF Becomes, Typed
<1>3. ProcessorTyped'
  BY DEF TypedInv, ProcessorTyped
<1> QED BY <1>1, <1>2, <1>3, TakeTyped

(* A register written by the processor. *)
LEMMA WriteTyped ==
  ASSUME ProcessorTyped, NEW dst \in Names, NEW a \in Addresses \cup {NotAddr}, NEW reads,
         WriteTo(dst, a, reads)
  PROVE  ProcessorTyped'
<1>1. dst[2] \in Numbers
  BY NumberOf
<1> QED BY <1>1 DEF ProcessorTyped, WriteTo

(* Every instruction keeps the types. *)
LEMMA TypedNext ==
  ASSUME TypedInv, [StraightNext]_straight
  PROVE  TypedInv'
<1> USE DEF StraightNext
<1>a. Typed(Cleared) /\ Cleared.calls = lifter.calls /\ Cleared.regs = lifter.regs
  BY ClearedTyped
<1>b. \A m : Typed(m) /\ m.calls = Cleared.calls => Becomes(Cleared, m)
  BY <1>a DEF Becomes, Typed
<1>c. \A m : Typed(m) /\ Len(m.calls) = Len(Cleared.calls) + 1 => Becomes(Cleared, m)
  BY <1>a DEF Becomes, Typed
<1>d. {} \subseteq 1 .. Len(lifter.calls) /\ ProcessorTyped
  BY DEF TypedInv
<1>e. /\ Immediates \subseteq Addresses /\ Addresses \subseteq Nat /\ AddrSpace \in Nat \ {0}
      /\ NotAddr \in Addresses \cup {NotAddr} /\ 0 \in Numbers
  BY RegisterAssumption, PathAssumption DEF Addresses
<1>1. CASE Mov
  <2> DEFINE Source(dst, src) ==
               IF src.type = "reg" /\ src.reg[1] = "x" THEN held[src.reg[2]] ELSE NotAddr
             Twice(dst, src) ==
               IF (src.type = "reg" /\ src.reg[2] = dst[2]) /\ IsCall(lifter.regs[dst])
               THEN {lifter.regs[dst].id} ELSE {}
  <2>1. PICK dst \in Names : \E src \in Operands(dst) :
          /\ Lift(LiftMov(Cleared, dst, src), Twice(dst, src))
          /\ WriteTo(dst, Source(dst, src), ReadBy(src))
    BY <1>1 DEF Mov
  <2>2. PICK src \in Operands(dst) :
          /\ Lift(LiftMov(Cleared, dst, src), Twice(dst, src))
          /\ WriteTo(dst, Source(dst, src), ReadBy(src))
    BY <2>1
  <2>3. Becomes(Cleared, LiftMov(Cleared, dst, src))
    BY <1>a, <1>b, MovTyped
  <2>4. Twice(dst, src) \subseteq 1 .. Len(lifter.calls)
    BY DEF TypedInv, Typed, IsExpr
  <2>5. Source(dst, src) \in Addresses \cup {NotAddr}
    <3>1. CASE src.type = "reg" /\ src.reg[1] = "x"
      <4>1. src.reg \in Names
        BY <3>1 DEF Operands, Like, Reg, Imm
      <4>2. src.reg[2] \in Numbers
        BY <4>1, NumberOf
      <4> QED BY <1>d, <3>1, <4>2 DEF ProcessorTyped
    <3>2. CASE ~(src.type = "reg" /\ src.reg[1] = "x")
      BY <3>2
    <3> QED BY <3>1, <3>2
  <2> HIDE DEF Source, Twice
  <2>6. ProcessorTyped'
    BY <1>d, <2>2, <2>5, WriteTyped
  <2> QED BY <2>2, <2>3, <2>4, <2>6, LiftTyped
<1>2. CASE Addr
  <2>1. PICK n \in Numbers, a \in Immediates :
          Lift(LiftAddr(Cleared, X(n), a), {}) /\ WriteTo(X(n), a, {})
    BY <1>2 DEF Addr
  <2>2. X(n) \in Names /\ a \in Addresses
    BY <1>e DEF Names
  <2>3. Becomes(Cleared, LiftAddr(Cleared, X(n), a))
    BY <1>a, <1>b, <2>2, AddrTyped
  <2>4. ProcessorTyped'
    BY <1>d, <2>1, <2>2, WriteTyped
  <2> QED BY <1>d, <2>1, <2>3, <2>4, LiftTyped
<1>3. CASE Add
  <2> DEFINE Sum(lhs, rhs) ==
               IF rhs.type = "imm" /\ lhs[1] = "x" /\ held[lhs[2]] # NotAddr
               THEN (held[lhs[2]] + rhs.imm) % AddrSpace ELSE NotAddr
  <2>1. PICK dst \in Names : \E lhs \in Like(dst), rhs \in Operands(dst) :
          /\ Lift(LiftAdd(Cleared, dst, lhs, rhs), {})
          /\ WriteTo(dst, Sum(lhs, rhs), {lhs[2]} \cup ReadBy(rhs))
    BY <1>3 DEF Add
  <2>2. PICK lhs \in Like(dst), rhs \in Operands(dst) :
          /\ Lift(LiftAdd(Cleared, dst, lhs, rhs), {})
          /\ WriteTo(dst, Sum(lhs, rhs), {lhs[2]} \cup ReadBy(rhs))
    BY <2>1
  <2>3. rhs.type = "imm" => rhs.imm \in Nat
    BY <1>e DEF Operands, Reg, Imm
  <2>4. Becomes(Cleared, LiftAdd(Cleared, dst, lhs, rhs))
    BY <1>a, <1>b, <2>3, AddTyped
  <2>5. Sum(lhs, rhs) \in Addresses \cup {NotAddr}
    <3>1. CASE rhs.type = "imm" /\ lhs[1] = "x" /\ held[lhs[2]] # NotAddr
      <4>1. lhs[2] \in Numbers
        BY NumberOf DEF Like
      <4>2. held[lhs[2]] \in Nat
        BY <1>d, <1>e, <3>1, <4>1 DEF ProcessorTyped
      <4>3. (held[lhs[2]] + rhs.imm) % AddrSpace \in Addresses
        BY <1>e, <2>3, <3>1, <4>2 DEF Addresses
      <4> QED BY <3>1, <4>3
    <3>2. CASE ~(rhs.type = "imm" /\ lhs[1] = "x" /\ held[lhs[2]] # NotAddr)
      BY <3>2
    <3> QED BY <3>1, <3>2
  <2> HIDE DEF Sum
  <2>6. ProcessorTyped'
    BY <1>d, <2>2, <2>5, WriteTyped
  <2> QED BY <1>d, <2>2, <2>4, <2>6, LiftTyped
<1>4. CASE ALU
  <2>1. PICK dst \in Names : \E lhs \in Like(dst), rhs \in Operands(dst) :
          /\ Lift(LiftALU(Cleared, dst, lhs, rhs), {})
          /\ WriteTo(dst, NotAddr, {lhs[2]} \cup ReadBy(rhs))
    BY <1>4 DEF ALU
  <2>2. PICK lhs \in Like(dst), rhs \in Operands(dst) :
          /\ Lift(LiftALU(Cleared, dst, lhs, rhs), {})
          /\ WriteTo(dst, NotAddr, {lhs[2]} \cup ReadBy(rhs))
    BY <2>1
  <2>3. Becomes(Cleared, LiftALU(Cleared, dst, lhs, rhs))
    BY <1>a, <1>b, ALUTyped
  <2>4. ProcessorTyped'
    BY <1>d, <1>e, <2>2, WriteTyped
  <2> QED BY <1>d, <2>2, <2>3, <2>4, LiftTyped
<1>5. CASE Cmp
  <2>1. PICK lhs \in Names : \E rhs \in Operands(lhs) : Lift(LiftCmp(Cleared, lhs, rhs), {})
    BY <1>5 DEF Cmp
  <2>2. PICK rhs \in Operands(lhs) : Lift(LiftCmp(Cleared, lhs, rhs), {})
    BY <2>1
  <2>3. Becomes(Cleared, LiftCmp(Cleared, lhs, rhs))
    BY <1>a, <1>b, CmpTyped
  <2>4. ProcessorTyped'
    BY <1>5, <1>d DEF Cmp, ProcessorTyped
  <2> QED BY <1>d, <2>2, <2>3, <2>4, LiftTyped
<1>6. CASE Cset
  <2>1. PICK dst \in Names : Lift(LiftCset(Cleared, dst), {}) /\ WriteTo(dst, NotAddr, {})
    BY <1>6 DEF Cset
  <2>2. Becomes(Cleared, LiftCset(Cleared, dst))
    BY <1>a, <1>b, CsetTyped
  <2>3. ProcessorTyped'
    BY <1>d, <1>e, <2>1, WriteTyped
  <2> QED BY <1>d, <2>1, <2>2, <2>3, LiftTyped
<1>7. CASE Str
  <2>1. PICK src \in Names, mem \in MemOperands : Lift(LiftStr(Cleared, src, mem), {})
    BY <1>7 DEF Str
  <2>2. Becomes(Cleared, LiftStr(Cleared, src, mem))
    BY <1>a, <1>b, StrTyped
  <2>3. ProcessorTyped'
    BY <1>7, <1>d DEF Str, ProcessorTyped
  <2> QED BY <1>d, <2>1, <2>2, <2>3, LiftTyped
<1>8. CASE Ldr
  <2>1. PICK dst \in Names, mem \in MemOperands :
          /\ Lift(LiftLdr(Cleared, dst, mem), {})
          /\ held' = [held EXCEPT ![dst[2]] = NotAddr]
          /\ sure' = IF mem.indexed THEN sure \ {dst[2]} ELSE sure \cup {dst[2]}
    BY <1>8 DEF Ldr
  <2>2. Becomes(Cleared, LiftLdr(Cleared, dst, mem))
    BY <1>a, <1>b, LdrTyped
  <2>3. dst[2] \in Numbers
    BY NumberOf
  <2>4. ProcessorTyped'
    BY <1>d, <2>1, <2>3 DEF ProcessorTyped
  <2> QED BY <1>d, <2>1, <2>2, <2>4, LiftTyped
<1>9. CASE Other
  <2>1. PICK n \in Numbers :
          Lift(Cleared, {}) /\ held' = [held EXCEPT ![n] = NotAddr] /\ sure' = sure \ {n}
    BY <1>9 DEF Other
  <2>2. Becomes(Cleared, Cleared)
    BY <1>a, <1>b
  <2>3. ProcessorTyped'
    BY <1>d, <2>1 DEF ProcessorTyped
  <2> QED BY <1>d, <2>1, <2>2, <2>3, LiftTyped
<1>f. Called => ProcessorTyped'
  BY <1>d, <1>e DEF Called, ProcessorTyped
<1>10. CASE Bl
  <2>1. PICK target \in Immediates : Lift(LiftCall(Cleared, target), {}) /\ Called
    BY <1>10 DEF Bl
  <2>2. Becomes(Cleared, LiftCall(Cleared, target))
    BY <1>a, <1>c, CallTyped
  <2> QED BY <1>d, <1>f, <2>1, <2>2, LiftTyped
<1>11. CASE Blr
  <2>1. PICK r \in {X(n) : n \in Numbers} : Lift(LiftBlr(Cleared, r), {}) /\ Called
    BY <1>11 DEF Blr
  <2>2. Becomes(Cleared, LiftBlr(Cleared, r))
    BY <1>a, <1>c, CallTyped
  <2> QED BY <1>d, <1>f, <2>1, <2>2, LiftTyped
<1>12. CASE Ret
  <2>1. End(LiftRet(Cleared)) /\ UNCHANGED <<held, sure>>
    BY <1>12 DEF Ret
  <2>2. Becomes(Cleared, LiftRet(Cleared))
    BY <1>a, <1>b, RetTyped
  <2> QED BY <2>1, <2>2, EndTyped
<1>g. \A k : Typed(k) /\ Len(k.calls) = Len(Cleared.calls) + 1 => Becomes(Cleared, PrintCall(k))
  <2> TAKE k
  <2> HAVE Typed(k) /\ Len(k.calls) = Len(Cleared.calls) + 1
  <2>1. Len(Cleared.calls) \in Nat
    BY <1>a DEF Typed
  <2>2. Typed(PrintCall(k)) /\ PrintCall(k).calls = k.calls
    BY <2>1, PrintCallTyped
  <2> QED BY <1>c, <2>2
<1>13. CASE TailCall
  <2>1. PICK target \in Immediates : End(LiftTailCall(Cleared, target)) /\ UNCHANGED <<held, sure>>
    BY <1>13 DEF TailCall
  <2>2. Becomes(Cleared, PrintCall(LiftCall(Cleared, target)))
    BY <1>a, <1>g, CallTyped
  <2>3. Becomes(Cleared, LiftTailCall(Cleared, target))
    BY <1>a, <1>b, <2>2 DEF LiftTailCall
  <2> QED BY <2>1, <2>3, EndTyped
<1>14. CASE Br
  <2>1. PICK r \in {X(n) : n \in Numbers} : End(LiftBr(Cleared, r)) /\ UNCHANGED <<held, sure>>
    BY <1>14 DEF Br
  <2>2. Becomes(Cleared, LiftBr(Cleared, r))
    BY <1>a, <1>g, CallTyped DEF LiftBr
  <2> QED BY <2>1, <2>2, EndTyped
<1>15. CASE UNCHANGED straight
  BY <1>15 DEF straight, TypedInv, ProcessorTyped
<1> QED BY <1>1, <1>2, <1>3, <1>4, <1>5, <1>6, <1>7, <1>8, <1>9, <1>10, <1>11, <1>12, <1>13, <1>14, <1>15

(* Type correctness: whatever the instructions, every call an expression   *)
(* names was made, and a call printed on its own is marked as printed.     *)
THEOREM StraightTypeCorrect == StraightSpec => []StraightTypeOK
<1>1. TypedInv => StraightTypeOK
  <2> SUFFICES ASSUME TypedInv PROVE StraightTypeOK
    OBVIOUS
  <2>1. Bare \subseteq lifter.printed
    BY DEF Bare, TypedInv, Typed, Told
  <2>2. \A i \in DOMAIN lifter.calls : lifter.calls[i].kind = "call" /\ lifter.calls[i].id = i
    <3>1. lifter.calls \in Seq(CallExprs) /\ \A e \in CallExprs : e.kind = "call"
      BY DEF TypedInv, Typed, CallExprs
    <3>2. \A i \in DOMAIN lifter.calls : lifter.calls[i] \in CallExprs
      BY <3>1
    <3> QED BY <3>1, <3>2 DEF TypedInv, Typed
  <2> QED BY <2>1, <2>2 DEF TypedInv, Typed, ProcessorTyped, StraightTypeOK
<1> QED BY <1>1, TypedInit, TypedNext, PTL DEF StraightSpec
=============================================================================
