------------------------- MODULE FunctionAssembler -------------------------
(***************************************************************************)
(* From edited text to bytecode, for one function (assembleFunctionBytecode *)
(* in internal/hermes/hermesdec_assembler.go).  A user deletes, inserts    *)
(* and readdresses lines of the function's disassembly; the assembler      *)
(* aligns the edited lines with the current ones, resolves every address   *)
(* against the current layout, and lays the edited function out, giving    *)
(* the long form to every short jump whose target is out of its reach.     *)
(*                                                                         *)
(* A line is an opcode with its plain operands, taken together as op, and  *)
(* a sequence of addresses: the one operand of a jump, relative to the     *)
(* jump; the case lines of a UIntSwitchImm, relative to the function.      *)
(***************************************************************************)
EXTENDS Integers, SequencesExt

CONSTANTS
  Plain,          \* lines without an address
  ShortJump,      \* jumps with an Addr8 operand
  LongJump,       \* jumps with an Addr32 operand
  Switch,         \* UIntSwitchImm
  LongOf,         \* longFormOf, a function on a subset of ShortJump
  Size,           \* encoded size of each op
  MinRel, MaxRel, \* the range of an Addr8 operand
  MaxCells,       \* maxLCSCells
  MaxPasses,      \* maxPasses
  Programs,       \* functions a file may hold
  NewLines,       \* lines a user may type
  NewAddresses,   \* addresses a user may type
  MaxEdits        \* bound on the number of edits

Op == Plain \cup ShortJump \cup LongJump \cup Switch

(* A jump has one address, a switch its cases, any other line none. *)
Lines ==
  {l \in [op : Op, addr : Seq(Int)] :
     /\ l.op \in Plain => l.addr = <<>>
     /\ l.op \in ShortJump \cup LongJump => Len(l.addr) = 1}

ASSUME AssemblerAssumption ==
  /\ ShortJump \cap LongJump = {}
  /\ Plain \cap (ShortJump \cup LongJump) = {}
  /\ Switch \cap (Plain \cup ShortJump \cup LongJump) = {}
  /\ Programs \subseteq Seq(Lines) /\ NewLines \subseteq Lines /\ NewAddresses \subseteq Int
  /\ Size \in [Op -> Nat \ {0}]
  /\ DOMAIN LongOf \subseteq ShortJump
  /\ \A o \in DOMAIN LongOf : LongOf[o] \in LongJump /\ Size[o] <= Size[LongOf[o]]
  /\ MinRel \in Int /\ MaxRel \in Int /\ MinRel <= 0 /\ 0 <= MaxRel
  /\ MaxCells \in Nat /\ MaxPasses \in Nat /\ MaxEdits \in Nat

VARIABLES
  current,   \* the lines the file's bytecode disassembles to
  edited,    \* the lines of the text
  phase,     \* "editing", "resolving", "layout", "done" or "failed"
  alignment, \* for every edited line, its current line, or 0
  target,    \* for every edited line, the edited lines it addresses
  link,      \* asmLink.Inst: the op chosen so far for every edited line
  passes,    \* layout passes begun
  output,    \* the lines the new bytecode disassembles to
  origin,    \* history: the current line each edited line was, or 0
  edits      \* history: edits so far

vars == <<current, edited, phase, alignment, target, link, passes, output,
          origin, edits>>

text == <<current, edited, origin, edits>>

-----------------------------------------------------------------------------
(* Layout. *)

Ops(lines) == [i \in DOMAIN lines |-> lines[i].op]

(* The offset of every line, and the end of the last one. *)
Offsets(ops) ==
  LET off[i \in 1 .. (Len(ops) + 1)] ==
        IF i = 1 THEN 0 ELSE off[i - 1] + Size[ops[i - 1]]
  IN  off

(* findInstructionIndexAtOffset, with 0 for none. *)
IndexAt(ops, a) ==
  LET off  == Offsets(ops)
      here == {i \in 1 .. Len(ops) : off[i] = a}
  IN  IF here = {} THEN 0 ELSE CHOOSE i \in here : TRUE

(* The offset an address v on line i means. *)
Meant(ops, i, v) == IF ops[i] \in Switch THEN v ELSE Offsets(ops)[i] + v

(* The line it means. *)
Addressed(ops, i, v) == IndexAt(ops, Meant(ops, i, v))

Addressing == ShortJump \cup LongJump \cup Switch

-----------------------------------------------------------------------------
(* Alignment.  oneInstructionEqual compares ops only. *)

(* lcsAlign: the matched pairs found by walking back from the ends. *)
LcsPairs(s, t) ==
  LET dp[p \in (0 .. Len(s)) \X (0 .. Len(t))] ==
        IF p[1] = 0 \/ p[2] = 0 THEN 0
        ELSE IF s[p[1]] = t[p[2]] THEN 1 + dp[<<p[1] - 1, p[2] - 1>>]
        ELSE LET up   == dp[<<p[1] - 1, p[2]>>]
                 left == dp[<<p[1], p[2] - 1>>]
             IN  IF up >= left THEN up ELSE left
      back[p \in (0 .. Len(s)) \X (0 .. Len(t))] ==
        IF p[1] = 0 \/ p[2] = 0 THEN {}
        ELSE IF s[p[1]] = t[p[2]] THEN {p} \cup back[<<p[1] - 1, p[2] - 1>>]
        ELSE IF dp[<<p[1] - 1, p[2]>>] >= dp[<<p[1], p[2] - 1>>]
        THEN back[<<p[1] - 1, p[2]>>]
        ELSE back[<<p[1], p[2] - 1>>]
  IN  back[<<Len(s), Len(t)>>]

(* The length of the longest common prefix, of at most most elements. *)
Matching(s, t, most) ==
  CHOOSE n \in 0 .. most :
    /\ \A i \in 1 .. n : s[i] = t[i]
    /\ n = most \/ s[n + 1] # t[n + 1]

(* A mutant of AlignInstructions: the common suffix may overlap the prefix. *)
MutAlignOverlapping(s, t) ==
  LET n      == Len(s)
      m      == Len(t)
      least  == IF n <= m THEN n ELSE m
      prefix == Matching(s, t, least)
      suffix == Matching(Reverse(s), Reverse(t), least)
      pairs  == {<<i, i>> : i \in 1 .. prefix}
                  \cup {<<n - i, m - i>> : i \in 0 .. (suffix - 1)}
  IN  [j \in 1 .. m |-> IF \E i \in 1 .. n : <<i, j>> \in pairs
                        THEN CHOOSE i \in 1 .. n : <<i, j>> \in pairs
                        ELSE 0]

(* alignInstructions: what is left after the common prefix and suffix is
   aligned by lcsAlign, unless its table would be too large. *)
AlignInstructions(s, t) ==
  LET n      == Len(s)
      m      == Len(t)
      least  == IF n <= m THEN n ELSE m
      prefix == Matching(s, t, least)
      suffix == Matching(Reverse(s), Reverse(t), least - prefix)
      mid    == LcsPairs(SubSeq(s, prefix + 1, n - suffix), SubSeq(t, prefix + 1, m - suffix))
      small  == (n - prefix - suffix + 1) * (m - prefix - suffix + 1) <= MaxCells
      pairs  == {<<i, i>> : i \in 1 .. prefix}
                  \cup {<<n - i, m - i>> : i \in 0 .. (suffix - 1)}
                  \cup (IF small THEN {<<prefix + p[1], prefix + p[2]>> : p \in mid} ELSE {})
  IN  [j \in 1 .. m |-> IF \E i \in 1 .. n : <<i, j>> \in pairs
                        THEN CHOOSE i \in 1 .. n : <<i, j>> \in pairs
                        ELSE 0]

-----------------------------------------------------------------------------
(* The user. *)

Edit(lines, origins) ==
  /\ phase = "editing"
  /\ edits < MaxEdits
  /\ edited' = lines
  /\ origin' = origins
  /\ edits' = edits + 1
  /\ UNCHANGED <<current, phase, alignment, target, link, passes, output>>

DeleteLine(k)    == Edit(RemoveAt(edited, k), RemoveAt(origin, k))
InsertLine(k, x) == Edit(InsertAt(edited, k, x), InsertAt(origin, k, 0))

Readdress(k, v) ==
  /\ edited[k].op \in Addressing
  /\ Edit([edited EXCEPT ![k].addr = <<v>>], origin)

(* A switch without case lines, as in the text of the default format. *)
OmitCases(k) ==
  /\ edited[k].op \in Switch
  /\ Edit([edited EXCEPT ![k].addr = <<>>], origin)

-----------------------------------------------------------------------------
(* The assembler. *)

(* instructionsEqual: absent case lines are no difference. *)
LinesEqual(s, t) ==
  /\ Ops(s) = Ops(t)
  /\ \A i \in DOMAIN s :
       s[i].addr = t[i].addr \/ (t[i].op \in Switch /\ t[i].addr = <<>>)

Align ==
  /\ phase = "editing"
  /\ ~LinesEqual(current, edited)
  /\ alignment' = AlignInstructions(Ops(current), Ops(edited))
  /\ link' = Ops(edited)
  /\ phase' = "resolving"
  /\ UNCHANGED <<text, target, passes, output>>

(* The addresses of line j: a switch without case lines keeps its table. *)
Addresses(j) ==
  IF edited[j].op \in Switch /\ edited[j].addr = <<>>
  THEN current[alignment[j]].addr
  ELSE edited[j].addr

(* Mutants of Resolved: the address is read in the edited layout; the current
   line is taken for the edited one. *)
MutResolvedInText(j, v) == {Addressed(Ops(edited), j, v)} \ {0}

MutResolvedUnmapped(j, v) == {Addressed(Ops(current), alignment[j], v)} \ {0}

(* The edited line that address v of line j stands for: the current line v
   means at the place line j has in the current function, after the edit. *)
Resolved(j, v) ==
  LET line == Addressed(Ops(current), alignment[j], v)
  IN  {k \in DOMAIN edited : line # 0 /\ alignment[k] = line}

Resolvable(j) ==
  edited[j].op \in Addressing =>
    /\ alignment[j] # 0
    /\ \A n \in DOMAIN Addresses(j) : Resolved(j, Addresses(j)[n]) # {}

Resolve ==
  /\ phase = "resolving"
  /\ IF \A j \in DOMAIN edited : Resolvable(j)
     THEN /\ target' = [j \in DOMAIN edited |->
                          IF edited[j].op \in Addressing
                          THEN [n \in DOMAIN Addresses(j) |->
                                  CHOOSE k \in Resolved(j, Addresses(j)[n]) : TRUE]
                          ELSE <<>>]
          /\ phase' = "layout"
     ELSE /\ phase' = "failed"
          /\ UNCHANGED target
  /\ UNCHANGED <<text, alignment, link, passes, output>>

-----------------------------------------------------------------------------
Distance(ops, i, k) == Offsets(ops)[k] - Offsets(ops)[i]

(* A mutant of InReach: the extreme values are left out. *)
MutInReachStrict(d) == MinRel < d /\ d < MaxRel

InReach(d) == MinRel <= d /\ d <= MaxRel

(* The short jumps that do not reach their targets under this layout. *)
OutOfReach(ops) ==
  {i \in DOMAIN ops : /\ ops[i] \in ShortJump
                      /\ \E n \in DOMAIN target[i] : ~InReach(Distance(ops, i, target[i][n]))}

Promoted(ops, W) == [i \in DOMAIN ops |-> IF i \in W THEN LongOf[ops[i]] ELSE ops[i]]

(* encodeOperand: the error of parseOperandValue is dropped, and its value 0. *)
Encoded(ops, i, k) ==
  CASE ops[i] \in Switch    -> Offsets(ops)[k]
    [] ops[i] \in LongJump  -> Distance(ops, i, k)
    [] ops[i] \in ShortJump -> IF InReach(Distance(ops, i, k)) THEN Distance(ops, i, k) ELSE 0

Encode(ops) ==
  [i \in DOMAIN ops |->
     [op |-> ops[i], addr |-> [n \in DOMAIN target[i] |-> Encoded(ops, i, target[i][n])]]]

(* A mutant of LayoutPass: every short jump counts as changed. *)
MutLayoutPassRestless ==
  LET far   == OutOfReach(link)
      short == {i \in DOMAIN link : link[i] \in ShortJump}
  IN
  /\ phase = "layout"
  /\ IF passes >= MaxPasses \/ (\E i \in far : link[i] \notin DOMAIN LongOf)
     THEN /\ phase' = "failed"
          /\ UNCHANGED <<link, output>>
     ELSE IF short # {}
     THEN /\ link' = Promoted(link, far)
          /\ UNCHANGED <<phase, output>>
     ELSE /\ output' = Encode(link)
          /\ phase' = "done"
          /\ UNCHANGED link
  /\ passes' = passes + 1
  /\ UNCHANGED <<text, alignment, target>>

(* One pass of the promotion loop; the pass that changes nothing is the
   last one, and the bytes are emitted. *)
LayoutPass ==
  LET far == OutOfReach(link)
  IN
  /\ phase = "layout"
  /\ IF passes >= MaxPasses \/ (\E i \in far : link[i] \notin DOMAIN LongOf)
     THEN /\ phase' = "failed"
          /\ UNCHANGED <<link, output>>
     ELSE IF far # {}
     THEN /\ link' = Promoted(link, far)
          /\ UNCHANGED <<phase, output>>
     ELSE /\ output' = Encode(link)
          /\ phase' = "done"
          /\ UNCHANGED link
  /\ passes' = passes + 1
  /\ UNCHANGED <<text, alignment, target>>

(* The patched function, or after an error the old one, is disassembled. *)
Disassemble ==
  LET lines == IF phase = "done" THEN output ELSE current
  IN
  /\ phase \in {"done", "failed"}
  /\ current' = lines
  /\ edited' = lines
  /\ origin' = [i \in DOMAIN lines |-> i]
  /\ phase' = "editing"
  /\ alignment' = <<>> /\ target' = <<>> /\ link' = <<>> /\ output' = <<>>
  /\ passes' = 0
  /\ UNCHANGED edits

-----------------------------------------------------------------------------
Init ==
  /\ current \in Programs
  /\ edited = current
  /\ origin = [i \in DOMAIN current |-> i]
  /\ phase = "editing"
  /\ alignment = <<>> /\ target = <<>> /\ link = <<>> /\ output = <<>>
  /\ passes = 0 /\ edits = 0

Next ==
  \/ \E k \in DOMAIN edited : DeleteLine(k)
  \/ \E k \in 1 .. (Len(edited) + 1), x \in NewLines : InsertLine(k, x)
  \/ \E k \in DOMAIN edited, v \in NewAddresses : Readdress(k, v)
  \/ \E k \in DOMAIN edited : OmitCases(k)
  \/ Align
  \/ Resolve
  \/ LayoutPass
  \/ Disassemble

Spec == Init /\ [][Next]_vars

-----------------------------------------------------------------------------
(***************************************************************************)
(* The type invariant: once the addresses are resolved, every one of them  *)
(* is a line of the edited text, so the layout loop indexes no line -1.    *)
(***************************************************************************)
TypeOK ==
  /\ \A lines \in {current, edited, output} : Ops(lines) \in Seq(Op)
  /\ phase \in {"editing", "resolving", "layout", "done", "failed"}
  /\ DOMAIN origin = DOMAIN edited
  /\ passes \in 0 .. (MaxPasses + 1)
  /\ edits \in 0 .. MaxEdits
  /\ phase \in {"layout", "done"} =>
       /\ Ops(edited) \in [DOMAIN link -> Op]
       /\ target \in [DOMAIN edited -> Seq(DOMAIN edited)]

(* The edited lines that have a counterpart. *)
Matched == {j \in DOMAIN alignment : alignment[j] # 0}

(* How many lines of S there are up to line i. *)
Rank(S, i) == Cardinality({x \in S : x <= i})

(* The lines S of s and T of t, taken in order, are the same. *)
Common(s, t, S, T) == \A i \in S, j \in T : Rank(S, i) = Rank(T, j) => s[i] = t[j]

(***************************************************************************)
(* The alignment is an ordered matching of equal lines and no longer one   *)
(* exists, although the common prefix and suffix are taken off before the  *)
(* LCS table is built (unless the table is too large to build).            *)
(***************************************************************************)
AlignmentLongest ==
  phase = "resolving" =>
    /\ \A j \in Matched : current[alignment[j]].op = edited[j].op
    /\ \A i, j \in Matched : i < j => alignment[i] < alignment[j]
    /\ (Len(current) + 1) * (Len(edited) + 1) <= MaxCells =>
         \A S \in SUBSET DOMAIN current, T \in SUBSET DOMAIN edited :
           Cardinality(S) = Cardinality(T) /\ Cardinality(S) > Cardinality(Matched)
             => ~Common(Ops(current), Ops(edited), S, T)

(* No line occurs twice. *)
Unambiguous == IsInjective(Ops(current)) /\ IsInjective(Ops(edited))

(***************************************************************************)
(* When no line occurs twice, neither before nor after the edits, every    *)
(* branch and every case of the new bytecode lands on the line that it     *)
(* meant in the old function, through any deletion, insertion, retyped     *)
(* address and change of layout; otherwise the assembly fails.             *)
(***************************************************************************)
EditsFollowed ==
  phase = "done" /\ Unambiguous =>
    \A j \in DOMAIN edited, i \in DOMAIN current :
      edited[j].op \in Addressing /\ current[i].op = edited[j].op =>
        \A n \in DOMAIN Addresses(j) :
          LET meant == Addressed(Ops(current), i, Addresses(j)[n])
              lands == Addressed(Ops(output), j, output[j].addr[n])
          IN  /\ meant # 0 /\ lands # 0
              /\ edited[lands].op = current[meant].op

(* No short jump of this layout is out of reach of its target. *)
ShortJumpsReach(ops) ==
  \A i \in DOMAIN ops : ops[i] \in ShortJump =>
    \A n \in DOMAIN target[i] : Distance(ops, i, target[i][n]) \in MinRel .. MaxRel

(***************************************************************************)
(* The jumps that got their long form are those of the least layout in     *)
(* which every jump left short reaches: none is promoted needlessly, and   *)
(* none that is left short is encoded with a truncated address.            *)
(***************************************************************************)
LeastPromotion ==
  phase = "done" =>
    LET grown == {i \in DOMAIN link : link[i] # edited[i].op}
        able  == {i \in DOMAIN link : edited[i].op \in DOMAIN LongOf}
    IN  /\ ShortJumpsReach(link)
        /\ \A W \in SUBSET able :
             ShortJumpsReach(Promoted(Ops(edited), W)) => grown \subseteq W

(***************************************************************************)
(* The layout loop gives up only on functions with at least maxPasses      *)
(* jumps to promote: every pass but the last promotes one.                 *)
(***************************************************************************)
PassesPayOff ==
  phase \in {"layout", "done"} =>
    passes <= Cardinality({i \in DOMAIN link : link[i] # edited[i].op})
                + (IF phase = "done" THEN 1 ELSE 0)

(* A jump that the user left alone. *)
KeptJump(j) ==
  /\ edited[j].op \in ShortJump \cup LongJump
  /\ origin[j] # 0
  /\ edited[j] = current[origin[j]]

(***************************************************************************)
(* The alignment is there so that a branch "stays correct regardless of    *)
(* how much was inserted or removed between a branch and its target": a    *)
(* jump the user left alone should land where it did, if the line it       *)
(* landed on is still there.                                               *)
(***************************************************************************)
KeptJumpsKeepTargets ==
  phase = "done" =>
    \A j \in DOMAIN edited : KeptJump(j) =>
      LET goal == Addressed(Ops(current), origin[j], edited[j].addr[1])
      IN  (\E k \in DOMAIN origin : origin[k] = goal) => origin[target[j][1]] = goal
=============================================================================
