------------------------ MODULE PatchSession_proofs ------------------------
(***************************************************************************)
(* The interactive patcher, for any number of functions, any file, any     *)
(* edits, any cells written and any sequence of commands.                  *)
(*                                                                         *)
(* CleanInv adds to CleanIsSaved that the image last saved ends in its     *)
(* hash.  Whatever else changes the file either marks the session dirty in *)
(* the same step, or has left the prompt, and comes back to it dirty       *)
(* (PatchStep) or broken (Report); a complete save makes saved and memory  *)
(* equal, and one that fails finds the hash of a clean image in place.     *)
(*                                                                         *)
(* What a reader of the file sees, and where the cursor stands, follow     *)
(* from SessionInv.  The engine of HermesPatch runs here on files a wx has *)
(* changed, so its invariant cannot be taken as it is: ShapeInv, the part  *)
(* of it that does not read the image, is what every wx leaves alone.      *)
(* OneFunction adds where a wi is: it edits the one function that holds    *)
(* the cursor, and its new body, perhaps shorter than the old one, still   *)
(* reaches past the cursor.                                                *)
(***************************************************************************)
EXTENDS PatchSession, HermesPatch_proofs

-----------------------------------------------------------------------------
(* Leaving the prompt. *)

(* A batch leaves the prompt when it begins. *)
LEMMA BeginLeavesPrompt ==
  ASSUME NEW S, Begin(S)
  PROVE  phase' = "pick"
BY DEF Begin

(* What is added to CleanIsSaved: hashing the image last saved again would
   not change it. *)
CleanInv ==
  /\ CleanIsSaved
  /\ saved.raw = [saved.raw EXCEPT ![saved.len - 1] = FooterCell]

(***************************************************************************)
(* The engine comes back to the prompt dirty, although it changes the file *)
(* in any number of steps before.                                          *)
(***************************************************************************)
LEMMA PatchStepKeepsClean ==
  ASSUME CleanInv, PatchStep
  PROVE  CleanInv'
<1>1. /\ dirty' = (dirty \/ phase' = "idle")
      /\ UNCHANGED <<saved, disk, open>>
  BY DEF PatchStep
<1> QED
  BY <1>1 DEF CleanInv, CleanIsSaved, Torn

(* The hash put into an image that has it. *)
LEMMA HashTwice ==
  ASSUME NEW raw, NEW a
  PROVE  [[raw EXCEPT ![a] = FooterCell] EXCEPT ![a] = FooterCell]
           = [raw EXCEPT ![a] = FooterCell]
OBVIOUS

(* What Hashed changes. *)
LEMMA HashedParts ==
  /\ Image(Hashed) = [raw |-> [file.raw EXCEPT ![file.len - 1] = FooterCell],
                      len |-> file.len]
  /\ Image(Hashed).raw = [file.raw EXCEPT ![file.len - 1] = FooterCell]
  /\ Image(Hashed).len = file.len
  /\ Image(file).raw = file.raw /\ Image(file).len = file.len
BY DEF Hashed, Image, WithRaw

(* A complete save makes saved and memory equal. *)
LEMMA CompleteSaveKeepsClean ==
  ASSUME CleanInv, file' = Hashed, saved' = Image(file'),
         open' => disk' \in {saved', Torn}
  PROVE  CleanInv'
<1>1. saved' = Image(Hashed)
  BY DEF Image
<1>2. saved'.raw = [saved'.raw EXCEPT ![saved'.len - 1] = FooterCell]
  BY <1>1, HashedParts, HashTwice
<1>3. Torn' = Torn
  BY DEF Torn
<1>4. CleanIsSaved'
  BY <1>3 DEF CleanIsSaved, Image
<1> QED
  BY <1>2, <1>4 DEF CleanInv

(* One that fails changes no image that is clean: the hash is in place. *)
LEMMA FailedSaveKeepsClean ==
  ASSUME CleanInv, phase = "idle", file' = Hashed,
         UNCHANGED <<dirty, saved, open, broken>>,
         disk' \in {disk, Torn}
  PROVE  CleanInv'
<1>1. ASSUME ~dirty, ~broken PROVE Image(Hashed) = saved
  <2>1. saved = Image(file)
    BY <1>1 DEF CleanInv, CleanIsSaved
  <2>2. file.raw = [file.raw EXCEPT ![file.len - 1] = FooterCell]
    BY <2>1, HashedParts DEF CleanInv
  <2> QED
    BY <2>1, <2>2 DEF Image, Hashed, WithRaw
<1>2. Torn' = Torn /\ Image(file)' = Image(Hashed)
  BY DEF Torn, Image
<1>3. CleanIsSaved'
  BY <1>1, <1>2 DEF CleanInv, CleanIsSaved
<1> QED
  BY <1>3 DEF CleanInv

(* Commands that change neither the image nor what was saved. *)
LEMMA RestKeepsClean ==
  ASSUME CleanInv, phase = "idle", UNCHANGED <<file, dirty, saved, disk, broken>>,
         open' => open
  PROVE  CleanInv'
BY DEF CleanInv, CleanIsSaved, Image, Torn

(* Commands after which the session is dirty, or not at the prompt. *)
LEMMA ChangeKeepsClean ==
  ASSUME CleanInv, UNCHANGED <<saved, disk, open>>,
         dirty' \/ broken' \/ phase' # "idle"
  PROVE  CleanInv'
BY DEF CleanInv, CleanIsSaved, Torn

(***************************************************************************)
(* Leaving without a warning loses no change, in every session: a prompt   *)
(* that is not dirty shows the image last opened or completely written,    *)
(* whatever saves failed before, unless a wi failed half way.              *)
(***************************************************************************)
THEOREM CleanIsSavedHolds == SessionSpec => []CleanIsSaved
<1>1. SessionInit => CleanInv
  <2> SUFFICES ASSUME SessionInit PROVE CleanInv
    OBVIOUS
  <2>1. /\ Hashed = file /\ saved = Image(file) /\ disk = Image(file)
    BY DEF SessionInit
  <2>2. file.raw = [file.raw EXCEPT ![file.len - 1] = FooterCell]
    BY <2>1, HashedParts
  <2>3. saved.raw = [saved.raw EXCEPT ![saved.len - 1] = FooterCell]
    BY <2>1, <2>2, HashedParts
  <2> QED
    BY <2>1, <2>3 DEF CleanInv, CleanIsSaved
<1>2. CleanInv /\ [SessionNext]_sessionVars => CleanInv'
  <2> SUFFICES ASSUME CleanInv, [SessionNext]_sessionVars
               PROVE  CleanInv'
    OBVIOUS
  <2>1. CASE \E a \in Address(file) : Seek(a)
    BY <2>1, RestKeepsClean DEF Seek, AtPrompt, vars, hindsight
  <2>2. CASE \E i \in Func : SeekFunction(i)
    BY <2>2, RestKeepsClean DEF SeekFunction, AtPrompt, vars, hindsight
  <2>3. CASE \E cells \in Written : WriteBytes(cells)
    BY <2>3, ChangeKeepsClean DEF WriteBytes
  <2>4. CASE WriteInstruction
    <3>1. PICK f : Begin({f})
      BY <2>4 DEF WriteInstruction
    <3>2. phase' = "pick" /\ UNCHANGED <<saved, disk, open>>
      BY <2>4, <3>1, BeginLeavesPrompt DEF WriteInstruction
    <3> QED
      BY <3>2, ChangeKeepsClean
  <2>5. CASE PatchStep
    BY <2>5, PatchStepKeepsClean
  <2>6. CASE Report
    BY <2>6, ChangeKeepsClean DEF Report
  <2>7. CASE Save
    <3>1. /\ phase = "idle" /\ file' = Hashed /\ UNCHANGED <<open, broken>>
          /\ \/ disk' = Image(file') /\ saved' = Image(file')
             \/ disk' = Torn /\ UNCHANGED <<dirty, saved>>
      BY <2>7 DEF Save, AtPrompt, hindsight
    <3> QED
      BY <3>1, CompleteSaveKeepsClean, FailedSaveKeepsClean
  <2>8. CASE SaveElsewhere
    <3>1. /\ phase = "idle" /\ file' = Hashed /\ UNCHANGED <<disk, broken>>
          /\ \/ saved' = Image(file') /\ open' = FALSE
             \/ UNCHANGED <<dirty, saved, open>>
      BY <2>8 DEF SaveElsewhere, AtPrompt, hindsight
    <3> QED
      BY <3>1, CompleteSaveKeepsClean, FailedSaveKeepsClean
  <2>9. CASE Quit \/ Abandon
    BY <2>9, RestKeepsClean DEF Quit, Abandon, AtPrompt, vars, hindsight
  <2>10. CASE UNCHANGED sessionVars
    BY <2>10 DEF sessionVars, vars, hindsight, CleanInv, CleanIsSaved, Image, Torn
  <2> QED
    BY <2>1, <2>2, <2>3, <2>4, <2>5, <2>6, <2>7, <2>8, <2>9, <2>10 DEF SessionNext
<1>3. CleanInv => CleanIsSaved
  BY DEF CleanInv
<1> QED
  BY <1>1, <1>2, <1>3, PTL DEF SessionSpec

-----------------------------------------------------------------------------
(* What FlattenSeq, SelectSeq and FuncAtOffset return. *)

(* f concatenates the first m sequences of s, each time one more. *)
Concatenates(f, s, m) ==
  f = [i \in 1 .. m |-> IF i = 1 THEN s[i] ELSE f[i - 1] \o s[i]]

(* There is such a function for every m. *)
LEMMA ConcatenationExists ==
  ASSUME NEW s, NEW n \in Nat, NEW m \in 1 .. n
  PROVE  \E f : Concatenates(f, s, m)
<1> DEFINE Missing == {k \in 1 .. n : ~ \E f : Concatenates(f, s, k)}
<1>1. SUFFICES ASSUME Missing # {} PROVE FALSE
  OBVIOUS
<1>2. PICK k \in Missing : \A x \in Missing : k <= x
  <2>1. Missing \subseteq Nat
    OBVIOUS
  <2> HIDE DEF Missing
  <2> QED
    BY <1>1, <2>1, LeastElement
<1>3. k \in 1 .. n /\ ~ \E f : Concatenates(f, s, k)
  OBVIOUS
<1>4. CASE k = 1
  <2> DEFINE f == [i \in 1 .. 1 |-> s[1]]
  <2>1. Concatenates(f, s, 1)
    <3>1. \A i \in 1 .. 1 : i = 1
      OBVIOUS
    <3>2. f = [i \in 1 .. 1 |-> IF i = 1 THEN s[i] ELSE f[i - 1] \o s[i]]
      BY <3>1
    <3> QED
      BY <3>2 DEF Concatenates
  <2> QED
    BY <1>3, <1>4, <2>1
<1>5. CASE k # 1
  <2>1. k - 1 \in 1 .. n /\ k - 1 \notin Missing
    BY <1>2, <1>3, <1>5
  <2>2. PICK f : Concatenates(f, s, k - 1)
    BY <2>1
  <2> DEFINE g == [i \in 1 .. k |-> IF i = k THEN f[k - 1] \o s[k] ELSE f[i]]
  <2>3. ASSUME NEW i \in 1 .. k
        PROVE  g[i] = IF i = 1 THEN s[i] ELSE g[i - 1] \o s[i]
    <3>1. CASE i = k
      <4>1. k - 1 \in 1 .. k /\ k - 1 # k
        BY <1>3, <1>5
      <4>2. g[k] = f[k - 1] \o s[k] /\ g[k - 1] = f[k - 1]
        BY <3>1, <4>1
      <4> QED
        BY <1>5, <3>1, <4>2
    <3>2. CASE i # k
      <4>1. i \in 1 .. (k - 1)
        BY <1>3, <3>2
      <4>2. f[i] = IF i = 1 THEN s[i] ELSE f[i - 1] \o s[i]
        BY <2>2, <4>1 DEF Concatenates
      <4>3. i # 1 => i - 1 \in 1 .. k /\ i - 1 # k
        BY <1>3, <4>1
      <4>4. g[i] = f[i] /\ (i # 1 => g[i - 1] = f[i - 1])
        BY <3>2, <4>3
      <4> HIDE DEF g
      <4> QED
        BY <4>2, <4>4
    <3> QED
      BY <3>1, <3>2
  <2>4. g = [i \in 1 .. k |-> g[i]]
    OBVIOUS
  <2> HIDE DEF g
  <2>5. Concatenates(g, s, k)
    BY <2>3, <2>4, Zenon DEF Concatenates
  <2> QED
    BY <1>3, <2>5
<1> QED
  BY <1>4, <1>5

(* Every prefix of the concatenation is a sequence. *)
LEMMA ConcatenationType ==
  ASSUME NEW S, NEW s, NEW n \in Nat, NEW f, Concatenates(f, s, n),
         \A p \in 1 .. n : s[p] \in Seq(S),
         NEW m \in 1 .. n
  PROVE  f[m] \in Seq(S)
<1> DEFINE Wrong == {k \in 1 .. n : f[k] \notin Seq(S)}
<1>1. SUFFICES ASSUME Wrong # {} PROVE FALSE
  OBVIOUS
<1>2. PICK k \in Wrong : \A x \in Wrong : k <= x
  <2>1. Wrong \subseteq Nat
    OBVIOUS
  <2> HIDE DEF Wrong
  <2> QED
    BY <1>1, <2>1, LeastElement
<1>3. k \in 1 .. n /\ f[k] \notin Seq(S)
  OBVIOUS
<1>4. f[k] = IF k = 1 THEN s[k] ELSE f[k - 1] \o s[k]
  BY <1>3 DEF Concatenates
<1>5. CASE k = 1
  BY <1>3, <1>4, <1>5
<1>6. CASE k # 1
  <2>1. k - 1 \in 1 .. n /\ k - 1 \notin Wrong
    BY <1>2, <1>3, <1>6
  <2>2. f[k - 1] \in Seq(S) /\ s[k] \in Seq(S)
    BY <1>3, <2>1
  <2> QED
    BY <1>3, <1>4, <1>6, <2>2, ConcatProperties
<1> QED
  BY <1>5, <1>6

(* How long the first m sequences are together. *)
LengthBefore(f, m) == IF m = 1 THEN 0 ELSE Len(f[m - 1])

LEMMA ConcatenationStep ==
  ASSUME NEW S, NEW s, NEW n \in Nat, NEW f, Concatenates(f, s, n),
         \A p \in 1 .. n : s[p] \in Seq(S),
         NEW m \in 1 .. n
  PROVE  /\ Len(f[m]) \in Nat /\ Len(s[m]) \in Nat /\ LengthBefore(f, m) \in Nat
         /\ Len(f[m]) = LengthBefore(f, m) + Len(s[m])
<1>1. f[m] = IF m = 1 THEN s[m] ELSE f[m - 1] \o s[m]
  BY DEF Concatenates
<1>2. f[m] \in Seq(S) /\ s[m] \in Seq(S)
  BY ConcatenationType
<1>3. Len(f[m]) \in Nat /\ Len(s[m]) \in Nat
  BY <1>2, LenProperties
<1>4. CASE m = 1
  BY <1>1, <1>3, <1>4 DEF LengthBefore
<1>5. CASE m # 1
  <2>1. m - 1 \in 1 .. n
    BY <1>5
  <2>2. f[m - 1] \in Seq(S)
    BY <2>1, ConcatenationType
  <2> DEFINE old == f[m - 1]
             new == s[m]
  <2>3. old \in Seq(S) /\ new \in Seq(S) /\ f[m] = old \o new
    BY <1>1, <1>2, <1>5, <2>2
  <2> HIDE DEF old, new
  <2>4. Len(old \o new) = Len(old) + Len(new) /\ Len(old) \in Nat
    BY <2>3, ConcatProperties, LenProperties
  <2>5. LengthBefore(f, m) = Len(old)
    BY <1>5 DEF LengthBefore, old
  <2> QED
    BY <1>3, <2>3, <2>4, <2>5 DEF new
<1> QED
  BY <1>4, <1>5

(* More sequences are not shorter. *)
LEMMA ConcatenationMonotone ==
  ASSUME NEW S, NEW s, NEW n \in Nat, NEW f, Concatenates(f, s, n),
         \A p \in 1 .. n : s[p] \in Seq(S),
         NEW m \in 1 .. n, NEW l \in 1 .. n, m <= l
  PROVE  Len(f[m]) <= Len(f[l])
<1> DEFINE Wrong == {k \in 1 .. n : m <= k /\ ~ (Len(f[m]) <= Len(f[k]))}
<1>1. SUFFICES ASSUME Wrong # {} PROVE FALSE
  OBVIOUS
<1>2. PICK k \in Wrong : \A x \in Wrong : k <= x
  <2>1. Wrong \subseteq Nat
    OBVIOUS
  <2> HIDE DEF Wrong
  <2> QED
    BY <1>1, <2>1, LeastElement
<1>3. k \in 1 .. n /\ m <= k /\ ~ (Len(f[m]) <= Len(f[k]))
  OBVIOUS
<1>4. /\ Len(f[m]) \in Nat
      /\ Len(f[k]) \in Nat /\ Len(s[k]) \in Nat /\ LengthBefore(f, k) \in Nat
      /\ Len(f[k]) = LengthBefore(f, k) + Len(s[k])
  BY <1>3, ConcatenationStep
<1>5. m # k
  BY <1>3, <1>4
<1>6. k - 1 \in 1 .. n /\ m <= k - 1 /\ k - 1 \notin Wrong /\ k # 1
  BY <1>2, <1>3, <1>5
<1>7. Len(f[m]) <= Len(f[k - 1])
  BY <1>6
<1>8. LengthBefore(f, k) = Len(f[k - 1])
  BY <1>6 DEF LengthBefore
<1> HIDE DEF Wrong
<1> DEFINE a == Len(f[m])
           b == Len(f[k])
           c == LengthBefore(f, k)
           d == Len(s[k])
<1>9. /\ a \in Nat /\ b \in Nat /\ c \in Nat /\ d \in Nat
      /\ b = c + d /\ ~ (a <= b) /\ a <= c
  BY <1>3, <1>4, <1>7, <1>8
<1> HIDE DEF a, b, c, d
<1> QED
  BY <1>9

(* FlattenSeq is the last of the prefixes. *)
LEMMA FlattenParts ==
  ASSUME NEW s, NEW n \in Nat \ {0}, s = [p \in 1 .. n |-> s[p]]
  PROVE  \E f : Concatenates(f, s, n) /\ FlattenSeq(s) = f[n]
<1> DEFINE fl == CHOOSE f : Concatenates(f, s, n)
<1>1. Len(s) = n
  BY LenOfFunction
<1>2. FlattenSeq(s) = fl[n]
  BY <1>1 DEF FlattenSeq, Concatenates
<1>3. n \in 1 .. n
  OBVIOUS
<1>4. Concatenates(fl, s, n)
  BY <1>3, ConcatenationExists
<1> HIDE DEF fl
<1> QED
  BY <1>2, <1>4

(* A sequence over a set is one over any larger set. *)
LEMMA SeqMonotone ==
  ASSUME NEW S, NEW T, S \subseteq T, NEW s \in Seq(S)
  PROVE  s \in Seq(T)
<1>1. PICK n \in Nat : s \in [1 .. n -> S]
  BY SeqDef
<1>2. s \in [1 .. n -> T]
  BY <1>1
<1> QED
  BY <1>2, SeqDef

(* The walk starts at the first cell and goes on where an instruction ends. *)
LEMMA StartsClosed ==
  ASSUME NEW code
  PROVE  /\ 1 \in DOMAIN code => 1 \in Starts(code)
         /\ \A q \in Starts(code) :
              q + WidthOf(code[q]) \in DOMAIN code
                => q + WidthOf(code[q]) \in Starts(code)
BY DEF Starts

(* Any cell counts for at least one. *)
LEMMA WidthPositive ==
  ASSUME NEW u
  PROVE  WidthOf(u) \in Nat /\ WidthOf(u) >= 1
BY SessionAssumption DEF WidthOf

(* An instruction is a sequence of its width. *)
LEMMA InstructionParts ==
  ASSUME NEW code, NEW S, Zero \in S, \A p \in DOMAIN code : code[p] \in S, NEW p
  PROVE  /\ InstructionAt(code, p) \in Seq(S)
         /\ Len(InstructionAt(code, p)) = WidthOf(code[p])
<1> DEFINE w == WidthOf(code[p])
           i == InstructionAt(code, p)
<1>1. w \in Nat
  BY WidthPositive
<1>2. i \in [1 .. w -> S]
  BY DEF InstructionAt
<1>3. i = [n \in 1 .. w |-> i[n]]
  BY DEF InstructionAt
<1> HIDE DEF i, w
<1>4. i \in Seq(S) /\ Len(i) = w
  BY <1>1, <1>2, <1>3, SeqDef, LenOfFunction
<1> QED
  BY <1>4 DEF i, w

(***************************************************************************)
(* A body that a wi rewrites from position k on may shrink, but not to     *)
(* less than k: what stands in front of the instruction replaced keeps its *)
(* width or grows, and the new instruction is not empty.                   *)
(***************************************************************************)
LEMMA NewBodiesReach ==
  ASSUME NEW code, NEW n \in Nat, code = [p \in 1 .. n |-> code[p]],
         NEW k \in Starts(code), NEW body \in NewBodies(code, k)
  PROVE  k \in Nat /\ k <= Len(body)
<1>1. Len(code) = n /\ DOMAIN code = 1 .. n
  BY LenOfFunction
<1>2. PICK r \in Replacements, W \in SUBSET {p \in Starts(code) \ {k} : code[p] \in Jump} :
        body = Rewritten(code, k, r, W)
  BY DEF NewBodies
<1>3. k \in 1 .. n /\ n # 0
  BY <1>1 DEF Starts
<1> DEFINE S    == {Zero} \cup Unit \cup {code[p] : p \in 1 .. n}
           part == [p \in 1 .. n |->
                      IF p \notin Starts(code) THEN <<>>
                      ELSE IF p = k THEN r
                      ELSE IF p \in W THEN Long[code[p]] ELSE InstructionAt(code, p)]
<1>4. body = FlattenSeq(part)
  BY <1>1, <1>2 DEF Rewritten
<1>5. Unit \subseteq S /\ Zero \in S /\ \A p \in DOMAIN code : code[p] \in S
  BY <1>1
<1> HIDE DEF S
<1>6. r \in Seq(S) /\ Len(r) \in Nat /\ Len(r) >= 1
  <2>1. r \in Seq(Unit) /\ r # <<>>
    BY <1>2, SessionAssumption
  <2>2. Len(r) \in Nat \ {0}
    BY <2>1, EmptySeq
  <2> QED
    BY <1>5, <2>1, <2>2, SeqMonotone
<1>7. ASSUME NEW p \in W
      PROVE  Long[code[p]] \in Seq(S) /\ Len(Long[code[p]]) >= WidthOf(code[p])
  <2>1. code[p] \in Jump
    BY <1>2
  <2>2. Long[code[p]] \in Seq(Unit) /\ Len(Long[code[p]]) >= Width[code[p]]
    BY <2>1, SessionAssumption
  <2>3. WidthOf(code[p]) = Width[code[p]]
    BY <2>1, SessionAssumption DEF WidthOf
  <2> QED
    BY <1>5, <2>2, <2>3, SeqMonotone
<1>8. ASSUME NEW p \in 1 .. n
      PROVE  /\ part[p] \in Seq(S)
             /\ p \in Starts(code) /\ p # k => Len(part[p]) >= WidthOf(code[p])
  <2>1. InstructionAt(code, p) \in Seq(S) /\ Len(InstructionAt(code, p)) = WidthOf(code[p])
    BY <1>5, InstructionParts
  <2>2. <<>> \in Seq(S)
    BY EmptySeq
  <2>3. WidthOf(code[p]) \in Nat
    BY WidthPositive
  <2>4. part[p] = IF p \notin Starts(code) THEN <<>>
                  ELSE IF p = k THEN r
                  ELSE IF p \in W THEN Long[code[p]] ELSE InstructionAt(code, p)
    OBVIOUS
  <2> HIDE DEF part
  <2>5. CASE p \in W
    BY <1>6, <1>7, <2>2, <2>4, <2>5
  <2>6. CASE p \notin W
    BY <1>6, <2>1, <2>2, <2>3, <2>4, <2>6
  <2> QED
    BY <2>5, <2>6
<1>9. part[k] = r
  BY <1>3
<1>10. PICK f : Concatenates(f, part, n) /\ FlattenSeq(part) = f[n]
  <2>1. part = [p \in 1 .. n |-> part[p]]
    OBVIOUS
  <2> HIDE DEF part
  <2> QED
    BY <1>3, <2>1, FlattenParts
<1> HIDE DEF part
<1>11. \A p \in 1 .. n : part[p] \in Seq(S)
  BY <1>8
<1> DEFINE T == {p \in Starts(code) : p <= k => LengthBefore(f, p) >= p - 1}
<1>12. 1 \in T
  BY <1>1, <1>3, StartsClosed DEF LengthBefore
<1>13. ASSUME NEW q \in T, q + WidthOf(code[q]) \in DOMAIN code
       PROVE  q + WidthOf(code[q]) \in T
  <2> DEFINE w == WidthOf(code[q])
             t == q + w
  <2>1. q \in Starts(code) /\ q \in 1 .. n /\ t \in Starts(code) /\ t \in 1 .. n
    BY <1>1, <1>13, StartsClosed DEF Starts
  <2>2. w \in Nat /\ w >= 1
    BY WidthPositive
  <2>3. SUFFICES ASSUME t <= k PROVE LengthBefore(f, t) >= t - 1
    BY <2>1
  <2>4. q < k /\ q <= t - 1 /\ t # 1 /\ t - 1 \in 1 .. n /\ k \in Nat
    BY <1>3, <2>1, <2>2, <2>3
  <2>5. LengthBefore(f, q) >= q - 1
    <3>1. q <= k
      BY <1>3, <2>1, <2>4
    <3> QED
      BY <1>13, <3>1
  <2>6. Len(part[q]) >= w
    BY <1>8, <2>1, <2>4
  <2>7. /\ Len(f[q]) \in Nat /\ Len(part[q]) \in Nat /\ LengthBefore(f, q) \in Nat
        /\ Len(f[q]) = LengthBefore(f, q) + Len(part[q])
    BY <1>10, <1>11, <2>1, ConcatenationStep
  <2>8. Len(f[q]) <= Len(f[t - 1])
    BY <1>10, <1>11, <2>1, <2>4, ConcatenationMonotone
  <2>9. Len(f[t - 1]) \in Nat
    BY <1>10, <1>11, <2>4, ConcatenationStep
  <2>10. LengthBefore(f, t) = Len(f[t - 1])
    BY <2>4 DEF LengthBefore
  <2>11. t = q + w
    OBVIOUS
  <2> HIDE DEF w, t, T
  <2> QED
    BY <2>1, <2>2, <2>5, <2>6, <2>7, <2>8, <2>9, <2>10, <2>11
<1>14. k \in T
  <2>1. T \in SUBSET DOMAIN code
    BY DEF Starts
  <2> HIDE DEF T
  <2> QED
    BY <1>12, <1>13, <2>1 DEF Starts
<1>15. LengthBefore(f, k) >= k - 1
  BY <1>3, <1>14
<1>16. /\ Len(f[k]) \in Nat /\ LengthBefore(f, k) \in Nat
       /\ Len(f[k]) = LengthBefore(f, k) + Len(r)
  BY <1>3, <1>9, <1>10, <1>11, ConcatenationStep
<1>17. n \in 1 .. n /\ k <= n
  BY <1>3
<1>18. Len(f[k]) <= Len(f[n]) /\ Len(f[n]) \in Nat
  BY <1>3, <1>10, <1>11, <1>17, ConcatenationMonotone, ConcatenationStep
<1>19. Len(body) = Len(f[n])
  BY <1>4, <1>10
<1> QED
  BY <1>3, <1>6, <1>15, <1>16, <1>18, <1>19

-----------------------------------------------------------------------------
(* The functions whose bodies contain address a. *)
Holders(image, a) ==
  {i \in Func : image.hdr[i].offset <= a /\ a < End(image.hdr[i])}

(* funcAtOffset finds one of them if there is one. *)
LEMMA FirstHolder ==
  ASSUME NEW image, NEW a, Holders(image, a) # {}
  PROVE  (CHOOSE i \in Holders(image, a) : \A j \in Holders(image, a) : i <= j)
           \in Holders(image, a)
<1> DEFINE H == Holders(image, a)
<1>1. H \subseteq Nat /\ H # {}
  BY HBCAssumption DEF Holders, Func
<1> HIDE DEF H
<1>2. \E i \in H : \A j \in H : i <= j
  BY <1>1, LeastElement
<1>3. (CHOOSE i \in H : \A j \in H : i <= j) \in H
  BY <1>2
<1> QED
  BY <1>3 DEF H

(* FuncAtOffset finds a holder whenever there is one, and None otherwise. *)
LEMMA FuncAtOffsetFinds ==
  ASSUME NEW a
  PROVE  /\ FuncAtOffset(a) # None => FuncAtOffset(a) \in Holders(file, a)
         /\ Holders(file, a) # {} => /\ FuncAtOffset(a) \in Holders(file, a)
                                     /\ FuncAtOffset(a) # None
<1>1. FuncAtOffset(a) =
        IF Holders(file, a) = {} THEN None
        ELSE CHOOSE i \in Holders(file, a) : \A j \in Holders(file, a) : i <= j
  BY DEF FuncAtOffset, Holders
<1>2. ASSUME Holders(file, a) # {} PROVE FuncAtOffset(a) \in Holders(file, a)
  BY <1>1, <1>2, FirstHolder
<1>3. \A i \in Holders(file, a) : i # None
  BY SessionAssumption DEF Holders
<1> QED
  BY <1>1, <1>2, <1>3

(* The headers of a file in order locate bodies inside the image. *)
LEMMA OffsetsInside ==
  ASSUME NEW image, FileType(image), SectionsInOrder(image)
  PROVE  \A i \in Func : image.hdr[i].offset \in Address(image)
<1> SUFFICES ASSUME NEW i \in Func PROVE image.hdr[i].offset \in Address(image)
  OBVIOUS
<1>1. /\ image.hdr[i].offset \in Nat /\ image.hdr[i].size \in Nat
      /\ image.dbg \in Nat /\ image.len \in Nat /\ image.dbg < image.len
      /\ image.hdr[i].offset + image.hdr[i].size <= image.dbg
  BY DEF FileType, FunctionHeader, SectionsInOrder, End
<1>2. image.hdr[i].offset < image.len
  BY <1>1
<1> QED
  BY <1>1, <1>2 DEF Address

(* Inserting at the end of the segment moves no body that has code, and
   leaves every body inside the image. *)
LEMMA InsertGeometry ==
  ASSUME NEW image, Layout(image), NEW cells, Len(cells) \in Nat
  PROVE  LET at  == SegmentEnd(image)
             new == InsertBytesAt(image, at, cells)
         IN  /\ FileType(new)
             /\ new.len = image.len + Len(cells)
             /\ new.len >= image.len
             /\ at \in Nat /\ at \in Address(new)
             /\ \A i \in Func : new.hdr[i].offset \in Address(new)
             /\ \A i \in Func : image.hdr[i].size > 0
                  => new.hdr[i].offset = image.hdr[i].offset
             /\ \A i \in Func : new.hdr[i].size = image.hdr[i].size
             /\ SeparationKept(image, new)
             /\ new.len \in Nat
<1> DEFINE at  == SegmentEnd(image)
           mid == Inserted(image, at, cells)
           new == InsertBytesAt(image, at, cells)
<1>1. FileType(mid) /\ SectionsInOrder(mid)
  BY InsertedLayout
<1>2. /\ mid.len = image.len + Len(cells)
      /\ \A i \in Func : Moved(mid.hdr[i], image.hdr[i], at, Len(cells))
  BY InsertedMoves
<1>3. /\ FileType(new) /\ new.hdr = mid.hdr /\ SeparationKept(image, new)
      /\ \A i \in Func : new.hdr[i].size = image.hdr[i].size
  BY InsertKeepsBodies
<1>4. new.len = mid.len
  BY DEF InsertBytesAt, WriteUntilError, WriteHeaders, WithRaw
<1>5. /\ at \in 1 .. (image.len - 1) /\ image.len \in Nat
      /\ \A i \in Func : image.hdr[i].offset \in Nat /\ image.hdr[i].size \in Nat
      /\ \A i \in Func : End(image.hdr[i]) <= at
  BY SegmentEndInside, SegmentEndBounds DEF Layout, FileType, FunctionHeader
<1>6. \A i \in Func : mid.hdr[i].offset \in Address(mid)
  BY <1>1, OffsetsInside
<1> HIDE DEF at, mid, new
<1>7. ASSUME NEW i \in Func, image.hdr[i].size > 0
      PROVE  new.hdr[i].offset = image.hdr[i].offset
  <2>1. image.hdr[i].offset < at
    BY <1>5, <1>7 DEF End
  <2> QED
    BY <1>2, <1>3, <2>1 DEF Moved
<1>8. new.len >= image.len /\ at \in 0 .. (new.len - 1)
  BY <1>2, <1>4, <1>5
<1>9. \A i \in Func : new.hdr[i].offset \in Address(new)
  BY <1>3, <1>4, <1>6 DEF Address
<1>10. new.len \in Nat
  BY <1>3 DEF FileType
<1> QED
  BY <1>2, <1>3, <1>4, <1>5, <1>7, <1>8, <1>9, <1>10 DEF at, new, Address
-----------------------------------------------------------------------------
(* Every header locates its body inside the image, even after an error. *)
Offsets == \A i \in Func : file.hdr[i].offset \in Address(file)

(* The body of f contains the cursor; it is nobody else's. *)
CursorInside(f) == file.hdr[f].offset <= cursor /\ cursor < End(file.hdr[f])
Alone(f)        == \A g \in Func \ {f} : SeparateBody(file.hdr[f], file.hdr[g])

(* And so will its new body. *)
CursorWillBeInside(f) == cursor < file.hdr[f].offset + Len(edit[f].code)

(***************************************************************************)
(* A wi on its way: it patches the function f under the cursor and no      *)
(* other.  Until the splice the new body is known to reach past the cursor *)
(* and f is not among the aliases that are moved away; after it, the body  *)
(* is f's alone.                                                           *)
(***************************************************************************)
OneFunction ==
  phase \in {"pick", "dedup", "tables"} =>
    \E f \in Func :
      /\ changed = {f}
      /\ CursorInside(f)
      /\ \/ /\ phase = "pick"
            /\ todo = {f}
            /\ CursorWillBeInside(f)
         \/ /\ phase = "dedup"
            /\ todo = {} /\ cur = f /\ f \notin aliases
            /\ CursorWillBeInside(f)
         \/ /\ phase \in {"tables", "pick"}
            /\ todo = {} /\ cur = f
            /\ Alone(f)

(***************************************************************************)
(* A wx may destroy a header in the image without the file losing its      *)
(* shape, and a failed wi may cost it the shape, but not its type: hence   *)
(* three parts that hold for longer and longer.                            *)
(***************************************************************************)
SessionInv ==
  /\ TypeOK
  /\ SessionTypeOK
  /\ Offsets
  /\ broken => phase = "idle"
  /\ ~broken => ShapeInv
  /\ ~broken /\ ~tampered /\ phase # "failed" => ImageAgrees(file)
  /\ OneFunction

(* What a step of the engine has to show of OneFunction and the addresses. *)
Geometry ==
  /\ cursor < file'.len
  /\ Offsets'
  /\ OneFunction'

(* The one function of the batch is taken up. *)
LEMMA PickGeometry ==
  ASSUME ShapeInv, Offsets, OneFunction, cursor \in Address(file), UNCHANGED cursor,
         NEW f \in Func, Pick(f)
  PROVE  Geometry
<1>1. /\ phase = "pick" /\ phase' = "dedup" /\ f \in todo /\ cur' = f
      /\ todo' = todo \ {f}
      /\ aliases' = {i \in Func \ (changed \cup {f}) :
                       file.hdr[i].offset = file.hdr[f].offset}
      /\ UNCHANGED <<file, changed, start, edit>>
  BY DEF Pick
<1>2. /\ changed = {f} /\ CursorInside(f) /\ todo = {f}
      /\ CursorWillBeInside(f)
  BY <1>1 DEF OneFunction
<1>3. OneFunction'
  BY <1>1, <1>2 DEF OneFunction, CursorInside, CursorWillBeInside
<1>4. cursor < file'.len
  BY <1>1 DEF ShapeInv, TypeOK, FileType, Address
<1> QED
  BY <1>1, <1>3, <1>4 DEF Geometry, Offsets

(* The copies of the aliases are inserted behind the body that stays. *)
LEMMA DeduplicateGeometry ==
  ASSUME ShapeInv, Offsets, OneFunction, cursor \in Address(file), UNCHANGED cursor,
         NEW i \in Func, Deduplicate(i)
  PROVE  Geometry
<1> DEFINE at       == SegmentEnd(file)
           copy     == [k \in 1 .. file.hdr[i].size |->
                          file.raw[file.hdr[i].offset + k - 1]]
           inserted == InsertBytesAt(file, at, copy)
           pointed  == PointAt(inserted, i, at)
<1>1. /\ phase = "dedup" /\ i \in aliases
      /\ UNCHANGED <<batch, cur, pending, history>>
  BY DEF Deduplicate
<1>2. /\ TypeOK /\ Layout(file) /\ FileType(file) /\ SectionsInOrder(file)
      /\ file.len \in Nat /\ file.hdr[i].size \in Nat
  BY <1>1 DEF ShapeInv, ShapeKept, Layout, FileType, FunctionHeader
<1>3. Len(copy) = file.hdr[i].size /\ Len(copy) \in Nat
  <2>1. copy = [k \in 1 .. file.hdr[i].size |-> copy[k]]
    OBVIOUS
  <2> HIDE DEF copy
  <2> QED
    BY <1>2, <2>1, LenOfFunction
<1>4. \/ /\ phase' = "failed" /\ UNCHANGED aliases
         /\ file' = file \/ file' = inserted \/ file' = pointed
      \/ /\ file' = WriteHeaders(pointed, {i})
         /\ aliases' = aliases \ {i}
         /\ phase' = phase
  BY DEF Deduplicate, Fail
<1>5. PICK f \in Func : /\ changed = {f} /\ CursorInside(f)
                        /\ todo = {} /\ cur = f /\ f \notin aliases
                        /\ CursorWillBeInside(f)
  BY <1>1 DEF OneFunction
<1>6. /\ file.hdr[f].offset \in Nat /\ file.hdr[f].size \in Nat
      /\ file.hdr[f].offset <= cursor
      /\ cursor < file.hdr[f].offset + file.hdr[f].size
  BY <1>2, <1>5 DEF FileType, FunctionHeader, CursorInside, End
<1>7. file.hdr[f].size > 0
  <2>1. cursor \in Nat
    BY <1>2 DEF Address, FileType
  <2> QED
    BY <1>6, <2>1
<1> HIDE DEF copy
<1>8. /\ FileType(inserted) /\ inserted.len >= file.len
      /\ at \in Nat /\ at \in Address(inserted)
      /\ \A j \in Func : inserted.hdr[j].offset \in Address(inserted)
      /\ \A j \in Func : file.hdr[j].size > 0
           => inserted.hdr[j].offset = file.hdr[j].offset
      /\ \A j \in Func : inserted.hdr[j].size = file.hdr[j].size
  BY <1>2, <1>3, InsertGeometry
<1> HIDE DEF inserted, at
<1>9. /\ FileType(pointed) /\ pointed.len = inserted.len
      /\ \A j \in Func \ {i} : pointed.hdr[j] = inserted.hdr[j]
      /\ pointed.hdr[i].offset = at
  <2>1. FileType(inserted) /\ at \in Nat
    BY <1>8
  <2> QED
    BY <2>1, PointedShape, SMTT(60)
<1>10. \A j \in Func : pointed.hdr[j].offset \in Address(pointed)
  BY <1>8, <1>9 DEF Address
<1> HIDE DEF pointed
<1>13. cursor \in Nat /\ cursor < file.len /\ inserted.len \in Nat
  BY <1>2, <1>8 DEF Address, FileType
<1>11. CASE phase' = "failed" /\ (file' = file \/ file' = inserted \/ file' = pointed)
  <2>1. cursor < file'.len
    BY <1>2, <1>8, <1>9, <1>11, <1>13
  <2>2. Offsets'
    BY <1>8, <1>10, <1>11 DEF Offsets
  <2> QED
    BY <1>11, <2>1, <2>2 DEF Geometry, OneFunction
<1>12. CASE /\ file' = WriteHeaders(pointed, {i})
            /\ aliases' = aliases \ {i}
            /\ phase' = phase
  <2>1. file'.hdr = pointed.hdr /\ file'.len = pointed.len
    BY <1>12 DEF WriteHeaders, WithRaw
  <2>2. file'.hdr[f] = inserted.hdr[f]
    BY <1>1, <1>5, <1>9, <2>1
  <2>4. /\ file'.hdr[f].offset = file.hdr[f].offset
        /\ file'.hdr[f].size = file.hdr[f].size
    BY <1>7, <1>8, <2>2
  <2>5. OneFunction'
    BY <1>1, <1>5, <1>12, <2>4 DEF OneFunction, CursorInside, CursorWillBeInside, End, batch
  <2>6. Offsets'
    BY <1>10, <2>1 DEF Offsets, Address
  <2>7. cursor < file'.len
    BY <1>2, <1>8, <1>9, <1>13, <2>1
  <2> QED
    BY <2>5, <2>6, <2>7 DEF Geometry
<1> QED
  BY <1>4, <1>11, <1>12

(* Where a body of s cells inside a file of n is replaced by one of m. *)
LEMMA StaysInside ==
  ASSUME NEW c \in Nat, NEW o \in Nat, NEW s \in Nat, NEW m \in Nat, NEW n \in Nat,
         c < o + m, o + s <= n
  PROVE  c < n + (m - s)
OBVIOUS

(* The splice keeps the offset of the body, and what is left of it reaches
   past the cursor: what may be cut off the image lies behind both. *)
LEMMA SpliceCodeGeometry ==
  ASSUME ShapeInv, Offsets, OneFunction, cursor \in Address(file), UNCHANGED cursor,
         SpliceCode
  PROVE  Geometry
<1> DEFINE code  == edit[cur].code
           cells == Cells(code)
           mid   == Spliced(file, cur, cells)
<1>1. /\ phase = "dedup" /\ aliases = {}
      /\ UNCHANGED <<batch, cur, aliases, batches>>
  BY DEF SpliceCode
<1>2. /\ TypeOK /\ Layout(file) /\ FileType(file) /\ SectionsInOrder(file)
      /\ cur \in Func /\ cur \in changed
  BY <1>1 DEF ShapeInv, ShapeKept, Layout, TypeOK, CurrentApart
<1>3. edit[cur] \in [code : Seq(Unit), table : Table \cup {NoTable}]
  BY <1>2, PatchAssumption DEF TypeOK
<1>4. code \in Seq(Unit)
  BY <1>3
<1>5. Len(cells) = Len(code) /\ Len(code) \in Nat
  BY <1>4, LenOfCells
<1>6. /\ changed = {cur} /\ CursorInside(cur)
      /\ todo = {} /\ cursor < file.hdr[cur].offset + Len(code)
  BY <1>1 DEF OneFunction, CursorWillBeInside
<1>7. \/ phase' = "failed" /\ UNCHANGED file
      \/ /\ file' = ReplaceCode(file, cur, cells) /\ SpliceFits(file, cur, cells)
         /\ phase' \in {"pick", "tables"}
      \/ /\ file' = ReplaceCode(file, cur, cells) /\ ~SpliceFits(file, cur, cells)
         /\ phase' = "failed"
  BY DEF SpliceCode, Fail
<1>8. /\ file.len \in Nat /\ file.hdr[cur].size \in Nat /\ file.hdr[cur].offset \in Nat
      /\ cursor \in Nat /\ cursor < file.len
      /\ file.hdr[cur].offset + file.hdr[cur].size <= file.len
  <2>1. /\ file.dbg \in Nat /\ file.dbg < file.len /\ End(file.hdr[cur]) <= file.dbg
    BY <1>2 DEF FileType, SectionsInOrder
  <2> QED
    BY <1>2, <2>1 DEF FileType, FunctionHeader, Address, End
<1> HIDE DEF cells, code
<1>9. CASE phase' = "failed" /\ UNCHANGED file
  BY <1>8, <1>9 DEF Geometry, OneFunction, Offsets
<1>12. \A g \in Func \ {cur} : SeparateBody(file.hdr[cur], file.hdr[g])
  BY <1>1 DEF ShapeInv, CurrentApart
<1>10. CASE /\ file' = ReplaceCode(file, cur, cells) /\ SpliceFits(file, cur, cells)
            /\ phase' \in {"pick", "tables"}
  <2>2. /\ Layout(file') /\ SeparationKept(file, file')
        /\ file'.hdr[cur].size = Len(cells)
        /\ file'.hdr[cur].offset = file.hdr[cur].offset
        /\ file'.len = file.len + (Len(cells) - file.hdr[cur].size)
    BY <1>2, <1>5, <1>10, <1>12, ReplaceKeepsLayout
  <2>3. cursor < file'.len
    <3>1. Len(cells) \in Nat /\ cursor < file.hdr[cur].offset + Len(cells)
      BY <1>5, <1>6
    <3>2. cursor < file.len + (Len(cells) - file.hdr[cur].size)
      BY <1>8, <3>1, StaysInside
    <3> QED BY <2>2, <3>2
  <2>4. Offsets'
    BY <2>2, OffsetsInside DEF Offsets, Layout
  <2>5. CursorInside(cur)'
    <3>1. /\ file.hdr[cur].offset <= cursor
          /\ cursor < file.hdr[cur].offset + file.hdr[cur].size
      BY <1>6 DEF CursorInside, End
    <3>2. cursor < file.hdr[cur].offset + Len(cells)
      BY <1>5, <1>6, <1>8, <3>1
    <3> QED
      BY <1>1, <2>2, <3>1, <3>2 DEF CursorInside, End
  <2>6. Alone(cur)'
    BY <1>1, <1>2, <1>12, <2>2 DEF Alone, SeparationKept
  <2>7. OneFunction'
    BY <1>1, <1>2, <1>6, <1>10, <2>5, <2>6 DEF OneFunction, batch, CursorInside, Alone
  <2> QED
    BY <2>3, <2>4, <2>7 DEF Geometry
<1>11. CASE /\ file' = ReplaceCode(file, cur, cells) /\ ~SpliceFits(file, cur, cells)
            /\ phase' = "failed"
  <2>1. /\ file'.hdr = mid.hdr /\ file'.len = mid.len
    BY <1>2, <1>5, <1>11, ReplaceType
  <2>2. /\ mid.hdr[cur].offset = file.hdr[cur].offset /\ InImage(file, cur)
        /\ \A i \in Func \ {cur} :
             SplicedHeader(mid.hdr[i], file.hdr[i], file.hdr[cur], Len(cells))
    BY <1>2, <1>5, SplicedHeaders
  <2>3. mid.len = file.len + (Len(cells) - file.hdr[cur].size)
    BY <1>2, <1>5, <2>2, SplicedFields
  <2> HIDE DEF mid
  <2>4. cursor < file'.len
    <3> DEFINE o    == file.hdr[cur].offset
               size == file.hdr[cur].size
               len  == file.len
               n    == Len(cells)
    <3>1. /\ o \in Nat /\ size \in Nat /\ len \in Nat /\ n \in Nat /\ cursor \in Nat
          /\ o + size <= len /\ cursor < o + n
      BY <1>5, <1>6, <1>8
    <3>2. file'.len = len + (n - size)
      BY <2>1, <2>3
    <3> HIDE DEF o, size, len, n
    <3> QED
      BY <3>1, <3>2
  <2>5. ASSUME NEW i \in Func
        PROVE  file'.hdr[i].offset \in 0 .. (file'.len - 1)
    <3>1. file.hdr[i].offset \in Nat /\ file.hdr[i].offset < file.len
      BY <1>8 DEF Offsets, Address
    <3> DEFINE o    == file.hdr[i].offset
               c    == file.hdr[cur].offset
               n    == Len(cells)
               size == file.hdr[cur].size
               len  == file.len
    <3>2. \/ i = cur /\ mid.hdr[i].offset = c
          \/ o + file.hdr[i].size <= c /\ mid.hdr[i].offset = o
          \/ c + size <= o /\ mid.hdr[i].offset = o + (n - size)
      <4>1. CASE i = cur
        BY <2>2, <4>1
      <4>2. CASE i # cur
        <5>1. SplicedHeader(mid.hdr[i], file.hdr[i], file.hdr[cur], Len(cells))
          BY <2>2, <4>2
        <5>2. /\ file.hdr[cur].offset \in Nat /\ file.hdr[cur].size \in Nat
              /\ file.hdr[i].offset \in Nat /\ file.hdr[i].size \in Nat
          BY <1>2 DEF FileType, FunctionHeader
        <5>3. SeparateBody(file.hdr[cur], file.hdr[i])
          BY <1>12, <4>2
        <5> QED
          BY <5>1, <5>2, <5>3 DEF SplicedHeader, SeparateBody, End
      <4> QED
        BY <4>1, <4>2
    <3>3. /\ o \in Nat /\ o < len /\ n \in Nat /\ size \in Nat /\ len \in Nat
          /\ c \in Nat /\ c + size <= len /\ c < c + n
          /\ file.hdr[i].size \in Nat
      <4>1. file.hdr[cur].offset <= cursor
        BY <1>6 DEF CursorInside
      <4> QED
        BY <1>2, <1>5, <1>6, <1>8, <3>1, <4>1 DEF FileType, FunctionHeader
    <3>4. file'.hdr[i].offset = mid.hdr[i].offset /\ file'.len = len + (n - size)
      BY <2>1, <2>3
    <3> HIDE DEF o, c, n, size, len
    <3> QED
      BY <3>2, <3>3, <3>4
  <2> QED
    BY <1>11, <2>4, <2>5 DEF Geometry, Offsets, Address, OneFunction
<1> QED
  BY <1>7, <1>9, <1>10, <1>11

(* A table is inserted behind the body it belongs to. *)
LEMMA PlaceTableGeometry ==
  ASSUME ShapeInv, Offsets, OneFunction, cursor \in Address(file), UNCHANGED cursor,
         NEW k \in pending, PlaceTable(k)
  PROVE  Geometry
<1> DEFINE at       == SegmentEnd(file)
           pad      == Padding(at)
           cells    == [n \in 1 .. (pad + 1) |->
                          IF n <= pad THEN PadCell ELSE TableCell(edit[cur].table, k)]
           inserted == InsertBytesAt(file, at, cells)
           inst     == inserted.hdr[cur].offset + k
<1>1. /\ phase = "tables"
      /\ UNCHANGED <<batch, cur, aliases, history>>
  BY DEF PlaceTable
<1>2. /\ TypeOK /\ Layout(file) /\ FileType(file) /\ SectionsInOrder(file)
      /\ cur \in Func /\ file.len \in Nat
      /\ file.hdr[cur].offset \in Nat /\ file.hdr[cur].size \in Nat
  BY <1>1 DEF ShapeInv, ShapeKept, Layout, TypeOK, FileType, FunctionHeader
<1>3. Len(cells) \in Nat
  <2>1. at \in Nat
    BY <1>2, SegmentEndBounds
  <2>2. pad \in Nat
    <3> HIDE DEF at
    <3>1. at % Align \in 0 .. (Align - 1)
      BY <2>1, HBCAssumption
    <3>2. Align - (at % Align) \in Nat
      BY <3>1, HBCAssumption
    <3> QED
      BY <3>2, HBCAssumption DEF Padding
  <2> HIDE DEF pad
  <2>3. cells = [n \in 1 .. (pad + 1) |-> cells[n]]
    OBVIOUS
  <2>4. pad + 1 \in Nat
    BY <2>2
  <2> HIDE DEF cells
  <2>5. Len(cells) = pad + 1
    BY <2>3, <2>4, LenOfFunction
  <2> QED
    BY <2>4, <2>5
<1>4. \/ /\ file' = SetArg2(inserted, inst, at + pad - inst)
         /\ phase' \in {"pick", "tables"}
      \/ /\ file' = inserted /\ phase' = "failed"
  BY DEF PlaceTable, Fail
<1>5. /\ changed = {cur} /\ CursorInside(cur) /\ todo = {} /\ Alone(cur)
  BY <1>1 DEF OneFunction
<1>6. file.hdr[cur].size > 0
  <2>1. cursor \in Nat
    BY <1>2 DEF Address, FileType
  <2> QED
    BY <1>2, <1>5, <2>1 DEF CursorInside, End
<1> HIDE DEF cells, pad
<1>7. /\ inserted.len >= file.len
      /\ \A i \in Func : inserted.hdr[i].offset \in Address(inserted)
      /\ inserted.hdr[cur].offset = file.hdr[cur].offset
      /\ inserted.hdr[cur].size = file.hdr[cur].size
      /\ SeparationKept(file, inserted)
      /\ inserted.len \in Nat
  BY <1>2, <1>3, <1>6, InsertGeometry
<1>8. /\ file'.hdr = inserted.hdr /\ file'.len = inserted.len
  BY <1>4 DEF SetArg2, WithRaw
<1> HIDE DEF inserted
<1>9. Offsets'
  BY <1>7, <1>8 DEF Offsets, Address
<1>10. CursorInside(cur)'
  BY <1>1, <1>5, <1>7, <1>8 DEF CursorInside, End
<1>11. Alone(cur)'
  BY <1>1, <1>2, <1>5, <1>7, <1>8 DEF Alone, SeparationKept
<1>12. OneFunction'
  BY <1>1, <1>2, <1>4, <1>5, <1>10, <1>11 DEF OneFunction, batch, CursorInside, Alone
<1>13. cursor < file'.len
  <2>1. cursor \in Nat /\ cursor < file.len
    BY <1>2 DEF Address
  <2> QED
    BY <1>2, <1>7, <1>8, <2>1
<1> QED
  BY <1>9, <1>12, <1>13 DEF Geometry

(* Every step of the engine on a wi. *)
LEMMA PatchGeometry ==
  ASSUME ShapeInv, Offsets, OneFunction, cursor \in Address(file), UNCHANGED cursor,
         Patch
  PROVE  Geometry
<1>1. ASSUME NEW f \in Func, Pick(f) PROVE Geometry
  BY <1>1, PickGeometry
<1>2. ASSUME NEW i \in Func, Deduplicate(i) PROVE Geometry
  BY <1>2, DeduplicateGeometry
<1>3. CASE SpliceCode
  BY <1>3, SpliceCodeGeometry
<1>4. ASSUME NEW k \in pending, PlaceTable(k) PROVE Geometry
  BY <1>4, PlaceTableGeometry
<1>5. CASE Finish
  <2>1. file' = file /\ phase' = "idle" /\ file.len \in Nat /\ cursor < file.len
    BY <1>5 DEF Finish, ShapeInv, TypeOK, FileType, Address
  <2> QED
    BY <2>1 DEF Geometry, Offsets, OneFunction
<1> QED
  BY <1>1, <1>2, <1>3, <1>4, <1>5 DEF Patch

-----------------------------------------------------------------------------
(* The commands of the prompt. *)

(* Cells overwritten in place leave the shape of the file alone. *)
LEMMA RawKeepsShape ==
  ASSUME NEW image, FileType(image), NEW raw, DOMAIN raw = Address(image)
  PROVE  LET new == WithRaw(image, raw)
         IN  /\ FileType(new)
             /\ new.raw = raw /\ new.hdr = image.hdr /\ new.len = image.len
             /\ new.dbg = image.dbg /\ new.flen = image.flen
             /\ Layout(image) => Layout(new)
<1> DEFINE new == WithRaw(image, raw)
<1>1. /\ new.raw = raw /\ new.hdr = image.hdr /\ new.len = image.len
      /\ new.dbg = image.dbg /\ new.flen = image.flen
      /\ DOMAIN new = {"raw", "hdr", "len", "dbg", "flen"}
  BY DEF WithRaw
<1> HIDE DEF new
<1>2. FileType(new)
  BY <1>1 DEF FileType, Address
<1>3. Layout(image) => Layout(new)
  BY <1>1, <1>2 DEF Layout, RangesApart, SectionsInOrder
<1> QED
  BY <1>1, <1>2, <1>3 DEF new

(* If none of them belongs to a header, the image still agrees with memory. *)
LEMMA RawKeepsHeaders ==
  ASSUME NEW image, FileType(image), ImageAgrees(image),
         NEW raw, DOMAIN raw = Address(image),
         raw[0] = image.raw[0],
         \A i \in Func : raw[image.hdr[i].small] = image.raw[image.hdr[i].small],
         \A i \in Func : image.hdr[i].overflowed
                           => raw[image.hdr[i].large] = image.raw[image.hdr[i].large]
  PROVE  ImageAgrees(WithRaw(image, raw))
<1> DEFINE new == WithRaw(image, raw)
<1>1. /\ new.raw = raw /\ new.hdr = image.hdr /\ new.len = image.len
      /\ new.dbg = image.dbg /\ new.flen = image.flen
  BY RawKeepsShape
<1> HIDE DEF new
<1>2. ImageAgrees(new)
  BY <1>1 DEF ImageAgrees
<1> QED
  BY <1>2 DEF new

(* While the engine rests, only the shape of the file matters to it. *)
LEMMA RestKeepsEngine ==
  ASSUME SessionInv, phase = "idle", UNCHANGED engine, FileType(file'),
         file'.hdr = file.hdr, file'.len = file.len, Layout(file) => Layout(file')
  PROVE  TypeOK' /\ Offsets' /\ (ShapeInv => ShapeInv') /\ OneFunction'
<1>1. TypeOK'
  BY DEF SessionInv, TypeOK, engine, batch, history
<1>2. Offsets'
  BY DEF SessionInv, Offsets, Address
<1>3. ShapeInv => ShapeInv'
  <2>1. ShapeKept => ShapeKept'
    BY DEF ShapeKept, engine
  <2>2. BatchApart => BatchApart'
    BY DEF BatchApart, engine, batch
  <2> QED
    BY <1>1, <2>1, <2>2 DEF ShapeInv, CurrentApart, PendingInside, engine
<1>4. OneFunction'
  BY DEF OneFunction, engine
<1> QED
  BY <1>1, <1>2, <1>3, <1>4

(* Commands that touch neither the file nor the engine. *)
LEMMA CursorKeepsInv ==
  ASSUME SessionInv, phase = "idle", UNCHANGED <<vars, hindsight>>,
         cursor' \in Address(file), dirty' \in BOOLEAN, open' \in BOOLEAN
  PROVE  SessionInv'
<1>1. UNCHANGED engine /\ file' = file /\ phase' = "idle"
  BY DEF vars, engine
<1>2. FileType(file)
  BY DEF SessionInv, TypeOK
<1>3. TypeOK' /\ Offsets' /\ (ShapeInv => ShapeInv') /\ OneFunction'
  BY <1>1, <1>2, RestKeepsEngine
<1>4. SessionTypeOK'
  BY <1>1, <1>2 DEF SessionInv, SessionTypeOK, hindsight
<1> QED
  BY <1>1, <1>3, <1>4 DEF SessionInv, hindsight

(* A wx may break the image of a header, and is then recorded as tampered. *)
LEMMA WriteBytesKeepsInv ==
  ASSUME SessionInv, NEW cells \in Written, WriteBytes(cells)
  PROVE  SessionInv'
<1> DEFINE n       == Len(cells)
           touched == cursor .. (cursor + n - 1)
           raw     == Splice(file, cursor, n, cells)
<1>1. /\ phase = "idle" /\ touched \subseteq Address(file)
      /\ file' = WithRaw(file, raw)
      /\ dirty' = TRUE
      /\ tampered' = (tampered \/ touched \cap HeaderAddresses # {})
      /\ writes < MaxWrites /\ writes' = writes + 1
      /\ UNCHANGED <<engine, cursor, open, broken>>
  BY DEF WriteBytes, AtPrompt
<1>2. /\ FileType(file) /\ file.len \in Nat /\ cursor \in Nat /\ n \in Nat
      /\ cursor \in Address(file) /\ writes \in Nat
      /\ {dirty, open, broken, tampered} \subseteq BOOLEAN
  BY SessionAssumption DEF SessionInv, SessionTypeOK, TypeOK, FileType, Address
<1> HIDE DEF n
<1>3. DOMAIN raw = Address(file)
  <2>1. file.len - n + n - 1 = file.len - 1
    BY <1>2
  <2> QED
    BY <2>1 DEF Splice, Address, n
<1>4. ASSUME NEW a \in Address(file), a \notin touched
      PROVE  raw[a] = file.raw[a]
  <2>1. raw[a] = IF a < cursor THEN file.raw[a]
                 ELSE IF a < cursor + n THEN cells[a - cursor + 1]
                 ELSE file.raw[a - n + n]
    BY <1>3 DEF Splice, n
  <2>2. a \in Nat
    BY <1>4 DEF Address
  <2>3. a - n + n = a
    BY <1>2, <2>2
  <2>4. a < cursor \/ ~ (a < cursor + n)
    BY <1>2, <1>4, <2>2
  <2>5. cursor <= cursor + n
    BY <1>2
  <2>6. a < cursor => a < cursor + n
    BY <1>2, <2>2
  <2> QED
    BY <2>1, <2>3, <2>4, <2>6
<1> HIDE DEF raw
<1>5. /\ FileType(file') /\ file'.hdr = file.hdr /\ file'.len = file.len
      /\ Layout(file) => Layout(file')
  BY <1>1, <1>2, <1>3, RawKeepsShape
<1>6. TypeOK' /\ Offsets' /\ (ShapeInv => ShapeInv') /\ OneFunction'
  BY <1>1, <1>5, RestKeepsEngine
<1>7. SessionTypeOK'
  <2>1. writes' \in 0 .. MaxWrites
    BY <1>1, <1>2, SessionAssumption
  <2>2. cursor' \in Address(file')
    BY <1>1, <1>2, <1>5 DEF Address
  <2>3. {dirty', open', broken', tampered'} \subseteq BOOLEAN
    BY <1>1, <1>2
  <2> QED
    BY <1>5, <2>1, <2>2, <2>3 DEF SessionTypeOK
<1>8. ASSUME ~broken, ~tampered'
      PROVE  ImageAgrees(file')
  <2>1. ~tampered /\ touched \cap HeaderAddresses = {}
    BY <1>1, <1>8
  <2>2. ImageAgrees(file) /\ Layout(file)
    BY <1>1, <1>8, <2>1 DEF SessionInv, ShapeInv, ShapeKept
  <2>3. HeaderTable(file)
    BY <2>2, HeaderCells DEF Layout
  <2>4. /\ 0 \notin touched
        /\ \A i \in Func : file.hdr[i].small \notin touched
        /\ \A i \in Func : file.hdr[i].overflowed => file.hdr[i].large \notin touched
    BY <2>1 DEF HeaderAddresses
  <2>5. /\ 0 \in Address(file)
        /\ \A i \in Func : file.hdr[i].small \in Address(file)
        /\ \A i \in Func : file.hdr[i].overflowed => file.hdr[i].large \in Address(file)
    <3>1. 0 \in Address(file)
      BY <1>2 DEF Address
    <3> QED
      BY <2>3, <3>1 DEF HeaderTable
  <2> HIDE DEF touched
  <2>6. /\ raw[0] = file.raw[0]
        /\ \A i \in Func : raw[file.hdr[i].small] = file.raw[file.hdr[i].small]
        /\ \A i \in Func : file.hdr[i].overflowed
                             => raw[file.hdr[i].large] = file.raw[file.hdr[i].large]
    BY <1>4, <2>4, <2>5
  <2> QED
    BY <1>1, <1>2, <1>3, <2>2, <2>6, RawKeepsHeaders
<1> QED
  BY <1>1, <1>6, <1>7, <1>8 DEF SessionInv, engine

(* The footer lies behind every header. *)
LEMMA SaveKeepsInv ==
  ASSUME SessionInv, Save \/ SaveElsewhere
  PROVE  SessionInv'
<1> DEFINE raw == [file.raw EXCEPT ![file.len - 1] = FooterCell]
<1>1. /\ phase = "idle" /\ file' = WithRaw(file, raw)
      /\ dirty' = FALSE \/ dirty' = dirty
      /\ open' = FALSE \/ open' = open
      /\ UNCHANGED <<engine, cursor, broken, tampered, writes>>
  BY DEF Save, SaveElsewhere, Hashed, AtPrompt, hindsight
<1>2. /\ FileType(file) /\ file.len \in Nat /\ cursor \in Address(file)
      /\ {dirty, open, broken, tampered} \subseteq BOOLEAN
      /\ writes \in 0 .. MaxWrites
  BY DEF SessionInv, SessionTypeOK, TypeOK, FileType
<1>3. DOMAIN raw = Address(file)
  BY <1>2 DEF FileType
<1>4. \A a : a # file.len - 1 => raw[a] = file.raw[a]
  OBVIOUS
<1> HIDE DEF raw
<1>5. /\ FileType(file') /\ file'.hdr = file.hdr /\ file'.len = file.len
      /\ Layout(file) => Layout(file')
  BY <1>1, <1>2, <1>3, RawKeepsShape
<1>6. TypeOK' /\ Offsets' /\ (ShapeInv => ShapeInv') /\ OneFunction'
  BY <1>1, <1>5, RestKeepsEngine
<1>7. SessionTypeOK'
  BY <1>1, <1>2, <1>5 DEF SessionTypeOK, Address
<1>8. ASSUME ~broken, ~tampered
      PROVE  ImageAgrees(file')
  <2>1. ImageAgrees(file) /\ Layout(file) /\ SectionsInOrder(file)
    BY <1>1, <1>8 DEF SessionInv, ShapeInv, ShapeKept, Layout
  <2>2. ASSUME NEW i \in Func
        PROVE  /\ 0 # file.len - 1
               /\ file.hdr[i].small # file.len - 1
               /\ file.hdr[i].overflowed => file.hdr[i].large # file.len - 1
    <3>1. /\ file.hdr[i].offset \in Nat /\ file.hdr[i].size \in Nat
          /\ file.hdr[i].small \in Nat /\ file.hdr[i].large \in Nat
          /\ file.dbg \in Nat /\ file.dbg < file.len
          /\ 0 < file.hdr[i].small /\ file.hdr[i].small < file.hdr[i].offset
          /\ file.hdr[i].offset + file.hdr[i].size <= file.dbg
          /\ file.hdr[i].overflowed => file.hdr[i].large < file.len - 1
      BY <1>2, <2>1 DEF FileType, FunctionHeader, SectionsInOrder, End
    <3> QED
      BY <1>2, <3>1
  <2>3. 0 # file.len - 1
    BY <2>2, HBCAssumption DEF Func
  <2> QED
    BY <1>1, <1>2, <1>3, <1>4, <2>1, <2>2, <2>3, RawKeepsHeaders
<1> QED
  BY <1>1, <1>6, <1>7, <1>8 DEF SessionInv, engine

(* A wi is a batch of the one function the cursor is in. *)
LEMMA WriteInstructionKeepsInv ==
  ASSUME SessionInv, WriteInstruction
  PROVE  SessionInv'
<1> DEFINE f    == FuncAtOffset(cursor)
           code == GetCode(file, f)
           k    == cursor - file.hdr[f].offset + 1
<1>1. /\ phase = "idle" /\ ~broken /\ f # None /\ Begin({f}) /\ k \in Starts(code)
      /\ \E body \in NewBodies(code, k) : edit' \in [{f} -> {e \in Edits : e.code = body}]
      /\ UNCHANGED <<cursor, dirty, open, hindsight>>
  BY DEF WriteInstruction, AtPrompt
<1>2. f \in Func /\ CursorInside(f)
  BY <1>1, FuncAtOffsetFinds DEF Holders, CursorInside
<1> HIDE DEF f
<1>3. /\ phase' = "pick" /\ changed' = {f} /\ todo' = {f} /\ file' = file
  BY <1>1 DEF Begin
<1>4. ShapeInv' /\ Refreshed
  <2>1. ShapeInv
    BY <1>1 DEF SessionInv
  <2>2. NoCoEdit({f})
    BY DEF NoCoEdit
  <2> QED
    BY <1>1, <1>2, <2>1, <2>2, BeginInv
<1>5. cursor < file.hdr[f].offset + Len(edit'[f].code)
  <2>1. edit'[f].code \in NewBodies(code, k)
    BY <1>1
  <2>2. /\ file.hdr[f].offset \in Nat /\ file.hdr[f].size \in Nat /\ cursor \in Nat
    BY <1>2 DEF SessionInv, SessionTypeOK, FileType, FunctionHeader, Address
  <2>3. code = [p \in 1 .. file.hdr[f].size |-> code[p]]
    BY DEF GetCode
  <2> HIDE DEF code
  <2>4. k <= Len(edit'[f].code) /\ Len(edit'[f].code) \in Nat
    <3>1. edit'[f] \in Edits
      BY <1>1
    <3>2. edit'[f] \in [code : Seq(Unit), table : Table \cup {NoTable}]
      BY <3>1, PatchAssumption
    <3>3. edit'[f].code \in Seq(Unit)
      BY <3>2
    <3>4. Len(edit'[f].code) \in Nat
      BY <3>3, LenProperties
    <3>5. k <= Len(edit'[f].code)
      BY <1>1, <2>1, <2>2, <2>3, NewBodiesReach
    <3> QED
      BY <3>4, <3>5
  <2> DEFINE o == file.hdr[f].offset
             m == Len(edit'[f].code)
  <2>5. cursor - o + 1 <= m /\ m \in Nat /\ o \in Nat
    BY <2>2, <2>4
  <2> HIDE DEF o, m
  <2>6. cursor < o + m
    BY <2>2, <2>5
  <2> QED
    BY <2>6 DEF o, m
<1> HIDE DEF code, k
<1>6. OneFunction'
  <2>1. PICK g \in Func : g = f
    BY <1>2
  <2>2. CursorInside(g)' /\ CursorWillBeInside(g)'
    BY <1>1, <1>2, <1>3, <1>5, <2>1 DEF CursorInside, CursorWillBeInside
  <2> QED
    BY <1>3, <2>1, <2>2 DEF OneFunction
<1>7. SessionTypeOK' /\ Offsets'
  BY <1>1, <1>3 DEF SessionInv, SessionTypeOK, Offsets, hindsight
<1>8. TypeOK'
  BY <1>4 DEF ShapeInv
<1> QED
  BY <1>1, <1>3, <1>4, <1>6, <1>7, <1>8 DEF SessionInv, Refreshed, hindsight

(***************************************************************************)
(* The engine: the shape is PatchKeepsShape's, the cursor PatchGeometry's. *)
(***************************************************************************)
LEMMA PatchStepKeepsInv ==
  ASSUME SessionInv, PatchStep
  PROVE  SessionInv'
<1>1. /\ open /\ Patch
      /\ dirty' = (dirty \/ phase' = "idle")
      /\ UNCHANGED <<cursor, open, broken, tampered, writes>>
  BY DEF PatchStep, hindsight
<1>2. phase # "idle" /\ phase # "failed"
  BY <1>1 DEF Patch, Pick, Deduplicate, SpliceCode, PlaceTable, Finish
<1>3. ~broken /\ ShapeInv /\ Offsets /\ OneFunction
  BY <1>2 DEF SessionInv
<1>4. /\ cursor \in Nat /\ file.len \in Nat /\ cursor < file.len
      /\ {dirty, open, broken, tampered} \subseteq BOOLEAN
      /\ writes \in 0 .. MaxWrites
  BY DEF SessionInv, SessionTypeOK, FileType, Address
<1>5. ShapeInv' /\ Refreshed
  BY <1>1, <1>3, PatchKeepsShape
<1>6. Geometry
  BY <1>1, <1>3, <1>4, PatchGeometry DEF SessionInv, SessionTypeOK
<1>7. TypeOK' /\ FileType(file')
  BY <1>5 DEF ShapeInv, TypeOK
<1>8. SessionTypeOK'
  <2>1. cursor' \in Address(file')
    BY <1>1, <1>4, <1>6, <1>7 DEF Geometry, Address, FileType
  <2>2. {dirty', open', broken', tampered'} \subseteq BOOLEAN
    BY <1>1, <1>4
  <2> QED
    BY <1>1, <1>4, <1>7, <2>1, <2>2 DEF SessionTypeOK
<1>9. ~tampered' /\ phase' # "failed" => ImageAgrees(file')
  BY <1>1, <1>2, <1>3, <1>5 DEF SessionInv, Refreshed
<1> QED
  BY <1>1, <1>3, <1>5, <1>6, <1>7, <1>8, <1>9 DEF SessionInv, Geometry

(* A failed batch is reported at the prompt, where nothing is promised. *)
LEMMA ReportKeepsInv ==
  ASSUME SessionInv, Report
  PROVE  SessionInv'
<1>1. /\ phase' = "idle" /\ broken' = TRUE
      /\ UNCHANGED <<file, batch, cur, aliases, pending, history,
                     cursor, dirty, open, tampered, writes>>
  BY DEF Report
<1>2. TypeOK'
  BY <1>1 DEF SessionInv, TypeOK, batch, history
<1> QED
  BY <1>1, <1>2 DEF SessionInv, SessionTypeOK, Offsets, OneFunction

(* A session opens a well formed file. *)
LEMMA SessionInitInv == SessionInit => SessionInv
<1> SUFFICES ASSUME SessionInit PROVE SessionInv
  OBVIOUS
<1>1. /\ Init /\ cursor = 0 /\ dirty = FALSE /\ open = TRUE
      /\ broken = FALSE /\ tampered = FALSE /\ writes = 0 /\ phase = "idle"
  BY DEF SessionInit, Init
<1>2. ShapeInv /\ ImageAgrees(file)
  BY <1>1, InitInv, InvShape
<1>3. TypeOK /\ FileType(file) /\ SectionsInOrder(file)
  BY <1>1, <1>2 DEF ShapeInv, ShapeKept, Layout
<1>4. 0 \in Address(file)
  BY <1>3 DEF FileType, SectionsInOrder, Address
<1>5. SessionTypeOK
  <2>1. writes \in 0 .. MaxWrites
    BY <1>1, SessionAssumption
  <2>2. {dirty, open, broken, tampered} \subseteq BOOLEAN
    BY <1>1
  <2>3. cursor \in Address(file)
    BY <1>1, <1>4
  <2> QED
    BY <1>3, <2>1, <2>2, <2>3 DEF SessionTypeOK
<1>6. Offsets
  BY <1>3, OffsetsInside DEF Offsets
<1> QED
  BY <1>1, <1>2, <1>3, <1>5, <1>6 DEF SessionInv, OneFunction

(* One step per command. *)
LEMMA SessionNextInv ==
  ASSUME SessionInv, [SessionNext]_sessionVars
  PROVE  SessionInv'
<1>1. ASSUME NEW a \in Address(file), Seek(a) PROVE SessionInv'
  <2>1. /\ phase = "idle" /\ cursor' = a
        /\ UNCHANGED <<vars, dirty, open, hindsight>>
    BY <1>1 DEF Seek, AtPrompt, hindsight
  <2> QED
    BY <1>1, <2>1, CursorKeepsInv DEF SessionInv, SessionTypeOK
<1>2. ASSUME NEW i \in Func, SeekFunction(i) PROVE SessionInv'
  <2>1. /\ phase = "idle" /\ cursor' = file.hdr[i].offset
        /\ UNCHANGED <<vars, dirty, open, hindsight>>
    BY <1>2 DEF SeekFunction, AtPrompt, hindsight
  <2> QED
    BY <2>1, CursorKeepsInv DEF SessionInv, SessionTypeOK, Offsets
<1>3. ASSUME NEW cells \in Written, WriteBytes(cells) PROVE SessionInv'
  BY <1>3, WriteBytesKeepsInv
<1>4. CASE WriteInstruction
  BY <1>4, WriteInstructionKeepsInv
<1>5. CASE PatchStep
  BY <1>5, PatchStepKeepsInv
<1>6. CASE Report
  BY <1>6, ReportKeepsInv
<1>7. CASE Save \/ SaveElsewhere
  BY <1>7, SaveKeepsInv
<1>8. CASE Quit \/ Abandon
  <2>1. /\ phase = "idle" /\ open' = FALSE
        /\ UNCHANGED <<vars, cursor, dirty, hindsight>>
    BY <1>8 DEF Quit, Abandon, AtPrompt, hindsight
  <2> QED
    BY <2>1, CursorKeepsInv DEF SessionInv, SessionTypeOK
<1>9. CASE UNCHANGED sessionVars
  BY <1>9 DEF sessionVars, vars, hindsight, batch, history, SessionInv, SessionTypeOK, TypeOK,
              Offsets, OneFunction, CursorInside, CursorWillBeInside, Alone,
              ShapeInv, ShapeKept, BatchApart, CurrentApart, PendingInside
<1> QED
  BY <1>1, <1>2, <1>3, <1>4, <1>5, <1>6, <1>7, <1>8, <1>9 DEF SessionNext

(***************************************************************************)
(* The inductive invariant holds in every session: for any file, edits and *)
(* commands, with aliases, failed wi and torn saves among them.            *)
(***************************************************************************)
THEOREM SessionInvHolds == SessionSpec => []SessionInv
<1>1. SessionInit => SessionInv
  BY SessionInitInv
<1>2. SessionInv /\ [SessionNext]_sessionVars => SessionInv'
  BY SessionNextInv
<1> QED
  BY <1>1, <1>2, PTL DEF SessionSpec

(***************************************************************************)
(* SessionTypeOK in every session: no command moves the cursor outside the *)
(* image, and no wi cuts the image off in front of it, failed or not.      *)
(***************************************************************************)
THEOREM SessionTypeCorrect == SessionSpec => []SessionTypeOK
<1>1. SessionInv => SessionTypeOK
  BY DEF SessionInv
<1> QED
  BY <1>1, SessionInvHolds, PTL

(***************************************************************************)
(* ReopenAgrees in every session: Parse finds in the image the functions   *)
(* the session shows, unless a wx wrote over a header or a wi failed half  *)
(* way.                                                                    *)
(***************************************************************************)
THEOREM ReopenCorrect == SessionSpec => []ReopenAgrees
<1>1. SessionInv => ReopenAgrees
  <2> SUFFICES ASSUME SessionInv, phase = "idle", ~broken, ~tampered
               PROVE  /\ file.raw[0] = FileHeaderCell(file.dbg, file.len)
                      /\ \A i \in Func : ReadFunction(file, i)
                           = HeaderCell(file.hdr[i].offset, file.hdr[i].size)
    BY DEF ReopenAgrees
  <2>1. ImageAgrees(file)
    BY DEF SessionInv
  <2>2. file.raw[0] = FileHeaderCell(file.dbg, file.len)
    BY <2>1 DEF ImageAgrees
  <2>3. ASSUME NEW i \in Func
        PROVE  ReadFunction(file, i) = HeaderCell(file.hdr[i].offset, file.hdr[i].size)
    <3>1. CASE file.hdr[i].overflowed
      <4>1. /\ file.raw[file.hdr[i].small] = PointerCell(file.hdr[i].large)
            /\ file.raw[file.hdr[i].large] = LargeCell(file.hdr[i])
        BY <2>1, <3>1 DEF ImageAgrees, SmallCell
      <4>2. PointerCell(file.hdr[i].large).pointer = file.hdr[i].large
        BY DEF PointerCell
      <4> QED
        BY <3>1, <4>1, <4>2 DEF ReadFunction, LargeCell
    <3>2. CASE ~file.hdr[i].overflowed
      BY <2>1, <3>2 DEF ImageAgrees, SmallCell, ReadFunction
    <3> QED
      BY <3>1, <3>2
  <2> QED
    BY <2>2, <2>3
<1> QED
  BY <1>1, SessionInvHolds, PTL

(***************************************************************************)
(* CursorStaysInFunction in every session: when a wi returns, the cursor   *)
(* is in the function it edited and in no other.                           *)
(***************************************************************************)
THEOREM CursorCorrect == SessionSpec => CursorStaysInFunction
<1>1. SessionInv /\ [SessionNext]_sessionVars
        => [phase = "pick" /\ phase' = "idle" => FuncAtOffset(cursor)' = cur]_sessionVars
  <2> SUFFICES ASSUME SessionInv, SessionNext, phase = "pick", phase' = "idle"
               PROVE  FuncAtOffset(cursor)' = cur
    OBVIOUS
  <2>1. PatchStep
    BY DEF SessionNext, Seek, SeekFunction, WriteBytes, WriteInstruction, Report, Save,
           SaveElsewhere, Quit, Abandon, AtPrompt
  <2>2. Finish /\ cursor' = cursor
    BY <2>1 DEF PatchStep, Patch, Pick, Deduplicate, SpliceCode, PlaceTable, Fail
  <2>3. file' = file /\ todo = {}
    BY <2>2 DEF Finish
  <2>4. /\ cur \in Func /\ CursorInside(cur) /\ Alone(cur)
    BY <2>3 DEF SessionInv, OneFunction
  <2>5. cursor \in Nat
    BY DEF SessionInv, SessionTypeOK, Address
  <2>6. ASSUME NEW g \in Func, g # cur
        PROVE  ~ (file.hdr[g].offset <= cursor /\ cursor < End(file.hdr[g]))
    <3>1. SeparateBody(file.hdr[cur], file.hdr[g])
      BY <2>4, <2>6 DEF Alone
    <3>2. /\ file.hdr[g].offset \in Nat /\ file.hdr[g].size \in Nat
          /\ file.hdr[cur].offset \in Nat /\ file.hdr[cur].size \in Nat
      BY <2>4 DEF SessionInv, TypeOK, FileType, FunctionHeader
    <3> QED
      BY <2>4, <2>5, <3>1, <3>2 DEF SeparateBody, CursorInside, End
  <2>7. Holders(file, cursor) = {cur}
    BY <2>4, <2>6 DEF Holders, CursorInside
  <2>8. FuncAtOffset(cursor) = cur
    BY <2>7, FuncAtOffsetFinds
  <2>9. FuncAtOffset(cursor)' = FuncAtOffset(cursor)
    BY <2>2, <2>3 DEF FuncAtOffset
  <2> QED
    BY <2>8, <2>9
<1> QED
  BY <1>1, SessionInvHolds, PTL DEF SessionSpec, CursorStaysInFunction

(***************************************************************************)
(* SeekSelects in every session: sf leads to the body of the function      *)
(* sought, for bodies that overlap are shared whole.                       *)
(***************************************************************************)
THEOREM SeekCorrect == SessionSpec => SeekSelects
<1> DEFINE Selects ==
      \A i \in Func :
        SeekFunction(i) /\ ~broken /\ file.hdr[i].size > 0 =>
          LET found == FuncAtOffset(cursor)'
          IN  /\ found # None
              /\ file.hdr[found].offset = file.hdr[i].offset
              /\ file.hdr[found].size = file.hdr[i].size
<1>1. SessionInv /\ [SessionNext]_sessionVars => [Selects]_sessionVars
  <2> SUFFICES ASSUME SessionInv, NEW i \in Func, SeekFunction(i), ~broken,
                      file.hdr[i].size > 0
               PROVE  LET found == FuncAtOffset(cursor)'
                      IN  /\ found # None
                          /\ file.hdr[found].offset = file.hdr[i].offset
                          /\ file.hdr[found].size = file.hdr[i].size
    OBVIOUS
  <2> DEFINE a     == file.hdr[i].offset
             found == FuncAtOffset(a)
  <2>1. phase = "idle" /\ cursor' = a /\ file' = file
    BY DEF SeekFunction, AtPrompt, vars
  <2>2. FuncAtOffset(cursor)' = found
    BY <2>1 DEF FuncAtOffset
  <2>3. FileType(file) /\ RangesApart(file)
    BY <2>1 DEF SessionInv, ShapeInv, ShapeKept, Layout
  <2>4. \A j \in Func : file.hdr[j].offset \in Nat /\ file.hdr[j].size \in Nat
    BY <2>3 DEF FileType, FunctionHeader
  <2>5. i \in Holders(file, a)
    BY <2>4 DEF Holders, End
  <2>6. found \in Holders(file, a) /\ found # None
    BY <2>5, FuncAtOffsetFinds
  <2> HIDE DEF found
  <2>7. found \in Func /\ file.hdr[found].offset <= a /\ a < End(file.hdr[found])
    BY <2>6 DEF Holders
  <2>8. SameBody(file.hdr[found], file.hdr[i]) \/ SeparateBody(file.hdr[found], file.hdr[i])
    BY <2>3, <2>7 DEF RangesApart
  <2>9. ~SeparateBody(file.hdr[found], file.hdr[i])
    BY <2>4, <2>7 DEF SeparateBody, End
  <2> QED
    BY <2>2, <2>6, <2>8, <2>9 DEF SameBody
<1> QED
  BY <1>1, SessionInvHolds, PTL DEF SessionSpec, SeekSelects
=============================================================================
