---------------------- MODULE FunctionAssembler_proofs ----------------------
(***************************************************************************)
(* From edited text to bytecode and back to text, for every set of ops     *)
(* with any sizes, every function, every text and any number of edits.     *)
(*                                                                         *)
(* Offsets and the table of lcsAlign are recursive functions; the first    *)
(* half shows that they exist and what they compute: where each line       *)
(* begins, and a matching of equal lines in order that no other exceeds,   *)
(* also when the common prefix and suffix are taken off first.             *)
(*                                                                         *)
(* None of the properties is inductive.  What AsmInv adds is the history   *)
(* that the loop depends on: that the alignment is still that of the two   *)
(* texts, that every op chosen is the line's own or its long form, that    *)
(* every target was resolved through the alignment, and that every layout  *)
(* in which all short jumps reach contains the promotions made so far.     *)
(***************************************************************************)
EXTENDS Decompiler, SequenceTheorems, FiniteSetTheorems, WellFoundedInduction, TLAPS

-----------------------------------------------------------------------------
(* Induction, as a statement about sets of naturals. *)

(* A non-empty set of naturals has a least element. *)
LEMMA LeastElement ==
  ASSUME NEW S, S \subseteq Nat, S # {}
  PROVE  \E e \in S : \A x \in S : e <= x
<1>1. \E e \in S : \A x \in S : ~ (<<x, e>> \in OpToRel(<, Nat))
  BY NatLessThanWellFounded, WFMin
<1>2. PICK e \in S : \A x \in S : ~ (<<x, e>> \in OpToRel(<, Nat))
  BY <1>1
<1>3. ASSUME NEW x \in S, x < e
      PROVE  <<x, e>> \in OpToRel(<, Nat)
  <2>1. <<x, e>> \in Nat \X Nat /\ <<x, e>>[1] = x /\ <<x, e>>[2] = e
    OBVIOUS
  <2> QED
    BY <1>3, <2>1, Zenon DEF OpToRel
<1>4. \A x \in S : ~ (x < e)
  BY <1>2, <1>3, Zenon
<1> QED
  BY <1>4
(* A set with 0 and with each number the next one has them all. *)
LEMMA EveryNat ==
  ASSUME NEW T, 0 \in T, \A n \in Nat : n \in T => n + 1 \in T
  PROVE  Nat \subseteq T
<1> DEFINE Out == Nat \ T
<1>1. SUFFICES ASSUME Out # {} PROVE FALSE
  OBVIOUS
<1>2. PICK n \in Out : \A m \in Out : n <= m
  <2>1. Out \subseteq Nat
    OBVIOUS
  <2> HIDE DEF Out
  <2> QED
    BY <1>1, <2>1, LeastElement
<1>3. n \in Nat /\ n # 0 /\ n - 1 \in Nat /\ n - 1 \notin Out
  BY <1>2
<1>4. n - 1 \in T
  BY <1>3
<1>5. (n - 1) + 1 \in T
  BY <1>3, <1>4
<1> QED
  BY <1>2, <1>3, <1>5

-----------------------------------------------------------------------------
(* Offsets. *)

(* f has the offsets of the first n lines and the end of the last of them. *)
Lays(f, ops, n) ==
  f = [i \in 1 .. (n + 1) |-> IF i = 1 THEN 0 ELSE f[i - 1] + Size[ops[i - 1]]]

(* There is such a function for every n. *)
LEMMA LayoutExists ==
  ASSUME NEW ops, NEW n \in Nat
  PROVE  \E f : Lays(f, ops, n)
<1> DEFINE T == {k \in Nat : \E f : Lays(f, ops, k)}
<1>1. 0 \in T
  <2> DEFINE f == [i \in 1 .. 1 |-> 0]
  <2>1. Lays(f, ops, 0)
    BY DEF Lays
  <2> QED
    BY <2>1
<1>2. ASSUME NEW k \in Nat, k \in T PROVE k + 1 \in T
  <2>1. PICK f : Lays(f, ops, k)
    BY <1>2
  <2> DEFINE g == [i \in 1 .. (k + 2) |-> IF i = k + 2 THEN f[k + 1] + Size[ops[k + 1]] ELSE f[i]]
  <2>2. ASSUME NEW i \in 1 .. (k + 2)
        PROVE  g[i] = IF i = 1 THEN 0 ELSE g[i - 1] + Size[ops[i - 1]]
    <3>1. CASE i = k + 2
      BY <3>1
    <3>2. CASE i # k + 2
      <4>1. i \in 1 .. (k + 1) /\ (i # 1 => i - 1 \in 1 .. (k + 1))
        BY <3>2
      <4>2. f[i] = IF i = 1 THEN 0 ELSE f[i - 1] + Size[ops[i - 1]]
        BY <2>1, <4>1 DEF Lays
      <4> QED
        BY <3>2, <4>1, <4>2
    <3> QED
      BY <3>1, <3>2
  <2>3. g = [i \in 1 .. (k + 2) |-> g[i]]
    OBVIOUS
  <2> HIDE DEF g
  <2>4. (k + 1) + 1 = k + 2
    OBVIOUS
  <2>5. Lays(g, ops, k + 1)
    BY <2>2, <2>3, <2>4 DEF Lays
  <2> QED
    BY <2>5
<1> HIDE DEF T
<1>3. Nat \subseteq T
  BY <1>1, <1>2, EveryNat
<1> QED
  BY <1>3 DEF T

(* Offsets lays the lines out. *)
LEMMA OffsetsLay ==
  ASSUME NEW ops, Len(ops) \in Nat
  PROVE  Lays(Offsets(ops), ops, Len(ops))
<1> DEFINE f == CHOOSE h : Lays(h, ops, Len(ops))
<1>1. Offsets(ops) = f
  BY DEF Offsets, Lays
<1>2. Lays(f, ops, Len(ops))
  BY LayoutExists
<1> QED
  BY <1>1, <1>2

(* The first line is at 0, and every line ends where the next one begins. *)
LEMMA OffsetsParts ==
  ASSUME NEW ops \in Seq(Op)
  PROVE  /\ Offsets(ops)[1] = 0
         /\ \A i \in 1 .. Len(ops) : Offsets(ops)[i + 1] = Offsets(ops)[i] + Size[ops[i]]
         /\ \A i \in 1 .. Len(ops) : Size[ops[i]] \in Nat /\ Size[ops[i]] > 0
         /\ \A i \in 1 .. (Len(ops) + 1) : Offsets(ops)[i] \in Nat
<1> DEFINE f == Offsets(ops)
           n == Len(ops)
<1>1. n \in Nat
  OBVIOUS
<1>2. Lays(f, ops, n)
  BY <1>1, OffsetsLay
<1> HIDE DEF f
<1>3. f[1] = 0
  BY <1>1, <1>2 DEF Lays
<1>4. ASSUME NEW i \in 1 .. n PROVE f[i + 1] = f[i] + Size[ops[i]]
  <2>1. i + 1 \in 1 .. (n + 1) /\ i + 1 # 1 /\ (i + 1) - 1 = i
    BY <1>1
  <2>2. f[i + 1] = IF i + 1 = 1 THEN 0 ELSE f[(i + 1) - 1] + Size[ops[(i + 1) - 1]]
    BY <1>2, <2>1 DEF Lays
  <2> QED
    BY <2>1, <2>2
<1>5. ASSUME NEW i \in 1 .. n PROVE Size[ops[i]] \in Nat /\ Size[ops[i]] > 0
  <2>1. ops[i] \in Op
    OBVIOUS
  <2> QED
    BY <2>1, AssemblerAssumption
<1> DEFINE T == {k \in Nat : k \in 1 .. (n + 1) => f[k] \in Nat}
<1>6. 0 \in T
  OBVIOUS
<1>7. ASSUME NEW k \in Nat, k \in T PROVE k + 1 \in T
  <2>1. CASE k = 0
    BY <1>3, <2>1
  <2>2. CASE k \in 1 .. n
    <3>1. f[k] \in Nat
      BY <1>7, <2>2
    <3>2. f[k + 1] = f[k] + Size[ops[k]] /\ Size[ops[k]] \in Nat
      BY <1>4, <1>5, <2>2
    <3>3. f[k + 1] \in Nat
      BY <3>1, <3>2
    <3> QED
      BY <3>3
  <2>3. CASE k > n
    BY <1>1, <2>3
  <2> QED
    BY <1>1, <2>1, <2>2, <2>3
<1> HIDE DEF T
<1>8. Nat \subseteq T
  BY <1>6, <1>7, EveryNat
<1>9. \A i \in 1 .. (n + 1) : f[i] \in Nat
  BY <1>1, <1>8 DEF T
<1> QED
  BY <1>3, <1>4, <1>5, <1>9 DEF f

(* A layout with the same lines in forms that are as long or longer stretches
   every distance. *)
LEMMA OffsetsStretch ==
  ASSUME NEW ops \in Seq(Op), NEW longer \in Seq(Op), Len(longer) = Len(ops),
         \A i \in 1 .. Len(ops) : Size[ops[i]] <= Size[longer[i]],
         NEW i \in 1 .. (Len(ops) + 1), NEW k \in i .. (Len(ops) + 1)
  PROVE  Offsets(ops)[k] - Offsets(ops)[i] <= Offsets(longer)[k] - Offsets(longer)[i]
<1> DEFINE f == Offsets(ops)
           g == Offsets(longer)
           n == Len(ops)
           T == {m \in Nat : i + m \in 1 .. (n + 1) => f[i + m] - f[i] <= g[i + m] - g[i]}
<1>1. n \in Nat /\ i \in Nat
  OBVIOUS
<1>2. /\ \A j \in 1 .. n : f[j + 1] = f[j] + Size[ops[j]] /\ g[j + 1] = g[j] + Size[longer[j]]
      /\ \A j \in 1 .. n : Size[ops[j]] \in Nat /\ Size[longer[j]] \in Nat
      /\ \A j \in 1 .. (n + 1) : f[j] \in Nat /\ g[j] \in Nat
  BY OffsetsParts
<1>3. \A j \in 1 .. n : Size[ops[j]] <= Size[longer[j]]
  OBVIOUS
<1> HIDE DEF f, g, n
<1>4. 0 \in T
  BY <1>1, <1>2
<1>5. ASSUME NEW m \in Nat, m \in T PROVE m + 1 \in T
  <2>1. SUFFICES ASSUME i + (m + 1) \in 1 .. (n + 1)
                 PROVE  f[i + (m + 1)] - f[i] <= g[i + (m + 1)] - g[i]
    OBVIOUS
  <2>2. i + m \in 1 .. n /\ i + (m + 1) = (i + m) + 1 /\ i \in 1 .. (n + 1) /\ i + m \in 1 .. (n + 1)
    BY <1>1, <2>1 DEF n
  <2>3. f[i + m] - f[i] <= g[i + m] - g[i]
    BY <1>5, <2>2
  <2>4. /\ f[(i + m) + 1] = f[i + m] + Size[ops[i + m]]
        /\ g[(i + m) + 1] = g[i + m] + Size[longer[i + m]]
        /\ Size[ops[i + m]] <= Size[longer[i + m]]
        /\ Size[ops[i + m]] \in Nat /\ Size[longer[i + m]] \in Nat
    BY <1>2, <1>3, <2>2
  <2>5. f[i + m] \in Nat /\ g[i + m] \in Nat /\ f[i] \in Nat /\ g[i] \in Nat
    BY <1>2, <2>2
  <2>7. \A a, b, c, d, p, q \in Nat : a - b <= c - d /\ p <= q => (a + p) - b <= (c + q) - d
    OBVIOUS
  <2>8. (f[i + m] + Size[ops[i + m]]) - f[i] <= (g[i + m] + Size[longer[i + m]]) - g[i]
    BY <2>3, <2>4, <2>5, <2>7, Zenon
  <2>6. f[(i + m) + 1] - f[i] <= g[(i + m) + 1] - g[i]
    BY <2>4, <2>8, Zenon
  <2> QED
    BY <2>2, <2>6, Zenon
<1> HIDE DEF T
<1>6. Nat \subseteq T
  BY <1>4, <1>5, EveryNat
<1>7. k - i \in Nat /\ i + (k - i) = k /\ k \in 1 .. (n + 1)
  BY <1>1 DEF n
<1>8. k - i \in T
  BY <1>6, <1>7
<1> QED
  BY <1>7, <1>8 DEF T, f, g

(* Later lines have larger offsets. *)
LEMMA OffsetsIncrease ==
  ASSUME NEW ops \in Seq(Op), NEW i \in 1 .. (Len(ops) + 1), NEW k \in 1 .. (Len(ops) + 1), i < k
  PROVE  Offsets(ops)[i] < Offsets(ops)[k]
<1> DEFINE f == Offsets(ops)
           n == Len(ops)
           T == {m \in Nat : i + m + 1 \in 1 .. (n + 1) => f[i] < f[i + m + 1]}
<1>1. n \in Nat /\ i \in Nat /\ k \in Nat
  OBVIOUS
<1>2. /\ \A j \in 1 .. n : f[j + 1] = f[j] + Size[ops[j]]
      /\ \A j \in 1 .. n : Size[ops[j]] \in Nat /\ Size[ops[j]] > 0
      /\ \A j \in 1 .. (n + 1) : f[j] \in Nat
  BY OffsetsParts
<1> HIDE DEF f
<1>4. 0 \in T
  <2>1. i + 0 + 1 \in 1 .. (n + 1) => i \in 1 .. n /\ i \in 1 .. (n + 1) /\ i + 0 + 1 = i + 1
    BY <1>1
  <2>2. i \in 1 .. n /\ i \in 1 .. (n + 1) => f[i] < f[i + 1]
    BY <1>2
  <2>3. 0 \in Nat
    OBVIOUS
  <2> QED
    BY <2>1, <2>2, <2>3, Zenon
<1>5. ASSUME NEW m \in Nat, m \in T PROVE m + 1 \in T
  <2>1. SUFFICES ASSUME i + (m + 1) + 1 \in 1 .. (n + 1)
                 PROVE  f[i] < f[i + (m + 1) + 1]
    OBVIOUS
  <2>2. i + m + 1 \in 1 .. n /\ i + (m + 1) + 1 = (i + m + 1) + 1 /\ i + m + 1 \in 1 .. (n + 1)
    BY <1>1, <2>1
  <2>3. f[i] < f[i + m + 1]
    BY <1>5, <2>2
  <2>4. /\ f[(i + m + 1) + 1] = f[i + m + 1] + Size[ops[i + m + 1]]
        /\ Size[ops[i + m + 1]] \in Nat
    BY <1>2, <2>2
  <2>5. f[i + m + 1] \in Nat /\ f[i] \in Nat
    BY <1>2, <2>2
  <2> QED
    BY <2>2, <2>3, <2>4, <2>5
<1> HIDE DEF T
<1>6. Nat \subseteq T
  BY <1>4, <1>5, EveryNat
<1>7. k - i - 1 \in Nat /\ i + (k - i - 1) + 1 = k /\ k \in 1 .. (n + 1)
  BY <1>1
<1>8. k - i - 1 \in T
  BY <1>6, <1>7
<1> QED
  BY <1>7, <1>8 DEF T, f

(* IndexAt finds the line at an offset, and no other. *)
LEMMA IndexAtParts ==
  ASSUME NEW ops \in Seq(Op), NEW a
  PROVE  /\ IndexAt(ops, a) \in 0 .. Len(ops)
         /\ IndexAt(ops, a) # 0 => Offsets(ops)[IndexAt(ops, a)] = a
         /\ \A k \in 1 .. Len(ops) : Offsets(ops)[k] = a => IndexAt(ops, a) = k
<1> DEFINE here == {i \in 1 .. Len(ops) : Offsets(ops)[i] = a}
<1>1. IndexAt(ops, a) = IF here = {} THEN 0 ELSE CHOOSE i \in here : TRUE
  BY DEF IndexAt
<1>2. here # {} => (CHOOSE i \in here : TRUE) \in here
  OBVIOUS
<1>3. ASSUME NEW i \in here, NEW k \in here PROVE i = k
  <2>1. /\ i \in 1 .. (Len(ops) + 1) /\ k \in 1 .. (Len(ops) + 1) /\ i \in Nat /\ k \in Nat
        /\ Offsets(ops)[i] = Offsets(ops)[k] /\ Offsets(ops)[i] \in Nat
    BY OffsetsParts
  <2>2. ~ (i < k) /\ ~ (k < i)
    BY <2>1, OffsetsIncrease
  <2> QED
    BY <2>1, <2>2
<1> QED
  BY <1>1, <1>2, <1>3

-----------------------------------------------------------------------------
(* The table of lcsAlign, and the way back through it. *)

Rectangle(s, t) == (0 .. Len(s)) \X (0 .. Len(t))

(* The entries up to the k-th diagonal. *)
Corner(s, t, k) == {p \in Rectangle(s, t) : p[1] + p[2] <= k}

LengthAt(f, s, t, p) ==
  IF p[1] = 0 \/ p[2] = 0 THEN 0
  ELSE IF s[p[1]] = t[p[2]] THEN 1 + f[<<p[1] - 1, p[2] - 1>>]
  ELSE LET up   == f[<<p[1] - 1, p[2]>>]
           left == f[<<p[1], p[2] - 1>>]
       IN  IF up >= left THEN up ELSE left

BackAt(g, f, s, t, p) ==
  IF p[1] = 0 \/ p[2] = 0 THEN {}
  ELSE IF s[p[1]] = t[p[2]] THEN {p} \cup g[<<p[1] - 1, p[2] - 1>>]
  ELSE IF f[<<p[1] - 1, p[2]>>] >= f[<<p[1], p[2] - 1>>]
  THEN g[<<p[1] - 1, p[2]>>]
  ELSE g[<<p[1], p[2] - 1>>]

(* An entry not at the edge depends on entries of earlier diagonals. *)
LEMMA Neighbours ==
  ASSUME NEW s, NEW t, Len(s) \in Nat, Len(t) \in Nat, NEW k \in Nat,
         NEW p \in Corner(s, t, k + 1), p[1] # 0, p[2] # 0
  PROVE  /\ <<p[1] - 1, p[2] - 1>> \in Corner(s, t, k)
         /\ <<p[1] - 1, p[2]>> \in Corner(s, t, k)
         /\ <<p[1], p[2] - 1>> \in Corner(s, t, k)
<1>1. p[1] \in 0 .. Len(s) /\ p[2] \in 0 .. Len(t) /\ p[1] + p[2] <= k + 1
  BY DEF Corner, Rectangle
<1>2. /\ p[1] - 1 \in 0 .. Len(s) /\ p[2] - 1 \in 0 .. Len(t)
      /\ (p[1] - 1) + (p[2] - 1) <= k /\ (p[1] - 1) + p[2] <= k /\ p[1] + (p[2] - 1) <= k
  BY <1>1
<1>3. ASSUME NEW i \in 0 .. Len(s), NEW j \in 0 .. Len(t), i + j <= k
      PROVE  <<i, j>> \in Corner(s, t, k)
  BY <1>3 DEF Corner, Rectangle
<1>4. <<p[1] - 1, p[2] - 1>> \in Corner(s, t, k)
  BY <1>2, <1>3
<1>5. <<p[1] - 1, p[2]>> \in Corner(s, t, k)
  BY <1>1, <1>2, <1>3
<1>6. <<p[1], p[2] - 1>> \in Corner(s, t, k)
  BY <1>1, <1>2, <1>3
<1> QED
  BY <1>4, <1>5, <1>6

(* g leads back from the entries up to the n-th diagonal. *)
LeadsBack(g, f, s, t, n) == g = [p \in Corner(s, t, n) |-> BackAt(g, f, s, t, p)]

(* There is a table up to any diagonal. *)
LEMMA TableExists ==
  ASSUME NEW s, NEW t, Len(s) \in Nat, Len(t) \in Nat, NEW n \in Nat
  PROVE  \E f : f = [p \in Corner(s, t, n) |-> LengthAt(f, s, t, p)]
<1> DEFINE T == {k \in Nat : \E f : f = [p \in Corner(s, t, k) |-> LengthAt(f, s, t, p)]}
<1>1. 0 \in T
  <2> DEFINE f == [p \in Corner(s, t, 0) |-> 0]
  <2>1. ASSUME NEW p \in Corner(s, t, 0) PROVE LengthAt(f, s, t, p) = 0
    <3>1. p[1] = 0
      BY DEF Corner, Rectangle
    <3> QED
      BY <3>1 DEF LengthAt
  <2>2. f = [p \in Corner(s, t, 0) |-> LengthAt(f, s, t, p)]
    BY <2>1
  <2> HIDE DEF f
  <2> QED
    BY <2>2
<1>2. ASSUME NEW k \in Nat, k \in T PROVE k + 1 \in T
  <2>1. PICK f : f = [p \in Corner(s, t, k) |-> LengthAt(f, s, t, p)]
    BY <1>2
  <2> DEFINE g == [p \in Corner(s, t, k + 1) |->
                     IF p[1] + p[2] <= k THEN f[p] ELSE LengthAt(f, s, t, p)]
  <2>2. ASSUME NEW p \in Corner(s, t, k) PROVE g[p] = f[p]
    <3>1. p \in Corner(s, t, k + 1) /\ p[1] + p[2] <= k
      BY DEF Corner, Rectangle
    <3> QED
      BY <3>1
  <2>3. ASSUME NEW p \in Corner(s, t, k + 1) PROVE g[p] = LengthAt(g, s, t, p)
    <3>1. LengthAt(g, s, t, p) = LengthAt(f, s, t, p)
      <4>1. CASE p[1] = 0 \/ p[2] = 0
        BY <4>1 DEF LengthAt
      <4>2. CASE p[1] # 0 /\ p[2] # 0
        <5>1. /\ g[<<p[1] - 1, p[2] - 1>>] = f[<<p[1] - 1, p[2] - 1>>]
              /\ g[<<p[1] - 1, p[2]>>] = f[<<p[1] - 1, p[2]>>]
              /\ g[<<p[1], p[2] - 1>>] = f[<<p[1], p[2] - 1>>]
          BY <2>2, <4>2, Neighbours
        <5> HIDE DEF g
        <5> QED
          BY <5>1 DEF LengthAt
      <4> QED
        BY <4>1, <4>2
    <3>2. CASE p[1] + p[2] <= k
      <4>1. p \in Corner(s, t, k)
        BY <3>2 DEF Corner
      <4>2. f[p] = LengthAt(f, s, t, p)
        BY <2>1, <4>1
      <4> QED
        BY <2>2, <3>1, <4>1, <4>2
    <3>3. CASE ~ (p[1] + p[2] <= k)
      BY <3>1, <3>3
    <3> QED
      BY <3>2, <3>3
  <2>4. g = [p \in Corner(s, t, k + 1) |-> g[p]]
    OBVIOUS
  <2> HIDE DEF g
  <2>5. g = [p \in Corner(s, t, k + 1) |-> LengthAt(g, s, t, p)]
    BY <2>3, <2>4
  <2> QED
    BY <2>5
<1> HIDE DEF T
<1>3. Nat \subseteq T
  BY <1>1, <1>2, EveryNat
<1> QED
  BY <1>3 DEF T

(* And a way back from every entry. *)
LEMMA BackExists ==
  ASSUME NEW s, NEW t, Len(s) \in Nat, Len(t) \in Nat, NEW n \in Nat, NEW f
  PROVE  \E g : LeadsBack(g, f, s, t, n)
<1> DEFINE T == {k \in Nat : \E g : g = [p \in Corner(s, t, k) |-> BackAt(g, f, s, t, p)]}
<1>1. 0 \in T
  <2> DEFINE g == [p \in Corner(s, t, 0) |-> {}]
  <2>1. ASSUME NEW p \in Corner(s, t, 0) PROVE BackAt(g, f, s, t, p) = {}
    <3>1. p[1] = 0
      BY DEF Corner, Rectangle
    <3> QED
      BY <3>1 DEF BackAt
  <2>2. g = [p \in Corner(s, t, 0) |-> BackAt(g, f, s, t, p)]
    BY <2>1
  <2> HIDE DEF g
  <2> QED
    BY <2>2
<1>2. ASSUME NEW k \in Nat, k \in T PROVE k + 1 \in T
  <2>1. PICK h : h = [p \in Corner(s, t, k) |-> BackAt(h, f, s, t, p)]
    BY <1>2
  <2> DEFINE g == [p \in Corner(s, t, k + 1) |->
                     IF p[1] + p[2] <= k THEN h[p] ELSE BackAt(h, f, s, t, p)]
  <2>2. ASSUME NEW p \in Corner(s, t, k) PROVE g[p] = h[p]
    <3>1. p \in Corner(s, t, k + 1) /\ p[1] + p[2] <= k
      BY DEF Corner, Rectangle
    <3> QED
      BY <3>1
  <2>3. ASSUME NEW p \in Corner(s, t, k + 1) PROVE g[p] = BackAt(g, f, s, t, p)
    <3>1. BackAt(g, f, s, t, p) = BackAt(h, f, s, t, p)
      <4>1. CASE p[1] = 0 \/ p[2] = 0
        BY <4>1 DEF BackAt
      <4>2. CASE p[1] # 0 /\ p[2] # 0
        <5>1. /\ g[<<p[1] - 1, p[2] - 1>>] = h[<<p[1] - 1, p[2] - 1>>]
              /\ g[<<p[1] - 1, p[2]>>] = h[<<p[1] - 1, p[2]>>]
              /\ g[<<p[1], p[2] - 1>>] = h[<<p[1], p[2] - 1>>]
          BY <2>2, <4>2, Neighbours
        <5> HIDE DEF g
        <5> QED
          BY <5>1 DEF BackAt
      <4> QED
        BY <4>1, <4>2
    <3>2. CASE p[1] + p[2] <= k
      <4>1. p \in Corner(s, t, k)
        BY <3>2 DEF Corner
      <4>2. h[p] = BackAt(h, f, s, t, p)
        BY <2>1, <4>1
      <4> QED
        BY <2>2, <3>1, <4>1, <4>2
    <3>3. CASE ~ (p[1] + p[2] <= k)
      BY <3>1, <3>3
    <3> QED
      BY <3>2, <3>3
  <2>4. g = [p \in Corner(s, t, k + 1) |-> g[p]]
    OBVIOUS
  <2> HIDE DEF g
  <2>5. g = [p \in Corner(s, t, k + 1) |-> BackAt(g, f, s, t, p)]
    BY <2>3, <2>4
  <2> QED
    BY <2>5
<1> HIDE DEF T
<1>3. Nat \subseteq T
  BY <1>1, <1>2, EveryNat
<1> QED
  BY <1>3 DEF T, LeadsBack

(* len is the table, and walk leads back through it. *)
Aligns(len, walk, s, t) ==
  /\ \A p \in Rectangle(s, t) : len[p] = LengthAt(len, s, t, p)
  /\ \A p \in Rectangle(s, t) : walk[p] = BackAt(walk, len, s, t, p)

(* lcsAlign walks back from the last entry. *)
LEMMA LcsPairsAre ==
  ASSUME NEW s, NEW t, Len(s) \in Nat, Len(t) \in Nat
  PROVE  \E len, walk : /\ Aligns(len, walk, s, t)
                        /\ LcsPairs(s, t) = walk[<<Len(s), Len(t)>>]
<1> DEFINE f == CHOOSE h : h = [p \in (0 .. Len(s)) \X (0 .. Len(t)) |-> LengthAt(h, s, t, p)]
           g == CHOOSE h : h = [p \in (0 .. Len(s)) \X (0 .. Len(t)) |-> BackAt(h, f, s, t, p)]
<1>1. LcsPairs(s, t) = g[<<Len(s), Len(t)>>]
  BY DEF LcsPairs, LengthAt, BackAt
<1>2. Corner(s, t, Len(s) + Len(t)) = (0 .. Len(s)) \X (0 .. Len(t))
  BY DEF Corner, Rectangle
<1>3. f = [p \in (0 .. Len(s)) \X (0 .. Len(t)) |-> LengthAt(f, s, t, p)]
  <2>1. Len(s) + Len(t) \in Nat
    OBVIOUS
  <2>2. \E h : h = [p \in Corner(s, t, Len(s) + Len(t)) |-> LengthAt(h, s, t, p)]
    BY <2>1, TableExists
  <2>3. \E h : h = [p \in (0 .. Len(s)) \X (0 .. Len(t)) |-> LengthAt(h, s, t, p)]
    BY <1>2, <2>2
  <2> QED
    BY <2>3
<1> HIDE DEF f
<1>4. g = [p \in (0 .. Len(s)) \X (0 .. Len(t)) |-> BackAt(g, f, s, t, p)]
  <2>1. Len(s) + Len(t) \in Nat
    OBVIOUS
  <2> HIDE DEF g
  <2>2. \E h : LeadsBack(h, f, s, t, Len(s) + Len(t))
    BY <2>1, BackExists
  <2>3. \E h : h = [p \in (0 .. Len(s)) \X (0 .. Len(t)) |-> BackAt(h, f, s, t, p)]
    BY <1>2, <2>2 DEF LeadsBack
  <2> QED
    BY <2>3 DEF g
<1> HIDE DEF g
<1>5. Aligns(f, g, s, t)
  BY <1>3, <1>4 DEF Aligns, Rectangle
<1> QED
  BY <1>1, <1>5

-----------------------------------------------------------------------------
(* Matchings in order. *)

(* M matches equal elements among the first a of s and b of t, in order. *)
Chain(M, s, t, a, b) ==
  /\ M \subseteq (1 .. a) \X (1 .. b)
  /\ \A p \in M : s[p[1]] = t[p[2]]
  /\ \A p, q \in M : p[1] < q[1] <=> p[2] < q[2]

(* What a chain consists of. *)
LEMMA ChainParts ==
  ASSUME NEW s, NEW t, NEW a \in Nat, NEW b \in Nat, NEW M, Chain(M, s, t, a, b)
  PROVE  /\ IsFiniteSet(M) /\ Cardinality(M) \in Nat
         /\ \A p \in M : p = <<p[1], p[2]>> /\ p[1] \in 1 .. a /\ p[2] \in 1 .. b
         /\ \A p, q \in M : p[1] = q[1] \/ p[2] = q[2] => p = q
<1>1. IsFiniteSet(1 .. a) /\ IsFiniteSet(1 .. b)
  BY FS_Interval
<1>2. IsFiniteSet((1 .. a) \X (1 .. b))
  BY <1>1, FS_Product
<1>3. M \in SUBSET ((1 .. a) \X (1 .. b))
  BY DEF Chain
<1>4. IsFiniteSet(M)
  BY <1>2, <1>3, FS_Subset
<1>5. Cardinality(M) \in Nat
  BY <1>4, FS_CardinalityType
<1>6. \A p \in M : p = <<p[1], p[2]>> /\ p[1] \in 1 .. a /\ p[2] \in 1 .. b
  BY <1>3
<1>7. ASSUME NEW p \in M, NEW q \in M, p[1] = q[1] \/ p[2] = q[2] PROVE p = q
  <2>1. (p[1] < q[1] <=> p[2] < q[2]) /\ (q[1] < p[1] <=> q[2] < p[2])
    BY DEF Chain
  <2>2. p[1] \in Nat /\ p[2] \in Nat /\ q[1] \in Nat /\ q[2] \in Nat
    BY <1>6
  <2>3. p[1] = q[1] /\ p[2] = q[2]
    BY <1>7, <2>1, <2>2
  <2> QED
    BY <1>6, <2>3
<1> QED
  BY <1>4, <1>5, <1>6, <1>7

(* A part of a chain is a chain within the bounds it keeps. *)
LEMMA ChainWithin ==
  ASSUME NEW s, NEW t, NEW a \in Nat, NEW b \in Nat, NEW M, Chain(M, s, t, a, b),
         NEW c \in Nat, NEW d \in Nat, NEW P \in SUBSET M,
         \A p \in P : p[1] <= c /\ p[2] <= d
  PROVE  Chain(P, s, t, c, d)
<1>1. \A p \in P : p = <<p[1], p[2]>> /\ p[1] \in 1 .. a /\ p[2] \in 1 .. b
  BY ChainParts
<1>2. \A p \in P : p[1] \in 1 .. c /\ p[2] \in 1 .. d
  BY <1>1
<1>3. ASSUME NEW p \in P PROVE p \in (1 .. c) \X (1 .. d)
  BY <1>1, <1>2
<1> QED
  BY <1>3 DEF Chain

(* The pairs found from an entry on are a chain, as many as it says, and no
   chain has more. *)
Best(len, walk, s, t, a, b) ==
  /\ len[<<a, b>>] \in Nat
  /\ Chain(walk[<<a, b>>], s, t, a, b)
  /\ Cardinality(walk[<<a, b>>]) = len[<<a, b>>]
  /\ \A M : Chain(M, s, t, a, b) => Cardinality(M) <= len[<<a, b>>]

(* At the edge there is nothing to match. *)
LEMMA BestAtEdge ==
  ASSUME NEW s, NEW t, NEW len, NEW walk, Aligns(len, walk, s, t),
         NEW a \in 0 .. Len(s), NEW b \in 0 .. Len(t), a = 0 \/ b = 0
  PROVE  Best(len, walk, s, t, a, b)
<1> DEFINE p == <<a, b>>
<1>1. p \in Rectangle(s, t) /\ p[1] = a /\ p[2] = b
  BY DEF Rectangle
<1> HIDE DEF p
<1>2. len[p] = 0 /\ walk[p] = {}
  BY <1>1 DEF Aligns, LengthAt, BackAt
<1>3. (1 .. a) \X (1 .. b) = {}
  BY SMT
<1>4. \A M : Chain(M, s, t, a, b) => M = {}
  BY <1>3 DEF Chain
<1>5. Chain({}, s, t, a, b)
  BY DEF Chain
<1>6. Cardinality({}) = 0
  BY FS_EmptySet
<1>7. \A M : Chain(M, s, t, a, b) => Cardinality(M) <= 0
  <2>1. 0 <= 0
    OBVIOUS
  <2> QED
    BY <1>4, <1>6, <2>1, Zenon
<1>8. /\ len[p] \in Nat /\ Chain(walk[p], s, t, a, b) /\ Cardinality(walk[p]) = len[p]
      /\ \A M : Chain(M, s, t, a, b) => Cardinality(M) <= len[p]
  <2>1. 0 \in Nat
    OBVIOUS
  <2> QED
    BY <1>2, <1>5, <1>6, <1>7, <2>1, Zenon
<1> QED
  BY <1>8, Zenon DEF Best, p

(* Equal elements at the end of both: they are matched. *)
LEMMA BestMatched ==
  ASSUME NEW s, NEW t, NEW len, NEW walk, Aligns(len, walk, s, t), Len(s) \in Nat, Len(t) \in Nat,
         NEW a \in 1 .. Len(s), NEW b \in 1 .. Len(t), s[a] = t[b],
         Best(len, walk, s, t, a - 1, b - 1)
  PROVE  Best(len, walk, s, t, a, b)
<1> DEFINE p == <<a, b>>
           c == a - 1
           d == b - 1
           W == walk[<<c, d>>]
<1>1. p \in Rectangle(s, t) /\ p[1] = a /\ p[2] = b
  BY DEF Rectangle
<1>2. a \in Nat /\ b \in Nat /\ c \in Nat /\ d \in Nat /\ a # 0 /\ b # 0 /\ a = c + 1 /\ b = d + 1
  OBVIOUS
<1>3. len[p] = 1 + len[<<c, d>>] /\ walk[p] = {p} \cup W
  <2> HIDE DEF p
  <2> QED
    BY <1>1, <1>2 DEF Aligns, LengthAt, BackAt
<1>4. /\ len[<<c, d>>] \in Nat /\ Chain(W, s, t, c, d)
      /\ Cardinality(W) = len[<<c, d>>]
      /\ \A M : Chain(M, s, t, c, d) => Cardinality(M) <= len[<<c, d>>]
  BY DEF Best
<1> HIDE DEF c, d, W
<1>5. /\ IsFiniteSet(W) /\ Cardinality(W) \in Nat
      /\ \A q \in W : q = <<q[1], q[2]>> /\ q[1] \in 1 .. c /\ q[2] \in 1 .. d
  BY <1>2, <1>4, ChainParts
<1>6. Chain(walk[p], s, t, a, b)
  <2>1. ASSUME NEW q \in walk[p] PROVE q \in (1 .. a) \X (1 .. b) /\ s[q[1]] = t[q[2]]
    <3>1. CASE q = p
      BY <1>1, <1>2, <3>1
    <3>2. CASE q \in W
      <4>1. q = <<q[1], q[2]>> /\ q[1] \in 1 .. a /\ q[2] \in 1 .. b
        BY <1>2, <1>5, <3>2
      <4>2. s[q[1]] = t[q[2]]
        BY <1>4, <3>2 DEF Chain
      <4> QED
        BY <4>1, <4>2
    <3> QED
      BY <1>3, <3>1, <3>2
  <2>2. ASSUME NEW q \in walk[p], NEW r \in walk[p] PROVE q[1] < r[1] <=> q[2] < r[2]
    <3>1. CASE q = p /\ r = p
      BY <1>1, <1>2, <3>1
    <3>2. CASE q = p /\ r \in W
      <4>1. r[1] \in 1 .. c /\ r[2] \in 1 .. d
        BY <1>5, <3>2
      <4> QED
        BY <1>1, <1>2, <3>2, <4>1
    <3>3. CASE q \in W /\ r = p
      <4>1. q[1] \in 1 .. c /\ q[2] \in 1 .. d
        BY <1>5, <3>3
      <4> QED
        BY <1>1, <1>2, <3>3, <4>1
    <3>4. CASE q \in W /\ r \in W
      BY <1>4, <3>4 DEF Chain
    <3> QED
      BY <1>3, <3>1, <3>2, <3>3, <3>4
  <2> QED
    BY <2>1, <2>2 DEF Chain
<1>7. Cardinality(walk[p]) = len[p]
  <2>1. p \notin W
    BY <1>1, <1>2, <1>5
  <2>2. Cardinality(W \cup {p}) = Cardinality(W) + 1
    BY <1>5, <2>1, FS_AddElement
  <2>3. Cardinality(W) + 1 = 1 + Cardinality(W)
    BY <1>5
  <2>4. walk[p] = W \cup {p}
    BY <1>3
  <2>5. Cardinality(W) = len[<<c, d>>]
    BY <1>4
  <2> QED
    BY <1>3, <2>2, <2>3, <2>4, <2>5, Zenon
<1>8. ASSUME NEW M, Chain(M, s, t, a, b) PROVE Cardinality(M) <= len[p]
  <2> DEFINE P == {q \in M : q[1] < a /\ q[2] < b}
  <2>1. /\ IsFiniteSet(M) /\ Cardinality(M) \in Nat
        /\ \A q \in M : q = <<q[1], q[2]>> /\ q[1] \in 1 .. a /\ q[2] \in 1 .. b
        /\ \A q, r \in M : q[1] = r[1] \/ q[2] = r[2] => q = r
    BY <1>2, <1>8, ChainParts
  <2>2. P \in SUBSET M /\ \A q \in P : q[1] <= c /\ q[2] <= d
    BY <1>2, <2>1
  <2>3. Chain(P, s, t, c, d)
    BY <1>2, <1>8, <2>2, ChainWithin
  <2>4. Cardinality(P) <= len[<<c, d>>] /\ IsFiniteSet(P) /\ Cardinality(P) \in Nat
    BY <1>2, <1>4, <2>3, ChainParts
  <2>5. ASSUME NEW q \in M \ P, NEW r \in M \ P PROVE q = r
    <3>1. q[1] = a \/ q[2] = b
      BY <1>2, <2>1
    <3>2. r[1] = a \/ r[2] = b
      BY <1>2, <2>1
    <3>3. (q[1] < r[1] <=> q[2] < r[2]) /\ (r[1] < q[1] <=> r[2] < q[2])
      BY <1>8 DEF Chain
    <3>4. q[1] = r[1] \/ q[2] = r[2]
      BY <1>2, <2>1, <3>1, <3>2, <3>3
    <3> QED
      BY <2>1, <3>4
  <2>6. CASE M \ P = {}
    <3>1. M = P
      BY <2>2, <2>6
    <3> DEFINE k == Cardinality(P)
               l == len[<<c, d>>]
    <3>2. k \in Nat /\ l \in Nat /\ k <= l
      BY <1>4, <2>4
    <3> HIDE DEF k, l, P
    <3>3. k <= 1 + l
      BY <3>2
    <3> QED
      BY <1>3, <3>1, <3>3, Zenon DEF k, l
  <2>7. CASE M \ P # {}
    <3>1. PICK q : q \in M \ P
      BY <2>7
    <3>2. M = P \cup {q} /\ q \notin P
      BY <2>2, <2>5, <3>1
    <3>3. Cardinality(M) = Cardinality(P) + 1
      BY <2>4, <3>2, FS_AddElement
    <3> DEFINE k == Cardinality(P)
               l == len[<<c, d>>]
    <3>4. k \in Nat /\ l \in Nat /\ k <= l
      BY <1>4, <2>4
    <3> HIDE DEF k, l, P
    <3>5. k + 1 <= 1 + l
      BY <3>4
    <3> QED
      BY <1>3, <3>3, <3>5, Zenon DEF k, l
  <2> QED
    BY <2>6, <2>7
<1>9. len[p] \in Nat
  BY <1>3, <1>4
<1> QED
  BY <1>6, <1>7, <1>8, <1>9 DEF Best, p

(* Different elements: one of them is left out. *)
LEMMA BestSkipped ==
  ASSUME NEW s, NEW t, NEW len, NEW walk, Aligns(len, walk, s, t), Len(s) \in Nat, Len(t) \in Nat,
         NEW a \in 1 .. Len(s), NEW b \in 1 .. Len(t), s[a] # t[b],
         Best(len, walk, s, t, a - 1, b), Best(len, walk, s, t, a, b - 1)
  PROVE  Best(len, walk, s, t, a, b)
<1> DEFINE p == <<a, b>>
           c == a - 1
           d == b - 1
           U == <<c, b>>
           L == <<a, d>>
<1>1. p \in Rectangle(s, t) /\ p[1] = a /\ p[2] = b
  BY DEF Rectangle
<1>2. a \in Nat /\ b \in Nat /\ c \in Nat /\ d \in Nat /\ a # 0 /\ b # 0 /\ a = c + 1 /\ b = d + 1
  OBVIOUS
<1>3. IF len[U] >= len[L] THEN len[p] = len[U] /\ walk[p] = walk[U]
                          ELSE len[p] = len[L] /\ walk[p] = walk[L]
  <2> HIDE DEF p
  <2> QED
    BY <1>1, <1>2 DEF Aligns, LengthAt, BackAt
<1>4. /\ len[U] \in Nat /\ Chain(walk[U], s, t, c, b) /\ Cardinality(walk[U]) = len[U]
      /\ \A M : Chain(M, s, t, c, b) => Cardinality(M) <= len[U]
  BY DEF Best
<1>5. /\ len[L] \in Nat /\ Chain(walk[L], s, t, a, d) /\ Cardinality(walk[L]) = len[L]
      /\ \A M : Chain(M, s, t, a, d) => Cardinality(M) <= len[L]
  BY DEF Best
<1> HIDE DEF c, d, U, L
<1>6. Chain(walk[U], s, t, a, b)
  <2>1. \A q \in walk[U] : q[1] \in 1 .. c /\ q[2] \in 1 .. b
    BY <1>2, <1>4, ChainParts
  <2>2. \A q \in walk[U] : q[1] <= a /\ q[2] <= b
    BY <1>2, <2>1
  <2> QED
    BY <1>2, <1>4, <2>2, ChainWithin
<1>7. Chain(walk[L], s, t, a, b)
  <2>1. \A q \in walk[L] : q[1] \in 1 .. a /\ q[2] \in 1 .. d
    BY <1>2, <1>5, ChainParts
  <2>2. \A q \in walk[L] : q[1] <= a /\ q[2] <= b
    BY <1>2, <2>1
  <2> QED
    BY <1>2, <1>5, <2>2, ChainWithin
<1>8. ASSUME NEW M, Chain(M, s, t, a, b) PROVE Cardinality(M) <= len[p]
  <2>1. /\ Cardinality(M) \in Nat
        /\ \A q \in M : q = <<q[1], q[2]>> /\ q[1] \in 1 .. a /\ q[2] \in 1 .. b
    BY <1>2, <1>8, ChainParts
  <2>2. CASE \A q \in M : q[1] # a
    <3>1. \A q \in M : q[1] <= c /\ q[2] <= b
      BY <1>2, <2>1, <2>2
    <3>2. Chain(M, s, t, c, b)
      BY <1>2, <1>8, <3>1, ChainWithin
    <3> QED
      BY <1>3, <1>4, <1>5, <2>1, <3>2
  <2>3. CASE \A q \in M : q[2] # b
    <3>1. \A q \in M : q[1] <= a /\ q[2] <= d
      BY <1>2, <2>1, <2>3
    <3>2. Chain(M, s, t, a, d)
      BY <1>2, <1>8, <3>1, ChainWithin
    <3> QED
      BY <1>3, <1>4, <1>5, <2>1, <3>2
  <2>4. CASE \E q, r \in M : q[1] = a /\ r[2] = b
    <3>1. PICK q \in M, r \in M : q[1] = a /\ r[2] = b
      BY <2>4
    <3>2. /\ q[1] < r[1] <=> q[2] < r[2]
          /\ r[1] < q[1] <=> r[2] < q[2]
          /\ s[q[1]] = t[q[2]] /\ s[r[1]] = t[r[2]]
      BY <1>8 DEF Chain
    <3>3. q[1] = r[1] /\ q[2] = r[2]
      BY <1>2, <2>1, <3>1, <3>2
    <3> QED
      BY <3>1, <3>2, <3>3
  <2> QED
    BY <2>2, <2>3, <2>4
<1> QED
  BY <1>3, <1>4, <1>5, <1>6, <1>7, <1>8 DEF Best, p

(***************************************************************************)
(* lcsAlign finds a longest matching, from every entry of its table.       *)
(***************************************************************************)
LEMMA WalkIsBest ==
  ASSUME NEW s, NEW t, NEW len, NEW walk, Aligns(len, walk, s, t), Len(s) \in Nat, Len(t) \in Nat,
         NEW a \in 0 .. Len(s), NEW b \in 0 .. Len(t)
  PROVE  Best(len, walk, s, t, a, b)
<1> DEFINE T == {k \in Nat : \A i \in 0 .. Len(s), j \in 0 .. Len(t) :
                   i + j <= k => Best(len, walk, s, t, i, j)}
<1>1. 0 \in T
  <2>1. ASSUME NEW i \in 0 .. Len(s), NEW j \in 0 .. Len(t), i + j <= 0 
        PROVE  Best(len, walk, s, t, i, j)
    <3>1. i = 0
      BY <2>1
    <3> QED
      BY <3>1, BestAtEdge
  <2> QED
    BY <2>1
<1>2. ASSUME NEW k \in Nat, k \in T PROVE k + 1 \in T
  <2>1. ASSUME NEW i \in 0 .. Len(s), NEW j \in 0 .. Len(t), i + j <= k + 1
        PROVE  Best(len, walk, s, t, i, j)
    <3>1. CASE i = 0 \/ j = 0
      BY <3>1, BestAtEdge
    <3>2. CASE i # 0 /\ j # 0
      <4>1. /\ i \in 1 .. Len(s) /\ j \in 1 .. Len(t)
            /\ i - 1 \in 0 .. Len(s) /\ j - 1 \in 0 .. Len(t)
            /\ (i - 1) + j <= k /\ i + (j - 1) <= k /\ (i - 1) + (j - 1) <= k
        BY <2>1, <3>2
      <4>2. /\ Best(len, walk, s, t, i - 1, j) /\ Best(len, walk, s, t, i, j - 1)
            /\ Best(len, walk, s, t, i - 1, j - 1)
        BY <1>2, <4>1
      <4> QED
        BY <4>1, <4>2, BestMatched, BestSkipped
    <3> QED
      BY <3>1, <3>2
  <2> QED
    BY <2>1
<1> HIDE DEF T
<1>3. Nat \subseteq T
  BY <1>1, <1>2, EveryNat
<1>4. a + b \in T /\ a + b <= a + b
  BY <1>3
<1> QED
  BY <1>4 DEF T

(* So what it finds altogether is longest. *)
LEMMA LcsLongest ==
  ASSUME NEW s, NEW t, Len(s) \in Nat, Len(t) \in Nat
  PROVE  /\ Chain(LcsPairs(s, t), s, t, Len(s), Len(t))
         /\ \A M : Chain(M, s, t, Len(s), Len(t)) => Cardinality(M) <= Cardinality(LcsPairs(s, t))
<1>1. PICK len, walk : Aligns(len, walk, s, t) /\ LcsPairs(s, t) = walk[<<Len(s), Len(t)>>]
  BY LcsPairsAre
<1>2. Len(s) \in 0 .. Len(s) /\ Len(t) \in 0 .. Len(t)
  OBVIOUS
<1>3. Best(len, walk, s, t, Len(s), Len(t))
  BY <1>1, <1>2, WalkIsBest
<1> QED
  BY <1>1, <1>3 DEF Best

(* Mapped one to one, a set is no larger than the one it is mapped into. *)
LEMMA MappedInto ==
  ASSUME NEW S, NEW T, IsFiniteSet(T), NEW f \in [S -> T],
         \A x, y \in S : f[x] = f[y] => x = y
  PROVE  IsFiniteSet(S) /\ Cardinality(S) <= Cardinality(T)
<1>1. f \in Injection(S, T)
  BY DEF Injection, IsInjective
<1> QED
  BY <1>1, FS_Injection

-----------------------------------------------------------------------------
(* alignInstructions. *)

(* What is found to match is the same. *)
LEMMA MatchingParts ==
  ASSUME NEW s, NEW t, NEW most \in Nat
  PROVE  /\ Matching(s, t, most) \in 0 .. most
         /\ \A i \in 1 .. Matching(s, t, most) : s[i] = t[i]
<1> DEFINE Bad == {i \in 1 .. most : s[i] # t[i]}
           Good(n) == /\ \A i \in 1 .. n : s[i] = t[i]
                      /\ n = most \/ s[n + 1] # t[n + 1]
<1>1. \E n \in 0 .. most : Good(n)
  <2>1. CASE Bad = {}
    <3>1. most \in 0 .. most /\ Good(most)
      BY <2>1
    <3> QED
      BY <3>1
  <2>2. CASE Bad # {}
    <3>1. PICK e \in Bad : \A x \in Bad : e <= x
      <4>1. Bad \subseteq Nat
        OBVIOUS
      <4> HIDE DEF Bad
      <4> QED
        BY <2>2, <4>1, LeastElement
    <3>2. e \in 1 .. most /\ s[e] # t[e] /\ e - 1 \in 0 .. most /\ (e - 1) + 1 = e
      OBVIOUS
    <3>3. ASSUME NEW i \in 1 .. (e - 1) PROVE s[i] = t[i]
      <4>1. i \in 1 .. most /\ ~ (e <= i)
        BY <3>2
      <4> QED
        BY <3>1, <4>1
    <3>4. Good(e - 1)
      BY <3>2, <3>3
    <3> QED
      BY <3>2, <3>4
  <2> QED
    BY <2>1, <2>2
<1>2. Matching(s, t, most) = CHOOSE n \in 0 .. most : Good(n)
  BY DEF Matching
<1>3. Matching(s, t, most) \in 0 .. most /\ Good(Matching(s, t, most))
  BY <1>1, <1>2
<1> QED
  BY <1>3

Least(s, t) == IF Len(s) <= Len(t) THEN Len(s) ELSE Len(t)

PrefixOf(s, t) == Matching(s, t, Least(s, t))

SuffixOf(s, t) == Matching(Reverse(s), Reverse(t), Least(s, t) - PrefixOf(s, t))

(* What is left of s between them, and of t. *)
MiddleS(s, t) == SubSeq(s, PrefixOf(s, t) + 1, Len(s) - SuffixOf(s, t))

MiddleT(s, t) == SubSeq(t, PrefixOf(s, t) + 1, Len(t) - SuffixOf(s, t))

Small(s, t) ==
  (Len(s) - PrefixOf(s, t) - SuffixOf(s, t) + 1) * (Len(t) - PrefixOf(s, t) - SuffixOf(s, t) + 1)
    <= MaxCells

AtFront(s, t) == {<<i, i>> : i \in 1 .. PrefixOf(s, t)}

AtRear(s, t) == {<<Len(s) - i, Len(t) - i>> : i \in 0 .. (SuffixOf(s, t) - 1)}

AtCentre(s, t) ==
  IF Small(s, t)
  THEN {<<PrefixOf(s, t) + p[1], PrefixOf(s, t) + p[2]>> : p \in LcsPairs(MiddleS(s, t), MiddleT(s, t))}
  ELSE {}

PairsOf(s, t) == AtFront(s, t) \cup AtRear(s, t) \cup AtCentre(s, t)

(* The alignment reads the pairs by their second elements. *)
LEMMA AlignInstructionsIs ==
  ASSUME NEW s, NEW t
  PROVE  AlignInstructions(s, t) =
           [j \in 1 .. Len(t) |-> IF \E i \in 1 .. Len(s) : <<i, j>> \in PairsOf(s, t)
                                  THEN CHOOSE i \in 1 .. Len(s) : <<i, j>> \in PairsOf(s, t)
                                  ELSE 0]
BY DEF AlignInstructions, PairsOf, AtFront, AtRear, AtCentre, Small, MiddleS, MiddleT,
       SuffixOf, PrefixOf, Least

(* Prefix and suffix do not overlap, and the middle is what is between. *)
LEMMA MiddleParts ==
  ASSUME NEW E, NEW s \in Seq(E), NEW t \in Seq(E)
  PROVE  LET pre == PrefixOf(s, t)
             suf == SuffixOf(s, t)
         IN  /\ pre \in Nat /\ suf \in Nat /\ Len(s) \in Nat /\ Len(t) \in Nat
             /\ pre + suf <= Len(s) /\ pre + suf <= Len(t)
             /\ \A i \in 1 .. pre : s[i] = t[i]
             /\ \A i \in 0 .. (suf - 1) : s[Len(s) - i] = t[Len(t) - i]
             /\ Len(MiddleS(s, t)) = Len(s) - pre - suf
             /\ Len(MiddleT(s, t)) = Len(t) - pre - suf
             /\ \A i \in 1 .. (Len(s) - pre - suf) : MiddleS(s, t)[i] = s[pre + i]
             /\ \A i \in 1 .. (Len(t) - pre - suf) : MiddleT(s, t)[i] = t[pre + i]
<1> DEFINE pre == PrefixOf(s, t)
           suf == SuffixOf(s, t)
           n   == Len(s)
           m   == Len(t)
<1>1. n \in Nat /\ m \in Nat /\ Least(s, t) \in Nat /\ Least(s, t) <= n /\ Least(s, t) <= m
  BY DEF Least
<1>2. pre \in 0 .. Least(s, t) /\ \A i \in 1 .. pre : s[i] = t[i]
  BY <1>1, MatchingParts DEF PrefixOf
<1>3. Least(s, t) - pre \in Nat
  BY <1>1, <1>2
<1>4. suf \in 0 .. (Least(s, t) - pre) /\ \A i \in 1 .. suf : Reverse(s)[i] = Reverse(t)[i]
  BY <1>3, MatchingParts DEF SuffixOf
<1>5. pre \in Nat /\ suf \in Nat /\ pre + suf <= n /\ pre + suf <= m
  BY <1>1, <1>2, <1>4
<1> HIDE DEF pre, suf
<1>6. ASSUME NEW i \in 0 .. (suf - 1) PROVE s[n - i] = t[m - i]
  <2>1. i + 1 \in 1 .. suf /\ i + 1 \in 1 .. n /\ i + 1 \in 1 .. m
        /\ (n - (i + 1)) + 1 = n - i /\ (m - (i + 1)) + 1 = m - i
    BY <1>1, <1>5
  <2>2. Reverse(s)[i + 1] = s[n - i] /\ Reverse(t)[i + 1] = t[m - i]
    BY <2>1 DEF Reverse
  <2> QED
    BY <1>4, <2>1, <2>2
<1>7. /\ Len(MiddleS(s, t)) = n - pre - suf
      /\ \A i \in 1 .. (n - pre - suf) : MiddleS(s, t)[i] = s[pre + i]
  <2>1. MiddleS(s, t) = SubSeq(s, pre + 1, n - suf)
    BY DEF MiddleS, pre, suf
  <2> QED
    BY <1>1, <1>5, <2>1
<1>8. /\ Len(MiddleT(s, t)) = m - pre - suf
      /\ \A i \in 1 .. (m - pre - suf) : MiddleT(s, t)[i] = t[pre + i]
  <2>1. MiddleT(s, t) = SubSeq(t, pre + 1, m - suf)
    BY DEF MiddleT, pre, suf
  <2> QED
    BY <1>1, <1>5, <2>1
<1> QED
  BY <1>1, <1>2, <1>5, <1>6, <1>7, <1>8 DEF pre, suf

(* Where the pairs of each kind are. *)
LEMMA PairsShape ==
  ASSUME NEW E, NEW s \in Seq(E), NEW t \in Seq(E)
  PROVE  LET pre == PrefixOf(s, t)
             suf == SuffixOf(s, t)
             n   == Len(s)
             m   == Len(t)
             mid == LcsPairs(MiddleS(s, t), MiddleT(s, t))
         IN  /\ \A p \in AtFront(s, t) : p = <<p[1], p[2]>> /\ p[1] \in 1 .. pre /\ p[2] = p[1]
             /\ \A p \in AtRear(s, t) :
                  /\ p = <<p[1], p[2]>> /\ p[1] \in (n - suf + 1) .. n
                  /\ p[2] \in (m - suf + 1) .. m /\ n - p[1] = m - p[2]
             /\ \A p \in AtCentre(s, t) :
                  /\ p = <<p[1], p[2]>> /\ p[1] \in (pre + 1) .. (n - suf)
                  /\ p[2] \in (pre + 1) .. (m - suf) /\ <<p[1] - pre, p[2] - pre>> \in mid
<1> DEFINE pre == PrefixOf(s, t)
           suf == SuffixOf(s, t)
           n   == Len(s)
           m   == Len(t)
           mid == LcsPairs(MiddleS(s, t), MiddleT(s, t))
<1>1. /\ pre \in Nat /\ suf \in Nat /\ n \in Nat /\ m \in Nat
      /\ pre + suf <= n /\ pre + suf <= m
      /\ Len(MiddleS(s, t)) = n - pre - suf
      /\ Len(MiddleT(s, t)) = m - pre - suf
  BY MiddleParts
<1>2. Chain(mid, MiddleS(s, t), MiddleT(s, t), n - pre - suf, m - pre - suf)
  <2>1. n - pre - suf \in Nat /\ m - pre - suf \in Nat
    BY <1>1
  <2> HIDE DEF n, m, pre, suf
  <2> QED
    BY <1>1, <2>1, LcsLongest
<1>3. ASSUME NEW p \in AtFront(s, t)
      PROVE  p = <<p[1], p[2]>> /\ p[1] \in 1 .. pre /\ p[2] = p[1]
  BY DEF AtFront
<1>4. ASSUME NEW p \in AtRear(s, t)
      PROVE  /\ p = <<p[1], p[2]>> /\ p[1] \in (n - suf + 1) .. n
             /\ p[2] \in (m - suf + 1) .. m /\ n - p[1] = m - p[2]
  <2>1. PICK i \in 0 .. (suf - 1) : p = <<n - i, m - i>>
    BY DEF AtRear
  <2> HIDE DEF n, m, pre, suf
  <2>2. p[1] = n - i /\ p[2] = m - i
    BY <2>1
  <2> QED
    BY <1>1, <2>1, <2>2
<1>5. ASSUME NEW p \in AtCentre(s, t)
      PROVE  /\ p = <<p[1], p[2]>> /\ p[1] \in (pre + 1) .. (n - suf)
             /\ p[2] \in (pre + 1) .. (m - suf) /\ <<p[1] - pre, p[2] - pre>> \in mid
  <2>1. PICK q \in mid : p = <<pre + q[1], pre + q[2]>>
    BY DEF AtCentre
  <2> HIDE DEF n, m, pre, suf, mid
  <2>2. n - pre - suf \in Nat /\ m - pre - suf \in Nat
    BY <1>1
  <2>3. q = <<q[1], q[2]>> /\ q[1] \in 1 .. (n - pre - suf) /\ q[2] \in 1 .. (m - pre - suf)
    BY <1>2, <2>1, <2>2, ChainParts
  <2>4. p[1] = pre + q[1] /\ p[2] = pre + q[2]
    BY <2>1
  <2> DEFINE a == q[1]
             b == q[2]
  <2> HIDE DEF a, b
  <2>5. /\ pre + a \in (pre + 1) .. (n - suf) /\ pre + b \in (pre + 1) .. (m - suf)
        /\ (pre + a) - pre = a /\ (pre + b) - pre = b
    <3>1. a \in 1 .. (n - pre - suf) /\ b \in 1 .. (m - pre - suf)
      BY <2>3 DEF a, b
    <3> QED
      BY <1>1, <3>1
  <2>6. p[1] = pre + a /\ p[2] = pre + b /\ p = <<p[1], p[2]>>
    BY <2>1 DEF a, b
  <2>7. <<a, b>> \in mid
    BY <2>3, Zenon DEF a, b
  <2> QED
    BY <2>5, <2>6, <2>7, Zenon
<1> QED
  BY <1>3, <1>4, <1>5

(* The pairs of the alignment match equal elements, in order. *)
LEMMA PairsChain ==
  ASSUME NEW E, NEW s \in Seq(E), NEW t \in Seq(E)
  PROVE  Chain(PairsOf(s, t), s, t, Len(s), Len(t))
<1> DEFINE pre == PrefixOf(s, t)
           suf == SuffixOf(s, t)
           n   == Len(s)
           m   == Len(t)
           mid == LcsPairs(MiddleS(s, t), MiddleT(s, t))
           u   == MiddleS(s, t)
           v   == MiddleT(s, t)
<1>1. /\ pre \in Nat /\ suf \in Nat /\ n \in Nat /\ m \in Nat
      /\ pre + suf <= n /\ pre + suf <= m
      /\ Len(u) = n - pre - suf /\ Len(v) = m - pre - suf
  BY MiddleParts
<1>2. /\ \A i \in 1 .. pre : s[i] = t[i]
      /\ \A i \in 0 .. (suf - 1) : s[n - i] = t[m - i]
      /\ \A i \in 1 .. (n - pre - suf) : u[i] = s[pre + i]
      /\ \A i \in 1 .. (m - pre - suf) : v[i] = t[pre + i]
  <2>1. \A i \in 1 .. pre : s[i] = t[i]
    BY MiddleParts
  <2>2. \A i \in 0 .. (suf - 1) : s[n - i] = t[m - i]
    BY MiddleParts
  <2>3. \A i \in 1 .. (n - pre - suf) : u[i] = s[pre + i]
    BY MiddleParts
  <2>4. \A i \in 1 .. (m - pre - suf) : v[i] = t[pre + i]
    BY MiddleParts
  <2> QED
    BY <2>1, <2>2, <2>3, <2>4
<1>3. /\ \A p \in AtFront(s, t) : p = <<p[1], p[2]>> /\ p[1] \in 1 .. pre /\ p[2] = p[1]
      /\ \A p \in AtRear(s, t) :
           /\ p = <<p[1], p[2]>> /\ p[1] \in (n - suf + 1) .. n
           /\ p[2] \in (m - suf + 1) .. m /\ n - p[1] = m - p[2]
      /\ \A p \in AtCentre(s, t) :
           /\ p = <<p[1], p[2]>> /\ p[1] \in (pre + 1) .. (n - suf)
           /\ p[2] \in (pre + 1) .. (m - suf) /\ <<p[1] - pre, p[2] - pre>> \in mid
  BY PairsShape
<1> HIDE DEF n, m, pre, suf, u, v
<1>4. n - pre - suf \in Nat /\ m - pre - suf \in Nat
  BY <1>1
<1>5. Chain(mid, u, v, n - pre - suf, m - pre - suf)
  BY <1>1, <1>4, LcsLongest DEF u, v
<1> HIDE DEF mid
<1>6. ASSUME NEW p \in PairsOf(s, t)
      PROVE  p \in (1 .. n) \X (1 .. m) /\ s[p[1]] = t[p[2]]
  <2>1. CASE p \in AtFront(s, t)
    <3>1. p = <<p[1], p[2]>> /\ p[1] \in 1 .. pre /\ p[2] = p[1]
      BY <1>3, <2>1
    <3>2. p[1] \in 1 .. n /\ p[1] \in 1 .. m
      BY <1>1, <3>1
    <3>3. s[p[1]] = t[p[1]]
      BY <1>2, <3>1
    <3>4. <<p[1], p[2]>> \in (1 .. n) \X (1 .. m)
      BY <3>1, <3>2
    <3>5. p[2] = p[1]
      BY <3>1
    <3>6. p \in (1 .. n) \X (1 .. m)
      BY <3>1, <3>4, Zenon
    <3> QED
      BY <3>3, <3>5, <3>6, Zenon
  <2>2. CASE p \in AtRear(s, t)
    <3>1. PICK i \in 0 .. (suf - 1) : p = <<n - i, m - i>>
      BY <2>2 DEF AtRear, n, m, suf
    <3>2. n - i \in 1 .. n /\ m - i \in 1 .. m
      BY <1>1
    <3>3. s[n - i] = t[m - i]
      BY <1>2
    <3>4. p[1] = n - i /\ p[2] = m - i
      BY <3>1
    <3>5. <<n - i, m - i>> \in (1 .. n) \X (1 .. m)
      BY <3>2
    <3> QED
      BY <3>1, <3>3, <3>4, <3>5, Zenon
  <2>3. CASE p \in AtCentre(s, t)
    <3> DEFINE x == p[1]
               y == p[2]
               a == x - pre
               b == y - pre
    <3>1. /\ p = <<x, y>> /\ x \in (pre + 1) .. (n - suf)
          /\ y \in (pre + 1) .. (m - suf) /\ <<a, b>> \in mid
      BY <1>3, <2>3
    <3> HIDE DEF x, y
    <3>2. /\ x \in 1 .. n /\ y \in 1 .. m
          /\ a \in 1 .. (n - pre - suf) /\ b \in 1 .. (m - pre - suf)
          /\ pre + a = x /\ pre + b = y
      <4>1. x \in Int /\ y \in Int
        BY <1>1, <3>1
      <4> QED
        BY <1>1, <3>1, <4>1
    <3> HIDE DEF a, b
    <3>3. u[a] = v[b]
      BY <1>5, <3>1 DEF Chain
    <3>4. s[x] = t[y]
      <4>1. u[a] = s[pre + a] /\ v[b] = t[pre + b]
        BY <1>2, <3>2
      <4> QED
        BY <3>2, <3>3, <4>1, Zenon
    <3>5. <<x, y>> \in (1 .. n) \X (1 .. m)
      BY <3>2
    <3> QED
      BY <3>1, <3>4, <3>5, Zenon DEF x, y
  <2> QED
    BY <2>1, <2>2, <2>3 DEF PairsOf
<1>7. ASSUME NEW p \in PairsOf(s, t), NEW q \in PairsOf(s, t)
      PROVE  p[1] < q[1] <=> p[2] < q[2]
  <2> DEFINE a == p[1]
             b == p[2]
             c == q[1]
             d == q[2]
             Whole(x, y)   == x \in Int /\ y \in Int
             InFront(x, y) == Whole(x, y) /\ 1 <= x /\ x <= pre /\ y = x
             InRear(x, y)  == Whole(x, y) /\ n - suf < x /\ m - suf < y /\ n - x = m - y
             Between(x, y) == Whole(x, y) /\ pre < x /\ x <= n - suf /\ pre < y /\ y <= m - suf
  <2>1. /\ p \in AtFront(s, t) => InFront(a, b)
        /\ p \in AtRear(s, t) => InRear(a, b)
        /\ p \in AtCentre(s, t) => Between(a, b) /\ <<a - pre, b - pre>> \in mid
    <3>1. p \in AtFront(s, t) => InFront(a, b)
      <4>1. ASSUME p \in AtFront(s, t) PROVE a \in 1 .. pre /\ b = a
        BY <1>3, <4>1
      <4> HIDE DEF a, b
      <4> QED
        BY <1>1, <4>1
    <3>2. p \in AtRear(s, t) => InRear(a, b)
      <4>1. ASSUME p \in AtRear(s, t)
            PROVE  a \in (n - suf + 1) .. n /\ b \in (m - suf + 1) .. m /\ n - a = m - b
        BY <1>3, <4>1
      <4> HIDE DEF a, b
      <4> QED
        BY <1>1, <4>1
    <3>3. p \in AtCentre(s, t) => Between(a, b) /\ <<a - pre, b - pre>> \in mid
      <4>1. ASSUME p \in AtCentre(s, t)
            PROVE  /\ a \in (pre + 1) .. (n - suf) /\ b \in (pre + 1) .. (m - suf)
                   /\ <<a - pre, b - pre>> \in mid
        BY <1>3, <4>1
      <4> HIDE DEF a, b
      <4> QED
        BY <1>1, <4>1
    <3> QED
      BY <3>1, <3>2, <3>3
  <2>2. /\ q \in AtFront(s, t) => InFront(c, d)
        /\ q \in AtRear(s, t) => InRear(c, d)
        /\ q \in AtCentre(s, t) => Between(c, d) /\ <<c - pre, d - pre>> \in mid
    <3>1. q \in AtFront(s, t) => InFront(c, d)
      <4>1. ASSUME q \in AtFront(s, t) PROVE c \in 1 .. pre /\ d = c
        BY <1>3, <4>1
      <4> HIDE DEF c, d
      <4> QED
        BY <1>1, <4>1
    <3>2. q \in AtRear(s, t) => InRear(c, d)
      <4>1. ASSUME q \in AtRear(s, t)
            PROVE  c \in (n - suf + 1) .. n /\ d \in (m - suf + 1) .. m /\ n - c = m - d
        BY <1>3, <4>1
      <4> HIDE DEF c, d
      <4> QED
        BY <1>1, <4>1
    <3>3. q \in AtCentre(s, t) => Between(c, d) /\ <<c - pre, d - pre>> \in mid
      <4>1. ASSUME q \in AtCentre(s, t)
            PROVE  /\ c \in (pre + 1) .. (n - suf) /\ d \in (pre + 1) .. (m - suf)
                   /\ <<c - pre, d - pre>> \in mid
        BY <1>3, <4>1
      <4> HIDE DEF c, d
      <4> QED
        BY <1>1, <4>1
    <3> QED
      BY <3>1, <3>2, <3>3
  <2>3. CASE p \in AtCentre(s, t) /\ q \in AtCentre(s, t)
    <3>1. \A x, y \in mid : x[1] < y[1] <=> x[2] < y[2]
      BY <1>5 DEF Chain
    <3>2. <<a - pre, b - pre>>[1] < <<c - pre, d - pre>>[1]
            <=> <<a - pre, b - pre>>[2] < <<c - pre, d - pre>>[2]
      BY <2>1, <2>2, <2>3, <3>1, Zenon
    <3>3. Between(a, b) /\ Between(c, d)
      BY <2>1, <2>2, <2>3
    <3> HIDE DEF a, b, c, d
    <3>4. a - pre < c - pre <=> b - pre < d - pre
      BY <3>2
    <3>5. a < c <=> b < d
      BY <1>1, <3>3, <3>4
    <3> QED
      BY <3>5 DEF a, b, c, d
  <2>4. CASE ~(p \in AtCentre(s, t) /\ q \in AtCentre(s, t))
    <3> HIDE DEF a, b, c, d
    <3>1. /\ InFront(a, b) \/ InRear(a, b) \/ Between(a, b)
          /\ InFront(c, d) \/ InRear(c, d) \/ Between(c, d)
          /\ ~(Between(a, b) /\ Between(c, d))
      <4>1. InFront(a, b) \/ InRear(a, b) => ~Between(a, b)
        BY <1>1
      <4>2. InFront(c, d) \/ InRear(c, d) => ~Between(c, d)
        BY <1>1
      <4> HIDE DEF InFront, InRear, Between
      <4> QED
        BY <2>1, <2>2, <2>4, <4>1, <4>2 DEF PairsOf
    <3>2. a < c <=> b < d
      <4>1. CASE InFront(a, b) /\ InFront(c, d)
        BY <4>1
      <4>2. CASE InFront(a, b) /\ InRear(c, d)
        BY <1>1, <4>2
      <4>3. CASE InFront(a, b) /\ Between(c, d)
        BY <1>1, <4>3
      <4>4. CASE InRear(a, b) /\ InFront(c, d)
        BY <1>1, <4>4
      <4>5. CASE InRear(a, b) /\ InRear(c, d)
        BY <1>1, <4>5
      <4>6. CASE InRear(a, b) /\ Between(c, d)
        BY <1>1, <4>6
      <4>7. CASE Between(a, b) /\ InFront(c, d)
        BY <1>1, <4>7
      <4>8. CASE Between(a, b) /\ InRear(c, d)
        BY <1>1, <4>8
      <4> HIDE DEF InFront, InRear, Between
      <4> QED
        BY <3>1, <4>1, <4>2, <4>3, <4>4, <4>5, <4>6, <4>7, <4>8
    <3> QED
      BY <3>2 DEF a, b, c, d
  <2> QED
    BY <2>3, <2>4
<1> QED
  BY <1>6, <1>7 DEF Chain, n, m

(* U consists of three disjoint finite sets. *)
Parts(U, A, B, C) ==
  /\ U = A \cup B \cup C
  /\ IsFiniteSet(A) /\ IsFiniteSet(B) /\ IsFiniteSet(C)
  /\ \A x : ~(x \in A /\ x \in B) /\ ~(x \in A /\ x \in C) /\ ~(x \in B /\ x \in C)

(* It has as many elements as they have. *)
LEMMA ThreeParts ==
  ASSUME NEW A, NEW B, NEW C, NEW U, Parts(U, A, B, C)
  PROVE  /\ Cardinality(A) \in Nat /\ Cardinality(B) \in Nat /\ Cardinality(C) \in Nat
         /\ Cardinality(U) = Cardinality(A) + Cardinality(B) + Cardinality(C)
<1> USE DEF Parts
<1>1. Cardinality(A) \in Nat /\ Cardinality(B) \in Nat /\ Cardinality(C) \in Nat
  BY FS_CardinalityType
<1>2. IsFiniteSet(A \cup B) /\ Cardinality(A \cup B) = Cardinality(A) + Cardinality(B)
  <2>1. /\ IsFiniteSet(A \cup B)
        /\ Cardinality(A \cup B) = Cardinality(A) + Cardinality(B) - Cardinality(A \cap B)
    BY FS_Union
  <2>2. A \cap B = {}
    OBVIOUS
  <2>3. Cardinality(A \cap B) = 0
    BY <2>2, FS_EmptySet
  <2> QED
    BY <1>1, <2>1, <2>3
<1>3. /\ IsFiniteSet(A \cup B \cup C)
      /\ Cardinality(A \cup B \cup C)
           = Cardinality(A \cup B) + Cardinality(C) - Cardinality((A \cup B) \cap C)
  BY <1>2, FS_Union
<1>4. (A \cup B) \cap C = {}
  OBVIOUS
<1>5. Cardinality((A \cup B) \cap C) = 0
  BY <1>4, FS_EmptySet
<1> QED
  BY <1>1, <1>2, <1>3, <1>5

(* The lesser of two numbers. *)
Lesser(x, y) == IF x <= y THEN x ELSE y

(* No two pairs of a chain have the same lesser element, measured from the
   beginning or from the end. *)
LEMMA ChainEnds ==
  ASSUME NEW s, NEW t, NEW a \in Nat, NEW b \in Nat, NEW M, Chain(M, s, t, a, b),
         NEW p \in M, NEW q \in M
  PROVE  /\ Lesser(p[1], p[2]) = Lesser(q[1], q[2]) => p = q
         /\ Lesser(a - p[1], b - p[2]) = Lesser(a - q[1], b - q[2]) => p = q
<1> DEFINE e == p[1]
           f == p[2]
           g == q[1]
           h == q[2]
<1>1. /\ e \in 1 .. a /\ f \in 1 .. b /\ g \in 1 .. a /\ h \in 1 .. b
      /\ e = g \/ f = h => p = q
  BY ChainParts
<1>2. (e < g <=> f < h) /\ (g < e <=> h < f)
  BY DEF Chain
<1> HIDE DEF e, f, g, h
<1>3. e \in Int /\ f \in Int /\ g \in Int /\ h \in Int
  BY <1>1
<1>4. ASSUME Lesser(e, f) = Lesser(g, h) PROVE e = g \/ f = h
  BY <1>2, <1>3, <1>4 DEF Lesser
<1>5. ASSUME Lesser(a - e, b - f) = Lesser(a - g, b - h) PROVE e = g \/ f = h
  BY <1>2, <1>3, <1>5 DEF Lesser
<1> QED
  BY <1>1, <1>4, <1>5 DEF e, f, g, h

(* The kinds of pairs are finite sets, and no pair is of two kinds. *)
LEMMA PairsKinds ==
  ASSUME NEW E, NEW s \in Seq(E), NEW t \in Seq(E)
  PROVE  /\ IsFiniteSet(AtFront(s, t)) /\ IsFiniteSet(AtRear(s, t)) /\ IsFiniteSet(AtCentre(s, t))
         /\ IsFiniteSet(PairsOf(s, t)) /\ Cardinality(PairsOf(s, t)) \in Nat
         /\ Cardinality(AtFront(s, t)) \in Nat /\ Cardinality(AtRear(s, t)) \in Nat
         /\ Cardinality(AtCentre(s, t)) \in Nat
         /\ Cardinality(PairsOf(s, t))
              = Cardinality(AtFront(s, t)) + Cardinality(AtRear(s, t)) + Cardinality(AtCentre(s, t))
<1> DEFINE pre == PrefixOf(s, t)
           suf == SuffixOf(s, t)
           n   == Len(s)
           m   == Len(t)
<1>1. /\ pre \in Nat /\ suf \in Nat /\ n \in Nat /\ m \in Nat
      /\ pre + suf <= n /\ pre + suf <= m
  BY MiddleParts
<1>2. /\ \A p \in AtFront(s, t) : p[1] \in 1 .. pre
      /\ \A p \in AtRear(s, t) : p[1] \in (n - suf + 1) .. n
      /\ \A p \in AtCentre(s, t) : p[1] \in (pre + 1) .. (n - suf)
  <2>1. \A p \in AtFront(s, t) : p[1] \in 1 .. pre
    BY PairsShape
  <2>2. \A p \in AtRear(s, t) : p[1] \in (n - suf + 1) .. n
    BY PairsShape
  <2>3. \A p \in AtCentre(s, t) : p[1] \in (pre + 1) .. (n - suf)
    BY PairsShape
  <2> QED
    BY <2>1, <2>2, <2>3
<1>3. /\ IsFiniteSet(PairsOf(s, t)) /\ Cardinality(PairsOf(s, t)) \in Nat
  <2>1. Chain(PairsOf(s, t), s, t, n, m)
    BY PairsChain
  <2> HIDE DEF n, m
  <2> QED
    BY <1>1, <2>1, ChainParts
<1> HIDE DEF pre, suf, n, m
<1>4. IsFiniteSet(AtFront(s, t)) /\ IsFiniteSet(AtRear(s, t)) /\ IsFiniteSet(AtCentre(s, t))
  BY <1>3, FS_Subset DEF PairsOf
<1>5. /\ (1 .. pre) \cap ((n - suf + 1) .. n) = {}
      /\ (1 .. pre) \cap ((pre + 1) .. (n - suf)) = {}
      /\ ((n - suf + 1) .. n) \cap ((pre + 1) .. (n - suf)) = {}
  BY <1>1
<1>6. \A p : /\ ~(p \in AtFront(s, t) /\ p \in AtRear(s, t))
            /\ ~(p \in AtFront(s, t) /\ p \in AtCentre(s, t))
            /\ ~(p \in AtRear(s, t) /\ p \in AtCentre(s, t))
  <2>1. ASSUME NEW p, p \in AtFront(s, t), p \in AtRear(s, t) PROVE FALSE
    <3>1. p[1] \in (1 .. pre) \cap ((n - suf + 1) .. n)
      BY <1>2, <2>1
    <3> QED
      BY <1>5, <3>1
  <2>2. ASSUME NEW p, p \in AtFront(s, t), p \in AtCentre(s, t) PROVE FALSE
    <3>1. p[1] \in (1 .. pre) \cap ((pre + 1) .. (n - suf))
      BY <1>2, <2>2
    <3> QED
      BY <1>5, <3>1
  <2>3. ASSUME NEW p, p \in AtRear(s, t), p \in AtCentre(s, t) PROVE FALSE
    <3>1. p[1] \in ((n - suf + 1) .. n) \cap ((pre + 1) .. (n - suf))
      BY <1>2, <2>3
    <3> QED
      BY <1>5, <3>1
  <2> QED
    BY <2>1, <2>2, <2>3
<1> DEFINE A == AtFront(s, t)
           B == AtRear(s, t)
           C == AtCentre(s, t)
<1> HIDE DEF A, B, C
<1>7. /\ IsFiniteSet(A) /\ IsFiniteSet(B) /\ IsFiniteSet(C)
      /\ \A x : ~(x \in A /\ x \in B) /\ ~(x \in A /\ x \in C) /\ ~(x \in B /\ x \in C)
  BY <1>4, <1>6, Zenon DEF A, B, C
<1>8. PairsOf(s, t) = A \cup B \cup C
  BY Zenon DEF PairsOf, A, B, C
<1>9. /\ Cardinality(A) \in Nat /\ Cardinality(B) \in Nat /\ Cardinality(C) \in Nat
      /\ Cardinality(PairsOf(s, t)) = Cardinality(A) + Cardinality(B) + Cardinality(C)
  <2>1. Parts(PairsOf(s, t), A, B, C)
    BY <1>7, <1>8, Zenon DEF Parts
  <2> QED
    BY <2>1, ThreeParts
<1> QED
  BY <1>3, <1>4, <1>9, Zenon DEF A, B, C

(* As many pairs at the beginning as the common prefix has elements at most. *)
LEMMA PartsAtEnds ==
  ASSUME NEW E, NEW s \in Seq(E), NEW t \in Seq(E), NEW M, Chain(M, s, t, Len(s), Len(t))
  PROVE  LET pre == PrefixOf(s, t)
             suf == SuffixOf(s, t)
             n   == Len(s)
             m   == Len(t)
         IN  /\ Cardinality({p \in M : Lesser(p[1], p[2]) <= pre}) <= Cardinality(AtFront(s, t))
             /\ Cardinality({p \in M : Lesser(n - p[1], m - p[2]) < suf}) <= Cardinality(AtRear(s, t))
<1> DEFINE pre == PrefixOf(s, t)
           suf == SuffixOf(s, t)
           n   == Len(s)
           m   == Len(t)
           F   == {p \in M : Lesser(p[1], p[2]) <= pre}
           R   == {p \in M : Lesser(n - p[1], m - p[2]) < suf}
           f   == [p \in F |-> <<Lesser(p[1], p[2]), Lesser(p[1], p[2])>>]
           g   == [p \in R |-> <<n - Lesser(n - p[1], m - p[2]), m - Lesser(n - p[1], m - p[2])>>]
<1>1. pre \in Nat /\ suf \in Nat /\ n \in Nat /\ m \in Nat
  BY MiddleParts
<1>2. IsFiniteSet(AtFront(s, t)) /\ IsFiniteSet(AtRear(s, t))
  BY PairsKinds
<1>3. /\ AtFront(s, t) = {<<i, i>> : i \in 1 .. pre}
      /\ AtRear(s, t) = {<<n - i, m - i>> : i \in 0 .. (suf - 1)}
  BY DEF AtFront, AtRear
<1>4. Chain(M, s, t, n, m)
  OBVIOUS
<1> HIDE DEF pre, suf, n, m
<1>5. ASSUME NEW p \in M
      PROVE  /\ Lesser(p[1], p[2]) \in Nat /\ Lesser(p[1], p[2]) >= 1
             /\ Lesser(n - p[1], m - p[2]) \in Nat
  <2> DEFINE e == p[1]
             h == p[2]
  <2>1. e \in 1 .. n /\ h \in 1 .. m
    BY <1>1, <1>4, ChainParts
  <2> HIDE DEF e, h
  <2>2. /\ Lesser(e, h) \in Nat /\ Lesser(e, h) >= 1 /\ Lesser(n - e, m - h) \in Nat
    BY <1>1, <2>1 DEF Lesser
  <2> QED
    BY <2>2 DEF e, h
<1>6. f \in [F -> AtFront(s, t)]
  <2> SUFFICES ASSUME NEW p \in F
               PROVE  <<Lesser(p[1], p[2]), Lesser(p[1], p[2])>> \in AtFront(s, t)
    BY Zenon
  <2> DEFINE k == Lesser(p[1], p[2])
  <2>1. k \in Nat /\ k >= 1 /\ k <= pre
    BY <1>5
  <2> HIDE DEF k
  <2>2. k \in 1 .. pre
    BY <1>1, <2>1
  <2>3. <<k, k>> \in AtFront(s, t)
    BY <1>3, <2>2
  <2> QED
    BY <2>3 DEF k
<1>7. \A p, q \in F : f[p] = f[q] => p = q
  <2> SUFFICES ASSUME NEW p \in F, NEW q \in F, f[p] = f[q] PROVE p = q
    BY Zenon
  <2>1. f[p][1] = Lesser(p[1], p[2]) /\ f[q][1] = Lesser(q[1], q[2])
    OBVIOUS
  <2>2. Lesser(p[1], p[2]) = Lesser(q[1], q[2])
    BY <2>1
  <2>3. p \in M /\ q \in M
    OBVIOUS
  <2> HIDE DEF f, F
  <2> QED
    BY <1>1, <1>4, <2>2, <2>3, ChainEnds
<1>8. g \in [R -> AtRear(s, t)]
  <2> SUFFICES ASSUME NEW p \in R
               PROVE  <<n - Lesser(n - p[1], m - p[2]), m - Lesser(n - p[1], m - p[2])>>
                        \in AtRear(s, t)
    BY Zenon
  <2> DEFINE k == Lesser(n - p[1], m - p[2])
  <2>1. k \in Nat /\ k < suf
    BY <1>5
  <2> HIDE DEF k
  <2>2. k \in 0 .. (suf - 1)
    BY <1>1, <2>1
  <2>3. <<n - k, m - k>> \in AtRear(s, t)
    BY <1>3, <2>2
  <2> QED
    BY <2>3 DEF k
<1>9. \A p, q \in R : g[p] = g[q] => p = q
  <2> SUFFICES ASSUME NEW p \in R, NEW q \in R, g[p] = g[q] PROVE p = q
    BY Zenon
  <2> DEFINE k == Lesser(n - p[1], m - p[2])
             l == Lesser(n - q[1], m - q[2])
  <2>1. g[p][1] = n - k /\ g[q][1] = n - l
    OBVIOUS
  <2>2. n - k = n - l
    BY <2>1
  <2>3. p \in M /\ q \in M /\ k \in Nat /\ l \in Nat
    BY <1>5
  <2> HIDE DEF g, R, k, l
  <2>4. k = l
    BY <1>1, <2>2, <2>3
  <2>5. Lesser(n - p[1], m - p[2]) = Lesser(n - q[1], m - q[2])
    BY <2>4 DEF k, l
  <2> QED
    BY <1>1, <1>4, <2>3, <2>5, ChainEnds
<1>10. Cardinality(F) <= Cardinality(AtFront(s, t))
  <2> HIDE DEF f, F
  <2> QED
    BY <1>2, <1>6, <1>7, MappedInto
<1>11. Cardinality(R) <= Cardinality(AtRear(s, t))
  <2> HIDE DEF g, R
  <2> QED
    BY <1>2, <1>8, <1>9, MappedInto
<1> QED
  BY <1>10, <1>11 DEF F, R, n, m, pre, suf

(* And as many in the middle as lcsAlign finds. *)
LEMMA PartsBetween ==
  ASSUME NEW E, NEW s \in Seq(E), NEW t \in Seq(E), Small(s, t),
         NEW M, Chain(M, s, t, Len(s), Len(t)),
         \A p \in M : /\ PrefixOf(s, t) < p[1] /\ p[1] <= Len(s) - SuffixOf(s, t)
                      /\ PrefixOf(s, t) < p[2] /\ p[2] <= Len(t) - SuffixOf(s, t)
  PROVE  Cardinality(M) <= Cardinality(AtCentre(s, t))
<1> DEFINE pre == PrefixOf(s, t)
           suf == SuffixOf(s, t)
           n   == Len(s)
           m   == Len(t)
           u   == MiddleS(s, t)
           v   == MiddleT(s, t)
           mid == LcsPairs(u, v)
           N   == {<<p[1] - pre, p[2] - pre>> : p \in M}
           f   == [p \in M |-> <<p[1] - pre, p[2] - pre>>]
           g   == [q \in mid |-> <<pre + q[1], pre + q[2]>>]
<1>1. /\ pre \in Nat /\ suf \in Nat /\ n \in Nat /\ m \in Nat
      /\ pre + suf <= n /\ pre + suf <= m
      /\ Len(u) = n - pre - suf /\ Len(v) = m - pre - suf
  BY MiddleParts
<1>2. /\ \A i \in 1 .. (n - pre - suf) : u[i] = s[pre + i]
      /\ \A i \in 1 .. (m - pre - suf) : v[i] = t[pre + i]
  <2>1. \A i \in 1 .. (n - pre - suf) : u[i] = s[pre + i]
    BY MiddleParts
  <2>2. \A i \in 1 .. (m - pre - suf) : v[i] = t[pre + i]
    BY MiddleParts
  <2> QED
    BY <2>1, <2>2
<1>3. /\ AtCentre(s, t) = {<<pre + q[1], pre + q[2]>> : q \in mid}
      /\ IsFiniteSet(AtCentre(s, t)) /\ Cardinality(AtCentre(s, t)) \in Nat
  BY PairsKinds DEF AtCentre
<1>4. Chain(M, s, t, n, m)
  OBVIOUS
<1>5. \A p \in M : pre < p[1] /\ p[1] <= n - suf /\ pre < p[2] /\ p[2] <= m - suf
  OBVIOUS
<1> HIDE DEF pre, suf, n, m, u, v
<1>6. n - pre - suf \in Nat /\ m - pre - suf \in Nat
  BY <1>1
<1>7. /\ Chain(mid, u, v, n - pre - suf, m - pre - suf)
      /\ \A K : Chain(K, u, v, n - pre - suf, m - pre - suf) => Cardinality(K) <= Cardinality(mid)
  <2>1. Len(u) \in Nat /\ Len(v) \in Nat
    BY <1>1, <1>6
  <2>2. /\ Chain(mid, u, v, Len(u), Len(v))
        /\ \A K : Chain(K, u, v, Len(u), Len(v)) => Cardinality(K) <= Cardinality(mid)
    BY <2>1, LcsLongest
  <2> HIDE DEF mid
  <2> QED
    BY <1>1, <2>2, Zenon
<1> HIDE DEF mid
<1>8. ASSUME NEW p \in M
      PROVE  /\ p[1] \in Int /\ p[2] \in Int /\ p = <<p[1], p[2]>>
             /\ p[1] - pre \in 1 .. (n - pre - suf) /\ p[2] - pre \in 1 .. (m - pre - suf)
             /\ pre + (p[1] - pre) = p[1] /\ pre + (p[2] - pre) = p[2]
  <2> DEFINE e == p[1]
             h == p[2]
  <2>1. e \in 1 .. n /\ h \in 1 .. m /\ p = <<e, h>>
    BY <1>1, <1>4, ChainParts
  <2>2. pre < e /\ e <= n - suf /\ pre < h /\ h <= m - suf
    BY <1>5
  <2> HIDE DEF e, h
  <2>3. /\ e \in Int /\ h \in Int
        /\ e - pre \in 1 .. (n - pre - suf) /\ h - pre \in 1 .. (m - pre - suf)
        /\ pre + (e - pre) = e /\ pre + (h - pre) = h
    BY <1>1, <2>1, <2>2
  <2> QED
    BY <2>1, <2>3, Zenon DEF e, h
<1>9. Chain(N, u, v, n - pre - suf, m - pre - suf)
  <2>1. ASSUME NEW x \in N
        PROVE  x \in (1 .. (n - pre - suf)) \X (1 .. (m - pre - suf)) /\ u[x[1]] = v[x[2]]
    <3>1. PICK p \in M : x = <<p[1] - pre, p[2] - pre>>
      OBVIOUS
    <3> DEFINE a == p[1] - pre
               b == p[2] - pre
    <3>2. /\ a \in 1 .. (n - pre - suf) /\ b \in 1 .. (m - pre - suf)
          /\ pre + a = p[1] /\ pre + b = p[2]
      BY <1>8
    <3>3. x = <<a, b>>
      BY <3>1
    <3>4. s[p[1]] = t[p[2]]
      BY <1>4 DEF Chain
    <3> HIDE DEF a, b, N
    <3>5. u[a] = s[pre + a] /\ v[b] = t[pre + b]
      BY <1>2, <3>2
    <3>6. u[a] = v[b]
      BY <3>2, <3>4, <3>5, Zenon
    <3>7. x[1] = a /\ x[2] = b
      BY <3>3
    <3>8. <<a, b>> \in (1 .. (n - pre - suf)) \X (1 .. (m - pre - suf))
      BY <3>2
    <3> QED
      BY <3>3, <3>6, <3>7, <3>8, Zenon
  <2>2. ASSUME NEW x \in N, NEW y \in N PROVE x[1] < y[1] <=> x[2] < y[2]
    <3>1. PICK p \in M : x = <<p[1] - pre, p[2] - pre>>
      OBVIOUS
    <3>2. PICK q \in M : y = <<q[1] - pre, q[2] - pre>>
      OBVIOUS
    <3>3. p[1] < q[1] <=> p[2] < q[2]
      BY <1>4 DEF Chain
    <3> DEFINE a == p[1]
               b == p[2]
               c == q[1]
               d == q[2]
    <3>4. a \in Int /\ b \in Int /\ c \in Int /\ d \in Int
      BY <1>8
    <3>5. x[1] = a - pre /\ x[2] = b - pre /\ y[1] = c - pre /\ y[2] = d - pre
      BY <3>1, <3>2
    <3>6. a < c <=> b < d
      BY <3>3
    <3> HIDE DEF a, b, c, d
    <3>7. a - pre < c - pre <=> b - pre < d - pre
      BY <1>1, <3>4, <3>6
    <3> QED
      BY <3>5, <3>7, Zenon
  <2> HIDE DEF N
  <2>3. N \subseteq (1 .. (n - pre - suf)) \X (1 .. (m - pre - suf))
    BY <2>1
  <2> QED
    BY <2>1, <2>2, <2>3, Zenon DEF Chain
<1>10. IsFiniteSet(N) /\ Cardinality(N) \in Nat /\ IsFiniteSet(mid) /\ Cardinality(mid) \in Nat
  <2> HIDE DEF N
  <2> DEFINE x == n - pre - suf
             y == m - pre - suf
  <2>0. x \in Nat /\ y \in Nat /\ Chain(N, u, v, x, y) /\ Chain(mid, u, v, x, y)
    BY <1>6, <1>7, <1>9
  <2> HIDE DEF x, y
  <2>1. IsFiniteSet(N) /\ Cardinality(N) \in Nat
    BY <2>0, ChainParts
  <2>2. IsFiniteSet(mid) /\ Cardinality(mid) \in Nat
    BY <2>0, ChainParts
  <2> QED
    BY <2>1, <2>2
<1>11. Cardinality(M) <= Cardinality(N) /\ IsFiniteSet(M)
  <2>1. f \in [M -> N]
    OBVIOUS
  <2>2. \A p, q \in M : f[p] = f[q] => p = q
    <3> SUFFICES ASSUME NEW p \in M, NEW q \in M, f[p] = f[q] PROVE p = q
      BY Zenon
    <3>1. f[p] = <<p[1] - pre, p[2] - pre>> /\ f[q] = <<q[1] - pre, q[2] - pre>>
      OBVIOUS
    <3>2. p[1] - pre = q[1] - pre /\ p[2] - pre = q[2] - pre
      BY <3>1
    <3>3. p[1] = q[1] /\ p[2] = q[2]
      <4>1. /\ p[1] \in Int /\ p[2] \in Int /\ q[1] \in Int /\ q[2] \in Int
        BY <1>8, Zenon
      <4>2. \A a, c \in Int : a - pre = c - pre => a = c
        BY <1>1
      <4> QED
        BY <3>2, <4>1, <4>2, Zenon
    <3> QED
      BY <1>8, <3>3, Zenon
  <2> HIDE DEF f, N
  <2> QED
    BY <1>10, <2>1, <2>2, MappedInto
<1>12. Cardinality(mid) <= Cardinality(AtCentre(s, t))
  <2>1. g \in [mid -> AtCentre(s, t)]
    BY <1>3
  <2>2. \A p, q \in mid : g[p] = g[q] => p = q
    <3> SUFFICES ASSUME NEW p \in mid, NEW q \in mid, g[p] = g[q] PROVE p = q
      BY Zenon
    <3> DEFINE a == p[1]
               b == p[2]
               c == q[1]
               d == q[2]
    <3>1. g[p] = <<pre + a, pre + b>> /\ g[q] = <<pre + c, pre + d>>
      OBVIOUS
    <3>2. pre + a = pre + c /\ pre + b = pre + d
      BY <3>1
    <3>3. /\ a \in 1 .. (n - pre - suf) /\ b \in 1 .. (m - pre - suf)
          /\ c \in 1 .. (n - pre - suf) /\ d \in 1 .. (m - pre - suf)
          /\ p = <<a, b>> /\ q = <<c, d>>
      BY <1>6, <1>7, ChainParts
    <3> HIDE DEF a, b, c, d
    <3>4. a = c /\ b = d
      BY <1>1, <1>6, <3>2, <3>3
    <3> QED
      BY <3>3, <3>4, Zenon
  <2> HIDE DEF g
  <2> QED
    BY <1>3, <2>1, <2>2, MappedInto
<1>13. Cardinality(N) <= Cardinality(mid)
  BY <1>7, <1>9, Zenon
<1>14. Cardinality(M) \in Nat
  BY <1>11, FS_CardinalityType
<1> DEFINE cM == Cardinality(M)
           cN == Cardinality(N)
           cm == Cardinality(mid)
           cC == Cardinality(AtCentre(s, t))
<1>15. /\ cM \in Nat /\ cN \in Nat /\ cm \in Nat /\ cC \in Nat
       /\ cM <= cN /\ cN <= cm /\ cm <= cC
  BY <1>3, <1>10, <1>11, <1>12, <1>13, <1>14, Zenon
<1> HIDE DEF cM, cN, cm, cC
<1>16. cM <= cC
  BY <1>15
<1> QED
  BY <1>16 DEF cM, cC

(* No chain is longer than the pairs that are aligned, when the table of the
   middle can be built. *)
LEMMA PairsBest ==
  ASSUME NEW E, NEW s \in Seq(E), NEW t \in Seq(E), Small(s, t),
         NEW M, Chain(M, s, t, Len(s), Len(t))
  PROVE  Cardinality(M) <= Cardinality(PairsOf(s, t))
<1> DEFINE pre == PrefixOf(s, t)
           suf == SuffixOf(s, t)
           n   == Len(s)
           m   == Len(t)
           F   == {p \in M : Lesser(p[1], p[2]) <= pre}
           R   == {p \in M : Lesser(n - p[1], m - p[2]) < suf}
           Q   == R \ F
           C   == M \ (F \cup R)
<1>1. pre \in Nat /\ suf \in Nat /\ n \in Nat /\ m \in Nat /\ Chain(M, s, t, n, m)
  BY MiddleParts
<1>2. IsFiniteSet(M)
  <2> HIDE DEF n, m
  <2> QED
    BY <1>1, ChainParts
<1>3. Parts(M, F, Q, C)
  <2>1. IsFiniteSet(F) /\ IsFiniteSet(Q) /\ IsFiniteSet(C)
    BY <1>2, FS_Subset
  <2>2. M = F \cup Q \cup C
    OBVIOUS
  <2>3. \A x : ~(x \in F /\ x \in Q) /\ ~(x \in F /\ x \in C) /\ ~(x \in Q /\ x \in C)
    OBVIOUS
  <2> HIDE DEF F, Q, C
  <2> QED
    BY <2>1, <2>2, <2>3 DEF Parts
<1>4. /\ Cardinality(F) \in Nat /\ Cardinality(Q) \in Nat /\ Cardinality(C) \in Nat
      /\ Cardinality(M) = Cardinality(F) + Cardinality(Q) + Cardinality(C)
  <2> HIDE DEF F, Q, C
  <2> QED
    BY <1>3, ThreeParts
<1>5. /\ Cardinality(F) <= Cardinality(AtFront(s, t))
      /\ Cardinality(R) <= Cardinality(AtRear(s, t))
  BY PartsAtEnds
<1>6. Cardinality(Q) <= Cardinality(R) /\ Cardinality(R) \in Nat
  <2>1. R \subseteq M /\ Q \subseteq R
    OBVIOUS
  <2> HIDE DEF R, Q
  <2>2. IsFiniteSet(R)
    BY <1>2, <2>1, FS_Subset
  <2> QED
    BY <2>1, <2>2, FS_Subset, FS_CardinalityType
<1>7. Cardinality(C) <= Cardinality(AtCentre(s, t))
  <2>1. ASSUME NEW p \in C
        PROVE  pre < p[1] /\ p[1] <= n - suf /\ pre < p[2] /\ p[2] <= m - suf
    <3> DEFINE e == p[1]
               h == p[2]
    <3>1. e \in 1 .. n /\ h \in 1 .. m
      <4>1. p \in M
        OBVIOUS
      <4> HIDE DEF n, m
      <4> QED
        BY <1>1, <4>1, ChainParts
    <3>2. ~(Lesser(e, h) <= pre) /\ ~(Lesser(n - e, m - h) < suf)
      OBVIOUS
    <3> HIDE DEF e, h, pre, suf, n, m
    <3>3. pre < e /\ e <= n - suf /\ pre < h /\ h <= m - suf
      BY <1>1, <3>1, <3>2 DEF Lesser
    <3> QED
      BY <3>3 DEF e, h
  <2>2. Chain(C, s, t, n, m)
    <3>1. C \subseteq M
      OBVIOUS
    <3> HIDE DEF C, n, m
    <3> QED
      BY <1>1, <3>1 DEF Chain
  <2> HIDE DEF C
  <2> QED
    BY <2>1, <2>2, PartsBetween
<1>8. /\ Cardinality(AtFront(s, t)) \in Nat /\ Cardinality(AtRear(s, t)) \in Nat
      /\ Cardinality(AtCentre(s, t)) \in Nat
      /\ Cardinality(PairsOf(s, t)) = Cardinality(AtFront(s, t)) + Cardinality(AtRear(s, t))
                                        + Cardinality(AtCentre(s, t))
  BY PairsKinds
<1> HIDE DEF F, R, Q, C
<1> QED
  BY <1>4, <1>5, <1>6, <1>7, <1>8

(* The product grows with its factors. *)
LEMMA ProductGrows ==
  ASSUME NEW a \in Nat, NEW b \in Nat, NEW c \in Nat, NEW d \in Nat, a <= c, b <= d
  PROVE  a * b <= c * d
<1>1. a * b <= c * b
  <2>1. c * b = a * b + (c - a) * b
    BY SMT
  <2>2. (c - a) * b \in Nat /\ a * b \in Nat
    BY SMT
  <2> QED
    BY <2>1, <2>2
<1>2. c * b <= c * d
  <2>1. c * d = c * b + c * (d - b)
    BY SMT
  <2>2. c * (d - b) \in Nat /\ c * b \in Nat
    BY SMT
  <2> QED
    BY <2>1, <2>2
<1>3. a * b \in Nat /\ c * b \in Nat /\ c * d \in Nat
  BY SMT
<1> QED
  BY <1>1, <1>2, <1>3

(* The table of the whole can be built. *)
Fits(s, t) == (Len(s) + 1) * (Len(t) + 1) <= MaxCells

(* Then so can that of the middle. *)
LEMMA SmallWhole ==
  ASSUME NEW E, NEW s \in Seq(E), NEW t \in Seq(E), Fits(s, t)
  PROVE  Small(s, t)
<1> DEFINE pre == PrefixOf(s, t)
           suf == SuffixOf(s, t)
           n   == Len(s)
           m   == Len(t)
           a   == n - pre - suf + 1
           b   == m - pre - suf + 1
           c   == n + 1
           d   == m + 1
<1>1. /\ pre \in Nat /\ suf \in Nat /\ n \in Nat /\ m \in Nat
      /\ pre + suf <= n /\ pre + suf <= m
  BY MiddleParts
<1>2. c * d <= MaxCells /\ MaxCells \in Nat
  BY AssemblerAssumption DEF Fits
<1>3. Small(s, t) <=> a * b <= MaxCells
  BY DEF Small
<1>4. a \in Nat /\ b \in Nat /\ c \in Nat /\ d \in Nat /\ a <= c /\ b <= d
  <2> HIDE DEF pre, suf, n, m
  <2> QED
    BY <1>1
<1> HIDE DEF a, b, c, d
<1>5. a * b <= c * d /\ a * b \in Int /\ c * d \in Int
  BY <1>4, ProductGrows
<1> QED
  BY <1>2, <1>3, <1>5

(* The alignment holds the pairs, each at its edited line. *)
LEMMA AlignmentParts ==
  ASSUME NEW E, NEW s \in Seq(E), NEW t \in Seq(E)
  PROVE  LET A == AlignInstructions(s, t)
         IN  /\ A \in [1 .. Len(t) -> 0 .. Len(s)]
             /\ \A j \in 1 .. Len(t) : A[j] # 0 => A[j] \in 1 .. Len(s) /\ <<A[j], j>> \in PairsOf(s, t)
             /\ \A i, j : <<i, j>> \in PairsOf(s, t) => j \in 1 .. Len(t) /\ A[j] = i /\ A[j] # 0
<1> DEFINE A == AlignInstructions(s, t)
           n == Len(s)
           m == Len(t)
           P == PairsOf(s, t)
<1>1. n \in Nat /\ m \in Nat /\ Chain(P, s, t, n, m)
  BY PairsChain
<1>2. A = [j \in 1 .. m |-> IF \E i \in 1 .. n : <<i, j>> \in P
                            THEN CHOOSE i \in 1 .. n : <<i, j>> \in P
                            ELSE 0]
  BY AlignInstructionsIs
<1> HIDE DEF A, n, m, P
<1>3. ASSUME NEW j \in 1 .. m
      PROVE  /\ A[j] \in 0 .. n
             /\ A[j] # 0 => A[j] \in 1 .. n /\ <<A[j], j>> \in P
             /\ \A i \in 1 .. n : <<i, j>> \in P => A[j] # 0
  <2>1. CASE \E i \in 1 .. n : <<i, j>> \in P
    <3>1. A[j] = CHOOSE i \in 1 .. n : <<i, j>> \in P
      BY <1>2, <2>1
    <3>2. A[j] \in 1 .. n /\ <<A[j], j>> \in P
      BY <2>1, <3>1, Zenon
    <3>3. 0 \notin 1 .. n /\ 1 .. n \subseteq 0 .. n
      OBVIOUS
    <3> HIDE DEF P
    <3> QED
      BY <3>2, <3>3, Zenon
  <2>2. CASE ~ \E i \in 1 .. n : <<i, j>> \in P
    <3>1. A[j] = 0
      BY <1>2, <2>2
    <3>2. 0 \in 0 .. n
      BY <1>1
    <3> QED
      BY <2>2, <3>1, <3>2, Zenon
  <2> QED
    BY <2>1, <2>2
<1>4. A \in [1 .. m -> 0 .. n]
  <2>1. \A j \in 1 .. m : A[j] \in 0 .. n
    BY <1>3
  <2>2. DOMAIN A = 1 .. m /\ A = [j \in 1 .. m |-> A[j]]
    BY <1>2, Zenon
  <2> QED
    BY <2>1, <2>2, Zenon
<1>5. ASSUME NEW i, NEW j, <<i, j>> \in P
      PROVE  j \in 1 .. m /\ A[j] = i /\ A[j] # 0
  <2>1. i \in 1 .. n /\ j \in 1 .. m
    BY <1>1, <1>5, ChainParts
  <2>2. A[j] # 0
    BY <1>3, <1>5, <2>1
  <2>3. <<A[j], j>> \in P
    BY <1>3, <2>1, <2>2
  <2>4. \A p, q \in P : p[1] = q[1] \/ p[2] = q[2] => p = q
    BY <1>1, ChainParts
  <2>5. <<A[j], j>>[2] = <<i, j>>[2]
    OBVIOUS
  <2>6. <<A[j], j>> = <<i, j>>
    BY <1>5, <2>3, <2>4, <2>5, Zenon
  <2>7. A[j] = i
    BY <2>6
  <2> QED
    BY <2>1, <2>2, <2>7
<1> QED
  BY <1>3, <1>4, <1>5 DEF A, n, m, P

(* What the alignment matches is equal and in order. *)
LEMMA AlignmentMatches ==
  ASSUME NEW E, NEW s \in Seq(E), NEW t \in Seq(E)
  PROVE  LET A == AlignInstructions(s, t)
         IN  /\ \A j \in DOMAIN A : A[j] # 0 => s[A[j]] = t[j]
             /\ \A i, j \in DOMAIN A : A[i] # 0 /\ A[j] # 0 => (i < j <=> A[i] < A[j])
             /\ \A i, j \in DOMAIN A : A[i] # 0 /\ A[j] = A[i] => i = j
<1> DEFINE A == AlignInstructions(s, t)
           n == Len(s)
           m == Len(t)
           P == PairsOf(s, t)
<1>1. n \in Nat /\ m \in Nat /\ Chain(P, s, t, n, m)
  BY PairsChain
<1>2. A \in [1 .. m -> 0 .. n] /\ \A j \in 1 .. m : A[j] # 0 => <<A[j], j>> \in P
  BY AlignmentParts
<1> HIDE DEF A, n, m, P
<1>3. /\ \A p \in P : s[p[1]] = t[p[2]]
      /\ \A p, q \in P : p[1] < q[1] <=> p[2] < q[2]
  BY <1>1 DEF Chain
<1>4. \A p, q \in P : p[1] = q[1] \/ p[2] = q[2] => p = q
  BY <1>1, ChainParts
<1>5. ASSUME NEW j \in DOMAIN A, A[j] # 0 PROVE s[A[j]] = t[j]
  <2>1. <<A[j], j>> \in P
    BY <1>2, <1>5
  <2>2. s[<<A[j], j>>[1]] = t[<<A[j], j>>[2]]
    BY <1>3, <2>1, Zenon
  <2> QED
    BY <2>2
<1>6. ASSUME NEW i \in DOMAIN A, NEW j \in DOMAIN A, A[i] # 0, A[j] # 0
      PROVE  i < j <=> A[i] < A[j]
  <2>1. <<A[i], i>> \in P /\ <<A[j], j>> \in P
    BY <1>2, <1>6
  <2>2. <<A[i], i>>[1] < <<A[j], j>>[1] <=> <<A[i], i>>[2] < <<A[j], j>>[2]
    BY <1>3, <2>1, Zenon
  <2> QED
    BY <2>2
<1>7. ASSUME NEW i \in DOMAIN A, NEW j \in DOMAIN A, A[i] # 0, A[j] = A[i]
      PROVE  i = j
  <2>1. <<A[i], i>> \in P /\ <<A[j], j>> \in P
    BY <1>2, <1>7
  <2>2. <<A[i], i>>[1] = <<A[j], j>>[1]
    BY <1>7
  <2>3. <<A[i], i>> = <<A[j], j>>
    BY <1>4, <2>1, <2>2, Zenon
  <2> QED
    BY <2>3
<1> QED
  BY <1>5, <1>6, <1>7 DEF A

(* It matches as many lines as there are pairs. *)
LEMMA AlignmentSize ==
  ASSUME NEW E, NEW s \in Seq(E), NEW t \in Seq(E)
  PROVE  LET A == AlignInstructions(s, t)
         IN  /\ IsFiniteSet({j \in DOMAIN A : A[j] # 0})
             /\ Cardinality(PairsOf(s, t)) <= Cardinality({j \in DOMAIN A : A[j] # 0})
<1> DEFINE A == AlignInstructions(s, t)
           n == Len(s)
           m == Len(t)
           P == PairsOf(s, t)
           S == {j \in DOMAIN A : A[j] # 0}
           f == [p \in P |-> p[2]]
<1>1. n \in Nat /\ m \in Nat /\ Chain(P, s, t, n, m)
  BY PairsChain
<1>2. A \in [1 .. m -> 0 .. n]
  BY AlignmentParts
<1>3. \A i, j : <<i, j>> \in P => j \in 1 .. m /\ A[j] = i /\ A[j] # 0
  BY AlignmentParts
<1> HIDE DEF A, n, m, P
<1>4. IsFiniteSet(S)
  <2>1. IsFiniteSet(1 .. m)
    BY <1>1, FS_Interval
  <2>2. S \subseteq 1 .. m
    BY <1>2
  <2> QED
    BY <2>1, <2>2, FS_Subset
<1>5. \A p \in P : p = <<p[1], p[2]>>
  BY <1>1, ChainParts
<1>6. \A p, q \in P : p[1] = q[1] \/ p[2] = q[2] => p = q
  BY <1>1, ChainParts
<1>7. f \in [P -> S]
  <2> SUFFICES ASSUME NEW p \in P PROVE p[2] \in S
    BY Zenon
  <2>1. <<p[1], p[2]>> \in P
    BY <1>5, Zenon
  <2>2. p[2] \in 1 .. m /\ A[p[2]] # 0
    BY <1>3, <2>1, Zenon
  <2> QED
    BY <1>2, <2>2
<1>8. \A p, q \in P : f[p] = f[q] => p = q
  <2> SUFFICES ASSUME NEW p \in P, NEW q \in P, f[p] = f[q] PROVE p = q
    BY Zenon
  <2>1. p[2] = q[2]
    OBVIOUS
  <2> QED
    BY <1>6, <2>1, Zenon
<1>9. Cardinality(P) <= Cardinality(S)
  <2> HIDE DEF f, S
  <2> QED
    BY <1>4, <1>7, <1>8, MappedInto
<1> QED
  BY <1>4, <1>9 DEF A, P, S

(* The ranks of the elements of a set of numbers are 1 to its size, in order. *)
LEMMA Ranks ==
  ASSUME NEW n \in Nat, NEW S \in SUBSET (1 .. n)
  PROVE  /\ \A i \in S : Rank(S, i) \in 1 .. Cardinality(S)
         /\ \A i, k \in S : i < k <=> Rank(S, i) < Rank(S, k)
         /\ \A r \in 1 .. Cardinality(S) : \E i \in S : Rank(S, i) = r
         /\ IsFiniteSet(S) /\ Cardinality(S) \in Nat
<1> DEFINE Up(i) == {x \in S : x <= i}
           f     == [i \in S |-> Rank(S, i)]
<1>1. IsFiniteSet(S) /\ Cardinality(S) \in Nat
  <2>1. IsFiniteSet(1 .. n)
    BY FS_Interval
  <2> QED
    BY <2>1, FS_Subset, FS_CardinalityType
<1>2. ASSUME NEW i \in S
      PROVE  /\ IsFiniteSet(Up(i)) /\ Cardinality(Up(i)) \in Nat
             /\ Rank(S, i) = Cardinality(Up(i)) /\ i \in Up(i) /\ Cardinality(Up(i)) <= Cardinality(S)
  <2>1. Up(i) \subseteq S /\ i \in Up(i)
    OBVIOUS
  <2>2. Rank(S, i) = Cardinality(Up(i))
    BY DEF Rank
  <2> HIDE DEF Up
  <2> QED
    BY <1>1, <2>1, <2>2, FS_Subset, FS_CardinalityType
<1>3. ASSUME NEW i \in S PROVE Rank(S, i) \in 1 .. Cardinality(S)
  <2>1. Up(i) # {}
    BY <1>2
  <2> HIDE DEF Up
  <2>2. Cardinality(Up(i)) # 0
    BY <1>2, <2>1, FS_EmptySet
  <2> QED
    BY <1>1, <1>2, <2>2
<1>4. ASSUME NEW i \in S, NEW k \in S, i < k PROVE Rank(S, i) < Rank(S, k)
  <2>1. Up(i) \subseteq Up(k) /\ k \in Up(k) /\ k \notin Up(i)
    <3>1. S \subseteq Int /\ i \in Int /\ k \in Int
      OBVIOUS
    <3>2. \A x \in S : x <= i => x <= k
      BY <1>4, <3>1
    <3>3. ~(k <= i) /\ k <= k
      BY <1>4, <3>1
    <3> QED
      BY <3>2, <3>3, Zenon
  <2>2. Up(i) # Up(k)
    BY <2>1
  <2> HIDE DEF Up
  <2>3. Cardinality(Up(i)) <= Cardinality(Up(k)) /\ Cardinality(Up(i)) # Cardinality(Up(k))
    BY <1>2, <2>1, <2>2, FS_Subset
  <2> DEFINE a == Cardinality(Up(i))
             b == Cardinality(Up(k))
  <2>4. a \in Nat /\ b \in Nat /\ a <= b /\ a # b
    BY <1>2, <2>3
  <2> HIDE DEF a, b
  <2>5. a < b
    BY <2>4
  <2> QED
    BY <1>2, <2>5, Zenon DEF a, b
<1>5. ASSUME NEW i \in S, NEW k \in S PROVE i < k <=> Rank(S, i) < Rank(S, k)
  <2>1. i \in Int /\ k \in Int
    OBVIOUS
  <2>2. Rank(S, i) \in Int /\ Rank(S, k) \in Int
    <3>1. Rank(S, i) \in 1 .. Cardinality(S) /\ Rank(S, k) \in 1 .. Cardinality(S)
      BY <1>3
    <3> QED
      BY <1>1, <3>1
  <2>3. i < k => Rank(S, i) < Rank(S, k)
    BY <1>4
  <2>4. k < i => Rank(S, k) < Rank(S, i)
    BY <1>4
  <2> QED
    BY <2>1, <2>2, <2>3, <2>4
<1>6. ASSUME NEW r \in 1 .. Cardinality(S) PROVE \E i \in S : Rank(S, i) = r
  <2> DEFINE T == 1 .. Cardinality(S)
  <2>1. IsFiniteSet(T) /\ Cardinality(T) = Cardinality(S)
    <3> DEFINE c == Cardinality(S)
    <3>1. c \in Nat
      BY <1>1
    <3> HIDE DEF c
    <3>2. IsFiniteSet(1 .. c) /\ Cardinality(1 .. c) = c
      BY <3>1, FS_Interval
    <3> QED
      BY <3>2 DEF c
  <2>2. f \in [S -> T]
    BY <1>3
  <2>3. \A i, k \in S : f[i] = f[k] => i = k
    <3> SUFFICES ASSUME NEW i \in S, NEW k \in S, f[i] = f[k] PROVE i = k
      BY Zenon
    <3>1. i \in Int /\ k \in Int
      OBVIOUS
    <3>2. Rank(S, i) = Rank(S, k) /\ Rank(S, i) \in Int
      <4>1. Rank(S, i) \in 1 .. Cardinality(S)
        BY <1>3
      <4> QED
        BY <1>1, <4>1
    <3>3. ~(i < k) /\ ~(k < i)
      BY <1>5, <3>2
    <3> QED
      BY <3>1, <3>3
  <2> HIDE DEF f, T
  <2>4. f \in Injection(S, T)
    BY <2>2, <2>3 DEF Injection, IsInjective
  <2>5. f \in Surjection(S, T)
    BY <2>1, <2>4, FS_Injection
  <2>6. \E i \in S : f[i] = r
    BY <2>5, Zenon DEF Surjection, T
  <2> QED
    BY <2>6 DEF f
<1> QED
  BY <1>1, <1>3, <1>5, <1>6

(* Lines in common are a chain. *)
LEMMA CommonChain ==
  ASSUME NEW s, NEW t, NEW n \in Nat, NEW m \in Nat,
         NEW S \in SUBSET (1 .. n), NEW T \in SUBSET (1 .. m),
         Cardinality(S) = Cardinality(T), Common(s, t, S, T)
  PROVE  \E M : Chain(M, s, t, n, m) /\ Cardinality(S) <= Cardinality(M)
<1> DEFINE M == {p \in S \X T : Rank(S, p[1]) = Rank(T, p[2])}
           f == [i \in S |-> <<i, CHOOSE j \in T : Rank(T, j) = Rank(S, i)>>]
<1>1. /\ \A i \in S : Rank(S, i) \in 1 .. Cardinality(T)
      /\ \A i, k \in S : i < k <=> Rank(S, i) < Rank(S, k)
  BY Ranks
<1>2. /\ \A i, k \in T : i < k <=> Rank(T, i) < Rank(T, k)
      /\ \A r \in 1 .. Cardinality(T) : \E j \in T : Rank(T, j) = r
  BY Ranks
<1>3. ASSUME NEW p \in M
      PROVE  /\ p = <<p[1], p[2]>> /\ p[1] \in S /\ p[2] \in T /\ p \in (1 .. n) \X (1 .. m)
             /\ Rank(S, p[1]) = Rank(T, p[2])
  <2>1. p \in S \X T /\ Rank(S, p[1]) = Rank(T, p[2])
    BY Zenon
  <2>2. p = <<p[1], p[2]>> /\ p[1] \in S /\ p[2] \in T
    BY <2>1
  <2>3. S \X T \subseteq (1 .. n) \X (1 .. m)
    OBVIOUS
  <2> HIDE DEF M
  <2> QED
    BY <2>1, <2>2, <2>3, Zenon
<1>4. Chain(M, s, t, n, m)
  <2>1. \A p \in M : s[p[1]] = t[p[2]]
    BY <1>3, Zenon DEF Common
  <2>2. \A p, q \in M : p[1] < q[1] <=> p[2] < q[2]
    <3> HIDE DEF M
    <3> SUFFICES ASSUME NEW p \in M, NEW q \in M PROVE p[1] < q[1] <=> p[2] < q[2]
      BY Zenon
    <3>1. p[1] < q[1] <=> Rank(S, p[1]) < Rank(S, q[1])
      BY <1>1, <1>3, Zenon
    <3>2. p[2] < q[2] <=> Rank(T, p[2]) < Rank(T, q[2])
      BY <1>2, <1>3, Zenon
    <3>3. Rank(S, p[1]) = Rank(T, p[2]) /\ Rank(S, q[1]) = Rank(T, q[2])
      BY <1>3, Zenon
    <3> QED
      BY <3>1, <3>2, <3>3, Zenon
  <2>3. M \subseteq (1 .. n) \X (1 .. m)
    BY <1>3
  <2> HIDE DEF M
  <2> QED
    BY <2>1, <2>2, <2>3, Zenon DEF Chain
<1>5. ASSUME NEW i \in S
      PROVE  f[i] \in M /\ f[i][1] = i
  <2> DEFINE j == CHOOSE j \in T : Rank(T, j) = Rank(S, i)
  <2>1. \E x \in T : Rank(T, x) = Rank(S, i)
    BY <1>1, <1>2, Zenon
  <2>2. j \in T /\ Rank(T, j) = Rank(S, i)
    BY <2>1, Zenon
  <2>3. f[i] = <<i, j>>
    BY Zenon
  <2> HIDE DEF j, f
  <2>4. <<i, j>> \in M
    BY <2>2
  <2> QED
    BY <2>3, <2>4
<1>6. IsFiniteSet(M)
  <2> HIDE DEF M
  <2> QED
    BY <1>4, ChainParts
<1>7. Cardinality(S) <= Cardinality(M)
  <2>1. f \in [S -> M]
    <3> SUFFICES ASSUME NEW i \in S
                 PROVE  <<i, CHOOSE j \in T : Rank(T, j) = Rank(S, i)>> \in M
      BY Zenon
    <3>1. f[i] = <<i, CHOOSE j \in T : Rank(T, j) = Rank(S, i)>>
      BY Zenon
    <3> HIDE DEF f, M
    <3> QED
      BY <1>5, <3>1, Zenon
  <2>2. \A i, k \in S : f[i] = f[k] => i = k
    <3> HIDE DEF f, M
    <3> QED
      BY <1>5, Zenon
  <2> HIDE DEF f, M
  <2> QED
    BY <1>6, <2>1, <2>2, MappedInto
<1> QED
  BY <1>4, <1>7, Zenon

(* No two sets of lines that are the same in both functions are larger than
   the set of the lines that the alignment matches. *)
LEMMA AlignmentBest ==
  ASSUME NEW E, NEW s \in Seq(E), NEW t \in Seq(E), Fits(s, t),
         NEW S \in SUBSET (1 .. Len(s)), NEW T \in SUBSET (1 .. Len(t)),
         Cardinality(S) = Cardinality(T), Common(s, t, S, T)
  PROVE  LET A == AlignInstructions(s, t)
         IN  Cardinality(S) <= Cardinality({j \in DOMAIN A : A[j] # 0})
<1> DEFINE A == AlignInstructions(s, t)
           Q == {j \in DOMAIN A : A[j] # 0}
           n == Len(s)
           m == Len(t)
<1>1. n \in Nat /\ m \in Nat /\ S \in SUBSET (1 .. n) /\ T \in SUBSET (1 .. m)
  OBVIOUS
<1>2. PICK M : Chain(M, s, t, n, m) /\ Cardinality(S) <= Cardinality(M)
  <2> HIDE DEF n, m
  <2> QED
    BY <1>1, CommonChain
<1>3. Cardinality(M) <= Cardinality(PairsOf(s, t))
  <2>1. Small(s, t)
    BY SmallWhole
  <2> QED
    BY <1>2, <2>1, PairsBest
<1>4. Cardinality(PairsOf(s, t)) <= Cardinality(Q) /\ IsFiniteSet(Q)
  BY AlignmentSize
<1>5. /\ Cardinality(S) \in Nat /\ Cardinality(M) \in Nat /\ Cardinality(Q) \in Nat
      /\ Cardinality(PairsOf(s, t)) \in Nat
  <2>1. Cardinality(S) \in Nat
    <3> HIDE DEF n
    <3> QED
      BY <1>1, Ranks
  <2>2. Cardinality(M) \in Nat
    <3> HIDE DEF n, m
    <3> QED
      BY <1>1, <1>2, ChainParts
  <2>3. Cardinality(PairsOf(s, t)) \in Nat
    BY PairsKinds
  <2>4. Cardinality(Q) \in Nat
    BY <1>4, FS_CardinalityType
  <2> QED
    BY <2>1, <2>2, <2>3, <2>4
<1> DEFINE cS == Cardinality(S)
           cM == Cardinality(M)
           cP == Cardinality(PairsOf(s, t))
           cQ == Cardinality(Q)
<1>6. /\ cS \in Nat /\ cM \in Nat /\ cP \in Nat /\ cQ \in Nat
      /\ cS <= cM /\ cM <= cP /\ cP <= cQ
  BY <1>2, <1>3, <1>4, <1>5, Zenon
<1> HIDE DEF cS, cM, cP, cQ
<1>7. cS <= cQ
  BY <1>6
<1> QED
  BY <1>7 DEF cS, cQ

-----------------------------------------------------------------------------
(* The lines of a function. *)

(* What a sequence of lines consists of. *)
LEMMA LinesParts ==
  ASSUME NEW lines \in Seq(Lines)
  PROVE  /\ Ops(lines) \in Seq(Op) /\ Len(Ops(lines)) = Len(lines) /\ Len(lines) \in Nat
         /\ DOMAIN lines = 1 .. Len(lines) /\ DOMAIN Ops(lines) = 1 .. Len(lines)
         /\ \A i \in 1 .. Len(lines) :
              /\ Ops(lines)[i] = lines[i].op /\ lines[i].op \in Op /\ lines[i].addr \in Seq(Int)
              /\ lines[i].op \in Plain => lines[i].addr = <<>>
              /\ lines[i].op \in ShortJump \cup LongJump => Len(lines[i].addr) = 1
<1>1. \A i \in 1 .. Len(lines) : lines[i] \in Lines
  OBVIOUS
<1>2. ASSUME NEW i \in 1 .. Len(lines)
      PROVE  /\ lines[i].op \in Op /\ lines[i].addr \in Seq(Int)
             /\ lines[i].op \in Plain => lines[i].addr = <<>>
             /\ lines[i].op \in ShortJump \cup LongJump => Len(lines[i].addr) = 1
  BY <1>1 DEF Lines
<1>3. DOMAIN lines = 1 .. Len(lines) /\ Len(lines) \in Nat
  OBVIOUS
<1>4. /\ DOMAIN Ops(lines) = 1 .. Len(lines)
      /\ \A i \in 1 .. Len(lines) : Ops(lines)[i] = lines[i].op
  BY <1>3 DEF Ops
<1>5. Ops(lines) \in Seq(Op) /\ Len(Ops(lines)) = Len(lines)
  <2>1. Ops(lines) = [i \in 1 .. Len(lines) |-> lines[i].op]
    BY <1>3 DEF Ops
  <2> QED
    BY <1>2, <1>3, <2>1
<1> QED
  BY <1>2, <1>3, <1>4, <1>5

(* A sequence without its k-th element. *)
LEMMA Removed ==
  ASSUME NEW S, NEW seq \in Seq(S), NEW k \in 1 .. Len(seq)
  PROVE  RemoveAt(seq, k) \in Seq(S) /\ Len(RemoveAt(seq, k)) = Len(seq) - 1
<1>1. SubSeq(seq, 1, k - 1) \in Seq(S) /\ Len(SubSeq(seq, 1, k - 1)) = k - 1
  OBVIOUS
<1>2. /\ SubSeq(seq, k + 1, Len(seq)) \in Seq(S)
      /\ Len(SubSeq(seq, k + 1, Len(seq))) = Len(seq) - k
  OBVIOUS
<1> DEFINE a == SubSeq(seq, 1, k - 1)
           b == SubSeq(seq, k + 1, Len(seq))
<1>3. /\ a \in Seq(S) /\ b \in Seq(S) /\ Len(a) = k - 1 /\ Len(b) = Len(seq) - k
      /\ RemoveAt(seq, k) = a \o b
  BY <1>1, <1>2 DEF RemoveAt
<1> HIDE DEF a, b
<1>4. a \o b \in Seq(S) /\ Len(a \o b) = Len(a) + Len(b)
  BY <1>3, ConcatProperties
<1>5. (k - 1) + (Len(seq) - k) = Len(seq) - 1
  OBVIOUS
<1> QED
  BY <1>3, <1>4, <1>5, Zenon

(* A sequence with x in front of its k-th element. *)
LEMMA Inserted ==
  ASSUME NEW S, NEW seq \in Seq(S), NEW k \in 1 .. (Len(seq) + 1), NEW x \in S
  PROVE  InsertAt(seq, k, x) \in Seq(S) /\ Len(InsertAt(seq, k, x)) = Len(seq) + 1
<1>1. SubSeq(seq, 1, k - 1) \in Seq(S) /\ Len(SubSeq(seq, 1, k - 1)) = k - 1
  OBVIOUS
<1>2. /\ SubSeq(seq, k, Len(seq)) \in Seq(S)
      /\ Len(SubSeq(seq, k, Len(seq))) = Len(seq) - k + 1
  OBVIOUS
<1>3. /\ SubSeq(seq, 1, k - 1) \o <<x>> \in Seq(S)
      /\ Len(SubSeq(seq, 1, k - 1) \o <<x>>) = k
  BY <1>1
<1> DEFINE a == SubSeq(seq, 1, k - 1) \o <<x>>
           b == SubSeq(seq, k, Len(seq))
<1>4. /\ a \in Seq(S) /\ b \in Seq(S) /\ Len(a) = k /\ Len(b) = Len(seq) - k + 1
      /\ InsertAt(seq, k, x) = a \o b
  BY <1>2, <1>3 DEF InsertAt
<1> HIDE DEF a, b
<1>5. a \o b \in Seq(S) /\ Len(a \o b) = Len(a) + Len(b)
  BY <1>4, ConcatProperties
<1>6. k + (Len(seq) - k + 1) = Len(seq) + 1
  OBVIOUS
<1> QED
  BY <1>4, <1>5, <1>6, Zenon

-----------------------------------------------------------------------------
(* The inductive invariant. *)

(* The lines that have their long form, and those that have one. *)
Grown == {i \in DOMAIN link : link[i] # edited[i].op}

Able == {i \in DOMAIN link : edited[i].op \in DOMAIN LongOf}

(* The functions are lines. *)
TextInv ==
  /\ current \in Seq(Lines) /\ edited \in Seq(Lines) /\ output \in Seq(Lines)
  /\ origin \in Seq(Nat) /\ Len(origin) = Len(edited)
  /\ edits \in 0 .. MaxEdits

(* Passes are made in the layout only. *)
StageInv ==
  /\ phase \in {"editing", "resolving", "layout", "done", "failed"}
  /\ passes \in 0 .. (MaxPasses + 1)
  /\ phase \in {"editing", "resolving"} => passes = 0
  /\ phase = "layout" => passes <= MaxPasses

(* The alignment is that of the two texts. *)
MatchInv ==
  phase \in {"resolving", "layout", "done"} =>
    alignment = AlignInstructions(Ops(current), Ops(edited))

(* Every op chosen is that of the line or its long form. *)
LinkInv ==
  /\ phase = "resolving" => link = Ops(edited)
  /\ phase \in {"layout", "done"} =>
       /\ link \in Seq(Op) /\ Len(link) = Len(edited)
       /\ \A i \in 1 .. Len(edited) :
            \/ link[i] = edited[i].op
            \/ edited[i].op \in DOMAIN LongOf /\ link[i] = LongOf[edited[i].op]

(* Every address has been resolved. *)
Followed(j) ==
  /\ edited[j].op \in Addressing =>
       /\ Resolvable(j)
       /\ Len(target[j]) = Len(Addresses(j))
       /\ \A n \in 1 .. Len(Addresses(j)) : target[j][n] \in Resolved(j, Addresses(j)[n])
  /\ edited[j].op \notin Addressing => target[j] = <<>>

TargetInv ==
  phase \in {"layout", "done"} =>
    /\ target \in [1 .. Len(edited) -> Seq(1 .. Len(edited))]
    /\ \A j \in 1 .. Len(edited) : Followed(j)

(* What is put out is the layout in which every short jump reaches. *)
DoneInv == phase = "done" => output = Encode(link) /\ OutOfReach(link) = {}

(* The passes so far have each promoted a jump. *)
PassInv == phase \in {"layout", "done"} =>
             passes <= Cardinality(Grown) + (IF phase = "done" THEN 1 ELSE 0)

(* Only jumps that no layout can leave short have been promoted. *)
LeastInv ==
  phase \in {"layout", "done"} =>
    \A W \in SUBSET Able : ShortJumpsReach(Promoted(Ops(edited), W)) => Grown \subseteq W

(* Every address is that of a line. *)
ClosedInv == Closed(current) /\ (phase = "done" => Closed(output))

AsmInv ==
  /\ TextInv /\ StageInv /\ MatchInv /\ LinkInv /\ TargetInv
  /\ DoneInv /\ PassInv /\ LeastInv /\ ClosedInv

(* The empty function. *)
LEMMA NoLines == <<>> \in Seq(Lines) /\ Len(<<>>) = 0
OBVIOUS

(* The invariant holds at first. *)
LEMMA InitAsm == ASSUME Init PROVE AsmInv
<1>1. current \in Seq(Lines) /\ Closed(current)
  BY AssemblerAssumption, ProgramAssumption DEF Init
<1>2. origin \in Seq(Nat) /\ Len(origin) = Len(edited)
  <2>1. origin = [i \in 1 .. Len(current) |-> i] /\ Len(current) \in Nat
    BY <1>1, LinesParts DEF Init
  <2>2. \A i \in 1 .. Len(current) : i \in Nat
    OBVIOUS
  <2>3. edited = current
    BY DEF Init
  <2> QED
    BY <2>1, <2>2, <2>3
<1>3. 0 \in 0 .. MaxEdits /\ 0 \in 0 .. (MaxPasses + 1)
  BY AssemblerAssumption
<1>4. TextInv
  BY <1>1, <1>2, <1>3, NoLines DEF Init, TextInv
<1>5. StageInv
  BY <1>3 DEF Init, StageInv
<1>6. phase = "editing"
  BY DEF Init
<1> QED
  BY <1>1, <1>4, <1>5, <1>6 DEF AsmInv, MatchInv, LinkInv, TargetInv, DoneInv, PassInv, LeastInv, ClosedInv

(* An edit leaves a text of lines. *)
LEMMA EditStep ==
  ASSUME AsmInv, NEW lines \in Seq(Lines), NEW origins \in Seq(Nat), Len(origins) = Len(lines),
         Edit(lines, origins)
  PROVE  AsmInv'
<1> USE DEF Edit
<1>1. phase = "editing" /\ phase' = "editing"
  OBVIOUS
<1>2. edits' \in 0 .. MaxEdits
  <2>1. edits \in 0 .. MaxEdits /\ edits < MaxEdits /\ MaxEdits \in Nat
    BY AssemblerAssumption DEF AsmInv, TextInv
  <2> QED
    BY <2>1
<1>3. TextInv'
  BY <1>2 DEF AsmInv, TextInv
<1>4. StageInv'
  BY <1>1 DEF AsmInv, StageInv
<1>5. ClosedInv'
  <2>1. Closed(current)'
    BY DEF AsmInv, ClosedInv
  <2> QED
    BY <1>1, <2>1 DEF ClosedInv
<1> QED
  BY <1>1, <1>3, <1>4, <1>5 DEF AsmInv, MatchInv, LinkInv, TargetInv, DoneInv, PassInv, LeastInv

(* Deleting a line. *)
LEMMA DeleteStep == ASSUME AsmInv, NEW k \in DOMAIN edited, DeleteLine(k) PROVE AsmInv'
<1>1. edited \in Seq(Lines) /\ origin \in Seq(Nat) /\ Len(origin) = Len(edited)
  BY DEF AsmInv, TextInv
<1>2. k \in 1 .. Len(edited) /\ k \in 1 .. Len(origin)
  BY <1>1
<1>3. /\ RemoveAt(edited, k) \in Seq(Lines) /\ Len(RemoveAt(edited, k)) = Len(edited) - 1
      /\ RemoveAt(origin, k) \in Seq(Nat) /\ Len(RemoveAt(origin, k)) = Len(origin) - 1
  BY <1>1, <1>2, Removed
<1> QED
  BY <1>1, <1>3, EditStep DEF DeleteLine

(* Inserting one. *)
LEMMA InsertStep ==
  ASSUME AsmInv, NEW k \in 1 .. (Len(edited) + 1), NEW x \in NewLines, InsertLine(k, x)
  PROVE  AsmInv'
<1>1. edited \in Seq(Lines) /\ origin \in Seq(Nat) /\ Len(origin) = Len(edited)
  BY DEF AsmInv, TextInv
<1>2. k \in 1 .. (Len(edited) + 1) /\ k \in 1 .. (Len(origin) + 1) /\ x \in Lines /\ 0 \in Nat
  BY <1>1, AssemblerAssumption
<1>3. /\ InsertAt(edited, k, x) \in Seq(Lines) /\ Len(InsertAt(edited, k, x)) = Len(edited) + 1
      /\ InsertAt(origin, k, 0) \in Seq(Nat) /\ Len(InsertAt(origin, k, 0)) = Len(origin) + 1
  BY <1>1, <1>2, Inserted
<1> QED
  BY <1>1, <1>3, EditStep DEF InsertLine

(* A line with another address or other cases. *)
LEMMA Addressless ==
  ASSUME NEW lines \in Seq(Lines), NEW k \in 1 .. Len(lines), NEW a \in Seq(Int),
         lines[k].op \notin Plain,
         lines[k].op \in ShortJump \cup LongJump => Len(a) = 1
  PROVE  /\ [lines EXCEPT ![k].addr = a] \in Seq(Lines)
         /\ Len([lines EXCEPT ![k].addr = a]) = Len(lines)
<1>1. lines[k] \in Lines
  OBVIOUS
<1>2. [lines[k] EXCEPT !.addr = a] \in Lines
  BY <1>1 DEF Lines
<1> QED
  BY <1>2

(* Retyping the address of a line. *)
LEMMA ReaddressStep ==
  ASSUME AsmInv, NEW k \in DOMAIN edited, NEW v \in NewAddresses, Readdress(k, v)
  PROVE  AsmInv'
<1>1. edited \in Seq(Lines) /\ origin \in Seq(Nat) /\ Len(origin) = Len(edited)
  BY DEF AsmInv, TextInv
<1>2. k \in 1 .. Len(edited) /\ <<v>> \in Seq(Int) /\ Len(<<v>>) = 1
  BY <1>1, AssemblerAssumption
<1>3. edited[k].op \notin Plain
  BY AssemblerAssumption DEF Readdress, Addressing
<1>4. /\ [edited EXCEPT ![k].addr = <<v>>] \in Seq(Lines)
      /\ Len([edited EXCEPT ![k].addr = <<v>>]) = Len(edited)
  BY <1>1, <1>2, <1>3, Addressless
<1> QED
  BY <1>1, <1>4, EditStep DEF Readdress

(* Leaving out the cases of a switch. *)
LEMMA OmitStep ==
  ASSUME AsmInv, NEW k \in DOMAIN edited, OmitCases(k)
  PROVE  AsmInv'
<1>1. edited \in Seq(Lines) /\ origin \in Seq(Nat) /\ Len(origin) = Len(edited)
  BY DEF AsmInv, TextInv
<1>2. k \in 1 .. Len(edited) /\ <<>> \in Seq(Int)
  BY <1>1
<1>3. edited[k].op \notin Plain /\ edited[k].op \notin ShortJump \cup LongJump
  BY AssemblerAssumption DEF OmitCases
<1>4. /\ [edited EXCEPT ![k].addr = <<>>] \in Seq(Lines)
      /\ Len([edited EXCEPT ![k].addr = <<>>]) = Len(edited)
  BY <1>1, <1>2, <1>3, Addressless
<1> QED
  BY <1>1, <1>4, EditStep DEF OmitCases

(* The alignment of the two texts. *)
LEMMA AlignedLines ==
  ASSUME AsmInv, phase \in {"resolving", "layout", "done"}
  PROVE  /\ alignment \in [1 .. Len(edited) -> 0 .. Len(current)]
         /\ \A j \in 1 .. Len(edited) : alignment[j] # 0 =>
              alignment[j] \in 1 .. Len(current) /\ current[alignment[j]].op = edited[j].op
         /\ \A i, j \in 1 .. Len(edited) :
              alignment[i] # 0 /\ alignment[j] # 0 => (i < j <=> alignment[i] < alignment[j])
<1> DEFINE s == Ops(current)
           t == Ops(edited)
<1>1. /\ current \in Seq(Lines) /\ edited \in Seq(Lines)
      /\ alignment = AlignInstructions(s, t)
  BY DEF AsmInv, TextInv, MatchInv
<1>2. /\ s \in Seq(Op) /\ Len(s) = Len(current) /\ Len(current) \in Nat
      /\ \A i \in 1 .. Len(current) : s[i] = current[i].op
  BY <1>1, LinesParts
<1>3. /\ t \in Seq(Op) /\ Len(t) = Len(edited)
      /\ \A i \in 1 .. Len(edited) : t[i] = edited[i].op
  BY <1>1, LinesParts
<1> HIDE DEF s, t
<1>4. /\ alignment \in [1 .. Len(edited) -> 0 .. Len(current)]
  BY <1>1, <1>2, <1>3, AlignmentParts
<1>5. /\ \A j \in DOMAIN alignment : alignment[j] # 0 => s[alignment[j]] = t[j]
      /\ \A i, j \in DOMAIN alignment : alignment[i] # 0 /\ alignment[j] # 0
           => (i < j <=> alignment[i] < alignment[j])
  BY <1>1, <1>2, <1>3, AlignmentMatches
<1>6. DOMAIN alignment = 1 .. Len(edited)
  BY <1>4
<1>7. ASSUME NEW j \in 1 .. Len(edited), alignment[j] # 0
      PROVE  alignment[j] \in 1 .. Len(current) /\ current[alignment[j]].op = edited[j].op
  <2>1. alignment[j] \in 1 .. Len(current)
    <3>1. alignment[j] \in 0 .. Len(current)
      BY <1>4
    <3> QED
      BY <1>2, <1>7, <3>1
  <2>2. s[alignment[j]] = t[j]
    BY <1>5, <1>6, <1>7
  <2> QED
    BY <1>2, <1>3, <2>1, <2>2
<1> QED
  BY <1>4, <1>5, <1>6, <1>7

(* Aligning the lines. *)
LEMMA AlignStep == ASSUME AsmInv, Align PROVE AsmInv'
<1> USE DEF Align, text
<1>1. TextInv'
  BY DEF AsmInv, TextInv
<1>2. StageInv'
  BY DEF AsmInv, StageInv
<1>3. MatchInv' /\ LinkInv'
  BY DEF MatchInv, LinkInv, Ops
<1>4. ClosedInv'
  <2>1. Closed(current)'
    BY DEF AsmInv, ClosedInv
  <2> QED
    BY <2>1 DEF ClosedInv
<1> QED
  BY <1>1, <1>2, <1>3, <1>4 DEF AsmInv, TargetInv, DoneInv, PassInv, LeastInv

(* Addresses are resolved by the texts and the alignment. *)
LEMMA ResolvedFrame ==
  ASSUME UNCHANGED <<current, edited, alignment>>, NEW j
  PROVE  /\ Addresses(j)' = Addresses(j)
         /\ Resolvable(j)' <=> Resolvable(j)
         /\ \A v : Resolved(j, v)' = Resolved(j, v)
<1>1. Addresses(j)' = Addresses(j)
  BY DEF Addresses
<1>2. \A v : Resolved(j, v)' = Resolved(j, v)
  BY DEF Resolved
<1>3. Resolvable(j)' <=> Resolvable(j)
  BY <1>1, <1>2 DEF Resolvable
<1> QED
  BY <1>1, <1>2, <1>3

(* The addresses of a line that can be resolved. *)
LEMMA AddressesType ==
  ASSUME AsmInv, phase \in {"resolving", "layout", "done"},
         NEW j \in 1 .. Len(edited), edited[j].op \in Addressing, Resolvable(j)
  PROVE  /\ Addresses(j) \in Seq(Int)
         /\ edited[j].op \in ShortJump \cup LongJump => Addresses(j) = edited[j].addr /\ Len(Addresses(j)) = 1
<1>1. current \in Seq(Lines) /\ edited \in Seq(Lines)
  BY DEF AsmInv, TextInv
<1>2. alignment[j] # 0
  BY DEF Resolvable
<1>3. alignment[j] \in 1 .. Len(current)
  BY <1>2, AlignedLines
<1>4. /\ edited[j].addr \in Seq(Int)
      /\ edited[j].op \in ShortJump \cup LongJump => Len(edited[j].addr) = 1
  BY <1>1, LinesParts
<1>5. current[alignment[j]].addr \in Seq(Int)
  BY <1>1, <1>3, LinesParts
<1>6. edited[j].op \in ShortJump \cup LongJump => edited[j].op \notin Switch
  BY AssemblerAssumption
<1> QED
  BY <1>4, <1>5, <1>6 DEF Addresses

(* Resolving the addresses. *)
LEMMA ResolveStep == ASSUME AsmInv, Resolve PROVE AsmInv'
<1> USE DEF text
<1>1. /\ phase = "resolving" /\ UNCHANGED <<current, edited, alignment, link, passes, output, origin, edits>>
  BY DEF Resolve
<1>2. TextInv'
  BY <1>1 DEF AsmInv, TextInv
<1>3. /\ link = Ops(edited) /\ passes = 0 /\ edited \in Seq(Lines)
      /\ alignment = AlignInstructions(Ops(current), Ops(edited))
  BY <1>1 DEF AsmInv, TextInv, LinkInv, StageInv, MatchInv
<1>4. Closed(current)'
  BY <1>1 DEF AsmInv, ClosedInv
<1>5. CASE ~ \A j \in DOMAIN edited : Resolvable(j)
  <2>1. phase' = "failed"
    BY <1>5 DEF Resolve
  <2>2. StageInv'
    BY <1>1, <2>1 DEF AsmInv, StageInv
  <2> QED
    BY <1>2, <1>4, <2>1, <2>2
    DEF AsmInv, MatchInv, LinkInv, TargetInv, DoneInv, PassInv, LeastInv, ClosedInv
<1>6. CASE \A j \in DOMAIN edited : Resolvable(j)
  <2>1. /\ phase' = "layout"
        /\ target' = [j \in DOMAIN edited |->
                        IF edited[j].op \in Addressing
                        THEN [n \in DOMAIN Addresses(j) |->
                                CHOOSE k \in Resolved(j, Addresses(j)[n]) : TRUE]
                        ELSE <<>>]
    BY <1>6 DEF Resolve
  <2>2. /\ Len(edited) \in Nat /\ DOMAIN edited = 1 .. Len(edited)
        /\ Ops(edited) \in Seq(Op) /\ Len(Ops(edited)) = Len(edited)
        /\ DOMAIN Ops(edited) = 1 .. Len(edited)
        /\ \A j \in 1 .. Len(edited) : Ops(edited)[j] = edited[j].op
    BY <1>3, LinesParts
  <2>3. StageInv'
    <3>1. 0 <= MaxPasses /\ 0 \in 0 .. (MaxPasses + 1)
      BY AssemblerAssumption
    <3> QED
      BY <1>1, <1>3, <2>1, <3>1 DEF AsmInv, StageInv
  <2>4. MatchInv'
    BY <1>1, <1>3, <2>1 DEF MatchInv
  <2>5. LinkInv'
    BY <1>1, <1>3, <2>1, <2>2 DEF LinkInv
  <2>6. ASSUME NEW j \in 1 .. Len(edited)
        PROVE  target'[j] \in Seq(1 .. Len(edited)) /\ Followed(j)'
    <3>1. CASE edited[j].op \notin Addressing
      <4>1. target'[j] = <<>>
        BY <2>1, <2>2, <3>1
      <4> QED
        BY <1>1, <3>1, <4>1 DEF Followed
    <3>2. CASE edited[j].op \in Addressing
      <4>1. Resolvable(j) /\ Addresses(j) \in Seq(Int)
        BY <1>1, <1>6, <2>2, <3>2, AddressesType
      <4>2. /\ DOMAIN Addresses(j) = 1 .. Len(Addresses(j)) /\ Len(Addresses(j)) \in Nat
        BY <4>1
      <4>3. target'[j] = [n \in 1 .. Len(Addresses(j)) |->
                            CHOOSE k \in Resolved(j, Addresses(j)[n]) : TRUE]
        BY <2>1, <2>2, <3>2, <4>2
      <4>4. ASSUME NEW n \in 1 .. Len(Addresses(j))
            PROVE  target'[j][n] \in Resolved(j, Addresses(j)[n])
        <5>1. Resolved(j, Addresses(j)[n]) # {}
          BY <3>2, <4>1, <4>2 DEF Resolvable
        <5>2. target'[j][n] = CHOOSE k \in Resolved(j, Addresses(j)[n]) : TRUE
          BY <4>3
        <5> QED
          BY <5>1, <5>2, Zenon
      <4>5. \A v : Resolved(j, v) \subseteq 1 .. Len(edited)
        BY <2>2 DEF Resolved
      <4>6. target'[j] \in Seq(1 .. Len(edited)) /\ Len(target'[j]) = Len(Addresses(j))
        <5>1. \A n \in 1 .. Len(Addresses(j)) : target'[j][n] \in 1 .. Len(edited)
          BY <4>4, <4>5
        <5>2. DOMAIN target'[j] = 1 .. Len(Addresses(j))
          BY <4>3
        <5> QED
          BY <4>2, <4>3, <5>1, <5>2
      <4>7. /\ Addresses(j)' = Addresses(j) /\ Resolvable(j)'
            /\ \A v : Resolved(j, v)' = Resolved(j, v)
        BY <1>1, <4>1, ResolvedFrame
      <4>8. edited[j]'.op \in Addressing
        BY <1>1, <3>2
      <4> QED
        BY <1>1, <3>2, <4>4, <4>6, <4>7, <4>8 DEF Followed
    <3> QED
      BY <3>1, <3>2
  <2>7. TargetInv'
    <3>1. target' \in [1 .. Len(edited) -> Seq(1 .. Len(edited))]
      BY <2>1, <2>2, <2>6
    <3> QED
      BY <1>1, <2>6, <3>1 DEF TargetInv
  <2>8. Grown' = {}
    BY <1>1, <1>3, <2>2 DEF Grown
  <2>9. PassInv' /\ LeastInv'
    <3>1. Cardinality({}) = 0
      BY FS_EmptySet
    <3>2. passes' <= Cardinality(Grown')
      BY <1>1, <1>3, <2>8, <3>1
    <3>3. PassInv'
      BY <2>1, <2>8, <3>1, <1>1, <1>3 DEF PassInv
    <3>4. LeastInv'
      BY <2>8 DEF LeastInv
    <3> QED
      BY <3>3, <3>4
  <2> QED
    BY <1>2, <1>4, <2>1, <2>3, <2>4, <2>5, <2>7, <2>9 DEF AsmInv, DoneInv, ClosedInv
<1> QED
  BY <1>5, <1>6

(* The ops chosen so far. *)
LEMMA LinkParts ==
  ASSUME AsmInv, phase \in {"layout", "done"}
  PROVE  /\ link \in Seq(Op) /\ Len(link) = Len(edited) /\ Len(edited) \in Nat
         /\ DOMAIN link = 1 .. Len(edited) /\ DOMAIN edited = 1 .. Len(edited)
         /\ \A i \in 1 .. Len(edited) :
              /\ link[i] \in Op /\ edited[i].op \in Op
              /\ link[i] \in ShortJump => link[i] = edited[i].op
              /\ link[i] # edited[i].op =>
                   /\ link[i] \in LongJump /\ edited[i].op \in ShortJump
                   /\ edited[i].op \in DOMAIN LongOf /\ link[i] = LongOf[edited[i].op]
              /\ Size[edited[i].op] <= Size[link[i]]
              /\ link[i] \in Switch <=> edited[i].op \in Switch
              /\ link[i] \in Plain <=> edited[i].op \in Plain
              /\ link[i] \in ShortJump \cup LongJump <=> edited[i].op \in ShortJump \cup LongJump
              /\ link[i] \in Addressing <=> edited[i].op \in Addressing
<1>1. /\ link \in Seq(Op) /\ Len(link) = Len(edited) /\ edited \in Seq(Lines)
      /\ \A i \in 1 .. Len(edited) :
           \/ link[i] = edited[i].op
           \/ edited[i].op \in DOMAIN LongOf /\ link[i] = LongOf[edited[i].op]
  BY DEF AsmInv, TextInv, LinkInv
<1>2. /\ Len(edited) \in Nat /\ DOMAIN edited = 1 .. Len(edited) /\ DOMAIN link = 1 .. Len(edited)
      /\ \A i \in 1 .. Len(edited) : edited[i].op \in Op
  BY <1>1, LinesParts
<1>3. ASSUME NEW i \in 1 .. Len(edited)
      PROVE  /\ link[i] \in Op /\ edited[i].op \in Op
             /\ link[i] \in ShortJump => link[i] = edited[i].op
             /\ link[i] # edited[i].op =>
                  /\ link[i] \in LongJump /\ edited[i].op \in ShortJump
                  /\ edited[i].op \in DOMAIN LongOf /\ link[i] = LongOf[edited[i].op]
             /\ Size[edited[i].op] <= Size[link[i]]
             /\ link[i] \in Switch <=> edited[i].op \in Switch
             /\ link[i] \in Plain <=> edited[i].op \in Plain
             /\ link[i] \in ShortJump \cup LongJump <=> edited[i].op \in ShortJump \cup LongJump
             /\ link[i] \in Addressing <=> edited[i].op \in Addressing
  <2> DEFINE o == edited[i].op
             l == link[i]
  <2>1. l = o \/ (o \in DOMAIN LongOf /\ l = LongOf[o])
    BY <1>1
  <2>2. o \in Op /\ l \in Op
    BY <1>1, <1>2
  <2> HIDE DEF o, l
  <2>3. CASE l = o
    <3>1. Size[o] \in Nat
      BY <2>2, AssemblerAssumption
    <3>2. Size[o] <= Size[l]
      BY <2>3, <3>1
    <3> QED
      BY <2>2, <2>3, <3>2 DEF o, l
  <2>4. CASE o \in DOMAIN LongOf /\ l = LongOf[o]
    <3>1. o \in ShortJump /\ l \in LongJump /\ Size[o] <= Size[l]
      BY <2>4, AssemblerAssumption
    <3>2. /\ l \notin ShortJump /\ o \notin Switch /\ l \notin Switch
          /\ o \notin Plain /\ l \notin Plain
          /\ l \in Addressing /\ o \in Addressing
      BY <3>1, AssemblerAssumption DEF Addressing
    <3> QED
      BY <2>2, <2>4, <3>1, <3>2 DEF o, l
  <2> QED
    BY <2>1, <2>3, <2>4
<1> QED
  BY <1>1, <1>2, <1>3

(* The lines that a line addresses. *)
LEMMA TargetParts ==
  ASSUME AsmInv, phase \in {"layout", "done"}, NEW j \in 1 .. Len(edited)
  PROVE  /\ target[j] \in Seq(1 .. Len(edited)) /\ Len(target[j]) \in Nat
         /\ DOMAIN target[j] = 1 .. Len(target[j])
         /\ \A n \in 1 .. Len(target[j]) : target[j][n] \in 1 .. Len(edited)
         /\ link[j] \in Plain => target[j] = <<>>
         /\ link[j] \notin Addressing => target[j] = <<>>
         /\ link[j] \in ShortJump \cup LongJump => Len(target[j]) = 1
<1>1. target \in [1 .. Len(edited) -> Seq(1 .. Len(edited))] /\ Followed(j)
  BY DEF AsmInv, TargetInv
<1>2. /\ link[j] \in Plain <=> edited[j].op \in Plain
      /\ link[j] \in ShortJump \cup LongJump <=> edited[j].op \in ShortJump \cup LongJump
      /\ link[j] \in Addressing <=> edited[j].op \in Addressing
  BY LinkParts
<1>3. edited[j].op \in Plain => edited[j].op \notin Addressing
  BY AssemblerAssumption DEF Addressing
<1>4. ASSUME link[j] \in ShortJump \cup LongJump PROVE Len(target[j]) = 1
  <2>1. edited[j].op \in ShortJump \cup LongJump /\ edited[j].op \in Addressing
    BY <1>2, <1>4 DEF Addressing
  <2>2. Resolvable(j) /\ Len(target[j]) = Len(Addresses(j))
    BY <1>1, <2>1 DEF Followed
  <2> QED
    BY <2>1, <2>2, AddressesType
<1>5. target[j] \in Seq(1 .. Len(edited))
  BY <1>1
<1>6. /\ Len(target[j]) \in Nat /\ DOMAIN target[j] = 1 .. Len(target[j])
      /\ \A n \in 1 .. Len(target[j]) : target[j][n] \in 1 .. Len(edited)
  BY <1>5
<1>7. edited[j].op \notin Addressing => target[j] = <<>>
  BY <1>1 DEF Followed
<1> QED
  BY <1>2, <1>3, <1>4, <1>5, <1>6, <1>7

(* The address that is encoded leads to the line it is meant for. *)
LEMMA EncodedLeads ==
  ASSUME NEW ops \in Seq(Op), NEW j \in 1 .. Len(ops), NEW k \in 1 .. Len(ops),
         ops[j] \in Addressing, ops[j] \in ShortJump => InReach(Distance(ops, j, k))
  PROVE  Encoded(ops, j, k) \in Int /\ Addressed(ops, j, Encoded(ops, j, k)) = k
<1>1. Offsets(ops)[j] \in Nat /\ Offsets(ops)[k] \in Nat
  BY OffsetsParts
<1>2. /\ ops[j] \in Switch => ops[j] \notin LongJump /\ ops[j] \notin ShortJump
      /\ ops[j] \in LongJump => ops[j] \notin ShortJump
      /\ ops[j] \in Switch \/ ops[j] \in LongJump \/ ops[j] \in ShortJump
  BY AssemblerAssumption DEF Addressing
<1>3. IndexAt(ops, Offsets(ops)[k]) = k
  BY IndexAtParts
<1> DEFINE a == Offsets(ops)[j]
           b == Offsets(ops)[k]
<1>4. b - a \in Int /\ a + (b - a) = b /\ b \in Int
  <2>1. a \in Nat /\ b \in Nat
    BY <1>1
  <2> HIDE DEF a, b
  <2> QED
    BY <2>1
<1>5. Distance(ops, j, k) = b - a
  BY DEF Distance
<1>6. CASE ops[j] \in Switch
  <2>1. Encoded(ops, j, k) = b
    BY <1>2, <1>6, Zenon DEF Encoded
  <2>2. Meant(ops, j, b) = b
    BY <1>6 DEF Meant
  <2> QED
    BY <1>3, <1>4, <2>1, <2>2, Zenon DEF Addressed
<1>7. CASE ops[j] \notin Switch
  <2>1. Encoded(ops, j, k) = b - a
    <3>1. Encoded(ops, j, k) = Distance(ops, j, k)
      BY <1>2, <1>7 DEF Encoded
    <3> QED
      BY <1>5, <3>1
  <2>2. Meant(ops, j, b - a) = a + (b - a)
    BY <1>7, Zenon DEF Meant
  <2> QED
    BY <1>3, <1>4, <2>1, <2>2, Zenon DEF Addressed
<1> QED
  BY <1>6, <1>7

(* The new bytecode is lines, and its addresses lead to the targets. *)
LEMMA EncodeParts ==
  ASSUME AsmInv, phase \in {"layout", "done"}, OutOfReach(link) = {}
  PROVE  /\ Encode(link) \in Seq(Lines) /\ Len(Encode(link)) = Len(edited)
         /\ Ops(Encode(link)) = link
         /\ \A j \in 1 .. Len(edited) :
              /\ DOMAIN Encode(link)[j].addr = 1 .. Len(target[j])
              /\ \A n \in 1 .. Len(target[j]) :
                   Addressed(link, j, Encode(link)[j].addr[n]) = target[j][n]
<1>1. /\ link \in Seq(Op) /\ Len(link) = Len(edited) /\ Len(edited) \in Nat
      /\ DOMAIN link = 1 .. Len(edited)
      /\ \A j \in 1 .. Len(edited) : link[j] \in Op
  BY LinkParts
<1>2. Encode(link) =
        [j \in 1 .. Len(edited) |->
           [op |-> link[j], addr |-> [n \in DOMAIN target[j] |-> Encoded(link, j, target[j][n])]]]
  BY <1>1 DEF Encode
<1>3. ASSUME NEW j \in 1 .. Len(edited)
      PROVE  /\ Encode(link)[j] \in Lines /\ Encode(link)[j].op = link[j]
             /\ DOMAIN Encode(link)[j].addr = 1 .. Len(target[j])
             /\ \A n \in 1 .. Len(target[j]) :
                  Addressed(link, j, Encode(link)[j].addr[n]) = target[j][n]
  <2>1. /\ DOMAIN target[j] = 1 .. Len(target[j]) /\ Len(target[j]) \in Nat
        /\ \A n \in 1 .. Len(target[j]) : target[j][n] \in 1 .. Len(edited)
        /\ link[j] \in Plain => target[j] = <<>>
        /\ link[j] \notin Addressing => target[j] = <<>>
        /\ link[j] \in ShortJump \cup LongJump => Len(target[j]) = 1
    BY TargetParts
  <2> DEFINE a == [n \in 1 .. Len(target[j]) |-> Encoded(link, j, target[j][n])]
  <2>2. Encode(link)[j] = [op |-> link[j], addr |-> a]
    BY <1>2, <2>1
  <2>3. ASSUME NEW n \in 1 .. Len(target[j])
        PROVE  Encoded(link, j, target[j][n]) \in Int
               /\ Addressed(link, j, Encoded(link, j, target[j][n])) = target[j][n]
    <3>1. link[j] \in Addressing
      BY <2>1
    <3>2. link[j] \in ShortJump => InReach(Distance(link, j, target[j][n]))
      BY <1>1, <2>1 DEF OutOfReach
    <3> QED
      BY <1>1, <2>1, <3>1, <3>2, EncodedLeads
  <2>4. a \in Seq(Int) /\ Len(a) = Len(target[j]) /\ DOMAIN a = 1 .. Len(target[j])
    BY <2>1, <2>3
  <2>5. link[j] \in Plain => a = <<>>
    <3>1. link[j] \in Plain => Len(a) = 0
      BY <2>1, <2>4
    <3> HIDE DEF a
    <3> QED
      BY <2>4, <3>1
  <2>6. \A n \in 1 .. Len(target[j]) : Addressed(link, j, a[n]) = target[j][n]
    BY <2>3
  <2> HIDE DEF a
  <2>7. [op |-> link[j], addr |-> a] \in Lines
    BY <1>1, <2>1, <2>4, <2>5 DEF Lines
  <2> QED
    BY <2>2, <2>4, <2>6, <2>7
<1>4. Encode(link) \in Seq(Lines) /\ Len(Encode(link)) = Len(edited) /\ DOMAIN Encode(link) = 1 .. Len(edited)
  <2>1. \A j \in 1 .. Len(edited) : Encode(link)[j] \in Lines
    BY <1>3
  <2>2. DOMAIN Encode(link) = 1 .. Len(edited)
    BY <1>2
  <2>3. Encode(link) \in [1 .. Len(edited) -> Lines]
    BY <1>2, <2>1, <2>2
  <2> HIDE DEF Encode
  <2> QED
    BY <1>1, <2>2, <2>3
<1>5. Ops(Encode(link)) = link
  <2>1. Ops(Encode(link)) = [j \in 1 .. Len(edited) |-> link[j]]
    BY <1>3, <1>4 DEF Ops
  <2>2. link = [j \in 1 .. Len(edited) |-> link[j]]
    BY <1>1
  <2> QED
    BY <2>1, <2>2
<1> QED
  BY <1>3, <1>4, <1>5

(* A jump that is out of reach now is out of reach, if left short, in every
   layout in which all that have grown are long. *)
LEMMA FarInEvery ==
  ASSUME AsmInv, phase \in {"layout", "done"}, NEW W \in SUBSET Able,
         Grown \subseteq W, ShortJumpsReach(Promoted(Ops(edited), W)),
         NEW i \in OutOfReach(link)
  PROVE  i \in W
<1> DEFINE L == Promoted(Ops(edited), W)
           m == Len(edited)
<1>1. /\ link \in Seq(Op) /\ Len(link) = m /\ m \in Nat
      /\ DOMAIN link = 1 .. m /\ edited \in Seq(Lines)
  BY LinkParts DEF AsmInv, TextInv
<1>2. /\ DOMAIN Ops(edited) = 1 .. m
      /\ \A k \in 1 .. m : Ops(edited)[k] = edited[k].op /\ edited[k].op \in Op
  BY <1>1, LinesParts
<1>3. L = [k \in 1 .. m |-> IF k \in W THEN LongOf[edited[k].op] ELSE edited[k].op]
  BY <1>2 DEF Promoted
<1>4. ASSUME NEW k \in 1 .. m
      PROVE  /\ L[k] \in Op /\ Size[link[k]] <= Size[L[k]]
             /\ k \notin W => L[k] = edited[k].op
  <2>1. CASE k \in W
    <3>1. edited[k].op \in DOMAIN LongOf
      BY <1>1, <2>1 DEF Able
    <3>2. L[k] = LongOf[edited[k].op]
      BY <1>3, <2>1
    <3>3. L[k] \in LongJump /\ Size[edited[k].op] <= Size[L[k]]
      BY <3>1, <3>2, AssemblerAssumption
    <3>4. L[k] \in Op
      BY <3>3 DEF Op
    <3>5. Size[L[k]] <= Size[L[k]]
      <4>1. Size[L[k]] \in Nat
        BY <3>4, AssemblerAssumption
      <4> QED
        BY <4>1
    <3>6. Size[link[k]] <= Size[L[k]]
      <4>1. link[k] = edited[k].op \/ link[k] = LongOf[edited[k].op]
        BY LinkParts
      <4> HIDE DEF L
      <4> QED
        BY <3>2, <3>3, <3>5, <4>1
    <3> QED
      BY <2>1, <3>4, <3>6
  <2>2. CASE k \notin W
    <3>1. k \notin Grown
      BY <2>2
    <3>2. link[k] = edited[k].op
      BY <1>1, <3>1 DEF Grown
    <3>3. L[k] = edited[k].op
      BY <1>3, <2>2
    <3>4. Size[L[k]] \in Nat
      BY <1>2, <3>3, AssemblerAssumption
    <3> HIDE DEF L
    <3> QED
      BY <1>2, <3>2, <3>3, <3>4
  <2> QED
    BY <2>1, <2>2
<1>5. L \in Seq(Op) /\ Len(L) = m /\ DOMAIN L = 1 .. m
  BY <1>1, <1>3, <1>4
<1>6. i \in 1 .. m /\ link[i] \in ShortJump
      /\ \E n \in DOMAIN target[i] : ~InReach(Distance(link, i, target[i][n]))
  BY <1>1 DEF OutOfReach
<1>7. PICK n \in DOMAIN target[i] : ~InReach(Distance(link, i, target[i][n]))
  BY <1>6
<1>8. target[i][n] \in 1 .. m
  BY <1>6, <1>7, TargetParts
<1>9. SUFFICES ASSUME i \notin W PROVE FALSE
  OBVIOUS
<1>10. L[i] = link[i]
  BY <1>4, <1>6, <1>9, LinkParts
<1> DEFINE k == target[i][n]
           f == Offsets(link)
           g == Offsets(L)
<1>11. MinRel <= g[k] - g[i] /\ g[k] - g[i] <= MaxRel
  <2>1. Distance(L, i, target[i][n]) \in MinRel .. MaxRel
    BY <1>5, <1>6, <1>7, <1>10 DEF ShortJumpsReach
  <2> QED
    BY <2>1 DEF Distance
<1>12. ~(MinRel <= f[k] - f[i] /\ f[k] - f[i] <= MaxRel)
  BY <1>7 DEF InReach, Distance
<1>13. /\ f[k] \in Int /\ f[i] \in Int /\ g[k] \in Int /\ g[i] \in Int
  <2>1. k \in 1 .. (m + 1) /\ i \in 1 .. (m + 1)
    BY <1>1, <1>6, <1>8
  <2> HIDE DEF k, L
  <2>2. f[k] \in Nat /\ f[i] \in Nat
    BY <1>1, <2>1, OffsetsParts
  <2>3. g[k] \in Nat /\ g[i] \in Nat
    BY <1>5, <2>1, OffsetsParts
  <2> QED
    BY <2>2, <2>3
<1>14. k \in 1 .. m
  BY <1>8
<1> HIDE DEF L, m
<1>15. Len(L) = Len(link) /\ \A h \in 1 .. Len(link) : Size[link[h]] <= Size[L[h]]
  BY <1>1, <1>4, <1>5
<1>16. CASE i <= k
  <2> HIDE DEF k
  <2>1. i \in 1 .. (Len(link) + 1) /\ k \in i .. (Len(link) + 1)
    BY <1>1, <1>6, <1>14, <1>16
  <2>2. f[k] - f[i] <= g[k] - g[i]
    BY <1>1, <1>5, <1>15, <2>1, OffsetsStretch
  <2>3. f[i] <= f[k]
    <3>1. CASE i = k
      BY <1>13, <3>1
    <3>2. CASE i < k
      <4>1. f[i] < f[k]
        BY <1>1, <2>1, <3>2, OffsetsIncrease
      <4> HIDE DEF f
      <4> QED
        BY <1>13, <4>1
    <3> QED
      BY <1>6, <1>14, <1>16, <3>1, <3>2
  <2> HIDE DEF f, g
  <2> QED
    BY <1>11, <1>12, <1>13, <2>2, <2>3, AssemblerAssumption
<1>17. CASE k < i
  <2> HIDE DEF k
  <2>1. k \in 1 .. (Len(link) + 1) /\ i \in k .. (Len(link) + 1)
    BY <1>1, <1>6, <1>14, <1>17
  <2>2. f[i] - f[k] <= g[i] - g[k]
    BY <1>1, <1>5, <1>15, <2>1, OffsetsStretch
  <2>3. f[k] < f[i]
    BY <1>1, <1>17, <2>1, OffsetsIncrease
  <2> HIDE DEF f, g
  <2> QED
    BY <1>11, <1>12, <1>13, <2>2, <2>3, AssemblerAssumption
<1> QED
  BY <1>1, <1>6, <1>14, <1>16, <1>17

(* The pass that gives up. *)
LEMMA GiveUpStep ==
  ASSUME AsmInv, LayoutPass, phase' = "failed"
  PROVE  AsmInv'
<1> USE DEF text
<1>1. /\ phase = "layout" /\ passes' = passes + 1
      /\ UNCHANGED <<current, edited, origin, edits>>
      /\ output' = output
  BY DEF LayoutPass
<1>2. TextInv'
  BY <1>1 DEF AsmInv, TextInv
<1>3. StageInv'
  <2>1. passes <= MaxPasses /\ passes \in 0 .. (MaxPasses + 1) /\ MaxPasses \in Nat
    BY <1>1, AssemblerAssumption DEF AsmInv, StageInv
  <2>2. passes + 1 \in 0 .. (MaxPasses + 1)
    BY <2>1
  <2> QED
    BY <1>1, <2>2 DEF StageInv
<1>4. Closed(current)'
  BY <1>1 DEF AsmInv, ClosedInv
<1> QED
  BY <1>2, <1>3, <1>4
  DEF AsmInv, MatchInv, LinkInv, TargetInv, DoneInv, PassInv, LeastInv, ClosedInv

(* A pass that is made: the targets stay. *)
LEMMA PassKept ==
  ASSUME AsmInv, phase = "layout", phase' \in {"layout", "done"},
         passes < MaxPasses, passes' = passes + 1,
         UNCHANGED <<current, edited, origin, edits, alignment, target>>
  PROVE  StageInv' /\ MatchInv' /\ TargetInv'
<1>1. StageInv'
  <2>1. passes <= MaxPasses /\ passes \in 0 .. (MaxPasses + 1) /\ MaxPasses \in Nat
    BY AssemblerAssumption DEF AsmInv, StageInv
  <2>2. passes + 1 \in 0 .. (MaxPasses + 1) /\ passes + 1 <= MaxPasses
    BY <2>1
  <2> QED
    BY <2>2 DEF StageInv
<1>2. MatchInv'
  BY DEF AsmInv, MatchInv
<1>3. TargetInv'
  <2>1. /\ target \in [1 .. Len(edited) -> Seq(1 .. Len(edited))]
        /\ \A j \in 1 .. Len(edited) : Followed(j)
    BY DEF AsmInv, TargetInv
  <2>2. ASSUME NEW j \in 1 .. Len(edited) PROVE Followed(j)'
    <3>1. /\ Addresses(j)' = Addresses(j) /\ (Resolvable(j)' <=> Resolvable(j))
          /\ \A v : Resolved(j, v)' = Resolved(j, v)
      BY ResolvedFrame
    <3>2. Followed(j)
      BY <2>1
    <3> QED
      BY <3>1, <3>2 DEF Followed
  <2> QED
    BY <2>1, <2>2 DEF TargetInv
<1> QED
  BY <1>1, <1>2, <1>3

(* The pass that promotes. *)
LEMMA PromoteStep ==
  ASSUME AsmInv, LayoutPass, phase' = "layout"
  PROVE  AsmInv'
<1> DEFINE far == OutOfReach(link)
           m   == Len(edited)
<1> USE DEF text
<1>1. /\ phase = "layout" /\ passes < MaxPasses /\ passes' = passes + 1
      /\ \A i \in far : link[i] \in DOMAIN LongOf
      /\ far # {} /\ link' = Promoted(link, far)
      /\ UNCHANGED <<current, edited, origin, edits, alignment, target, output>>
  <2>1. phase = "layout" /\ phase' # "failed" /\ phase' # "done"
    BY DEF LayoutPass
  <2>2. ~(passes >= MaxPasses \/ (\E i \in far : link[i] \notin DOMAIN LongOf))
    BY <2>1 DEF LayoutPass
  <2>3. passes < MaxPasses
    <3>1. passes \in 0 .. (MaxPasses + 1) /\ MaxPasses \in Nat
      BY AssemblerAssumption DEF AsmInv, StageInv
    <3> QED
      BY <2>2, <3>1
  <2>4. far # {} /\ link' = Promoted(link, far) /\ output' = output
    BY <2>1, <2>2 DEF LayoutPass
  <2> QED
    BY <2>1, <2>2, <2>3, <2>4 DEF LayoutPass
<1>2. StageInv' /\ MatchInv' /\ TargetInv'
  BY <1>1, PassKept
<1>3. TextInv' /\ Closed(current)'
  BY <1>1 DEF AsmInv, TextInv, ClosedInv
<1>4. /\ link \in Seq(Op) /\ Len(link) = m /\ m \in Nat
      /\ DOMAIN link = 1 .. m
      /\ \A i \in 1 .. m :
           /\ link[i] \in Op
           /\ link[i] \in ShortJump => link[i] = edited[i].op
           /\ link[i] # edited[i].op => edited[i].op \in DOMAIN LongOf /\ link[i] = LongOf[edited[i].op]
  BY <1>1, LinkParts
<1>5. \A i \in far : i \in 1 .. m /\ link[i] \in ShortJump /\ link[i] = edited[i].op
                     /\ edited[i].op \in DOMAIN LongOf
  BY <1>1, <1>4 DEF OutOfReach
<1>6. link' = [i \in 1 .. m |-> IF i \in far THEN LongOf[link[i]] ELSE link[i]]
  BY <1>1, <1>4 DEF Promoted
<1> HIDE DEF far
<1>7. ASSUME NEW i \in far
      PROVE  /\ link'[i] = LongOf[edited[i].op] /\ link'[i] \in Op /\ link'[i] # edited[i].op
  <2>1. link'[i] = LongOf[edited[i].op]
    BY <1>5, <1>6
  <2>2. LongOf[edited[i].op] \in LongJump /\ edited[i].op \in ShortJump
    BY <1>5, AssemblerAssumption
  <2> QED
    BY <2>1, <2>2, AssemblerAssumption DEF Op
<1>8. \A i \in (1 .. m) \ far : link'[i] = link[i]
  BY <1>6
<1>9. link' \in Seq(Op) /\ Len(link') = m /\ DOMAIN link' = 1 .. m
  <2>1. \A i \in 1 .. m : link'[i] \in Op
    BY <1>4, <1>7, <1>8
  <2> QED
    BY <1>4, <1>6, <2>1
<1>10. LinkInv'
  <2>1. ASSUME NEW i \in 1 .. m
        PROVE  \/ link'[i] = edited[i].op
               \/ edited[i].op \in DOMAIN LongOf /\ link'[i] = LongOf[edited[i].op]
    BY <1>4, <1>5, <1>7, <1>8
  <2> QED
    BY <1>1, <1>9, <2>1 DEF LinkInv
<1>11. Grown' = Grown \cup far /\ Grown \cap far = {}
  <2>1. \A i \in 1 .. m : i \in Grown' <=> link'[i] # edited[i].op
    BY <1>1, <1>9 DEF Grown
  <2>2. \A i \in 1 .. m : i \in Grown <=> link[i] # edited[i].op
    BY <1>4 DEF Grown
  <2>3. Grown \subseteq 1 .. m /\ Grown' \subseteq 1 .. m
    BY <1>4, <1>9 DEF Grown
  <2>4. \A i \in far : i \in Grown' /\ i \notin Grown
    BY <1>5, <1>7, <2>1, <2>2
  <2>5. \A i \in (1 .. m) \ far : i \in Grown' <=> i \in Grown
    BY <1>8, <2>1, <2>2
  <2> HIDE DEF m
  <2> QED
    BY <1>5, <2>3, <2>4, <2>5
<1>12. PassInv'
  <2>1. IsFiniteSet(1 .. m)
    BY <1>4, FS_Interval
  <2>2. IsFiniteSet(Grown')
    <3>1. Grown' \subseteq 1 .. m
      BY <1>9 DEF Grown
    <3> QED
      BY <2>1, <3>1, FS_Subset
  <2>3. PICK i : i \in far
    BY <1>1
  <2>4. IsFiniteSet(Grown) /\ Cardinality(Grown) \in Nat
    BY <1>11, <2>2, FS_Subset, FS_CardinalityType
  <2>5. /\ i \notin Grown /\ Grown \cup {i} \subseteq Grown'
    BY <1>11, <2>3
  <2>6. Cardinality(Grown \cup {i}) = Cardinality(Grown) + 1
    BY <2>4, <2>5, FS_AddElement
  <2>7. Cardinality(Grown \cup {i}) <= Cardinality(Grown') /\ Cardinality(Grown') \in Nat
    BY <2>2, <2>5, FS_Subset, FS_CardinalityType
  <2>8. passes <= Cardinality(Grown) /\ passes \in Int
    <3>1. passes <= Cardinality(Grown) + 0
      BY <1>1 DEF AsmInv, PassInv
    <3>2. passes \in 0 .. (MaxPasses + 1) /\ MaxPasses \in Nat
      BY AssemblerAssumption DEF AsmInv, StageInv
    <3> QED
      BY <2>4, <3>1, <3>2
  <2>9. passes + 1 <= Cardinality(Grown') + 0
    BY <2>4, <2>6, <2>7, <2>8
  <2> QED
    BY <1>1, <2>9 DEF PassInv
<1>13. LeastInv'
  <2>1. Able' = Able
    BY <1>1, <1>4, <1>9 DEF Able
  <2>2. \A W : ShortJumpsReach(Promoted(Ops(edited), W))'
                 <=> ShortJumpsReach(Promoted(Ops(edited), W))
    BY <1>1 DEF ShortJumpsReach
  <2>3. ASSUME NEW W \in SUBSET Able, ShortJumpsReach(Promoted(Ops(edited), W))
        PROVE  Grown' \subseteq W
    <3>1. Grown \subseteq W
      BY <1>1, <2>3 DEF AsmInv, LeastInv
    <3>2. \A i \in far : i \in W
      BY <1>1, <2>3, <3>1, FarInEvery DEF far
    <3> QED
      BY <1>11, <3>1, <3>2
  <2> QED
    BY <1>1, <2>1, <2>2, <2>3 DEF LeastInv
<1> QED
  BY <1>2, <1>3, <1>10, <1>12, <1>13 DEF AsmInv, DoneInv, ClosedInv

(* The addresses that are encoded lead to lines. *)
LEMMA EncodeClosed ==
  ASSUME AsmInv, phase \in {"layout", "done"}, OutOfReach(link) = {}
  PROVE  Closed(Encode(link))
<1> DEFINE code == Encode(link)
<1>1. /\ code \in Seq(Lines) /\ Len(code) = Len(edited) /\ Ops(code) = link
      /\ \A j \in 1 .. Len(edited) :
           /\ DOMAIN code[j].addr = 1 .. Len(target[j])
           /\ \A n \in 1 .. Len(target[j]) : Addressed(link, j, code[j].addr[n]) = target[j][n]
  BY EncodeParts
<1> HIDE DEF code
<1>2. DOMAIN code = 1 .. Len(edited) /\ Len(edited) \in Nat
  BY <1>1
<1>3. ASSUME NEW j \in DOMAIN code, NEW n \in DOMAIN code[j].addr
      PROVE  Addressed(Ops(code), j, code[j].addr[n]) # 0
  <2>1. j \in 1 .. Len(edited) /\ n \in 1 .. Len(target[j])
    BY <1>1, <1>2
  <2>2. target[j][n] \in 1 .. Len(edited)
    BY <2>1, TargetParts
  <2>3. Addressed(Ops(code), j, code[j].addr[n]) = target[j][n]
    BY <1>1, <2>1
  <2>4. 0 \notin 1 .. Len(edited)
    BY <1>2
  <2> QED
    BY <2>2, <2>3, <2>4, Zenon
<1>4. Closed(code)
  BY <1>3, Zenon DEF Closed
<1> QED
  BY <1>4 DEF code

(* The last pass. *)
LEMMA EmitStep ==
  ASSUME AsmInv, LayoutPass, phase' = "done"
  PROVE  AsmInv'
<1> DEFINE far == OutOfReach(link)
<1> USE DEF text
<1>1. /\ phase = "layout" /\ passes < MaxPasses /\ passes' = passes + 1
      /\ far = {} /\ output' = Encode(link)
      /\ UNCHANGED <<current, edited, origin, edits, alignment, target, link>>
  <2>1. phase = "layout" /\ phase' # "failed" /\ phase' # phase
    BY DEF LayoutPass
  <2>2. ~(passes >= MaxPasses \/ (\E i \in far : link[i] \notin DOMAIN LongOf))
    BY <2>1 DEF LayoutPass
  <2>3. passes < MaxPasses
    <3>1. passes \in 0 .. (MaxPasses + 1) /\ MaxPasses \in Nat
      BY AssemblerAssumption DEF AsmInv, StageInv
    <3> QED
      BY <2>2, <3>1
  <2>4. far = {} /\ link' = link /\ output' = Encode(link)
    BY <2>1, <2>2 DEF LayoutPass
  <2> QED
    BY <2>1, <2>2, <2>3, <2>4 DEF LayoutPass
<1>2. StageInv' /\ MatchInv' /\ TargetInv'
  BY <1>1, PassKept
<1>3. Encode(link) \in Seq(Lines) /\ Closed(Encode(link))
  BY <1>1, EncodeParts, EncodeClosed
<1>4. TextInv' /\ ClosedInv'
  <2>1. TextInv'
    BY <1>1, <1>3 DEF AsmInv, TextInv
  <2>2. Closed(current)' /\ Closed(output)'
    <3>1. Closed(current)
      BY DEF AsmInv, ClosedInv
    <3> QED
      BY <1>1, <1>3, <3>1
  <2> QED
    BY <2>1, <2>2 DEF ClosedInv
<1>5. LinkInv'
  BY <1>1 DEF AsmInv, LinkInv
<1>6. Grown' = Grown /\ Able' = Able
  BY <1>1 DEF Grown, Able
<1>7. PassInv'
  <2>1. passes <= Cardinality(Grown) + 0
    BY <1>1 DEF AsmInv, PassInv
  <2>2. passes \in Int
    <3>1. passes \in 0 .. (MaxPasses + 1) /\ MaxPasses \in Nat
      BY AssemblerAssumption DEF AsmInv, StageInv
    <3> QED
      BY <3>1
  <2>3. Cardinality(Grown) \in Nat
    <3>1. DOMAIN link = 1 .. Len(edited) /\ Len(edited) \in Nat
      BY <1>1, LinkParts
    <3>2. IsFiniteSet(1 .. Len(edited))
      BY <3>1, FS_Interval
    <3>3. Grown \subseteq 1 .. Len(edited)
      BY <3>1 DEF Grown
    <3> QED
      BY <3>2, <3>3, FS_Subset, FS_CardinalityType
  <2>4. passes + 1 <= Cardinality(Grown) + 1
    BY <2>1, <2>2, <2>3
  <2> QED
    BY <1>1, <1>6, <2>4 DEF PassInv
<1>8. LeastInv'
  <2>1. \A W : ShortJumpsReach(Promoted(Ops(edited), W))'
                 <=> ShortJumpsReach(Promoted(Ops(edited), W))
    BY <1>1 DEF ShortJumpsReach
  <2>2. \A W \in SUBSET Able : ShortJumpsReach(Promoted(Ops(edited), W)) => Grown \subseteq W
    BY <1>1 DEF AsmInv, LeastInv
  <2> QED
    BY <1>1, <1>6, <2>1, <2>2 DEF LeastInv
<1>9. DoneInv'
  <2>1. Encode(link)' = Encode(link) /\ OutOfReach(link)' = OutOfReach(link)
    BY <1>1 DEF Encode, Encoded, OutOfReach
  <2> QED
    BY <1>1, <2>1 DEF DoneInv
<1> QED
  BY <1>2, <1>4, <1>5, <1>7, <1>8, <1>9 DEF AsmInv

(* A pass. *)
LEMMA PassStep == ASSUME AsmInv, LayoutPass PROVE AsmInv'
<1>1. phase' \in {"failed", "layout", "done"}
  BY DEF LayoutPass
<1> QED
  BY <1>1, GiveUpStep, PromoteStep, EmitStep

(* Disassembling again. *)
LEMMA DisassembleStep == ASSUME AsmInv, Disassemble PROVE AsmInv'
<1> DEFINE lines == IF phase = "done" THEN output ELSE current
<1>1. /\ current' = lines /\ edited' = lines /\ phase' = "editing" /\ output' = <<>>
      /\ origin' = [i \in DOMAIN lines |-> i] /\ passes' = 0 /\ edits' = edits
  BY DEF Disassemble
<1>2. lines \in Seq(Lines) /\ Closed(lines)
  BY DEF AsmInv, TextInv, ClosedInv
<1> HIDE DEF lines
<1>3. origin' \in Seq(Nat) /\ Len(origin') = Len(edited')
  <2>1. DOMAIN lines = 1 .. Len(lines) /\ Len(lines) \in Nat
    BY <1>2
  <2>2. \A i \in 1 .. Len(lines) : i \in Nat
    OBVIOUS
  <2> QED
    BY <1>1, <2>1, <2>2
<1>4. TextInv'
  BY <1>1, <1>2, <1>3, NoLines DEF AsmInv, TextInv
<1>5. StageInv'
  <2>1. 0 \in 0 .. (MaxPasses + 1)
    BY AssemblerAssumption
  <2> QED
    BY <1>1, <2>1 DEF StageInv
<1>6. Closed(current)'
  BY <1>1, <1>2
<1> QED
  BY <1>1, <1>4, <1>5, <1>6
  DEF AsmInv, MatchInv, LinkInv, TargetInv, DoneInv, PassInv, LeastInv, ClosedInv

(* Nothing happens. *)
LEMMA StutterStep == ASSUME AsmInv, UNCHANGED vars PROVE AsmInv'
<1> USE DEF vars
<1>1. TextInv' /\ StageInv' /\ MatchInv' /\ LinkInv'
  BY DEF AsmInv, TextInv, StageInv, MatchInv, LinkInv
<1>2. TargetInv'
  <2>1. ASSUME NEW j, Followed(j) PROVE Followed(j)'
    <3>1. /\ Addresses(j)' = Addresses(j) /\ (Resolvable(j)' <=> Resolvable(j))
          /\ \A v : Resolved(j, v)' = Resolved(j, v)
      BY ResolvedFrame
    <3> QED
      BY <2>1, <3>1 DEF Followed
  <2> QED
    BY <2>1 DEF AsmInv, TargetInv
<1>3. DoneInv'
  <2>1. Encode(link)' = Encode(link) /\ OutOfReach(link)' = OutOfReach(link)
    BY DEF Encode, Encoded, OutOfReach
  <2> QED
    BY <2>1 DEF AsmInv, DoneInv
<1>4. Grown' = Grown /\ Able' = Able
  BY DEF Grown, Able
<1>5. PassInv'
  BY <1>4 DEF AsmInv, PassInv
<1>6. LeastInv'
  <2>1. \A W : ShortJumpsReach(Promoted(Ops(edited), W))'
                 <=> ShortJumpsReach(Promoted(Ops(edited), W))
    BY DEF ShortJumpsReach
  <2> QED
    BY <1>4, <2>1 DEF AsmInv, LeastInv
<1>7. ClosedInv'
  <2>1. (Closed(current)' <=> Closed(current)) /\ (Closed(output)' <=> Closed(output))
    OBVIOUS
  <2> QED
    BY <2>1 DEF AsmInv, ClosedInv
<1> QED
  BY <1>1, <1>2, <1>3, <1>5, <1>6, <1>7 DEF AsmInv

(* Every step keeps the invariant. *)
LEMMA NextAsm == ASSUME AsmInv, [Next]_vars PROVE AsmInv'
<1>1. ASSUME NEW k \in DOMAIN edited, DeleteLine(k) PROVE AsmInv'
  BY <1>1, DeleteStep
<1>2. ASSUME NEW k \in 1 .. (Len(edited) + 1), NEW x \in NewLines, InsertLine(k, x) PROVE AsmInv'
  BY <1>2, InsertStep
<1>3. ASSUME NEW k \in DOMAIN edited, NEW v \in NewAddresses, Readdress(k, v) PROVE AsmInv'
  BY <1>3, ReaddressStep
<1>4. ASSUME NEW k \in DOMAIN edited, OmitCases(k) PROVE AsmInv'
  BY <1>4, OmitStep
<1> QED
  BY <1>1, <1>2, <1>3, <1>4, AlignStep, ResolveStep, PassStep, DisassembleStep, StutterStep DEF Next

(* The invariant is inductive. *)
THEOREM AsmInvariant == Spec => []AsmInv
<1>1. Init => AsmInv
  BY InitAsm
<1>2. AsmInv /\ [Next]_vars => AsmInv'
  BY NextAsm
<1> QED
  BY <1>1, <1>2, PTL DEF Spec

-----------------------------------------------------------------------------
(* The properties. *)

(* Type correctness: the layout loop only ever measures the distance to a
   line of the edited text. *)
THEOREM AssemblerTypes == Spec => []TypeOK
<1>1. AsmInv => TypeOK
  <2> SUFFICES ASSUME AsmInv PROVE TypeOK
    OBVIOUS
  <2>1. \A lines \in {current, edited, output} : Ops(lines) \in Seq(Op)
    BY LinesParts DEF AsmInv, TextInv
  <2>2. DOMAIN origin = DOMAIN edited
    BY DEF AsmInv, TextInv
  <2>3. ASSUME phase \in {"layout", "done"}
        PROVE  /\ Ops(edited) \in [DOMAIN link -> Op]
               /\ target \in [DOMAIN edited -> Seq(DOMAIN edited)]
    <3>1. DOMAIN link = 1 .. Len(edited) /\ DOMAIN edited = 1 .. Len(edited)
      BY <2>3, LinkParts
    <3>2. Ops(edited) \in [1 .. Len(edited) -> Op]
      <4>1. Ops(edited) \in Seq(Op) /\ Len(Ops(edited)) = Len(edited)
        BY LinesParts DEF AsmInv, TextInv
      <4> QED
        BY <4>1
    <3>3. target \in [1 .. Len(edited) -> Seq(1 .. Len(edited))]
      BY <2>3 DEF AsmInv, TargetInv
    <3> QED
      BY <3>1, <3>2, <3>3
  <2> QED
    BY <2>1, <2>2, <2>3 DEF TypeOK, AsmInv, TextInv, StageInv
<1> QED
  BY <1>1, AsmInvariant, PTL

(* The alignment matches equal lines in order, and no alignment matches more
   of them, when the table of alignInstructions is not too large. *)
THEOREM AlignmentIsLongest == Spec => []AlignmentLongest
<1>1. AsmInv => AlignmentLongest
  <2> SUFFICES ASSUME AsmInv, phase = "resolving" PROVE
        /\ \A j \in Matched : current[alignment[j]].op = edited[j].op
        /\ \A i, j \in Matched : i < j => alignment[i] < alignment[j]
        /\ (Len(current) + 1) * (Len(edited) + 1) <= MaxCells =>
             \A S \in SUBSET DOMAIN current, T \in SUBSET DOMAIN edited :
               Cardinality(S) = Cardinality(T) /\ Cardinality(S) > Cardinality(Matched)
                 => ~Common(Ops(current), Ops(edited), S, T)
    BY DEF AlignmentLongest
  <2>1. /\ alignment \in [1 .. Len(edited) -> 0 .. Len(current)]
        /\ \A j \in 1 .. Len(edited) : alignment[j] # 0 =>
             alignment[j] \in 1 .. Len(current) /\ current[alignment[j]].op = edited[j].op
        /\ \A i, j \in 1 .. Len(edited) :
             alignment[i] # 0 /\ alignment[j] # 0 => (i < j <=> alignment[i] < alignment[j])
    BY AlignedLines
  <2>2. Matched = {j \in 1 .. Len(edited) : alignment[j] # 0}
    BY <2>1 DEF Matched
  <2>3. \A j \in Matched : current[alignment[j]].op = edited[j].op
    BY <2>1, <2>2
  <2>4. \A i, j \in Matched : i < j => alignment[i] < alignment[j]
    BY <2>1, <2>2
  <2>5. ASSUME (Len(current) + 1) * (Len(edited) + 1) <= MaxCells,
               NEW S \in SUBSET DOMAIN current, NEW T \in SUBSET DOMAIN edited,
               Cardinality(S) = Cardinality(T), Cardinality(S) > Cardinality(Matched),
               Common(Ops(current), Ops(edited), S, T)
        PROVE  FALSE
    <3> DEFINE s == Ops(current)
               t == Ops(edited)
               c == Cardinality(S)
               d == Cardinality(Matched)
    <3>1. /\ current \in Seq(Lines) /\ edited \in Seq(Lines)
          /\ alignment = AlignInstructions(s, t)
      BY DEF AsmInv, TextInv, MatchInv
    <3>2. /\ s \in Seq(Op) /\ Len(s) = Len(current) /\ DOMAIN current = 1 .. Len(current)
          /\ Len(current) \in Nat
      BY <3>1, LinesParts
    <3>3. /\ t \in Seq(Op) /\ Len(t) = Len(edited) /\ DOMAIN edited = 1 .. Len(edited)
          /\ Len(edited) \in Nat
      BY <3>1, LinesParts
    <3>4. Fits(s, t)
      BY <2>5, <3>2, <3>3 DEF Fits
    <3>5. S \in SUBSET (1 .. Len(s)) /\ T \in SUBSET (1 .. Len(t)) /\ Common(s, t, S, T)
      BY <2>5, <3>2, <3>3
    <3>6. Cardinality(S) <= Cardinality(Matched)
      <4> HIDE DEF s, t
      <4>1. Cardinality(S)
              <= Cardinality({j \in DOMAIN AlignInstructions(s, t) : AlignInstructions(s, t)[j] # 0})
        BY <2>5, <3>2, <3>3, <3>4, <3>5, AlignmentBest
      <4>2. Matched = {j \in DOMAIN AlignInstructions(s, t) : AlignInstructions(s, t)[j] # 0}
        BY <3>1 DEF Matched
      <4> QED
        BY <4>1, <4>2
    <3>7. c \in Nat /\ d \in Nat
      <4>1. IsFiniteSet(1 .. Len(current)) /\ IsFiniteSet(1 .. Len(edited))
        BY <3>2, <3>3, FS_Interval
      <4>2. S \subseteq 1 .. Len(current) /\ Matched \subseteq 1 .. Len(edited)
        BY <2>2, <3>2
      <4> QED
        BY <4>1, <4>2, FS_Subset, FS_CardinalityType
    <3>8. c <= d /\ c > d
      BY <2>5, <3>6
    <3> HIDE DEF c, d
    <3> QED
      BY <3>7, <3>8
  <2> QED
    BY <2>3, <2>4, <2>5
<1> QED
  BY <1>1, AsmInvariant, PTL

(* When no line occurs twice, every address of the new bytecode leads to the
   line that it meant in the old one. *)
THEOREM EditsAreFollowed == Spec => []EditsFollowed
<1>1. AsmInv => EditsFollowed
  <2> SUFFICES ASSUME AsmInv, phase = "done", Unambiguous,
                      NEW j \in DOMAIN edited, NEW i \in DOMAIN current,
                      edited[j].op \in Addressing, current[i].op = edited[j].op,
                      NEW n \in DOMAIN Addresses(j)
               PROVE  LET meant == Addressed(Ops(current), i, Addresses(j)[n])
                          lands == Addressed(Ops(output), j, output[j].addr[n])
                      IN  /\ meant # 0 /\ lands # 0
                          /\ edited[lands].op = current[meant].op
    BY DEF EditsFollowed
  <2> DEFINE m     == Len(edited)
             meant == Addressed(Ops(current), i, Addresses(j)[n])
             lands == Addressed(Ops(output), j, output[j].addr[n])
  <2>1. /\ current \in Seq(Lines) /\ edited \in Seq(Lines)
        /\ output = Encode(link) /\ OutOfReach(link) = {}
    BY DEF AsmInv, TextInv, DoneInv
  <2>2. /\ DOMAIN current = 1 .. Len(current) /\ DOMAIN Ops(current) = 1 .. Len(current)
        /\ \A k \in 1 .. Len(current) : Ops(current)[k] = current[k].op
        /\ Ops(current) \in Seq(Op) /\ Len(Ops(current)) = Len(current)
    BY <2>1, LinesParts
  <2>3. m \in Nat /\ DOMAIN edited = 1 .. m /\ j \in 1 .. m
    BY <2>1, LinesParts
  <2>4. Followed(j)
    BY <2>3 DEF AsmInv, TargetInv
  <2>5. /\ Resolvable(j) /\ Len(target[j]) = Len(Addresses(j))
        /\ \A l \in 1 .. Len(Addresses(j)) : target[j][l] \in Resolved(j, Addresses(j)[l])
    BY <2>4 DEF Followed
  <2>6. n \in 1 .. Len(Addresses(j)) /\ n \in 1 .. Len(target[j])
    <3>1. Addresses(j) \in Seq(Int)
      BY <2>3, <2>5, AddressesType
    <3> QED
      BY <2>5, <3>1
  <2>7. alignment[j] = i
    <3>1. alignment[j] # 0
      BY <2>5 DEF Resolvable
    <3>2. alignment[j] \in 1 .. Len(current) /\ current[alignment[j]].op = edited[j].op
      BY <2>3, <3>1, AlignedLines
    <3>3. Ops(current)[alignment[j]] = Ops(current)[i]
      BY <2>2, <3>2
    <3> QED
      BY <2>2, <3>2, <3>3 DEF Unambiguous, IsInjective
  <2> DEFINE k == target[j][n]
  <2>8. k \in 1 .. m /\ meant # 0 /\ alignment[k] = meant
    BY <2>3, <2>5, <2>6, <2>7 DEF Resolved
  <2>9. lands = k
    <3>1. Ops(output) = link /\ Addressed(link, j, output[j].addr[n]) = target[j][n]
      BY <2>1, <2>3, <2>6, EncodeParts
    <3> QED
      BY <3>1
  <2>10. lands # 0
    BY <2>3, <2>8, <2>9
  <2>11. current[alignment[k]].op = edited[k].op
    BY <2>8, AlignedLines
  <2> QED
    BY <2>8, <2>9, <2>10, <2>11
<1> QED
  BY <1>1, AsmInvariant, PTL

(* No jump left short is out of reach, and no jump is promoted that could be
   left short in some layout. *)
THEOREM PromotionIsLeast == Spec => []LeastPromotion
<1>1. AsmInv => LeastPromotion
  <2> SUFFICES ASSUME AsmInv, phase = "done"
               PROVE  /\ ShortJumpsReach(link)
                      /\ \A W \in SUBSET Able :
                           ShortJumpsReach(Promoted(Ops(edited), W)) => Grown \subseteq W
    BY DEF LeastPromotion, Grown, Able
  <2>1. ShortJumpsReach(link)
    <3> SUFFICES ASSUME NEW i \in DOMAIN link, link[i] \in ShortJump, NEW n \in DOMAIN target[i]
                 PROVE  Distance(link, i, target[i][n]) \in MinRel .. MaxRel
      BY DEF ShortJumpsReach
    <3>1. OutOfReach(link) = {}
      BY DEF AsmInv, DoneInv
    <3>2. InReach(Distance(link, i, target[i][n]))
      BY <3>1 DEF OutOfReach
    <3>3. Distance(link, i, target[i][n]) \in Int
      <4>1. link \in Seq(Op) /\ Len(link) = Len(edited) /\ i \in 1 .. Len(edited) /\ Len(edited) \in Nat
        BY LinkParts
      <4>2. target[i][n] \in 1 .. Len(edited)
        BY <4>1, TargetParts
      <4> DEFINE k == target[i][n]
      <4>3. i \in 1 .. (Len(link) + 1) /\ k \in 1 .. (Len(link) + 1)
        BY <4>1, <4>2
      <4> HIDE DEF k
      <4>4. Offsets(link)[i] \in Nat /\ Offsets(link)[k] \in Nat
        BY <4>1, <4>3, OffsetsParts
      <4> QED
        BY <4>4 DEF Distance, k
    <3> QED
      BY <3>2, <3>3, AssemblerAssumption DEF InReach
  <2>2. \A W \in SUBSET Able : ShortJumpsReach(Promoted(Ops(edited), W)) => Grown \subseteq W
    BY DEF AsmInv, LeastInv
  <2> QED
    BY <2>1, <2>2
<1> QED
  BY <1>1, AsmInvariant, PTL

(* Every pass but the last promotes a jump. *)
THEOREM EveryPassPaysOff == Spec => []PassesPayOff
<1>1. AsmInv => PassesPayOff
  BY DEF AsmInv, PassInv, PassesPayOff, Grown
<1> QED
  BY <1>1, AsmInvariant, PTL

-----------------------------------------------------------------------------
(* The printed function. *)

(* Where the lines of a function begin. *)
LEMMA LinesAt ==
  ASSUME NEW code \in Seq(Lines)
  PROVE  /\ Len(code) \in Nat /\ DOMAIN code = 1 .. Len(code)
         /\ End(code) \in Nat /\ \A i \in 1 .. Len(code) : At(code, i) \in Nat /\ At(code, i) < End(code)
         /\ \A i, k \in 1 .. Len(code) : At(code, i) = At(code, k) => i = k
         /\ 1 \in 1 .. Len(code) => At(code, 1) = 0
         /\ Len(code) = 0 => End(code) = 0
<1> DEFINE ops == Ops(code)
           n   == Len(code)
<1>1. ops \in Seq(Op) /\ Len(ops) = n /\ n \in Nat /\ DOMAIN code = 1 .. n
  BY LinesParts
<1>2. End(code) = Offsets(ops)[n + 1] /\ \A i : At(code, i) = Offsets(ops)[i]
  BY DEF End, At
<1> HIDE DEF ops, n
<1>3. Offsets(ops)[1] = 0 /\ \A i \in 1 .. (n + 1) : Offsets(ops)[i] \in Nat
  BY <1>1, OffsetsParts
<1>4. n + 1 \in 1 .. (n + 1) /\ \A i \in 1 .. n : i \in 1 .. (n + 1) /\ i < n + 1
  BY <1>1
<1>5. \A i, k \in 1 .. (n + 1) : i < k => Offsets(ops)[i] < Offsets(ops)[k]
  BY <1>1, OffsetsIncrease
<1>6. ASSUME NEW i \in 1 .. n, NEW k \in 1 .. n, At(code, i) = At(code, k) PROVE i = k
  <2>1. ~(i < k) /\ ~(k < i)
    <3>1. Offsets(ops)[i] = Offsets(ops)[k] /\ Offsets(ops)[i] \in Nat
      BY <1>2, <1>3, <1>4, <1>6
    <3>2. ~(Offsets(ops)[i] < Offsets(ops)[k]) /\ ~(Offsets(ops)[k] < Offsets(ops)[i])
      BY <3>1
    <3> QED
      BY <1>4, <1>5, <3>2
  <2> QED
    BY <1>1, <2>1
<1>7. \A i \in 1 .. n : At(code, i) \in Nat /\ At(code, i) < End(code)
  BY <1>2, <1>3, <1>4, <1>5
<1>8. End(code) \in Nat
  BY <1>2, <1>3, <1>4
<1>9. n = 0 => End(code) = 0
  BY <1>2, <1>3
<1> QED
  BY <1>1, <1>2, <1>3, <1>6, <1>7, <1>8, <1>9 DEF n

(* The statement at a line that is printed is that of the line. *)
LEMMA StatementHere ==
  ASSUME NEW code \in Seq(Lines), NEW k \in Printed(code)
  PROVE  Statement(code, k) = k
<1> DEFINE below == {i \in Printed(code) : i >= k}
<1>1. Printed(code) \subseteq 1 .. Len(code) /\ Len(code) \in Nat
  BY LinesAt DEF Printed
<1>2. k \in below /\ k # Left
  BY <1>1 DEF Left
<1>3. \A i \in below : k <= i
  BY <1>1
<1>4. Statement(code, k) = CHOOSE i \in below : \A l \in below : i <= l
  BY <1>2 DEF Statement
<1>5. \A i \in below : (\A l \in below : i <= l) => i = k
  <2> SUFFICES ASSUME NEW i \in below, \A l \in below : i <= l PROVE i = k
    OBVIOUS
  <2>1. i <= k /\ k <= i /\ i \in Int /\ k \in Int
    BY <1>1, <1>2, <1>3
  <2> QED
    BY <2>1
<1> HIDE DEF below
<1> QED
  BY <1>2, <1>3, <1>4, <1>5, Zenon

(* A continue with the address of a line where a block begins leads there. *)
LEMMA DispatchTo ==
  ASSUME NEW code \in Seq(Lines), Expressible(code), Dispatched(code),
         NEW k \in 1 .. Len(code), At(code, k) \in Boundaries(code)
  PROVE  k \in Printed(code) /\ Dispatch(code, At(code, k)) = k
<1> DEFINE a     == At(code, k)
           there == {i \in Labelled(code) : At(code, i) = a}
<1>1. /\ Len(code) \in Nat /\ DOMAIN code = 1 .. Len(code) /\ a < End(code)
      /\ \A i \in 1 .. Len(code) : At(code, i) = At(code, k) => i = k
  BY LinesAt
<1>2. a \in BlockStarts(code)
  <2>1. End(code) \in Boundaries(code)
    BY DEF Boundaries
  <2> QED
    BY <1>1, <2>1 DEF BlockStarts
<1>3. k \in Printed(code)
  BY <1>1, <1>2 DEF Expressible
<1>4. k \in there
  BY <1>2, <1>3 DEF Labelled
<1>5. \A i \in there : i = k
  BY <1>1 DEF Labelled, Printed
<1>6. Dispatch(code, a) = CHOOSE i \in there : TRUE
  BY <1>4 DEF Dispatch
<1> HIDE DEF there
<1>7. Dispatch(code, a) = k
  BY <1>4, <1>5, <1>6, Zenon
<1> QED
  BY <1>3, <1>7

(* The printed function follows the bytecode. *)
LEMMA PrintedFollows ==
  ASSUME NEW code \in Seq(Lines), Closed(code), Expressible(code)
  PROVE  /\ Dispatched(code) => Dispatch(code, 0) = Statement(code, 1)
         /\ \A i \in Printed(code), holds \in BOOLEAN :
              PrintedNext(code, i, ~holds) = Statement(code, CodeNext(code, i, holds))
<1>1. /\ Len(code) \in Nat /\ DOMAIN code = 1 .. Len(code)
      /\ 1 \in 1 .. Len(code) => At(code, 1) = 0
      /\ Len(code) = 0 => End(code) = 0
  BY LinesAt
<1>2. ASSUME Dispatched(code) PROVE Dispatch(code, 0) = Statement(code, 1)
  <2>1. CASE Len(code) = 0
    <3>1. DOMAIN code = {} /\ End(code) = 0
      BY <1>1, <2>1
    <3>2. Boundaries(code) = {0}
      BY <3>1 DEF Boundaries, JumpTargets
    <3>3. BlockStarts(code) = {}
      <4>1. ~(0 < 0)
        OBVIOUS
      <4> QED
        BY <3>2, <4>1 DEF BlockStarts
    <3>4. Cardinality(BlockStarts(code)) = 0
      BY <3>3, FS_EmptySet
    <3> QED
      BY <1>2, <3>4 DEF Dispatched
  <2>2. CASE Len(code) # 0
    <3>1. 1 \in 1 .. Len(code) /\ At(code, 1) = 0
      BY <1>1, <2>2
    <3>2. At(code, 1) \in Boundaries(code)
      BY <3>1 DEF Boundaries
    <3>3. 1 \in Printed(code) /\ Dispatch(code, At(code, 1)) = 1
      BY <1>2, <3>1, <3>2, DispatchTo
    <3> QED
      BY <3>1, <3>3, StatementHere
  <2> QED
    BY <2>1, <2>2
<1>3. ASSUME NEW i \in Printed(code), NEW holds \in BOOLEAN
      PROVE  PrintedNext(code, i, ~holds) = Statement(code, CodeNext(code, i, holds))
  <2> DEFINE o     == code[i].op
             taken == o \in Jump /\ (o \in Conditional => holds)
  <2>1. i \in 1 .. Len(code)
    BY <1>1 DEF Printed
  <2>2. Tested(~holds) <=> holds
    BY DEF Tested
  <2>3. /\ o \in Leaves => o \notin Jump
        /\ o \in Jump => o \notin Switch /\ o \notin Plain
    BY AssemblerAssumption, DecompilerAssumption DEF Jump
  <2>4. CASE o \in Leaves
    <3>1. PrintedNext(code, i, ~holds) = Left /\ CodeNext(code, i, holds) = Left
      BY <2>3, <2>4 DEF PrintedNext, CodeNext
    <3>2. Statement(code, Left) = Left
      BY DEF Statement
    <3> QED
      BY <3>1, <3>2
  <2>5. CASE o \notin Leaves /\ taken
    <3> DEFINE a == Meant(Ops(code), i, code[i].addr[1])
               k == IndexAt(Ops(code), a)
    <3>1. PrintedNext(code, i, ~holds) = Dispatch(code, a)
      BY <2>2, <2>3, <2>5 DEF PrintedNext
    <3>2. CodeNext(code, i, holds) = k
      BY <2>3, <2>5 DEF CodeNext, Target, Addressed
    <3>3. 1 \in DOMAIN code[i].addr
      <4>1. code[i].addr \in Seq(Int) /\ Len(code[i].addr) = 1
        BY <2>1, <2>5, LinesParts DEF Jump
      <4> QED
        BY <4>1
    <3>4. k # 0
      BY <1>1, <2>1, <3>3 DEF Closed, Addressed
    <3>5. k \in 1 .. Len(code) /\ At(code, k) = a
      <4>1. Ops(code) \in Seq(Op) /\ Len(Ops(code)) = Len(code)
        BY LinesParts
      <4>2. k \in 0 .. Len(code) /\ (k # 0 => Offsets(Ops(code))[k] = a)
        BY <4>1, IndexAtParts
      <4> HIDE DEF a, k
      <4> QED
        BY <1>1, <3>4, <4>2 DEF At
    <3>6. a \in JumpTargets(code)
      BY <1>1, <2>1, <3>3 DEF JumpTargets
    <3>7. a \in Boundaries(code) /\ Dispatched(code)
      BY <3>6 DEF Boundaries, Expressible
    <3> HIDE DEF a, k
    <3>8. k \in Printed(code) /\ Dispatch(code, At(code, k)) = k
      BY <3>5, <3>7, DispatchTo
    <3>9. Statement(code, k) = k
      BY <3>8, StatementHere
    <3> QED
      BY <3>1, <3>2, <3>5, <3>8, <3>9
  <2>6. CASE o \notin Leaves /\ ~taken
    <3>1. PrintedNext(code, i, ~holds) = Statement(code, Following(code, i))
      BY <2>2, <2>6 DEF PrintedNext
    <3>2. CodeNext(code, i, holds) = Following(code, i)
      BY <2>6 DEF CodeNext
    <3> QED
      BY <3>1, <3>2
  <2> QED
    BY <2>4, <2>5, <2>6
<1> QED
  BY <1>2, <1>3

(* A function, before and after a patch, is printed as a program that goes
   from statement to statement as the bytecode does. *)
THEOREM PathsAreKept == Spec => []PathsKept
<1>1. AsmInv => PathsKept
  <2> SUFFICES ASSUME AsmInv, NEW code \in AtHand, Expressible(code)
               PROVE  /\ Dispatched(code) => Dispatch(code, 0) = Statement(code, 1)
                      /\ \A i \in Printed(code), holds \in BOOLEAN :
                           PrintedNext(code, i, ~holds) = Statement(code, CodeNext(code, i, holds))
    BY DEF PathsKept
  <2>1. code \in Seq(Lines) /\ Closed(code)
    BY DEF AsmInv, TextInv, ClosedInv, AtHand
  <2> QED
    BY <2>1, PrintedFollows
<1> QED
  BY <1>1, AsmInvariant, PTL
=============================================================================
