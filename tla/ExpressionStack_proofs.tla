----------------------- MODULE ExpressionStack_proofs -----------------------
(* Proofs about ExpressionStack: what the printed method says is what the     *)
(* bytecode does, for every number of locals, values and instructions.        *)
(*                                                                            *)
(* The proof climbs in five invariants, each using the ones before it:        *)
(*   TypeInv     every variable has its type;                                 *)
(*   StackInv    words are whole values, and while nothing has gone wrong the *)
(*               expressions are those of the words, one for each value;      *)
(*   ExprsOK     an expression on the stack sets no local;                    *)
(*   EffectsOK   what was done stands once in the text, if nothing was copied *)
(*               or dropped;                                                  *)
(*   CompOK      the text has the effects of the run in its order, sets the   *)
(*               locals alike, and every event in it has the operands it had. *)
EXTENDS ExpressionStack, SequenceTheorems, FiniteSetTheorems, WellFoundedInduction, TLAPS

-----------------------------------------------------------------------------
(* Induction over sequences, as a statement about sets of them. *)

(* A non-empty set of naturals has a least element. *)
LEMMA LeastElement ==
  ASSUME NEW S, S \subseteq Nat, S # {}
  PROVE  \E e \in S : \A x \in S : e <= x
<1>1. \E e \in S : \A x \in S : ~ (<<x, e>> \in OpToRel(<, Nat))
  BY NatLessThanWellFounded, WFMin
<1>2. PICK e \in S : \A x \in S : ~ (<<x, e>> \in OpToRel(<, Nat))
  BY <1>1
<1>3. ASSUME NEW x \in S, x < e
      PROVE  <<x, e>> \in OpToRel(<, Nat)
  <2>1. <<x, e>> \in Nat \X Nat /\ <<x, e>>[1] = x /\ <<x, e>>[2] = e
    OBVIOUS
  <2> QED
    BY <1>3, <2>1, Zenon DEF OpToRel
<1>4. \A x \in S : ~ (x < e)
  BY <1>2, <1>3, Zenon
<1> QED
  BY <1>4

(* A set of sequences that has the empty one, and with one all that are
   longer by an element, has all of them. *)
LEMMA EverySequence ==
  ASSUME NEW E, NEW T, <<>> \in T,
         \A s \in Seq(E), e \in E : s \in T => Append(s, e) \in T
  PROVE  Seq(E) \subseteq T
<1> DEFINE Out == {n \in Nat : \E s \in Seq(E) : Len(s) = n /\ s \notin T}
<1>1. SUFFICES ASSUME Out # {} PROVE FALSE
  <2>1. ASSUME NEW s \in Seq(E), s \notin T PROVE Len(s) \in Out
    BY <2>1
  <2> QED
    BY <1>1, <2>1
<1>2. PICK n \in Out : \A m \in Out : n <= m
  <2>1. Out \subseteq Nat
    OBVIOUS
  <2> HIDE DEF Out
  <2> QED
    BY <1>1, <2>1, LeastElement
<1>3. PICK s \in Seq(E) : Len(s) = n /\ s \notin T
  OBVIOUS
<1>4. s # <<>>
  BY <1>3
<1>5. PICK r \in Seq(E), e \in E : s = Append(r, e)
  BY <1>4, SequenceEmptyOrAppend
<1>6. Len(r) \in Nat /\ n = Len(r) + 1
  BY <1>3, <1>5
<1>7. r \in T
  <2>1. Len(r) \notin Out
    BY <1>2, <1>6
  <2> QED
    BY <1>6, <2>1
<1> QED
  BY <1>3, <1>5, <1>7

-----------------------------------------------------------------------------
(* FlattenSeq. *)

(* f concatenates the first n sequences of ss, each time one more. *)
Concatenates(f, ss, n) ==
  f = [i \in 1 .. n |-> IF i = 1 THEN ss[i] ELSE f[i - 1] \o ss[i]]

(* There is such a function for every n. *)
LEMMA ConcatenationExists ==
  ASSUME NEW E, NEW ss \in Seq(E)
  PROVE  \E f : Concatenates(f, ss, Len(ss))
<1> DEFINE T == {s \in Seq(E) : \E f : Concatenates(f, s, Len(s))}
<1>1. <<>> \in T
  <2> DEFINE f == [i \in 1 .. 0 |-> <<>>]
  <2>1. Concatenates(f, <<>>, 0)
    BY DEF Concatenates
  <2> QED
    BY <2>1
<1>2. ASSUME NEW s \in Seq(E), NEW e \in E, s \in T
      PROVE  Append(s, e) \in T
  <2> DEFINE n == Len(s)
             t == Append(s, e)
  <2>1. PICK f : Concatenates(f, s, n)
    BY <1>2
  <2> DEFINE g == [i \in 1 .. (n + 1) |->
                     IF i = n + 1 THEN (IF n = 0 THEN e ELSE f[n] \o e) ELSE f[i]]
  <2>2. /\ n \in Nat /\ t \in Seq(E) /\ Len(t) = n + 1
        /\ t[n + 1] = e /\ \A i \in 1 .. n : t[i] = s[i]
    OBVIOUS
  <2> HIDE DEF t, n
  <2>3. ASSUME NEW i \in 1 .. (n + 1)
        PROVE  g[i] = IF i = 1 THEN t[i] ELSE g[i - 1] \o t[i]
    <3>1. CASE i = n + 1 /\ n = 0
      BY <2>2, <3>1
    <3>2. CASE i = n + 1 /\ n # 0
      <4>1. g[n + 1] = f[n] \o e /\ g[n] = f[n]
        BY <2>2, <3>2
      <4>2. i # 1 /\ i - 1 = n
        BY <2>2, <3>2
      <4> HIDE DEF g
      <4> QED
        BY <2>2, <3>2, <4>1, <4>2
    <3>3. CASE i # n + 1
      <4>1. i \in 1 .. n /\ t[i] = s[i] /\ (i # 1 => i - 1 \in 1 .. n)
        BY <2>2, <3>3
      <4>2. f[i] = IF i = 1 THEN s[i] ELSE f[i - 1] \o s[i]
        BY <2>1, <4>1 DEF Concatenates
      <4>3. g[i] = f[i] /\ (i # 1 => g[i - 1] = f[i - 1])
        BY <2>2, <4>1
      <4> HIDE DEF g
      <4> QED
        BY <4>1, <4>2, <4>3
    <3> QED
      BY <3>1, <3>2, <3>3
  <2>4. g = [i \in 1 .. (n + 1) |-> g[i]]
    OBVIOUS
  <2> HIDE DEF g
  <2>5. g = [i \in 1 .. (n + 1) |-> IF i = 1 THEN t[i] ELSE g[i - 1] \o t[i]]
    BY <2>3, <2>4
  <2>6. Concatenates(g, t, n + 1)
    BY <2>5 DEF Concatenates
  <2> QED
    BY <2>2, <2>6 DEF t
<1> HIDE DEF T
<1>3. Seq(E) \subseteq T
  BY <1>1, <1>2, EverySequence
<1> QED
  BY <1>3 DEF T

(* Two of them agree. *)
LEMMA ConcatenationUnique ==
  ASSUME NEW ss, NEW n \in Nat, NEW m \in Nat, n <= m,
         NEW f, NEW g, Concatenates(f, ss, n), Concatenates(g, ss, m)
  PROVE  \A i \in 1 .. n : f[i] = g[i]
<1> DEFINE Bad == {i \in 1 .. n : f[i] # g[i]}
<1>1. SUFFICES ASSUME Bad # {} PROVE FALSE
  OBVIOUS
<1>2. PICK i \in Bad : \A j \in Bad : i <= j
  <2>1. Bad \subseteq Nat
    OBVIOUS
  <2> HIDE DEF Bad
  <2> QED
    BY <1>1, <2>1, LeastElement
<1>3. i \in 1 .. n /\ i \in 1 .. m /\ f[i] # g[i]
  OBVIOUS
<1>4. f[i] = IF i = 1 THEN ss[i] ELSE f[i - 1] \o ss[i]
  BY <1>3 DEF Concatenates
<1>5. g[i] = IF i = 1 THEN ss[i] ELSE g[i - 1] \o ss[i]
  BY <1>3 DEF Concatenates
<1>6. i # 1 => f[i - 1] = g[i - 1]
  <2>1. i # 1 => i - 1 \in 1 .. n /\ ~ (i <= i - 1)
    BY <1>3
  <2> QED
    BY <1>2, <2>1
<1> QED
  BY <1>3, <1>4, <1>5, <1>6

(* What FlattenSeq is, one sequence after the other. *)
LEMMA FlattenEmpty == FlattenSeq(<<>>) = <<>>
BY DEF FlattenSeq

(* Flattening a sequence of sequences with one more at its end. *)
LEMMA FlattenOne ==
  ASSUME NEW E, NEW ss \in Seq(Seq(E)), NEW t \in Seq(E)
  PROVE  FlattenSeq(Append(ss, t)) =
           IF Len(ss) = 0 THEN t ELSE FlattenSeq(ss) \o t
<1> DEFINE rr == Append(ss, t)
           n  == Len(ss)
           f  == CHOOSE h : Concatenates(h, ss, n)
           g  == CHOOSE h : Concatenates(h, rr, n + 1)
<1>1. /\ rr \in Seq(Seq(E)) /\ Len(rr) = n + 1 /\ n \in Nat
      /\ rr[n + 1] = t /\ \A i \in 1 .. n : rr[i] = ss[i]
  OBVIOUS
<1> HIDE DEF rr
<1>2. FlattenSeq(rr) = g[n + 1]
  BY <1>1 DEF FlattenSeq, Concatenates
<1>3. n # 0 => FlattenSeq(ss) = f[n]
  BY <1>1 DEF FlattenSeq, Concatenates
<1>4. Concatenates(f, ss, n)
  BY ConcatenationExists
<1>5. Concatenates(g, rr, n + 1)
  BY <1>1, ConcatenationExists
<1> HIDE DEF f, g
<1>6. g[n + 1] = IF n = 0 THEN t ELSE g[n] \o t
  <2>1. n + 1 \in 1 .. (n + 1) /\ (n + 1 = 1 <=> n = 0) /\ n + 1 - 1 = n
    BY <1>1
  <2>2. \A i \in 1 .. (n + 1) : g[i] = IF i = 1 THEN rr[i] ELSE g[i - 1] \o rr[i]
    BY <1>5 DEF Concatenates
  <2>3. g[n + 1] = IF n + 1 = 1 THEN rr[n + 1] ELSE g[n + 1 - 1] \o rr[n + 1]
    BY <2>1, <2>2
  <2> QED
    BY <1>1, <2>1, <2>3
<1>7. Concatenates(f, rr, n)
  <2>1. [i \in 1 .. n |-> IF i = 1 THEN ss[i] ELSE f[i - 1] \o ss[i]]
          = [i \in 1 .. n |-> IF i = 1 THEN rr[i] ELSE f[i - 1] \o rr[i]]
    BY <1>1
  <2> QED
    BY <1>4, <2>1 DEF Concatenates
<1>8. n # 0 => f[n] = g[n]
  <2>1. n \in Nat /\ n + 1 \in Nat /\ n <= n + 1
    BY <1>1
  <2>3. \A i \in 1 .. n : f[i] = g[i]
    BY <1>5, <1>7, <2>1, ConcatenationUnique
  <2> QED
    BY <1>1, <2>3
<1> QED
  BY <1>1, <1>2, <1>3, <1>6, <1>8 DEF rr

(***************************************************************************)
(* FlattenSeq yields a sequence, and goes through concatenation.           *)
(***************************************************************************)
LEMMA FlattenType ==
  ASSUME NEW E, NEW ss \in Seq(Seq(E))
  PROVE  FlattenSeq(ss) \in Seq(E)
<1> DEFINE T == {s \in Seq(Seq(E)) : FlattenSeq(s) \in Seq(E)}
<1>1. <<>> \in T
  <2>1. <<>> \in Seq(Seq(E)) /\ <<>> \in Seq(E)
    BY EmptySeq
  <2> QED
    BY <2>1, FlattenEmpty, Zenon
<1>2. ASSUME NEW s \in Seq(Seq(E)), NEW t \in Seq(E), s \in T
      PROVE  Append(s, t) \in T
  <2>1. FlattenSeq(s) \o t \in Seq(E)
    BY <1>2, ConcatProperties
  <2>2. FlattenSeq(Append(s, t)) \in Seq(E)
    BY <2>1, FlattenOne
  <2> QED
    BY <2>2
<1> HIDE DEF T
<1>3. Seq(Seq(E)) \subseteq T
  BY <1>1, <1>2, EverySequence
<1> QED
  BY <1>3 DEF T

(* The same without the case of an empty sequence. *)
LEMMA FlattenAppend ==
  ASSUME NEW E, NEW ss \in Seq(Seq(E)), NEW t \in Seq(E)
  PROVE  FlattenSeq(Append(ss, t)) = FlattenSeq(ss) \o t
<1>1. CASE Len(ss) = 0
  <2>1. ss = <<>>
    BY <1>1, EmptySeq
  <2>2. FlattenSeq(ss) \o t = t
    BY <2>1, FlattenEmpty, ConcatEmptySeq
  <2> QED
    BY <1>1, <2>2, FlattenOne
<1>2. CASE Len(ss) # 0
  BY <1>2, FlattenOne
<1> QED
  BY <1>1, <1>2

(* Flattening distributes over concatenation. *)
LEMMA FlattenConcat ==
  ASSUME NEW E, NEW ss \in Seq(Seq(E)), NEW tt \in Seq(Seq(E))
  PROVE  FlattenSeq(ss \o tt) = FlattenSeq(ss) \o FlattenSeq(tt)
<1> DEFINE T == {s \in Seq(Seq(E)) : FlattenSeq(ss \o s) = FlattenSeq(ss) \o FlattenSeq(s)}
<1>1. <<>> \in T
  BY FlattenEmpty, FlattenType, ConcatEmptySeq
<1>2. ASSUME NEW s \in Seq(Seq(E)), NEW t \in Seq(E), s \in T
      PROVE  Append(s, t) \in T
  <2>1. /\ ss \o s \in Seq(Seq(E)) /\ FlattenSeq(ss) \in Seq(E) /\ FlattenSeq(s) \in Seq(E)
    BY FlattenType, ConcatProperties
  <2>2. ss \o Append(s, t) = Append(ss \o s, t)
    OBVIOUS
  <2>3. FlattenSeq(ss \o Append(s, t)) = (FlattenSeq(ss) \o FlattenSeq(s)) \o t
    BY <1>2, <2>1, <2>2, FlattenAppend
  <2>4. FlattenSeq(ss) \o FlattenSeq(Append(s, t)) = FlattenSeq(ss) \o (FlattenSeq(s) \o t)
    BY FlattenAppend
  <2>5. (FlattenSeq(ss) \o FlattenSeq(s)) \o t = FlattenSeq(ss) \o (FlattenSeq(s) \o t)
    BY <2>1, ConcatAssociative
  <2>6. FlattenSeq(ss \o Append(s, t)) = FlattenSeq(ss) \o FlattenSeq(Append(s, t))
    BY <2>3, <2>4, <2>5, Zenon
  <2>7. Append(s, t) \in Seq(Seq(E))
    BY AppendProperties
  <2> QED
    BY <2>6, <2>7, Zenon
<1> HIDE DEF T
<1>3. Seq(Seq(E)) \subseteq T
  BY <1>1, <1>2, EverySequence
<1> QED
  BY <1>3 DEF T

-----------------------------------------------------------------------------
(* EventsOf, Effects, Sets and WordValues replace each element of a        *)
(* sequence by a sequence.                                                 *)

Spreads(F, A, B) == F \in [A -> Seq(B)]

Pieces(s, F) == [i \in DOMAIN s |-> F[s[i]]]

Spread(s, F) == FlattenSeq(Pieces(s, F))

(* What FlattenSeq gets then. *)
LEMMA PiecesType ==
  ASSUME NEW A, NEW B, NEW F, Spreads(F, A, B), NEW s \in Seq(A)
  PROVE  /\ Pieces(s, F) \in Seq(Seq(B)) /\ Len(Pieces(s, F)) = Len(s)
         /\ \A i \in 1 .. Len(s) : Pieces(s, F)[i] = F[s[i]]
<1> DEFINE p == Pieces(s, F)
<1>1. DOMAIN s = 1 .. Len(s) /\ Len(s) \in Nat
  OBVIOUS
<1>2. \A i \in 1 .. Len(s) : p[i] = F[s[i]] /\ F[s[i]] \in Seq(B)
  BY <1>1 DEF Pieces, Spreads
<1>3. p \in [1 .. Len(s) -> Seq(B)]
  BY <1>1, <1>2 DEF Pieces
<1> HIDE DEF p
<1>4. p \in Seq(Seq(B)) /\ Len(p) = Len(s)
  BY <1>1, <1>3, SeqDef
<1> QED
  BY <1>1, <1>2, <1>4 DEF p

(* A spread of typed pieces is a typed sequence. *)
LEMMA SpreadType ==
  ASSUME NEW A, NEW B, NEW F, Spreads(F, A, B), NEW s \in Seq(A)
  PROVE  Spread(s, F) \in Seq(B)
<1>1. Pieces(s, F) \in Seq(Seq(B))
  BY PiecesType
<1> QED
  BY <1>1, FlattenType DEF Spread

(* Nothing spreads to nothing. *)
LEMMA SpreadEmpty ==
  ASSUME NEW F
  PROVE  Spread(<<>>, F) = <<>>
<1>1. Pieces(<<>>, F) = <<>>
  BY DEF Pieces
<1> QED
  BY <1>1, FlattenEmpty DEF Spread

(* One element spreads to its own piece. *)
LEMMA SpreadOne ==
  ASSUME NEW A, NEW B, NEW F, Spreads(F, A, B), NEW a \in A
  PROVE  Spread(<<a>>, F) = F[a]
<1>1. Pieces(<<a>>, F) = Append(<<>>, F[a])
  BY DEF Pieces
<1>2. F[a] \in Seq(B) /\ <<>> \in Seq(Seq(B)) /\ Len(<<>>) = 0
  BY EmptySeq DEF Spreads
<1> QED
  BY <1>1, <1>2, FlattenOne DEF Spread

(* A spread distributes over concatenation. *)
LEMMA SpreadConcat ==
  ASSUME NEW A, NEW B, NEW F, Spreads(F, A, B), NEW s \in Seq(A), NEW t \in Seq(A)
  PROVE  Spread(s \o t, F) = Spread(s, F) \o Spread(t, F)
<1> DEFINE u == s \o t
           p == Pieces(s, F)
           q == Pieces(t, F)
           r == Pieces(u, F)
<1>1. /\ u \in Seq(A) /\ Len(u) = Len(s) + Len(t) /\ Len(s) \in Nat /\ Len(t) \in Nat
      /\ \A i \in 1 .. Len(s) + Len(t) :
           u[i] = IF i <= Len(s) THEN s[i] ELSE t[i - Len(s)]
  BY ConcatProperties
<1> HIDE DEF u
<1>3. p \in Seq(Seq(B)) /\ Len(p) = Len(s) /\ \A i \in 1 .. Len(s) : p[i] = F[s[i]]
  BY PiecesType
<1>4. q \in Seq(Seq(B)) /\ Len(q) = Len(t) /\ \A i \in 1 .. Len(t) : q[i] = F[t[i]]
  BY PiecesType
<1>5. r \in Seq(Seq(B)) /\ Len(r) = Len(u) /\ \A i \in 1 .. Len(u) : r[i] = F[u[i]]
  BY <1>1, PiecesType
<1> HIDE DEF p, q, r
<1>6. r = p \o q
  <2>1. /\ p \o q \in Seq(Seq(B)) /\ Len(p \o q) = Len(s) + Len(t)
        /\ \A i \in 1 .. Len(s) + Len(t) :
             (p \o q)[i] = IF i <= Len(s) THEN p[i] ELSE q[i - Len(s)]
    <3>1. p \in Seq(Seq(B)) /\ q \in Seq(Seq(B))
      BY <1>3, <1>4
    <3>2. /\ p \o q \in Seq(Seq(B)) /\ Len(p \o q) = Len(p) + Len(q)
          /\ \A i \in 1 .. Len(p) + Len(q) :
               (p \o q)[i] = IF i <= Len(p) THEN p[i] ELSE q[i - Len(p)]
      BY <3>1, ConcatProperties
    <3> QED
      BY <1>3, <1>4, <3>2
  <2>2. ASSUME NEW i \in 1 .. Len(u)
        PROVE  r[i] = (p \o q)[i]
    <3>1. CASE i <= Len(s)
      <4>1. i \in 1 .. Len(s) /\ i \in 1 .. Len(s) + Len(t)
        BY <1>1, <3>1
      <4>2. u[i] = s[i] /\ (p \o q)[i] = p[i]
        BY <1>1, <2>1, <3>1, <4>1
      <4>3. p[i] = F[s[i]]
        BY <1>3, <4>1
      <4> QED
        BY <1>5, <4>2, <4>3
    <3>2. CASE ~ (i <= Len(s))
      <4>1. i - Len(s) \in 1 .. Len(t) /\ i \in 1 .. Len(s) + Len(t)
        BY <1>1, <3>2
      <4>2. u[i] = t[i - Len(s)] /\ (p \o q)[i] = q[i - Len(s)]
        BY <1>1, <2>1, <3>2, <4>1
      <4>3. q[i - Len(s)] = F[t[i - Len(s)]]
        BY <1>4, <4>1
      <4> QED
        BY <1>5, <4>2, <4>3
    <3> QED
      BY <3>1, <3>2
  <2>3. Len(r) = Len(p \o q) /\ \A i \in 1 .. Len(r) : r[i] = (p \o q)[i]
    BY <1>1, <1>5, <2>1, <2>2
  <2> QED
    BY <1>5, <2>1, <2>3, SeqEqual
<1>7. FlattenSeq(p \o q) = FlattenSeq(p) \o FlattenSeq(q)
  BY <1>3, <1>4, FlattenConcat
<1>8. FlattenSeq(r) = FlattenSeq(p) \o FlattenSeq(q)
  BY <1>6, <1>7
<1> QED
  BY <1>8 DEF p, q, r, u, Spread

-----------------------------------------------------------------------------
(* The types of the module's values. *)

EventType ==
  [what : {"pure", "read", "set", "heap", "effect"}, at : Int, in : Seq(Int)]

ExprType == [form : {"name", "new", "other"}, val : Int, events : Seq(EventType)]

WordType == [val : Int, half : 0 .. 2]

(* The four of them in these terms. *)
EventsIn  == [e \in ExprType |-> e.events]
ValueIn   == [w \in WordType |-> IF w.half = 2 THEN <<>> ELSE <<w.val>>]
EffectIn  == [e \in EventType |-> IF IsEffect(e) THEN <<e>> ELSE <<>>]
SetIn(x)  == [e \in EventType |-> IF IsSet(e, x) THEN <<e>> ELSE <<>>]

(* The four functions the model spreads have the types the lemmas ask for. *)
LEMMA SpreadFunctions ==
  /\ Spreads(EventsIn, ExprType, EventType)
  /\ Spreads(ValueIn, WordType, Int)
  /\ Spreads(EffectIn, EventType, EventType)
  /\ \A x : Spreads(SetIn(x), EventType, EventType)
<1>1. Spreads(EventsIn, ExprType, EventType)
  BY DEF Spreads, EventsIn, ExprType
<1>2. Spreads(ValueIn, WordType, Int)
  BY DEF Spreads, ValueIn, WordType
<1>3. Spreads(EffectIn, EventType, EventType)
  <2>1. ASSUME NEW e \in EventType PROVE (IF IsEffect(e) THEN <<e>> ELSE <<>>) \in Seq(EventType)
    OBVIOUS
  <2> QED
    BY <2>1 DEF Spreads, EffectIn
<1>4. ASSUME NEW x PROVE Spreads(SetIn(x), EventType, EventType)
  <2>1. ASSUME NEW e \in EventType PROVE (IF IsSet(e, x) THEN <<e>> ELSE <<>>) \in Seq(EventType)
    OBVIOUS
  <2> QED
    BY <2>1 DEF Spreads, SetIn
<1> QED
  BY <1>1, <1>2, <1>3, <1>4

(* The events of a list of expressions are a spread of it. *)
LEMMA EventsOfSpread ==
  ASSUME NEW s \in Seq(ExprType)
  PROVE  EventsOf(s) = Spread(s, EventsIn)
<1>1. [i \in DOMAIN s |-> s[i].events] = [i \in DOMAIN s |-> EventsIn[s[i]]]
  BY DEF EventsIn
<1> QED
  BY <1>1 DEF EventsOf, Spread, Pieces

(* The values of a list of words are a spread of it. *)
LEMMA WordValuesSpread ==
  ASSUME NEW s \in Seq(WordType)
  PROVE  WordValues(s) = Spread(s, ValueIn)
<1>1. [i \in DOMAIN s |-> IF s[i].half = 2 THEN <<>> ELSE <<s[i].val>>]
        = [i \in DOMAIN s |-> ValueIn[s[i]]]
  BY DEF ValueIn
<1> QED
  BY <1>1 DEF WordValues, Spread, Pieces

(* The effects among some events are a spread of them. *)
LEMMA EffectsSpread ==
  ASSUME NEW s \in Seq(EventType)
  PROVE  Effects(s) = Spread(s, EffectIn)
<1>1. [i \in DOMAIN s |-> IF IsEffect(s[i]) THEN <<s[i]>> ELSE <<>>]
        = [i \in DOMAIN s |-> EffectIn[s[i]]]
  BY DEF EffectIn
<1> QED
  BY <1>1 DEF Effects, Spread, Pieces

(* The settings of a local among some events are a spread of them. *)
LEMMA SetsSpread ==
  ASSUME NEW s \in Seq(EventType), NEW x
  PROVE  Sets(s, x) = Spread(s, SetIn(x))
<1>1. [i \in DOMAIN s |-> IF IsSet(s[i], x) THEN <<s[i]>> ELSE <<>>]
        = [i \in DOMAIN s |-> SetIn(x)[s[i]]]
  BY DEF Spreads, SetIn
<1> QED
  BY <1>1 DEF Sets, Spread, Pieces

(* What each of them does to the empty sequence, to a sequence of one
   element and to a concatenation. *)
LEMMA EventsOfParts ==
  /\ \A s \in Seq(ExprType) : EventsOf(s) \in Seq(EventType)
  /\ EventsOf(<<>>) = <<>>
  /\ \A e \in ExprType : EventsOf(<<e>>) = e.events
  /\ \A s, t \in Seq(ExprType) : EventsOf(s \o t) = EventsOf(s) \o EventsOf(t)
<1>1. Spreads(EventsIn, ExprType, EventType)
  BY SpreadFunctions
<1>2. ASSUME NEW s \in Seq(ExprType) PROVE EventsOf(s) \in Seq(EventType)
  BY <1>1, EventsOfSpread, SpreadType
<1>3. EventsOf(<<>>) = <<>>
  BY EmptySeq, EventsOfSpread, SpreadEmpty
<1>4. ASSUME NEW e \in ExprType PROVE EventsOf(<<e>>) = e.events
  <2>1. <<e>> \in Seq(ExprType) /\ EventsIn[e] = e.events
    BY DEF EventsIn
  <2> QED
    BY <1>1, <2>1, EventsOfSpread, SpreadOne
<1>5. ASSUME NEW s \in Seq(ExprType), NEW t \in Seq(ExprType)
      PROVE  EventsOf(s \o t) = EventsOf(s) \o EventsOf(t)
  <2>1. s \o t \in Seq(ExprType)
    BY ConcatProperties
  <2>2. EventsOf(s) = Spread(s, EventsIn) /\ EventsOf(t) = Spread(t, EventsIn)
        /\ EventsOf(s \o t) = Spread(s \o t, EventsIn)
    BY <2>1, EventsOfSpread
  <2>3. Spread(s \o t, EventsIn) = Spread(s, EventsIn) \o Spread(t, EventsIn)
    BY <1>1, SpreadConcat
  <2> QED
    BY <2>2, <2>3
<1> QED
  BY <1>2, <1>3, <1>4, <1>5

(* The values of words: of none, of one, of two lists together. *)
LEMMA WordValuesParts ==
  /\ \A s \in Seq(WordType) : WordValues(s) \in Seq(Int)
  /\ WordValues(<<>>) = <<>>
  /\ \A w \in WordType : WordValues(<<w>>) = IF w.half = 2 THEN <<>> ELSE <<w.val>>
  /\ \A s, t \in Seq(WordType) : WordValues(s \o t) = WordValues(s) \o WordValues(t)
<1>1. Spreads(ValueIn, WordType, Int)
  BY SpreadFunctions
<1>2. ASSUME NEW s \in Seq(WordType) PROVE WordValues(s) \in Seq(Int)
  BY <1>1, WordValuesSpread, SpreadType
<1>3. WordValues(<<>>) = <<>>
  BY EmptySeq, WordValuesSpread, SpreadEmpty
<1>4. ASSUME NEW w \in WordType
      PROVE  WordValues(<<w>>) = IF w.half = 2 THEN <<>> ELSE <<w.val>>
  <2>1. <<w>> \in Seq(WordType) /\ ValueIn[w] = IF w.half = 2 THEN <<>> ELSE <<w.val>>
    BY DEF ValueIn
  <2>2. WordValues(<<w>>) = ValueIn[w]
    BY <1>1, <2>1, WordValuesSpread, SpreadOne
  <2> QED
    BY <2>1, <2>2
<1>5. ASSUME NEW s \in Seq(WordType), NEW t \in Seq(WordType)
      PROVE  WordValues(s \o t) = WordValues(s) \o WordValues(t)
  <2>1. s \o t \in Seq(WordType)
    BY ConcatProperties
  <2>2. WordValues(s) = Spread(s, ValueIn) /\ WordValues(t) = Spread(t, ValueIn)
        /\ WordValues(s \o t) = Spread(s \o t, ValueIn)
    BY <2>1, WordValuesSpread
  <2>3. Spread(s \o t, ValueIn) = Spread(s, ValueIn) \o Spread(t, ValueIn)
    BY <1>1, SpreadConcat
  <2> QED
    BY <2>2, <2>3
<1> QED
  BY <1>2, <1>3, <1>4, <1>5

(* The effects among events: of none, of one, of two lists together. *)
LEMMA EffectsParts ==
  /\ \A s \in Seq(EventType) : Effects(s) \in Seq(EventType)
  /\ Effects(<<>>) = <<>>
  /\ \A e \in EventType : Effects(<<e>>) = IF IsEffect(e) THEN <<e>> ELSE <<>>
  /\ \A s, t \in Seq(EventType) : Effects(s \o t) = Effects(s) \o Effects(t)
<1>1. Spreads(EffectIn, EventType, EventType)
  BY SpreadFunctions
<1>2. ASSUME NEW s \in Seq(EventType) PROVE Effects(s) \in Seq(EventType)
  BY <1>1, EffectsSpread, SpreadType
<1>3. Effects(<<>>) = <<>>
  BY EmptySeq, EffectsSpread, SpreadEmpty
<1>4. ASSUME NEW e \in EventType
      PROVE  Effects(<<e>>) = IF IsEffect(e) THEN <<e>> ELSE <<>>
  <2>1. <<e>> \in Seq(EventType) /\ EffectIn[e] = IF IsEffect(e) THEN <<e>> ELSE <<>>
    BY DEF EffectIn
  <2> QED
    BY <1>1, <2>1, EffectsSpread, SpreadOne
<1>5. ASSUME NEW s \in Seq(EventType), NEW t \in Seq(EventType)
      PROVE  Effects(s \o t) = Effects(s) \o Effects(t)
  <2>1. s \o t \in Seq(EventType)
    BY ConcatProperties
  <2>2. Effects(s) = Spread(s, EffectIn) /\ Effects(t) = Spread(t, EffectIn)
        /\ Effects(s \o t) = Spread(s \o t, EffectIn)
    BY <2>1, EffectsSpread
  <2>3. Spread(s \o t, EffectIn) = Spread(s, EffectIn) \o Spread(t, EffectIn)
    BY <1>1, SpreadConcat
  <2> QED
    BY <2>2, <2>3
<1> QED
  BY <1>2, <1>3, <1>4, <1>5

(* The settings of a local: of none, of one, of two lists together. *)
LEMMA SetsParts ==
  ASSUME NEW x
  PROVE  /\ \A s \in Seq(EventType) : Sets(s, x) \in Seq(EventType)
         /\ Sets(<<>>, x) = <<>>
         /\ \A e \in EventType : Sets(<<e>>, x) = IF IsSet(e, x) THEN <<e>> ELSE <<>>
         /\ \A s, t \in Seq(EventType) : Sets(s \o t, x) = Sets(s, x) \o Sets(t, x)
<1>1. Spreads(SetIn(x), EventType, EventType)
  BY SpreadFunctions
<1>2. ASSUME NEW s \in Seq(EventType) PROVE Sets(s, x) \in Seq(EventType)
  BY <1>1, SetsSpread, SpreadType
<1>3. Sets(<<>>, x) = <<>>
  BY EmptySeq, SetsSpread, SpreadEmpty
<1>4. ASSUME NEW e \in EventType
      PROVE  Sets(<<e>>, x) = IF IsSet(e, x) THEN <<e>> ELSE <<>>
  <2>1. <<e>> \in Seq(EventType) /\ SetIn(x)[e] = IF IsSet(e, x) THEN <<e>> ELSE <<>>
    BY DEF SetIn
  <2> QED
    BY <1>1, <2>1, SetsSpread, SpreadOne
<1>5. ASSUME NEW s \in Seq(EventType), NEW t \in Seq(EventType)
      PROVE  Sets(s \o t, x) = Sets(s, x) \o Sets(t, x)
  <2>1. s \o t \in Seq(EventType)
    BY ConcatProperties
  <2>2. Sets(s, x) = Spread(s, SetIn(x)) /\ Sets(t, x) = Spread(t, SetIn(x))
        /\ Sets(s \o t, x) = Spread(s \o t, SetIn(x))
    BY <2>1, SetsSpread
  <2>3. Spread(s \o t, SetIn(x)) = Spread(s, SetIn(x)) \o Spread(t, SetIn(x))
    BY <1>1, SpreadConcat
  <2> QED
    BY <2>2, <2>3
<1> QED
  BY <1>2, <1>3, <1>4, <1>5

-----------------------------------------------------------------------------
(* Which effects a sequence of events has, and how often. *)

IsEffectOf(e, i) == IsEffect(e) /\ e.at = i

Does(events, i) == \E p \in DOMAIN events : IsEffectOf(events[p], i)

DoesOnce(events, i) ==
  \A p, q \in DOMAIN events : IsEffectOf(events[p], i) /\ IsEffectOf(events[q], i) => p = q

(* Which effects no event and a single one have. *)
LEMMA DoesParts ==
  ASSUME NEW i
  PROVE  /\ ~Does(<<>>, i) /\ DoesOnce(<<>>, i)
         /\ \A e : (Does(<<e>>, i) <=> IsEffectOf(e, i)) /\ DoesOnce(<<e>>, i)
<1>1. DOMAIN <<>> = {}
  OBVIOUS
<1>2. \A e : DOMAIN <<e>> = {1} /\ <<e>>[1] = e
  OBVIOUS
<1> QED
  BY <1>1, <1>2 DEF Does, DoesOnce

(* Which effects two lists of events have together, and when none comes
   twice. *)
LEMMA DoesConcat ==
  ASSUME NEW s \in Seq(EventType), NEW t \in Seq(EventType), NEW i
  PROVE  /\ Does(s \o t, i) <=> Does(s, i) \/ Does(t, i)
         /\ DoesOnce(s \o t, i) <=>
              DoesOnce(s, i) /\ DoesOnce(t, i) /\ ~ (Does(s, i) /\ Does(t, i))
<1> DEFINE u == s \o t
           m == Len(s)
           n == Len(t)
<1>1. /\ m \in Nat /\ n \in Nat /\ DOMAIN s = 1 .. m /\ DOMAIN t = 1 .. n
      /\ DOMAIN u = 1 .. (m + n)
      /\ \A p \in 1 .. (m + n) : u[p] = IF p <= m THEN s[p] ELSE t[p - m]
  BY ConcatProperties
<1> HIDE DEF u, m, n
<1>2. \A p \in 1 .. m : p \in 1 .. (m + n) /\ u[p] = s[p]
  BY <1>1
<1>3. \A p \in 1 .. n : p + m \in 1 .. (m + n) /\ u[p + m] = t[p]
  <2> SUFFICES ASSUME NEW p \in 1 .. n
               PROVE  p + m \in 1 .. (m + n) /\ u[p + m] = t[p]
    OBVIOUS
  <2>1. p + m \in 1 .. (m + n) /\ ~ (p + m <= m) /\ (p + m) - m = p
    BY <1>1
  <2>2. u[p + m] = IF p + m <= m THEN s[p + m] ELSE t[(p + m) - m]
    BY <1>1, <2>1
  <2> QED
    BY <2>1, <2>2
<1>4. \A p \in 1 .. (m + n) :
        \/ p \in 1 .. m /\ u[p] = s[p]
        \/ p - m \in 1 .. n /\ u[p] = t[p - m]
  <2> SUFFICES ASSUME NEW p \in 1 .. (m + n)
               PROVE  \/ p \in 1 .. m /\ u[p] = s[p]
                      \/ p - m \in 1 .. n /\ u[p] = t[p - m]
    OBVIOUS
  <2>1. p <= m => p \in 1 .. m
    BY <1>1
  <2>2. ~ (p <= m) => p - m \in 1 .. n
    BY <1>1
  <2> QED
    BY <1>1, <2>1, <2>2
<1>5. Does(u, i) <=> Does(s, i) \/ Does(t, i)
  BY <1>1, <1>2, <1>3, <1>4 DEF Does
<1>6. ASSUME DoesOnce(u, i)
      PROVE  DoesOnce(s, i) /\ DoesOnce(t, i) /\ ~ (Does(s, i) /\ Does(t, i))
  <2>1. DoesOnce(s, i)
    BY <1>1, <1>2, <1>6 DEF DoesOnce
  <2>2. DoesOnce(t, i)
    <3> SUFFICES ASSUME NEW p \in 1 .. n, NEW q \in 1 .. n,
                        IsEffectOf(t[p], i), IsEffectOf(t[q], i)
                 PROVE  p = q
      BY <1>1 DEF DoesOnce
    <3>1. p + m = q + m
      BY <1>1, <1>3, <1>6 DEF DoesOnce
    <3> QED
      BY <1>1, <3>1
  <2>3. ASSUME Does(s, i), Does(t, i) PROVE FALSE
    <3>1. PICK p \in 1 .. m : IsEffectOf(s[p], i)
      BY <1>1, <2>3 DEF Does
    <3>2. PICK q \in 1 .. n : IsEffectOf(t[q], i)
      BY <1>1, <2>3 DEF Does
    <3>3. p = q + m
      BY <1>1, <1>2, <1>3, <1>6, <3>1, <3>2 DEF DoesOnce
    <3> QED
      BY <1>1, <3>3
  <2> QED
    BY <2>1, <2>2, <2>3
<1>7. ASSUME DoesOnce(s, i), DoesOnce(t, i), ~ (Does(s, i) /\ Does(t, i))
      PROVE  DoesOnce(u, i)
  <2> SUFFICES ASSUME NEW p \in 1 .. (m + n), NEW q \in 1 .. (m + n),
                      IsEffectOf(u[p], i), IsEffectOf(u[q], i)
               PROVE  p = q
    BY <1>1 DEF DoesOnce
  <2>1. CASE p \in 1 .. m /\ u[p] = s[p]
    <3>1. q \in 1 .. m /\ u[q] = s[q]
      BY <1>1, <1>4, <1>7, <2>1 DEF Does
    <3> QED
      BY <1>1, <1>7, <2>1, <3>1 DEF DoesOnce
  <2>2. CASE p - m \in 1 .. n /\ u[p] = t[p - m]
    <3>1. q - m \in 1 .. n /\ u[q] = t[q - m]
      BY <1>1, <1>4, <1>7, <2>2 DEF Does
    <3>2. p - m = q - m
      BY <1>1, <1>7, <2>2, <3>1 DEF DoesOnce
    <3> QED
      BY <1>1, <3>2
  <2> QED
    BY <1>4, <2>1, <2>2
<1> QED
  BY <1>5, <1>6, <1>7 DEF u

(* The same of all expressions of a stack. *)
LEMMA EventsOfAppend ==
  ASSUME NEW s \in Seq(ExprType), NEW e \in ExprType
  PROVE  EventsOf(Append(s, e)) = EventsOf(s) \o e.events
<1>1. Append(s, e) = s \o <<e>> /\ <<e>> \in Seq(ExprType)
  BY AppendIsConcat
<1> QED
  BY <1>1, EventsOfParts

(* Which effects the events of a list of expressions have, and when none comes
   twice. *)
LEMMA DoesEvents ==
  ASSUME NEW s \in Seq(ExprType), NEW i
  PROVE  /\ Does(EventsOf(s), i) <=> \E j \in DOMAIN s : Does(s[j].events, i)
         /\ DoesOnce(EventsOf(s), i) <=>
              /\ \A j \in DOMAIN s : DoesOnce(s[j].events, i)
              /\ \A j, k \in DOMAIN s :
                   Does(s[j].events, i) /\ Does(s[k].events, i) => j = k
<1> DEFINE Some(u)  == \E j \in DOMAIN u : Does(u[j].events, i)
           Apart(u) == /\ \A j \in DOMAIN u : DoesOnce(u[j].events, i)
                       /\ \A j, k \in DOMAIN u :
                            Does(u[j].events, i) /\ Does(u[k].events, i) => j = k
           T        == {u \in Seq(ExprType) :
                          /\ Does(EventsOf(u), i) <=> Some(u)
                          /\ DoesOnce(EventsOf(u), i) <=> Apart(u)}
<1>1. <<>> \in T
  <2>1. EventsOf(<<>>) = <<>> /\ DOMAIN <<>> = {} /\ <<>> \in Seq(ExprType)
    BY EventsOfParts, EmptySeq
  <2>2. ~ Does(<<>>, i) /\ DoesOnce(<<>>, i)
    BY DoesParts
  <2>3. ~ Some(<<>>) /\ Apart(<<>>)
    BY <2>1
  <2> HIDE DEF Some, Apart
  <2> QED
    BY <2>1, <2>2, <2>3
<1>2. ASSUME NEW u \in Seq(ExprType), NEW e \in ExprType, u \in T
      PROVE  Append(u, e) \in T
  <2> DEFINE v == Append(u, e)
             n == Len(u)
  <2>1. /\ v \in Seq(ExprType) /\ n \in Nat
        /\ DOMAIN u = 1 .. n /\ DOMAIN v = 1 .. (n + 1)
        /\ v[n + 1] = e /\ \A j \in 1 .. n : v[j] = u[j]
    BY AppendProperties
  <2>2. EventsOf(v) = EventsOf(u) \o e.events
    BY EventsOfAppend
  <2>3. EventsOf(u) \in Seq(EventType) /\ e.events \in Seq(EventType)
    BY EventsOfParts DEF ExprType
  <2>4. (Does(EventsOf(u), i) <=> Some(u)) /\ (DoesOnce(EventsOf(u), i) <=> Apart(u))
    BY <1>2
  <2> HIDE DEF v, n
  <2>5. \A j \in 1 .. (n + 1) : (j \in 1 .. n /\ j # n + 1) \/ j = n + 1
    BY <2>1
  <2>6. \A j \in 1 .. n : j \in 1 .. (n + 1) /\ j # n + 1
    BY <2>1
  <2>7. n + 1 \in 1 .. (n + 1)
    BY <2>1
  <2>8. Some(v) <=> Some(u) \/ Does(e.events, i)
    BY <2>1, <2>5, <2>6, <2>7
  <2>9. Apart(v) <=> Apart(u) /\ DoesOnce(e.events, i) /\ ~ (Some(u) /\ Does(e.events, i))
    <3>1. ASSUME Apart(v)
          PROVE  Apart(u) /\ DoesOnce(e.events, i) /\ ~ (Some(u) /\ Does(e.events, i))
      <4>1. Apart(u)
        BY <2>1, <2>6, <3>1
      <4>2. DoesOnce(e.events, i)
        BY <2>1, <2>7, <3>1
      <4>3. ~ (Some(u) /\ Does(e.events, i))
        BY <2>1, <2>6, <2>7, <3>1
      <4> QED
        BY <4>1, <4>2, <4>3
    <3>2. ASSUME Apart(u), DoesOnce(e.events, i), ~ (Some(u) /\ Does(e.events, i))
          PROVE  Apart(v)
      <4>1. \A j \in DOMAIN v : DoesOnce(v[j].events, i)
        BY <2>1, <2>5, <3>2
      <4>2. \A j, k \in DOMAIN v : Does(v[j].events, i) /\ Does(v[k].events, i) => j = k
        BY <2>1, <2>5, <3>2
      <4> QED
        BY <4>1, <4>2
    <3> QED
      BY <3>1, <3>2
  <2> HIDE DEF Some, Apart
  <2>10. /\ Does(EventsOf(v), i) <=> Some(v)
         /\ DoesOnce(EventsOf(v), i) <=> Apart(v)
    BY <2>2, <2>3, <2>4, <2>8, <2>9, DoesConcat
  <2>11. v \in T
    BY <2>1, <2>10
  <2> QED
    BY <2>11 DEF v
<1> HIDE DEF T, Some, Apart
<1>3. Seq(ExprType) \subseteq T
  BY <1>1, <1>2, EverySequence
<1>4. s \in T
  BY <1>3
<1> QED
  BY <1>4 DEF T, Some, Apart

-----------------------------------------------------------------------------
(* What the variables may hold. *)

TypeInv ==
  /\ words \in Seq(WordType)
  /\ locals \in [Locals -> Int]
  /\ raw \subseteq 1 .. Len(did)
  /\ did \in Seq(EventType)
  /\ stack \in Seq(ExprType)
  /\ out \in Seq(EventType)
  /\ {ended, disturbed, dropped, copied} \subseteq BOOLEAN

(* The expressions that a pop takes from the stack. *)
Taken(n) == IF n <= Len(stack) THEN SubSeq(stack, Len(stack) - n + 1, Len(stack)) ELSE stack

(* Those that it invents. *)
Invented(n) == [i \in 1 .. (IF n <= Len(stack) THEN 0 ELSE n - Len(stack)) |-> StackValue]

(* The name an empty stack answers with is an expression. *)
LEMMA StackValueType == StackValue \in ExprType
<1>1. Event("read", 0, <<0>>) \in EventType
  BY DEF Event, EventType
<1>2. <<Event("read", 0, <<0>>)>> \in Seq(EventType)
  BY <1>1
<1> HIDE DEF EventType
<1> QED
  BY <1>2 DEF StackValue, Expr, ExprType

(* What popping n entries takes, invents and leaves: the stack is what stays
   below followed by what is taken. *)
LEMMA PoppedParts ==
  ASSUME stack \in Seq(ExprType), NEW n \in Nat
  PROVE  /\ Below(n) \in Seq(ExprType) /\ Taken(n) \in Seq(ExprType)
         /\ Invented(n) \in Seq(ExprType) /\ Popped(n) \in Seq(ExprType)
         /\ Len(Popped(n)) = n
         /\ stack = Below(n) \o Taken(n)
         /\ Popped(n) = Invented(n) \o Taken(n)
         /\ n <= Len(stack) => Popped(n) = Taken(n)
         /\ n <= Len(stack) => Len(Below(n)) = Len(stack) - n
         /\ \A i \in DOMAIN Below(n) : i \in DOMAIN stack /\ Below(n)[i] = stack[i]
         /\ \A j \in DOMAIN Taken(n) : \E i \in DOMAIN stack : Taken(n)[j] = stack[i]
         /\ \A j \in DOMAIN Invented(n) : Invented(n)[j] = StackValue
<1> DEFINE m == Len(stack)
<1>1. /\ m \in Nat /\ DOMAIN stack = 1 .. m /\ \A i \in 1 .. m : stack[i] \in ExprType
  OBVIOUS
<1>2. Popped(n) \in Seq(ExprType) /\ Len(Popped(n)) = n
      /\ \A i \in 1 .. n :
           Popped(n)[i] = IF m + i > n THEN stack[m + i - n] ELSE StackValue
  <2> DEFINE p == Popped(n)
  <2>1. /\ p = [i \in 1 .. n |-> p[i]]
        /\ \A i \in 1 .. n : p[i] = IF m + i > n THEN stack[m + i - n] ELSE StackValue
    BY DEF Popped
  <2> HIDE DEF p
  <2>2. ASSUME NEW i \in 1 .. n PROVE p[i] \in ExprType
    <3>1. CASE m + i > n
      <4>1. m + i - n \in 1 .. m
        BY <1>1, <3>1
      <4> QED
        BY <1>1, <2>1, <3>1, <4>1
    <3>2. CASE ~ (m + i > n)
      BY <2>1, <3>2, StackValueType
    <3> QED
      BY <3>1, <3>2
  <2>3. p \in [1 .. n -> ExprType]
    BY <2>1, <2>2
  <2>4. p \in Seq(ExprType) /\ Len(p) = n
    BY <2>3, SeqDef
  <2> QED
    BY <2>1, <2>4 DEF p
<1>3. CASE n <= m
  <2>1. /\ Taken(n) \in Seq(ExprType) /\ Len(Taken(n)) = n
        /\ \A i \in 1 .. n : Taken(n)[i] = stack[m - n + i] /\ m - n + i \in 1 .. m
    BY <1>1, <1>3, SubSeqProperties DEF Taken
  <2>2. /\ Below(n) \in Seq(ExprType) /\ Len(Below(n)) = m - n
        /\ \A i \in 1 .. (m - n) : Below(n)[i] = stack[i] /\ i \in 1 .. m
    <3> DEFINE l == m - n
               b == SubSeq(stack, 1, l)
    <3>1. l \in Nat /\ l <= m
      BY <1>1, <1>3
    <3>2. Below(n) = b
      BY DEF Below
    <3> HIDE DEF l
    <3>3. b \in Seq(ExprType) /\ Len(b) = l /\ \A i \in 1 .. l : b[i] = stack[i] /\ i \in 1 .. m
      BY <1>1, <3>1
    <3> QED
      BY <3>2, <3>3 DEF l
  <2>3. Invented(n) = <<>>
    BY <1>1, <1>3 DEF Invented
  <2>4. Popped(n) = Taken(n)
    <3>1. \A i \in 1 .. n : Popped(n)[i] = Taken(n)[i]
      <4>1. \A i \in 1 .. n : m + i > n /\ m + i - n = m - n + i
        BY <1>1, <1>3
      <4> QED
        BY <1>2, <2>1, <4>1
    <3> QED
      BY <1>2, <2>1, <3>1, SeqEqual
  <2>5. Invented(n) \in Seq(ExprType) /\ Popped(n) = Invented(n) \o Taken(n)
        /\ DOMAIN Invented(n) = {}
    <3>1. <<>> \in Seq(ExprType) /\ DOMAIN <<>> = {}
      BY EmptySeq
    <3>2. <<>> \o Taken(n) = Taken(n)
      BY <2>1, ConcatEmptySeq
    <3> QED
      BY <2>3, <2>4, <3>1, <3>2
  <2>6. stack = Below(n) \o Taken(n)
    <3>1. /\ Below(n) \o Taken(n) \in Seq(ExprType)
          /\ Len(Below(n) \o Taken(n)) = m
          /\ \A i \in 1 .. m : (Below(n) \o Taken(n))[i] =
               IF i <= m - n THEN Below(n)[i] ELSE Taken(n)[i - (m - n)]
      <4>1. Len(Below(n)) + Len(Taken(n)) = m
        BY <1>1, <2>1, <2>2
      <4> DEFINE b == Below(n)
                 t == Taken(n)
      <4>2. b \in Seq(ExprType) /\ t \in Seq(ExprType) /\ Len(b) + Len(t) = m /\ Len(b) = m - n
        BY <2>1, <2>2, <4>1
      <4> HIDE DEF b, t, m
      <4>3. /\ b \o t \in Seq(ExprType) /\ Len(b \o t) = Len(b) + Len(t)
            /\ \A i \in 1 .. Len(b) + Len(t) :
                 (b \o t)[i] = IF i <= Len(b) THEN b[i] ELSE t[i - Len(b)]
        BY <4>2, ConcatProperties
      <4>4. /\ b \o t \in Seq(ExprType) /\ Len(b \o t) = m
            /\ \A i \in 1 .. m : (b \o t)[i] = IF i <= m - n THEN b[i] ELSE t[i - (m - n)]
        BY <4>2, <4>3
      <4> QED
        BY <4>4 DEF b, t
    <3>2. \A i \in 1 .. m : (Below(n) \o Taken(n))[i] = stack[i]
      <4> SUFFICES ASSUME NEW i \in 1 .. m PROVE (Below(n) \o Taken(n))[i] = stack[i]
        OBVIOUS
      <4>1. CASE i <= m - n
        <5>1. i \in 1 .. (m - n)
          BY <1>1, <4>1
        <5> QED
          BY <2>2, <3>1, <4>1, <5>1
      <4>2. CASE ~ (i <= m - n)
        <5>1. i - (m - n) \in 1 .. n /\ m - n + (i - (m - n)) = i
          BY <1>1, <1>3, <4>2
        <5> QED
          BY <2>1, <3>1, <4>2, <5>1
      <4> QED
        BY <4>1, <4>2
    <3> QED
      BY <3>1, <3>2, SeqEqual
  <2>7. /\ DOMAIN Below(n) = 1 .. (m - n) /\ DOMAIN Taken(n) = 1 .. n
    BY <2>1, <2>2
  <2> QED
    BY <1>1, <1>2, <2>1, <2>2, <2>4, <2>5, <2>6, <2>7
<1>4. CASE ~ (n <= m)
  <2>1. Taken(n) = stack
    BY <1>1, <1>4 DEF Taken
  <2>2. Below(n) = <<>> /\ DOMAIN <<>> = {} /\ <<>> \in Seq(ExprType)
    BY <1>1, <1>4, SubSeqEmpty, EmptySeq DEF Below
  <2>3. stack = Below(n) \o Taken(n)
    BY <2>1, <2>2, ConcatEmptySeq
  <2>4. /\ Invented(n) \in Seq(ExprType) /\ Len(Invented(n)) = n - m
        /\ DOMAIN Invented(n) = 1 .. (n - m)
        /\ \A i \in 1 .. (n - m) : Invented(n)[i] = StackValue
    <3> DEFINE v == Invented(n)
    <3>1. /\ v = [i \in 1 .. (n - m) |-> v[i]] /\ n - m \in Nat
          /\ \A i \in 1 .. (n - m) : v[i] = StackValue
      BY <1>1, <1>4 DEF Invented
    <3> HIDE DEF v
    <3>2. v \in [1 .. (n - m) -> ExprType]
      BY <3>1, StackValueType
    <3>3. v \in Seq(ExprType) /\ Len(v) = n - m
      BY <3>1, <3>2, SeqDef
    <3> QED
      BY <3>1, <3>3 DEF v
  <2>5. Popped(n) = Invented(n) \o Taken(n)
    <3>1. /\ Invented(n) \o stack \in Seq(ExprType)
          /\ Len(Invented(n) \o stack) = n
          /\ \A i \in 1 .. n : (Invented(n) \o stack)[i] =
               IF i <= n - m THEN Invented(n)[i] ELSE stack[i - (n - m)]
      <4>1. Len(Invented(n)) + Len(stack) = n
        BY <1>1, <2>4
      <4> QED
        BY <2>4, <4>1, ConcatProperties
    <3>2. \A i \in 1 .. n : (Invented(n) \o stack)[i] = Popped(n)[i]
      <4> SUFFICES ASSUME NEW i \in 1 .. n PROVE (Invented(n) \o stack)[i] = Popped(n)[i]
        OBVIOUS
      <4>1. CASE i <= n - m
        <5>1. i \in 1 .. (n - m) /\ ~ (m + i > n)
          BY <1>1, <4>1
        <5> QED
          BY <1>2, <2>4, <3>1, <4>1, <5>1
      <4>2. CASE ~ (i <= n - m)
        <5>1. m + i > n /\ m + i - n = i - (n - m)
          BY <1>1, <4>2
        <5> QED
          BY <1>2, <3>1, <4>2, <5>1
      <4> QED
        BY <4>1, <4>2
    <3> QED
      BY <1>2, <2>1, <3>1, <3>2, SeqEqual
  <2> QED
    BY <1>1, <1>2, <1>4, <2>1, <2>2, <2>3, <2>4, <2>5
<1> QED
  BY <1>1, <1>3, <1>4

-----------------------------------------------------------------------------
(* Types of what a step makes. *)

(* One value for every expression of a list. *)
LEMMA ValuesOf ==
  ASSUME NEW s \in Seq(ExprType)
  PROVE  /\ Values(s) \in Seq(Int) /\ Len(Values(s)) = Len(s)
         /\ \A i \in 1 .. Len(s) : Values(s)[i] = s[i].val
<1> DEFINE v == Values(s)
<1>1. /\ Len(s) \in Nat /\ v = [i \in 1 .. Len(s) |-> v[i]]
      /\ \A i \in 1 .. Len(s) : v[i] = s[i].val /\ s[i] \in ExprType
  BY DEF Values
<1> HIDE DEF v
<1>2. v \in [1 .. Len(s) -> Int]
  BY <1>1 DEF ExprType
<1>3. v \in Seq(Int) /\ Len(v) = Len(s)
  BY <1>1, <1>2, SeqDef
<1> QED
  BY <1>1, <1>3 DEF v

(* The words above and below a point of the operand stack. *)
LEMMA WordsSplit ==
  ASSUME words \in Seq(WordType), NEW k \in 0 .. Len(words)
  PROVE  LET low == SubSeq(words, 1, Len(words) - k)
             top == SubSeq(words, Len(words) - k + 1, Len(words))
         IN  /\ low \in Seq(WordType) /\ top \in Seq(WordType)
             /\ Len(low) = Len(words) - k /\ Len(top) = k
             /\ words = low \o top
             /\ \A i \in 1 .. (Len(words) - k) : low[i] = words[i]
             /\ \A i \in 1 .. k : top[i] = words[Len(words) - k + i]
             /\ Operands(k) = WordValues(top) /\ Operands(k) \in Seq(Int)
             /\ WordValues(words) = WordValues(low) \o Operands(k)
<1> DEFINE l   == Len(words)
           m   == l - k
           low == SubSeq(words, 1, m)
           top == SubSeq(words, m + 1, l)
<1>1. /\ l \in Nat /\ m \in Nat /\ m <= l /\ k = l - m
      /\ DOMAIN words = 1 .. l /\ \A i \in 1 .. l : words[i] \in WordType
  OBVIOUS
<1> HIDE DEF l, m
<1>2. low \in Seq(WordType) /\ Len(low) = m /\ \A i \in 1 .. m : low[i] = words[i]
  BY <1>1
<1>3. top \in Seq(WordType) /\ Len(top) = k /\ \A i \in 1 .. k : top[i] = words[m + i]
  BY <1>1
<1>4. words = low \o top
  <2>1. /\ low \o top \in Seq(WordType) /\ Len(low \o top) = Len(low) + Len(top)
        /\ \A i \in 1 .. Len(low) + Len(top) :
             (low \o top)[i] = IF i <= Len(low) THEN low[i] ELSE top[i - Len(low)]
    BY <1>2, <1>3, ConcatProperties
  <2>2. Len(low \o top) = l
    BY <1>1, <1>2, <1>3, <2>1
  <2>3. ASSUME NEW i \in 1 .. l PROVE words[i] = (low \o top)[i]
    <3>1. (low \o top)[i] = IF i <= m THEN low[i] ELSE top[i - m]
      BY <1>1, <1>2, <1>3, <2>1
    <3>2. CASE i <= m
      <4>1. i \in 1 .. m
        BY <1>1, <3>2
      <4> QED
        BY <1>2, <3>1, <3>2, <4>1
    <3>3. CASE ~ (i <= m)
      <4>1. i - m \in 1 .. k /\ m + (i - m) = i
        BY <1>1, <3>3
      <4>2. top[i - m] = words[m + (i - m)]
        BY <1>3, <4>1
      <4> QED
        BY <3>1, <3>3, <4>1, <4>2
    <3> QED
      BY <3>2, <3>3
  <2>4. Len(words) = l
    BY DEF l
  <2> QED
    BY <2>1, <2>2, <2>3, <2>4, SeqEqual
<1> HIDE DEF low, top
<1>5. Operands(k) = WordValues(top)
  BY DEF Operands, top, l, m
<1>6. WordValues(words) = WordValues(low) \o WordValues(top) /\ WordValues(top) \in Seq(Int)
  BY <1>2, <1>3, <1>4, WordValuesParts
<1> QED
  BY <1>2, <1>3, <1>4, <1>5, <1>6 DEF l, m, low, top

(* The words of a result. *)
LEMMA WordsOfType ==
  ASSUME NEW v \in Int, NEW wide \in BOOLEAN
  PROVE  WordsOf(v, wide) \in Seq(WordType) /\ WordValues(WordsOf(v, wide)) = <<v>>
<1> DEFINE one(h) == [val |-> v, half |-> h]
<1>1. \A h \in 0 .. 2 : one(h) \in WordType /\ one(h).val = v /\ one(h).half = h
  BY DEF WordType
<1>2. 0 \in 0 .. 2 /\ 1 \in 0 .. 2 /\ 2 \in 0 .. 2
  OBVIOUS
<1> HIDE DEF one
<1>3. \A h \in 0 .. 2 : /\ <<one(h)>> \in Seq(WordType)
                        /\ WordValues(<<one(h)>>) = IF h = 2 THEN <<>> ELSE <<v>>
  BY <1>1, WordValuesParts
<1>4. CASE wide
  <2>1. WordsOf(v, wide) = <<one(1)>> \o <<one(2)>>
    BY <1>4 DEF WordsOf, one
  <2>a. <<one(1)>> \in Seq(WordType) /\ WordValues(<<one(1)>>) = <<v>>
    BY <1>2, <1>3
  <2>b. <<one(2)>> \in Seq(WordType) /\ WordValues(<<one(2)>>) = <<>>
    BY <1>2, <1>3
  <2>2. WordValues(<<one(1)>> \o <<one(2)>>) = <<v>> \o <<>>
    BY <2>a, <2>b, WordValuesParts
  <2>3. <<one(1)>> \o <<one(2)>> \in Seq(WordType) /\ <<v>> \o <<>> = <<v>>
    BY <1>2, <1>3, ConcatProperties
  <2> QED
    BY <2>1, <2>2, <2>3
<1>5. CASE ~wide
  <2>1. WordsOf(v, wide) = <<one(0)>>
    BY <1>5 DEF WordsOf, one
  <2> QED
    BY <1>2, <1>3, <2>1
<1> QED
  BY <1>4, <1>5

(* An instruction that runs is recorded. *)
LEMMA Recorded ==
  ASSUME TypeInv, NEW what \in {"pure", "read", "set", "heap", "effect"},
         NEW at \in Int, NEW in \in Seq(Int), Executes(what, at, in)
  PROVE  /\ Event(what, at, in) \in EventType
         /\ Event(what, at, in).what = what /\ Event(what, at, in).at = at
         /\ Event(what, at, in).in = in
         /\ did' \in Seq(EventType) /\ Len(did') = Step /\ Step \in Nat /\ Step > 0
         /\ Len(did) \in Nat /\ Step = Len(did) + 1
         /\ did'[Step] = Event(what, at, in)
         /\ \A i \in 1 .. Len(did) : did'[i] = did[i]
         /\ did' = Append(did, Event(what, at, in))
         /\ ~ended
<1>1. Event(what, at, in) \in EventType
  BY DEF Event, EventType
<1>2. did' = Append(did, Event(what, at, in)) /\ did \in Seq(EventType) /\ ~ended
  BY DEF Executes, TypeInv, Running
<1> QED
  BY <1>1, <1>2, AppendProperties DEF Step, Event

(* What an instruction takes off the JVM's stack and puts on it. *)
LEMMA EndsParts ==
  ASSUME TypeInv, NEW n, NEW k \in Ends(n)
  PROVE  /\ k \in 0 .. Len(words) /\ Running
         /\ Operands(k) \in Seq(Int) /\ Len(Operands(k)) = n
         /\ (k > 0 => words[Len(words) - k + 1].half # 2)
         /\ \A r \in Seq(WordType) :
              /\ WordsAfter(k, r) \in Seq(WordType)
              /\ WordValues(WordsAfter(k, r)) =
                   WordValues(SubSeq(words, 1, Len(words) - k)) \o WordValues(r)
<1> DEFINE low == SubSeq(words, 1, Len(words) - k)
<1>1. k \in 0 .. Len(words) /\ Running /\ Len(Operands(k)) = n
      /\ (k > 0 => words[Len(words) - k + 1].half # 2)
  BY DEF Ends
<1>2. words \in Seq(WordType)
  BY DEF TypeInv
<1>3. low \in Seq(WordType) /\ Operands(k) \in Seq(Int)
  BY <1>1, <1>2, WordsSplit
<1>4. \A r : WordsAfter(k, r) = low \o r
  BY DEF WordsAfter
<1> HIDE DEF low
<1>5. \A r \in Seq(WordType) : /\ low \o r \in Seq(WordType)
                               /\ WordValues(low \o r) = WordValues(low) \o WordValues(r)
  BY <1>3, WordValuesParts, ConcatProperties
<1> QED
  BY <1>1, <1>3, <1>4, <1>5 DEF low

(* What it takes off the expressions. *)
LEMMA ArgsParts ==
  ASSUME TypeInv, NEW n \in Nat
  PROVE  /\ ArgsOf(n) = Popped(n)
         /\ Popped(n) \in Seq(ExprType) /\ Len(Popped(n)) = n
         /\ EventsOf(Popped(n)) \in Seq(EventType)
         /\ Values(Popped(n)) \in Seq(Int) /\ Len(Values(Popped(n))) = n
         /\ Below(n) \in Seq(ExprType) /\ EventsOf(Below(n)) \in Seq(EventType)
<1>1. stack \in Seq(ExprType)
  BY DEF TypeInv
<1>2. /\ Popped(n) \in Seq(ExprType) /\ Len(Popped(n)) = n
      /\ Below(n) \in Seq(ExprType)
  BY <1>1, PoppedParts
<1>3. EventsOf(Popped(n)) \in Seq(EventType) /\ EventsOf(Below(n)) \in Seq(EventType)
  BY <1>2, EventsOfParts
<1>4. Values(Popped(n)) \in Seq(Int) /\ Len(Values(Popped(n))) = n
  BY <1>2, ValuesOf
<1> QED
  BY <1>2, <1>3, <1>4 DEF ArgsOf

(* An expression is put together of its three parts. *)
LEMMA ExprIsTyped ==
  ASSUME NEW form \in {"name", "new", "other"}, NEW val \in Int,
         NEW events \in Seq(EventType)
  PROVE  /\ Expr(form, val, events) \in ExprType
         /\ Expr(form, val, events).form = form /\ Expr(form, val, events).val = val
         /\ Expr(form, val, events).events = events
BY DEF Expr, ExprType

(* The rest of the type invariant follows. *)
LEMMA TypeStep ==
  ASSUME TypeInv, NEW what \in {"pure", "read", "set", "heap", "effect"},
         NEW at \in Int, NEW in \in Seq(Int), Executes(what, at, in),
         words' \in Seq(WordType), locals' \in [Locals -> Int],
         raw' \subseteq raw \cup {Step}, stack' \in Seq(ExprType), out' \in Seq(EventType),
         {ended', disturbed', dropped', copied'} \subseteq BOOLEAN
  PROVE  TypeInv'
<1>1. did' \in Seq(EventType) /\ Len(did') = Len(did) + 1 /\ Len(did) \in Nat /\ Step = Len(did) + 1
  BY Recorded
<1>2. raw' \subseteq 1 .. Len(did')
  <2>1. raw \subseteq 1 .. Len(did)
    BY DEF TypeInv
  <2>2. 1 .. Len(did) \subseteq 1 .. Len(did') /\ Step \in 1 .. Len(did')
    BY <1>1
  <2> QED
    BY <2>1, <2>2
<1> QED
  BY <1>1, <1>2 DEF TypeInv

(* Pushing an expression keeps the types of what it changes. *)
LEMMA PushTyped ==
  ASSUME TypeInv, NEW rest \in Seq(ExprType), NEW e \in ExprType, Push(rest, e)
  PROVE  stack' \in Seq(ExprType) /\ out' \in Seq(EventType) /\ disturbed' \in BOOLEAN
BY DEF TypeInv, Push

(* Printing a statement keeps the types of what it changes. *)
LEMMA SayTyped ==
  ASSUME TypeInv, NEW rest \in Seq(ExprType), NEW events \in Seq(EventType),
         Say(rest, events)
  PROVE  stack' \in Seq(ExprType) /\ out' \in Seq(EventType) /\ disturbed' \in BOOLEAN
<1>1. out \in Seq(EventType) /\ out' = out \o events /\ stack' = rest
  BY DEF TypeInv, Say
<1>2. out' \in Seq(EventType)
  BY <1>1, ConcatProperties
<1>3. disturbed' \in BOOLEAN
  BY DEF Say
<1> QED
  BY <1>1, <1>2, <1>3

(* Each action keeps the types. *)
LEMMA ConstantTyped ==
  ASSUME TypeInv, Constant
  PROVE  TypeInv'
<1>1. PICK wide \in BOOLEAN :
        /\ Executes("pure", Step, <<>>)
        /\ words' = words \o WordsOf(Step, wide)
        /\ Push(stack, Expr("other", Step, <<Event("pure", Step, <<>>)>>))
        /\ UNCHANGED <<locals, raw, ended, dropped, copied>>
  BY DEF Constant
<1>2. Step \in Int /\ <<>> \in Seq(Int) /\ stack \in Seq(ExprType)
  BY EmptySeq DEF TypeInv, Step
<1>3. Event("pure", Step, <<>>) \in EventType
  BY <1>1, <1>2, Recorded
<1>4. <<Event("pure", Step, <<>>)>> \in Seq(EventType)
  BY <1>3
<1>5. Expr("other", Step, <<Event("pure", Step, <<>>)>>) \in ExprType
  BY <1>2, <1>4, ExprIsTyped
<1>6. words' \in Seq(WordType)
  BY <1>1, <1>2, WordsOfType, ConcatProperties DEF TypeInv
<1>7. stack' \in Seq(ExprType) /\ out' \in Seq(EventType) /\ disturbed' \in BOOLEAN
  BY <1>1, <1>2, <1>5, PushTyped
<1> QED
  BY <1>1, <1>2, <1>6, <1>7, TypeStep DEF TypeInv

(* Loading a local keeps every variable of its type. *)
LEMMA LoadTyped ==
  ASSUME TypeInv, NEW x \in Locals, Load(x)
  PROVE  TypeInv'
<1>1. /\ Executes("read", x, <<locals[x]>>)
      /\ words' = words \o WordsOf(locals[x], FALSE)
      /\ Push(stack, Expr("name", locals[x], <<Event("read", x, <<locals[x]>>)>>))
      /\ UNCHANGED <<locals, raw, ended, dropped, copied>>
  BY DEF Load
<1>2. x \in Int /\ locals[x] \in Int /\ <<locals[x]>> \in Seq(Int) /\ stack \in Seq(ExprType)
  BY StackAssumption DEF TypeInv
<1>3. Event("read", x, <<locals[x]>>) \in EventType
  BY <1>1, <1>2, Recorded
<1>4. <<Event("read", x, <<locals[x]>>)>> \in Seq(EventType)
  BY <1>3
<1>5. Expr("name", locals[x], <<Event("read", x, <<locals[x]>>)>>) \in ExprType
  BY <1>2, <1>4, ExprIsTyped
<1>6. words' \in Seq(WordType)
  BY <1>1, <1>2, WordsOfType, ConcatProperties DEF TypeInv
<1>7. stack' \in Seq(ExprType) /\ out' \in Seq(EventType) /\ disturbed' \in BOOLEAN
  BY <1>1, <1>2, <1>5, PushTyped
<1> QED
  BY <1>1, <1>2, <1>6, <1>7, TypeStep DEF TypeInv

(* The expression of a single operand. *)
LEMMA OneArg ==
  ASSUME TypeInv
  PROVE  /\ Popped(1)[1] \in ExprType /\ ArgsOf(1)[1] = Popped(1)[1]
         /\ EventsOf(Popped(1)) = Popped(1)[1].events
         /\ Values(Popped(1)) = <<Popped(1)[1].val>>
         /\ Popped(1) = <<Popped(1)[1]>>
<1>1. /\ ArgsOf(1) = Popped(1) /\ Popped(1) \in Seq(ExprType) /\ Len(Popped(1)) = 1
      /\ Values(Popped(1)) \in Seq(Int) /\ Len(Values(Popped(1))) = 1
  BY ArgsParts
<1>2. Popped(1)[1] \in ExprType /\ Popped(1) = <<Popped(1)[1]>>
  BY <1>1
<1>3. EventsOf(<<Popped(1)[1]>>) = Popped(1)[1].events
  BY <1>2, EventsOfParts
<1>4. Values(Popped(1))[1] = Popped(1)[1].val
  BY <1>1, ValuesOf
<1>5. Values(Popped(1)) = <<Values(Popped(1))[1]>>
  BY <1>1
<1> QED
  BY <1>1, <1>2, <1>3, <1>4, <1>5

(* Storing a local keeps every variable of its type. *)
LEMMA StoreTyped ==
  ASSUME TypeInv, NEW x \in Locals, Store(x)
  PROVE  TypeInv'
<1> DEFINE e == Popped(1)[1]
<1>1. PICK k \in Ends(1) :
        /\ Executes("set", x, Operands(k))
        /\ words' = WordsAfter(k, <<>>)
        /\ locals' = [locals EXCEPT ![x] = Operands(k)[1]]
        /\ Say(Below(1), Append(e.events, Event("set", x, <<e.val>>)))
        /\ UNCHANGED <<raw, ended, dropped, copied>>
  BY OneArg, Zenon DEF Store
<1>2. Operands(k) \in Seq(Int) /\ Operands(k)[1] \in Int /\ x \in Int
  BY <1>1, EndsParts, StackAssumption
<1>3. Below(1) \in Seq(ExprType) /\ e \in ExprType
  BY OneArg, ArgsParts
<1>4. Event("set", x, <<e.val>>) \in EventType
  BY <1>2, <1>3 DEF Event, EventType, ExprType
<1>5. Append(e.events, Event("set", x, <<e.val>>)) \in Seq(EventType)
  BY <1>3, <1>4 DEF ExprType
<1>6. words' \in Seq(WordType) /\ locals' \in [Locals -> Int]
  BY <1>1, <1>2, EndsParts, EmptySeq DEF TypeInv
<1>7. stack' \in Seq(ExprType) /\ out' \in Seq(EventType) /\ disturbed' \in BOOLEAN
  BY <1>1, <1>3, <1>5, SayTyped
<1> QED
  BY <1>1, <1>2, <1>6, <1>7, TypeStep DEF TypeInv

(* Incrementing a local keeps every variable of its type. *)
LEMMA IncrementTyped ==
  ASSUME TypeInv, NEW x \in Locals, Increment(x)
  PROVE  TypeInv'
<1> DEFINE read == Event("read", x, <<locals[x]>>)
           set  == Event("set", x, <<Step>>)
<1>1. /\ Executes("set", x, <<Step>>)
      /\ locals' = [locals EXCEPT ![x] = Step]
      /\ Say(stack, <<read, set>>)
      /\ UNCHANGED <<words, raw, ended, dropped, copied>>
  BY DEF Increment
<1>2. x \in Int /\ locals[x] \in Int /\ Step \in Int /\ stack \in Seq(ExprType)
  BY StackAssumption DEF TypeInv, Step
<1>3. read \in EventType /\ set \in EventType
  BY <1>2 DEF Event, EventType
<1>4. <<read, set>> \in Seq(EventType)
  BY <1>3
<1>5. words' \in Seq(WordType) /\ locals' \in [Locals -> Int]
  BY <1>1, <1>2 DEF TypeInv
<1>6. stack' \in Seq(ExprType) /\ out' \in Seq(EventType) /\ disturbed' \in BOOLEAN
  BY <1>1, <1>2, <1>4, SayTyped
<1>7. <<Step>> \in Seq(Int)
  BY <1>2
<1> HIDE DEF read, set
<1> QED
  BY <1>1, <1>2, <1>5, <1>6, <1>7, TypeStep DEF TypeInv

(* An operation on what is popped, and its expression. *)
LEMMA OperationTyped ==
  ASSUME TypeInv, NEW n \in Nat, NEW what \in {"pure", "read", "set", "heap", "effect"}
  PROVE  LET e == Event(what, Step, Values(Popped(n)))
             s == Append(EventsOf(Popped(n)), e)
         IN  /\ e \in EventType /\ s \in Seq(EventType) /\ s = EventsOf(Popped(n)) \o <<e>>
             /\ Step \in Int
             /\ Expr("other", Step, s) \in ExprType
<1> DEFINE e == Event(what, Step, Values(Popped(n)))
           p == EventsOf(Popped(n))
<1>0. Step \in Int
  BY DEF TypeInv, Step
<1>1. Values(Popped(n)) \in Seq(Int) /\ p \in Seq(EventType)
  BY ArgsParts
<1>2. e \in EventType
  BY <1>0, <1>1 DEF Event, EventType
<1> HIDE DEF e, p
<1>3. Append(p, e) \in Seq(EventType) /\ Append(p, e) = p \o <<e>>
  BY <1>1, <1>2, AppendIsConcat
<1>4. Expr("other", Step, Append(p, e)) \in ExprType
  BY <1>0, <1>3, ExprIsTyped
<1> QED
  BY <1>0, <1>1, <1>2, <1>3, <1>4 DEF e, p

(* An arithmetic, comparison or heap-reading instruction keeps every variable
   of its type. *)
LEMMA OperateTyped ==
  ASSUME TypeInv, NEW n \in Nat, NEW what \in {"pure", "heap"}, Operate(n, what)
  PROVE  TypeInv'
<1> DEFINE e == Event(what, Step, Values(Popped(n)))
           s == Append(EventsOf(Popped(n)), e)
<1>1. PICK k \in Ends(n) :
        /\ Executes(what, Step, Operands(k))
        /\ words' = WordsAfter(k, WordsOf(Step, FALSE))
        /\ Push(Below(n), Expr("other", Step, s))
        /\ UNCHANGED <<locals, raw, ended, dropped, copied>>
  BY DEF Operate, ArgsOf
<1>2. /\ Below(n) \in Seq(ExprType) /\ Step \in Int /\ Expr("other", Step, s) \in ExprType
  BY ArgsParts, OperationTyped
<1>3. Operands(k) \in Seq(Int) /\ words' \in Seq(WordType)
  BY <1>1, <1>2, EndsParts, WordsOfType
<1>4. stack' \in Seq(ExprType) /\ out' \in Seq(EventType) /\ disturbed' \in BOOLEAN
  BY <1>1, <1>2, PushTyped
<1> HIDE DEF s, e
<1> QED
  BY <1>1, <1>2, <1>3, <1>4, TypeStep DEF TypeInv

(* A store to a field or an array keeps every variable of its type. *)
LEMMA PutTyped ==
  ASSUME TypeInv, NEW n \in Nat, Put(n)
  PROVE  TypeInv'
<1> DEFINE e == Event("effect", Step, Values(Popped(n)))
           s == Append(EventsOf(Popped(n)), e)
<1>1. PICK k \in Ends(n) :
        /\ Executes("effect", Step, Operands(k))
        /\ words' = WordsAfter(k, <<>>)
        /\ Say(Below(n), s)
        /\ UNCHANGED <<locals, raw, ended, dropped, copied>>
  BY DEF Put, ArgsOf
<1>2. Below(n) \in Seq(ExprType) /\ Step \in Int /\ s \in Seq(EventType)
  BY ArgsParts, OperationTyped
<1>3. Operands(k) \in Seq(Int) /\ words' \in Seq(WordType)
  BY <1>1, EndsParts, EmptySeq
<1>4. stack' \in Seq(ExprType) /\ out' \in Seq(EventType) /\ disturbed' \in BOOLEAN
  BY <1>1, <1>2, SayTyped
<1> HIDE DEF s, e
<1> QED
  BY <1>1, <1>2, <1>3, <1>4, TypeStep DEF TypeInv

(* A call keeps every variable of its type. *)
LEMMA InvokeTyped ==
  ASSUME TypeInv, NEW n \in Nat, NEW void \in BOOLEAN, Invoke(n, void)
  PROVE  TypeInv'
<1> DEFINE e == Event("effect", Step, Values(Popped(n)))
           s == Append(EventsOf(Popped(n)), e)
<1>1. PICK k \in Ends(n), wide \in BOOLEAN :
        /\ Executes("effect", Step, Operands(k))
        /\ words' = WordsAfter(k, IF void THEN <<>> ELSE WordsOf(Step, wide))
        /\ IF void THEN Say(Below(n), s) ELSE Push(Below(n), Expr("other", Step, s))
        /\ UNCHANGED <<locals, raw, ended, dropped, copied>>
  BY DEF Invoke, ArgsOf
<1>2. /\ Below(n) \in Seq(ExprType) /\ Step \in Int /\ s \in Seq(EventType)
      /\ Expr("other", Step, s) \in ExprType
  BY ArgsParts, OperationTyped
<1>3. (IF void THEN <<>> ELSE WordsOf(Step, wide)) \in Seq(WordType)
  BY <1>2, WordsOfType, EmptySeq
<1>4. Operands(k) \in Seq(Int) /\ words' \in Seq(WordType)
  BY <1>1, <1>3, EndsParts
<1>5. stack' \in Seq(ExprType) /\ out' \in Seq(EventType) /\ disturbed' \in BOOLEAN
  BY <1>1, <1>2, SayTyped, PushTyped
<1> HIDE DEF s, e
<1> QED
  BY <1>1, <1>2, <1>4, <1>5, TypeStep DEF TypeInv

(* A new object keeps every variable of its type. *)
LEMMA NewTyped ==
  ASSUME TypeInv, New
  PROVE  TypeInv'
<1>1. /\ Executes("pure", Step, <<>>)
      /\ words' = words \o WordsOf(Step, FALSE)
      /\ raw' = raw \cup {Step}
      /\ Push(stack, Expr("new", Step, <<>>))
      /\ UNCHANGED <<locals, ended, dropped, copied>>
  BY DEF New
<1>2. Step \in Int /\ stack \in Seq(ExprType) /\ <<>> \in Seq(Int) /\ <<>> \in Seq(EventType)
  BY EmptySeq DEF TypeInv, Step
<1>3. Expr("new", Step, <<>>) \in ExprType
  BY <1>2, ExprIsTyped
<1>4. words' \in Seq(WordType)
  BY <1>1, <1>2, WordsOfType, ConcatProperties DEF TypeInv
<1>5. stack' \in Seq(ExprType) /\ out' \in Seq(EventType) /\ disturbed' \in BOOLEAN
  BY <1>1, <1>2, <1>3, PushTyped
<1> QED
  BY <1>1, <1>2, <1>4, <1>5, TypeStep DEF TypeInv

(* invokespecial <init>: the object with its arguments, and the stack with
   every occurrence of the object replaced. *)
Made(n) ==
  Expr("new", Popped(n + 1)[1].val,
       Append(EventsOf(Tail(Popped(n + 1))), Event("effect", Step, Values(Popped(n + 1)))))

Same(a, b) == a.form = "new" /\ b.form = "new" /\ a.val = b.val

Replaced(s, e) == [i \in DOMAIN s |-> IF Same(s[i], e) THEN e ELSE s[i]]

(* The object a constructor call makes: its form, value and events. *)
LEMMA MadeParts ==
  ASSUME TypeInv, NEW n \in Nat
  PROVE  LET args == Popped(n + 1)
             e    == Event("effect", Step, Values(args))
         IN  /\ Made(n) \in ExprType /\ Made(n).form = "new" /\ Made(n).val = args[1].val
             /\ args[1] \in ExprType /\ Tail(args) \in Seq(ExprType)
             /\ args = <<args[1]>> \o Tail(args)
             /\ EventsOf(args) = args[1].events \o EventsOf(Tail(args))
             /\ e \in EventType /\ e.at = Step /\ e.what = "effect"
             /\ EventsOf(Tail(args)) \in Seq(EventType)
             /\ Made(n).events = EventsOf(Tail(args)) \o <<e>>
<1> DEFINE args == Popped(n + 1)
           e    == Event("effect", Step, Values(args))
<1>1. /\ args \in Seq(ExprType) /\ Len(args) = n + 1 /\ n + 1 \in Nat
      /\ Values(args) \in Seq(Int)
  BY ArgsParts
<1>2. Step \in Int
  BY DEF TypeInv, Step
<1>3. e \in EventType /\ e.at = Step /\ e.what = "effect"
  BY <1>1, <1>2 DEF Event, EventType
<1> HIDE DEF e, args
<1>4. args # <<>> /\ args[1] \in ExprType
  BY <1>1
<1>5. Tail(args) \in Seq(ExprType) /\ args = <<args[1]>> \o Tail(args)
  <2>1. Tail(args) \in Seq(ExprType) /\ <<Head(args)>> \o Tail(args) = args
    BY <1>1, <1>4, HeadTailProperties
  <2>2. Head(args) = args[1]
    OBVIOUS
  <2> QED
    BY <2>1, <2>2
<1>6. EventsOf(args) = args[1].events \o EventsOf(Tail(args))
  <2>1. <<args[1]>> \in Seq(ExprType)
    BY <1>4
  <2>2. EventsOf(<<args[1]>> \o Tail(args)) = EventsOf(<<args[1]>>) \o EventsOf(Tail(args))
    BY <1>5, <2>1, EventsOfParts
  <2>3. EventsOf(<<args[1]>>) = args[1].events
    BY <1>4, EventsOfParts
  <2> QED
    BY <1>5, <2>2, <2>3
<1>7. EventsOf(Tail(args)) \in Seq(EventType)
  BY <1>5, EventsOfParts
<1>8. /\ Append(EventsOf(Tail(args)), e) \in Seq(EventType)
      /\ Append(EventsOf(Tail(args)), e) = EventsOf(Tail(args)) \o <<e>>
  BY <1>3, <1>7, AppendIsConcat
<1>9. Made(n) = Expr("new", args[1].val, Append(EventsOf(Tail(args)), e))
  BY DEF Made, args, e
<1>10. args[1].val \in Int
  BY <1>4 DEF ExprType
<1>11. /\ Made(n) \in ExprType /\ Made(n).form = "new" /\ Made(n).val = args[1].val
       /\ Made(n).events = Append(EventsOf(Tail(args)), e)
  <2> DEFINE v  == args[1].val
             es == Append(EventsOf(Tail(args)), e)
  <2>1. v \in Int /\ es \in Seq(EventType) /\ Made(n) = Expr("new", v, es)
    BY <1>8, <1>9, <1>10
  <2> HIDE DEF v, es
  <2>2. /\ Expr("new", v, es) \in ExprType /\ Expr("new", v, es).form = "new"
        /\ Expr("new", v, es).val = v /\ Expr("new", v, es).events = es
    BY <2>1, ExprIsTyped
  <2> QED
    BY <2>1, <2>2 DEF v, es
<1> QED
  BY <1>3, <1>4, <1>5, <1>6, <1>7, <1>8, <1>11 DEF args, e

(* Replacing an object on the stack changes the copies of it and nothing
   else. *)
LEMMA ReplacedParts ==
  ASSUME NEW s \in Seq(ExprType), NEW e \in ExprType
  PROVE  /\ Replaced(s, e) \in Seq(ExprType) /\ Len(Replaced(s, e)) = Len(s)
         /\ DOMAIN Replaced(s, e) = DOMAIN s
         /\ \A i \in DOMAIN s : Replaced(s, e)[i] = IF Same(s[i], e) THEN e ELSE s[i]
<1> DEFINE r == Replaced(s, e)
<1>1. /\ Len(s) \in Nat /\ DOMAIN s = 1 .. Len(s) /\ r = [i \in 1 .. Len(s) |-> r[i]]
      /\ \A i \in 1 .. Len(s) : r[i] = (IF Same(s[i], e) THEN e ELSE s[i]) /\ r[i] \in ExprType
  BY DEF Replaced
<1> HIDE DEF r
<1>2. r \in [1 .. Len(s) -> ExprType]
  BY <1>1
<1>3. r \in Seq(ExprType) /\ Len(r) = Len(s) /\ DOMAIN r = DOMAIN s
  BY <1>1, <1>2, SeqDef
<1> QED
  BY <1>1, <1>3 DEF r

(* What AfterInit keeps below the object. *)
Kept(n, e) ==
  LET rest == Below(n + 1)
  IN  IF rest # <<>> /\ rest[Len(rest)].form = "new" /\ rest[Len(rest)].val = e.val
      THEN SubSeq(rest, 1, Len(rest) - 1) ELSE rest

(* What is left of the stack after a constructor call: entries from below the
   operands, then the object. *)
LEMMA AfterInitParts ==
  ASSUME TypeInv, NEW n \in Nat, NEW e \in ExprType, e.form = "new"
  PROVE  /\ AfterInit(n, e) = Append(Kept(n, e), e)
         /\ Kept(n, e) \in Seq(ExprType) /\ Len(Kept(n, e)) <= Len(Below(n + 1))
         /\ \A i \in DOMAIN Kept(n, e) :
              i \in DOMAIN Below(n + 1) /\ Kept(n, e)[i] = Below(n + 1)[i]
         /\ \A i \in DOMAIN Below(n + 1) :
              i \in DOMAIN Kept(n, e) \/ Same(Below(n + 1)[i], e)
         /\ AfterInit(n, e) \in Seq(ExprType)
<1> DEFINE rest == Below(n + 1)
           l    == Len(rest)
           dup  == rest # <<>> /\ rest[l].form = "new" /\ rest[l].val = e.val
           kept == IF dup THEN SubSeq(rest, 1, l - 1) ELSE rest
<1>1. AfterInit(n, e) = Append(kept, e) /\ Kept(n, e) = kept
  BY DEF AfterInit, Kept
<1>2. rest \in Seq(ExprType) /\ l \in Nat /\ DOMAIN rest = 1 .. l
  BY ArgsParts
<1>3. /\ kept \in Seq(ExprType) /\ Len(kept) <= l
      /\ \A i \in DOMAIN kept : i \in DOMAIN rest /\ kept[i] = rest[i]
      /\ \A i \in DOMAIN rest : i \in DOMAIN kept \/ Same(rest[i], e)
  <2>1. CASE dup
    <3>1. l # 0
      BY <1>2, <2>1, EmptySeq
    <3> DEFINE front == SubSeq(rest, 1, l - 1)
    <3>2. l - 1 \in 0 .. l /\ kept = front
      BY <1>2, <2>1, <3>1
    <3>3. front \in Seq(ExprType) /\ Len(front) = l - 1 /\ \A i \in 1 .. (l - 1) : front[i] = rest[i]
      BY <1>2, <3>1
    <3>4. \A i \in 1 .. l : i \in 1 .. (l - 1) \/ i = l
      BY <1>2
    <3>5. \A i \in 1 .. (l - 1) : i \in 1 .. l
      BY <1>2
    <3>6. Same(rest[l], e)
      BY <2>1 DEF Same
    <3> HIDE DEF front, rest, dup, kept
    <3>7. DOMAIN front = 1 .. (l - 1)
      BY <1>2, <3>2, <3>3
    <3>8. l - 1 <= l
      BY <1>2
    <3> HIDE DEF l
    <3> QED
      BY <1>2, <3>2, <3>3, <3>4, <3>5, <3>6, <3>7, <3>8
  <2>2. CASE ~dup
    BY <1>2, <2>2
  <2> QED
    BY <2>1, <2>2
<1> HIDE DEF rest, dup, kept
<1>4. Append(kept, e) \in Seq(ExprType)
  BY <1>3
<1> QED
  BY <1>1, <1>3, <1>4 DEF rest, l

(* Its step in these terms. *)
LEMMA ConstructParts ==
  ASSUME TypeInv, NEW n \in Nat, Construct(n)
  PROVE  \E k \in Ends(n + 1) :
           LET args  == Popped(n + 1)
               obj   == Operands(k)[1]
               found == args[1].form = "new"
               after == AfterInit(n, Made(n))
               places == {i \in DOMAIN words : words[i].val = obj}
           IN
           /\ obj \in raw
           /\ \A i \in 2 .. (n + 1) : Operands(k)[i] \notin raw
           /\ Executes("effect", Step, Operands(k))
           /\ words' = WordsAfter(k, <<>>)
           /\ raw' = raw \ {obj}
           /\ stack' = (IF found THEN Replaced(after, Made(n)) ELSE Below(n + 1))
           /\ disturbed' = (disturbed \/ ~found \/ places # {Len(words) - k, Len(words) - k + 1})
           /\ dropped' = (dropped \/ ~found \/ HasEffect(args[1].events))
           /\ copied' = (copied \/ (found /\ Cardinality({i \in DOMAIN after : Same(after[i], Made(n))}) > 1))
           /\ UNCHANGED <<locals, out, ended>>
<1>1. Made(n).form = "new" /\ Made(n).val = Popped(n + 1)[1].val
  BY MadeParts
<1> DEFINE args   == Popped(n + 1)
           after  == AfterInit(n, Made(n))
           isMade == {i \in DOMAIN after : after[i].form = "new" /\ after[i].val = Made(n).val}
<1>2. isMade = {i \in DOMAIN after : Same(after[i], Made(n))}
  BY <1>1 DEF Same
<1>3. [i \in DOMAIN after |-> IF i \in isMade THEN Made(n) ELSE after[i]] = Replaced(after, Made(n))
  BY <1>2 DEF Replaced
<1>4. PICK k \in Ends(n + 1) :
           LET obj   == Operands(k)[1]
               found == args[1].form = "new"
               places == {i \in DOMAIN words : words[i].val = obj}
           IN
           /\ obj \in raw
           /\ \A i \in 2 .. (n + 1) : Operands(k)[i] \notin raw
           /\ Executes("effect", Step, Operands(k))
           /\ words' = WordsAfter(k, <<>>)
           /\ raw' = raw \ {obj}
           /\ stack' = (IF found THEN [i \in DOMAIN after |-> IF i \in isMade THEN Made(n) ELSE after[i]]
                                 ELSE Below(n + 1))
           /\ disturbed' = (disturbed \/ ~found \/ places # {Len(words) - k, Len(words) - k + 1})
           /\ dropped' = (dropped \/ ~found \/ HasEffect(args[1].events))
           /\ copied' = (copied \/ (found /\ Cardinality(isMade) > 1))
           /\ UNCHANGED <<locals, out, ended>>
  BY Zenon DEF Construct, Made, ArgsOf
<1> HIDE DEF after, isMade, args
<1> QED
  BY <1>2, <1>3, <1>4, Zenon DEF args, after

(* A constructor call keeps every variable of its type. *)
LEMMA ConstructTyped ==
  ASSUME TypeInv, NEW n \in Nat, Construct(n)
  PROVE  TypeInv'
<1> DEFINE args  == Popped(n + 1)
           made  == Made(n)
           after == AfterInit(n, made)
<1>1. PICK k \in Ends(n + 1) :
        /\ Executes("effect", Step, Operands(k))
        /\ words' = WordsAfter(k, <<>>)
        /\ raw' \subseteq raw
        /\ stack' = (IF args[1].form = "new" THEN Replaced(after, made) ELSE Below(n + 1))
        /\ {disturbed', dropped', copied'} \subseteq BOOLEAN
        /\ UNCHANGED <<locals, out, ended>>
  BY ConstructParts
<1>2. made \in ExprType /\ made.form = "new"
  BY MadeParts
<1>3. after \in Seq(ExprType)
  BY <1>2, AfterInitParts
<1>4. Below(n + 1) \in Seq(ExprType)
  BY ArgsParts
<1>5. Replaced(after, made) \in Seq(ExprType)
  BY <1>2, <1>3, ReplacedParts
<1> HIDE DEF after, made, args
<1>6. stack' \in Seq(ExprType)
  BY <1>1, <1>4, <1>5
<1>7. Step \in Int
  BY DEF TypeInv, Step
<1>8. Operands(k) \in Seq(Int) /\ words' \in Seq(WordType)
  BY <1>1, EndsParts, EmptySeq
<1>9. {ended', disturbed', dropped', copied'} \subseteq BOOLEAN /\ out' \in Seq(EventType)
      /\ locals' \in [Locals -> Int]
  BY <1>1 DEF TypeInv
<1> QED
  BY <1>1, <1>6, <1>7, <1>8, <1>9, TypeStep

(* The table of the shuffles: what is given back was taken, and everything
   that was taken is given back. *)
LEMMA ShufflesParts ==
  ASSUME NEW s \in Shuffles
  PROVE  /\ s.take \in Nat /\ s.give \in Seq(1 .. s.take)
         /\ DOMAIN s.give = 1 .. Len(s.give) /\ Len(s.give) \in Nat
         /\ \A m \in DOMAIN s.give : s.give[m] \in 1 .. s.take
         /\ \A i \in 1 .. s.take : \E m \in DOMAIN s.give : s.give[m] = i
<1>1. s.take \in Nat /\ s.give \in Seq(1 .. s.take)
  <2> DEFINE Typed(give, n) == n \in Nat /\ give \in Seq(1 .. n)
  <2>1. Typed(<<1, 1>>, 1)
    OBVIOUS
  <2>2. Typed(<<2, 1, 2>>, 2)
    OBVIOUS
  <2>3. Typed(<<3, 1, 2, 3>>, 3)
    OBVIOUS
  <2>4. Typed(<<1, 2, 1, 2>>, 2)
    OBVIOUS
  <2>5. Typed(<<2, 3, 1, 2, 3>>, 3)
    OBVIOUS
  <2>6. Typed(<<3, 4, 1, 2, 3, 4>>, 4)
    OBVIOUS
  <2>7. Typed(<<2, 1>>, 2)
    OBVIOUS
  <2> HIDE DEF Typed
  <2>8. Typed(s.give, s.take)
    BY <2>1, <2>2, <2>3, <2>4, <2>5, <2>6, <2>7 DEF Shuffles
  <2> QED
    BY <2>8 DEF Typed
<1>2. \A i \in 1 .. s.take : \E m \in DOMAIN s.give : s.give[m] = i
  <2> DEFINE All(give, n) == \A i \in 1 .. n : \E m \in DOMAIN give : give[m] = i
  <2>1. All(<<1, 1>>, 1)
    OBVIOUS
  <2>2. All(<<2, 1, 2>>, 2)
    OBVIOUS
  <2>3. All(<<3, 1, 2, 3>>, 3)
    OBVIOUS
  <2>4. All(<<1, 2, 1, 2>>, 2)
    OBVIOUS
  <2>5. All(<<2, 3, 1, 2, 3>>, 3)
    OBVIOUS
  <2>6. All(<<3, 4, 1, 2, 3, 4>>, 4)
    OBVIOUS
  <2>7. All(<<2, 1>>, 2)
    OBVIOUS
  <2> HIDE DEF All
  <2>8. All(s.give, s.take)
    BY <2>1, <2>2, <2>3, <2>4, <2>5, <2>6, <2>7 DEF Shuffles
  <2> QED
    BY <2>8 DEF All
<1> QED
  BY <1>1, <1>2

(* Choosing elements of a sequence by their numbers. *)
LEMMA Chosen ==
  ASSUME NEW E, NEW n \in Nat, NEW top \in Seq(E), Len(top) = n, NEW give \in Seq(1 .. n)
  PROVE  /\ [i \in DOMAIN give |-> top[give[i]]] \in Seq(E)
         /\ DOMAIN [i \in DOMAIN give |-> top[give[i]]] = DOMAIN give
<1>1. /\ Len(give) \in Nat /\ DOMAIN give = 1 .. Len(give)
      /\ \A i \in 1 .. Len(give) : give[i] \in 1 .. n /\ top[give[i]] \in E
  OBVIOUS
<1>2. [i \in DOMAIN give |-> top[give[i]]] \in [1 .. Len(give) -> E]
  BY <1>1
<1> QED
  BY <1>1, <1>2, SeqDef

Moved(s) == [i \in DOMAIN s.give |-> Popped(s.take)[s.give[i]]]

Tops(n) == SubSeq(words, Len(words) - n + 1, Len(words))

MovedWords(s) == [i \in DOMAIN s.give |-> Tops(s.take)[s.give[i]]]

(* A dup or swap keeps every variable of its type. *)
LEMMA ShuffleTyped ==
  ASSUME TypeInv, NEW s \in Shuffles, Shuffle(s)
  PROVE  /\ TypeInv' /\ Moved(s) \in Seq(ExprType) /\ DOMAIN Moved(s) = DOMAIN s.give
         /\ MovedWords(s) \in Seq(WordType) /\ DOMAIN MovedWords(s) = DOMAIN s.give
         /\ s.take \in 0 .. Len(words)
<1>1. /\ Executes("pure", Step, <<>>)
      /\ Len(words) >= s.take
      /\ words' = WordsAfter(s.take, MovedWords(s))
      /\ stack' = (IF Len(stack) >= s.take THEN Below(s.take) \o Moved(s) ELSE stack)
      /\ {disturbed', copied'} \subseteq BOOLEAN
      /\ UNCHANGED <<locals, raw, out, ended, dropped>>
  BY DEF Shuffle, Moved, MovedWords, Tops
<1>2. s.take \in Nat /\ s.give \in Seq(1 .. s.take)
  BY ShufflesParts
<1>3. words \in Seq(WordType) /\ stack \in Seq(ExprType)
  BY DEF TypeInv
<1>4. s.take \in 0 .. Len(words)
  BY <1>1, <1>2, <1>3
<1>5. /\ SubSeq(words, 1, Len(words) - s.take) \in Seq(WordType)
      /\ Tops(s.take) \in Seq(WordType) /\ Len(Tops(s.take)) = s.take
  BY <1>3, <1>4, WordsSplit DEF Tops
<1>6. MovedWords(s) \in Seq(WordType) /\ DOMAIN MovedWords(s) = DOMAIN s.give
  BY <1>2, <1>5, Chosen DEF MovedWords
<1>7. words' \in Seq(WordType)
  BY <1>1, <1>5, <1>6, ConcatProperties DEF WordsAfter
<1>8. /\ Popped(s.take) \in Seq(ExprType) /\ Len(Popped(s.take)) = s.take
      /\ Below(s.take) \in Seq(ExprType)
  BY <1>2, ArgsParts
<1>9. Moved(s) \in Seq(ExprType) /\ DOMAIN Moved(s) = DOMAIN s.give
  BY <1>2, <1>8, Chosen DEF Moved
<1>10. stack' \in Seq(ExprType)
  BY <1>1, <1>3, <1>8, <1>9, ConcatProperties
<1>11. /\ {ended', disturbed', dropped', copied'} \subseteq BOOLEAN
       /\ locals' \in [Locals -> Int] /\ out' \in Seq(EventType) /\ raw' \subseteq raw
  BY <1>1 DEF TypeInv
<1>12. Step \in Int /\ <<>> \in Seq(Int)
  BY EmptySeq DEF TypeInv, Step
<1>13. TypeInv'
  BY <1>1, <1>7, <1>10, <1>11, <1>12, TypeStep
<1> QED
  BY <1>4, <1>6, <1>9, <1>13

(* A pop keeps every variable of its type. *)
LEMMA DiscardTyped ==
  ASSUME TypeInv, Discard
  PROVE  TypeInv'
<1> DEFINE e == Popped(1)[1]
           s == IF IsStatement(e) THEN e.events ELSE <<>>
<1>1. /\ 1 \in Ends(1)
      /\ Executes("pure", Step, <<>>)
      /\ words' = WordsAfter(1, <<>>)
      /\ Say(Below(1), s)
      /\ UNCHANGED <<locals, raw, ended, dropped, copied>>
  BY DEF Discard
<1>2. Step \in Int /\ <<>> \in Seq(Int)
  BY EmptySeq DEF TypeInv, Step
<1>3. Below(1) \in Seq(ExprType) /\ s \in Seq(EventType)
  BY OneArg, ArgsParts, EmptySeq DEF ExprType
<1>4. words' \in Seq(WordType)
  BY <1>1, EndsParts, EmptySeq
<1> HIDE DEF s
<1>5. stack' \in Seq(ExprType) /\ out' \in Seq(EventType) /\ disturbed' \in BOOLEAN
  BY <1>1, <1>3, SayTyped
<1> QED
  BY <1>1, <1>2, <1>4, <1>5, TypeStep DEF TypeInv

(* A pop2 keeps every variable of its type. *)
LEMMA Discard2Typed ==
  ASSUME TypeInv, Discard2
  PROVE  TypeInv'
<1>1. PICK n \in {1, 2} :
        /\ 2 \in Ends(n)
        /\ Executes("pure", Step, <<>>)
        /\ words' = WordsAfter(2, <<>>)
        /\ stack' = Below(2)
        /\ {disturbed', dropped'} \subseteq BOOLEAN
        /\ UNCHANGED <<locals, raw, out, ended, copied>>
  BY DEF Discard2
<1>2. Step \in Int /\ <<>> \in Seq(Int)
  BY EmptySeq DEF TypeInv, Step
<1>3. stack' \in Seq(ExprType)
  BY <1>1, ArgsParts
<1>4. words' \in Seq(WordType)
  BY <1>1, EndsParts, EmptySeq
<1> QED
  BY <1>1, <1>2, <1>3, <1>4, TypeStep DEF TypeInv

(* A reversed sequence has the same elements from the other end. *)
LEMMA ReverseParts ==
  ASSUME NEW E, NEW s \in Seq(E)
  PROVE  /\ Reverse(s) \in Seq(E) /\ Len(Reverse(s)) = Len(s) /\ DOMAIN Reverse(s) = DOMAIN s
         /\ \A i \in 1 .. Len(s) : /\ Reverse(s)[i] = s[Len(s) - i + 1]
                                   /\ Len(s) - i + 1 \in 1 .. Len(s)
<1> DEFINE r == Reverse(s)
<1>1. /\ Len(s) \in Nat /\ DOMAIN s = 1 .. Len(s) /\ \A i \in 1 .. Len(s) : s[i] \in E
  OBVIOUS
<1>2. \A i \in 1 .. Len(s) : Len(s) - i + 1 \in 1 .. Len(s)
  BY <1>1
<1>3. r = [i \in 1 .. Len(s) |-> r[i]] /\ \A i \in 1 .. Len(s) : r[i] = s[Len(s) - i + 1]
  BY DEF Reverse
<1> HIDE DEF r
<1>4. r \in [1 .. Len(s) -> E]
  BY <1>1, <1>2, <1>3
<1>5. r \in Seq(E) /\ Len(r) = Len(s) /\ DOMAIN r = DOMAIN s
  BY <1>1, <1>4, SeqDef
<1> QED
  BY <1>2, <1>3, <1>5 DEF r

(* What a string concatenation pushes: one operand as it is, an expression of
   all of them otherwise. *)
LEMMA JoinedParts ==
  ASSUME TypeInv, NEW n \in Nat
  PROVE  LET args == Reverse(Popped(n))
         IN  /\ Joined(args) \in ExprType
             /\ n = 1 => /\ Joined(args) = Popped(n)[1] /\ args[1] = Popped(n)[1]
                         /\ args = <<args[1]>>
             /\ n # 1 => Joined(args) =
                  Expr("other", Step, Append(EventsOf(args), Event("pure", Step, Values(args))))
<1> DEFINE args == Reverse(Popped(n))
           v    == Event("pure", Step, Values(args))
           s    == Append(EventsOf(args), v)
<1>1. Step \in Int
  BY DEF TypeInv, Step
<1>2. /\ args \in Seq(ExprType) /\ Len(args) = n
      /\ \A i \in 1 .. n : args[i] = Popped(n)[n - i + 1] /\ n - i + 1 \in 1 .. n
  BY ArgsParts, ReverseParts
<1>3. n = 1 => args[1] = Popped(n)[1] /\ args[1] \in ExprType /\ args = <<args[1]>>
  <2> SUFFICES ASSUME n = 1
               PROVE  args[1] = Popped(n)[1] /\ args[1] \in ExprType /\ args = <<args[1]>>
    OBVIOUS
  <2> HIDE DEF args
  <2>1. args[1] = Popped(n)[1] /\ args[1] \in ExprType
    BY <1>2
  <2> DEFINE x == args[1]
             t == <<x>>
  <2>2. t \in Seq(ExprType) /\ Len(t) = 1 /\ \A i \in 1 .. 1 : t[i] = args[i]
    BY <2>1
  <2>3. args = t
    <3> HIDE DEF t
    <3> QED
      BY <1>2, <2>2, SeqEqual
  <2> QED
    BY <2>1, <2>3
<1>4. EventsOf(args) \in Seq(EventType) /\ Values(args) \in Seq(Int)
  BY <1>2, EventsOfParts, ValuesOf
<1>5. n # 1 => Joined(args) = Expr("other", Step, s)
  BY <1>2 DEF Joined
<1>6. n = 1 => Joined(args) = args[1]
  BY <1>2 DEF Joined
<1> HIDE DEF args
<1>7. v \in EventType
  BY <1>1, <1>4 DEF Event, EventType
<1> HIDE DEF v
<1>8. s \in Seq(EventType)
  BY <1>4, <1>7
<1> HIDE DEF s
<1>9. Expr("other", Step, s) \in ExprType
  BY <1>1, <1>8, ExprIsTyped
<1> QED
  BY <1>3, <1>5, <1>6, <1>9 DEF args, s, v

(* A string concatenation keeps every variable of its type. *)
LEMMA ConcatTyped ==
  ASSUME TypeInv, NEW n \in Nat, Concat(n)
  PROVE  TypeInv'
<1> DEFINE e == Joined(Reverse(Popped(n)))
<1>1. PICK k \in Ends(n) :
        /\ Executes("pure", Step, Operands(k))
        /\ words' = WordsAfter(k, WordsOf(Step, FALSE))
        /\ stack' = Append(Below(n), e)
        /\ disturbed' \in BOOLEAN
        /\ UNCHANGED <<locals, raw, out, ended, dropped, copied>>
  BY DEF Concat, ArgsOf
<1>2. Step \in Int
  BY DEF TypeInv, Step
<1>3. e \in ExprType /\ Below(n) \in Seq(ExprType)
  BY ArgsParts, JoinedParts
<1> HIDE DEF e
<1>4. Operands(k) \in Seq(Int) /\ words' \in Seq(WordType)
  BY <1>1, <1>2, EndsParts, WordsOfType
<1>5. stack' \in Seq(ExprType)
  BY <1>1, <1>3
<1> QED
  BY <1>1, <1>2, <1>4, <1>5, TypeStep DEF TypeInv

(* A lambda keeps every variable of its type. *)
LEMMA LambdaTyped ==
  ASSUME TypeInv, NEW n \in Nat, Lambda(n)
  PROVE  TypeInv'
<1> DEFINE e == Event("pure", Step, <<>>)
<1>1. PICK k \in Ends(n) :
        /\ Executes("pure", Step, Operands(k))
        /\ words' = WordsAfter(k, WordsOf(Step, FALSE))
        /\ stack' = Append(Below(n), Expr("other", Step, <<e>>))
        /\ {disturbed', dropped'} \subseteq BOOLEAN
        /\ UNCHANGED <<locals, raw, out, ended, copied>>
  BY DEF Lambda
<1>2. Step \in Int /\ <<>> \in Seq(Int)
  BY EmptySeq DEF TypeInv, Step
<1>3. Below(n) \in Seq(ExprType)
  BY ArgsParts
<1>4. e \in EventType
  BY <1>2 DEF Event, EventType
<1> HIDE DEF e
<1>5. <<e>> \in Seq(EventType)
  BY <1>4
<1>6. Expr("other", Step, <<e>>) \in ExprType
  BY <1>2, <1>5, ExprIsTyped
<1>7. Operands(k) \in Seq(Int) /\ words' \in Seq(WordType)
  BY <1>1, <1>2, EndsParts, WordsOfType
<1>8. stack' \in Seq(ExprType)
  BY <1>1, <1>3, <1>6
<1> QED
  BY <1>1, <1>2, <1>7, <1>8, TypeStep DEF TypeInv

(* An instruction the decompiler skips keeps every variable of its type. *)
LEMMA UnhandledTyped ==
  ASSUME TypeInv, NEW n \in Nat, NEW result \in BOOLEAN, Unhandled(n, result)
  PROVE  TypeInv'
<1> DEFINE what == IF result THEN "pure" ELSE "effect"
           r    == IF result THEN WordsOf(Step, FALSE) ELSE <<>>
<1>1. PICK k \in Ends(n) :
        /\ Executes(what, Step, Operands(k))
        /\ words' = WordsAfter(k, r)
        /\ disturbed' = TRUE
        /\ dropped' \in BOOLEAN
        /\ UNCHANGED <<locals, raw, stack, out, ended, copied>>
  BY DEF Unhandled
<1>2. Step \in Int
  BY DEF TypeInv, Step
<1>3. r \in Seq(WordType)
  BY <1>2, WordsOfType, EmptySeq
<1>4. what \in {"pure", "read", "set", "heap", "effect"}
  OBVIOUS
<1> HIDE DEF what, r
<1>5. Operands(k) \in Seq(Int) /\ words' \in Seq(WordType)
  BY <1>1, <1>3, EndsParts
<1>6. /\ {ended', disturbed', dropped', copied'} \subseteq BOOLEAN
      /\ locals' \in [Locals -> Int] /\ out' \in Seq(EventType) /\ raw' \subseteq raw
      /\ stack' \in Seq(ExprType)
  BY <1>1 DEF TypeInv
<1> QED
  BY <1>1, <1>2, <1>4, <1>5, <1>6, TypeStep

(* A return or throw keeps every variable of its type. *)
LEMMA ReturnTyped ==
  ASSUME TypeInv, NEW n \in Nat, Return(n)
  PROVE  TypeInv'
<1> DEFINE s == Append(EventsOf(Popped(n)), Event("pure", Step, Values(Popped(n))))
<1>1. PICK k \in Ends(n) :
        /\ Executes("pure", Step, Operands(k))
        /\ words' = WordsAfter(k, <<>>)
        /\ stack' = <<>>
        /\ out' = out \o s
        /\ {ended', disturbed', dropped'} \subseteq BOOLEAN
        /\ UNCHANGED <<locals, raw, copied>>
  BY DEF Return, ArgsOf
<1>2. Step \in Int /\ s \in Seq(EventType)
  BY OperationTyped
<1> HIDE DEF s
<1>3. out' \in Seq(EventType) /\ stack' \in Seq(ExprType)
  BY <1>1, <1>2, ConcatProperties, EmptySeq DEF TypeInv
<1>4. Operands(k) \in Seq(Int) /\ words' \in Seq(WordType)
  BY <1>1, EndsParts, EmptySeq
<1>5. {ended', disturbed', dropped', copied'} \subseteq BOOLEAN /\ locals' \in [Locals -> Int]
      /\ raw' \subseteq raw
  BY <1>1 DEF TypeInv
<1> QED
  BY <1>1, <1>2, <1>3, <1>4, <1>5, TypeStep

(***************************************************************************)
(* Every variable has a value of its type.                                 *)
(***************************************************************************)
LEMMA TypeInvHolds == Spec => []TypeInv
<1>1. Init => TypeInv
  <2> SUFFICES ASSUME Init PROVE TypeInv
    OBVIOUS
  <2>1. /\ <<>> \in Seq(WordType) /\ <<>> \in Seq(EventType) /\ <<>> \in Seq(ExprType)
    BY EmptySeq
  <2>2. \A x \in Locals : Argument(x) \in Int
    BY StackAssumption DEF Argument
  <2> QED
    BY <2>1, <2>2 DEF Init, TypeInv
<1>2. TypeInv /\ [Next]_vars => TypeInv'
  <2> SUFFICES ASSUME TypeInv, [Next]_vars PROVE TypeInv'
    OBVIOUS
  <2>1. 0 .. MaxArgs \subseteq Nat /\ 1 .. MaxArgs \subseteq Nat /\ 0 .. 2 \subseteq Nat
        /\ 0 .. 3 \subseteq Nat /\ 1 .. 3 \subseteq Nat /\ {0, 1} \subseteq Nat
    BY StackAssumption
  <2>2. CASE UNCHANGED vars
    BY <2>2 DEF TypeInv, vars
  <2>3. CASE Next
    BY <2>1, <2>3, ConstantTyped, LoadTyped, StoreTyped, IncrementTyped, OperateTyped, PutTyped,
       InvokeTyped, NewTyped, ConstructTyped, ShuffleTyped, DiscardTyped, Discard2Typed,
       ConcatTyped, LambdaTyped, UnhandledTyped, ReturnTyped, Zenon DEF Next
  <2> QED
    BY <2>2, <2>3
<1> QED
  BY <1>1, <1>2, PTL DEF Spec

-----------------------------------------------------------------------------
(* While nothing has come between them, there is an expression for every   *)
(* value of the operand stack.                                             *)

(* The values there are: what the instructions made, and the arguments. *)
Known == (1 .. Len(did)) \cup {Argument(x) : x \in Locals}

(* An object that may not be used yet is one word, and in no variable. *)
WordsFit ==
  \A i \in DOMAIN words : words[i].val \in Known /\ (words[i].val \in raw => words[i].half = 0)

LocalsFit == \A x \in Locals : locals[x] \in Known \ raw

(* Its expression is the new without arguments. *)
InStep ==
  ~ended /\ ~disturbed =>
    /\ Values(stack) = WordValues(words)
    /\ \A j \in DOMAIN stack :
         stack[j].val \in raw => stack[j] = Expr("new", stack[j].val, <<>>)

StackInv == WordsFit /\ LocalsFit /\ InStep

(* Values that are all in a set. *)
LEMMA WordValuesIn ==
  ASSUME NEW S, S \subseteq Int, NEW ws \in Seq(WordType),
         \A i \in DOMAIN ws : ws[i].val \in S
  PROVE  WordValues(ws) \in Seq(S)
<1> DEFINE A == [val : S, half : 0 .. 2]
           F == [w \in A |-> IF w.half = 2 THEN <<>> ELSE <<w.val>>]
<1>1. Spreads(F, A, S)
  <2>1. ASSUME NEW w \in A PROVE (IF w.half = 2 THEN <<>> ELSE <<w.val>>) \in Seq(S)
    OBVIOUS
  <2> QED
    BY <2>1 DEF Spreads
<1>2. ws \in Seq(A) /\ \A i \in DOMAIN ws : ws[i] \in A
  <2>1. \A i \in DOMAIN ws : ws[i] \in WordType
    OBVIOUS
  <2>2. \A i \in DOMAIN ws : ws[i] \in A
    BY <2>1 DEF WordType
  <2> HIDE DEF A
  <2> QED
    BY <2>2
<1>3. \A i \in DOMAIN ws : F[ws[i]] = IF ws[i].half = 2 THEN <<>> ELSE <<ws[i].val>>
  <2>1. \A i \in DOMAIN ws : ws[i] \in A
    BY <1>2
  <2>2. \A w \in A : F[w] = IF w.half = 2 THEN <<>> ELSE <<w.val>>
    OBVIOUS
  <2> HIDE DEF A, F
  <2> QED
    BY <2>1, <2>2
<1> HIDE DEF A, F
<1>4. Spread(ws, F) \in Seq(S)
  BY <1>1, <1>2, SpreadType
<1>5. [i \in DOMAIN ws |-> F[ws[i]]]
        = [i \in DOMAIN ws |-> IF ws[i].half = 2 THEN <<>> ELSE <<ws[i].val>>]
  BY <1>3
<1> QED
  BY <1>4, <1>5 DEF Spread, Pieces, WordValues

(* Words that are no second halves have a value each. *)
LEMMA WholeWords ==
  ASSUME NEW ws \in Seq(WordType), \A i \in DOMAIN ws : ws[i].half # 2
  PROVE  /\ WordValues(ws) \in Seq(Int) /\ Len(WordValues(ws)) = Len(ws)
         /\ \A i \in 1 .. Len(ws) : WordValues(ws)[i] = ws[i].val
<1> DEFINE Whole(u) == \A i \in DOMAIN u : u[i].half # 2
           Says(u)  == /\ Len(WordValues(u)) = Len(u)
                       /\ \A i \in 1 .. Len(u) : WordValues(u)[i] = u[i].val
           T == {u \in Seq(WordType) : Whole(u) => Says(u)}
<1>1. <<>> \in T
  <2>1. WordValues(<<>>) = <<>> /\ <<>> \in Seq(WordType) /\ Len(<<>>) = 0
    BY WordValuesParts, EmptySeq
  <2>2. Says(<<>>)
    BY <2>1
  <2> HIDE DEF Says, Whole
  <2> QED
    BY <2>1, <2>2
<1>2. ASSUME NEW u \in Seq(WordType), NEW w \in WordType, u \in T
      PROVE  Append(u, w) \in T
  <2> DEFINE v == Append(u, w)
             n == Len(u)
             p == WordValues(u)
  <2>1. /\ v \in Seq(WordType) /\ n \in Nat /\ Len(v) = n + 1
        /\ DOMAIN u = 1 .. n /\ DOMAIN v = 1 .. (n + 1)
        /\ v[n + 1] = w /\ \A i \in 1 .. n : v[i] = u[i]
    BY AppendProperties
  <2> SUFFICES ASSUME Whole(v) PROVE Says(v)
    BY <2>1
  <2>2. \A i \in 1 .. n : i \in 1 .. (n + 1) /\ i # n + 1
    BY <2>1
  <2>3. n + 1 \in 1 .. (n + 1)
    BY <2>1
  <2>4. w.half # 2
    BY <2>1, <2>3
  <2>5. Whole(u)
    BY <2>1, <2>2
  <2>6. Len(p) = n /\ p \in Seq(Int) /\ \A i \in 1 .. n : p[i] = u[i].val
    BY <1>2, <2>5, WordValuesParts
  <2>7. v = u \o <<w>> /\ <<w>> \in Seq(WordType) /\ WordValues(<<w>>) = <<w.val>>
    <3>1. v = u \o <<w>>
      BY AppendIsConcat
    <3>2. <<w>> \in Seq(WordType)
      OBVIOUS
    <3>3. WordValues(<<w>>) = <<w.val>>
      BY <2>4, WordValuesParts
    <3> QED
      BY <3>1, <3>2, <3>3
  <2>8. WordValues(v) = p \o <<w.val>>
    BY <2>7, WordValuesParts
  <2>9. w.val \in Int
    BY DEF WordType
  <2> HIDE DEF p, n, v
  <2>10. p \o <<w.val>> = Append(p, w.val) /\ Append(p, w.val) \in Seq(Int)
         /\ Len(Append(p, w.val)) = n + 1
         /\ Append(p, w.val)[n + 1] = w.val
         /\ \A i \in 1 .. n : Append(p, w.val)[i] = p[i]
    BY <2>1, <2>6, <2>9, AppendProperties, AppendIsConcat
  <2>11. \A i \in 1 .. (n + 1) : i \in 1 .. n \/ i = n + 1
    BY <2>1
  <2>12. Len(WordValues(v)) = Len(v)
    BY <2>1, <2>8, <2>10
  <2>13. \A i \in 1 .. (n + 1) : WordValues(v)[i] = v[i].val
    BY <2>1, <2>6, <2>8, <2>10, <2>11
  <2> QED
    BY <2>1, <2>12, <2>13
<1> HIDE DEF T
<1>3. Seq(WordType) \subseteq T
  BY <1>1, <1>2, EverySequence
<1>4. ws \in T
  BY <1>3
<1> QED
  BY <1>4, WordValuesParts DEF T

(* Two ways to cut a sequence at the same place give the same parts. *)
LEMMA ConcatCancel ==
  ASSUME NEW E, NEW a \in Seq(E), NEW b \in Seq(E), NEW c \in Seq(E), NEW d \in Seq(E),
         a \o b = c \o d, Len(b) = Len(d)
  PROVE  a = c /\ b = d
<1> DEFINE m == Len(a)
           n == Len(b)
<1>1. /\ m \in Nat /\ n \in Nat /\ Len(c) \in Nat /\ Len(d) = n /\ Len(a) = m /\ Len(b) = n
  OBVIOUS
<1>2. /\ Len(a \o b) = Len(a) + Len(b) /\ Len(c \o d) = Len(c) + Len(d)
      /\ \A i \in 1 .. Len(a) + Len(b) :
           (a \o b)[i] = IF i <= Len(a) THEN a[i] ELSE b[i - Len(a)]
      /\ \A i \in 1 .. Len(c) + Len(d) :
           (c \o d)[i] = IF i <= Len(c) THEN c[i] ELSE d[i - Len(c)]
  BY ConcatProperties
<1> HIDE DEF m, n
<1>3. m + n = Len(c) + n
  BY <1>1, <1>2
<1>4. Len(c) = m
  BY <1>1, <1>3
<1>5. /\ \A i \in 1 .. m + n : (a \o b)[i] = IF i <= m THEN a[i] ELSE b[i - m]
      /\ \A i \in 1 .. m + n : (a \o b)[i] = IF i <= m THEN c[i] ELSE d[i - m]
  BY <1>1, <1>2, <1>4
<1>6. \A i \in 1 .. m : a[i] = c[i]
  <2> SUFFICES ASSUME NEW i \in 1 .. m PROVE a[i] = c[i]
    OBVIOUS
  <2>1. i \in 1 .. m + n /\ i <= m
    BY <1>1
  <2> QED
    BY <1>5, <2>1
<1>7. \A i \in 1 .. n : b[i] = d[i]
  <2> SUFFICES ASSUME NEW i \in 1 .. n PROVE b[i] = d[i]
    OBVIOUS
  <2>1. i + m \in 1 .. m + n /\ ~ (i + m <= m) /\ (i + m) - m = i
    BY <1>1
  <2>2. (a \o b)[i + m] = b[(i + m) - m] /\ (a \o b)[i + m] = d[(i + m) - m]
    BY <1>5, <2>1
  <2> QED
    BY <2>1, <2>2
<1>8. a = c
  BY <1>1, <1>4, <1>6, SeqEqual
<1>9. b = d
  BY <1>1, <1>7, SeqEqual
<1> QED
  BY <1>8, <1>9

(* The values of a list of expressions: of none, of one, of two lists
   together. *)
LEMMA ValuesParts ==
  /\ Values(<<>>) = <<>>
  /\ \A e \in ExprType : Values(<<e>>) = <<e.val>>
  /\ \A s, t \in Seq(ExprType) : Values(s \o t) = Values(s) \o Values(t)
<1>1. Values(<<>>) = <<>>
  BY DEF Values
<1>2. ASSUME NEW e \in ExprType PROVE Values(<<e>>) = <<e.val>>
  BY DEF Values
<1>3. ASSUME NEW s \in Seq(ExprType), NEW t \in Seq(ExprType)
      PROVE  Values(s \o t) = Values(s) \o Values(t)
  <2> DEFINE u == s \o t
             p == Values(s)
             q == Values(t)
             m == Len(s)
             n == Len(t)
  <2>1. /\ u \in Seq(ExprType) /\ m \in Nat /\ n \in Nat /\ Len(u) = m + n
        /\ \A i \in 1 .. m + n : u[i] = IF i <= m THEN s[i] ELSE t[i - m]
    BY ConcatProperties
  <2>2. /\ p \in Seq(Int) /\ Len(p) = m /\ \A i \in 1 .. m : p[i] = s[i].val
        /\ q \in Seq(Int) /\ Len(q) = n /\ \A i \in 1 .. n : q[i] = t[i].val
    BY ValuesOf
  <2> HIDE DEF u
  <2>3. /\ Values(u) \in Seq(Int) /\ Len(Values(u)) = Len(u)
        /\ \A i \in 1 .. Len(u) : Values(u)[i] = u[i].val
    BY <2>1, ValuesOf
  <2> HIDE DEF p, q, m, n
  <2>4. /\ p \o q \in Seq(Int) /\ Len(p \o q) = Len(p) + Len(q)
        /\ \A i \in 1 .. Len(p) + Len(q) :
             (p \o q)[i] = IF i <= Len(p) THEN p[i] ELSE q[i - Len(p)]
    BY <2>2, ConcatProperties
  <2>5. /\ Len(p \o q) = m + n
        /\ \A i \in 1 .. m + n : (p \o q)[i] = IF i <= m THEN p[i] ELSE q[i - m]
    BY <2>2, <2>4
  <2>6. ASSUME NEW i \in 1 .. m + n PROVE Values(u)[i] = (p \o q)[i]
    <3>1. CASE i <= m
      <4>1. i \in 1 .. m
        BY <2>1, <3>1
      <4> QED
        BY <2>1, <2>2, <2>3, <2>5, <3>1, <4>1
    <3>2. CASE ~ (i <= m)
      <4>1. i - m \in 1 .. n
        BY <2>1, <3>2
      <4> QED
        BY <2>1, <2>2, <2>3, <2>5, <3>2, <4>1
    <3> QED
      BY <3>1, <3>2
  <2>7. Len(Values(u)) = Len(p \o q) /\ \A i \in 1 .. Len(Values(u)) : Values(u)[i] = (p \o q)[i]
    BY <2>1, <2>3, <2>5, <2>6
  <2>8. Values(u) = p \o q
    BY <2>3, <2>4, <2>7, SeqEqual
  <2> QED
    BY <2>8 DEF u, p, q
<1> QED
  BY <1>1, <1>2, <1>3

(***************************************************************************)
(* In step, the expressions that an instruction pops are those of its      *)
(* operands.                                                               *)
(***************************************************************************)
LEMMA Aligned ==
  ASSUME TypeInv, StackInv, ~ended, ~disturbed, NEW n \in Nat, NEW k \in Ends(n)
  PROVE  /\ n <= Len(stack) /\ stack = Below(n) \o Popped(n)
         /\ Values(Popped(n)) = Operands(k)
         /\ Values(Below(n)) = WordValues(SubSeq(words, 1, Len(words) - k))
<1> DEFINE low == SubSeq(words, 1, Len(words) - k)
<1>1. words \in Seq(WordType) /\ stack \in Seq(ExprType)
  BY DEF TypeInv
<1>2. k \in 0 .. Len(words) /\ Len(Operands(k)) = n
  BY EndsParts
<1>3. /\ low \in Seq(WordType) /\ Operands(k) \in Seq(Int)
      /\ WordValues(words) = WordValues(low) \o Operands(k)
  BY <1>1, <1>2, WordsSplit
<1> HIDE DEF low
<1>4. WordValues(low) \in Seq(Int)
  BY <1>3, WordValuesParts
<1>5. Values(stack) = WordValues(low) \o Operands(k)
  BY <1>3 DEF StackInv, InStep
<1>6. n <= Len(stack)
  <2>1. Len(Values(stack)) = Len(WordValues(low)) + Len(Operands(k))
    BY <1>3, <1>4, <1>5, ConcatProperties
  <2>2. Len(Values(stack)) = Len(stack)
    BY <1>1, ValuesOf
  <2>3. Len(WordValues(low)) \in Nat
    BY <1>4
  <2> QED
    BY <1>2, <2>1, <2>2, <2>3
<1>7. /\ Below(n) \in Seq(ExprType) /\ Popped(n) \in Seq(ExprType) /\ Len(Popped(n)) = n
      /\ stack = Below(n) \o Popped(n)
  BY <1>1, <1>6, PoppedParts
<1>8. Values(Below(n)) \o Values(Popped(n)) = WordValues(low) \o Operands(k)
  BY <1>5, <1>7, ValuesParts
<1>9. Values(Below(n)) \in Seq(Int) /\ Values(Popped(n)) \in Seq(Int) /\ Len(Values(Popped(n))) = n
  BY <1>7, ValuesOf
<1>10. Values(Below(n)) = WordValues(low) /\ Values(Popped(n)) = Operands(k)
  <2> DEFINE a == Values(Below(n))
             b == Values(Popped(n))
             c == WordValues(low)
             d == Operands(k)
  <2>1. /\ a \in Seq(Int) /\ b \in Seq(Int) /\ c \in Seq(Int) /\ d \in Seq(Int)
        /\ a \o b = c \o d /\ Len(b) = Len(d)
    BY <1>2, <1>3, <1>4, <1>8, <1>9
  <2> HIDE DEF a, b, c, d
  <2>2. \A p, q, r, s \in Seq(Int) : p \o q = r \o s /\ Len(q) = Len(s) => p = r /\ q = s
    BY ConcatCancel, Zenon
  <2>3. a = c /\ b = d
    BY <2>1, <2>2
  <2> QED
    BY <2>3 DEF a, b, c, d
<1> QED
  BY <1>6, <1>7, <1>10 DEF low

(* Nothing popped. *)
LEMMA ZeroEnds ==
  ASSUME TypeInv, Running
  PROVE  /\ 0 \in Ends(0) /\ Below(0) = stack /\ Popped(0) = <<>> /\ Operands(0) = <<>>
         /\ EventsOf(Popped(0)) = <<>> /\ Values(Popped(0)) = <<>>
         /\ \A r \in Seq(WordType) : WordsAfter(0, r) = words \o r
<1>1. words \in Seq(WordType) /\ stack \in Seq(ExprType)
  BY DEF TypeInv
<1>2. Len(words) - 0 = Len(words) /\ Len(stack) - 0 = Len(stack) /\ Len(words) \in Nat
      /\ Len(stack) \in Nat /\ 0 \in 0 .. Len(words)
  BY <1>1
<1>3. SubSeq(words, 1, Len(words)) = words /\ SubSeq(stack, 1, Len(stack)) = stack
  BY <1>1, SubSeqFull
<1>4. Operands(0) \in Seq(Int) /\ Operands(0) = WordValues(SubSeq(words, Len(words) + 1, Len(words)))
  BY <1>1, <1>2, WordsSplit
<1>5. SubSeq(words, Len(words) + 1, Len(words)) = <<>>
  BY <1>1, <1>2, SubSeqEmpty
<1>6. Operands(0) = <<>> /\ Len(Operands(0)) = 0
  <2>1. Operands(0) = WordValues(<<>>)
    BY <1>4, <1>5
  <2>2. WordValues(<<>>) = <<>>
    BY WordValuesParts
  <2> QED
    BY <2>1, <2>2
<1>7. 0 \in Ends(0)
  BY <1>2, <1>6 DEF Ends
<1>8. Popped(0) = <<>>
  BY DEF Popped
<1>9. Below(0) = stack /\ \A r \in Seq(WordType) : WordsAfter(0, r) = words \o r
  BY <1>2, <1>3 DEF Below, WordsAfter
<1> QED
  BY <1>6, <1>7, <1>8, <1>9, EventsOfParts, ValuesParts

(* An instruction makes a value that was not there. *)
LEMMA KnownStep ==
  ASSUME TypeInv, NEW what \in {"pure", "read", "set", "heap", "effect"},
         NEW at \in Int, NEW in \in Seq(Int), Executes(what, at, in)
  PROVE  /\ Known \subseteq Known' /\ Step \in Known' /\ Step \notin Known
         /\ Known \subseteq Int /\ Step \in Int /\ Step \notin raw
<1>1. Len(did') = Step /\ Step = Len(did) + 1 /\ Len(did) \in Nat
  BY Recorded
<1>2. 1 .. Len(did) \subseteq 1 .. Len(did') /\ Step \in 1 .. Len(did') /\ Step \notin 1 .. Len(did)
      /\ Step \in Int
  BY <1>1
<1>3. \A x \in Locals : Argument(x) \in Int /\ Argument(x) # Step
  BY <1>1, StackAssumption DEF Argument
<1>4. raw \subseteq 1 .. Len(did)
  BY DEF TypeInv
<1>5. Known \subseteq Int /\ Step \notin Known
  BY <1>1, <1>2, <1>3 DEF Known
<1>6. Known \subseteq Known' /\ Step \in Known'
  BY <1>2 DEF Known
<1> QED
  BY <1>2, <1>4, <1>5, <1>6

(* The operands of an instruction are values that have been computed. *)
LEMMA OperandsKnown ==
  ASSUME TypeInv, WordsFit, NEW n, NEW k \in Ends(n)
  PROVE  \A i \in DOMAIN Operands(k) : Operands(k)[i] \in Known
<1>1. words \in Seq(WordType)
  BY DEF TypeInv
<1>2. k \in 0 .. Len(words)
  BY EndsParts
<1> DEFINE top == SubSeq(words, Len(words) - k + 1, Len(words))
<1>3. /\ top \in Seq(WordType) /\ Len(top) = k /\ Operands(k) = WordValues(top)
      /\ \A i \in 1 .. k : top[i] = words[Len(words) - k + i]
  BY <1>1, <1>2, WordsSplit
<1> HIDE DEF top
<1>4. \A i \in 1 .. k : Len(words) - k + i \in DOMAIN words
  BY <1>1, <1>2
<1>5. DOMAIN top = 1 .. k
  BY <1>2, <1>3
<1>6. \A i \in DOMAIN top : top[i].val \in Known
  BY <1>3, <1>4, <1>5 DEF WordsFit
<1>7. Known \subseteq Int
  <2>1. \A x \in Locals : Argument(x) \in Int
    BY StackAssumption DEF Argument
  <2> QED
    BY <2>1 DEF Known
<1>8. Operands(k) \in Seq(Known)
  BY <1>3, <1>6, <1>7, WordValuesIn
<1> QED
  BY <1>8

(* A step that pops words and pushes computed ones keeps the words
   well-formed. *)
LEMMA WordsFitStep ==
  ASSUME TypeInv, WordsFit, NEW what \in {"pure", "read", "set", "heap", "effect"},
         NEW at \in Int, NEW in \in Seq(Int), Executes(what, at, in),
         NEW k \in 0 .. Len(words), NEW r \in Seq(WordType), words' = WordsAfter(k, r),
         raw' \subseteq raw \cup {Step},
         \A i \in DOMAIN r : r[i].val \in Known' /\ (r[i].val \in raw' => r[i].half = 0)
  PROVE  WordsFit'
<1> DEFINE low == SubSeq(words, 1, Len(words) - k)
<1>1. /\ words \in Seq(WordType) /\ low \in Seq(WordType) /\ Len(low) = Len(words) - k
      /\ \A i \in 1 .. (Len(words) - k) : low[i] = words[i]
  BY WordsSplit DEF TypeInv
<1>2. words' = low \o r
  BY DEF WordsAfter
<1>3. \A i \in DOMAIN low : low[i].val \in Known /\ (low[i].val \in raw => low[i].half = 0)
  <2>1. \A i \in DOMAIN low : i \in 1 .. (Len(words) - k) /\ i \in DOMAIN words
    BY <1>1
  <2> QED
    BY <1>1, <2>1 DEF WordsFit
<1> HIDE DEF low
<1>4. \A i \in DOMAIN low : low[i].val \in Known' /\ (low[i].val \in raw' => low[i].half = 0)
  <2>1. Known \subseteq Known' /\ Step \notin Known
    BY KnownStep
  <2> HIDE DEF Known, WordsFit
  <2> QED
    BY <1>3, <2>1
<1>5. ASSUME NEW i \in DOMAIN words'
      PROVE  words'[i].val \in Known' /\ (words'[i].val \in raw' => words'[i].half = 0)
  <2>1. /\ Len(low) \in Nat /\ Len(r) \in Nat /\ DOMAIN low = 1 .. Len(low)
        /\ DOMAIN r = 1 .. Len(r) /\ DOMAIN words' = 1 .. (Len(low) + Len(r))
        /\ words'[i] = IF i <= Len(low) THEN low[i] ELSE r[i - Len(low)]
    <3>1. /\ low \o r \in Seq(WordType) /\ Len(low \o r) = Len(low) + Len(r)
          /\ \A j \in 1 .. Len(low) + Len(r) :
               (low \o r)[j] = IF j <= Len(low) THEN low[j] ELSE r[j - Len(low)]
      BY <1>1, ConcatProperties
    <3> QED
      BY <1>1, <1>2, <3>1
  <2>2. \/ i \in DOMAIN low /\ words'[i] = low[i]
        \/ i - Len(low) \in DOMAIN r /\ words'[i] = r[i - Len(low)]
    BY <2>1
  <2> QED
    BY <1>4, <2>2
<1> QED
  BY <1>5 DEF WordsFit

(* A step that stores computed, initialised values alone keeps the locals
   well-formed. *)
LEMMA LocalsFitStep ==
  ASSUME TypeInv, LocalsFit, NEW what \in {"pure", "read", "set", "heap", "effect"},
         NEW at \in Int, NEW in \in Seq(Int), Executes(what, at, in),
         raw' \subseteq raw \cup {Step},
         \A x \in Locals : locals'[x] = locals[x] \/ locals'[x] \in Known' \ raw'
  PROVE  LocalsFit'
<1>1. Known \subseteq Known' /\ Step \notin Known
  BY KnownStep
<1> HIDE DEF Known
<1> QED
  BY <1>1 DEF LocalsFit

(* The values of the expressions are known ones then. *)
LEMMA StackKnown ==
  ASSUME TypeInv, StackInv, ~ended, ~disturbed
  PROVE  \A j \in DOMAIN stack : stack[j].val \in Known
<1>1. Values(stack) = WordValues(words) /\ stack \in Seq(ExprType) /\ words \in Seq(WordType)
  BY DEF StackInv, InStep, TypeInv
<1>2. Known \subseteq Int
  <2>1. \A x \in Locals : Argument(x) \in Int
    BY StackAssumption DEF Argument
  <2> QED
    BY <2>1 DEF Known
<1>3. \A i \in DOMAIN words : words[i].val \in Known
  BY DEF StackInv, WordsFit
<1> HIDE DEF Known
<1>4. Values(stack) \in Seq(Known)
  BY <1>1, <1>2, <1>3, WordValuesIn
<1>5. /\ Len(Values(stack)) = Len(stack)
      /\ \A i \in 1 .. Len(stack) : Values(stack)[i] = stack[i].val
  BY <1>1, ValuesOf
<1>6. \A i \in 1 .. Len(Values(stack)) : Values(stack)[i] \in Known
  BY <1>4
<1>7. DOMAIN stack = 1 .. Len(stack)
  BY <1>1
<1> QED
  BY <1>5, <1>6, <1>7

(* A value is put on both stacks, *)
LEMMA StackPush ==
  ASSUME TypeInv, StackInv, NEW n \in Nat, NEW k \in Ends(n),
         NEW what \in {"pure", "read", "set", "heap", "effect"},
         NEW at \in Int, NEW in \in Seq(Int), Executes(what, at, in),
         NEW e \in ExprType, NEW wide \in BOOLEAN,
         words' = WordsAfter(k, WordsOf(e.val, wide)), stack' = Append(Below(n), e),
         raw' \subseteq raw \cup {Step}, UNCHANGED locals, disturbed => disturbed',
         e.val \in Known', e.val \in raw' => e = Expr("new", e.val, <<>>) /\ ~wide
  PROVE  StackInv'
<1> DEFINE r == WordsOf(e.val, wide)
<1>1. e.val \in Int
  BY DEF ExprType
<1>2. r \in Seq(WordType) /\ WordValues(r) = <<e.val>>
  BY <1>1, WordsOfType
<1>3. /\ k \in 0 .. Len(words) /\ ~ended
      /\ WordValues(WordsAfter(k, r)) = WordValues(SubSeq(words, 1, Len(words) - k)) \o WordValues(r)
  BY <1>2, EndsParts DEF Running
<1>4. \A i \in DOMAIN r : r[i].val = e.val /\ (~wide => r[i].half = 0)
  BY DEF WordsOf
<1> HIDE DEF r
<1>5. WordsFit'
  <2>1. \A i \in DOMAIN r : r[i].val \in Known' /\ (r[i].val \in raw' => r[i].half = 0)
    BY <1>4
  <2>2. WordsFit /\ words' = WordsAfter(k, r)
    BY DEF StackInv, r
  <2> QED
    BY <1>2, <1>3, <2>1, <2>2, WordsFitStep
<1>6. LocalsFit'
  <2>1. LocalsFit /\ \A x \in Locals : locals'[x] = locals[x]
    BY DEF StackInv
  <2> QED
    BY <2>1, LocalsFitStep
<1>7. ASSUME ~disturbed' PROVE Values(stack)' = WordValues(words)'
  <2>1. ~disturbed
    BY <1>7
  <2>2. Values(Below(n)) = WordValues(SubSeq(words, 1, Len(words) - k))
    BY <1>3, <2>1, Aligned
  <2>3. Below(n) \in Seq(ExprType)
    BY ArgsParts
  <2>4. stack' = Below(n) \o <<e>> /\ <<e>> \in Seq(ExprType)
    BY <2>3, AppendIsConcat
  <2>5. Values(Below(n) \o <<e>>) = Values(Below(n)) \o <<e.val>>
    <3>1. Values(<<e>>) = <<e.val>>
      BY ValuesParts
    <3> QED
      BY <2>3, <2>4, <3>1, ValuesParts
  <2>6. words' = WordsAfter(k, r)
    BY DEF r
  <2>7. Values(stack') = WordValues(words')
    BY <1>2, <1>3, <2>2, <2>4, <2>5, <2>6
  <2> QED
    BY <2>7 DEF Values, WordValues
<1>8. ASSUME ~disturbed', NEW j \in DOMAIN stack', stack'[j].val \in raw'
      PROVE  stack'[j] = Expr("new", stack'[j].val, <<>>)
  <2>1. ~disturbed /\ stack \in Seq(ExprType)
    BY <1>8 DEF TypeInv
  <2>2. Below(n) \in Seq(ExprType) /\ \A i \in DOMAIN Below(n) : i \in DOMAIN stack /\ Below(n)[i] = stack[i]
    BY <2>1, PoppedParts
  <2>3. \/ stack'[j] = e
        \/ j \in DOMAIN Below(n) /\ stack'[j] = Below(n)[j]
    BY <2>2
  <2>4. CASE stack'[j] = e
    BY <1>8, <2>4
  <2>5. CASE j \in DOMAIN Below(n) /\ stack'[j] = Below(n)[j]
    <3>1. j \in DOMAIN stack /\ stack'[j] = stack[j]
      BY <2>2, <2>5
    <3>2. stack[j].val \in Known /\ Step \notin Known
      BY <1>3, <2>1, <3>1, StackKnown, KnownStep
    <3>3. stack[j].val \in raw
      BY <1>8, <3>1, <3>2
    <3> QED
      BY <1>3, <2>1, <3>1, <3>3 DEF StackInv, InStep
  <2> QED
    BY <2>3, <2>4, <2>5
<1>9. InStep'
  <2>1. (Expr("new", stack[1].val, <<>>))' = Expr("new", stack'[1].val, <<>>)
    BY DEF Expr
  <2> QED
    BY <1>7, <1>8 DEF InStep, Expr
<1> QED
  BY <1>5, <1>6, <1>9 DEF StackInv

(* and values are taken off both. *)
LEMMA StackPop ==
  ASSUME TypeInv, StackInv, NEW n \in Nat, NEW k \in Ends(n),
         NEW what \in {"pure", "read", "set", "heap", "effect"},
         NEW at \in Int, NEW in \in Seq(Int), Executes(what, at, in),
         words' = WordsAfter(k, <<>>), raw' \subseteq raw,
         ~disturbed' /\ ~ended' => ~disturbed /\ stack' = Below(n),
         \A x \in Locals : locals'[x] = locals[x] \/ locals'[x] \in Known' \ raw'
  PROVE  StackInv'
<1>1. /\ k \in 0 .. Len(words) /\ ~ended /\ <<>> \in Seq(WordType) /\ DOMAIN <<>> = {}
  BY EndsParts, EmptySeq DEF Running
<1>2. WordValues(WordsAfter(k, <<>>)) = WordValues(SubSeq(words, 1, Len(words) - k))
  <2>1. SubSeq(words, 1, Len(words) - k) \in Seq(WordType)
    BY <1>1, WordsSplit DEF TypeInv
  <2>2. WordsAfter(k, <<>>) = SubSeq(words, 1, Len(words) - k)
    BY <2>1, ConcatEmptySeq DEF WordsAfter
  <2> QED
    BY <2>2
<1>3. WordsFit'
  BY <1>1, WordsFitStep DEF StackInv
<1>4. LocalsFit'
  BY LocalsFitStep DEF StackInv
<1>5. ASSUME ~disturbed', ~ended' PROVE Values(stack)' = WordValues(words)'
  <2>1. ~disturbed /\ stack' = Below(n)
    BY <1>5
  <2>2. Values(Below(n)) = WordValues(SubSeq(words, 1, Len(words) - k))
    BY <1>1, <2>1, Aligned
  <2>3. Values(stack') = WordValues(words')
    BY <1>2, <2>1, <2>2
  <2> QED
    BY <2>3 DEF Values, WordValues
<1>6. ASSUME ~disturbed', ~ended', NEW j \in DOMAIN stack', stack'[j].val \in raw'
      PROVE  stack'[j] = Expr("new", stack'[j].val, <<>>)
  <2>1. ~disturbed /\ stack \in Seq(ExprType) /\ stack' = Below(n)
    BY <1>6 DEF TypeInv
  <2>2. j \in DOMAIN stack /\ stack'[j] = stack[j]
    BY <1>6, <2>1, PoppedParts
  <2> QED
    BY <1>1, <1>6, <2>1, <2>2 DEF StackInv, InStep
<1>7. InStep'
  BY <1>5, <1>6 DEF InStep, Expr
<1> QED
  BY <1>3, <1>4, <1>7 DEF StackInv

(* Action by action. *)
LEMMA ConstantInStep ==
  ASSUME TypeInv, StackInv, Constant
  PROVE  StackInv'
<1> DEFINE e == Expr("other", Step, <<Event("pure", Step, <<>>)>>)
<1>1. PICK wide \in BOOLEAN :
        /\ Executes("pure", Step, <<>>)
        /\ words' = words \o WordsOf(Step, wide)
        /\ stack' = Append(stack, e) /\ UNCHANGED disturbed
        /\ UNCHANGED <<locals, raw>>
  BY DEF Constant, Push
<1>2. Step \in Int /\ <<>> \in Seq(Int)
  BY EmptySeq DEF TypeInv, Step
<1>3. <<Event("pure", Step, <<>>)>> \in Seq(EventType)
  BY <1>2 DEF Event, EventType
<1>4. e \in ExprType /\ e.val = Step
  BY <1>2, <1>3, ExprIsTyped
<1> HIDE DEF e
<1>5. Running /\ Step \in Known' /\ Step \notin raw
  BY <1>1, <1>2, KnownStep DEF Executes
<1>6. /\ words' = WordsAfter(0, WordsOf(e.val, wide)) /\ stack' = Append(Below(0), e)
      /\ 0 \in Ends(0) /\ 0 \in Nat
  BY <1>1, <1>2, <1>4, <1>5, ZeroEnds, WordsOfType
<1> QED
  BY <1>1, <1>2, <1>4, <1>5, <1>6, StackPush

(* Loading a local keeps words, locals and expressions in step. *)
LEMMA LoadInStep ==
  ASSUME TypeInv, StackInv, NEW x \in Locals, Load(x)
  PROVE  StackInv'
<1> DEFINE e == Expr("name", locals[x], <<Event("read", x, <<locals[x]>>)>>)
<1>1. /\ Executes("read", x, <<locals[x]>>)
      /\ words' = words \o WordsOf(locals[x], FALSE)
      /\ stack' = Append(stack, e) /\ UNCHANGED disturbed
      /\ UNCHANGED <<locals, raw>>
  BY DEF Load, Push
<1>2. x \in Int /\ locals[x] \in Int /\ <<locals[x]>> \in Seq(Int)
  BY StackAssumption DEF TypeInv
<1>3. <<Event("read", x, <<locals[x]>>)>> \in Seq(EventType)
  BY <1>2 DEF Event, EventType
<1>4. e \in ExprType /\ e.val = locals[x]
  <2>1. e \in ExprType
    BY <1>2, <1>3, ExprIsTyped
  <2> QED
    BY <2>1 DEF Expr
<1> HIDE DEF e
<1>5. Running /\ Known \subseteq Known'
  BY <1>1, <1>2, KnownStep DEF Executes
<1>6. locals[x] \in Known' /\ locals[x] \notin raw'
  <2>1. locals[x] \in Known \ raw
    BY DEF StackInv, LocalsFit
  <2> QED
    BY <1>1, <1>5, <2>1
<1>7. /\ words' = WordsAfter(0, WordsOf(e.val, FALSE)) /\ stack' = Append(Below(0), e)
      /\ 0 \in Ends(0) /\ 0 \in Nat
  BY <1>1, <1>2, <1>4, <1>5, ZeroEnds, WordsOfType
<1> QED
  BY <1>1, <1>2, <1>4, <1>6, <1>7, StackPush

(* Storing a local keeps words, locals and expressions in step. *)
LEMMA StoreInStep ==
  ASSUME TypeInv, StackInv, NEW x \in Locals, Store(x)
  PROVE  StackInv'
<1>1. PICK k \in Ends(1) :
        /\ Initialised(k)
        /\ Executes("set", x, Operands(k))
        /\ words' = WordsAfter(k, <<>>)
        /\ locals' = [locals EXCEPT ![x] = Operands(k)[1]]
        /\ stack' = Below(1) /\ (disturbed => disturbed')
        /\ UNCHANGED <<raw, ended>>
  BY DEF Store, Say
<1>2. Operands(k) \in Seq(Int) /\ 1 \in DOMAIN Operands(k) /\ x \in Int
  BY EndsParts, StackAssumption
<1>3. Operands(k)[1] \in Known' \ raw'
  <2>1. Operands(k)[1] \in Known
    BY <1>2, OperandsKnown DEF StackInv
  <2>2. Known \subseteq Known'
    BY <1>1, <1>2, KnownStep
  <2> QED
    BY <1>1, <1>2, <2>1, <2>2 DEF Initialised
<1>4. \A y \in Locals : locals'[y] = locals[y] \/ locals'[y] \in Known' \ raw'
  <2>1. locals \in [Locals -> Int]
    BY DEF TypeInv
  <2> QED
    BY <1>1, <1>3, <2>1
<1> QED
  BY <1>1, <1>2, <1>4, StackPop

(* Incrementing a local keeps words, locals and expressions in step. *)
LEMMA IncrementInStep ==
  ASSUME TypeInv, StackInv, NEW x \in Locals, Increment(x)
  PROVE  StackInv'
<1>1. /\ Executes("set", x, <<Step>>)
      /\ locals' = [locals EXCEPT ![x] = Step]
      /\ stack' = stack /\ (disturbed => disturbed')
      /\ UNCHANGED <<words, raw, ended>>
  BY DEF Increment, Say
<1>2. x \in Int /\ Step \in Int
  BY StackAssumption DEF TypeInv, Step
<1>3. <<Step>> \in Seq(Int)
  BY <1>2
<1>4. Running /\ Step \in Known' /\ Step \notin raw
  BY <1>1, <1>2, <1>3, KnownStep DEF Executes
<1>5. \A y \in Locals : locals'[y] = locals[y] \/ locals'[y] \in Known' \ raw'
  <2>1. locals \in [Locals -> Int]
    BY DEF TypeInv
  <2> QED
    BY <1>1, <1>4, <2>1
<1>6. 0 \in Ends(0) /\ Below(0) = stack /\ words' = WordsAfter(0, <<>>)
  <2>1. WordsAfter(0, <<>>) = words \o <<>> /\ words \in Seq(WordType)
    BY <1>4, ZeroEnds, EmptySeq DEF TypeInv
  <2> QED
    BY <1>1, <1>4, <2>1, ZeroEnds, ConcatEmptySeq
<1> QED
  BY <1>1, <1>2, <1>3, <1>5, <1>6, StackPop

(* An arithmetic, comparison or heap-reading instruction keeps words, locals
   and expressions in step. *)
LEMMA OperateInStep ==
  ASSUME TypeInv, StackInv, NEW n \in Nat, NEW what \in {"pure", "heap"}, Operate(n, what)
  PROVE  StackInv'
<1> DEFINE e == Expr("other", Step, Append(EventsOf(Popped(n)), Event(what, Step, Values(Popped(n)))))
<1>1. PICK k \in Ends(n) :
        /\ Executes(what, Step, Operands(k))
        /\ words' = WordsAfter(k, WordsOf(Step, FALSE))
        /\ stack' = Append(Below(n), e) /\ UNCHANGED disturbed
        /\ UNCHANGED <<locals, raw>>
  BY DEF Operate, ArgsOf, Push
<1>2. e \in ExprType /\ e.val = Step /\ Step \in Int
  BY OperationTyped DEF Expr
<1> HIDE DEF e
<1>3. Operands(k) \in Seq(Int)
  BY EndsParts
<1>4. Step \in Known' /\ Step \notin raw
  BY <1>1, <1>2, <1>3, KnownStep
<1> QED
  BY <1>1, <1>2, <1>3, <1>4, StackPush

(* A store to a field or an array keeps words, locals and expressions in
   step. *)
LEMMA PutInStep ==
  ASSUME TypeInv, StackInv, NEW n \in Nat, Put(n)
  PROVE  StackInv'
<1>1. PICK k \in Ends(n) :
        /\ Executes("effect", Step, Operands(k))
        /\ words' = WordsAfter(k, <<>>)
        /\ stack' = Below(n) /\ (disturbed => disturbed')
        /\ UNCHANGED <<locals, raw, ended>>
  BY DEF Put, Say
<1>2. Operands(k) \in Seq(Int)
  BY EndsParts
<1>3. Step \in Int
  BY DEF TypeInv, Step
<1> QED
  BY <1>1, <1>2, <1>3, StackPop

(* A call keeps words, locals and expressions in step. *)
LEMMA InvokeInStep ==
  ASSUME TypeInv, StackInv, NEW n \in Nat, NEW void \in BOOLEAN, Invoke(n, void)
  PROVE  StackInv'
<1> DEFINE e == Expr("other", Step, Append(EventsOf(Popped(n)), Event("effect", Step, Values(Popped(n)))))
<1>1. PICK k \in Ends(n), wide \in BOOLEAN :
        /\ Executes("effect", Step, Operands(k))
        /\ words' = WordsAfter(k, IF void THEN <<>> ELSE WordsOf(Step, wide))
        /\ stack' = (IF void THEN Below(n) ELSE Append(Below(n), e))
        /\ (disturbed => disturbed')
        /\ UNCHANGED <<locals, raw, ended>>
  BY DEF Invoke, ArgsOf, Push, Say
<1>2. e \in ExprType /\ e.val = Step /\ Step \in Int
  BY OperationTyped DEF Expr
<1> HIDE DEF e
<1>3. Operands(k) \in Seq(Int)
  BY EndsParts
<1>4. Step \in Known' /\ Step \notin raw
  BY <1>1, <1>2, <1>3, KnownStep
<1>5. CASE void
  BY <1>1, <1>2, <1>3, <1>5, StackPop
<1>6. CASE ~void
  BY <1>1, <1>2, <1>3, <1>4, <1>6, StackPush
<1> QED
  BY <1>5, <1>6

(* A new object keeps words, locals and expressions in step. *)
LEMMA NewInStep ==
  ASSUME TypeInv, StackInv, New
  PROVE  StackInv'
<1> DEFINE e == Expr("new", Step, <<>>)
<1>1. /\ Executes("pure", Step, <<>>)
      /\ words' = words \o WordsOf(Step, FALSE)
      /\ raw' = raw \cup {Step}
      /\ stack' = Append(stack, e) /\ UNCHANGED disturbed
      /\ UNCHANGED locals
  BY DEF New, Push
<1>2. Step \in Int /\ <<>> \in Seq(Int) /\ <<>> \in Seq(EventType)
  BY EmptySeq DEF TypeInv, Step
<1>3. e \in ExprType /\ e.val = Step /\ e = Expr("new", e.val, <<>>)
  <2>1. e \in ExprType
    BY <1>2, ExprIsTyped
  <2>2. e.val = Step
    BY DEF Expr
  <2> QED
    BY <2>1, <2>2
<1> HIDE DEF e
<1>4. Running /\ Step \in Known'
  BY <1>1, <1>2, KnownStep DEF Executes
<1>5. /\ words' = WordsAfter(0, WordsOf(e.val, FALSE)) /\ stack' = Append(Below(0), e)
      /\ 0 \in Ends(0) /\ 0 \in Nat
  BY <1>1, <1>2, <1>3, <1>4, ZeroEnds, WordsOfType
<1> QED
  BY <1>1, <1>2, <1>3, <1>4, <1>5, StackPush

(* A pop keeps words, locals and expressions in step. *)
LEMMA DiscardInStep ==
  ASSUME TypeInv, StackInv, Discard
  PROVE  StackInv'
<1>1. /\ 1 \in Ends(1)
      /\ Executes("pure", Step, <<>>)
      /\ words' = WordsAfter(1, <<>>)
      /\ stack' = Below(1) /\ (disturbed => disturbed')
      /\ UNCHANGED <<locals, raw, ended>>
  BY DEF Discard, Say
<1>2. Step \in Int /\ <<>> \in Seq(Int)
  BY EmptySeq DEF TypeInv, Step
<1> QED
  BY <1>1, <1>2, StackPop

(* A pop2 keeps words, locals and expressions in step. *)
LEMMA Discard2InStep ==
  ASSUME TypeInv, StackInv, Discard2
  PROVE  StackInv'
<1>1. PICK n \in {1, 2} :
        /\ 2 \in Ends(n)
        /\ Executes("pure", Step, <<>>)
        /\ words' = WordsAfter(2, <<>>)
        /\ stack' = Below(2) /\ disturbed' = (disturbed \/ n = 1)
        /\ UNCHANGED <<locals, raw, ended>>
  BY DEF Discard2
<1>2. Step \in Int /\ <<>> \in Seq(Int)
  BY EmptySeq DEF TypeInv, Step
<1>3. n \in Nat /\ (~disturbed' => ~disturbed /\ stack' = Below(n))
  <2>1. CASE n = 1
    BY <1>1, <2>1
  <2>2. CASE n = 2
    BY <1>1, <2>2
  <2> QED
    BY <1>1, <2>1, <2>2
<1> QED
  BY <1>1, <1>2, <1>3, StackPop

(* A string concatenation keeps words and locals; its expression is another
   string than the bytecode's. *)
LEMMA ConcatInStep ==
  ASSUME TypeInv, StackInv, NEW n \in Nat, Concat(n)
  PROVE  StackInv'
<1> DEFINE w == [val |-> Step, half |-> 0]
           r == <<w>>
<1>1. PICK k \in Ends(n) :
        /\ Executes("pure", Step, Operands(k))
        /\ words' = WordsAfter(k, r)
        /\ disturbed' = TRUE
        /\ UNCHANGED <<locals, raw>>
  BY DEF Concat, WordsOf
<1>2. Step \in Int
  BY DEF TypeInv, Step
<1>3. r \in Seq(WordType) /\ \A i \in DOMAIN r : r[i].val = Step
  <2>1. w.val = Step
    OBVIOUS
  <2>2. r = WordsOf(Step, FALSE)
    BY DEF WordsOf
  <2>3. r \in Seq(WordType)
    BY <1>2, <2>2, WordsOfType
  <2> HIDE DEF w
  <2>4. DOMAIN r = {1} /\ r[1] = w
    OBVIOUS
  <2> QED
    BY <2>1, <2>3, <2>4
<1> HIDE DEF r
<1>4. Operands(k) \in Seq(Int) /\ k \in 0 .. Len(words)
  BY EndsParts
<1>5. Step \in Known' /\ Step \notin raw
  BY <1>1, <1>2, <1>4, KnownStep
<1>6. WordsFit'
  BY <1>1, <1>2, <1>3, <1>4, <1>5, WordsFitStep DEF StackInv
<1>7. LocalsFit'
  BY <1>1, <1>2, <1>4, LocalsFitStep DEF StackInv
<1>8. InStep'
  BY <1>1 DEF InStep
<1> QED
  BY <1>6, <1>7, <1>8 DEF StackInv

(* A lambda keeps words, locals and expressions in step. *)
LEMMA LambdaInStep ==
  ASSUME TypeInv, StackInv, NEW n \in Nat, Lambda(n)
  PROVE  StackInv'
<1> DEFINE e == Expr("other", Step, <<Event("pure", Step, <<>>)>>)
<1>1. PICK k \in Ends(n) :
        /\ Executes("pure", Step, Operands(k))
        /\ words' = WordsAfter(k, WordsOf(Step, FALSE))
        /\ stack' = Append(Below(n), e) /\ (disturbed => disturbed')
        /\ UNCHANGED <<locals, raw>>
  BY DEF Lambda
<1>2. Step \in Int /\ <<>> \in Seq(Int)
  BY EmptySeq DEF TypeInv, Step
<1>3. <<Event("pure", Step, <<>>)>> \in Seq(EventType)
  BY <1>2 DEF Event, EventType
<1>4. e \in ExprType /\ e.val = Step
  BY <1>2, <1>3, ExprIsTyped
<1> HIDE DEF e
<1>5. Operands(k) \in Seq(Int)
  BY EndsParts
<1>6. Step \in Known' /\ Step \notin raw
  BY <1>1, <1>2, <1>5, KnownStep
<1> QED
  BY <1>1, <1>2, <1>4, <1>5, <1>6, StackPush

(* An instruction the decompiler skips keeps words, locals and expressions in
   step. *)
LEMMA UnhandledInStep ==
  ASSUME TypeInv, StackInv, NEW n \in Nat, NEW result \in BOOLEAN, Unhandled(n, result)
  PROVE  StackInv'
<1> DEFINE what == IF result THEN "pure" ELSE "effect"
           r    == IF result THEN WordsOf(Step, FALSE) ELSE <<>>
<1>1. PICK k \in Ends(n) :
        /\ Executes(what, Step, Operands(k))
        /\ words' = WordsAfter(k, r)
        /\ disturbed' = TRUE
        /\ UNCHANGED <<locals, raw>>
  BY DEF Unhandled
<1>2. Step \in Int
  BY DEF TypeInv, Step
<1>3. r \in Seq(WordType) /\ \A i \in DOMAIN r : r[i].val = Step
  <2>1. CASE result
    <3>1. r = <<[val |-> Step, half |-> 0]>>
      BY <2>1 DEF WordsOf
    <3>2. r \in Seq(WordType)
      BY <1>2, <2>1, WordsOfType
    <3>3. \A i \in DOMAIN r : r[i].val = Step
      <4> DEFINE w == [val |-> Step, half |-> 0]
      <4>1. w.val = Step /\ r = <<w>>
        BY <3>1
      <4>2. DOMAIN <<w>> = {1} /\ <<w>>[1] = w
        OBVIOUS
      <4>3. DOMAIN r = {1} /\ r[1] = w
        BY <4>1, <4>2
      <4> HIDE DEF w
      <4> QED
        BY <4>1, <4>3
    <3> QED
      BY <3>2, <3>3
  <2>2. CASE ~result
    BY <2>2, EmptySeq
  <2> QED
    BY <2>1, <2>2
<1>4. what \in {"pure", "read", "set", "heap", "effect"}
  OBVIOUS
<1> HIDE DEF what, r
<1>5. Operands(k) \in Seq(Int) /\ k \in 0 .. Len(words)
  BY EndsParts
<1>6. Step \in Known' /\ Step \notin raw
  BY <1>1, <1>2, <1>4, <1>5, KnownStep
<1>7. WordsFit'
  BY <1>1, <1>2, <1>3, <1>4, <1>5, <1>6, WordsFitStep DEF StackInv
<1>8. LocalsFit'
  BY <1>1, <1>2, <1>4, <1>5, LocalsFitStep DEF StackInv
<1>9. InStep'
  BY <1>1 DEF InStep
<1> QED
  BY <1>7, <1>8, <1>9 DEF StackInv

(* A return or throw keeps words, locals and expressions in step. *)
LEMMA ReturnInStep ==
  ASSUME TypeInv, StackInv, NEW n \in Nat, Return(n)
  PROVE  StackInv'
<1>1. PICK k \in Ends(n) :
        /\ Executes("pure", Step, Operands(k))
        /\ words' = WordsAfter(k, <<>>)
        /\ ended' = TRUE
        /\ UNCHANGED <<locals, raw>>
  BY DEF Return
<1>2. Operands(k) \in Seq(Int)
  BY EndsParts
<1>3. Step \in Int
  BY DEF TypeInv, Step
<1> QED
  BY <1>1, <1>2, <1>3, StackPop

(* Constructed in place: the object that is popped and its duplicate are
   the news without arguments, and no third one is on the stack. *)
LEMMA ConstructInPlace ==
  ASSUME TypeInv, StackInv, NEW n \in Nat, Construct(n), ~disturbed'
  PROVE  \E k \in Ends(n + 1) :
           LET obj  == Operands(k)[1]
               dup  == Expr("new", obj, <<>>)
               kept == Kept(n, Made(n))
           IN
           /\ ~ended /\ ~disturbed /\ obj \in raw
           /\ Made(n).val = obj /\ Made(n).form = "new"
           /\ Popped(n + 1)[1] = dup /\ dup \in ExprType
           /\ kept \in Seq(ExprType) /\ Below(n + 1) = Append(kept, dup)
           /\ \A i \in DOMAIN kept : kept[i].val # obj
           /\ stack' = Append(kept, Made(n))
           /\ Executes("effect", Step, Operands(k))
           /\ words' = WordsAfter(k, <<>>)
           /\ raw' = raw \ {obj}
           /\ UNCHANGED <<locals, out, ended>>
           /\ dropped' = (dropped \/ HasEffect(Popped(n + 1)[1].events))
           /\ copied => copied'
<1> DEFINE args  == Popped(n + 1)
           made  == Made(n)
           after == AfterInit(n, made)
           kept  == Kept(n, made)
           rest  == Below(n + 1)
<1>1. PICK k \in Ends(n + 1) :
        /\ Operands(k)[1] \in raw
        /\ Executes("effect", Step, Operands(k))
        /\ words' = WordsAfter(k, <<>>)
        /\ raw' = raw \ {Operands(k)[1]}
        /\ ~disturbed /\ args[1].form = "new"
        /\ {i \in DOMAIN words : words[i].val = Operands(k)[1]} = {Len(words) - k, Len(words) - k + 1}
        /\ stack' = Replaced(after, made)
        /\ dropped' = (dropped \/ HasEffect(Popped(n + 1)[1].events))
        /\ copied => copied'
        /\ UNCHANGED <<locals, out, ended>>
  BY ConstructParts
<1> DEFINE obj == Operands(k)[1]
           dup == Expr("new", obj, <<>>)
           m   == Len(words) - k
           low == SubSeq(words, 1, m)
<1>2. /\ n + 1 \in Nat /\ ~ended /\ words \in Seq(WordType) /\ stack \in Seq(ExprType)
      /\ k \in 0 .. Len(words)
  BY EndsParts DEF Running, TypeInv
<1>3. /\ made \in ExprType /\ made.form = "new" /\ made.val = args[1].val
      /\ args[1] \in ExprType
  BY MadeParts
<1>4. /\ stack = rest \o args /\ Values(args) = Operands(k)
      /\ Values(rest) = WordValues(low) /\ n + 1 <= Len(stack)
  BY <1>1, <1>2, Aligned
<1>5. rest \in Seq(ExprType) /\ args \in Seq(ExprType) /\ Len(args) = n + 1
  BY <1>2, ArgsParts
<1>6. args[1].val = obj
  <2>1. Values(args)[1] = args[1].val
    <3>1. \A i \in 1 .. Len(args) : Values(args)[i] = args[i].val
      BY <1>5, ValuesOf
    <3>2. 1 \in 1 .. Len(args)
      BY <1>5
    <3> QED
      BY <3>1, <3>2
  <2> QED
    BY <1>4, <2>1
<1>7. made.val = obj /\ obj \in Int
  BY <1>3, <1>6 DEF ExprType
<1>8. \A j \in DOMAIN stack : stack[j].val = obj => stack[j] = dup
  BY <1>1, <1>2 DEF StackInv, InStep
<1>9. args[1] = dup
  <2>1. \E j \in DOMAIN stack : args[1] = stack[j]
    <3>1. args = Taken(n + 1) /\ \A j \in DOMAIN Taken(n + 1) : \E i \in DOMAIN stack : Taken(n + 1)[j] = stack[i]
      BY <1>2, <1>4, PoppedParts
    <3>2. 1 \in DOMAIN args
      BY <1>5
    <3> QED
      BY <3>1, <3>2
  <2> QED
    BY <1>6, <1>8, <2>1
<1>10. dup \in ExprType /\ dup.form = "new" /\ dup.val = obj /\ dup.events = <<>>
  BY <1>3, <1>9 DEF Expr
<1> HIDE DEF obj, dup, args, made, m
<1>11. /\ m \in DOMAIN words /\ words[m].val = obj
       /\ \A i \in DOMAIN words : words[i].val = obj => i = m \/ i = m + 1
  BY <1>1 DEF m, obj
<1>12. words[m].half = 0
  BY <1>1, <1>11 DEF StackInv, WordsFit, obj
<1>13. /\ low \in Seq(WordType) /\ Len(low) = m /\ m \in Nat
       /\ \A i \in 1 .. m : low[i] = words[i] /\ i \in DOMAIN words
  <2>1. /\ low \in Seq(WordType) /\ Len(low) = Len(words) - k
        /\ \A i \in 1 .. (Len(words) - k) : low[i] = words[i]
    BY <1>2, WordsSplit DEF m
  <2>2. m = Len(words) - k
    BY DEF m
  <2>3. m \in Nat /\ \A i \in 1 .. m : i \in DOMAIN words
    BY <1>2, <2>2
  <2> HIDE DEF low
  <2> QED
    BY <2>1, <2>2, <2>3
<1>14. low # <<>>
  <2>1. m # 0
    BY <1>2, <1>11
  <2> HIDE DEF low
  <2> QED
    BY <1>13, <2>1, EmptySeq
<1>15. PICK front \in Seq(WordType), w \in WordType : low = Append(front, w)
  BY <1>13, <1>14, SequenceEmptyOrAppend
<1> HIDE DEF low
<1>16. /\ Len(front) = m - 1 /\ w = words[m] /\ \A i \in DOMAIN front : front[i].val # obj
  <2>1. /\ Len(low) = Len(front) + 1 /\ Len(front) \in Nat /\ low[Len(front) + 1] = w
        /\ \A i \in 1 .. Len(front) : low[i] = front[i]
    BY <1>15, AppendProperties
  <2>2. Len(front) = m - 1 /\ Len(front) + 1 = m /\ m \in 1 .. m
    BY <1>13, <2>1
  <2>3. w = words[m]
    BY <1>13, <2>1, <2>2
  <2>4. ASSUME NEW i \in DOMAIN front PROVE front[i].val # obj
    <3>0. i \in 1 .. Len(front)
      OBVIOUS
    <3>1. i \in 1 .. Len(front) /\ i \in 1 .. m /\ i # m /\ i # m + 1
      BY <1>13, <2>1, <2>2, <3>0
    <3>2. front[i] = words[i] /\ i \in DOMAIN words
      BY <1>13, <2>1, <3>1
    <3> QED
      BY <1>11, <3>1, <3>2
  <2> QED
    BY <2>2, <2>3, <2>4
<1>17. WordValues(low) = WordValues(front) \o <<obj>> /\ WordValues(front) \in Seq(Int \ {obj})
  <2>1. low = front \o <<w>> /\ <<w>> \in Seq(WordType)
    BY <1>15, AppendIsConcat
  <2>2. WordValues(<<w>>) = <<obj>>
    <3>1. WordValues(<<w>>) = IF w.half = 2 THEN <<>> ELSE <<w.val>>
      BY WordValuesParts
    <3> QED
      BY <1>11, <1>12, <1>16, <3>1
  <2>3. WordValues(front \o <<w>>) = WordValues(front) \o WordValues(<<w>>)
    BY <2>1, WordValuesParts
  <2>4. \A i \in DOMAIN front : front[i].val \in Int \ {obj}
    <3>1. \A i \in DOMAIN front : front[i] \in WordType
      OBVIOUS
    <3> QED
      BY <1>16, <3>1 DEF WordType
  <2>5. Int \ {obj} \subseteq Int
    OBVIOUS
  <2>6. WordValues(front) \in Seq(Int \ {obj})
    BY <2>4, <2>5, WordValuesIn
  <2> QED
    BY <2>1, <2>2, <2>3, <2>6
<1> DEFINE vs == WordValues(front)
           l  == Len(vs)
<1>18. /\ vs \in Seq(Int) /\ l \in Nat /\ Values(rest) = Append(vs, obj)
       /\ Len(Append(vs, obj)) = l + 1 /\ Append(vs, obj)[l + 1] = obj
       /\ \A i \in 1 .. l : Append(vs, obj)[i] = vs[i] /\ vs[i] # obj
  <2>1. vs \in Seq(Int \ {obj}) /\ vs \in Seq(Int)
    BY <1>17, WordValuesParts
  <2> HIDE DEF vs
  <2>2. vs \o <<obj>> = Append(vs, obj)
    BY <1>7, <2>1, AppendIsConcat
  <2>3. Values(rest) = vs \o <<obj>>
    BY <1>4, <1>17 DEF vs
  <2>4. \A i \in 1 .. l : vs[i] # obj
    BY <2>1
  <2> QED
    BY <1>7, <2>1, <2>2, <2>3, <2>4, AppendProperties
<1> HIDE DEF vs, l
<1>19. /\ Len(rest) = l + 1 /\ DOMAIN rest = 1 .. (l + 1)
       /\ rest[l + 1].val = obj /\ \A i \in 1 .. l : rest[i].val # obj
  <2>1. /\ Values(rest) \in Seq(Int) /\ Len(Values(rest)) = Len(rest)
        /\ \A i \in 1 .. Len(rest) : Values(rest)[i] = rest[i].val
    BY <1>5, ValuesOf
  <2>2. Len(rest) = l + 1
    BY <1>18, <2>1
  <2>3. l + 1 \in 1 .. (l + 1) /\ \A i \in 1 .. l : i \in 1 .. (l + 1)
    BY <1>18
  <2>4. \A i \in 1 .. (l + 1) : rest[i].val = Append(vs, obj)[i]
    BY <1>18, <2>1, <2>2
  <2>5. DOMAIN rest = 1 .. (l + 1)
    BY <1>5, <2>2
  <2> QED
    BY <1>18, <2>2, <2>3, <2>4, <2>5
<1>20. \A i \in DOMAIN rest : i \in DOMAIN stack /\ rest[i] = stack[i]
  BY <1>2, PoppedParts
<1>21. rest[l + 1] = dup
  <2>1. l + 1 \in DOMAIN rest
    BY <1>18, <1>19
  <2> QED
    BY <1>8, <1>19, <1>20, <2>1
<1>22. kept = SubSeq(rest, 1, l)
  <2>1. rest # <<>> /\ rest[Len(rest)].form = "new" /\ rest[Len(rest)].val = made.val
    BY <1>7, <1>10, <1>18, <1>19, <1>21
  <2>2. Len(rest) - 1 = l
    BY <1>18, <1>19
  <2>3. kept = SubSeq(rest, 1, Len(rest) - 1)
    BY <2>1 DEF Kept
  <2> QED
    BY <2>2, <2>3
<1>23. kept \in Seq(ExprType) /\ Len(kept) = l /\ \A i \in 1 .. l : kept[i] = rest[i]
  BY <1>5, <1>18, <1>19, <1>22, SubSeqProperties
<1>24. \A i \in DOMAIN kept : kept[i].val # obj
  <2>1. DOMAIN kept = 1 .. l
    BY <1>23
  <2> HIDE DEF kept, rest
  <2> QED
    BY <1>19, <1>23, <2>1
<1>25. rest = Append(kept, dup)
  <2>1. /\ Append(kept, dup) \in Seq(ExprType) /\ Len(Append(kept, dup)) = l + 1
        /\ Append(kept, dup)[l + 1] = dup
        /\ \A i \in 1 .. l : Append(kept, dup)[i] = kept[i]
    BY <1>10, <1>23, AppendProperties
  <2>2. \A i \in 1 .. (l + 1) : i \in 1 .. l \/ i = l + 1
    BY <1>18
  <2>3. \A i \in 1 .. (l + 1) : rest[i] = Append(kept, dup)[i]
    BY <1>21, <1>23, <2>1, <2>2
  <2> HIDE DEF kept, rest
  <2> QED
    BY <1>5, <1>19, <2>1, <2>3, SeqEqual
<1>26. after = Append(kept, made)
  BY <1>2, <1>3, AfterInitParts
<1>27. Replaced(after, made) = Append(kept, made)
  <2> DEFINE a == Append(kept, made)
  <2>1. /\ a \in Seq(ExprType) /\ Len(a) = l + 1 /\ a[l + 1] = made
        /\ \A i \in 1 .. l : a[i] = kept[i]
    BY <1>3, <1>23, AppendProperties
  <2> HIDE DEF a, kept
  <2>2. /\ Replaced(a, made) \in Seq(ExprType) /\ Len(Replaced(a, made)) = l + 1
        /\ \A i \in DOMAIN a : Replaced(a, made)[i] = IF Same(a[i], made) THEN made ELSE a[i]
    BY <1>3, <2>1, ReplacedParts
  <2>3. DOMAIN a = 1 .. (l + 1) /\ \A i \in 1 .. (l + 1) : i \in 1 .. l \/ i = l + 1
    BY <1>18, <2>1
  <2>4. DOMAIN kept = 1 .. l
    BY <1>23
  <2>5. \A i \in 1 .. l : ~ Same(a[i], made)
    BY <1>7, <1>24, <2>1, <2>4 DEF Same
  <2>6. \A i \in 1 .. (l + 1) : Replaced(a, made)[i] = a[i]
    BY <2>1, <2>2, <2>3, <2>5
  <2>7. Replaced(a, made) = a
    BY <2>1, <2>2, <2>6, SeqEqual
  <2> QED
    BY <1>26, <2>7 DEF a
<1> HIDE DEF kept, rest
<1> QED
  BY <1>1, <1>2, <1>3, <1>7, <1>9, <1>10, <1>23, <1>24, <1>25, <1>27 DEF obj, dup, args, made, kept, rest

(* A constructor call keeps words, locals and expressions in step. *)
LEMMA ConstructInStep ==
  ASSUME TypeInv, StackInv, NEW n \in Nat, Construct(n)
  PROVE  StackInv'
<1>1. PICK k \in Ends(n + 1) :
        /\ Executes("effect", Step, Operands(k))
        /\ words' = WordsAfter(k, <<>>)
        /\ raw' \subseteq raw
        /\ UNCHANGED locals
  BY ConstructParts
<1>2. Step \in Int
  BY DEF TypeInv, Step
<1>3. Operands(k) \in Seq(Int) /\ k \in 0 .. Len(words) /\ <<>> \in Seq(WordType) /\ DOMAIN <<>> = {}
  BY EndsParts, EmptySeq
<1>4. WordsFit'
  BY <1>1, <1>2, <1>3, WordsFitStep DEF StackInv
<1>5. LocalsFit'
  BY <1>1, <1>2, <1>3, LocalsFitStep DEF StackInv
<1>6. ASSUME ~disturbed'
      PROVE  /\ Values(stack') = WordValues(words')
             /\ \A j \in DOMAIN stack' : stack'[j].val \in raw' => stack'[j] = Expr("new", stack'[j].val, <<>>)
  <2> DEFINE made == Made(n)
             kept == Kept(n, made)
             rest == Below(n + 1)
  <2>1. PICK h \in Ends(n + 1) :
           /\ ~ended /\ ~disturbed
           /\ made.val = Operands(h)[1]
           /\ Expr("new", Operands(h)[1], <<>>) \in ExprType
           /\ kept \in Seq(ExprType) /\ rest = Append(kept, Expr("new", Operands(h)[1], <<>>))
           /\ stack' = Append(kept, made)
           /\ words' = WordsAfter(h, <<>>)
           /\ raw' = raw \ {Operands(h)[1]}
    BY <1>6, ConstructInPlace
  <2> DEFINE obj == Operands(h)[1]
             dup == Expr("new", obj, <<>>)
  <2>2. made \in ExprType /\ dup \in ExprType /\ dup.val = obj
    BY <2>1, MadeParts DEF Expr
  <2>3. Values(rest) = WordValues(SubSeq(words, 1, Len(words) - h)) /\ rest \in Seq(ExprType)
    <3>1. n + 1 \in Nat
      OBVIOUS
    <3> QED
      BY <2>1, <3>1, Aligned, ArgsParts
  <2>4. WordValues(words') = WordValues(SubSeq(words, 1, Len(words) - h))
    <3>1. h \in 0 .. Len(words) /\ words \in Seq(WordType)
      BY EndsParts DEF TypeInv
    <3>2. SubSeq(words, 1, Len(words) - h) \in Seq(WordType)
      BY <3>1, WordsSplit
    <3>3. WordsAfter(h, <<>>) = SubSeq(words, 1, Len(words) - h)
      BY <3>2, ConcatEmptySeq DEF WordsAfter
    <3> QED
      BY <2>1, <3>3
  <2>5. \A i \in DOMAIN rest : i \in DOMAIN stack /\ rest[i] = stack[i]
    BY PoppedParts DEF TypeInv
  <2>6. rest = Append(kept, dup) /\ kept \in Seq(ExprType) /\ stack' = Append(kept, made)
        /\ made.val = obj /\ raw' = raw \ {obj}
    BY <2>1
  <2> HIDE DEF obj, dup, made, kept, rest
  <2>7. Values(Append(kept, dup)) = Values(kept) \o <<obj>>
    <3>1. Append(kept, dup) = kept \o <<dup>> /\ <<dup>> \in Seq(ExprType)
      BY <2>2, <2>6, AppendIsConcat
    <3>2. Values(<<dup>>) = <<obj>>
      BY <2>2, ValuesParts
    <3> QED
      BY <2>6, <3>1, <3>2, ValuesParts
  <2>8. Values(Append(kept, made)) = Values(kept) \o <<obj>>
    <3>1. Append(kept, made) = kept \o <<made>> /\ <<made>> \in Seq(ExprType)
      BY <2>2, <2>6, AppendIsConcat
    <3>2. Values(<<made>>) = <<obj>>
      BY <2>2, <2>6, ValuesParts
    <3> QED
      BY <2>6, <3>1, <3>2, ValuesParts
  <2>9. Values(stack') = WordValues(words')
    BY <2>3, <2>4, <2>6, <2>7, <2>8
  <2>10. ASSUME NEW j \in DOMAIN stack', stack'[j].val \in raw'
         PROVE  stack'[j] = Expr("new", stack'[j].val, <<>>)
    <3>1. (j \in DOMAIN kept /\ stack'[j] = kept[j]) \/ stack'[j] = made
      BY <2>2, <2>6
    <3>2. j \in DOMAIN kept /\ stack'[j] = kept[j]
      BY <2>6, <2>10, <3>1
    <3>3. j \in DOMAIN rest /\ rest[j] = kept[j]
      BY <2>2, <2>6, <3>2
    <3>4. j \in DOMAIN stack /\ stack[j] = stack'[j] /\ stack[j].val \in raw
      BY <2>5, <2>6, <2>10, <3>2, <3>3
    <3> QED
      BY <2>1, <3>4 DEF StackInv, InStep
  <2> QED
    BY <2>9, <2>10
<1>7. InStep'
  BY <1>6 DEF InStep, Values, WordValues, Expr
<1> QED
  BY <1>4, <1>5, <1>7 DEF StackInv

(* A dup or swap keeps words, locals and expressions in step. *)
LEMMA ShuffleInStep ==
  ASSUME TypeInv, StackInv, NEW s \in Shuffles, Shuffle(s)
  PROVE  StackInv'
<1> DEFINE n    == s.take
           tops == Tops(n)
           low  == SubSeq(words, 1, Len(words) - n)
           mw   == MovedWords(s)
           mv   == Moved(s)
<1>1. /\ Executes("pure", Step, <<>>)
      /\ words' = WordsAfter(n, mw)
      /\ stack' = (IF Len(stack) >= n THEN Below(n) \o mv ELSE stack)
      /\ ~disturbed' => ~disturbed /\ \A i \in DOMAIN tops : tops[i].half = 0
      /\ UNCHANGED <<locals, raw, ended>>
  BY DEF Shuffle, Moved, MovedWords, Tops
<1>2. /\ mv \in Seq(ExprType) /\ DOMAIN mv = DOMAIN s.give
      /\ mw \in Seq(WordType) /\ DOMAIN mw = DOMAIN s.give /\ n \in 0 .. Len(words)
  BY ShuffleTyped
<1>3. /\ n \in Nat /\ DOMAIN s.give = 1 .. Len(s.give) /\ Len(s.give) \in Nat
      /\ \A m \in DOMAIN s.give : s.give[m] \in 1 .. n
  BY ShufflesParts
<1>4. Step \in Int /\ <<>> \in Seq(Int)
  BY EmptySeq DEF TypeInv, Step
<1>5. words \in Seq(WordType) /\ stack \in Seq(ExprType)
  BY DEF TypeInv
<1>6. /\ low \in Seq(WordType) /\ tops \in Seq(WordType) /\ Len(tops) = n
      /\ \A i \in 1 .. n : tops[i] = words[Len(words) - n + i] /\ Len(words) - n + i \in DOMAIN words
      /\ Operands(n) = WordValues(tops)
  <2>1. /\ low \in Seq(WordType) /\ tops \in Seq(WordType) /\ Len(tops) = n
        /\ \A i \in 1 .. n : tops[i] = words[Len(words) - n + i]
        /\ Operands(n) = WordValues(tops)
    BY <1>2, <1>5, WordsSplit DEF Tops
  <2>2. \A i \in 1 .. n : Len(words) - n + i \in DOMAIN words
    BY <1>2, <1>5
  <2> QED
    BY <2>1, <2>2
<1>7. /\ \A m \in DOMAIN s.give : mw[m] = tops[s.give[m]]
      /\ \A m \in DOMAIN s.give : mv[m] = Popped(n)[s.give[m]]
  BY DEF MovedWords, Moved
<1> HIDE DEF n, tops, low, mw, mv
<1>8. \A i \in 1 .. n : tops[i].val \in Known /\ (tops[i].val \in raw => tops[i].half = 0)
  BY <1>6 DEF StackInv, WordsFit
<1>9. WordsFit'
  <2>1. Known \subseteq Known'
    BY <1>1, <1>4, KnownStep
  <2> HIDE DEF Known
  <2>2. \A m \in DOMAIN mw : mw[m].val \in Known' /\ (mw[m].val \in raw' => mw[m].half = 0)
    BY <1>1, <1>2, <1>3, <1>7, <1>8, <2>1
  <2> QED
    BY <1>1, <1>2, <1>4, <2>2, WordsFitStep DEF StackInv
<1>10. LocalsFit'
  BY <1>1, <1>4, LocalsFitStep DEF StackInv
<1>11. ASSUME ~disturbed', ~ended'
       PROVE  /\ Values(stack') = WordValues(words')
              /\ \A j \in DOMAIN stack' : stack'[j].val \in raw' => stack'[j] = Expr("new", stack'[j].val, <<>>)
  <2>1. ~disturbed /\ ~ended /\ \A i \in DOMAIN tops : tops[i].half = 0
    BY <1>1, <1>11
  <2>2. DOMAIN tops = 1 .. n
    BY <1>3, <1>6
  <2>3. /\ Len(Operands(n)) = n /\ \A i \in 1 .. n : Operands(n)[i] = tops[i].val
    <3>1. \A i \in DOMAIN tops : tops[i].half # 2
      BY <2>1
    <3>2. /\ Len(WordValues(tops)) = Len(tops)
          /\ \A i \in 1 .. Len(tops) : WordValues(tops)[i] = tops[i].val
      BY <1>6, <3>1, WholeWords
    <3> QED
      BY <1>6, <3>2
  <2>4. n \in Ends(n)
    <3>1. Running
      BY <1>1 DEF Executes
    <3>2. n > 0 => words[Len(words) - n + 1].half # 2
      <4>1. n > 0 => 1 \in 1 .. n
        BY <1>3
      <4> QED
        BY <1>6, <2>1, <2>2, <4>1
    <3> QED
      BY <1>2, <2>3, <3>1, <3>2 DEF Ends
  <2>5. /\ n <= Len(stack) /\ Values(Popped(n)) = Operands(n)
        /\ Values(Below(n)) = WordValues(low) /\ stack = Below(n) \o Popped(n)
    BY <1>3, <2>1, <2>4, Aligned DEF low
  <2>6. stack' = Below(n) \o mv
    BY <1>1, <1>3, <1>5, <2>5
  <2>7. Below(n) \in Seq(ExprType) /\ Popped(n) \in Seq(ExprType) /\ Len(Popped(n)) = n
    BY <1>3, ArgsParts
  <2>8. \A i \in 1 .. n : Popped(n)[i].val = tops[i].val
    BY <2>3, <2>5, <2>7, ValuesOf
  <2>9. Values(mv) = WordValues(mw)
    <3>1. /\ Values(mv) \in Seq(Int) /\ Len(Values(mv)) = Len(mv)
          /\ \A m \in 1 .. Len(mv) : Values(mv)[m] = mv[m].val
      BY <1>2, ValuesOf
    <3>2. \A m \in DOMAIN mw : mw[m].half # 2
      BY <1>2, <1>3, <1>7, <2>1, <2>2
    <3>3. /\ WordValues(mw) \in Seq(Int) /\ Len(WordValues(mw)) = Len(mw)
          /\ \A m \in 1 .. Len(mw) : WordValues(mw)[m] = mw[m].val
      BY <1>2, <3>2, WholeWords
    <3>4. Len(mv) = Len(s.give) /\ Len(mw) = Len(s.give)
      BY <1>2, <1>3
    <3>5. \A m \in 1 .. Len(s.give) : Values(mv)[m] = WordValues(mw)[m]
      <4> SUFFICES ASSUME NEW m \in 1 .. Len(s.give) PROVE Values(mv)[m] = WordValues(mw)[m]
        OBVIOUS
      <4>1. m \in DOMAIN s.give /\ s.give[m] \in 1 .. n
        BY <1>3
      <4>2. mv[m].val = mw[m].val
        BY <1>7, <2>8, <4>1
      <4> QED
        BY <3>1, <3>3, <3>4, <4>2
    <3> QED
      BY <3>1, <3>3, <3>4, <3>5, SeqEqual
  <2>10. Values(stack') = Values(Below(n)) \o Values(mv)
    BY <1>2, <2>6, <2>7, ValuesParts
  <2>11. WordValues(words') = WordValues(low) \o WordValues(mw)
    <3>1. words' = low \o mw
      BY <1>1 DEF WordsAfter, low
    <3> QED
      BY <1>2, <1>6, <3>1, WordValuesParts
  <2>12. \A j \in DOMAIN stack' : \E i \in DOMAIN stack : stack'[j] = stack[i]
    <3>1. /\ \A j \in DOMAIN Below(n) : \E i \in DOMAIN stack : Below(n)[j] = stack[i]
          /\ Popped(n) = Taken(n)
          /\ \A j \in DOMAIN Taken(n) : \E i \in DOMAIN stack : Taken(n)[j] = stack[i]
      BY <1>3, <1>5, <2>5, PoppedParts
    <3>2. \A m \in DOMAIN mv : \E i \in DOMAIN stack : mv[m] = stack[i]
      <4>1. \A m \in DOMAIN mv : s.give[m] \in DOMAIN Popped(n)
        BY <1>2, <1>3, <2>7
      <4> QED
        BY <1>2, <1>7, <3>1, <4>1
    <3>3. \A j \in DOMAIN stack' :
            \/ j \in DOMAIN Below(n) /\ stack'[j] = Below(n)[j]
            \/ j - Len(Below(n)) \in DOMAIN mv /\ stack'[j] = mv[j - Len(Below(n))]
      <4> DEFINE b == Below(n)
      <4>1. b \in Seq(ExprType) /\ stack' = b \o mv
        BY <2>6, <2>7
      <4> HIDE DEF b
      <4>2. /\ b \o mv \in Seq(ExprType) /\ Len(b \o mv) = Len(b) + Len(mv)
            /\ \A i \in 1 .. Len(b) + Len(mv) :
                 (b \o mv)[i] = IF i <= Len(b) THEN b[i] ELSE mv[i - Len(b)]
        BY <1>2, <4>1, ConcatProperties
      <4>3. \A j \in DOMAIN stack' :
            \/ j \in DOMAIN b /\ stack'[j] = b[j]
            \/ j - Len(b) \in DOMAIN mv /\ stack'[j] = mv[j - Len(b)]
        BY <1>2, <4>1, <4>2
      <4> QED
        BY <4>3 DEF b
    <3> QED
      BY <3>1, <3>2, <3>3
  <2>13. ASSUME NEW j \in DOMAIN stack', stack'[j].val \in raw'
         PROVE  stack'[j] = Expr("new", stack'[j].val, <<>>)
    BY <1>1, <2>1, <2>12, <2>13 DEF StackInv, InStep
  <2> QED
    BY <2>5, <2>9, <2>10, <2>11, <2>13
<1>12. InStep'
  BY <1>11 DEF InStep, Values, WordValues, Expr
<1> QED
  BY <1>9, <1>10, <1>12 DEF StackInv

(***************************************************************************)
(* In step: an invariant of the specification.                             *)
(***************************************************************************)
LEMMA StackInvHolds == Spec => []StackInv
<1>1. Init => StackInv
  <2> SUFFICES ASSUME Init PROVE StackInv
    OBVIOUS
  <2>1. WordsFit
    BY DEF Init, WordsFit
  <2>2. LocalsFit
    BY DEF Init, LocalsFit, Known
  <2>3. InStep
    BY WordValuesParts, ValuesParts DEF Init, InStep
  <2> QED
    BY <2>1, <2>2, <2>3 DEF StackInv
<1>2. TypeInv /\ StackInv /\ [Next]_vars => StackInv'
  <2> SUFFICES ASSUME TypeInv, StackInv, [Next]_vars PROVE StackInv'
    OBVIOUS
  <2>1. 0 .. MaxArgs \subseteq Nat /\ 1 .. MaxArgs \subseteq Nat /\ 0 .. 2 \subseteq Nat
        /\ 0 .. 3 \subseteq Nat /\ 1 .. 3 \subseteq Nat /\ {0, 1} \subseteq Nat
    BY StackAssumption
  <2>2. CASE UNCHANGED vars
    BY <2>2 DEF StackInv, WordsFit, LocalsFit, InStep, Known, Values, WordValues, Expr, vars
  <2>3. CASE Next
    BY <2>1, <2>3, ConstantInStep, LoadInStep, StoreInStep, IncrementInStep, OperateInStep,
       PutInStep, InvokeInStep, NewInStep, ConstructInStep, ShuffleInStep, DiscardInStep,
       Discard2InStep, ConcatInStep, LambdaInStep, UnhandledInStep, ReturnInStep, Zenon DEF Next
  <2> QED
    BY <2>2, <2>3
<1> QED
  BY <1>1, <1>2, TypeInvHolds, PTL DEF Spec

(***************************************************************************)
(* StackTypeOK: every expression has one of the three forms, the local     *)
(* variables hold what an instruction made or an argument, and while       *)
(* nothing has come between them the expressions stand for the values of   *)
(* the JVM's operand stack, one for one.                                   *)
(***************************************************************************)
THEOREM StackTypeCorrect == Spec => []StackTypeOK
<1>1. TypeInv /\ StackInv => StackTypeOK
  <2> SUFFICES ASSUME TypeInv, StackInv PROVE StackTypeOK
    OBVIOUS
  <2>1. \A i \in DOMAIN stack : stack[i].form \in {"name", "new", "other"}
    <3>1. stack \in Seq(ExprType)
      BY DEF TypeInv
    <3>2. \A i \in DOMAIN stack : stack[i] \in ExprType
      BY <3>1
    <3> QED
      BY <3>2 DEF ExprType
  <2>2. locals \in [Locals -> (1 .. Len(did)) \cup {Argument(x) : x \in Locals}]
    BY DEF TypeInv, StackInv, LocalsFit, Known
  <2>3. ~ended /\ ~disturbed => Values(stack) = Operands(Len(words))
    <3>1. words \in Seq(WordType)
      BY DEF TypeInv
    <3>2. SubSeq(words, Len(words) - Len(words) + 1, Len(words)) = words
      <4>1. Len(words) - Len(words) + 1 = 1
        BY <3>1
      <4> QED
        BY <3>1, <4>1, SubSeqFull
    <3>3. Operands(Len(words)) = WordValues(words)
      BY <3>2 DEF Operands
    <3> QED
      BY <3>3 DEF StackInv, InStep
  <2> QED
    BY <2>1, <2>2, <2>3 DEF StackTypeOK
<1> QED
  BY <1>1, TypeInvHolds, StackInvHolds, PTL

-----------------------------------------------------------------------------
(* What the expressions may be. *)

(* No expression sets a local variable. *)
QuietType == [what : {"pure", "read", "heap", "effect"}, at : Int, in : Seq(Int)]

ReadType == [what : {"read"}, at : Int, in : Seq(Int)]

Harmless(e) ==
  e.events \in Seq(QuietType) /\ (e.form = "name" => e.events \in Seq(ReadType))

(* A name only reads, and a new object is the same expression wherever it
   is on the stack. *)
ExprsOK ==
  /\ \A i \in DOMAIN stack : stack[i].val <= Len(did) /\ Harmless(stack[i])
  /\ \A i, j \in DOMAIN stack : Same(stack[i], stack[j]) => stack[i].events = stack[j].events

(* How the kinds of events are contained in one another. *)
LEMMA QuietParts ==
  /\ \A e \in QuietType : e \in EventType /\ e.what # "set"
  /\ \A e \in ReadType : e \in QuietType /\ e.what = "read"
  /\ \A e \in EventType : e.what # "set" => e \in QuietType
BY DEF QuietType, ReadType, EventType

(* If the events of every expression are of a kind, so are the events of the
   list. *)
LEMMA EventsOfIn ==
  ASSUME NEW B, NEW s \in Seq(ExprType), \A j \in DOMAIN s : s[j].events \in Seq(B)
  PROVE  EventsOf(s) \in Seq(B)
<1> DEFINE p == [j \in DOMAIN s |-> s[j].events]
<1>1. DOMAIN s = 1 .. Len(s) /\ Len(s) \in Nat
  OBVIOUS
<1>2. p \in [1 .. Len(s) -> Seq(B)]
  BY <1>1
<1>3. p \in Seq(Seq(B))
  BY <1>1, <1>2, SeqDef
<1> HIDE DEF p
<1>4. FlattenSeq(p) \in Seq(B)
  BY <1>3, FlattenType
<1> QED
  BY <1>4 DEF p, EventsOf

(* The name an empty stack answers with has no event. *)
LEMMA StackValueHarmless ==
  Harmless(StackValue) /\ StackValue.val = 0 /\ StackValue.form = "name"
<1>1. Event("read", 0, <<0>>) \in ReadType
  BY DEF Event, ReadType
<1>2. Event("read", 0, <<0>>) \in QuietType
  BY <1>1, QuietParts
<1> DEFINE e == Event("read", 0, <<0>>)
<1>3. StackValue.events = <<e>> /\ StackValue.val = 0 /\ StackValue.form = "name"
  BY DEF StackValue, Expr
<1> HIDE DEF e
<1>4. <<e>> \in Seq(ReadType) /\ <<e>> \in Seq(QuietType)
  BY <1>1, <1>2 DEF e
<1> QED
  BY <1>3, <1>4 DEF Harmless

(* What is popped is from the stack, or invented. *)
LEMMA PoppedFrom ==
  ASSUME TypeInv, NEW n \in Nat
  PROVE  /\ \A i \in DOMAIN Popped(n) :
              Popped(n)[i] = StackValue \/ \E j \in DOMAIN stack : Popped(n)[i] = stack[j]
         /\ \A i \in DOMAIN Below(n) : i \in DOMAIN stack /\ Below(n)[i] = stack[i]
<1>1. stack \in Seq(ExprType)
  BY DEF TypeInv
<1>2. \A i \in DOMAIN Below(n) : i \in DOMAIN stack /\ Below(n)[i] = stack[i]
  BY <1>1, PoppedParts
<1>3. \A i \in 1 .. n :
        Popped(n)[i] = StackValue \/ \E j \in DOMAIN stack : Popped(n)[i] = stack[j]
  <2> SUFFICES ASSUME NEW i \in 1 .. n
               PROVE  Popped(n)[i] = StackValue \/ \E j \in DOMAIN stack : Popped(n)[i] = stack[j]
    OBVIOUS
  <2>1. Popped(n)[i] = IF Len(stack) + i > n THEN stack[Len(stack) + i - n] ELSE StackValue
    BY DEF Popped
  <2>2. Len(stack) + i > n => Len(stack) + i - n \in DOMAIN stack
    BY <1>1
  <2> QED
    BY <2>1, <2>2
<1>4. DOMAIN Popped(n) = 1 .. n
  BY DEF Popped
<1> QED
  BY <1>2, <1>3, <1>4

(* What is popped, what stays and the whole stack hold no event that sets a
   local. *)
LEMMA PoppedHarmless ==
  ASSUME TypeInv, ExprsOK, NEW n \in Nat
  PROVE  /\ \A i \in DOMAIN Popped(n) : Harmless(Popped(n)[i]) /\ Popped(n)[i].val <= Len(did)
         /\ EventsOf(Popped(n)) \in Seq(QuietType)
         /\ EventsOf(Below(n)) \in Seq(QuietType)
         /\ EventsOf(stack) \in Seq(QuietType)
<1>1. \A i \in DOMAIN Popped(n) : Harmless(Popped(n)[i]) /\ Popped(n)[i].val <= Len(did)
  <2>1. Len(did) \in Nat
    BY DEF TypeInv
  <2>2. Harmless(StackValue) /\ StackValue.val <= Len(did)
    BY <2>1, StackValueHarmless
  <2> QED
    BY <2>2, PoppedFrom DEF ExprsOK
<1>2. Popped(n) \in Seq(ExprType) /\ Below(n) \in Seq(ExprType) /\ stack \in Seq(ExprType)
  BY ArgsParts DEF TypeInv
<1>3. \A i \in DOMAIN stack : stack[i].events \in Seq(QuietType)
  BY DEF ExprsOK, Harmless
<1>4. \A i \in DOMAIN Below(n) : Below(n)[i].events \in Seq(QuietType)
  BY <1>3, PoppedFrom
<1>5. \A i \in DOMAIN Popped(n) : Popped(n)[i].events \in Seq(QuietType)
  BY <1>1 DEF Harmless
<1> QED
  BY <1>1, <1>2, <1>3, <1>4, <1>5, EventsOfIn

(* One expression is new on the stack. *)
LEMMA ExprsStep ==
  ASSUME TypeInv, ExprsOK, NEW what \in {"pure", "read", "set", "heap", "effect"},
         NEW at \in Int, NEW in \in Seq(Int), Executes(what, at, in),
         NEW e \in ExprType, e.val <= Step, Harmless(e), e.form = "new" => e.val = Step,
         \A i \in DOMAIN stack' : stack'[i] = e \/ \E j \in DOMAIN stack : stack'[i] = stack[j]
  PROVE  ExprsOK'
<1>1. Len(did') = Step /\ Step = Len(did) + 1 /\ Len(did) \in Nat
  BY Recorded
<1>2. \A j \in DOMAIN stack : stack[j] \in ExprType
  BY DEF TypeInv
<1>3. \A j \in DOMAIN stack : stack[j].val \in Int /\ stack[j].val <= Step /\ stack[j].val # Step
  <2> SUFFICES ASSUME NEW j \in DOMAIN stack
               PROVE  stack[j].val \in Int /\ stack[j].val <= Step /\ stack[j].val # Step
    OBVIOUS
  <2>1. stack[j].val \in Int
    BY <1>2 DEF ExprType
  <2>2. stack[j].val <= Len(did)
    BY DEF ExprsOK
  <2> QED
    BY <1>1, <2>1, <2>2
<1>4. \A i \in DOMAIN stack' : stack'[i].val <= Len(did') /\ Harmless(stack'[i])
  BY <1>1, <1>3 DEF ExprsOK
<1>5. ASSUME NEW i \in DOMAIN stack', NEW j \in DOMAIN stack', Same(stack'[i], stack'[j])
      PROVE  stack'[i].events = stack'[j].events
  <2>1. CASE stack'[i] = e /\ stack'[j] = e
    BY <2>1
  <2>2. CASE stack'[i] = e /\ \E k \in DOMAIN stack : stack'[j] = stack[k]
    BY <1>3, <1>5, <2>2 DEF Same
  <2>3. CASE stack'[j] = e /\ \E k \in DOMAIN stack : stack'[i] = stack[k]
    BY <1>3, <1>5, <2>3 DEF Same
  <2>4. CASE (\E k \in DOMAIN stack : stack'[i] = stack[k]) /\ (\E k \in DOMAIN stack : stack'[j] = stack[k])
    BY <1>5, <2>4 DEF ExprsOK
  <2> QED
    BY <2>1, <2>2, <2>3, <2>4
<1> QED
  BY <1>4, <1>5 DEF ExprsOK, Harmless, Same

(* None is. *)
LEMMA ExprsKept ==
  ASSUME TypeInv, ExprsOK, NEW what \in {"pure", "read", "set", "heap", "effect"},
         NEW at \in Int, NEW in \in Seq(Int), Executes(what, at, in),
         \A i \in DOMAIN stack' : \E j \in DOMAIN stack : stack'[i] = stack[j]
  PROVE  ExprsOK'
<1>1. Step \in Nat /\ StackValue \in ExprType /\ Harmless(StackValue)
      /\ StackValue.val = 0 /\ StackValue.form = "name"
  BY Recorded, StackValueHarmless, StackValueType
<1>2. StackValue.val <= Step
  BY <1>1
<1> HIDE DEF StackValue
<1> QED
  BY <1>1, <1>2, ExprsStep

(* A push, *)
LEMMA ExprsPush ==
  ASSUME TypeInv, ExprsOK, NEW what \in {"pure", "read", "set", "heap", "effect"},
         NEW at \in Int, NEW in \in Seq(Int), Executes(what, at, in), NEW n \in Nat,
         NEW e \in ExprType, e.val <= Step, Harmless(e), e.form = "new" => e.val = Step,
         stack' = Append(Below(n), e)
  PROVE  ExprsOK'
<1>1. Below(n) \in Seq(ExprType)
  BY ArgsParts
<1>2. \A i \in DOMAIN stack' : stack'[i] = e \/ \E j \in DOMAIN stack : stack'[i] = stack[j]
  <2>1. \A i \in DOMAIN stack' : stack'[i] = e \/ (i \in DOMAIN Below(n) /\ stack'[i] = Below(n)[i])
    BY <1>1
  <2> QED
    BY <2>1, PoppedFrom
<1> QED
  BY <1>2, ExprsStep

(* and a pop. *)
LEMMA ExprsPop ==
  ASSUME TypeInv, ExprsOK, NEW what \in {"pure", "read", "set", "heap", "effect"},
         NEW at \in Int, NEW in \in Seq(Int), Executes(what, at, in), NEW n \in Nat,
         stack' = Below(n)
  PROVE  ExprsOK'
<1>1. \A i \in DOMAIN stack' : \E j \in DOMAIN stack : stack'[i] = stack[j]
  BY PoppedFrom
<1> QED
  BY <1>1, ExprsKept

(* The expression of an operation. *)
LEMMA OperationHarmless ==
  ASSUME TypeInv, ExprsOK, NEW n \in Nat, NEW what \in {"pure", "heap", "effect"}
  PROVE  LET e == Expr("other", Step, Append(EventsOf(Popped(n)), Event(what, Step, Values(Popped(n)))))
         IN  e \in ExprType /\ Harmless(e) /\ e.val <= Step /\ e.form # "new"
<1> DEFINE v == Event(what, Step, Values(Popped(n)))
           p == EventsOf(Popped(n))
           e == Expr("other", Step, Append(p, v))
<1>1. v \in EventType /\ e \in ExprType /\ Step \in Int
  BY OperationTyped
<1>2. v.what # "set" /\ e.events = Append(p, v) /\ e.val = Step /\ e.form = "other"
  BY DEF Event, Expr
<1>3. v \in QuietType
  BY <1>1, <1>2, QuietParts
<1>4. p \in Seq(QuietType)
  BY PoppedHarmless
<1> HIDE DEF v, p, e
<1>5. e.events \in Seq(QuietType)
  BY <1>2, <1>3, <1>4
<1>6. Harmless(e) /\ e.form # "new" /\ e.val <= Step
  BY <1>1, <1>2, <1>5 DEF Harmless
<1> QED
  BY <1>1, <1>6 DEF e, p, v

(* Action by action. *)
LEMMA ConstantExprs ==
  ASSUME TypeInv, ExprsOK, Constant
  PROVE  ExprsOK'
<1> DEFINE v == Event("pure", Step, <<>>)
           e == Expr("other", Step, <<v>>)
<1>1. Executes("pure", Step, <<>>) /\ stack' = Append(stack, e)
  BY DEF Constant, Push
<1>2. Step \in Int /\ <<>> \in Seq(Int)
  BY EmptySeq DEF TypeInv, Step
<1>3. v \in QuietType /\ v \in EventType
  BY <1>2 DEF Event, QuietType, EventType
<1> HIDE DEF v
<1>4. <<v>> \in Seq(EventType) /\ <<v>> \in Seq(QuietType)
  BY <1>3
<1>5. e \in ExprType /\ e.events = <<v>> /\ e.val = Step /\ e.form = "other"
  <2>1. e \in ExprType
    BY <1>2, <1>4, ExprIsTyped
  <2> QED
    BY <2>1 DEF Expr
<1> HIDE DEF e
<1>6. Harmless(e) /\ e.val <= Step
  BY <1>2, <1>4, <1>5 DEF Harmless
<1>7. Below(0) = stack /\ 0 \in Nat
  BY <1>1, ZeroEnds DEF Executes
<1> QED
  BY <1>1, <1>2, <1>5, <1>6, <1>7, ExprsPush

(* Loading a local keeps the expressions on the stack harmless. *)
LEMMA LoadExprs ==
  ASSUME TypeInv, StackInv, ExprsOK, NEW x \in Locals, Load(x)
  PROVE  ExprsOK'
<1> DEFINE v == Event("read", x, <<locals[x]>>)
           e == Expr("name", locals[x], <<v>>)
<1>1. Executes("read", x, <<locals[x]>>) /\ stack' = Append(stack, e)
  BY DEF Load, Push
<1>2. x \in Int /\ locals[x] \in Int /\ <<locals[x]>> \in Seq(Int)
  BY StackAssumption DEF TypeInv
<1>3. v \in QuietType /\ v \in EventType /\ v \in ReadType
  BY <1>2 DEF Event, QuietType, EventType, ReadType
<1> HIDE DEF v
<1>4. <<v>> \in Seq(EventType) /\ <<v>> \in Seq(QuietType) /\ <<v>> \in Seq(ReadType)
  BY <1>3
<1>5. e \in ExprType /\ e.events = <<v>> /\ e.val = locals[x] /\ e.form = "name"
  <2>1. e \in ExprType
    BY <1>2, <1>4, ExprIsTyped
  <2> QED
    BY <2>1 DEF Expr
<1> HIDE DEF e
<1>6. Harmless(e)
  BY <1>4, <1>5 DEF Harmless
<1>7. e.val <= Step
  <2>1. locals[x] \in Known
    BY DEF StackInv, LocalsFit
  <2>2. Step = Len(did) + 1 /\ Len(did) \in Nat
    BY <1>1, <1>2, Recorded
  <2>3. \A y \in Locals : Argument(y) <= Step
    BY <2>2, StackAssumption DEF Argument
  <2> QED
    BY <1>5, <2>1, <2>2, <2>3 DEF Known
<1>8. Below(0) = stack /\ 0 \in Nat
  BY <1>1, ZeroEnds DEF Executes
<1> QED
  BY <1>1, <1>2, <1>5, <1>6, <1>7, <1>8, ExprsPush

(* Storing a local keeps the expressions on the stack harmless. *)
LEMMA StoreExprs ==
  ASSUME TypeInv, ExprsOK, NEW x \in Locals, Store(x)
  PROVE  ExprsOK'
<1>1. PICK k \in Ends(1) : Executes("set", x, Operands(k)) /\ stack' = Below(1)
  BY DEF Store, Say
<1>2. Operands(k) \in Seq(Int) /\ x \in Int
  BY EndsParts, StackAssumption
<1> QED
  BY <1>1, <1>2, ExprsPop

(* Incrementing a local keeps the expressions on the stack harmless. *)
LEMMA IncrementExprs ==
  ASSUME TypeInv, ExprsOK, NEW x \in Locals, Increment(x)
  PROVE  ExprsOK'
<1>1. Executes("set", x, <<Step>>) /\ stack' = stack
  BY DEF Increment, Say
<1>2. x \in Int /\ Step \in Int
  BY StackAssumption DEF TypeInv, Step
<1>3. <<Step>> \in Seq(Int)
  BY <1>2
<1>4. \A i \in DOMAIN stack' : \E j \in DOMAIN stack : stack'[i] = stack[j]
  BY <1>1
<1> QED
  BY <1>1, <1>2, <1>3, <1>4, ExprsKept

(* An arithmetic, comparison or heap-reading instruction keeps the expressions
   on the stack harmless. *)
LEMMA OperateExprs ==
  ASSUME TypeInv, ExprsOK, NEW n \in Nat, NEW what \in {"pure", "heap"}, Operate(n, what)
  PROVE  ExprsOK'
<1> DEFINE e == Expr("other", Step, Append(EventsOf(Popped(n)), Event(what, Step, Values(Popped(n)))))
<1>1. PICK k \in Ends(n) : Executes(what, Step, Operands(k)) /\ stack' = Append(Below(n), e)
  BY DEF Operate, ArgsOf, Push
<1>2. e \in ExprType /\ Harmless(e) /\ e.val <= Step /\ e.form # "new"
  BY OperationHarmless
<1> HIDE DEF e
<1>3. Step \in Int
  BY DEF TypeInv, Step
<1>4. Operands(k) \in Seq(Int)
  BY EndsParts
<1> QED
  BY <1>1, <1>2, <1>3, <1>4, ExprsPush

(* A store to a field or an array keeps the expressions on the stack
   harmless. *)
LEMMA PutExprs ==
  ASSUME TypeInv, ExprsOK, NEW n \in Nat, Put(n)
  PROVE  ExprsOK'
<1>1. PICK k \in Ends(n) : Executes("effect", Step, Operands(k)) /\ stack' = Below(n)
  BY DEF Put, Say
<1>2. Step \in Int
  BY DEF TypeInv, Step
<1>3. Operands(k) \in Seq(Int)
  BY EndsParts
<1> QED
  BY <1>1, <1>2, <1>3, ExprsPop

(* A call keeps the expressions on the stack harmless. *)
LEMMA InvokeExprs ==
  ASSUME TypeInv, ExprsOK, NEW n \in Nat, NEW void \in BOOLEAN, Invoke(n, void)
  PROVE  ExprsOK'
<1> DEFINE e == Expr("other", Step, Append(EventsOf(Popped(n)), Event("effect", Step, Values(Popped(n)))))
<1>1. PICK k \in Ends(n) :
        /\ Executes("effect", Step, Operands(k))
        /\ stack' = (IF void THEN Below(n) ELSE Append(Below(n), e))
  BY DEF Invoke, ArgsOf, Push, Say
<1>2. e \in ExprType /\ Harmless(e) /\ e.val <= Step /\ e.form # "new"
  BY OperationHarmless
<1> HIDE DEF e
<1>3. Step \in Int
  BY DEF TypeInv, Step
<1>4. Operands(k) \in Seq(Int)
  BY EndsParts
<1>5. CASE void
  BY <1>1, <1>3, <1>4, <1>5, ExprsPop
<1>6. CASE ~void
  BY <1>1, <1>2, <1>3, <1>4, <1>6, ExprsPush
<1> QED
  BY <1>5, <1>6

(* A new object keeps the expressions on the stack harmless. *)
LEMMA NewExprs ==
  ASSUME TypeInv, ExprsOK, New
  PROVE  ExprsOK'
<1> DEFINE e == Expr("new", Step, <<>>)
<1>1. Executes("pure", Step, <<>>) /\ stack' = Append(stack, e)
  BY DEF New, Push
<1>2. Step \in Int /\ <<>> \in Seq(Int) /\ <<>> \in Seq(EventType) /\ <<>> \in Seq(QuietType)
  BY EmptySeq DEF TypeInv, Step
<1>3. e \in ExprType /\ e.events = <<>> /\ e.val = Step /\ e.form = "new"
  <2>1. e \in ExprType
    BY <1>2, ExprIsTyped
  <2> QED
    BY <2>1 DEF Expr
<1> HIDE DEF e
<1>4. Harmless(e) /\ e.val <= Step
  BY <1>2, <1>3 DEF Harmless
<1>5. Below(0) = stack /\ 0 \in Nat
  BY <1>1, ZeroEnds DEF Executes
<1> QED
  BY <1>1, <1>2, <1>3, <1>4, <1>5, ExprsPush

(* The object with its arguments is the same wherever it is. *)
LEMMA ConstructExprs ==
  ASSUME TypeInv, ExprsOK, NEW n \in Nat, Construct(n)
  PROVE  ExprsOK'
<1> DEFINE args  == Popped(n + 1)
           made  == Made(n)
           after == AfterInit(n, made)
<1>1. PICK k \in Ends(n + 1) :
        /\ Executes("effect", Step, Operands(k))
        /\ stack' = (IF args[1].form = "new" THEN Replaced(after, made) ELSE Below(n + 1))
  BY ConstructParts
<1>2. Step \in Int /\ n + 1 \in Nat
  BY DEF TypeInv, Step
<1>3. Operands(k) \in Seq(Int)
  BY EndsParts
<1>4. CASE ~ (args[1].form = "new")
  BY <1>1, <1>2, <1>3, <1>4, ExprsPop
<1>5. CASE args[1].form = "new"
  <2> DEFINE v == Event("effect", Step, Values(args))
  <2>1. /\ made \in ExprType /\ made.form = "new" /\ made.val = args[1].val
        /\ Tail(args) \in Seq(ExprType) /\ args = <<args[1]>> \o Tail(args)
        /\ v \in EventType /\ v.what = "effect" /\ args[1] \in ExprType
        /\ made.events = EventsOf(Tail(args)) \o <<v>>
    BY MadeParts
  <2>2. \A i \in DOMAIN args : Harmless(args[i]) /\ args[i].val <= Len(did)
    BY <1>2, PoppedHarmless
  <2>3. args \in Seq(ExprType) /\ Len(args) = n + 1
    BY <1>2, ArgsParts
  <2> HIDE DEF v, args
  <2>4. v \in QuietType
    BY <2>1, QuietParts
  <2>5. EventsOf(Tail(args)) \in Seq(QuietType)
    <3>1. args # <<>>
      BY <2>3
    <3>2. Len(Tail(args)) = n /\ \A i \in 1 .. n : Tail(args)[i] = args[i + 1]
      BY <2>3, <3>1
    <3>3. \A i \in DOMAIN Tail(args) : Tail(args)[i].events \in Seq(QuietType)
      <4> DEFINE t == Tail(args)
      <4>1. t \in Seq(ExprType) /\ Len(t) = n
        BY <2>1, <3>2
      <4>2. DOMAIN args = 1 .. (n + 1)
        BY <2>3
      <4>3. \A i \in 1 .. n : i + 1 \in DOMAIN args
        BY <4>2
      <4> HIDE DEF t
      <4>4. DOMAIN t = 1 .. n
        BY <4>1
      <4> QED
        BY <2>2, <3>2, <4>3, <4>4 DEF Harmless, t
    <3> QED
      BY <2>1, <3>3, EventsOfIn
  <2>6. <<v>> \in Seq(QuietType)
    BY <2>4
  <2>7. EventsOf(Tail(args)) \o <<v>> \in Seq(QuietType)
    BY <2>5, <2>6, ConcatProperties
  <2>8. Harmless(made)
    BY <2>1, <2>7 DEF Harmless
  <2>9. /\ after = Append(Kept(n, made), made) /\ Kept(n, made) \in Seq(ExprType)
        /\ after \in Seq(ExprType)
        /\ \A i \in DOMAIN Kept(n, made) :
             i \in DOMAIN Below(n + 1) /\ Kept(n, made)[i] = Below(n + 1)[i]
    BY <2>1, AfterInitParts
  <2>10. \A i \in DOMAIN after :
           after[i] = made \/ \E j \in DOMAIN stack : after[i] = stack[j]
    <3>1. \A i \in DOMAIN after :
            after[i] = made \/ (i \in DOMAIN Kept(n, made) /\ after[i] = Kept(n, made)[i])
      BY <2>1, <2>9
    <3> QED
      BY <1>2, <2>9, <3>1, PoppedFrom
  <2> HIDE DEF after, made
  <2>11. \A i \in DOMAIN stack' :
           \/ stack'[i] = made
           \/ ~Same(stack'[i], made) /\ \E j \in DOMAIN stack : stack'[i] = stack[j]
    <3>1. stack' = Replaced(after, made)
      BY <1>1, <1>5 DEF args, made, after
    <3>2. /\ DOMAIN Replaced(after, made) = DOMAIN after
          /\ \A i \in DOMAIN after : Replaced(after, made)[i] = IF Same(after[i], made) THEN made ELSE after[i]
      BY <2>1, <2>9, ReplacedParts
    <3>3. \A i \in DOMAIN after : Same(after[i], made) \/ ~Same(after[i], made)
      OBVIOUS
    <3>4. ~Same(made, made) => FALSE
      BY <2>1 DEF Same
    <3> QED
      BY <2>10, <3>1, <3>2, <3>4
  <2>12. Len(did') = Len(did) + 1 /\ Len(did) \in Nat
    BY <1>1, <1>2, <1>3, Recorded
  <2>13. made.val <= Len(did')
    <3>1. args[1].val <= Len(did)
      BY <2>2, <2>3
    <3>2. args[1].val \in Int
      BY <2>1 DEF ExprType
    <3> QED
      BY <2>1, <2>12, <3>1, <3>2
  <2>14. \A j \in DOMAIN stack : stack[j].val <= Len(did')
    <3> SUFFICES ASSUME NEW j \in DOMAIN stack PROVE stack[j].val <= Len(did')
      OBVIOUS
    <3>1. stack[j] \in ExprType /\ stack[j].val <= Len(did)
      BY DEF TypeInv, ExprsOK
    <3>2. stack[j].val \in Int
      BY <3>1 DEF ExprType
    <3> QED
      BY <2>12, <3>1, <3>2
  <2>15. \A i \in DOMAIN stack' : stack'[i].val <= Len(did') /\ Harmless(stack'[i])
    BY <2>8, <2>11, <2>13, <2>14 DEF ExprsOK
  <2>16. ASSUME NEW i \in DOMAIN stack', NEW j \in DOMAIN stack', Same(stack'[i], stack'[j])
         PROVE  stack'[i].events = stack'[j].events
    <3>1. CASE stack'[i] = made /\ stack'[j] = made
      BY <3>1
    <3>2. CASE stack'[i] = made /\ stack'[j] # made
      BY <2>11, <2>16, <3>2 DEF Same
    <3>3. CASE stack'[i] # made /\ stack'[j] = made
      BY <2>11, <2>16, <3>3 DEF Same
    <3>4. CASE stack'[i] # made /\ stack'[j] # made
      BY <2>11, <2>16, <3>4 DEF ExprsOK
    <3> QED
      BY <3>1, <3>2, <3>3, <3>4
  <2> QED
    BY <2>15, <2>16 DEF ExprsOK, Harmless, Same
<1> QED
  BY <1>4, <1>5

(* A dup or swap keeps the expressions on the stack harmless. *)
LEMMA ShuffleExprs ==
  ASSUME TypeInv, ExprsOK, NEW s \in Shuffles, Shuffle(s)
  PROVE  ExprsOK'
<1> DEFINE n == s.take
           b == Below(n)
           mv == Moved(s)
<1>1. /\ Executes("pure", Step, <<>>)
      /\ stack' = (IF Len(stack) >= n THEN b \o mv ELSE stack)
  BY DEF Shuffle, Moved
<1>2. Step \in Int /\ <<>> \in Seq(Int)
  BY EmptySeq DEF TypeInv, Step
<1>3. mv \in Seq(ExprType) /\ DOMAIN mv = DOMAIN s.give
  BY ShuffleTyped
<1>4. n \in Nat /\ \A m \in DOMAIN s.give : s.give[m] \in 1 .. n
  BY ShufflesParts
<1>5. /\ b \in Seq(ExprType) /\ Len(Popped(n)) = n /\ Popped(n) \in Seq(ExprType)
      /\ \A i \in DOMAIN b : \E j \in DOMAIN stack : b[i] = stack[j]
  BY <1>4, ArgsParts, PoppedFrom
<1>6. \A m \in DOMAIN mv : mv[m] = Popped(n)[s.give[m]] /\ s.give[m] \in DOMAIN Popped(n)
  BY <1>3, <1>4, <1>5 DEF Moved
<1>7. stack \in Seq(ExprType)
  BY DEF TypeInv
<1> HIDE DEF n, b, mv
<1>8. ASSUME NEW i \in DOMAIN stack' PROVE \E j \in DOMAIN stack : stack'[i] = stack[j]
  <2>1. CASE Len(stack) >= n
    <3>1. /\ Popped(n) = Taken(n)
          /\ \A j \in DOMAIN Taken(n) : \E l \in DOMAIN stack : Taken(n)[j] = stack[l]
      BY <1>4, <1>7, <2>1, PoppedParts
    <3>2. /\ b \o mv \in Seq(ExprType) /\ Len(b \o mv) = Len(b) + Len(mv)
          /\ \A j \in 1 .. Len(b) + Len(mv) :
               (b \o mv)[j] = IF j <= Len(b) THEN b[j] ELSE mv[j - Len(b)]
      BY <1>3, <1>5, ConcatProperties
    <3>3. \/ i \in DOMAIN b /\ stack'[i] = b[i]
          \/ i - Len(b) \in DOMAIN mv /\ stack'[i] = mv[i - Len(b)]
      BY <1>1, <1>3, <1>5, <2>1, <3>2
    <3> QED
      BY <1>5, <1>6, <3>1, <3>3
  <2>2. CASE ~ (Len(stack) >= n)
    BY <1>1, <2>2
  <2> QED
    BY <2>1, <2>2
<1> QED
  BY <1>1, <1>2, <1>8, ExprsKept

(* A pop keeps the expressions on the stack harmless. *)
LEMMA DiscardExprs ==
  ASSUME TypeInv, ExprsOK, Discard
  PROVE  ExprsOK'
<1>1. Executes("pure", Step, <<>>) /\ stack' = Below(1)
  BY DEF Discard, Say
<1>2. Step \in Int /\ <<>> \in Seq(Int)
  BY EmptySeq DEF TypeInv, Step
<1> QED
  BY <1>1, <1>2, ExprsPop

(* A pop2 keeps the expressions on the stack harmless. *)
LEMMA Discard2Exprs ==
  ASSUME TypeInv, ExprsOK, Discard2
  PROVE  ExprsOK'
<1>1. Executes("pure", Step, <<>>) /\ stack' = Below(2)
  BY DEF Discard2
<1>2. Step \in Int /\ <<>> \in Seq(Int)
  BY EmptySeq DEF TypeInv, Step
<1> QED
  BY <1>1, <1>2, ExprsPop

(* A string concatenation keeps the expressions on the stack harmless. *)
LEMMA ConcatExprs ==
  ASSUME TypeInv, ExprsOK, NEW n \in Nat, Concat(n)
  PROVE  ExprsOK'
<1> DEFINE args == Reverse(Popped(n))
           v    == Event("pure", Step, Values(args))
           e    == Expr("other", Step, Append(EventsOf(args), v))
<1>1. PICK k \in Ends(n) :
        Executes("pure", Step, Operands(k)) /\ stack' = Append(Below(n), Joined(args))
  BY DEF Concat, ArgsOf
<1>2. Step \in Int
  BY DEF TypeInv, Step
<1>3. Operands(k) \in Seq(Int)
  BY EndsParts
<1>11. CASE n = 1
  <2>1. /\ stack' = Append(Below(n), Popped(n)[1]) /\ Below(n) \in Seq(ExprType)
        /\ 1 \in DOMAIN Popped(n)
    BY <1>1, <1>11, ArgsParts, JoinedParts
  <2>2. Popped(n)[1] = StackValue \/ \E j \in DOMAIN stack : Popped(n)[1] = stack[j]
    BY <2>1, PoppedFrom
  <2>3. \A i \in DOMAIN stack' :
          stack'[i] = StackValue \/ \E j \in DOMAIN stack : stack'[i] = stack[j]
    <3>1. \A i \in DOMAIN stack' :
            stack'[i] = Popped(n)[1] \/ (i \in DOMAIN Below(n) /\ stack'[i] = Below(n)[i])
      BY <2>1
    <3> QED
      BY <2>2, <3>1, PoppedFrom
  <2>4. Step \in Nat /\ StackValue \in ExprType /\ Harmless(StackValue)
        /\ StackValue.val = 0 /\ StackValue.form = "name"
    BY <1>1, <1>2, <1>3, Recorded, StackValueHarmless, StackValueType
  <2>5. StackValue.val <= Step
    BY <2>4
  <2> HIDE DEF StackValue
  <2> QED
    BY <1>1, <1>2, <1>3, <2>3, <2>4, <2>5, ExprsStep
<1>12. CASE n # 1
  <2>11. stack' = Append(Below(n), e)
    BY <1>1, <1>12, JoinedParts
  <2>4. /\ args \in Seq(ExprType) /\ DOMAIN args = DOMAIN Popped(n)
        /\ Popped(n) \in Seq(ExprType)
        /\ \A i \in 1 .. Len(Popped(n)) : \E j \in 1 .. Len(Popped(n)) : args[i] = Popped(n)[j]
    BY ArgsParts, ReverseParts
  <2>5. \A i \in DOMAIN args : args[i].events \in Seq(QuietType)
    <3>1. \A i \in DOMAIN Popped(n) : Popped(n)[i].events \in Seq(QuietType)
      BY PoppedHarmless DEF Harmless
    <3>2. DOMAIN Popped(n) = 1 .. Len(Popped(n))
      BY <2>4
    <3> HIDE DEF args
    <3> QED
      BY <2>4, <3>1, <3>2
  <2> HIDE DEF args
  <2>6. EventsOf(args) \in Seq(EventType) /\ Values(args) \in Seq(Int) /\ EventsOf(args) \in Seq(QuietType)
    BY <2>4, <2>5, EventsOfParts, ValuesOf, EventsOfIn
  <2>7. v \in EventType /\ v \in QuietType
    BY <1>2, <2>6 DEF Event, EventType, QuietType
  <2> HIDE DEF v
  <2>8. Append(EventsOf(args), v) \in Seq(EventType) /\ Append(EventsOf(args), v) \in Seq(QuietType)
    BY <2>6, <2>7
  <2>9. e \in ExprType /\ e.events = Append(EventsOf(args), v) /\ e.val = Step /\ e.form = "other"
    <3>1. e \in ExprType
      BY <1>2, <2>8, ExprIsTyped
    <3> QED
      BY <3>1 DEF Expr
  <2> HIDE DEF e
  <2>10. Harmless(e) /\ e.val <= Step
    BY <1>2, <2>8, <2>9 DEF Harmless
  <2> QED
    BY <1>1, <1>2, <1>3, <2>9, <2>10, <2>11, ExprsPush
<1> QED
  BY <1>11, <1>12

(* A lambda keeps the expressions on the stack harmless. *)
LEMMA LambdaExprs ==
  ASSUME TypeInv, ExprsOK, NEW n \in Nat, Lambda(n)
  PROVE  ExprsOK'
<1> DEFINE v == Event("pure", Step, <<>>)
           e == Expr("other", Step, <<v>>)
<1>1. PICK k \in Ends(n) : Executes("pure", Step, Operands(k)) /\ stack' = Append(Below(n), e)
  BY DEF Lambda
<1>2. Step \in Int /\ <<>> \in Seq(Int) /\ Operands(k) \in Seq(Int)
  <2>1. Operands(k) \in Seq(Int)
    BY EndsParts
  <2> QED
    BY <2>1, EmptySeq DEF TypeInv, Step
<1>3. v \in QuietType /\ v \in EventType
  BY <1>2 DEF Event, QuietType, EventType
<1> HIDE DEF v
<1>4. <<v>> \in Seq(EventType) /\ <<v>> \in Seq(QuietType)
  BY <1>3
<1>5. e \in ExprType /\ e.events = <<v>> /\ e.val = Step /\ e.form = "other"
  <2>1. e \in ExprType
    BY <1>2, <1>4, ExprIsTyped
  <2> QED
    BY <2>1 DEF Expr
<1> HIDE DEF e
<1>6. Harmless(e) /\ e.val <= Step
  BY <1>2, <1>4, <1>5 DEF Harmless
<1> QED
  BY <1>1, <1>2, <1>5, <1>6, ExprsPush

(* An instruction the decompiler skips keeps the expressions on the stack
   harmless. *)
LEMMA UnhandledExprs ==
  ASSUME TypeInv, ExprsOK, NEW n \in Nat, NEW result \in BOOLEAN, Unhandled(n, result)
  PROVE  ExprsOK'
<1>1. PICK k \in Ends(n) :
        Executes(IF result THEN "pure" ELSE "effect", Step, Operands(k)) /\ stack' = stack
  BY DEF Unhandled
<1>2. Step \in Int
  BY DEF TypeInv, Step
<1>3. Operands(k) \in Seq(Int)
  BY EndsParts
<1>4. \A i \in DOMAIN stack' : \E j \in DOMAIN stack : stack'[i] = stack[j]
  BY <1>1
<1>5. (IF result THEN "pure" ELSE "effect") \in {"pure", "read", "set", "heap", "effect"}
  OBVIOUS
<1> QED
  BY <1>1, <1>2, <1>3, <1>4, <1>5, ExprsKept

(* A return or throw keeps the expressions on the stack harmless. *)
LEMMA ReturnExprs ==
  ASSUME TypeInv, ExprsOK, NEW n \in Nat, Return(n)
  PROVE  ExprsOK'
<1>1. PICK k \in Ends(n) : Executes("pure", Step, Operands(k)) /\ stack' = <<>>
  BY DEF Return
<1>2. Step \in Int
  BY DEF TypeInv, Step
<1>3. Operands(k) \in Seq(Int)
  BY EndsParts
<1>4. \A i \in DOMAIN stack' : \E j \in DOMAIN stack : stack'[i] = stack[j]
  BY <1>1
<1> QED
  BY <1>1, <1>2, <1>3, <1>4, ExprsKept

(* In every state the expressions on the stack set no local and name values
   already computed. *)
LEMMA ExprsOKHolds == Spec => []ExprsOK
<1>1. Init => ExprsOK
  BY DEF Init, ExprsOK
<1>2. TypeInv /\ StackInv /\ ExprsOK /\ [Next]_vars => ExprsOK'
  <2> SUFFICES ASSUME TypeInv, StackInv, ExprsOK, [Next]_vars PROVE ExprsOK'
    OBVIOUS
  <2>1. 0 .. MaxArgs \subseteq Nat /\ 1 .. MaxArgs \subseteq Nat /\ 0 .. 2 \subseteq Nat
        /\ 0 .. 3 \subseteq Nat /\ 1 .. 3 \subseteq Nat /\ {0, 1} \subseteq Nat
    BY StackAssumption
  <2>2. CASE UNCHANGED vars
    BY <2>2 DEF ExprsOK, Harmless, Same, vars
  <2>3. CASE Next
    BY <2>1, <2>3, ConstantExprs, LoadExprs, StoreExprs, IncrementExprs, OperateExprs, PutExprs,
       InvokeExprs, NewExprs, ConstructExprs, ShuffleExprs, DiscardExprs, Discard2Exprs,
       ConcatExprs, LambdaExprs, UnhandledExprs, ReturnExprs, Zenon DEF Next
  <2> QED
    BY <2>2, <2>3
<1> QED
  BY <1>1, <1>2, TypeInvHolds, StackInvHolds, PTL DEF Spec

-----------------------------------------------------------------------------
(* Which effects the method has. *)

EffectsOK ==
  /\ \A i : Does(Method, i) => i \in 1 .. Len(did)
  /\ ~dropped => \A i \in EffectSteps : Does(Method, i)
  /\ ~copied => \A i : DoesOnce(Method, i)

(* Events that are no effect: those of the invented name, reads, and any list
   without an effect. *)
LEMMA NoneDone ==
  /\ \A i : ~Does(StackValue.events, i) /\ DoesOnce(StackValue.events, i)
  /\ \A s \in Seq(ReadType) : \A i : ~Does(s, i)
  /\ \A s : ~HasEffect(s) => \A i : ~Does(s, i)
  /\ \A e, i : e.what = "effect" => (IsEffectOf(e, i) <=> e.at = i)
  /\ \A e, i : e.what # "effect" => ~IsEffectOf(e, i)
<1>1. \A i : ~Does(StackValue.events, i) /\ DoesOnce(StackValue.events, i)
  <2> DEFINE e == Event("read", 0, <<0>>)
  <2>1. StackValue.events = <<e>> /\ \A i : ~IsEffectOf(e, i)
    BY DEF StackValue, Expr, Event, IsEffectOf, IsEffect
  <2> HIDE DEF e
  <2> QED
    BY <2>1, DoesParts
<1>2. ASSUME NEW s \in Seq(ReadType), NEW i PROVE ~Does(s, i)
  <2>1. \A p \in DOMAIN s : s[p] \in ReadType
    OBVIOUS
  <2>2. \A p \in DOMAIN s : s[p].what = "read"
    BY <2>1, QuietParts
  <2> QED
    BY <2>2 DEF Does, IsEffectOf, IsEffect
<1>3. ASSUME NEW s, ~HasEffect(s), NEW i PROVE ~Does(s, i)
  BY <1>3 DEF HasEffect, Does, IsEffectOf
<1> QED
  BY <1>1, <1>2, <1>3 DEF IsEffectOf, IsEffect

(* The effects of a concatenation of three. *)
DoesOneOf(a, b, c, i) == Does(a, i) \/ Does(b, i) \/ Does(c, i)

OnceInAll(a, b, c, i) ==
  /\ DoesOnce(a, i) /\ DoesOnce(b, i) /\ DoesOnce(c, i)
  /\ ~ (Does(a, i) /\ Does(b, i)) /\ ~ (Does(a, i) /\ Does(c, i)) /\ ~ (Does(b, i) /\ Does(c, i))

(* Which effects three lists of events have together. *)
LEMMA DoesThree ==
  ASSUME NEW a \in Seq(EventType), NEW b \in Seq(EventType), NEW c \in Seq(EventType), NEW i
  PROVE  /\ Does(a \o (b \o c), i) <=> DoesOneOf(a, b, c, i)
         /\ DoesOnce(a \o (b \o c), i) <=> OnceInAll(a, b, c, i)
<1>1. b \o c \in Seq(EventType)
  BY ConcatProperties
<1>2. /\ Does(b \o c, i) <=> Does(b, i) \/ Does(c, i)
      /\ DoesOnce(b \o c, i) <=> DoesOnce(b, i) /\ DoesOnce(c, i) /\ ~ (Does(b, i) /\ Does(c, i))
  BY DoesConcat
<1>3. /\ Does(a \o (b \o c), i) <=> Does(a, i) \/ Does(b \o c, i)
      /\ DoesOnce(a \o (b \o c), i) <=>
           DoesOnce(a, i) /\ DoesOnce(b \o c, i) /\ ~ (Does(a, i) /\ Does(b \o c, i))
  BY <1>1, DoesConcat
<1> QED
  BY <1>2, <1>3 DEF DoesOneOf, OnceInAll

(* Those of the method: in the statements, below n expressions and in them. *)
LEMMA MethodDoes ==
  ASSUME TypeInv, NEW n \in Nat, NEW i
  PROVE  LET B == EventsOf(Below(n))
             P == EventsOf(Popped(n))
         IN  /\ Does(Method, i) <=> DoesOneOf(out, B, P, i)
             /\ DoesOnce(Method, i) <=> OnceInAll(out, B, P, i)
<1> DEFINE B == EventsOf(Below(n))
           P == EventsOf(Popped(n))
           T == EventsOf(Taken(n))
           V == EventsOf(Invented(n))
<1>1. out \in Seq(EventType) /\ stack \in Seq(ExprType)
  BY DEF TypeInv
<1>2. /\ Below(n) \in Seq(ExprType) /\ Taken(n) \in Seq(ExprType) /\ Invented(n) \in Seq(ExprType)
      /\ stack = Below(n) \o Taken(n) /\ Popped(n) = Invented(n) \o Taken(n)
      /\ \A j \in DOMAIN Invented(n) : Invented(n)[j] = StackValue
  BY <1>1, PoppedParts
<1>3. B \in Seq(EventType) /\ T \in Seq(EventType) /\ V \in Seq(EventType)
      /\ EventsOf(stack) = B \o T /\ P = V \o T
  BY <1>2, EventsOfParts
<1>4. ~Does(V, i) /\ DoesOnce(V, i)
  <2>1. \A j \in DOMAIN Invented(n) :
          ~Does(Invented(n)[j].events, i) /\ DoesOnce(Invented(n)[j].events, i)
    BY <1>2, NoneDone
  <2>2. /\ Does(EventsOf(Invented(n)), i) <=> \E j \in DOMAIN Invented(n) : Does(Invented(n)[j].events, i)
        /\ DoesOnce(EventsOf(Invented(n)), i) <=>
             /\ \A j \in DOMAIN Invented(n) : DoesOnce(Invented(n)[j].events, i)
             /\ \A j, k \in DOMAIN Invented(n) :
                  Does(Invented(n)[j].events, i) /\ Does(Invented(n)[k].events, i) => j = k
    BY <1>2, DoesEvents
  <2> QED
    BY <2>1, <2>2
<1> HIDE DEF B, P, T, V
<1>5. (Does(P, i) <=> Does(T, i)) /\ (DoesOnce(P, i) <=> DoesOnce(T, i))
  BY <1>3, <1>4, DoesConcat
<1>6. Method = out \o (B \o T)
  BY <1>3 DEF Method
<1>7. (Does(Method, i) <=> DoesOneOf(out, B, T, i)) /\ (DoesOnce(Method, i) <=> OnceInAll(out, B, T, i))
  BY <1>1, <1>3, <1>6, DoesThree
<1>8. (Does(Method, i) <=> DoesOneOf(out, B, P, i)) /\ (DoesOnce(Method, i) <=> OnceInAll(out, B, P, i))
  BY <1>5, <1>7 DEF DoesOneOf, OnceInAll
<1> QED
  BY <1>8 DEF B, P

(* A step that replaces what is below by q and what is popped by p, and adds
   the effects new. *)
TakesPlace(what, at, n, q, p, new) ==
  /\ what = "effect" => at = Step
  /\ \A i : Does(Method', i) <=> Does(out, i) \/ DoesOneOf(q, p, new, i)
  /\ ~copied' => \A i : /\ DoesOnce(out, i) /\ OnceInAll(q, p, new, i)
                         /\ ~ (Does(out, i) /\ DoesOneOf(q, p, new, i))
                         => DoesOnce(Method', i)
  /\ \A i : Does(q, i) => Does(EventsOf(Below(n)), i)
  /\ \A i : Does(p, i) => Does(EventsOf(Popped(n)), i)
  /\ \A i : Does(new, i) => what = "effect" /\ i = Step
  /\ ~dropped' => /\ ~dropped
                  /\ \A i : Does(EventsOf(Below(n)), i) => Does(q, i)
                  /\ \A i : Does(EventsOf(Popped(n)), i) => Does(p, i)
                  /\ what = "effect" => Does(new, Step)
  /\ ~copied' => /\ ~copied
                 /\ \A i : DoesOnce(EventsOf(Below(n)), i) => DoesOnce(q, i)
                 /\ \A i : DoesOnce(EventsOf(Popped(n)), i) => DoesOnce(p, i)
                 /\ \A i : DoesOnce(new, i)

(* A step that prints or pushes the events it takes, and its own once, neither
   loses nor repeats an effect. *)
LEMMA EffectsStep ==
  ASSUME TypeInv, EffectsOK, NEW what \in {"pure", "read", "set", "heap", "effect"},
         NEW at \in Int, NEW in \in Seq(Int), Executes(what, at, in), NEW n \in Nat,
         NEW q, NEW p, NEW new, TakesPlace(what, at, n, q, p, new)
  PROVE  EffectsOK'
<1>1. /\ what = "effect" => at = Step
      /\ \A i : Does(Method', i) <=> Does(out, i) \/ DoesOneOf(q, p, new, i)
      /\ \A i : Does(q, i) => Does(EventsOf(Below(n)), i)
      /\ \A i : Does(p, i) => Does(EventsOf(Popped(n)), i)
      /\ \A i : Does(new, i) => what = "effect" /\ i = Step
  BY DEF TakesPlace
<1>2. ~copied' => \A i : /\ DoesOnce(out, i) /\ OnceInAll(q, p, new, i)
                         /\ ~ (Does(out, i) /\ DoesOneOf(q, p, new, i))
                         => DoesOnce(Method', i)
  BY DEF TakesPlace
<1>3. ~dropped' => /\ ~dropped
                   /\ \A i : Does(EventsOf(Below(n)), i) => Does(q, i)
                   /\ \A i : Does(EventsOf(Popped(n)), i) => Does(p, i)
                   /\ what = "effect" => Does(new, Step)
  BY DEF TakesPlace
<1>4. ~copied' => /\ ~copied
                  /\ \A i : DoesOnce(EventsOf(Below(n)), i) => DoesOnce(q, i)
                  /\ \A i : DoesOnce(EventsOf(Popped(n)), i) => DoesOnce(p, i)
                  /\ \A i : DoesOnce(new, i)
  BY DEF TakesPlace
<1> DEFINE B == EventsOf(Below(n))
           P == EventsOf(Popped(n))
           d == Event(what, at, in)
<1>5. /\ Len(did') = Step /\ Step = Len(did) + 1 /\ Len(did) \in Nat
      /\ did' \in Seq(EventType) /\ did \in Seq(EventType)
      /\ did'[Step] = d /\ d.what = what /\ d.at = at
      /\ \A i \in 1 .. Len(did) : did'[i] = did[i]
  <2>1. /\ did' \in Seq(EventType) /\ Len(did') = Step
        /\ Len(did) \in Nat /\ Step = Len(did) + 1
        /\ d.what = what /\ d.at = at /\ did'[Step] = d
        /\ \A i \in 1 .. Len(did) : did'[i] = did[i]
    BY Recorded
  <2>2. did \in Seq(EventType)
    BY DEF TypeInv
  <2> HIDE DEF d
  <2> QED
    BY <2>1, <2>2
<1>6. \A i : /\ Does(Method, i) <=> DoesOneOf(out, B, P, i)
             /\ DoesOnce(Method, i) <=> OnceInAll(out, B, P, i)
  BY MethodDoes
<1> HIDE DEF B, P, d
<1>7. \A i : Does(Method, i) => i # Step
  BY <1>5 DEF EffectsOK
<1>8. ASSUME NEW i, Does(Method', i)
      PROVE  i \in 1 .. Len(did')
  <2>1. Does(Method, i) \/ i = Step
    BY <1>1, <1>6, <1>8 DEF DoesOneOf, B, P
  <2>2. i \in 1 .. Len(did) \/ i = Step
    BY <2>1 DEF EffectsOK
  <2> QED
    BY <1>5, <2>2
<1>9. ASSUME ~dropped', NEW i \in EffectSteps'
      PROVE  Does(Method', i)
  <2>0. /\ ~dropped
        /\ Does(B, i) => Does(q, i)
        /\ Does(P, i) => Does(p, i)
        /\ what = "effect" => Does(new, Step)
    <3>1. /\ ~dropped
          /\ \A j : Does(EventsOf(Below(n)), j) => Does(q, j)
          /\ \A j : Does(EventsOf(Popped(n)), j) => Does(p, j)
          /\ what = "effect" => Does(new, Step)
      BY <1>3, <1>9
    <3> QED
      BY <3>1 DEF B, P
  <2>1. i \in 1 .. Step /\ IsEffect(did'[i])
    <3>1. DOMAIN did' = 1 .. Step
      BY <1>5
    <3> QED
      BY <3>1 DEF EffectSteps, IsEffect
  <2>2. CASE i \in 1 .. Len(did)
    <3>1. i \in EffectSteps
      <4>1. DOMAIN did = 1 .. Len(did)
        BY <1>5
      <4> QED
        BY <1>5, <2>1, <2>2, <4>1 DEF EffectSteps
    <3>2. Does(Method, i)
      BY <2>0, <3>1 DEF EffectsOK
    <3> QED
      BY <1>1, <1>6, <2>0, <3>2 DEF DoesOneOf
  <2>3. CASE i = Step
    <3>1. what = "effect"
      BY <1>5, <2>1, <2>3 DEF IsEffect
    <3> QED
      BY <1>1, <2>0, <2>3, <3>1 DEF DoesOneOf
  <2>4. i \in 1 .. Len(did) \/ i = Step
    BY <1>5, <2>1
  <2> QED
    BY <2>2, <2>3, <2>4
<1>10. ASSUME ~copied', NEW i
      PROVE  DoesOnce(Method', i)
  <2>0. ~copied
    BY <1>4, <1>10
  <2>1. OnceInAll(out, B, P, i)
    BY <1>6, <2>0 DEF EffectsOK
  <2>2. DoesOnce(out, i) /\ DoesOnce(q, i) /\ DoesOnce(p, i) /\ DoesOnce(new, i)
    BY <1>4, <1>10, <2>1 DEF OnceInAll, B, P
  <2>3. (Does(q, i) => Does(B, i)) /\ (Does(p, i) => Does(P, i))
    BY <1>1 DEF B, P
  <2>4. Does(new, i) => ~Does(out, i) /\ ~Does(B, i) /\ ~Does(P, i)
    BY <1>1, <1>6, <1>7 DEF DoesOneOf
  <2>5. OnceInAll(q, p, new, i) /\ ~ (Does(out, i) /\ DoesOneOf(q, p, new, i))
    BY <2>1, <2>2, <2>3, <2>4 DEF OnceInAll, DoesOneOf
  <2> QED
    BY <1>2, <1>10, <2>2, <2>5
<1> QED
  BY <1>8, <1>9, <1>10 DEF EffectsOK, Does, DoesOnce, IsEffectOf, IsEffect


(* Two orders of what is printed, what stays and what the step adds. *)
LEMMA DoesFour ==
  ASSUME NEW o \in Seq(EventType), NEW q \in Seq(EventType), NEW p \in Seq(EventType),
         NEW c \in Seq(EventType), NEW m,
         m = o \o (q \o (p \o c)) \/ m = (o \o (p \o c)) \o q, NEW i
  PROVE  /\ Does(m, i) <=> Does(o, i) \/ DoesOneOf(q, p, c, i)
         /\ DoesOnce(m, i) <=> /\ DoesOnce(o, i) /\ OnceInAll(q, p, c, i)
                               /\ ~ (Does(o, i) /\ DoesOneOf(q, p, c, i))
<1>1. p \o c \in Seq(EventType) /\ q \o (p \o c) \in Seq(EventType) /\ o \o (p \o c) \in Seq(EventType)
  <2>1. p \o c \in Seq(EventType)
    BY ConcatProperties
  <2> QED
    BY <2>1, ConcatProperties
<1>2. /\ Does(q \o (p \o c), i) <=> DoesOneOf(q, p, c, i)
      /\ DoesOnce(q \o (p \o c), i) <=> OnceInAll(q, p, c, i)
  BY DoesThree
<1>3. /\ Does(p \o c, i) <=> Does(p, i) \/ Does(c, i)
      /\ DoesOnce(p \o c, i) <=> DoesOnce(p, i) /\ DoesOnce(c, i) /\ ~ (Does(p, i) /\ Does(c, i))
  BY DoesConcat
<1>4. CASE m = o \o (q \o (p \o c))
  <2> DEFINE r == q \o (p \o c)
  <2>1. r \in Seq(EventType) /\ m = o \o r
    BY <1>1, <1>4
  <2>2. /\ Does(r, i) <=> DoesOneOf(q, p, c, i)
        /\ DoesOnce(r, i) <=> OnceInAll(q, p, c, i)
    BY <1>2
  <2> HIDE DEF r
  <2>3. /\ Does(o \o r, i) <=> Does(o, i) \/ Does(r, i)
        /\ DoesOnce(o \o r, i) <=> DoesOnce(o, i) /\ DoesOnce(r, i) /\ ~ (Does(o, i) /\ Does(r, i))
    BY <2>1, DoesConcat
  <2> QED
    BY <2>1, <2>2, <2>3
<1>5. CASE m = (o \o (p \o c)) \o q
  <2>1. /\ Does(o \o (p \o c), i) <=> Does(o, i) \/ Does(p \o c, i)
        /\ DoesOnce(o \o (p \o c), i) <=> /\ DoesOnce(o, i) /\ DoesOnce(p \o c, i)
                                          /\ ~ (Does(o, i) /\ Does(p \o c, i))
    BY <1>1, DoesConcat
  <2>2. /\ Does(m, i) <=> Does(o \o (p \o c), i) \/ Does(q, i)
        /\ DoesOnce(m, i) <=> /\ DoesOnce(o \o (p \o c), i) /\ DoesOnce(q, i)
                              /\ ~ (Does(o \o (p \o c), i) /\ Does(q, i))
    BY <1>1, <1>5, DoesConcat
  <2> QED
    BY <1>3, <2>1, <2>2 DEF DoesOneOf, OnceInAll
<1> QED
  BY <1>4, <1>5

(* A step that leaves what is below, and puts p and new on the stack or into
   the method instead of what is popped. *)
LEMMA EffectsMoved ==
  ASSUME TypeInv, EffectsOK, NEW what \in {"pure", "read", "set", "heap", "effect"},
         NEW at \in Int, NEW in \in Seq(Int), Executes(what, at, in),
         what = "effect" => at = Step, NEW n \in Nat,
         NEW p \in Seq(EventType), NEW new \in Seq(EventType),
         \/ \E e \in ExprType : stack' = Append(Below(n), e) /\ out' = out /\ e.events = p \o new
         \/ stack' = Below(n) /\ out' = out \o (p \o new),
         \A i : Does(p, i) => Does(EventsOf(Popped(n)), i),
         \A i : Does(new, i) => what = "effect" /\ i = Step,
         ~dropped' => /\ ~dropped
                      /\ \A i : Does(EventsOf(Popped(n)), i) => Does(p, i)
                      /\ what = "effect" => Does(new, Step),
         ~copied' => /\ ~copied
                     /\ \A i : DoesOnce(EventsOf(Popped(n)), i) => DoesOnce(p, i)
                     /\ \A i : DoesOnce(new, i)
  PROVE  EffectsOK'
<1> DEFINE q == EventsOf(Below(n))
<1>1. out \in Seq(EventType) /\ q \in Seq(EventType) /\ Below(n) \in Seq(ExprType)
  BY ArgsParts DEF TypeInv
<1>2. Method' = out \o (q \o (p \o new)) \/ Method' = (out \o (p \o new)) \o q
  <2>1. CASE \E e \in ExprType : stack' = Append(Below(n), e) /\ out' = out /\ e.events = p \o new
    <3>1. PICK e \in ExprType : stack' = Append(Below(n), e) /\ out' = out /\ e.events = p \o new
      BY <2>1
    <3>2. EventsOf(stack') = q \o (p \o new)
      BY <1>1, <3>1, EventsOfAppend
    <3>3. Method' = out' \o EventsOf(stack')
      BY DEF Method, EventsOf
    <3> QED
      BY <3>1, <3>2, <3>3
  <2>2. CASE stack' = Below(n) /\ out' = out \o (p \o new)
    <3>1. Method' = out' \o EventsOf(stack')
      BY DEF Method, EventsOf
    <3> QED
      BY <2>2, <3>1
  <2> QED
    BY <2>1, <2>2
<1> DEFINE m == Method'
<1>3. m = out \o (q \o (p \o new)) \/ m = (out \o (p \o new)) \o q
  BY <1>2
<1> HIDE DEF q, m
<1>4. \A i : /\ Does(m, i) <=> Does(out, i) \/ DoesOneOf(q, p, new, i)
             /\ DoesOnce(m, i) <=> /\ DoesOnce(out, i) /\ OnceInAll(q, p, new, i)
                                   /\ ~ (Does(out, i) /\ DoesOneOf(q, p, new, i))
  BY <1>1, <1>3, DoesFour
<1>5. \A i : Does(Method', i) <=> Does(out, i) \/ DoesOneOf(q, p, new, i)
  BY <1>4 DEF m
<1>6. ~copied' => \A i : /\ DoesOnce(out, i) /\ OnceInAll(q, p, new, i)
                         /\ ~ (Does(out, i) /\ DoesOneOf(q, p, new, i))
                         => DoesOnce(Method', i)
  BY <1>4 DEF m
<1>7. /\ \A i : Does(q, i) => Does(EventsOf(Below(n)), i)
      /\ \A i : Does(EventsOf(Below(n)), i) => Does(q, i)
      /\ \A i : DoesOnce(EventsOf(Below(n)), i) => DoesOnce(q, i)
  BY DEF q
<1> QED
  <2>1. TakesPlace(what, at, n, q, p, new)
    BY <1>5, <1>6, <1>7 DEF TakesPlace
  <2> QED
    BY <2>1, EffectsStep

(* One event has one effect at most. *)
LEMMA OneEvent ==
  ASSUME NEW e \in EventType
  PROVE  /\ <<e>> \in Seq(EventType)
         /\ \A i : (Does(<<e>>, i) <=> e.what = "effect" /\ e.at = i) /\ DoesOnce(<<e>>, i)
<1>1. <<e>> \in Seq(EventType)
  OBVIOUS
<1>2. \A i : (Does(<<e>>, i) <=> IsEffectOf(e, i)) /\ DoesOnce(<<e>>, i)
  BY DoesParts
<1>3. \A i : IsEffectOf(e, i) <=> e.what = "effect" /\ e.at = i
  BY DEF IsEffectOf, IsEffect
<1> QED
  BY <1>1, <1>2, <1>3

(* Nothing is popped and nothing has an effect. *)
LEMMA EffectsAdded ==
  ASSUME TypeInv, EffectsOK, NEW what \in {"pure", "read", "set", "heap"},
         NEW at \in Int, NEW in \in Seq(Int), Executes(what, at, in),
         NEW new \in Seq(EventType), \A i : ~Does(new, i) /\ DoesOnce(new, i),
         \/ \E e \in ExprType : stack' = Append(stack, e) /\ out' = out /\ e.events = new
         \/ stack' = stack /\ out' = out \o new,
         UNCHANGED <<dropped, copied>>
  PROVE  EffectsOK'
<1>1. Running
  BY DEF Executes
<1>2. Below(0) = stack /\ EventsOf(Popped(0)) = <<>>
  BY <1>1, ZeroEnds
<1>3. <<>> \in Seq(EventType) /\ <<>> \o new = new /\ \A i : ~Does(<<>>, i) /\ DoesOnce(<<>>, i)
  BY EmptySeq, ConcatEmptySeq, DoesParts
<1>4. \/ \E e \in ExprType : stack' = Append(Below(0), e) /\ out' = out /\ e.events = <<>> \o new
      \/ stack' = Below(0) /\ out' = out \o (<<>> \o new)
  BY <1>2, <1>3
<1>5. /\ \A i : Does(<<>>, i) => Does(EventsOf(Popped(0)), i)
      /\ \A i : Does(EventsOf(Popped(0)), i) => Does(<<>>, i)
      /\ \A i : DoesOnce(EventsOf(Popped(0)), i) => DoesOnce(<<>>, i)
  BY <1>2
<1>6. what # "effect" /\ what \in {"pure", "read", "set", "heap", "effect"} /\ 0 \in Nat
  OBVIOUS
<1> QED
  BY <1>3, <1>4, <1>5, <1>6, EffectsMoved

(* An operation takes the effects of its operands along. *)
LEMMA EffectsOperation ==
  ASSUME TypeInv, EffectsOK, NEW what \in {"pure", "heap", "effect"},
         NEW in \in Seq(Int), Executes(what, Step, in), NEW n \in Nat,
         LET s == Append(EventsOf(Popped(n)), Event(what, Step, Values(Popped(n))))
         IN  Push(Below(n), Expr("other", Step, s)) \/ Say(Below(n), s),
         UNCHANGED <<dropped, copied>>
  PROVE  EffectsOK'
<1> DEFINE p == EventsOf(Popped(n))
           v == Event(what, Step, Values(Popped(n)))
           s == Append(p, v)
           e == Expr("other", Step, s)
<1>1. what \in {"pure", "read", "set", "heap", "effect"} /\ Step \in Int
  BY DEF TypeInv, Step
<1>2. v \in EventType /\ s = p \o <<v>> /\ e \in ExprType /\ p \in Seq(EventType) /\ s \in Seq(EventType)
  BY <1>1, OperationTyped, ArgsParts
<1>3. v.what = what /\ v.at = Step /\ e.events = s
  BY DEF Event, Expr
<1>4. Push(Below(n), e) \/ Say(Below(n), s)
  OBVIOUS
<1> HIDE DEF v, s, e
<1>5. \/ stack' = Append(Below(n), e) /\ out' = out
      \/ stack' = Below(n) /\ out' = out \o s
  BY <1>4 DEF Push, Say
<1>6. /\ <<v>> \in Seq(EventType)
      /\ \A i : (Does(<<v>>, i) <=> what = "effect" /\ i = Step) /\ DoesOnce(<<v>>, i)
  BY <1>2, <1>3, OneEvent
<1>7. \/ \E x \in ExprType : stack' = Append(Below(n), x) /\ out' = out /\ x.events = p \o <<v>>
      \/ stack' = Below(n) /\ out' = out \o (p \o <<v>>)
  BY <1>2, <1>3, <1>5
<1>8. /\ \A i : Does(p, i) => Does(EventsOf(Popped(n)), i)
      /\ \A i : Does(EventsOf(Popped(n)), i) => Does(p, i)
      /\ \A i : DoesOnce(EventsOf(Popped(n)), i) => DoesOnce(p, i)
  OBVIOUS
<1> HIDE DEF p
<1> DEFINE c == <<v>>
<1>9. /\ c \in Seq(EventType)
      /\ \A i : (Does(c, i) <=> what = "effect" /\ i = Step) /\ DoesOnce(c, i)
      /\ \/ \E x \in ExprType : stack' = Append(Below(n), x) /\ out' = out /\ x.events = p \o c
         \/ stack' = Below(n) /\ out' = out \o (p \o c)
  BY <1>6, <1>7
<1> HIDE DEF c
<1>10. ~dropped' => /\ ~dropped
                    /\ \A i : Does(EventsOf(Popped(n)), i) => Does(p, i)
                    /\ what = "effect" => Does(c, Step)
  BY <1>8, <1>9
<1>11. ~copied' => /\ ~copied
                   /\ \A i : DoesOnce(EventsOf(Popped(n)), i) => DoesOnce(p, i)
                   /\ \A i : DoesOnce(c, i)
  BY <1>8, <1>9
<1>12. \A i : Does(c, i) => what = "effect" /\ i = Step
  BY <1>9
<1> QED
  BY <1>1, <1>2, <1>8, <1>9, <1>10, <1>11, <1>12, EffectsMoved

(* Pushing a constant neither loses nor repeats an effect. *)
LEMMA ConstantEffects ==
  ASSUME TypeInv, EffectsOK, Constant
  PROVE  EffectsOK'
<1> DEFINE v == Event("pure", Step, <<>>)
           e == Expr("other", Step, <<v>>)
<1>1. /\ Executes("pure", Step, <<>>)
      /\ stack' = Append(stack, e) /\ out' = out
      /\ UNCHANGED <<dropped, copied>>
  BY DEF Constant, Push
<1>2. Step \in Int /\ <<>> \in Seq(Int)
  BY EmptySeq DEF TypeInv, Step
<1>3. v \in EventType /\ v.what = "pure"
  BY <1>2 DEF Event, EventType
<1> HIDE DEF v
<1>4. <<v>> \in Seq(EventType) /\ \A i : ~Does(<<v>>, i) /\ DoesOnce(<<v>>, i)
  BY <1>3, OneEvent
<1>5. e \in ExprType /\ e.events = <<v>>
  <2>1. e \in ExprType
    BY <1>2, <1>4, ExprIsTyped
  <2> QED
    BY <2>1 DEF Expr
<1> HIDE DEF e
<1> DEFINE c == <<v>>
<1>6. c \in Seq(EventType) /\ (\A i : ~Does(c, i) /\ DoesOnce(c, i)) /\ e.events = c
  BY <1>4, <1>5
<1> HIDE DEF c
<1> QED
  BY <1>1, <1>2, <1>5, <1>6, EffectsAdded

(* Loading a local neither loses nor repeats an effect. *)
LEMMA LoadEffects ==
  ASSUME TypeInv, EffectsOK, NEW x \in Locals, Load(x)
  PROVE  EffectsOK'
<1> DEFINE v == Event("read", x, <<locals[x]>>)
           e == Expr("name", locals[x], <<v>>)
<1>1. /\ Executes("read", x, <<locals[x]>>)
      /\ stack' = Append(stack, e) /\ out' = out
      /\ UNCHANGED <<dropped, copied>>
  BY DEF Load, Push
<1>2. x \in Int /\ locals[x] \in Int /\ <<locals[x]>> \in Seq(Int)
  BY StackAssumption DEF TypeInv
<1>3. v \in EventType /\ v.what = "read"
  BY <1>2 DEF Event, EventType
<1> HIDE DEF v
<1>4. <<v>> \in Seq(EventType) /\ \A i : ~Does(<<v>>, i) /\ DoesOnce(<<v>>, i)
  BY <1>3, OneEvent
<1>5. e \in ExprType /\ e.events = <<v>>
  <2>1. e \in ExprType
    BY <1>2, <1>4, ExprIsTyped
  <2> QED
    BY <2>1 DEF Expr
<1> HIDE DEF e
<1> DEFINE c == <<v>>
           w == <<locals[x]>>
<1>6. c \in Seq(EventType) /\ (\A i : ~Does(c, i) /\ DoesOnce(c, i)) /\ e.events = c
  BY <1>4, <1>5
<1>7. w \in Seq(Int) /\ Executes("read", x, w)
  BY <1>1, <1>2
<1> HIDE DEF c, w
<1> QED
  BY <1>1, <1>2, <1>5, <1>6, <1>7, EffectsAdded

(* A new object neither loses nor repeats an effect. *)
LEMMA NewEffects ==
  ASSUME TypeInv, EffectsOK, New
  PROVE  EffectsOK'
<1> DEFINE e == Expr("new", Step, <<>>)
<1>1. /\ Executes("pure", Step, <<>>)
      /\ stack' = Append(stack, e) /\ out' = out
      /\ UNCHANGED <<dropped, copied>>
  BY DEF New, Push
<1>2. Step \in Int /\ <<>> \in Seq(Int) /\ <<>> \in Seq(EventType)
  BY EmptySeq DEF TypeInv, Step
<1>3. e \in ExprType /\ e.events = <<>>
  <2>1. e \in ExprType
    BY <1>2, ExprIsTyped
  <2> QED
    BY <2>1 DEF Expr
<1>4. \A i : ~Does(<<>>, i) /\ DoesOnce(<<>>, i)
  BY DoesParts
<1> HIDE DEF e
<1> QED
  BY <1>1, <1>2, <1>3, <1>4, EffectsAdded

(* Incrementing a local neither loses nor repeats an effect. *)
LEMMA IncrementEffects ==
  ASSUME TypeInv, EffectsOK, NEW x \in Locals, Increment(x)
  PROVE  EffectsOK'
<1> DEFINE read == Event("read", x, <<locals[x]>>)
           set  == Event("set", x, <<Step>>)
<1>1. /\ Executes("set", x, <<Step>>)
      /\ stack' = stack /\ out' = out \o <<read, set>>
      /\ UNCHANGED <<dropped, copied>>
  BY DEF Increment, Say
<1>2. x \in Int /\ locals[x] \in Int /\ Step \in Int /\ <<Step>> \in Seq(Int)
  BY StackAssumption DEF TypeInv, Step
<1>3. read \in EventType /\ set \in EventType /\ read.what # "effect" /\ set.what # "effect"
  BY <1>2 DEF Event, EventType
<1> HIDE DEF read, set
<1>4. <<read, set>> \in Seq(EventType)
  BY <1>3
<1>5. \A i : ~Does(<<read, set>>, i) /\ DoesOnce(<<read, set>>, i)
  <2>1. DOMAIN <<read, set>> = {1, 2} /\ <<read, set>>[1] = read /\ <<read, set>>[2] = set
    OBVIOUS
  <2>2. \A i : ~IsEffectOf(read, i) /\ ~IsEffectOf(set, i)
    BY <1>3 DEF IsEffectOf, IsEffect
  <2> DEFINE c == <<read, set>>
  <2>3. \A j \in DOMAIN c : \A i : ~IsEffectOf(c[j], i)
    BY <2>1, <2>2
  <2> HIDE DEF c
  <2>4. \A i : ~Does(c, i) /\ DoesOnce(c, i)
    BY <2>3 DEF Does, DoesOnce
  <2> QED
    BY <2>4 DEF c
<1> DEFINE c == <<read, set>>
           w == <<Step>>
<1>6. /\ c \in Seq(EventType) /\ w \in Seq(Int) /\ Executes("set", x, w)
      /\ stack' = stack /\ out' = out \o c
      /\ \A i : ~Does(c, i) /\ DoesOnce(c, i)
  BY <1>1, <1>2, <1>4, <1>5
<1> HIDE DEF c, w
<1> QED
  BY <1>1, <1>2, <1>6, EffectsAdded

(* An arithmetic, comparison or heap-reading instruction neither loses nor
   repeats an effect. *)
LEMMA OperateEffects ==
  ASSUME TypeInv, EffectsOK, NEW n \in Nat, NEW what \in {"pure", "heap"}, Operate(n, what)
  PROVE  EffectsOK'
<1> DEFINE s == Append(EventsOf(Popped(n)), Event(what, Step, Values(Popped(n))))
<1>1. PICK k \in Ends(n) :
        /\ Executes(what, Step, Operands(k))
        /\ Push(Below(n), Expr("other", Step, s))
        /\ UNCHANGED <<dropped, copied>>
  BY DEF Operate, ArgsOf
<1>2. Operands(k) \in Seq(Int)
  BY EndsParts
<1> QED
  BY <1>1, <1>2, EffectsOperation

(* A store to a field or an array neither loses nor repeats an effect. *)
LEMMA PutEffects ==
  ASSUME TypeInv, EffectsOK, NEW n \in Nat, Put(n)
  PROVE  EffectsOK'
<1> DEFINE s == Append(EventsOf(Popped(n)), Event("effect", Step, Values(Popped(n))))
<1>1. PICK k \in Ends(n) :
        /\ Executes("effect", Step, Operands(k))
        /\ Say(Below(n), s)
        /\ UNCHANGED <<dropped, copied>>
  BY DEF Put, ArgsOf
<1>2. Operands(k) \in Seq(Int)
  BY EndsParts
<1> QED
  BY <1>1, <1>2, EffectsOperation

(* A call neither loses nor repeats an effect. *)
LEMMA InvokeEffects ==
  ASSUME TypeInv, EffectsOK, NEW n \in Nat, NEW void \in BOOLEAN, Invoke(n, void)
  PROVE  EffectsOK'
<1> DEFINE s == Append(EventsOf(Popped(n)), Event("effect", Step, Values(Popped(n))))
<1>1. PICK k \in Ends(n) :
        /\ Executes("effect", Step, Operands(k))
        /\ Push(Below(n), Expr("other", Step, s)) \/ Say(Below(n), s)
        /\ UNCHANGED <<dropped, copied>>
  BY DEF Invoke, ArgsOf
<1>2. Operands(k) \in Seq(Int)
  BY EndsParts
<1> QED
  BY <1>1, <1>2, EffectsOperation

(* Storing a local neither loses nor repeats an effect. *)
LEMMA StoreEffects ==
  ASSUME TypeInv, EffectsOK, NEW x \in Locals, Store(x)
  PROVE  EffectsOK'
<1> DEFINE e == Popped(1)[1]
           v == Event("set", x, <<e.val>>)
           p == EventsOf(Popped(1))
<1>1. PICK k \in Ends(1) :
        /\ Executes("set", x, Operands(k))
        /\ stack' = Below(1) /\ out' = out \o Append(e.events, v)
        /\ UNCHANGED <<dropped, copied>>
  BY OneArg, Zenon DEF Store, Say
<1>2. Operands(k) \in Seq(Int) /\ x \in Int
  BY EndsParts, StackAssumption
<1>3. e \in ExprType /\ p = e.events /\ p \in Seq(EventType)
  BY OneArg, ArgsParts
<1>4. v \in EventType /\ v.what = "set"
  BY <1>2, <1>3 DEF Event, EventType, ExprType
<1> HIDE DEF v
<1>5. <<v>> \in Seq(EventType) /\ \A i : ~Does(<<v>>, i) /\ DoesOnce(<<v>>, i)
  BY <1>4, OneEvent
<1>6. Append(p, v) = p \o <<v>>
  BY <1>3, <1>4, AppendIsConcat
<1> DEFINE c == <<v>>
<1>7. /\ c \in Seq(EventType) /\ \A i : ~Does(c, i) /\ DoesOnce(c, i)
      /\ stack' = Below(1) /\ out' = out \o (p \o c)
  BY <1>1, <1>3, <1>5, <1>6
<1> HIDE DEF c, e
<1>8. /\ \A i : Does(p, i) => Does(EventsOf(Popped(1)), i)
      /\ \A i : Does(EventsOf(Popped(1)), i) => Does(p, i)
      /\ \A i : DoesOnce(EventsOf(Popped(1)), i) => DoesOnce(p, i)
  OBVIOUS
<1> HIDE DEF p
<1>9. 1 \in Nat
  OBVIOUS
<1> QED
  BY <1>1, <1>2, <1>3, <1>7, <1>8, <1>9, EffectsMoved

(* pop prints the expression, unless it is a name: a name has no effect. *)
LEMMA DiscardEffects ==
  ASSUME TypeInv, ExprsOK, EffectsOK, Discard
  PROVE  EffectsOK'
<1> DEFINE e == Popped(1)[1]
           p == IF IsStatement(e) THEN e.events ELSE <<>>
<1>1. /\ Executes("pure", Step, <<>>)
      /\ stack' = Below(1) /\ out' = out \o p
      /\ UNCHANGED <<dropped, copied>>
  BY DEF Discard, Say
<1>2. Step \in Int /\ <<>> \in Seq(Int) /\ <<>> \in Seq(EventType) /\ 1 \in Nat
  BY EmptySeq DEF TypeInv, Step
<1>3. e \in ExprType /\ EventsOf(Popped(1)) = e.events /\ EventsOf(Popped(1)) \in Seq(EventType)
  BY OneArg, ArgsParts
<1>4. \A i : ~Does(<<>>, i) /\ DoesOnce(<<>>, i)
  BY DoesParts
<1>5. ~IsStatement(e) => \A i : ~Does(e.events, i)
  <2>1. Popped(1) \in Seq(ExprType) /\ Len(Popped(1)) = 1
    BY ArgsParts
  <2>2. 1 \in DOMAIN Popped(1)
    BY <2>1
  <2>3. Harmless(Popped(1)[1])
    BY <2>2, PoppedHarmless
  <2>4. ~IsStatement(e) => e.events \in Seq(ReadType)
    BY <2>3 DEF Harmless, IsStatement
  <2> QED
    BY <2>4, NoneDone
<1>6. p \in Seq(EventType) /\ p \o <<>> = p
  <2>1. p \in Seq(EventType)
    BY <1>2, <1>3
  <2> HIDE DEF p
  <2> QED
    BY <2>1, ConcatEmptySeq
<1>7. /\ \A i : Does(p, i) <=> Does(EventsOf(Popped(1)), i)
      /\ \A i : DoesOnce(EventsOf(Popped(1)), i) => DoesOnce(p, i)
  BY <1>3, <1>4, <1>5
<1> HIDE DEF p
<1>8. out' = out \o (p \o <<>>)
  BY <1>1, <1>6
<1> QED
  BY <1>1, <1>2, <1>4, <1>6, <1>7, <1>8, EffectsMoved

(* A pop2 neither loses nor repeats an effect. *)
LEMMA Discard2Effects ==
  ASSUME TypeInv, EffectsOK, Discard2
  PROVE  EffectsOK'
<1>1. /\ Executes("pure", Step, <<>>)
      /\ stack' = Below(2) /\ out' = out /\ copied' = copied
      /\ dropped' = (dropped \/ HasEffect(EventsOf(Popped(2))))
  BY DEF Discard2
<1>2. Step \in Int /\ <<>> \in Seq(Int) /\ <<>> \in Seq(EventType) /\ 2 \in Nat
  BY EmptySeq DEF TypeInv, Step
<1>3. \A i : ~Does(<<>>, i) /\ DoesOnce(<<>>, i)
  BY DoesParts
<1>4. out' = out \o (<<>> \o <<>>)
  <2>1. out \in Seq(EventType)
    BY DEF TypeInv
  <2>2. out \o <<>> = out /\ <<>> \o <<>> = <<>>
    BY <1>2, <2>1, ConcatEmptySeq
  <2> QED
    BY <1>1, <2>2
<1>5. ~dropped' => ~dropped /\ \A i : ~Does(EventsOf(Popped(2)), i)
  BY <1>1, NoneDone
<1> QED
  BY <1>1, <1>2, <1>3, <1>4, <1>5, EffectsMoved

(* A lambda neither loses nor repeats an effect. *)
LEMMA LambdaEffects ==
  ASSUME TypeInv, EffectsOK, NEW n \in Nat, Lambda(n)
  PROVE  EffectsOK'
<1> DEFINE v == Event("pure", Step, <<>>)
           e == Expr("other", Step, <<v>>)
<1>1. PICK k \in Ends(n) :
        /\ Executes("pure", Step, Operands(k))
        /\ stack' = Append(Below(n), e) /\ out' = out /\ copied' = copied
        /\ dropped' = (dropped \/ HasEffect(EventsOf(Popped(n))))
  BY DEF Lambda
<1>2. Step \in Int /\ <<>> \in Seq(Int) /\ <<>> \in Seq(EventType)
  BY EmptySeq DEF TypeInv, Step
<1>3. Operands(k) \in Seq(Int)
  BY EndsParts
<1>4. v \in EventType /\ v.what = "pure"
  BY <1>2 DEF Event, EventType
<1> HIDE DEF v
<1>5. <<v>> \in Seq(EventType) /\ \A i : ~Does(<<v>>, i) /\ DoesOnce(<<v>>, i)
  BY <1>4, OneEvent
<1>6. e \in ExprType /\ e.events = <<v>>
  <2>1. e \in ExprType
    BY <1>2, <1>5, ExprIsTyped
  <2> QED
    BY <2>1 DEF Expr
<1>7. \A i : ~Does(<<>>, i) /\ DoesOnce(<<>>, i)
  BY DoesParts
<1>8. <<>> \o <<v>> = <<v>>
  BY <1>5, ConcatEmptySeq
<1>9. ~dropped' => ~dropped /\ \A i : ~Does(EventsOf(Popped(n)), i)
  BY <1>1, NoneDone
<1> HIDE DEF e
<1> DEFINE c == <<v>>
<1>10. /\ c \in Seq(EventType) /\ \A i : ~Does(c, i) /\ DoesOnce(c, i)
       /\ \E x \in ExprType : stack' = Append(Below(n), x) /\ out' = out /\ x.events = <<>> \o c
  BY <1>1, <1>5, <1>6, <1>8
<1> HIDE DEF c
<1> QED
  BY <1>1, <1>2, <1>3, <1>7, <1>9, <1>10, EffectsMoved

(* The operands of a concatenation are turned around: each is there once. *)
LEMMA ConcatEffects ==
  ASSUME TypeInv, EffectsOK, NEW n \in Nat, Concat(n)
  PROVE  EffectsOK'
<1> DEFINE P    == Popped(n)
           args == Reverse(P)
           v    == Event("pure", Step, Values(args))
           e    == Joined(args)
           c    == IF n = 1 THEN <<>> ELSE <<v>>
<1>1. PICK k \in Ends(n) :
        /\ Executes("pure", Step, Operands(k))
        /\ stack' = Append(Below(n), e) /\ out' = out
        /\ UNCHANGED <<dropped, copied>>
  BY DEF Concat, ArgsOf
<1>2. Step \in Int
  BY DEF TypeInv, Step
<1>3. Operands(k) \in Seq(Int)
  BY EndsParts
<1>4. P \in Seq(ExprType) /\ Len(P) = n
  BY ArgsParts
<1> HIDE DEF P
<1>5. /\ args \in Seq(ExprType) /\ DOMAIN args = 1 .. n /\ DOMAIN P = 1 .. n
      /\ \A i \in 1 .. n : args[i] = P[n - i + 1] /\ n - i + 1 \in 1 .. n
  BY <1>4, ReverseParts
<1> HIDE DEF args
<1>6. EventsOf(args) \in Seq(EventType) /\ Values(args) \in Seq(Int)
  BY <1>5, EventsOfParts, ValuesOf
<1>7. v \in EventType /\ v.what = "pure"
  BY <1>2, <1>6 DEF Event, EventType
<1>8. Append(EventsOf(args), v) = EventsOf(args) \o <<v>> /\ Append(EventsOf(args), v) \in Seq(EventType)
  BY <1>6, <1>7, AppendIsConcat
<1>9. e \in ExprType /\ e.events = EventsOf(args) \o c
  <2>1. e \in ExprType
    BY JoinedParts DEF P, args
  <2>2. CASE n = 1
    <3>1. e = args[1] /\ args = <<args[1]>>
      BY <2>2, JoinedParts DEF P, args
    <3>2. EventsOf(args) = e.events
      BY <2>1, <3>1, EventsOfParts
    <3>3. EventsOf(args) \o <<>> = EventsOf(args)
      BY <1>6, ConcatEmptySeq
    <3>4. c = <<>>
      BY <2>2
    <3> HIDE DEF e, c
    <3> QED
      BY <2>1, <3>2, <3>3, <3>4
  <2>3. CASE n # 1
    <3> DEFINE x == Append(EventsOf(args), v)
    <3>1. e = Expr("other", Step, x)
      BY <2>3, JoinedParts DEF P, args
    <3>2. c = <<v>>
      BY <2>3
    <3>3. x = EventsOf(args) \o c
      BY <1>8, <3>2
    <3>4. Expr("other", Step, x).events = x
      BY DEF Expr
    <3>5. e.events = x
      BY <3>1, <3>4
    <3> HIDE DEF e, x, c
    <3> QED
      BY <2>1, <3>3, <3>5
  <2> QED
    BY <2>1, <2>2, <2>3
<1> HIDE DEF e, v
<1>10. c \in Seq(EventType) /\ \A i : ~Does(c, i) /\ DoesOnce(c, i)
  <2>1. <<v>> \in Seq(EventType) /\ \A i : ~Does(<<v>>, i) /\ DoesOnce(<<v>>, i)
    BY <1>7, OneEvent
  <2>2. <<>> \in Seq(EventType) /\ \A i : ~Does(<<>>, i) /\ DoesOnce(<<>>, i)
    BY EmptySeq, DoesParts
  <2> QED
    BY <2>1, <2>2
<1> HIDE DEF c
<1>11. \A j \in 1 .. n : n - j + 1 \in 1 .. n /\ args[n - j + 1] = P[j]
  <2> SUFFICES ASSUME NEW j \in 1 .. n PROVE n - j + 1 \in 1 .. n /\ args[n - j + 1] = P[j]
    OBVIOUS
  <2>1. n - j + 1 \in 1 .. n /\ n - (n - j + 1) + 1 = j
    OBVIOUS
  <2> QED
    BY <1>5, <2>1
<1>12. \A i : /\ Does(EventsOf(args), i) <=> \E j \in 1 .. n : Does(args[j].events, i)
              /\ Does(EventsOf(P), i) <=> \E j \in 1 .. n : Does(P[j].events, i)
              /\ DoesOnce(EventsOf(args), i) <=>
                   /\ \A j \in 1 .. n : DoesOnce(args[j].events, i)
                   /\ \A j, m \in 1 .. n : Does(args[j].events, i) /\ Does(args[m].events, i) => j = m
              /\ DoesOnce(EventsOf(P), i) <=>
                   /\ \A j \in 1 .. n : DoesOnce(P[j].events, i)
                   /\ \A j, m \in 1 .. n : Does(P[j].events, i) /\ Does(P[m].events, i) => j = m
  BY <1>4, <1>5, DoesEvents
<1>13. \A i : Does(EventsOf(args), i) <=> Does(EventsOf(P), i)
  BY <1>5, <1>11, <1>12
<1>14. ASSUME NEW i, DoesOnce(EventsOf(P), i) PROVE DoesOnce(EventsOf(args), i)
  <2>1. \A j \in 1 .. n : DoesOnce(args[j].events, i)
    BY <1>5, <1>12, <1>14
  <2>2. ASSUME NEW j \in 1 .. n, NEW m \in 1 .. n, Does(args[j].events, i), Does(args[m].events, i)
        PROVE  j = m
    <3>1. n - j + 1 = n - m + 1
      BY <1>5, <1>12, <1>14, <2>2
    <3> QED
      BY <3>1
  <2> QED
    BY <1>12, <2>1, <2>2
<1> DEFINE p == EventsOf(args)
<1>15. /\ c \in Seq(EventType) /\ (\A i : ~Does(c, i) /\ DoesOnce(c, i)) /\ p \in Seq(EventType)
       /\ \E x \in ExprType : stack' = Append(Below(n), x) /\ out' = out /\ x.events = p \o c
       /\ \A i : Does(p, i) <=> Does(EventsOf(P), i)
       /\ \A i : DoesOnce(EventsOf(P), i) => DoesOnce(p, i)
  BY <1>1, <1>6, <1>9, <1>10, <1>13, <1>14
<1> HIDE DEF p
<1> QED
  BY <1>1, <1>2, <1>3, <1>15, EffectsMoved DEF P

(* Nothing is said and the expressions stay. *)
LEMMA EffectsStay ==
  ASSUME TypeInv, EffectsOK, NEW what \in {"pure", "effect"},
         NEW in \in Seq(Int), Executes(what, Step, in), UNCHANGED <<stack, out>>,
         ~dropped' => ~dropped /\ what # "effect", ~copied' => ~copied
  PROVE  EffectsOK'
<1>1. Running
  BY DEF Executes
<1>2. Below(0) = stack /\ EventsOf(Popped(0)) = <<>>
  BY <1>1, ZeroEnds
<1>3. <<>> \in Seq(EventType) /\ \A i : ~Does(<<>>, i) /\ DoesOnce(<<>>, i)
  BY EmptySeq, DoesParts
<1>4. out' = out \o (<<>> \o <<>>)
  <2>1. out \in Seq(EventType)
    BY DEF TypeInv
  <2>2. out \o <<>> = out /\ <<>> \o <<>> = <<>>
    BY <1>3, <2>1, ConcatEmptySeq
  <2> QED
    BY <2>2
<1>5. 0 \in Nat /\ Step \in Int /\ what \in {"pure", "read", "set", "heap", "effect"}
  BY DEF TypeInv, Step
<1> QED
  BY <1>2, <1>3, <1>4, <1>5, EffectsMoved

(* An instruction the decompiler skips neither loses nor repeats an effect. *)
LEMMA UnhandledEffects ==
  ASSUME TypeInv, EffectsOK, NEW n \in Nat, NEW result \in BOOLEAN, Unhandled(n, result)
  PROVE  EffectsOK'
<1> DEFINE what == IF result THEN "pure" ELSE "effect"
<1>1. PICK k \in Ends(n) :
        /\ Executes(what, Step, Operands(k))
        /\ dropped' = (dropped \/ ~result)
        /\ UNCHANGED <<stack, out, copied>>
  BY DEF Unhandled
<1>2. Operands(k) \in Seq(Int)
  BY EndsParts
<1>3. what \in {"pure", "effect"} /\ (~dropped' => ~dropped /\ what # "effect")
  BY <1>1
<1> HIDE DEF what
<1> QED
  BY <1>1, <1>2, <1>3, EffectsStay

(* A return throws away what is under its operand. *)
LEMMA ReturnEffects ==
  ASSUME TypeInv, EffectsOK, NEW n \in Nat, Return(n)
  PROVE  EffectsOK'
<1> DEFINE v == Event("pure", Step, Values(Popped(n)))
           p == EventsOf(Popped(n))
           c == <<v>>
<1>1. PICK k \in Ends(n) :
        /\ Executes("pure", Step, Operands(k))
        /\ stack' = <<>> /\ out' = out \o Append(p, v) /\ copied' = copied
        /\ dropped' = (dropped \/ HasEffect(EventsOf(Below(n))))
  BY DEF Return, ArgsOf
<1>2. Step \in Int /\ out \in Seq(EventType)
  BY DEF TypeInv, Step
<1>3. Operands(k) \in Seq(Int)
  BY EndsParts
<1>4. v \in EventType /\ Append(p, v) = p \o c /\ p \in Seq(EventType)
  BY OperationTyped, ArgsParts
<1>5. v.what = "pure"
  BY DEF Event
<1> HIDE DEF v
<1>6. c \in Seq(EventType) /\ \A i : ~Does(c, i) /\ DoesOnce(c, i)
  BY <1>4, <1>5, OneEvent
<1> HIDE DEF c
<1>7. <<>> \in Seq(EventType) /\ \A i : ~Does(<<>>, i) /\ DoesOnce(<<>>, i)
  BY EmptySeq, DoesParts
<1>8. Method' = (out \o (p \o c)) \o <<>>
  <2>1. EventsOf(<<>>) = <<>>
    BY EventsOfParts
  <2>2. EventsOf(stack') = <<>>
    BY <1>1, <2>1
  <2>3. Method' = out' \o EventsOf(stack')
    BY DEF Method, EventsOf
  <2> QED
    BY <1>1, <1>4, <2>2, <2>3
<1> DEFINE m == Method'
<1> DEFINE q == <<>>
<1>9. /\ m = out \o (q \o (p \o c)) \/ m = (out \o (p \o c)) \o q
      /\ out \in Seq(EventType) /\ q \in Seq(EventType) /\ p \in Seq(EventType)
      /\ c \in Seq(EventType)
  BY <1>2, <1>4, <1>6, <1>7, <1>8
<1>10. /\ \A i : Does(p, i) <=> Does(EventsOf(Popped(n)), i)
       /\ \A i : DoesOnce(EventsOf(Popped(n)), i) <=> DoesOnce(p, i)
  OBVIOUS
<1> HIDE DEF m, p, q
<1>11. \A i : /\ Does(m, i) <=> Does(out, i) \/ DoesOneOf(q, p, c, i)
              /\ DoesOnce(m, i) <=> /\ DoesOnce(out, i) /\ OnceInAll(q, p, c, i)
                                    /\ ~ (Does(out, i) /\ DoesOneOf(q, p, c, i))
  BY <1>9, DoesFour
<1>12. /\ \A i : Does(Method', i) <=> Does(out, i) \/ DoesOneOf(<<>>, p, c, i)
       /\ ~copied' => \A i : /\ DoesOnce(out, i) /\ OnceInAll(<<>>, p, c, i)
                             /\ ~ (Does(out, i) /\ DoesOneOf(<<>>, p, c, i))
                             => DoesOnce(Method', i)
  BY <1>11 DEF m, q
<1>13. ~dropped' => ~dropped /\ \A i : ~Does(EventsOf(Below(n)), i)
  BY <1>1, NoneDone
<1>14. TakesPlace("pure", Step, n, <<>>, p, c)
  BY <1>1, <1>6, <1>7, <1>10, <1>12, <1>13 DEF TakesPlace
<1> QED
  BY <1>1, <1>2, <1>3, <1>14, EffectsStep

(* A finite set with two different elements has more than one. *)
LEMMA TwoElements ==
  ASSUME NEW S, IsFiniteSet(S), NEW a \in S, NEW b \in S, a # b
  PROVE  Cardinality(S) > 1 /\ Cardinality(S) \in Nat
<1>1. IsFiniteSet({a}) /\ Cardinality({a}) = 1
  BY FS_Singleton
<1>2. IsFiniteSet({a} \cup {b}) /\ Cardinality({a} \cup {b}) = 2
  <2>1. b \notin {a}
    OBVIOUS
  <2>2. Cardinality({a} \cup {b}) = Cardinality({a}) + 1 /\ IsFiniteSet({a} \cup {b})
    BY <1>1, <2>1, FS_AddElement
  <2> QED
    BY <1>1, <2>2
<1>3. {a} \cup {b} \subseteq S
  OBVIOUS
<1>4. Cardinality({a} \cup {b}) <= Cardinality(S)
  BY <1>3, FS_Subset
<1>5. Cardinality(S) \in Nat
  BY FS_CardinalityType
<1> QED
  BY <1>2, <1>4, <1>5

(* Indices of a sequence with a property. *)
LEMMA SomeIndices ==
  ASSUME NEW E, NEW s \in Seq(E), NEW S, S \subseteq DOMAIN s
  PROVE  IsFiniteSet(S) /\ Cardinality(S) \in Nat
<1>1. Len(s) \in Nat /\ DOMAIN s = 1 .. Len(s)
  OBVIOUS
<1>2. IsFiniteSet(1 .. Len(s))
  BY <1>1, FS_Interval
<1>3. IsFiniteSet(S)
  BY <1>1, <1>2, FS_Subset
<1> QED
  BY <1>3, FS_CardinalityType

(* The shuffles give everything back that they take, and what has an effect
   more than once only with a note. *)
LEMMA ShuffleEffects ==
  ASSUME TypeInv, EffectsOK, NEW s \in Shuffles, Shuffle(s)
  PROVE  EffectsOK'
<1> DEFINE n   == s.take
           top == Popped(n)
           mv  == Moved(s)
           b   == Below(n)
           Given(i) == {m \in DOMAIN s.give : s.give[m] = i}
<1>1. /\ Executes("pure", Step, <<>>)
      /\ stack' = (IF Len(stack) >= n THEN b \o mv ELSE stack)
      /\ copied' = (copied \/ \E i \in DOMAIN top : HasEffect(top[i].events) /\ Cardinality(Given(i)) > 1)
      /\ UNCHANGED <<out, dropped>>
  BY DEF Shuffle, Moved
<1>2. Step \in Int /\ <<>> \in Seq(Int) /\ <<>> \in Seq(EventType) /\ out \in Seq(EventType)
  BY EmptySeq DEF TypeInv, Step
<1>3. mv \in Seq(ExprType) /\ DOMAIN mv = DOMAIN s.give
  BY ShuffleTyped
<1>4. /\ n \in Nat /\ s.give \in Seq(1 .. n) /\ \A m \in DOMAIN s.give : s.give[m] \in 1 .. n
      /\ \A i \in 1 .. n : \E m \in DOMAIN s.give : s.give[m] = i
  BY ShufflesParts
<1>5. /\ b \in Seq(ExprType) /\ EventsOf(b) \in Seq(EventType)
      /\ top \in Seq(ExprType) /\ Len(top) = n /\ EventsOf(top) \in Seq(EventType)
  BY <1>4, ArgsParts
<1>6. DOMAIN top = 1 .. n /\ \A m \in DOMAIN mv : mv[m] = top[s.give[m]]
  BY <1>3, <1>5 DEF Moved
<1>7. \A i : IsFiniteSet(Given(i)) /\ Cardinality(Given(i)) \in Nat
  <2>1. \A i : Given(i) \subseteq DOMAIN s.give
    OBVIOUS
  <2> HIDE DEF Given
  <2> QED
    BY <1>4, <2>1, SomeIndices
<1>8. ~copied' => \A i \in 1 .. n, m, l \in DOMAIN s.give :
         HasEffect(top[i].events) /\ s.give[m] = i /\ s.give[l] = i => m = l
  <2> SUFFICES ASSUME ~copied', NEW i \in 1 .. n, NEW m \in DOMAIN s.give, NEW l \in DOMAIN s.give,
                      HasEffect(top[i].events), s.give[m] = i, s.give[l] = i, m # l
               PROVE  FALSE
    OBVIOUS
  <2>1. m \in Given(i) /\ l \in Given(i)
    OBVIOUS
  <2>2. Cardinality(Given(i)) > 1
    <3> HIDE DEF Given
    <3> QED
      BY <1>7, <2>1, TwoElements
  <2> QED
    BY <1>1, <1>6, <2>2
<1> HIDE DEF n, mv, b, top, Given
<1>9. CASE ~ (Len(stack) >= n)
  <2>1. UNCHANGED <<stack, out>> /\ (~copied' => ~copied) /\ (~dropped' => ~dropped)
    BY <1>1, <1>9
  <2>2. "pure" \in {"pure", "effect"} /\ "pure" # "effect"
    OBVIOUS
  <2> QED
    BY <1>1, <1>2, <2>1, <2>2, EffectsStay
<1>10. CASE Len(stack) >= n
  <2> DEFINE p == EventsOf(mv)
             q == EventsOf(b)
             c == <<>>
             m == Method'
  <2>1. p \in Seq(EventType) /\ q \in Seq(EventType) /\ c \in Seq(EventType)
        /\ \A i : ~Does(c, i) /\ DoesOnce(c, i)
    BY <1>2, <1>3, <1>5, EventsOfParts, DoesParts
  <2>2. m = out \o (q \o (p \o c))
    <3>1. EventsOf(stack') = q \o p
      BY <1>1, <1>3, <1>5, <1>10, EventsOfParts
    <3>2. p \o c = p
      BY <2>1, ConcatEmptySeq
    <3>3. Method' = out' \o EventsOf(stack')
      BY DEF Method, EventsOf
    <3> QED
      BY <1>1, <3>1, <3>2, <3>3
  <2>3. \A i : /\ Does(EventsOf(mv), i) <=> \E j \in DOMAIN mv : Does(mv[j].events, i)
               /\ DoesOnce(EventsOf(mv), i) <=>
                    /\ \A j \in DOMAIN mv : DoesOnce(mv[j].events, i)
                    /\ \A j, l \in DOMAIN mv : Does(mv[j].events, i) /\ Does(mv[l].events, i) => j = l
    BY <1>3, DoesEvents
  <2>4. \A i : /\ Does(EventsOf(top), i) <=> \E j \in DOMAIN top : Does(top[j].events, i)
               /\ DoesOnce(EventsOf(top), i) <=>
                    /\ \A j \in DOMAIN top : DoesOnce(top[j].events, i)
                    /\ \A j, l \in DOMAIN top : Does(top[j].events, i) /\ Does(top[l].events, i) => j = l
    BY <1>5, DoesEvents
  <2>5. \A i : Does(p, i) <=> Does(EventsOf(top), i)
    <3>1. ASSUME NEW i, Does(p, i) PROVE Does(EventsOf(top), i)
      <4>1. PICK j \in DOMAIN mv : Does(mv[j].events, i)
        BY <2>3, <3>1
      <4>2. s.give[j] \in DOMAIN top /\ mv[j] = top[s.give[j]]
        BY <1>3, <1>4, <1>6
      <4> QED
        BY <2>4, <4>1, <4>2
    <3>2. ASSUME NEW i, Does(EventsOf(top), i) PROVE Does(p, i)
      <4>1. PICK j \in DOMAIN top : Does(top[j].events, i)
        BY <2>4, <3>2
      <4>2. PICK l \in DOMAIN mv : s.give[l] = j
        BY <1>3, <1>4, <1>6
      <4>3. mv[l] = top[j]
        BY <1>6, <4>2
      <4> QED
        BY <2>3, <4>1, <4>3
    <3> QED
      BY <3>1, <3>2
  <2>6. ASSUME ~copied', NEW i, DoesOnce(EventsOf(top), i)
        PROVE  DoesOnce(p, i)
    <3>1. \A j \in DOMAIN mv : DoesOnce(mv[j].events, i)
      BY <1>3, <1>4, <1>6, <2>4, <2>6
    <3>2. ASSUME NEW j \in DOMAIN mv, NEW l \in DOMAIN mv, Does(mv[j].events, i), Does(mv[l].events, i)
          PROVE  j = l
      <4>1. s.give[j] = s.give[l] /\ s.give[j] \in 1 .. n
        BY <1>3, <1>4, <1>6, <2>4, <2>6, <3>2
      <4>2. HasEffect(top[s.give[j]].events)
        BY <1>6, <3>2 DEF Does, IsEffectOf, HasEffect
      <4> QED
        BY <1>3, <1>8, <2>6, <4>1, <4>2
    <3> QED
      BY <2>3, <3>1, <3>2
  <2> HIDE DEF p, q, m, c
  <2>7. m = out \o (q \o (p \o c)) \/ m = (out \o (p \o c)) \o q
    BY <2>2
  <2>8. \A i : /\ Does(m, i) <=> Does(out, i) \/ DoesOneOf(q, p, c, i)
               /\ DoesOnce(m, i) <=> /\ DoesOnce(out, i) /\ OnceInAll(q, p, c, i)
                                     /\ ~ (Does(out, i) /\ DoesOneOf(q, p, c, i))
    BY <1>2, <2>1, <2>7, DoesFour
  <2>9. /\ \A i : Does(Method', i) <=> Does(out, i) \/ DoesOneOf(q, p, c, i)
        /\ ~copied' => \A i : /\ DoesOnce(out, i) /\ OnceInAll(q, p, c, i)
                              /\ ~ (Does(out, i) /\ DoesOneOf(q, p, c, i))
                              => DoesOnce(Method', i)
    BY <2>8 DEF m
  <2>10. /\ \A i : Does(q, i) <=> Does(EventsOf(Below(n)), i)
         /\ \A i : DoesOnce(q, i) <=> DoesOnce(EventsOf(Below(n)), i)
         /\ \A i : Does(p, i) <=> Does(EventsOf(Popped(n)), i)
         /\ ~copied' => \A i : DoesOnce(EventsOf(Popped(n)), i) => DoesOnce(p, i)
    BY <2>5, <2>6 DEF q, b, top
  <2>11. (~copied' => ~copied) /\ (~dropped' => ~dropped)
    BY <1>1
  <2> DEFINE what == "pure"
  <2>12. what \in {"pure", "read", "set", "heap", "effect"} /\ what # "effect"
         /\ Executes(what, Step, <<>>)
    BY <1>1
  <2> HIDE DEF what
  <2>13. /\ \A i : Does(c, i) => what = "effect" /\ i = Step
         /\ ~dropped' => /\ ~dropped
                         /\ \A i : Does(EventsOf(Below(n)), i) => Does(q, i)
                         /\ \A i : Does(EventsOf(Popped(n)), i) => Does(p, i)
                         /\ what = "effect" => Does(c, Step)
         /\ ~copied' => /\ ~copied
                        /\ \A i : DoesOnce(EventsOf(Below(n)), i) => DoesOnce(q, i)
                        /\ \A i : DoesOnce(EventsOf(Popped(n)), i) => DoesOnce(p, i)
                        /\ \A i : DoesOnce(c, i)
    BY <2>1, <2>10, <2>11, <2>12
  <2>14. TakesPlace(what, Step, n, q, p, c)
    BY <2>9, <2>10, <2>12, <2>13 DEF TakesPlace
  <2> QED
    BY <1>2, <1>4, <2>12, <2>14, EffectsStep
<1> QED
  BY <1>9, <1>10


(* Without the occurrences of an object. *)
Masked(s, e) == [i \in DOMAIN s |-> IF Same(s[i], e) THEN StackValue ELSE s[i]]

(* Masking an object on the stack changes the copies of it and nothing else. *)
LEMMA MaskedParts ==
  ASSUME NEW s \in Seq(ExprType), NEW e \in ExprType
  PROVE  /\ Masked(s, e) \in Seq(ExprType) /\ DOMAIN Masked(s, e) = DOMAIN s
         /\ \A i \in DOMAIN s : Masked(s, e)[i] = IF Same(s[i], e) THEN StackValue ELSE s[i]
<1> DEFINE r == Masked(s, e)
<1>1. StackValue \in ExprType
  BY StackValueType
<1> HIDE DEF StackValue
<1>2. /\ Len(s) \in Nat /\ DOMAIN s = 1 .. Len(s) /\ r = [i \in 1 .. Len(s) |-> r[i]]
      /\ \A i \in 1 .. Len(s) : r[i] = (IF Same(s[i], e) THEN StackValue ELSE s[i]) /\ r[i] \in ExprType
  BY <1>1 DEF Masked
<1> HIDE DEF r
<1>3. r \in [1 .. Len(s) -> ExprType]
  BY <1>2
<1>4. r \in Seq(ExprType) /\ Len(r) = Len(s) /\ DOMAIN r = DOMAIN s
  BY <1>2, <1>3, SeqDef
<1> QED
  BY <1>2, <1>4 DEF r

(* The effects of the rest of the stack, once the object has its arguments. *)
LEMMA ConstructedDoes ==
  ASSUME TypeInv, ExprsOK, NEW n \in Nat, Popped(n + 1)[1].form = "new", NEW i
  PROVE  LET made == Made(n)
             kept == Kept(n, made)
             q    == EventsOf(Masked(kept, made))
             t    == EventsOf(Tail(Popped(n + 1)))
             c    == <<Event("effect", Step, Values(Popped(n + 1)))>>
             r    == EventsOf(Replaced(AfterInit(n, made), made))
         IN  /\ q \in Seq(EventType) /\ t \in Seq(EventType) /\ c \in Seq(EventType)
             /\ r \in Seq(EventType)
             /\ Does(r, i) <=> DoesOneOf(q, t, c, i)
             /\ Does(q, i) => Does(EventsOf(Below(n + 1)), i)
             /\ ~HasEffect(Popped(n + 1)[1].events) /\ Does(EventsOf(Below(n + 1)), i) => Does(q, i)
             /\ DoesOnce(EventsOf(Below(n + 1)), i) => DoesOnce(q, i)
<1> DEFINE args  == Popped(n + 1)
           made  == Made(n)
           kept  == Kept(n, made)
           rest  == Below(n + 1)
           after == AfterInit(n, made)
           mask  == Masked(kept, made)
           repl  == Replaced(after, made)
           v     == Event("effect", Step, Values(args))
           q     == EventsOf(mask)
           t     == EventsOf(Tail(args))
           c     == <<v>>
           r     == EventsOf(repl)
<1>1. /\ made \in ExprType /\ made.form = "new" /\ made.val = args[1].val
      /\ args[1] \in ExprType /\ v \in EventType /\ t \in Seq(EventType)
      /\ made.events = t \o c
  BY MadeParts
<1>2. n + 1 \in Nat
  OBVIOUS
<1>3. rest \in Seq(ExprType) /\ args \in Seq(ExprType) /\ Len(args) = n + 1
  BY <1>2, ArgsParts
<1> HIDE DEF made
<1>4. /\ after = Append(kept, made) /\ kept \in Seq(ExprType) /\ after \in Seq(ExprType)
      /\ \A j \in DOMAIN kept : j \in DOMAIN rest /\ kept[j] = rest[j]
      /\ \A j \in DOMAIN rest : j \in DOMAIN kept \/ Same(rest[j], made)
  BY <1>1, AfterInitParts
<1> HIDE DEF after, kept
<1>5. /\ mask \in Seq(ExprType) /\ DOMAIN mask = DOMAIN kept
      /\ \A j \in DOMAIN kept : mask[j] = IF Same(kept[j], made) THEN StackValue ELSE kept[j]
  BY <1>1, <1>4, MaskedParts
<1>6. /\ repl \in Seq(ExprType) /\ DOMAIN repl = DOMAIN after
      /\ \A j \in DOMAIN after : repl[j] = IF Same(after[j], made) THEN made ELSE after[j]
  BY <1>1, <1>4, ReplacedParts
<1> HIDE DEF mask, repl
<1>7. q \in Seq(EventType) /\ r \in Seq(EventType)
  BY <1>5, <1>6, EventsOfParts
<1>8. c \in Seq(EventType)
  BY <1>1
<1> HIDE DEF v, c, t
<1>9. Does(made.events, i) <=> Does(t, i) \/ Does(c, i)
  BY <1>1, <1>8, DoesConcat
<1>10. ~Does(StackValue.events, i) /\ DoesOnce(StackValue.events, i)
  BY NoneDone
<1>11. /\ Does(q, i) <=> \E j \in DOMAIN mask : Does(mask[j].events, i)
       /\ Does(r, i) <=> \E j \in DOMAIN repl : Does(repl[j].events, i)
       /\ Does(EventsOf(rest), i) <=> \E j \in DOMAIN rest : Does(rest[j].events, i)
       /\ DoesOnce(q, i) <=>
            /\ \A j \in DOMAIN mask : DoesOnce(mask[j].events, i)
            /\ \A j, k \in DOMAIN mask : Does(mask[j].events, i) /\ Does(mask[k].events, i) => j = k
       /\ DoesOnce(EventsOf(rest), i) <=>
            /\ \A j \in DOMAIN rest : DoesOnce(rest[j].events, i)
            /\ \A j, k \in DOMAIN rest : Does(rest[j].events, i) /\ Does(rest[k].events, i) => j = k
  BY <1>3, <1>5, <1>6, DoesEvents
<1> HIDE DEF q, r, rest, StackValue
<1>12. Does(q, i) <=> \E j \in DOMAIN kept : ~Same(kept[j], made) /\ Does(kept[j].events, i)
  BY <1>5, <1>10, <1>11
<1>13. Does(r, i) <=> Does(q, i) \/ Does(made.events, i)
  <2> DEFINE l == Len(kept)
  <2>1. /\ l \in Nat /\ DOMAIN kept = 1 .. l /\ DOMAIN after = 1 .. (l + 1)
        /\ after[l + 1] = made /\ \A j \in 1 .. l : after[j] = kept[j]
    BY <1>1, <1>4, AppendProperties
  <2> HIDE DEF l
  <2>2. /\ \A j \in 1 .. (l + 1) : j \in 1 .. l \/ j = l + 1
        /\ \A j \in 1 .. l : j \in 1 .. (l + 1)
        /\ l + 1 \in 1 .. (l + 1)
    BY <2>1
  <2>3. Same(made, made)
    BY <1>1 DEF Same
  <2>4. repl[l + 1] = made /\ \A j \in 1 .. l : repl[j] = IF Same(kept[j], made) THEN made ELSE kept[j]
    BY <1>6, <2>1, <2>2, <2>3
  <2>5. ASSUME Does(r, i) PROVE Does(q, i) \/ Does(made.events, i)
    <3>1. PICK j \in 1 .. (l + 1) : Does(repl[j].events, i)
      BY <1>6, <1>11, <2>1, <2>5
    <3>2. CASE j = l + 1
      BY <2>4, <3>1, <3>2
    <3>3. CASE j \in 1 .. l
      BY <1>12, <2>1, <2>4, <3>1, <3>3
    <3> QED
      BY <2>2, <3>2, <3>3
  <2>6. ASSUME Does(made.events, i) PROVE Does(r, i)
    BY <1>6, <1>11, <2>1, <2>2, <2>4, <2>6
  <2>7. ASSUME Does(q, i) PROVE Does(r, i)
    <3>1. PICK j \in 1 .. l : ~Same(kept[j], made) /\ Does(kept[j].events, i)
      BY <1>12, <2>1, <2>7
    <3>2. repl[j] = kept[j] /\ j \in DOMAIN repl
      BY <1>6, <2>1, <2>2, <2>4, <3>1
    <3> QED
      BY <1>11, <3>1, <3>2
  <2> QED
    BY <2>5, <2>6, <2>7
<1>14. Does(r, i) <=> DoesOneOf(q, t, c, i)
  BY <1>9, <1>13 DEF DoesOneOf
<1>15. Does(q, i) => Does(EventsOf(rest), i)
  BY <1>4, <1>11, <1>12
<1>16. ASSUME ~HasEffect(args[1].events), Does(EventsOf(rest), i)
       PROVE  Does(q, i)
  <2>1. PICK j \in DOMAIN rest : Does(rest[j].events, i)
    BY <1>11, <1>16
  <2>2. CASE Same(rest[j], made)
    <3>1. PICK a \in DOMAIN stack : rest[j] = stack[a]
      BY <1>2, PoppedFrom DEF rest
    <3>2. 1 \in DOMAIN args
      BY <1>3
    <3>3. args[1] = StackValue \/ \E b \in DOMAIN stack : args[1] = stack[b]
      BY <1>2, <3>2, PoppedFrom DEF StackValue
    <3>4. args[1] # StackValue
      BY StackValueHarmless
    <3>5. PICK b \in DOMAIN stack : args[1] = stack[b]
      BY <3>3, <3>4
    <3>6. Same(stack[a], stack[b])
      BY <1>1, <2>2, <3>1, <3>5 DEF Same
    <3>7. rest[j].events = args[1].events
      BY <3>1, <3>5, <3>6 DEF ExprsOK
    <3>8. ~Does(args[1].events, i)
      BY <1>16, NoneDone
    <3> QED
      BY <2>1, <3>7, <3>8
  <2>3. CASE ~Same(rest[j], made)
    BY <1>4, <1>12, <2>1, <2>3
  <2> QED
    BY <2>2, <2>3
<1>17. ASSUME DoesOnce(EventsOf(rest), i) PROVE DoesOnce(q, i)
  <2>1. \A j \in DOMAIN mask : DoesOnce(mask[j].events, i)
    BY <1>4, <1>5, <1>10, <1>11, <1>17
  <2>2. \A j \in DOMAIN mask : Does(mask[j].events, i) => j \in DOMAIN rest /\ Does(rest[j].events, i)
    BY <1>4, <1>5, <1>10
  <2>3. \A j, k \in DOMAIN mask : Does(mask[j].events, i) /\ Does(mask[k].events, i) => j = k
    BY <1>11, <1>17, <2>2
  <2> QED
    BY <1>11, <2>1, <2>3
<1> QED
  BY <1>1, <1>7, <1>8, <1>14, <1>15, <1>16, <1>17 DEF args, made, kept, rest, after, mask, repl, v, q, t, c, r

(* One occurrence only. *)
LEMMA ConstructedOnce ==
  ASSUME TypeInv, NEW n \in Nat,
         ~ (Cardinality({j \in DOMAIN AfterInit(n, Made(n)) : Same(AfterInit(n, Made(n))[j], Made(n))}) > 1)
  PROVE  LET made == Made(n)
             kept == Kept(n, made)
         IN  /\ kept \in Seq(ExprType) /\ made \in ExprType
             /\ Masked(kept, made) = kept
             /\ Replaced(AfterInit(n, made), made) = Append(kept, made)
<1> DEFINE made  == Made(n)
           kept  == Kept(n, made)
           after == AfterInit(n, made)
           l     == Len(kept)
           S     == {j \in DOMAIN after : Same(after[j], made)}
<1>1. made \in ExprType /\ made.form = "new"
  BY MadeParts
<1> HIDE DEF made
<1>2. after = Append(kept, made) /\ kept \in Seq(ExprType) /\ after \in Seq(ExprType)
  BY <1>1, AfterInitParts
<1> HIDE DEF kept, after
<1>3. /\ l \in Nat /\ DOMAIN kept = 1 .. l /\ DOMAIN after = 1 .. (l + 1)
      /\ after[l + 1] = made /\ \A j \in 1 .. l : after[j] = kept[j]
  BY <1>1, <1>2, AppendProperties
<1> HIDE DEF l
<1>4. ~ (Cardinality(S) > 1)
  BY DEF made, after
<1>5. l + 1 \in S
  BY <1>1, <1>3 DEF Same
<1>6. S \subseteq DOMAIN after
  OBVIOUS
<1>7. \A j \in 1 .. l : j \in DOMAIN after /\ j # l + 1
  BY <1>3
<1>8. \A j \in DOMAIN after : j \in S <=> Same(after[j], made)
  OBVIOUS
<1> HIDE DEF S
<1>9. IsFiniteSet(S)
  BY <1>2, <1>6, SomeIndices
<1>10. \A j \in 1 .. l : ~Same(kept[j], made)
  BY <1>3, <1>4, <1>5, <1>7, <1>8, <1>9, TwoElements
<1>11. Masked(kept, made) = kept
  <2>1. Masked(kept, made) = [j \in 1 .. l |-> kept[j]]
    BY <1>3, <1>10 DEF Masked
  <2>2. kept = [j \in DOMAIN kept |-> kept[j]]
    BY <1>2
  <2> QED
    BY <1>3, <2>1, <2>2
<1>12. Replaced(after, made) = after
  <2>1. \A j \in DOMAIN after : (IF Same(after[j], made) THEN made ELSE after[j]) = after[j]
    <3>1. \A j \in DOMAIN after : j \in 1 .. l \/ j = l + 1
      BY <1>3
    <3> QED
      BY <1>3, <1>10, <3>1
  <2>2. Replaced(after, made) = [j \in DOMAIN after |-> after[j]]
    BY <2>1 DEF Replaced
  <2>3. \A s \in Seq(ExprType) : s = [j \in DOMAIN s |-> s[j]]
    OBVIOUS
  <2> QED
    BY <1>2, <2>2, <2>3
<1> QED
  BY <1>1, <1>2, <1>11, <1>12 DEF kept, after, made

(* A constructor call neither loses nor repeats an effect. *)
LEMMA ConstructEffects ==
  ASSUME TypeInv, ExprsOK, EffectsOK, NEW n \in Nat, Construct(n)
  PROVE  EffectsOK'
<1> DEFINE args  == Popped(n + 1)
           made  == Made(n)
           kept  == Kept(n, made)
           after == AfterInit(n, made)
           isMade == {j \in DOMAIN after : Same(after[j], made)}
<1>1. PICK k \in Ends(n + 1) :
        /\ Executes("effect", Step, Operands(k))
        /\ stack' = (IF args[1].form = "new" THEN Replaced(after, made) ELSE Below(n + 1))
        /\ dropped' = (dropped \/ args[1].form # "new" \/ HasEffect(args[1].events))
        /\ copied' = (copied \/ (args[1].form = "new" /\ Cardinality(isMade) > 1))
        /\ out' = out
  BY ConstructParts
<1>2. Step \in Int /\ n + 1 \in Nat /\ <<>> \in Seq(EventType) /\ out \in Seq(EventType)
  BY EmptySeq DEF TypeInv, Step
<1>3. Operands(k) \in Seq(Int)
  BY EndsParts
<1> HIDE DEF isMade
<1>4. CASE args[1].form # "new"
  <2>1. stack' = Below(n + 1) /\ dropped' /\ (~copied' => ~copied)
    BY <1>1, <1>4
  <2>2. out' = out \o (<<>> \o <<>>)
    <3>1. out \o <<>> = out /\ <<>> \o <<>> = <<>>
      BY <1>2, ConcatEmptySeq
    <3> QED
      BY <1>1, <3>1
  <2>3. \A i : ~Does(<<>>, i) /\ DoesOnce(<<>>, i)
    BY DoesParts
  <2> QED
    BY <1>1, <1>2, <1>3, <2>1, <2>2, <2>3, EffectsMoved
<1>5. CASE args[1].form = "new"
  <2> DEFINE v == Event("effect", Step, Values(args))
             q == EventsOf(Masked(kept, made))
             p == EventsOf(Tail(args))
             c == <<v>>
             r == EventsOf(Replaced(after, made))
             m == Method'
  <2>1. \A i : /\ q \in Seq(EventType) /\ p \in Seq(EventType) /\ c \in Seq(EventType)
               /\ r \in Seq(EventType)
               /\ Does(r, i) <=> DoesOneOf(q, p, c, i)
               /\ Does(q, i) => Does(EventsOf(Below(n + 1)), i)
               /\ ~HasEffect(args[1].events) /\ Does(EventsOf(Below(n + 1)), i) => Does(q, i)
               /\ DoesOnce(EventsOf(Below(n + 1)), i) => DoesOnce(q, i)
    BY <1>5, ConstructedDoes
  <2>2. q \in Seq(EventType) /\ p \in Seq(EventType) /\ c \in Seq(EventType) /\ r \in Seq(EventType)
    BY <2>1
  <2>3. /\ made \in ExprType /\ args[1] \in ExprType
        /\ EventsOf(args) = args[1].events \o p
        /\ v \in EventType /\ v.at = Step /\ v.what = "effect"
        /\ made.events = p \o c
    BY MadeParts
  <2>4. m = out \o r
    <3>1. Method' = out' \o EventsOf(stack')
      BY DEF Method, EventsOf
    <3> QED
      BY <1>1, <1>5, <3>1
  <2>5. \A i : (Does(c, i) <=> i = Step) /\ DoesOnce(c, i)
    <3> HIDE DEF v
    <3> QED
      BY <2>3, OneEvent
  <2>6. ~copied' => r = q \o (p \o c)
    <3> SUFFICES ASSUME ~copied' PROVE r = q \o (p \o c)
      OBVIOUS
    <3>1. ~ (Cardinality(isMade) > 1)
      BY <1>1, <1>5
    <3>2. /\ kept \in Seq(ExprType) /\ Masked(kept, made) = kept
          /\ Replaced(after, made) = Append(kept, made)
      BY <3>1, ConstructedOnce DEF isMade
    <3> HIDE DEF kept, made, after
    <3>3. EventsOf(Append(kept, made)) = EventsOf(kept) \o made.events
      BY <2>3, <3>2, EventsOfAppend
    <3> QED
      BY <2>3, <3>2, <3>3
  <2>7. args[1].events \in Seq(EventType)
    BY <2>3 DEF ExprType
  <2> DEFINE P == EventsOf(Popped(n + 1))
             a == args[1].events
  <2>8. a \in Seq(EventType) /\ P = a \o p
    BY <2>3, <2>7
  <2>9. \A i : Does(q, i) => Does(EventsOf(Below(n + 1)), i)
    BY <2>1
  <2>10. \A i : DoesOnce(EventsOf(Below(n + 1)), i) => DoesOnce(q, i)
    BY <2>1
  <2>11. ~HasEffect(a) => \A i : Does(EventsOf(Below(n + 1)), i) => Does(q, i)
    BY <2>1
  <2>12. \A i : Does(r, i) <=> DoesOneOf(q, p, c, i)
    BY <2>1
  <2>13. ~dropped' => ~dropped /\ ~HasEffect(a)
    BY <1>1
  <2>14. ~copied' => ~copied
    BY <1>1
  <2> HIDE DEF v, q, p, c, r, m, P, a
  <2>15. \A i : /\ Does(P, i) <=> Does(a, i) \/ Does(p, i)
                /\ DoesOnce(P, i) => DoesOnce(p, i)
    BY <2>2, <2>8, DoesConcat
  <2>16. \A i : Does(m, i) <=> Does(out, i) \/ DoesOneOf(q, p, c, i)
    <3>1. \A i : Does(out \o r, i) <=> Does(out, i) \/ Does(r, i)
      BY <1>2, <2>2, DoesConcat
    <3> QED
      BY <2>4, <2>12, <3>1
  <2>17. ~copied' => \A i : /\ DoesOnce(out, i) /\ OnceInAll(q, p, c, i)
                            /\ ~ (Does(out, i) /\ DoesOneOf(q, p, c, i))
                            => DoesOnce(m, i)
    <3> SUFFICES ASSUME ~copied'
                 PROVE  \A i : /\ DoesOnce(out, i) /\ OnceInAll(q, p, c, i)
                               /\ ~ (Does(out, i) /\ DoesOneOf(q, p, c, i))
                               => DoesOnce(m, i)
      OBVIOUS
    <3>1. m = out \o (q \o (p \o c)) \/ m = (out \o (p \o c)) \o q
      BY <2>4, <2>6
    <3>2. \A i : DoesOnce(m, i) <=> /\ DoesOnce(out, i) /\ OnceInAll(q, p, c, i)
                                    /\ ~ (Does(out, i) /\ DoesOneOf(q, p, c, i))
      BY <1>2, <2>2, <3>1, DoesFour
    <3> QED
      BY <3>2
  <2>18. /\ \A i : Does(Method', i) <=> Does(out, i) \/ DoesOneOf(q, p, c, i)
         /\ ~copied' => \A i : /\ DoesOnce(out, i) /\ OnceInAll(q, p, c, i)
                               /\ ~ (Does(out, i) /\ DoesOneOf(q, p, c, i))
                               => DoesOnce(Method', i)
    BY <2>16, <2>17 DEF m
  <2> DEFINE what == "effect"
  <2>19. what \in {"pure", "read", "set", "heap", "effect"} /\ what = "effect"
         /\ Executes(what, Step, Operands(k))
    BY <1>1
  <2> HIDE DEF what
  <2>20. ~HasEffect(a) => \A i : ~Does(a, i)
    BY NoneDone
  <2>21. /\ \A i : Does(p, i) => Does(EventsOf(Popped(n + 1)), i)
         /\ \A i : Does(c, i) => what = "effect" /\ i = Step
         /\ ~dropped' => /\ ~dropped
                         /\ \A i : Does(EventsOf(Below(n + 1)), i) => Does(q, i)
                         /\ \A i : Does(EventsOf(Popped(n + 1)), i) => Does(p, i)
                         /\ what = "effect" => Does(c, Step)
         /\ ~copied' => /\ ~copied
                        /\ \A i : DoesOnce(EventsOf(Below(n + 1)), i) => DoesOnce(q, i)
                        /\ \A i : DoesOnce(EventsOf(Popped(n + 1)), i) => DoesOnce(p, i)
                        /\ \A i : DoesOnce(c, i)
    BY <2>5, <2>10, <2>11, <2>13, <2>14, <2>15, <2>19, <2>20 DEF P
  <2> DEFINE l  == n + 1
             in == Operands(k)
  <2>22. l \in Nat /\ in \in Seq(Int) /\ Executes(what, Step, in)
    BY <1>2, <1>3, <2>19
  <2>23. \A i : Does(q, i) => Does(EventsOf(Below(l)), i)
    BY <2>9
  <2>24. \A i : Does(p, i) => Does(EventsOf(Popped(l)), i)
    BY <2>21
  <2>25. \A i : Does(c, i) => what = "effect" /\ i = Step
    BY <2>21
  <2>26. ~dropped' => /\ ~dropped
                      /\ \A i : Does(EventsOf(Below(l)), i) => Does(q, i)
                      /\ \A i : Does(EventsOf(Popped(l)), i) => Does(p, i)
                      /\ what = "effect" => Does(c, Step)
    BY <2>21
  <2>27. ~copied' => /\ ~copied
                     /\ \A i : DoesOnce(EventsOf(Below(l)), i) => DoesOnce(q, i)
                     /\ \A i : DoesOnce(EventsOf(Popped(l)), i) => DoesOnce(p, i)
                     /\ \A i : DoesOnce(c, i)
    BY <2>21
  <2>28. what \in {"pure", "read", "set", "heap", "effect"} /\ Step \in Int /\ (what = "effect" => Step = Step)
    BY <1>2, <2>19
  <2> HIDE DEF l, in
  <2>29. TakesPlace(what, Step, l, q, p, c)
    BY <2>18, <2>22, <2>23, <2>24, <2>25, <2>26, <2>27 DEF TakesPlace
  <2> QED
    BY <2>22, <2>28, <2>29, EffectsStep
<1> QED
  BY <1>4, <1>5

(***************************************************************************)
(* The invariant of the effects.                                           *)
(***************************************************************************)
LEMMA EffectsOKHolds == Spec => []EffectsOK
<1>1. Init => EffectsOK
  <2> SUFFICES ASSUME Init PROVE EffectsOK
    OBVIOUS
  <2>1. EventsOf(<<>>) = <<>>
    BY EventsOfParts
  <2>2. <<>> \in Seq(EventType) /\ <<>> \o <<>> = <<>>
    <3>1. <<>> \in Seq(EventType)
      BY EmptySeq
    <3> QED
      BY <3>1, ConcatEmptySeq
  <2>3. Method = <<>>
    BY <2>1, <2>2 DEF Init, Method
  <2>4. \A i : ~Does(<<>>, i) /\ DoesOnce(<<>>, i)
    BY DoesParts
  <2>5. EffectSteps = {}
    BY DEF Init, EffectSteps
  <2> QED
    BY <2>3, <2>4, <2>5 DEF EffectsOK
<1>2. TypeInv /\ ExprsOK /\ EffectsOK /\ [Next]_vars => EffectsOK'
  <2> SUFFICES ASSUME TypeInv, ExprsOK, EffectsOK, [Next]_vars PROVE EffectsOK'
    OBVIOUS
  <2>1. 0 .. MaxArgs \subseteq Nat /\ 1 .. MaxArgs \subseteq Nat /\ 0 .. 2 \subseteq Nat
        /\ 0 .. 3 \subseteq Nat /\ 1 .. 3 \subseteq Nat /\ {0, 1} \subseteq Nat
    BY StackAssumption
  <2>2. CASE UNCHANGED vars
    <3>1. EventsOf(stack') = EventsOf(stack) /\ out' = out /\ did' = did
          /\ dropped' = dropped /\ copied' = copied
      BY <2>2 DEF vars
    <3>2. Method' = Method /\ EffectSteps' = EffectSteps
      BY <3>1 DEF Method, EffectSteps, EventsOf, IsEffect
    <3> QED
      BY <3>1, <3>2 DEF EffectsOK, Does, DoesOnce, IsEffectOf, IsEffect
  <2>3. CASE Next
    BY <2>1, <2>3, ConstantEffects, LoadEffects, StoreEffects, IncrementEffects, OperateEffects,
       PutEffects, InvokeEffects, NewEffects, ConstructEffects, ShuffleEffects, DiscardEffects,
       Discard2Effects, ConcatEffects, LambdaEffects, UnhandledEffects, ReturnEffects, Zenon DEF Next
  <2> QED
    BY <2>2, <2>3
<1> QED
  BY <1>1, <1>2, TypeInvHolds, ExprsOKHolds, PTL DEF Spec

(* The printed method is a sequence of events. *)
LEMMA MethodType ==
  ASSUME TypeInv
  PROVE  Method \in Seq(EventType)
<1>1. out \in Seq(EventType) /\ stack \in Seq(ExprType)
  BY DEF TypeInv
<1>2. EventsOf(stack) \in Seq(EventType)
  BY <1>1, EventsOfParts
<1> QED
  BY <1>1, <1>2, ConcatProperties DEF Method

(* The times an effect is in the method. *)
LEMMA TimesParts ==
  ASSUME TypeInv, NEW i
  PROVE  /\ Does(Method, i) => Times(i) > 0
         /\ DoesOnce(Method, i) => Times(i) <= 1
<1> DEFINE S == {j \in DOMAIN Method : IsEffect(Method[j]) /\ Method[j].at = i}
<1>1. S \subseteq DOMAIN Method /\ \A j \in DOMAIN Method : j \in S <=> IsEffectOf(Method[j], i)
  BY DEF IsEffectOf
<1>2. Method \in Seq(EventType)
  BY MethodType
<1>3. Times(i) = Cardinality(S)
  BY DEF Times
<1> HIDE DEF S
<1>4. IsFiniteSet(S) /\ Cardinality(S) \in Nat
  BY <1>1, <1>2, SomeIndices
<1>5. Cardinality(S) = 0 => S = {}
  BY <1>4, FS_EmptySet
<1>6. Does(Method, i) => Times(i) > 0
  <2>1. Does(Method, i) => S # {}
    BY <1>1 DEF Does
  <2> QED
    BY <1>3, <1>4, <1>5, <2>1
<1>7. DoesOnce(Method, i) => Times(i) <= 1
  <2> SUFFICES ASSUME DoesOnce(Method, i) PROVE Cardinality(S) <= 1
    BY <1>3
  <2>1. \A a, b \in S : a = b
    BY <1>1 DEF DoesOnce
  <2>2. CASE S = {}
    BY <2>2, FS_EmptySet
  <2>3. CASE S # {}
    <3>1. PICK a \in S : TRUE
      BY <2>3
    <3>2. S = {a}
      BY <2>1, <3>1
    <3> QED
      BY <3>2, FS_Singleton
  <2> QED
    BY <2>2, <2>3
<1> QED
  BY <1>6, <1>7

(***************************************************************************)
(* NoEffectLost: a call or a store that the bytecode has run is in the     *)
(* printed method, unless an expression with an effect was thrown away:    *)
(* no operation, no store, no shuffle of the stack, no construction of an  *)
(* object and no pop of a name loses it on its own.                        *)
(***************************************************************************)
THEOREM NoEffectIsLost == Spec => []NoEffectLost
<1>1. TypeInv /\ EffectsOK => NoEffectLost
  BY TimesParts DEF EffectsOK, NoEffectLost
<1> QED
  BY <1>1, TypeInvHolds, EffectsOKHolds, PTL

(***************************************************************************)
(* NoEffectTwice: it is printed once, unless its expression was            *)
(* duplicated on the stack.                                                *)
(***************************************************************************)
THEOREM NoEffectIsTwice == Spec => []NoEffectTwice
<1>1. TypeInv /\ EffectsOK => NoEffectTwice
  BY TimesParts DEF EffectsOK, NoEffectTwice
<1> QED
  BY <1>1, TypeInvHolds, EffectsOKHolds, PTL


-----------------------------------------------------------------------------
(* Whether events do what the bytecode does: d is what it has run, c what    *)
(* is printed before them.                                                 *)

EventOK(d, c, e) ==
  /\ e.what = "read" => ValueAfter(c, e.at) = e.in[1]
  /\ e.what \in {"pure", "heap"} => e.at \in DOMAIN d /\ e.in = d[e.at].in
  /\ e.what = "heap" => Len(Effects(c)) = Len(Effects(Before(d, e.at)))

Right(d, c, s) == \A i \in DOMAIN s : EventOK(d, c \o Before(s, i), s[i])

Reads(s, x) == \E i \in DOMAIN s : s[i].what = "read" /\ s[i].at = x

UsesHeap(s) == \E i \in DOMAIN s : s[i].what = "heap"

SetsNone(s, x) == \A i \in DOMAIN s : ~IsSet(s[i], x)

(* A list of empty pieces flattens to nothing. *)
LEMMA NothingFlat ==
  ASSUME NEW s \in Seq(EventType), NEW f, DOMAIN f = DOMAIN s, f = [i \in DOMAIN s |-> f[i]],
         \A i \in DOMAIN s : f[i] = <<>>
  PROVE  FlattenSeq(f) = <<>>
<1>1. DOMAIN s = 1 .. Len(s) /\ Len(s) \in Nat /\ <<>> \in Seq({})
  BY EmptySeq
<1>2. f \in [1 .. Len(s) -> Seq({})]
  BY <1>1
<1>3. f \in Seq(Seq({}))
  BY <1>1, <1>2, SeqDef
<1>4. FlattenSeq(f) \in Seq({})
  BY <1>3, FlattenType
<1>5. \A t \in Seq({}) : t = <<>>
  <2> SUFFICES ASSUME NEW t \in Seq({}) PROVE t = <<>>
    OBVIOUS
  <2>1. Len(t) \in Nat /\ \A i \in 1 .. Len(t) : t[i] \in {}
    OBVIOUS
  <2>2. Len(t) = 0
    <3>1. Len(t) > 0 => 1 \in 1 .. Len(t)
      BY <2>1
    <3> QED
      BY <2>1, <3>1
  <2> QED
    BY <2>2, EmptySeq
<1> QED
  BY <1>4, <1>5

(* A list without effects has no effect, one without settings has none. *)
LEMMA NothingThere ==
  ASSUME NEW s \in Seq(EventType)
  PROVE  /\ ~HasEffect(s) => Effects(s) = <<>>
         /\ \A x : SetsNone(s, x) => Sets(s, x) = <<>>
<1>1. ASSUME ~HasEffect(s) PROVE Effects(s) = <<>>
  <2> DEFINE f == [i \in DOMAIN s |-> IF IsEffect(s[i]) THEN <<s[i]>> ELSE <<>>]
  <2>1. DOMAIN f = DOMAIN s /\ f = [i \in DOMAIN s |-> f[i]] /\ \A i \in DOMAIN s : f[i] = <<>>
    BY <1>1 DEF HasEffect
  <2>2. Effects(s) = FlattenSeq(f)
    BY DEF Effects
  <2> HIDE DEF f
  <2> QED
    BY <2>1, <2>2, NothingFlat
<1>2. ASSUME NEW x, SetsNone(s, x) PROVE Sets(s, x) = <<>>
  <2> DEFINE f == [i \in DOMAIN s |-> IF IsSet(s[i], x) THEN <<s[i]>> ELSE <<>>]
  <2>1. DOMAIN f = DOMAIN s /\ f = [i \in DOMAIN s |-> f[i]] /\ \A i \in DOMAIN s : f[i] = <<>>
    BY <1>2 DEF SetsNone
  <2>2. Sets(s, x) = FlattenSeq(f)
    BY DEF Sets
  <2> HIDE DEF f
  <2> QED
    BY <2>1, <2>2, NothingFlat
<1> QED
  BY <1>1, <1>2

(* The value of a variable: what comes last counts. *)
LEMMA ValueAfterParts ==
  ASSUME NEW c \in Seq(EventType), NEW t \in Seq(EventType), NEW x
  PROVE  /\ Sets(t, x) = <<>> => ValueAfter(c \o t, x) = ValueAfter(c, x)
         /\ Sets(t, x) # <<>> => ValueAfter(c \o t, x) = ValueAfter(t, x)
<1> DEFINE a == Sets(c, x)
           b == Sets(t, x)
<1>1. a \in Seq(EventType) /\ b \in Seq(EventType) /\ Sets(c \o t, x) = a \o b
  BY SetsParts
<1>2. /\ ValueAfter(c \o t, x) = IF a \o b = <<>> THEN Argument(x) ELSE Last(a \o b).in[1]
      /\ ValueAfter(c, x) = IF a = <<>> THEN Argument(x) ELSE Last(a).in[1]
      /\ ValueAfter(t, x) = IF b = <<>> THEN Argument(x) ELSE Last(b).in[1]
  BY <1>1 DEF ValueAfter
<1> HIDE DEF a, b
<1>3. b = <<>> => a \o b = a
  BY <1>1, ConcatEmptySeq
<1>4. b # <<>> => a \o b # <<>> /\ Last(a \o b) = Last(b)
  <2> SUFFICES ASSUME b # <<>> PROVE a \o b # <<>> /\ Last(a \o b) = Last(b)
    OBVIOUS
  <2>1. /\ Len(a) \in Nat /\ Len(b) \in Nat /\ Len(a \o b) = Len(a) + Len(b)
        /\ a \o b \in Seq(EventType)
        /\ \A i \in 1 .. Len(a) + Len(b) : (a \o b)[i] = IF i <= Len(a) THEN a[i] ELSE b[i - Len(a)]
    BY <1>1, ConcatProperties
  <2>2. Len(b) # 0
    BY <1>1, EmptySeq
  <2> DEFINE m == Len(a) + Len(b)
  <2>3. m \in 1 .. Len(a) + Len(b) /\ ~ (m <= Len(a)) /\ m - Len(a) = Len(b)
    BY <2>1, <2>2
  <2>4. (a \o b)[m] = b[Len(b)]
    BY <2>1, <2>3
  <2>5. Last(a \o b) = (a \o b)[m] /\ Last(b) = b[Len(b)]
    BY <2>1 DEF Last
  <2>6. a \o b # <<>>
    BY <2>1, <2>2, EmptySeq
  <2> QED
    BY <2>4, <2>5, <2>6
<1> QED
  BY <1>2, <1>3, <1>4 DEF b

(* The part of a sequence before one of its places. *)
LEMMA BeforeParts ==
  ASSUME NEW E, NEW s \in Seq(E), NEW i \in DOMAIN s
  PROVE  Before(s, i) \in Seq(E) /\ Len(Before(s, i)) = i - 1
         /\ \A j \in 1 .. (i - 1) : j \in DOMAIN s /\ Before(s, i)[j] = s[j]
<1>1. i \in 1 .. Len(s) /\ Len(s) \in Nat /\ DOMAIN s = 1 .. Len(s)
  OBVIOUS
<1>2. i - 1 \in 0 .. Len(s) /\ \A j \in 1 .. (i - 1) : j \in 1 .. Len(s)
  BY <1>1
<1>3. /\ SubSeq(s, 1, i - 1) \in Seq(E) /\ Len(SubSeq(s, 1, i - 1)) = i - 1
      /\ \A j \in 1 .. (i - 1) : SubSeq(s, 1, i - 1)[j] = s[j]
  BY <1>1, <1>2
<1> QED
  BY <1>1, <1>2, <1>3 DEF Before

(* The part before a place, in the first and in the second of two lists. *)
LEMMA BeforeInConcat ==
  ASSUME NEW E, NEW s \in Seq(E), NEW t \in Seq(E)
  PROVE  /\ \A i \in DOMAIN s : Before(s \o t, i) = Before(s, i)
         /\ \A j \in DOMAIN t : Before(s \o t, Len(s) + j) = s \o Before(t, j)
<1> DEFINE u == s \o t
           m == Len(s)
           n == Len(t)
<1>1. /\ m \in Nat /\ n \in Nat /\ DOMAIN s = 1 .. m /\ DOMAIN t = 1 .. n
      /\ u \in Seq(E) /\ DOMAIN u = 1 .. (m + n)
      /\ \A i \in 1 .. (m + n) : u[i] = IF i <= m THEN s[i] ELSE t[i - m]
  BY ConcatProperties
<1> HIDE DEF u
<1>2. ASSUME NEW i \in DOMAIN s PROVE Before(u, i) = Before(s, i)
  <2>1. i \in DOMAIN u /\ i \in 1 .. m
    BY <1>1
  <2>2. /\ Before(u, i) \in Seq(E) /\ Len(Before(u, i)) = i - 1
        /\ \A j \in 1 .. (i - 1) : Before(u, i)[j] = u[j]
        /\ Before(s, i) \in Seq(E) /\ Len(Before(s, i)) = i - 1
        /\ \A j \in 1 .. (i - 1) : Before(s, i)[j] = s[j]
    BY <1>1, <2>1, BeforeParts
  <2>3. \A j \in 1 .. (i - 1) : u[j] = s[j]
    BY <1>1, <2>1
  <2> QED
    BY <2>2, <2>3, SeqEqual
<1>3. ASSUME NEW j \in DOMAIN t PROVE Before(u, m + j) = s \o Before(t, j)
  <2> DEFINE b == Before(t, j)
             v == s \o b
             w == Before(u, m + j)
             l == m + j
  <2>1. j \in 1 .. n /\ j \in DOMAIN t /\ l \in DOMAIN u /\ l - 1 = m + j - 1
    BY <1>1
  <2>2. b \in Seq(E) /\ Len(b) = j - 1 /\ \A k \in 1 .. (j - 1) : b[k] = t[k]
    BY <2>1, BeforeParts
  <2> HIDE DEF l
  <2>3. w \in Seq(E) /\ Len(w) = l - 1 /\ \A k \in 1 .. (l - 1) : w[k] = u[k]
    BY <1>1, <2>1, BeforeParts
  <2> HIDE DEF b, w
  <2>4. /\ v \in Seq(E) /\ Len(v) = m + (j - 1)
        /\ \A k \in 1 .. (m + (j - 1)) : v[k] = IF k <= m THEN s[k] ELSE b[k - m]
    <3>1. s \in Seq(E) /\ b \in Seq(E)
      BY <2>2
    <3>2. /\ v \in Seq(E) /\ Len(v) = Len(s) + Len(b)
          /\ \A k \in 1 .. Len(s) + Len(b) : v[k] = IF k <= Len(s) THEN s[k] ELSE b[k - Len(s)]
      BY <3>1, ConcatProperties
    <3> QED
      BY <2>2, <3>2
  <2> HIDE DEF v
  <2>5. ASSUME NEW k \in 1 .. (l - 1) PROVE w[k] = v[k]
    <3>1. k \in 1 .. (m + (j - 1)) /\ k \in 1 .. (m + n) /\ k \in Nat
      BY <1>1, <2>1
    <3>2. CASE k <= m
      BY <1>1, <2>3, <2>4, <3>1, <3>2
    <3>3. CASE ~ (k <= m)
      <4>1. k - m \in 1 .. (j - 1) /\ k \in 1 .. (l - 1)
        BY <1>1, <2>1, <3>1, <3>3
      <4> QED
        BY <1>1, <2>2, <2>3, <2>4, <3>1, <3>3, <4>1
    <3> QED
      BY <3>2, <3>3
  <2>6. m + (j - 1) = l - 1
    BY <1>1, <2>1
  <2>7. w = v
    BY <2>3, <2>4, <2>5, <2>6, SeqEqual
  <2> QED
    BY <2>7 DEF b, v, w, l
<1> QED
  BY <1>2, <1>3 DEF u

(* Concatenation of events is associative. *)
LEMMA Associative ==
  \A a, b, e \in Seq(EventType) : a \o (b \o e) = (a \o b) \o e
<1> DEFINE E == EventType
<1> HIDE DEF E
<1>1. \A a, b, e \in Seq(E) : a \o (b \o e) = (a \o b) \o e
  <2> SUFFICES ASSUME NEW a \in Seq(E), NEW b \in Seq(E), NEW e \in Seq(E)
               PROVE  a \o (b \o e) = (a \o b) \o e
    OBVIOUS
  <2>1. (a \o b) \o e = a \o (b \o e)
    BY ConcatAssociative
  <2> QED
    BY <2>1
<1> QED
  BY <1>1 DEF E

(* Right, of a concatenation. *)
LEMMA RightConcat ==
  ASSUME NEW c \in Seq(EventType), NEW s \in Seq(EventType), NEW t \in Seq(EventType), NEW d
  PROVE  Right(d, c, s \o t) <=> Right(d, c, s) /\ Right(d, c \o s, t)
<1> DEFINE u == s \o t
           m == Len(s)
           n == Len(t)
<1>1. /\ m \in Nat /\ n \in Nat /\ DOMAIN s = 1 .. m /\ DOMAIN t = 1 .. n
      /\ u \in Seq(EventType) /\ DOMAIN u = 1 .. (m + n)
      /\ \A i \in 1 .. (m + n) : u[i] = IF i <= m THEN s[i] ELSE t[i - m]
  BY ConcatProperties
<1>2. /\ \A i \in DOMAIN s : Before(u, i) = Before(s, i)
      /\ \A j \in DOMAIN t : Before(u, m + j) = s \o Before(t, j)
  BY BeforeInConcat
<1>3. \A j \in DOMAIN t : c \o (s \o Before(t, j)) = (c \o s) \o Before(t, j)
  <2> SUFFICES ASSUME NEW j \in DOMAIN t PROVE c \o (s \o Before(t, j)) = (c \o s) \o Before(t, j)
    OBVIOUS
  <2> DEFINE b == Before(t, j)
  <2>1. b \in Seq(EventType)
    BY BeforeParts
  <2> HIDE DEF b
  <2>2. c \in Seq(EventType) /\ s \in Seq(EventType)
    OBVIOUS
  <2> HIDE DEF EventType
  <2>3. c \o (s \o b) = (c \o s) \o b
    BY <2>1, <2>2, Associative
  <2> QED
    BY <2>3 DEF b
<1> HIDE DEF u, m, n
<1>4. \A i \in DOMAIN s : i \in DOMAIN u /\ u[i] = s[i]
  BY <1>1
<1>5. \A j \in DOMAIN t : m + j \in DOMAIN u /\ u[m + j] = t[j]
  <2> SUFFICES ASSUME NEW j \in 1 .. n PROVE m + j \in 1 .. (m + n) /\ u[m + j] = t[j]
    BY <1>1
  <2>1. m + j \in 1 .. (m + n) /\ ~ (m + j <= m) /\ m + j - m = j
    BY <1>1
  <2> QED
    BY <1>1, <2>1
<1>6. \A k \in DOMAIN u : k \in DOMAIN s \/ \E j \in DOMAIN t : k = m + j
  <2>1. ASSUME NEW k \in 1 .. (m + n), ~ (k <= m) PROVE \E j \in 1 .. n : k = m + j
    <3>1. k - m \in 1 .. n /\ k = m + (k - m)
      BY <1>1, <2>1
    <3> QED
      BY <3>1
  <2>2. \A k \in 1 .. (m + n) : k <= m => k \in 1 .. m
    BY <1>1
  <2> QED
    BY <1>1, <2>1, <2>2
<1>7. ASSUME Right(d, c, u) PROVE Right(d, c, s)
  <2>1. \A i \in DOMAIN s : EventOK(d, c \o Before(s, i), s[i])
    <3> SUFFICES ASSUME NEW i \in DOMAIN s PROVE EventOK(d, c \o Before(s, i), s[i])
      OBVIOUS
    <3>1. EventOK(d, c \o Before(u, i), u[i])
      BY <1>4, <1>7 DEF Right
    <3> QED
      BY <1>2, <1>4, <3>1
  <2> QED
    BY <2>1 DEF Right
<1>8. ASSUME Right(d, c, u) PROVE Right(d, c \o s, t)
  <2>1. \A j \in DOMAIN t : EventOK(d, (c \o s) \o Before(t, j), t[j])
    <3> SUFFICES ASSUME NEW j \in DOMAIN t PROVE EventOK(d, (c \o s) \o Before(t, j), t[j])
      OBVIOUS
    <3>1. EventOK(d, c \o Before(u, m + j), u[m + j])
      BY <1>5, <1>8 DEF Right
    <3> QED
      BY <1>2, <1>3, <1>5, <3>1
  <2> QED
    BY <2>1 DEF Right
<1>9. ASSUME Right(d, c, s), Right(d, c \o s, t) PROVE Right(d, c, u)
  <2>1. \A k \in DOMAIN u : EventOK(d, c \o Before(u, k), u[k])
    <3> SUFFICES ASSUME NEW k \in DOMAIN u PROVE EventOK(d, c \o Before(u, k), u[k])
      OBVIOUS
    <3>1. CASE k \in DOMAIN s
      <4>1. EventOK(d, c \o Before(s, k), s[k])
        BY <1>9, <3>1 DEF Right
      <4> QED
        BY <1>2, <1>4, <3>1, <4>1
    <3>2. ASSUME NEW j \in DOMAIN t, k = m + j PROVE EventOK(d, c \o Before(u, k), u[k])
      <4>1. EventOK(d, (c \o s) \o Before(t, j), t[j])
        BY <1>9 DEF Right
      <4> QED
        BY <1>2, <1>3, <1>5, <3>2, <4>1
    <3> QED
      BY <1>6, <3>1, <3>2
  <2> QED
    BY <2>1 DEF Right
<1> QED
  BY <1>7, <1>8, <1>9 DEF u

(* Right, of one event and of none. *)
LEMMA RightOne ==
  ASSUME NEW c \in Seq(EventType), NEW e \in EventType, NEW d
  PROVE  (Right(d, c, <<e>>) <=> EventOK(d, c, e)) /\ Right(d, c, <<>>)
<1>1. DOMAIN <<e>> = {1} /\ <<e>>[1] = e /\ <<e>> \in Seq(EventType)
  OBVIOUS
<1>2. Before(<<e>>, 1) = <<>>
  <2> DEFINE s == <<e>>
  <2>1. s \in Seq(EventType) /\ 1 \in DOMAIN s
    BY <1>1
  <2> HIDE DEF s
  <2>2. Before(s, 1) \in Seq(EventType) /\ Len(Before(s, 1)) = 1 - 1
    BY <2>1, BeforeParts
  <2>3. Before(s, 1) = <<>>
    BY <2>2, EmptySeq
  <2> QED
    BY <2>3 DEF s
<1>3. c \o <<>> = c
  BY ConcatEmptySeq
<1>4. Right(d, c, <<e>>) <=> EventOK(d, c \o Before(<<e>>, 1), e)
  BY <1>1 DEF Right
<1>5. DOMAIN <<>> = {}
  BY EmptySeq
<1>6. Right(d, c, <<>>)
  BY <1>5 DEF Right
<1> QED
  BY <1>2, <1>3, <1>4, <1>6

(* What is right stays right when the bytecode goes on. *)
LEMMA RightGrows ==
  ASSUME NEW d \in Seq(EventType), NEW v \in EventType, NEW c, NEW s, Right(d, c, s)
  PROVE  Right(Append(d, v), c, s)
<1> DEFINE w  == <<v>>
           d2 == d \o w
<1>1. Append(d, v) = d2
  OBVIOUS
<1>2. w \in Seq(EventType)
  OBVIOUS
<1> HIDE DEF w
<1>3. \A i \in DOMAIN d : Before(d2, i) = Before(d, i)
  BY <1>2, BeforeInConcat
<1>4. \A i \in DOMAIN d : i \in DOMAIN d2 /\ d2[i] = d[i]
  <2>1. /\ d2 \in Seq(EventType) /\ Len(d2) = Len(d) + Len(w)
        /\ \A i \in 1 .. Len(d) + Len(w) : d2[i] = IF i <= Len(d) THEN d[i] ELSE w[i - Len(d)]
    BY <1>2, ConcatProperties
  <2>2. Len(d) \in Nat /\ Len(w) \in Nat /\ DOMAIN d = 1 .. Len(d) /\ DOMAIN d2 = 1 .. Len(d2)
    BY <1>2, <2>1
  <2> HIDE DEF d2
  <2> QED
    BY <2>1, <2>2
<1> HIDE DEF d2
<1>5. ASSUME NEW i \in DOMAIN s
      PROVE  EventOK(d2, c \o Before(s, i), s[i])
  <2> DEFINE b == c \o Before(s, i)
             e == s[i]
  <2>1. EventOK(d, b, e)
    BY DEF Right
  <2> HIDE DEF b, e
  <2>2. EventOK(d2, b, e)
    BY <1>3, <1>4, <2>1 DEF EventOK
  <2> QED
    BY <2>2 DEF b, e
<1>6. Right(d2, c, s)
  BY <1>5 DEF Right
<1> QED
  BY <1>1, <1>6

(* Two beginnings that s cannot tell apart. *)
Alike(c, c2, s) ==
  /\ UsesHeap(s) => Len(Effects(c)) = Len(Effects(c2))
  /\ \A x : Reads(s, x) => ValueAfter(c, x) = ValueAfter(c2, x)

(* Events that are right behind one text are right behind another that sets the
   same locals alike. *)
LEMMA RightElsewhere ==
  ASSUME NEW c \in Seq(EventType), NEW c2 \in Seq(EventType), NEW s \in Seq(EventType), NEW d,
         Alike(c, c2, s), Right(d, c, s)
  PROVE  Right(d, c2, s)
<1>1. ASSUME NEW i \in DOMAIN s
      PROVE  EventOK(d, c2 \o Before(s, i), s[i])
  <2> DEFINE b == Before(s, i)
             e == s[i]
  <2>1. b \in Seq(EventType)
    BY BeforeParts
  <2>2. EventOK(d, c \o b, e)
    BY DEF Right
  <2>3. e.what = "read" => Reads(s, e.at)
    BY DEF Reads
  <2>4. e.what = "heap" => UsesHeap(s)
    BY DEF UsesHeap
  <2> HIDE DEF b, e
  <2>5. e.what = "read" => ValueAfter(c2 \o b, e.at) = ValueAfter(c \o b, e.at)
    <3> DEFINE x == e.at
    <3>1. e.what = "read" => ValueAfter(c, x) = ValueAfter(c2, x)
      BY <2>3 DEF Alike
    <3> HIDE DEF x
    <3>2. /\ Sets(b, x) = <<>> => ValueAfter(c \o b, x) = ValueAfter(c, x)
          /\ Sets(b, x) # <<>> => ValueAfter(c \o b, x) = ValueAfter(b, x)
      BY <2>1, ValueAfterParts
    <3>3. /\ Sets(b, x) = <<>> => ValueAfter(c2 \o b, x) = ValueAfter(c2, x)
          /\ Sets(b, x) # <<>> => ValueAfter(c2 \o b, x) = ValueAfter(b, x)
      BY <2>1, ValueAfterParts
    <3>4. e.what = "read" => ValueAfter(c2 \o b, x) = ValueAfter(c \o b, x)
      BY <3>1, <3>2, <3>3
    <3> QED
      BY <3>4 DEF x
  <2>6. e.what = "heap" => Len(Effects(c2 \o b)) = Len(Effects(c \o b))
    <3>1. Effects(c \o b) = Effects(c) \o Effects(b) /\ Effects(c2 \o b) = Effects(c2) \o Effects(b)
      BY <2>1, EffectsParts
    <3>2. Effects(c) \in Seq(EventType) /\ Effects(c2) \in Seq(EventType) /\ Effects(b) \in Seq(EventType)
      BY <2>1, EffectsParts
    <3>3. /\ Len(Effects(c \o b)) = Len(Effects(c)) + Len(Effects(b))
          /\ Len(Effects(c2 \o b)) = Len(Effects(c2)) + Len(Effects(b))
      BY <3>1, <3>2, ConcatProperties
    <3>4. e.what = "heap" => Len(Effects(c)) = Len(Effects(c2))
      BY <2>4 DEF Alike
    <3> QED
      BY <3>3, <3>4
  <2>7. EventOK(d, c2 \o b, e)
    BY <2>2, <2>5, <2>6 DEF EventOK
  <2> QED
    BY <2>7 DEF b, e
<1> QED
  BY <1>1 DEF Right

(* No expression sets a local variable. *)
LEMMA QuietEvents ==
  ASSUME NEW s \in Seq(QuietType)
  PROVE  s \in Seq(EventType) /\ \A x : SetsNone(s, x) /\ Sets(s, x) = <<>>
<1>1. \A i \in DOMAIN s : s[i] \in QuietType
  OBVIOUS
<1>2. \A i \in DOMAIN s : s[i] \in EventType /\ s[i].what # "set"
  BY <1>1, QuietParts
<1>3. s \in Seq(EventType)
  <2>1. s = [i \in DOMAIN s |-> s[i]] /\ DOMAIN s = 1 .. Len(s) /\ Len(s) \in Nat
    OBVIOUS
  <2>2. [i \in 1 .. Len(s) |-> s[i]] \in Seq(EventType)
    BY <1>2, <2>1
  <2> QED
    BY <2>1, <2>2
<1>4. \A x : SetsNone(s, x)
  BY <1>2 DEF SetsNone, IsSet
<1> QED
  BY <1>3, <1>4, NothingThere

(* What may change places with t. *)
LEMMA NotEntangled ==
  ASSUME NEW r, NEW t, ~Entangled(r, t)
  PROVE  /\ HasEffect(r) => ~HasEffect(t) /\ ~UsesHeap(t)
         /\ HasEffect(t) => ~HasEffect(r) /\ ~UsesHeap(r)
         /\ \A x : Reads(r, x) => SetsNone(t, x)
         /\ \A x : Reads(t, x) => SetsNone(r, x)
<1>1. ASSUME NEW i \in DOMAIN r, NEW j \in DOMAIN t
      PROVE  ~Ordered(r[i], t[j])
  BY DEF Entangled
<1>2. ASSUME NEW i \in DOMAIN r, NEW j \in DOMAIN t
      PROVE  /\ ~ (IsEffect(r[i]) /\ IsEffect(t[j]))
             /\ ~ (IsEffect(r[i]) /\ t[j].what = "heap")
             /\ ~ (IsEffect(t[j]) /\ r[i].what = "heap")
             /\ ~ (r[i].what = "read" /\ t[j].what = "set" /\ r[i].at = t[j].at)
             /\ ~ (r[i].what = "set" /\ t[j].what = "read" /\ r[i].at = t[j].at)
  <2> DEFINE a == r[i]
             b == t[j]
  <2>1. ~Ordered(a, b)
    BY <1>1
  <2> HIDE DEF a, b
  <2>2. /\ ~ (IsEffect(a) /\ b.what \in {"effect", "heap"})
        /\ ~ (IsEffect(b) /\ a.what \in {"effect", "heap"})
        /\ ~ ({a.what, b.what} \in {{"read", "set"}, {"set"}} /\ a.at = b.at)
    BY <2>1 DEF Ordered
  <2>3. /\ ~ (a.what = "read" /\ b.what = "set" /\ a.at = b.at)
        /\ ~ (a.what = "set" /\ b.what = "read" /\ a.at = b.at)
    <3>1. a.what = "read" /\ b.what = "set" => {a.what, b.what} = {"read", "set"}
      OBVIOUS
    <3>2. a.what = "set" /\ b.what = "read" => {a.what, b.what} = {"read", "set"}
      OBVIOUS
    <3> QED
      BY <2>2, <3>1, <3>2
  <2> QED
    BY <2>2, <2>3 DEF IsEffect, a, b
<1>3. HasEffect(r) => ~HasEffect(t) /\ ~UsesHeap(t)
  BY <1>2 DEF HasEffect, UsesHeap
<1>4. HasEffect(t) => ~HasEffect(r) /\ ~UsesHeap(r)
  BY <1>2 DEF HasEffect, UsesHeap
<1>5. \A x : Reads(r, x) => SetsNone(t, x)
  BY <1>2 DEF Reads, SetsNone, IsSet
<1>6. \A x : Reads(t, x) => SetsNone(r, x)
  BY <1>2 DEF Reads, SetsNone, IsSet
<1> QED
  BY <1>3, <1>4, <1>5, <1>6

(* What of a beginning s does not look at. *)
LEMMA AlikeWithout ==
  ASSUME NEW c \in Seq(EventType), NEW t \in Seq(EventType), NEW s,
         UsesHeap(s) => ~HasEffect(t), \A x : Reads(s, x) => SetsNone(t, x)
  PROVE  Alike(c, c \o t, s) /\ Alike(c \o t, c, s)
<1>1. UsesHeap(s) => Len(Effects(c)) = Len(Effects(c \o t))
  <2>1. ~HasEffect(t) => Effects(t) = <<>>
    BY NothingThere
  <2>2. Effects(c \o t) = Effects(c) \o Effects(t) /\ Effects(c) \in Seq(EventType)
    BY EffectsParts
  <2>3. Effects(c) \o <<>> = Effects(c)
    BY <2>2, ConcatEmptySeq
  <2> QED
    BY <2>1, <2>2, <2>3
<1>2. ASSUME NEW x, Reads(s, x) PROVE ValueAfter(c, x) = ValueAfter(c \o t, x)
  <2>1. Sets(t, x) = <<>>
    BY <1>2, NothingThere
  <2> QED
    BY <2>1, ValueAfterParts
<1> QED
  BY <1>1, <1>2 DEF Alike

(* Expressions that may be evaluated in any order. *)
Loose(s) ==
  /\ \A j \in DOMAIN s : s[j].events \in Seq(QuietType)
  /\ \A j, k \in DOMAIN s : HasEffect(s[j].events) /\ UsesHeap(s[k].events) => j = k

(* Each of them is right where the first one starts. *)
LEMMA LooseRight ==
  ASSUME NEW c \in Seq(EventType), NEW d, NEW s \in Seq(ExprType), Loose(s)
  PROVE  Right(d, c, EventsOf(s)) <=> \A j \in DOMAIN s : Right(d, c, s[j].events)
<1> DEFINE All(u) == \A j \in DOMAIN u : Right(d, c, u[j].events)
           T      == {u \in Seq(ExprType) : Loose(u) => (Right(d, c, EventsOf(u)) <=> All(u))}
<1>1. <<>> \in T
  <2>1. EventsOf(<<>>) = <<>> /\ DOMAIN <<>> = {} /\ <<>> \in Seq(ExprType)
    BY EventsOfParts, EmptySeq
  <2>2. Right(d, c, <<>>)
    BY <2>1 DEF Right
  <2>3. All(<<>>)
    BY <2>1
  <2> HIDE DEF All
  <2> QED
    BY <2>1, <2>2, <2>3
<1>2. ASSUME NEW u \in Seq(ExprType), NEW e \in ExprType, u \in T
      PROVE  Append(u, e) \in T
  <2> DEFINE v == Append(u, e)
             n == Len(u)
             q == EventsOf(u)
             p == e.events
  <2>1. /\ v \in Seq(ExprType) /\ n \in Nat
        /\ DOMAIN u = 1 .. n /\ DOMAIN v = 1 .. (n + 1)
        /\ v[n + 1] = e /\ \A j \in 1 .. n : v[j] = u[j]
    BY AppendProperties
  <2>2. EventsOf(v) = q \o p
    BY EventsOfAppend
  <2>3. q \in Seq(EventType) /\ p \in Seq(EventType)
    BY EventsOfParts DEF ExprType
  <2> HIDE DEF v, n, p
  <2>4. \A j \in 1 .. (n + 1) : j \in 1 .. n \/ j = n + 1
    BY <2>1
  <2>5. n + 1 \in 1 .. (n + 1) /\ \A j \in 1 .. n : j \in 1 .. (n + 1) /\ j # n + 1
    BY <2>1
  <2>6. ASSUME Loose(v)
        PROVE  Right(d, c, EventsOf(v)) <=> All(v)
    <3>1. Loose(u)
      BY <2>1, <2>5, <2>6 DEF Loose
    <3>2. Right(d, c, q) <=> All(u)
      BY <1>2, <3>1
    <3>3. q \in Seq(QuietType)
      BY <3>1, EventsOfIn DEF Loose
    <3>4. \A x : SetsNone(q, x)
      BY <3>3, QuietEvents
    <3>5. UsesHeap(p) => ~HasEffect(q)
      <4> SUFFICES ASSUME UsesHeap(p), HasEffect(q) PROVE FALSE
        OBVIOUS
      <4>1. PICK i \in DOMAIN q : IsEffect(q[i])
        BY DEF HasEffect
      <4>2. Does(q, q[i].at)
        BY <4>1 DEF Does, IsEffectOf
      <4>3. PICK j \in DOMAIN u : Does(u[j].events, q[i].at)
        BY <4>2, DoesEvents
      <4>4. HasEffect(u[j].events)
        BY <4>3 DEF Does, IsEffectOf, HasEffect
      <4> QED
        BY <2>1, <2>5, <2>6, <4>4 DEF Loose, p
    <3> HIDE DEF q
    <3>6. Alike(c, c \o q, p) /\ Alike(c \o q, c, p)
      BY <2>3, <3>4, <3>5, AlikeWithout
    <3>7. c \o q \in Seq(EventType)
      BY <2>3, ConcatProperties
    <3>8. Right(d, c \o q, p) <=> Right(d, c, p)
      BY <2>3, <3>6, <3>7, RightElsewhere
    <3>9. Right(d, c, q \o p) <=> Right(d, c, q) /\ Right(d, c \o q, p)
      BY <2>3, RightConcat
    <3>10. All(v) <=> All(u) /\ Right(d, c, p)
      <4>1. All(v) => All(u) /\ Right(d, c, p)
        BY <2>1, <2>5 DEF p
      <4>2. All(u) /\ Right(d, c, p) => All(v)
        BY <2>1, <2>4 DEF p
      <4> QED
        BY <4>1, <4>2
    <3> HIDE DEF All
    <3> QED
      BY <2>2, <3>2, <3>8, <3>9, <3>10 DEF q
  <2> HIDE DEF All
  <2>7. v \in T
    BY <2>1, <2>6
  <2> QED
    BY <2>7 DEF v
<1> HIDE DEF T, All
<1>3. Seq(ExprType) \subseteq T
  BY <1>1, <1>2, EverySequence
<1>4. s \in T
  BY <1>3
<1> QED
  BY <1>4 DEF T, All

(* The effects of expressions all but one of which have none. *)
LEMMA EffectsOfOne ==
  ASSUME NEW s \in Seq(ExprType), NEW t \in Seq(EventType),
         \A j \in DOMAIN s : HasEffect(s[j].events) => s[j].events = t,
         \A j, k \in DOMAIN s : HasEffect(s[j].events) /\ HasEffect(s[k].events) => j = k
  PROVE  Effects(EventsOf(s)) = IF \E j \in DOMAIN s : HasEffect(s[j].events) THEN Effects(t) ELSE <<>>
<1> DEFINE Some(u) == \E j \in DOMAIN u : HasEffect(u[j].events)
           Hyp(u)  == /\ \A j \in DOMAIN u : HasEffect(u[j].events) => u[j].events = t
                      /\ \A j, k \in DOMAIN u : HasEffect(u[j].events) /\ HasEffect(u[k].events) => j = k
           T       == {u \in Seq(ExprType) :
                         Hyp(u) => Effects(EventsOf(u)) = IF Some(u) THEN Effects(t) ELSE <<>>}
<1>1. <<>> \in T
  <2>1. EventsOf(<<>>) = <<>> /\ DOMAIN <<>> = {} /\ <<>> \in Seq(ExprType) /\ Effects(<<>>) = <<>>
    BY EventsOfParts, EffectsParts, EmptySeq
  <2>2. ~Some(<<>>)
    BY <2>1
  <2> HIDE DEF Some, Hyp
  <2> QED
    BY <2>1, <2>2
<1>2. ASSUME NEW u \in Seq(ExprType), NEW e \in ExprType, u \in T
      PROVE  Append(u, e) \in T
  <2> DEFINE v == Append(u, e)
             n == Len(u)
             q == EventsOf(u)
             p == e.events
  <2>1. /\ v \in Seq(ExprType) /\ n \in Nat
        /\ DOMAIN u = 1 .. n /\ DOMAIN v = 1 .. (n + 1)
        /\ v[n + 1] = e /\ \A j \in 1 .. n : v[j] = u[j]
    BY AppendProperties
  <2>2. EventsOf(v) = q \o p
    BY EventsOfAppend
  <2>3. q \in Seq(EventType) /\ p \in Seq(EventType)
    BY EventsOfParts DEF ExprType
  <2>4. Effects(q \o p) = Effects(q) \o Effects(p) /\ Effects(q) \in Seq(EventType)
        /\ Effects(p) \in Seq(EventType)
    BY <2>3, EffectsParts
  <2>5. Effects(q) \o <<>> = Effects(q) /\ <<>> \o Effects(p) = Effects(p)
    BY <2>4, ConcatEmptySeq
  <2>6. ~HasEffect(p) => Effects(p) = <<>>
    BY <2>3, NothingThere
  <2> HIDE DEF v, n, p, q
  <2>7. \A j \in 1 .. (n + 1) : j \in 1 .. n \/ j = n + 1
    BY <2>1
  <2>8. n + 1 \in 1 .. (n + 1) /\ \A j \in 1 .. n : j \in 1 .. (n + 1) /\ j # n + 1
    BY <2>1
  <2>9. Some(v) <=> Some(u) \/ HasEffect(p)
    BY <2>1, <2>7, <2>8 DEF p
  <2>10. Hyp(v) => Hyp(u) /\ (HasEffect(p) => p = t /\ ~Some(u))
    BY <2>1, <2>8 DEF p
  <2>11. Hyp(u) => Effects(q) = IF Some(u) THEN Effects(t) ELSE <<>>
    BY <1>2 DEF q
  <2> HIDE DEF Some, Hyp
  <2>12. Hyp(v) => Effects(EventsOf(v)) = IF Some(v) THEN Effects(t) ELSE <<>>
    <3>1. CASE HasEffect(p)
      BY <2>2, <2>4, <2>5, <2>9, <2>10, <2>11, <3>1
    <3>2. CASE ~HasEffect(p)
      BY <2>2, <2>4, <2>5, <2>6, <2>9, <2>10, <2>11, <3>2
    <3> QED
      BY <3>1, <3>2
  <2>13. v \in T
    BY <2>1, <2>12
  <2> QED
    BY <2>13 DEF v
<1> HIDE DEF T, Some, Hyp
<1>3. Seq(ExprType) \subseteq T
  BY <1>1, <1>2, EverySequence
<1>4. s \in T
  BY <1>3
<1>5. Hyp(s)
  BY DEF Hyp
<1> QED
  BY <1>4, <1>5 DEF T, Some

-----------------------------------------------------------------------------
(* The method m and the bytecode d do the same. *)

Agrees(d, m) ==
  /\ Effects(m) = Effects(d)
  /\ \A x \in Locals : Sets(m, x) = Sets(d, x)
  /\ Right(d, <<>>, m)

(* The bytecode d2 does v last, and new, behind m, does the same. *)
Adds(d2, v, m, new) ==
  /\ Effects(new) = Effects(<<v>>)
  /\ \A x \in Locals : Sets(new, x) = Sets(<<v>>, x)
  /\ Right(d2, m, new)

(* The effects and settings of a run with one more event. *)
LEMMA OneMore ==
  ASSUME NEW d \in Seq(EventType), NEW v \in EventType
  PROVE  /\ Append(d, v) \in Seq(EventType) /\ <<v>> \in Seq(EventType)
         /\ Effects(Append(d, v)) = Effects(d) \o Effects(<<v>>)
         /\ \A x : Sets(Append(d, v), x) = Sets(d, x) \o Sets(<<v>>, x)
         /\ v.what # "effect" => Effects(<<v>>) = <<>>
         /\ v.what # "set" => \A x : Sets(<<v>>, x) = <<>>
<1> DEFINE w == <<v>>
<1>1. w \in Seq(EventType) /\ Append(d, v) = d \o w
  OBVIOUS
<1>2. v.what # "effect" => Effects(w) = <<>>
  BY EffectsParts DEF IsEffect
<1>3. v.what # "set" => \A x : Sets(w, x) = <<>>
  BY SetsParts DEF IsSet
<1>4. Append(d, v) \in Seq(EventType)
  OBVIOUS
<1> HIDE DEF w
<1>5. Effects(d \o w) = Effects(d) \o Effects(w)
  BY <1>1, EffectsParts
<1>6. ASSUME NEW x PROVE Sets(d \o w, x) = Sets(d, x) \o Sets(w, x)
  BY <1>1, SetsParts
<1> QED
  BY <1>1, <1>2, <1>3, <1>4, <1>5, <1>6 DEF w

(* Something is added behind. *)
LEMMA AgreesBehind ==
  ASSUME NEW d \in Seq(EventType), NEW v \in EventType,
         NEW m \in Seq(EventType), NEW new \in Seq(EventType),
         Agrees(d, m), Adds(Append(d, v), v, m, new)
  PROVE  Agrees(Append(d, v), m \o new)
<1> DEFINE d2 == Append(d, v)
           w  == <<v>>
<1>1. /\ Effects(d2) = Effects(d) \o Effects(w)
      /\ \A x : Sets(d2, x) = Sets(d, x) \o Sets(w, x)
  BY OneMore
<1>2. Right(d2, <<>>, m)
  BY RightGrows DEF Agrees
<1>3. Effects(new) = Effects(w) /\ (\A x \in Locals : Sets(new, x) = Sets(w, x)) /\ Right(d2, m, new)
  BY DEF Adds
<1>4. Effects(m) = Effects(d) /\ (\A x \in Locals : Sets(m, x) = Sets(d, x))
  BY DEF Agrees
<1> HIDE DEF d2, w
<1>5. Effects(m \o new) = Effects(m) \o Effects(new)
  BY EffectsParts
<1>6. \A x : Sets(m \o new, x) = Sets(m, x) \o Sets(new, x)
  BY SetsParts
<1>7. <<>> \in Seq(EventType) /\ <<>> \o m = m
  BY EmptySeq, ConcatEmptySeq
<1>8. Right(d2, <<>>, m \o new)
  BY <1>2, <1>3, <1>7, RightConcat
<1>9. Agrees(d2, m \o new)
  BY <1>1, <1>3, <1>4, <1>5, <1>6, <1>8 DEF Agrees
<1> QED
  BY <1>9 DEF d2

Regroups(o, r, a, n) == (o \o (a \o n)) \o r = ((o \o r) \o a) \o n

(* What is taken off the stack and put behind it again keeps its place in the
   text. *)
LEMMA Regrouped ==
  ASSUME NEW o \in Seq(EventType), NEW r \in Seq(EventType), NEW a \in Seq(EventType),
         NEW n \in Seq(EventType), r = <<>> \/ (a = <<>> /\ n = <<>>)
  PROVE  Regroups(o, r, a, n)
<1> USE DEF Regroups
<1>1. o \o (a \o n) = (o \o a) \o n
  BY Associative
<1>2. o \o r \in Seq(EventType) /\ (o \o a) \o n \in Seq(EventType)
  <2>1. o \o a \in Seq(EventType) /\ o \o r \in Seq(EventType)
    BY ConcatProperties
  <2> QED
    BY <2>1, ConcatProperties
<1>3. o \o <<>> = o /\ (o \o r) \o <<>> = o \o r /\ ((o \o a) \o n) \o <<>> = (o \o a) \o n
  BY <1>2, ConcatEmptySeq
<1>4. CASE r = <<>>
  BY <1>1, <1>3, <1>4
<1>5. CASE a = <<>> /\ n = <<>>
  BY <1>1, <1>3, <1>5
<1> QED
  BY <1>4, <1>5

(* The expressions a become a statement while those of r stay. *)
LEMMA AgreesSaid ==
  ASSUME NEW d \in Seq(EventType), NEW v \in EventType,
         NEW o \in Seq(EventType), NEW r \in Seq(QuietType), NEW a \in Seq(QuietType),
         NEW new \in Seq(EventType),
         Agrees(d, o \o (r \o a)), Adds(Append(d, v), v, o \o (r \o a), new),
         ~Entangled(r, a \o new)
  PROVE  Agrees(Append(d, v), (o \o (a \o new)) \o r)
<1> DEFINE d2 == Append(d, v)
           w  == <<v>>
           m  == o \o (r \o a)
           an == a \o new
           oa == o \o a
<1>1. /\ Effects(d2) = Effects(d) \o Effects(w)
      /\ \A x : Sets(d2, x) = Sets(d, x) \o Sets(w, x)
  BY OneMore
<1>2. Right(d2, <<>>, m)
  BY RightGrows DEF Agrees
<1>3. Effects(new) = Effects(w) /\ (\A x \in Locals : Sets(new, x) = Sets(w, x)) /\ Right(d2, m, new)
  BY DEF Adds
<1>4. Effects(m) = Effects(d) /\ (\A x \in Locals : Sets(m, x) = Sets(d, x))
  BY DEF Agrees
<1>5. /\ r \in Seq(EventType) /\ a \in Seq(EventType)
      /\ \A x : SetsNone(r, x) /\ Sets(r, x) = <<>> /\ Sets(a, x) = <<>>
  BY QuietEvents
<1>6. /\ HasEffect(r) => ~HasEffect(an) /\ ~UsesHeap(an)
      /\ HasEffect(an) => ~HasEffect(r) /\ ~UsesHeap(r)
      /\ \A x : Reads(r, x) => SetsNone(an, x)
  BY NotEntangled
<1>7. /\ an \in Seq(EventType) /\ oa \in Seq(EventType) /\ o \o r \in Seq(EventType)
      /\ r \o a \in Seq(EventType)
  BY <1>5, ConcatProperties
<1> HIDE DEF d2, w
<1>8. /\ m = (o \o r) \o a /\ o \o an = oa \o new /\ m \in Seq(EventType) /\ o \o an \in Seq(EventType)
      /\ (o \o an) \o r \in Seq(EventType)
  <2>1. m = (o \o r) \o a
    BY <1>5, Associative
  <2>2. o \o an = oa \o new
    BY <1>5, Associative
  <2>3. m \in Seq(EventType)
    BY <1>7, ConcatProperties
  <2>4. o \o an \in Seq(EventType)
    BY <1>7, ConcatProperties
  <2>5. (o \o an) \o r \in Seq(EventType)
    BY <1>5, <2>4, ConcatProperties
  <2> QED
    BY <2>1, <2>2, <2>3, <2>4, <2>5
<1>9. (UsesHeap(an) <=> UsesHeap(a) \/ UsesHeap(new)) /\ (HasEffect(an) <=> HasEffect(a) \/ HasEffect(new))
  <2>1. /\ Len(a) \in Nat /\ Len(new) \in Nat /\ DOMAIN a = 1 .. Len(a) /\ DOMAIN new = 1 .. Len(new)
        /\ DOMAIN an = 1 .. (Len(a) + Len(new))
        /\ \A i \in 1 .. Len(a) + Len(new) : an[i] = IF i <= Len(a) THEN a[i] ELSE new[i - Len(a)]
    BY <1>5, <1>7, ConcatProperties
  <2> HIDE DEF an
  <2>2. \A i \in DOMAIN a : i \in DOMAIN an /\ an[i] = a[i]
    BY <2>1
  <2>3. \A i \in DOMAIN new : \E j \in DOMAIN an : an[j] = new[i]
    <3> SUFFICES ASSUME NEW i \in DOMAIN new PROVE \E j \in DOMAIN an : an[j] = new[i]
      OBVIOUS
    <3>1. Len(a) + i \in DOMAIN an /\ ~ (Len(a) + i <= Len(a)) /\ Len(a) + i - Len(a) = i
      BY <2>1
    <3>2. an[Len(a) + i] = new[i]
      BY <2>1, <3>1
    <3> QED
      BY <3>1, <3>2
  <2>4. \A i \in DOMAIN an : (\E j \in DOMAIN a : an[i] = a[j]) \/ (\E j \in DOMAIN new : an[i] = new[j])
    <3> SUFFICES ASSUME NEW i \in DOMAIN an, ~ (i <= Len(a)) PROVE \E j \in DOMAIN new : an[i] = new[j]
      BY <2>1
    <3>1. i - Len(a) \in DOMAIN new /\ an[i] = new[i - Len(a)]
      BY <2>1
    <3> QED
      BY <3>1
  <2>5. UsesHeap(an) => UsesHeap(a) \/ UsesHeap(new)
    BY <2>4 DEF UsesHeap
  <2>6. UsesHeap(a) \/ UsesHeap(new) => UsesHeap(an)
    BY <2>2, <2>3 DEF UsesHeap
  <2>7. HasEffect(an) => HasEffect(a) \/ HasEffect(new)
    BY <2>4 DEF HasEffect
  <2>8. HasEffect(a) \/ HasEffect(new) => HasEffect(an)
    BY <2>2, <2>3 DEF HasEffect
  <2> QED
    BY <2>5, <2>6, <2>7, <2>8
<1> HIDE DEF m, an, oa
<1>10. <<>> \in Seq(EventType) /\ <<>> \o o = o /\ <<>> \o (o \o r) = o \o r
       /\ <<>> \o (o \o an) = o \o an
  BY <1>7, <1>8, EmptySeq, ConcatEmptySeq
<1>11. Right(d2, <<>>, o) /\ Right(d2, o, r) /\ Right(d2, o \o r, a)
  <2> DEFINE b == o \o r
             z == <<>>
  <2>1. Right(d2, z, b \o a) /\ b \in Seq(EventType) /\ z \in Seq(EventType) /\ z \o b = b /\ z \o o = o
    BY <1>2, <1>7, <1>8, <1>10
  <2> HIDE DEF z, b
  <2>2. Right(d2, z, b \o a) <=> Right(d2, z, b) /\ Right(d2, z \o b, a)
    BY <1>5, <2>1, RightConcat
  <2>3. Right(d2, z, o \o r) <=> Right(d2, z, o) /\ Right(d2, z \o o, r)
    BY <1>5, <2>1, RightConcat
  <2>4. Right(d2, z, b) /\ Right(d2, b, a)
    BY <2>1, <2>2
  <2>5. Right(d2, z, o) /\ Right(d2, o, r)
    BY <2>1, <2>3, <2>4 DEF b
  <2> QED
    BY <2>4, <2>5 DEF z, b
<1>12. Right(d2, o, a)
  <2>1. Alike(o \o r, o, a)
    BY <1>5, <1>6, <1>9, AlikeWithout
  <2> QED
    BY <1>5, <1>7, <1>11, <2>1, RightElsewhere
<1>13. Right(d2, oa, new)
  <2>1. Alike(m, oa, new)
    <3>1. \A x : ValueAfter(m, x) = ValueAfter(oa, x)
      <4> SUFFICES ASSUME NEW x PROVE ValueAfter(m, x) = ValueAfter(oa, x)
        OBVIOUS
      <4>1. ValueAfter(m, x) = ValueAfter(o \o r, x)
        <5> DEFINE b == o \o r
        <5>1. m = b \o a /\ b \in Seq(EventType) /\ Sets(a, x) = <<>>
          BY <1>5, <1>7, <1>8
        <5> HIDE DEF b
        <5>2. ValueAfter(b \o a, x) = ValueAfter(b, x)
          BY <1>5, <5>1, ValueAfterParts
        <5> QED
          BY <5>1, <5>2 DEF b
      <4>2. ValueAfter(o \o r, x) = ValueAfter(o, x)
        BY <1>5, ValueAfterParts
      <4>3. ValueAfter(oa, x) = ValueAfter(o, x)
        BY <1>5, ValueAfterParts DEF oa
      <4> QED
        BY <4>1, <4>2, <4>3
    <3>2. UsesHeap(new) => Len(Effects(m)) = Len(Effects(oa))
      <4> SUFFICES ASSUME UsesHeap(new) PROVE Effects(m) = Effects(oa)
        OBVIOUS
      <4>1. Effects(r) = <<>>
        BY <1>5, <1>6, <1>9, NothingThere
      <4>2. Effects(m) = Effects(o \o r) \o Effects(a)
        BY <1>5, <1>7, <1>8, EffectsParts
      <4>3. Effects(o \o r) = Effects(o) \o Effects(r) /\ Effects(o) \in Seq(EventType)
        BY <1>5, EffectsParts
      <4>4. Effects(oa) = Effects(o) \o Effects(a)
        BY <1>5, EffectsParts DEF oa
      <4>5. Effects(o) \o <<>> = Effects(o)
        BY <4>3, ConcatEmptySeq
      <4> QED
        BY <4>1, <4>2, <4>3, <4>4, <4>5
    <3> QED
      BY <3>1, <3>2 DEF Alike
  <2> QED
    BY <1>3, <1>7, <1>8, <2>1, RightElsewhere
<1>14. Right(d2, o \o an, r)
  <2>1. Alike(o, o \o an, r)
    BY <1>6, <1>7, AlikeWithout
  <2> QED
    BY <1>5, <1>8, <1>11, <2>1, RightElsewhere
<1>15. Right(d2, <<>>, (o \o an) \o r)
  <2> DEFINE z == <<>>
             on == o \o an
  <2>1. /\ z \in Seq(EventType) /\ z \o o = o /\ z \o oa = oa /\ on \in Seq(EventType) /\ z \o on = on
        /\ on = oa \o new /\ Right(d2, z, o) /\ Right(d2, on, r)
    BY <1>7, <1>8, <1>10, <1>11, <1>14, ConcatEmptySeq
  <2> HIDE DEF z, on
  <2>2. Right(d2, z, o \o a) <=> Right(d2, z, o) /\ Right(d2, z \o o, a)
    BY <1>5, <2>1, RightConcat
  <2>3. Right(d2, z, oa)
    BY <1>12, <2>1, <2>2 DEF oa
  <2>4. Right(d2, z, oa \o new) <=> Right(d2, z, oa) /\ Right(d2, z \o oa, new)
    BY <1>7, <2>1, RightConcat
  <2>5. Right(d2, z, on)
    BY <1>13, <2>1, <2>3, <2>4
  <2>6. Right(d2, z, on \o r) <=> Right(d2, z, on) /\ Right(d2, z \o on, r)
    BY <1>5, <2>1, RightConcat
  <2>7. Right(d2, z, on \o r)
    BY <2>1, <2>5, <2>6
  <2> QED
    BY <2>7 DEF z, on
<1>16. Effects((o \o an) \o r) = Effects(d2)
  <2> DEFINE fo == Effects(o)
             fr == Effects(r)
             fa == Effects(a)
             fn == Effects(new)
  <2>1. /\ fo \in Seq(EventType) /\ fr \in Seq(EventType) /\ fa \in Seq(EventType) /\ fn \in Seq(EventType)
    BY <1>5, EffectsParts
  <2>2. Effects(an) = fa \o fn
    BY <1>5, EffectsParts DEF an
  <2>3. Effects(o \o an) = fo \o Effects(an)
    BY <1>7, EffectsParts
  <2>4. Effects((o \o an) \o r) = Effects(o \o an) \o fr
    BY <1>5, <1>8, EffectsParts
  <2>5. Effects(o \o r) = fo \o fr
    BY <1>5, EffectsParts
  <2>6. Effects((o \o r) \o a) = Effects(o \o r) \o fa
    BY <1>5, <1>7, EffectsParts
  <2>7. Effects(d2) = ((fo \o fr) \o fa) \o fn
    BY <1>1, <1>3, <1>4, <1>8, <2>5, <2>6
  <2>8. HasEffect(r) => fa = <<>> /\ fn = <<>>
    BY <1>5, <1>6, <1>9, NothingThere
  <2>9. ~HasEffect(r) => fr = <<>>
    BY <1>5, NothingThere
  <2> HIDE DEF fo, fr, fa, fn
  <2>10. fr = <<>> \/ (fa = <<>> /\ fn = <<>>)
    BY <2>8, <2>9
  <2>11. Regroups(fo, fr, fa, fn)
    BY <2>1, <2>10, Regrouped
  <2>12. (fo \o (fa \o fn)) \o fr = ((fo \o fr) \o fa) \o fn
    BY <2>11, Zenon DEF Regroups
  <2> QED
    BY <2>2, <2>3, <2>4, <2>7, <2>12
<1>17. ASSUME NEW x \in Locals PROVE Sets((o \o an) \o r, x) = Sets(d2, x)
  <2> DEFINE so == Sets(o, x)
             sn == Sets(new, x)
  <2>1. so \in Seq(EventType) /\ sn \in Seq(EventType)
    BY SetsParts
  <2>2. Sets(an, x) = Sets(a, x) \o sn
    BY <1>5, SetsParts DEF an
  <2>3. Sets(o \o an, x) = so \o Sets(an, x)
    BY <1>7, SetsParts
  <2>4. Sets((o \o an) \o r, x) = Sets(o \o an, x) \o Sets(r, x)
    BY <1>5, <1>8, SetsParts
  <2>5. Sets(o \o r, x) = so \o Sets(r, x)
    BY <1>5, SetsParts
  <2>6. Sets((o \o r) \o a, x) = Sets(o \o r, x) \o Sets(a, x)
    BY <1>5, <1>7, SetsParts
  <2>7. Sets(r, x) = <<>> /\ Sets(a, x) = <<>>
    BY <1>5
  <2>8. Sets(d2, x) = Sets((o \o r) \o a, x) \o sn
    BY <1>1, <1>3, <1>4, <1>8
  <2> HIDE DEF so, sn
  <2>9. so \o sn \in Seq(EventType)
    BY <2>1, ConcatProperties
  <2>10. <<>> \o sn = sn /\ so \o <<>> = so /\ (so \o sn) \o <<>> = so \o sn
    BY <2>1, <2>9, ConcatEmptySeq
  <2> QED
    BY <2>2, <2>3, <2>4, <2>5, <2>6, <2>7, <2>8, <2>10
<1>18. Agrees(d2, (o \o an) \o r)
  BY <1>15, <1>16, <1>17 DEF Agrees
<1> QED
  BY <1>18 DEF d2, an

(* Expressions without an effect are thrown away. *)
LEMMA AgreesWithout ==
  ASSUME NEW d \in Seq(EventType), NEW v \in EventType, v.what \notin {"effect", "set"},
         NEW m \in Seq(EventType), NEW a \in Seq(QuietType),
         Agrees(d, m \o a), ~HasEffect(a)
  PROVE  Agrees(Append(d, v), m)
<1> DEFINE d2 == Append(d, v)
           w  == <<v>>
<1>1. /\ Effects(d2) = Effects(d) \o Effects(w) /\ Effects(w) = <<>>
      /\ \A x : Sets(d2, x) = Sets(d, x) \o Sets(w, x) /\ Sets(w, x) = <<>>
  BY OneMore
<1>2. /\ a \in Seq(EventType) /\ \A x : Sets(a, x) = <<>>
  BY QuietEvents
<1>3. Effects(a) = <<>>
  BY <1>2, NothingThere
<1>4. Right(d2, <<>>, m \o a) /\ Effects(m \o a) = Effects(d)
      /\ \A x \in Locals : Sets(m \o a, x) = Sets(d, x)
  BY RightGrows DEF Agrees
<1> HIDE DEF d2, w
<1>5. Right(d2, <<>>, m)
  BY <1>2, <1>4, EmptySeq, RightConcat
<1>6. Effects(m) = Effects(d2)
  <2>1. Effects(m \o a) = Effects(m) \o Effects(a) /\ Effects(m) \in Seq(EventType) /\ Effects(d) \in Seq(EventType)
    BY <1>2, EffectsParts
  <2>2. Effects(m) \o <<>> = Effects(m) /\ Effects(d) \o <<>> = Effects(d)
    BY <2>1, ConcatEmptySeq
  <2> QED
    BY <1>1, <1>3, <1>4, <2>1, <2>2
<1>7. ASSUME NEW x \in Locals PROVE Sets(m, x) = Sets(d2, x)
  <2>1. Sets(m \o a, x) = Sets(m, x) \o Sets(a, x) /\ Sets(m, x) \in Seq(EventType) /\ Sets(d, x) \in Seq(EventType)
    BY <1>2, SetsParts
  <2>2. Sets(m, x) \o <<>> = Sets(m, x) /\ Sets(d, x) \o <<>> = Sets(d, x)
    BY <2>1, ConcatEmptySeq
  <2> QED
    BY <1>1, <1>2, <1>4, <2>1, <2>2
<1>8. Agrees(d2, m)
  BY <1>5, <1>6, <1>7 DEF Agrees
<1> QED
  BY <1>8 DEF d2

(* An event that is neither an effect nor a setting adds neither. *)
LEMMA Silent ==
  ASSUME NEW d \in Seq(EventType), NEW v \in EventType, v.what \notin {"effect", "set"}
  PROVE  /\ Effects(Append(d, v)) = Effects(d) \o Effects(<<v>>) /\ Effects(<<v>>) = <<>>
         /\ \A x : Sets(Append(d, v), x) = Sets(d, x) \o Sets(<<v>>, x) /\ Sets(<<v>>, x) = <<>>
BY OneMore

(* Expressions that may be evaluated in any order change places, or are
   there more than once. *)
LEMMA AgreesInAnyOrder ==
  ASSUME NEW d \in Seq(EventType), NEW v \in EventType, v.what \notin {"effect", "set"},
         NEW c \in Seq(EventType), NEW s \in Seq(ExprType), NEW t \in Seq(ExprType),
         Agrees(d, c \o EventsOf(s)), Loose(s), Loose(t),
         \A j \in DOMAIN t : \E i \in DOMAIN s : t[j] = s[i],
         Effects(EventsOf(t)) = Effects(EventsOf(s))
  PROVE  Agrees(Append(d, v), c \o EventsOf(t))
<1> DEFINE d2 == Append(d, v)
           w  == <<v>>
           p  == EventsOf(s)
           q  == EventsOf(t)
<1>1. /\ Effects(d2) = Effects(d) \o Effects(w) /\ Effects(w) = <<>>
      /\ \A x : Sets(d2, x) = Sets(d, x) \o Sets(w, x) /\ Sets(w, x) = <<>>
  BY Silent
<1>2. p \in Seq(QuietType) /\ q \in Seq(QuietType)
  BY EventsOfIn DEF Loose
<1>3. /\ p \in Seq(EventType) /\ \A x : Sets(p, x) = <<>>
      /\ q \in Seq(EventType) /\ \A x : Sets(q, x) = <<>>
  BY <1>2, QuietEvents
<1>4. Right(d2, <<>>, c \o p) /\ Effects(c \o p) = Effects(d)
      /\ \A x \in Locals : Sets(c \o p, x) = Sets(d, x)
  BY RightGrows DEF Agrees
<1>5. Effects(q) = Effects(p)
  OBVIOUS
<1>6. /\ Right(d2, c, p) <=> \A j \in DOMAIN s : Right(d2, c, s[j].events)
      /\ Right(d2, c, q) <=> \A j \in DOMAIN t : Right(d2, c, t[j].events)
  BY LooseRight
<1> HIDE DEF d2, w, p, q
<1> DEFINE z == <<>>
<1>7. z \in Seq(EventType) /\ z \o c = c /\ Right(d2, z, c \o p)
  BY <1>4, EmptySeq, ConcatEmptySeq
<1> HIDE DEF z
<1>8. Right(d2, z, c \o p) <=> Right(d2, z, c) /\ Right(d2, z \o c, p)
  BY <1>3, <1>7, RightConcat
<1>9. Right(d2, z, c \o q) <=> Right(d2, z, c) /\ Right(d2, z \o c, q)
  BY <1>3, <1>7, RightConcat
<1>10. Right(d2, c, q)
  BY <1>6, <1>7, <1>8
<1>11. Right(d2, z, c \o q)
  BY <1>7, <1>8, <1>9, <1>10
<1>12. Effects(c \o q) = Effects(d2)
  <2>1. Effects(c \o p) = Effects(c) \o Effects(p) /\ Effects(c \o q) = Effects(c) \o Effects(q)
        /\ Effects(d) \in Seq(EventType)
    BY <1>3, EffectsParts
  <2>2. Effects(d) \o <<>> = Effects(d)
    BY <2>1, ConcatEmptySeq
  <2> QED
    BY <1>1, <1>4, <1>5, <2>1, <2>2
<1>13. ASSUME NEW x \in Locals PROVE Sets(c \o q, x) = Sets(d2, x)
  <2>1. Sets(c \o p, x) = Sets(c, x) \o Sets(p, x) /\ Sets(c \o q, x) = Sets(c, x) \o Sets(q, x)
        /\ Sets(d, x) \in Seq(EventType)
    BY <1>3, SetsParts
  <2>2. Sets(d, x) \o <<>> = Sets(d, x)
    BY <2>1, ConcatEmptySeq
  <2> QED
    BY <1>1, <1>3, <1>4, <2>1, <2>2
<1>14. Agrees(d2, c \o q)
  BY <1>11, <1>12, <1>13 DEF Agrees, z
<1> QED
  BY <1>14 DEF d2, q

(* The part before a place of the second of two lists. *)
LEMMA BehindEvents ==
  ASSUME NEW s \in Seq(EventType), NEW t \in Seq(EventType), NEW j \in DOMAIN t
  PROVE  Before(s \o t, Len(s) + j) = s \o Before(t, j)
<1>1. \A i \in DOMAIN t : Before(s \o t, Len(s) + i) = s \o Before(t, i)
  BY BeforeInConcat
<1> QED
  BY <1>1

(* The instruction itself. *)
LEMMA AddsItself ==
  ASSUME NEW d \in Seq(EventType), NEW m \in Seq(EventType), NEW v \in EventType,
         Agrees(d, m),
         v.what = "read" => ValueAfter(m, v.at) = v.in[1],
         v.what \in {"pure", "heap"} => v.at = Len(d) + 1
  PROVE  Adds(Append(d, v), v, m, <<v>>)
<1> DEFINE w  == <<v>>
           d2 == d \o w
           n  == Len(d) + 1
<1>1. Append(d, v) = d2 /\ w \in Seq(EventType) /\ Len(w) = 1 /\ DOMAIN w = {1} /\ w[1] = v
  OBVIOUS
<1>2. /\ Len(d) \in Nat /\ n \in DOMAIN d2 /\ d2[n] = v
  <2>1. Len(d) \in Nat
    OBVIOUS
  <2>2. Append(d, v) \in Seq(EventType) /\ Len(Append(d, v)) = Len(d) + 1 /\ Append(d, v)[Len(d) + 1] = v
    BY AppendProperties
  <2>3. n \in 1 .. Len(Append(d, v)) /\ DOMAIN Append(d, v) = 1 .. Len(Append(d, v))
    BY <2>1, <2>2
  <2> QED
    BY <1>1, <2>1, <2>2, <2>3
<1> HIDE DEF w
<1>3. Before(d2, n) = d
  <2>1. 1 \in DOMAIN w
    BY <1>1
  <2>2. Before(d2, Len(d) + 1) = d \o Before(w, 1)
    <3>1. w \in Seq(EventType) /\ d \in Seq(EventType)
      BY <1>1
    <3> QED
      BY <2>1, <3>1, BehindEvents
  <2>3. Before(w, 1) \in Seq(EventType) /\ Len(Before(w, 1)) = 1 - 1
    BY <1>1, <2>1, BeforeParts
  <2>4. Before(w, 1) = <<>>
    BY <2>3, EmptySeq
  <2>5. d \o <<>> = d
    BY ConcatEmptySeq
  <2> QED
    BY <2>2, <2>4, <2>5
<1>4. Effects(m) = Effects(d)
  BY DEF Agrees
<1> HIDE DEF d2, n
<1>5. EventOK(d2, m, v)
  <2>1. v.what \in {"pure", "heap"} => v.at = n
    BY DEF n
  <2> QED
    BY <1>2, <1>3, <1>4, <2>1 DEF EventOK
<1>6. Right(d2, m, w)
  BY <1>5, RightOne DEF w
<1>7. Adds(d2, v, m, w)
  BY <1>6 DEF Adds, w
<1> QED
  BY <1>1, <1>7 DEF w

(* Nothing, for an instruction that is neither an effect nor a set. *)
LEMMA AddsNothing ==
  ASSUME NEW d \in Seq(EventType), NEW m \in Seq(EventType), NEW v \in EventType,
         v.what \notin {"effect", "set"}
  PROVE  Adds(Append(d, v), v, m, <<>>)
<1>1. Effects(<<v>>) = <<>> /\ \A x : Sets(<<v>>, x) = <<>>
  BY OneMore
<1>2. Effects(<<>>) = <<>> /\ \A x : Sets(<<>>, x) = <<>>
  BY EffectsParts, SetsParts
<1>3. Right(Append(d, v), m, <<>>)
  BY RightOne
<1> QED
  BY <1>1, <1>2, <1>3 DEF Adds

-----------------------------------------------------------------------------
(* The same computation, step by step. *)

(* The decompiler knows which value a local variable has. *)
LocalsSet == \A x \in Locals : locals[x] = ValueAfter(did, x)

CompOK == ~disturbed /\ ~copied /\ ~dropped => Agrees(did, Method)

(* An event that sets nothing leaves every local what the run made it. *)
LEMMA LocalsSetKept ==
  ASSUME TypeInv, LocalsSet, NEW what \in {"pure", "read", "heap", "effect"},
         NEW at \in Int, NEW in \in Seq(Int), Executes(what, at, in), UNCHANGED locals
  PROVE  LocalsSet'
<1> DEFINE v == Event(what, at, in)
           w == <<v>>
<1>1. /\ did' = Append(did, v) /\ v \in EventType /\ v.what = what
  <2>1. what \in {"pure", "read", "set", "heap", "effect"}
    OBVIOUS
  <2> QED
    BY <2>1, Recorded
<1>2. did \in Seq(EventType)
  BY DEF TypeInv
<1> HIDE DEF v
<1>3. \A x : Sets(w, x) = <<>>
  BY <1>1, <1>2, OneMore
<1>4. w \in Seq(EventType) /\ did' = did \o w
  BY <1>1, <1>2
<1> HIDE DEF w
<1>5. \A x : ValueAfter(did \o w, x) = ValueAfter(did, x)
  BY <1>2, <1>3, <1>4, ValueAfterParts
<1>6. \A x \in Locals : locals'[x] = ValueAfter(did', x)
  BY <1>4, <1>5 DEF LocalsSet
<1> QED
  BY <1>6 DEF LocalsSet, ValueAfter, Sets

(* An event that sets a local makes it what the event says. *)
LEMMA LocalsSetSet ==
  ASSUME TypeInv, LocalsSet, NEW x \in Locals, x \in Int, NEW in \in Seq(Int), Executes("set", x, in),
         locals' = [locals EXCEPT ![x] = in[1]]
  PROVE  LocalsSet'
<1> DEFINE v == Event("set", x, in)
           w == <<v>>
<1>1. /\ did' = Append(did, v) /\ v \in EventType /\ v.what = "set" /\ v.at = x /\ v.in = in
  BY Recorded
<1>2. did \in Seq(EventType) /\ locals \in [Locals -> Int]
  BY DEF TypeInv
<1> HIDE DEF v
<1>3. \A y : Sets(w, y) = IF y = x THEN w ELSE <<>>
  BY <1>1, SetsParts DEF IsSet
<1>4. w \in Seq(EventType) /\ did' = did \o w /\ w # <<>> /\ Last(w) = v
  BY <1>1, <1>2 DEF Last
<1> HIDE DEF w
<1>5. \A y : y # x => ValueAfter(did \o w, y) = ValueAfter(did, y)
  BY <1>2, <1>3, <1>4, ValueAfterParts
<1>6. ValueAfter(did \o w, x) = ValueAfter(w, x)
  <2>1. Sets(w, x) # <<>>
    BY <1>3, <1>4
  <2> QED
    BY <1>2, <1>4, <2>1, ValueAfterParts
<1>7. ValueAfter(w, x) = in[1]
  BY <1>1, <1>3, <1>4 DEF ValueAfter
<1>8. \A y \in Locals : locals'[y] = ValueAfter(did', y)
  BY <1>2, <1>4, <1>5, <1>6, <1>7 DEF LocalsSet
<1> QED
  BY <1>8 DEF LocalsSet, ValueAfter, Sets

(* The printed method, cut at the operands of the next instruction. *)
LEMMA MethodIs ==
  ASSUME TypeInv, StackInv, ExprsOK, ~ended, ~disturbed, NEW n \in Nat, NEW k \in Ends(n)
  PROVE  /\ Method = out \o (EventsOf(Below(n)) \o EventsOf(Popped(n)))
         /\ EventsOf(Below(n)) \in Seq(QuietType) /\ EventsOf(Popped(n)) \in Seq(QuietType)
         /\ EventsOf(Below(n)) \in Seq(EventType) /\ EventsOf(Popped(n)) \in Seq(EventType)
         /\ out \in Seq(EventType) /\ Method \in Seq(EventType)
<1>1. stack = Below(n) \o Popped(n)
  BY Aligned
<1>2. Below(n) \in Seq(ExprType) /\ Popped(n) \in Seq(ExprType)
  BY ArgsParts
<1>3. EventsOf(stack) = EventsOf(Below(n)) \o EventsOf(Popped(n))
  BY <1>1, <1>2, EventsOfParts
<1>4. EventsOf(Below(n)) \in Seq(QuietType) /\ EventsOf(Popped(n)) \in Seq(QuietType)
  BY PoppedHarmless
<1>5. EventsOf(Below(n)) \in Seq(EventType) /\ EventsOf(Popped(n)) \in Seq(EventType)
  BY <1>4, QuietEvents
<1>6. out \in Seq(EventType)
  BY DEF TypeInv
<1>7. Method \in Seq(EventType)
  BY MethodType
<1> QED
  BY <1>3, <1>4, <1>5, <1>6, <1>7 DEF Method

Behind(o, r, a, n) == o \o (r \o (a \o n)) = (o \o (r \o a)) \o n

(* What is said behind the stack comes after everything the stack reads. *)
LEMMA AddedBehind ==
  ASSUME NEW o \in Seq(EventType), NEW r \in Seq(EventType), NEW a \in Seq(EventType),
         NEW n \in Seq(EventType)
  PROVE  Behind(o, r, a, n)
<1>1. r \o (a \o n) = (r \o a) \o n
  BY Associative
<1> DEFINE ra == r \o a
<1>2. ra \in Seq(EventType)
  BY ConcatProperties
<1> HIDE DEF ra
<1>3. o \o (ra \o n) = (o \o ra) \o n
  BY <1>2, Associative
<1> QED
  BY <1>1, <1>3 DEF Behind, ra

(* What is popped goes into an expression or a statement, with new behind it. *)
LEMMA AgreesMoved ==
  ASSUME TypeInv, StackInv, ExprsOK, ~ended, ~disturbed, NEW n \in Nat, NEW k \in Ends(n),
         Agrees(did, Method), NEW v \in EventType, did' = Append(did, v),
         NEW new \in Seq(EventType), Adds(Append(did, v), v, Method, new),
         \/ /\ EventsOf(stack') = EventsOf(Below(n)) \o (EventsOf(Popped(n)) \o new)
            /\ out' = out
         \/ /\ EventsOf(stack') = EventsOf(Below(n))
            /\ out' = out \o (EventsOf(Popped(n)) \o new)
            /\ ~Entangled(EventsOf(Below(n)), EventsOf(Popped(n)) \o new)
  PROVE  Agrees(did', Method')
<1> DEFINE r == EventsOf(Below(n))
           a == EventsOf(Popped(n))
           d == did
           o == out
           m == Method
           d2 == Append(d, v)
<1>1. /\ m = o \o (r \o a) /\ r \in Seq(QuietType) /\ a \in Seq(QuietType) /\ o \in Seq(EventType)
      /\ m \in Seq(EventType) /\ r \in Seq(EventType) /\ a \in Seq(EventType)
  BY MethodIs
<1>2. d \in Seq(EventType)
  BY DEF TypeInv
<1>3. Method' = out' \o EventsOf(stack')
  BY DEF Method, EventsOf
<1>4. Agrees(d, m) /\ Adds(Append(d, v), v, m, new)
  OBVIOUS
<1>5. CASE EventsOf(stack') = r \o (a \o new) /\ out' = o
  <2>1. Method' = o \o (r \o (a \o new))
    BY <1>3, <1>5
  <2>2. o \o (r \o (a \o new)) = m \o new
    <3> HIDE DEF m, r, a, o
    <3>1. Behind(o, r, a, new)
      BY <1>1, AddedBehind
    <3> QED
      BY <1>1, <3>1, Zenon DEF Behind
  <2> HIDE DEF m, d
  <2>3. Agrees(Append(d, v), m \o new)
    BY <1>1, <1>2, <1>4, AgreesBehind
  <2> QED
    BY <2>1, <2>2, <2>3 DEF d
<1>6. CASE /\ EventsOf(stack') = r /\ out' = o \o (a \o new)
           /\ ~Entangled(r, a \o new)
  <2>1. Method' = (o \o (a \o new)) \o r
    BY <1>3, <1>6
  <2>2. Agrees(d, o \o (r \o a)) /\ Adds(Append(d, v), v, o \o (r \o a), new)
    BY <1>1, <1>4
  <2> HIDE DEF r, a, o, d, m
  <2>3. Agrees(Append(d, v), (o \o (a \o new)) \o r)
    BY <1>1, <1>2, <1>6, <2>2, AgreesSaid
  <2> QED
    BY <2>1, <2>3 DEF d
<1> QED
  BY <1>5, <1>6

(* What is popped goes without a trace. *)
LEMMA AgreesDropped ==
  ASSUME TypeInv, StackInv, ExprsOK, ~ended, ~disturbed, NEW n \in Nat, NEW k \in Ends(n),
         Agrees(did, Method), NEW v \in EventType, v.what \notin {"effect", "set"}, did' = Append(did, v),
         stack' = Below(n), out' = out, ~HasEffect(EventsOf(Popped(n)))
  PROVE  Agrees(did', Method')
<1> DEFINE r == EventsOf(Below(n))
           a == EventsOf(Popped(n))
           d == did
           c == out \o r
<1>1. /\ Method = out \o (r \o a) /\ a \in Seq(QuietType) /\ out \in Seq(EventType)
      /\ r \in Seq(EventType) /\ a \in Seq(EventType)
  BY MethodIs
<1>2. d \in Seq(EventType)
  BY DEF TypeInv
<1>3. Method' = c
  <2>1. Method' = out' \o EventsOf(stack')
    BY DEF Method, EventsOf
  <2> QED
    BY <2>1
<1>4. ~HasEffect(a) /\ Agrees(d, Method)
  OBVIOUS
<1> HIDE DEF r, a, d
<1>5. Method = c \o a /\ c \in Seq(EventType)
  <2>1. out \o (r \o a) = (out \o r) \o a
    BY <1>1, Associative
  <2>2. out \o r \in Seq(EventType)
    BY <1>1, ConcatProperties
  <2> QED
    BY <1>1, <2>1, <2>2
<1> HIDE DEF c
<1>6. Agrees(d, c \o a)
  BY <1>4, <1>5
<1>7. Agrees(Append(d, v), c)
  BY <1>1, <1>2, <1>4, <1>5, <1>6, AgreesWithout
<1> QED
  BY <1>3, <1>7 DEF d

(* It is enough to look at runs that nothing has disturbed, copied or
   dropped. *)
LEMMA CompStep ==
  ASSUME ~disturbed' /\ ~copied' /\ ~dropped' => Agrees(did', Method')
  PROVE  CompOK'
BY DEF CompOK, Agrees, Effects, Sets, Right, EventOK, ValueAfter, Before

(* An instruction whose operands are the popped expressions agrees with the run
   if the run and the text agreed. *)
LEMMA CompOperation ==
  ASSUME TypeInv, StackInv, ExprsOK, CompOK, NEW what \in {"pure", "heap", "effect"},
         NEW n \in Nat, NEW k \in Ends(n), Executes(what, Step, Operands(k)),
         ~disturbed' =>
           LET s == Append(EventsOf(Popped(n)), Event(what, Step, Values(Popped(n))))
           IN  Push(Below(n), Expr("other", Step, s)) \/ Say(Below(n), s),
         ~dropped' => ~dropped, ~copied' => ~copied
  PROVE  CompOK'
<1> DEFINE in  == Operands(k)
           v   == Event(what, Step, in)
           e   == Event(what, Step, Values(Popped(n)))
           new == <<v>>
           r   == EventsOf(Below(n))
           a   == EventsOf(Popped(n))
           s   == Append(a, e)
<1> SUFFICES ASSUME ~disturbed', ~copied', ~dropped' PROVE Agrees(did', Method')
  BY CompStep
<1>1. what \in {"pure", "read", "set", "heap", "effect"} /\ in \in Seq(Int) /\ Step \in Int /\ Running
  <2>1. in \in Seq(Int) /\ Running
    BY EndsParts
  <2>2. Step \in Int
    BY DEF TypeInv, Step
  <2> QED
    BY <2>1, <2>2
<1>2. /\ v \in EventType /\ v.what = what /\ v.at = Step /\ v.in = in /\ did' = Append(did, v)
      /\ Step = Len(did) + 1
  BY <1>1, Recorded
<1>3. did \in Seq(EventType)
  BY DEF TypeInv
<1>4. ~disturbed /\ ~ended /\ Agrees(did, Method)
  <2>1. Push(Below(n), Expr("other", Step, s)) \/ Say(Below(n), s)
    OBVIOUS
  <2>2. ~disturbed
    BY <2>1 DEF Push, Say
  <2>3. ~ended
    BY <1>1 DEF Running
  <2> QED
    BY <2>2, <2>3 DEF CompOK
<1>5. Values(Popped(n)) = in
  BY <1>4, Aligned
<1>6. e = v
  BY <1>5
<1>7. /\ r \in Seq(EventType) /\ a \in Seq(EventType) /\ Method \in Seq(EventType)
  BY <1>4, MethodIs
<1>8. s = a \o new /\ new \in Seq(EventType) /\ s \in Seq(EventType)
  <2> HIDE DEF a, v
  <2>1. new \in Seq(EventType) /\ Append(a, v) = a \o new /\ Append(a, v) \in Seq(EventType)
    BY <1>2, <1>7
  <2> QED
    BY <1>6, <2>1
<1>9. Push(Below(n), Expr("other", Step, s)) \/ Say(Below(n), s)
  OBVIOUS
<1> HIDE DEF s, e
<1>10. \/ EventsOf(stack') = r \o s /\ out' = out
       \/ EventsOf(stack') = r /\ out' = out \o s /\ ~Entangled(r, s)
  <2>1. CASE Push(Below(n), Expr("other", Step, s))
    <3> DEFINE x == Expr("other", Step, s)
    <3>1. stack' = Append(Below(n), x) /\ out' = out
      BY <2>1 DEF Push
    <3>2. x \in ExprType
      BY <1>1, <1>8, ExprIsTyped
    <3>3. x.events = s
      BY DEF Expr
    <3>4. Below(n) \in Seq(ExprType)
      BY ArgsParts
    <3> DEFINE B == Below(n)
    <3> HIDE DEF x, B
    <3>5. EventsOf(Append(B, x)) = EventsOf(B) \o x.events
      BY <3>2, <3>4, EventsOfAppend DEF B
    <3> QED
      BY <3>1, <3>3, <3>5 DEF B
  <2>2. CASE Say(Below(n), s)
    BY <2>2 DEF Say
  <2> QED
    BY <1>9, <2>1, <2>2
<1> HIDE DEF v, new
<1>11. Adds(Append(did, v), v, Method, new)
  BY <1>2, <1>3, <1>4, <1>7, AddsItself DEF new
<1>12. \/ EventsOf(stack') = r \o (a \o new) /\ out' = out
       \/ EventsOf(stack') = r /\ out' = out \o (a \o new) /\ ~Entangled(r, a \o new)
  BY <1>8, <1>10
<1> QED
  BY <1>2, <1>4, <1>8, <1>11, <1>12, AgreesMoved

(* Action by action. *)
LEMMA ZeroOperation ==
  ASSUME TypeInv, Running
  PROVE  Append(EventsOf(Popped(0)), Event("pure", Step, Values(Popped(0)))) = <<Event("pure", Step, <<>>)>>
<1>1. EventsOf(Popped(0)) = <<>> /\ Values(Popped(0)) = <<>>
  BY ZeroEnds
<1> DEFINE e == Event("pure", Step, <<>>)
<1> HIDE DEF e
<1>2. Append(<<>>, e) = <<e>>
  OBVIOUS
<1> QED
  BY <1>1, <1>2 DEF e

(* Pushing a constant keeps the text in agreement with the run. *)
LEMMA ConstantComp ==
  ASSUME TypeInv, StackInv, ExprsOK, CompOK, Constant
  PROVE  CompOK'
<1>1. /\ Executes("pure", Step, <<>>)
      /\ Push(stack, Expr("other", Step, <<Event("pure", Step, <<>>)>>))
      /\ UNCHANGED <<dropped, copied>>
  BY DEF Constant
<1>2. Running
  BY <1>1 DEF Executes
<1>3. 0 \in Ends(0) /\ Operands(0) = <<>> /\ Below(0) = stack
  BY <1>2, ZeroEnds
<1>4. Append(EventsOf(Popped(0)), Event("pure", Step, Values(Popped(0)))) = <<Event("pure", Step, <<>>)>>
  BY <1>2, ZeroOperation
<1>5. LET s == Append(EventsOf(Popped(0)), Event("pure", Step, Values(Popped(0))))
      IN  Push(Below(0), Expr("other", Step, s)) \/ Say(Below(0), s)
  BY <1>1, <1>3, <1>4
<1>6. Executes("pure", Step, Operands(0))
  BY <1>1, <1>3
<1>7. (~dropped' => ~dropped) /\ (~copied' => ~copied)
  BY <1>1
<1> DEFINE what == "pure"
           n == 0
           k == 0
<1>8. /\ what \in {"pure", "heap", "effect"} /\ n \in Nat /\ k \in Ends(n) /\ Executes(what, Step, Operands(k))
      /\ LET s == Append(EventsOf(Popped(n)), Event(what, Step, Values(Popped(n))))
         IN  Push(Below(n), Expr("other", Step, s)) \/ Say(Below(n), s)
  BY <1>3, <1>5, <1>6
<1> HIDE DEF what, n, k
<1> QED
  BY <1>7, <1>8, CompOperation

(* An arithmetic, comparison or heap-reading instruction keeps the text in
   agreement with the run. *)
LEMMA OperateComp ==
  ASSUME TypeInv, StackInv, ExprsOK, CompOK, NEW n \in Nat, NEW what \in {"pure", "heap"},
         Operate(n, what)
  PROVE  CompOK'
<1> PICK k \in Ends(n) :
      /\ Executes(what, Step, Operands(k))
      /\ Push(Below(n), Expr("other", Step, Append(EventsOf(ArgsOf(n)), Event(what, Step, Values(ArgsOf(n))))))
      /\ UNCHANGED <<dropped, copied>>
  BY DEF Operate
<1>1. LET s == Append(EventsOf(Popped(n)), Event(what, Step, Values(Popped(n))))
      IN  Push(Below(n), Expr("other", Step, s)) \/ Say(Below(n), s)
  BY DEF ArgsOf
<1>2. what \in {"pure", "heap", "effect"} /\ (~dropped' => ~dropped) /\ (~copied' => ~copied)
  OBVIOUS
<1> QED
  BY <1>1, <1>2, CompOperation

(* A store to a field or an array keeps the text in agreement with the run. *)
LEMMA PutComp ==
  ASSUME TypeInv, StackInv, ExprsOK, CompOK, NEW n \in Nat, Put(n)
  PROVE  CompOK'
<1> PICK k \in Ends(n) :
      /\ Executes("effect", Step, Operands(k))
      /\ Say(Below(n), Append(EventsOf(ArgsOf(n)), Event("effect", Step, Values(ArgsOf(n)))))
      /\ UNCHANGED <<dropped, copied>>
  BY DEF Put
<1> DEFINE what == "effect"
<1>1. LET s == Append(EventsOf(Popped(n)), Event(what, Step, Values(Popped(n))))
      IN  Push(Below(n), Expr("other", Step, s)) \/ Say(Below(n), s)
  BY DEF ArgsOf
<1>2. /\ what \in {"pure", "heap", "effect"} /\ (~dropped' => ~dropped) /\ (~copied' => ~copied)
      /\ Executes(what, Step, Operands(k))
  OBVIOUS
<1> HIDE DEF what
<1> QED
  BY <1>1, <1>2, CompOperation

(* A call keeps the text in agreement with the run. *)
LEMMA InvokeComp ==
  ASSUME TypeInv, StackInv, ExprsOK, CompOK, NEW n \in Nat, NEW void \in BOOLEAN, Invoke(n, void)
  PROVE  CompOK'
<1> DEFINE what == "effect"
<1> PICK k \in Ends(n) :
      /\ Executes(what, Step, Operands(k))
      /\ LET s == Append(EventsOf(ArgsOf(n)), Event(what, Step, Values(ArgsOf(n))))
         IN  Push(Below(n), Expr("other", Step, s)) \/ Say(Below(n), s)
      /\ UNCHANGED <<dropped, copied>>
  BY DEF Invoke
<1>1. LET s == Append(EventsOf(Popped(n)), Event(what, Step, Values(Popped(n))))
      IN  Push(Below(n), Expr("other", Step, s)) \/ Say(Below(n), s)
  BY DEF ArgsOf
<1>2. what \in {"pure", "heap", "effect"} /\ (~dropped' => ~dropped) /\ (~copied' => ~copied)
  OBVIOUS
<1> HIDE DEF what
<1> QED
  BY <1>1, <1>2, CompOperation

(* A lambda keeps the text in agreement with the run. *)
LEMMA LambdaComp ==
  ASSUME TypeInv, StackInv, ExprsOK, CompOK, NEW n \in Nat, Lambda(n)
  PROVE  CompOK'
<1> DEFINE what == "pure"
<1> PICK k \in Ends(n) :
      /\ Executes(what, Step, Operands(k))
      /\ stack' = Append(Below(n), Expr("other", Step, <<Event("pure", Step, <<>>)>>))
      /\ disturbed' = (disturbed \/ n > 0)
      /\ dropped' = (dropped \/ HasEffect(EventsOf(Popped(n))))
      /\ UNCHANGED <<out, copied>>
  BY DEF Lambda
<1>1. ASSUME ~disturbed'
      PROVE  LET s == Append(EventsOf(Popped(n)), Event(what, Step, Values(Popped(n))))
             IN  Push(Below(n), Expr("other", Step, s)) \/ Say(Below(n), s)
  <2>0. ~ (n > 0) /\ ~disturbed
    BY <1>1
  <2>1. n = 0 /\ ~disturbed
    BY <2>0
  <2>2. Running
    BY DEF Executes
  <2>3. Append(EventsOf(Popped(0)), Event("pure", Step, Values(Popped(0)))) = <<Event("pure", Step, <<>>)>>
    BY <2>2, ZeroOperation
  <2>4. disturbed' = disturbed
    BY <2>1 DEF TypeInv
  <2> QED
    BY <2>1, <2>3, <2>4 DEF Push
<1>2. what \in {"pure", "heap", "effect"} /\ (~dropped' => ~dropped) /\ (~copied' => ~copied)
  OBVIOUS
<1> HIDE DEF what
<1> QED
  BY <1>1, <1>2, CompOperation

(* A string concatenation leaves nothing to agree about. *)
LEMMA ConcatComp ==
  ASSUME NEW n \in Nat, Concat(n)
  PROVE  CompOK'
<1>1. disturbed' = TRUE
  BY DEF Concat
<1> QED
  BY <1>1, CompStep

(* A return or throw keeps the text in agreement with the run. *)
LEMMA ReturnComp ==
  ASSUME TypeInv, StackInv, ExprsOK, CompOK, NEW n \in Nat, Return(n)
  PROVE  CompOK'
<1> DEFINE what == "pure"
           s == Append(EventsOf(Popped(n)), Event(what, Step, Values(Popped(n))))
<1> PICK k \in Ends(n) :
      /\ Executes(what, Step, Operands(k))
      /\ stack' = <<>>
      /\ out' = out \o s
      /\ disturbed' = (disturbed \/ Below(n) # <<>>)
      /\ dropped' = (dropped \/ HasEffect(EventsOf(Below(n))))
      /\ UNCHANGED copied
  BY DEF Return, ArgsOf
<1>1. ASSUME ~disturbed' PROVE Say(Below(n), s)
  <2>1. Below(n) = <<>> /\ ~disturbed
    BY <1>1
  <2>2. EventsOf(Below(n)) = <<>> /\ DOMAIN <<>> = {}
    BY <2>1, EventsOfParts, EmptySeq
  <2>3. ~Entangled(EventsOf(Below(n)), s)
    BY <2>2 DEF Entangled
  <2>4. disturbed' = (disturbed \/ Entangled(EventsOf(Below(n)), s))
    BY <1>1, <2>1, <2>3 DEF TypeInv
  <2> QED
    BY <2>1, <2>4 DEF Say
<1>2. what \in {"pure", "heap", "effect"} /\ (~dropped' => ~dropped) /\ (~copied' => ~copied)
  OBVIOUS
<1>3. ~disturbed' => LET t == Append(EventsOf(Popped(n)), Event(what, Step, Values(Popped(n))))
                     IN  Push(Below(n), Expr("other", Step, t)) \/ Say(Below(n), t)
  BY <1>1
<1> HIDE DEF what, s
<1> QED
  BY <1>2, <1>3, CompOperation

(* If one event is added to the run and the same one to the text, behind
   nothing that it changes, they still agree. *)
LEMMA AgreesAdded ==
  ASSUME TypeInv, StackInv, ExprsOK, Running, ~disturbed, Agrees(did, Method),
         NEW v \in EventType, did' = Append(did, v),
         NEW new \in Seq(EventType), Adds(Append(did, v), v, Method, new),
         \/ EventsOf(stack') = EventsOf(stack) \o new /\ out' = out
         \/ /\ EventsOf(stack') = EventsOf(stack)
            /\ out' = out \o new
            /\ ~Entangled(EventsOf(stack), new)
  PROVE  Agrees(did', Method')
<1>1. 0 \in Ends(0) /\ Below(0) = stack /\ EventsOf(Popped(0)) = <<>>
  BY ZeroEnds
<1>2. <<>> \o new = new
  BY ConcatEmptySeq
<1>3. EventsOf(Popped(0)) \o new = new /\ EventsOf(Below(0)) = EventsOf(stack)
  BY <1>1, <1>2
<1>4. \/ /\ EventsOf(stack') = EventsOf(Below(0)) \o (EventsOf(Popped(0)) \o new)
         /\ out' = out
      \/ /\ EventsOf(stack') = EventsOf(Below(0))
         /\ out' = out \o (EventsOf(Popped(0)) \o new)
         /\ ~Entangled(EventsOf(Below(0)), EventsOf(Popped(0)) \o new)
  BY <1>3
<1> DEFINE n == 0
           k == 0
<1>5. /\ n \in Nat /\ k \in Ends(n)
      /\ \/ /\ EventsOf(stack') = EventsOf(Below(n)) \o (EventsOf(Popped(n)) \o new)
            /\ out' = out
         \/ /\ EventsOf(stack') = EventsOf(Below(n))
            /\ out' = out \o (EventsOf(Popped(n)) \o new)
            /\ ~Entangled(EventsOf(Below(n)), EventsOf(Popped(n)) \o new)
  BY <1>1, <1>4
<1>6. ~ended
  BY DEF Running
<1> HIDE DEF n, k
<1> QED
  BY <1>5, <1>6, AgreesMoved

(* A pushed expression adds its events to those of the stack. *)
LEMMA PushedEvents ==
  ASSUME TypeInv, NEW e \in ExprType, stack' = Append(stack, e)
  PROVE  EventsOf(stack') = EventsOf(stack) \o e.events
<1>1. stack \in Seq(ExprType)
  BY DEF TypeInv
<1> QED
  BY <1>1, EventsOfAppend

(* Where the run and the text agree, both make a local the same. *)
LEMMA ValueOfLocal ==
  ASSUME LocalsSet, NEW x \in Locals, Agrees(did, Method)
  PROVE  ValueAfter(Method, x) = locals[x]
<1>1. Sets(Method, x) = Sets(did, x)
  BY DEF Agrees
<1>2. ValueAfter(Method, x) = ValueAfter(did, x)
  BY <1>1 DEF ValueAfter
<1> QED
  BY <1>2 DEF LocalsSet

(* Loading a local keeps the text in agreement with the run. *)
LEMMA LoadComp ==
  ASSUME TypeInv, StackInv, ExprsOK, CompOK, LocalsSet, NEW x \in Locals, Load(x)
  PROVE  CompOK'
<1> SUFFICES ASSUME ~disturbed', ~copied', ~dropped' PROVE Agrees(did', Method')
  BY CompStep
<1> DEFINE in  == <<locals[x]>>
           v   == Event("read", x, in)
           new == <<v>>
           e   == Expr("name", locals[x], new)
<1>1. /\ Executes("read", x, in)
      /\ Push(stack, e)
      /\ UNCHANGED <<dropped, copied>>
  BY DEF Load
<1>2. x \in Int /\ in \in Seq(Int) /\ in[1] = locals[x] /\ locals[x] \in Int
  BY StackAssumption DEF TypeInv
<1>3. v \in EventType /\ v.what = "read" /\ v.at = x /\ v.in = in /\ did' = Append(did, v)
  <2> HIDE DEF in
  <2> QED
    BY <1>1, <1>2, Recorded
<1>4. did \in Seq(EventType) /\ Running /\ Method \in Seq(EventType)
  <2>1. Running
    BY <1>1 DEF Executes
  <2>2. Method \in Seq(EventType)
    BY MethodType
  <2> QED
    BY <2>1, <2>2 DEF TypeInv
<1>5. stack' = Append(stack, e) /\ out' = out /\ ~disturbed /\ ~copied /\ ~dropped
  BY <1>1 DEF Push
<1>6. Agrees(did, Method)
  BY <1>5 DEF CompOK
<1>7. new \in Seq(EventType)
  BY <1>3
<1>8. e \in ExprType
  BY <1>2, <1>7, ExprIsTyped
<1>9. e.events = new
  BY DEF Expr
<1>10. EventsOf(stack') = EventsOf(stack) \o new
  <2> HIDE DEF e, new
  <2> QED
    BY <1>5, <1>8, <1>9, PushedEvents
<1>11. ValueAfter(Method, x) = locals[x]
  BY <1>6, ValueOfLocal
<1> HIDE DEF v, in
<1>12. Adds(Append(did, v), v, Method, new)
  BY <1>2, <1>3, <1>4, <1>6, <1>11, AddsItself
<1> HIDE DEF new
<1> QED
  BY <1>3, <1>4, <1>5, <1>6, <1>7, <1>10, <1>12, AgreesAdded

(* A new object keeps the text in agreement with the run. *)
LEMMA NewComp ==
  ASSUME TypeInv, StackInv, ExprsOK, CompOK, New
  PROVE  CompOK'
<1> SUFFICES ASSUME ~disturbed', ~copied', ~dropped' PROVE Agrees(did', Method')
  BY CompStep
<1> DEFINE in  == <<>>
           v   == Event("pure", Step, in)
           new == <<>>
           e   == Expr("new", Step, new)
<1>1. /\ Executes("pure", Step, in)
      /\ Push(stack, e)
      /\ UNCHANGED <<dropped, copied>>
  BY DEF New
<1>2. Step \in Int /\ in \in Seq(Int) /\ new \in Seq(EventType)
  BY EmptySeq DEF TypeInv, Step
<1>3. v \in EventType /\ v.what = "pure" /\ did' = Append(did, v)
  BY <1>1, <1>2, Recorded
<1>4. did \in Seq(EventType) /\ Running /\ Method \in Seq(EventType)
  <2>1. Running
    BY <1>1 DEF Executes
  <2>2. Method \in Seq(EventType)
    BY MethodType
  <2> QED
    BY <2>1, <2>2 DEF TypeInv
<1>5. stack' = Append(stack, e) /\ out' = out /\ ~disturbed /\ ~copied /\ ~dropped
  BY <1>1 DEF Push
<1>6. Agrees(did, Method)
  BY <1>5 DEF CompOK
<1>7. e \in ExprType
  BY <1>2, ExprIsTyped
<1>8. e.events = new
  BY DEF Expr
<1>9. EventsOf(stack') = EventsOf(stack) \o new
  <2> HIDE DEF e, new
  <2> QED
    BY <1>5, <1>7, <1>8, PushedEvents
<1> HIDE DEF v, in
<1>10. Adds(Append(did, v), v, Method, new)
  BY <1>3, <1>4, AddsNothing
<1> HIDE DEF new
<1> QED
  BY <1>2, <1>3, <1>4, <1>5, <1>6, <1>9, <1>10, AgreesAdded

(* Incrementing a local keeps the text in agreement with the run. *)
LEMMA IncrementComp ==
  ASSUME TypeInv, StackInv, ExprsOK, CompOK, LocalsSet, NEW x \in Locals, Increment(x)
  PROVE  CompOK'
<1> SUFFICES ASSUME ~disturbed', ~copied', ~dropped' PROVE Agrees(did', Method')
  BY CompStep
<1> DEFINE in  == <<Step>>
           v   == Event("set", x, in)
           a   == Event("read", x, <<locals[x]>>)
           new == <<a, v>>
           ra  == <<a>>
           rv  == <<v>>
           d2  == Append(did, v)
           m   == Method
<1>1. /\ Executes("set", x, in)
      /\ Say(stack, new)
      /\ UNCHANGED <<dropped, copied>>
  BY DEF Increment
<1>2. x \in Int /\ in \in Seq(Int) /\ locals[x] \in Int /\ <<locals[x]>> \in Seq(Int)
      /\ did \in Seq(EventType)
  BY StackAssumption DEF TypeInv, Step
<1>3. v \in EventType /\ v.what = "set" /\ v.at = x /\ v.in = in /\ did' = Append(did, v)
  <2> HIDE DEF in
  <2> QED
    BY <1>1, <1>2, Recorded
<1>4. a \in EventType /\ a.what = "read" /\ a.at = x /\ a.in[1] = locals[x]
  BY <1>2 DEF Event, EventType
<1>5. Running /\ m \in Seq(EventType)
  <2>1. Running
    BY <1>1 DEF Executes
  <2> QED
    BY <2>1, MethodType
<1>6. /\ stack' = stack /\ out' = out \o new /\ ~disturbed /\ ~copied /\ ~dropped
      /\ ~Entangled(EventsOf(stack), new)
  BY <1>1 DEF Say
<1>7. Agrees(did, m)
  BY <1>6 DEF CompOK
<1>8. ValueAfter(m, x) = locals[x]
  BY <1>7, ValueOfLocal
<1> HIDE DEF v, a, m
<1>9. new = ra \o rv /\ new \in Seq(EventType) /\ ra \in Seq(EventType) /\ rv \in Seq(EventType)
  BY <1>3, <1>4
<1>10. Effects(new) = Effects(rv)
  <2>1. Effects(ra) = <<>> /\ Effects(rv) \in Seq(EventType)
    BY <1>4, <1>9, EffectsParts DEF IsEffect
  <2> HIDE DEF ra, rv, new
  <2>2. Effects(ra \o rv) = Effects(ra) \o Effects(rv)
    BY <1>9, EffectsParts
  <2>3. <<>> \o Effects(rv) = Effects(rv)
    BY <2>1, ConcatEmptySeq
  <2> QED
    BY <1>9, <2>1, <2>2, <2>3
<1>11. ASSUME NEW y PROVE Sets(new, y) = Sets(rv, y)
  <2>1. Sets(ra, y) = <<>> /\ Sets(rv, y) \in Seq(EventType)
    BY <1>4, <1>9, SetsParts DEF IsSet
  <2> HIDE DEF ra, rv, new
  <2>2. Sets(ra \o rv, y) = Sets(ra, y) \o Sets(rv, y)
    BY <1>9, SetsParts
  <2>3. <<>> \o Sets(rv, y) = Sets(rv, y)
    BY <2>1, ConcatEmptySeq
  <2> QED
    BY <1>9, <2>1, <2>2, <2>3
<1>12. Right(d2, m, new)
  <2>1. EventOK(d2, m, a)
    BY <1>4, <1>8 DEF EventOK
  <2>2. EventOK(d2, m \o ra, v)
    BY <1>3 DEF EventOK
  <2> HIDE DEF d2
  <2>3. Right(d2, m, ra)
    BY <1>4, <1>5, <2>1, RightOne
  <2>4. m \o ra \in Seq(EventType)
    BY <1>5, <1>9, ConcatProperties
  <2> DEFINE c == m \o ra
  <2>5. c \in Seq(EventType) /\ EventOK(d2, c, v)
    BY <2>2, <2>4
  <2> HIDE DEF c
  <2>6. Right(d2, c, rv)
    BY <1>3, <2>5, RightOne
  <2> HIDE DEF ra, rv, new
  <2>7. Right(d2, m, ra \o rv) <=> Right(d2, m, ra) /\ Right(d2, m \o ra, rv)
    BY <1>5, <1>9, RightConcat
  <2> QED
    BY <1>9, <2>3, <2>6, <2>7 DEF c
<1>13. Adds(Append(did, v), v, Method, new)
  BY <1>10, <1>11, <1>12 DEF Adds, m
<1> HIDE DEF new
<1>14. EventsOf(stack') = EventsOf(stack)
  BY <1>6
<1> QED
  BY <1>3, <1>5, <1>6, <1>7, <1>9, <1>13, <1>14, AgreesAdded DEF m

(* Storing a local keeps the text in agreement with the run. *)
LEMMA StoreComp ==
  ASSUME TypeInv, StackInv, ExprsOK, CompOK, NEW x \in Locals, Store(x)
  PROVE  CompOK'
<1> SUFFICES ASSUME ~disturbed', ~copied', ~dropped' PROVE Agrees(did', Method')
  BY CompStep
<1> DEFINE e == Popped(1)[1]
           u == Event("set", x, <<e.val>>)
<1>1. ArgsOf(1)[1] = e
  BY DEF ArgsOf
<1> PICK k \in Ends(1) :
      /\ Executes("set", x, Operands(k))
      /\ Say(Below(1), Append(e.events, u))
      /\ UNCHANGED <<dropped, copied>>
  BY <1>1 DEF Store
<1> DEFINE in  == Operands(k)
           v   == Event("set", x, in)
           new == <<v>>
<1>2. x \in Int /\ in \in Seq(Int) /\ did \in Seq(EventType) /\ Running
  <2>1. in \in Seq(Int) /\ Running
    BY EndsParts
  <2> QED
    BY <2>1, StackAssumption DEF TypeInv
<1>3. v \in EventType /\ v.what = "set" /\ did' = Append(did, v)
  BY <1>2, Recorded
<1>4. /\ stack' = Below(1) /\ out' = out \o Append(e.events, u) /\ ~disturbed /\ ~copied /\ ~dropped
      /\ ~Entangled(EventsOf(Below(1)), Append(e.events, u))
  BY DEF Say
<1>5. Agrees(did, Method) /\ ~ended
  BY <1>2, <1>4 DEF CompOK, Running
<1>6. Values(Popped(1)) = in
  BY <1>4, <1>5, Aligned
<1>7. Values(Popped(1)) = <<e.val>> /\ EventsOf(Popped(1)) = e.events
  BY OneArg
<1>8. u = v
  BY <1>6, <1>7
<1>9. /\ EventsOf(Popped(1)) \in Seq(EventType) /\ Method \in Seq(EventType)
  BY <1>4, <1>5, MethodIs
<1> HIDE DEF e, v, u, in
<1>10. Append(e.events, u) = EventsOf(Popped(1)) \o new /\ new \in Seq(EventType)
  <2> DEFINE a == EventsOf(Popped(1))
  <2>1. a \in Seq(EventType) /\ e.events = a
    BY <1>7, <1>9
  <2> HIDE DEF a
  <2>2. Append(a, v) = a \o new /\ new \in Seq(EventType)
    BY <1>3, <2>1
  <2> QED
    BY <1>8, <2>1, <2>2 DEF a
<1>11. Adds(Append(did, v), v, Method, new)
  BY <1>2, <1>3, <1>5, <1>9, AddsItself
<1> DEFINE n == 1
<1> HIDE DEF new
<1>12. /\ n \in Nat /\ k \in Ends(n)
       /\ EventsOf(stack') = EventsOf(Below(n))
       /\ out' = out \o (EventsOf(Popped(n)) \o new)
       /\ ~Entangled(EventsOf(Below(n)), EventsOf(Popped(n)) \o new)
  BY <1>4, <1>10
<1> HIDE DEF n
<1> QED
  BY <1>3, <1>4, <1>5, <1>10, <1>11, <1>12, AgreesMoved

(* Reading a local is no effect. *)
LEMMA ReadsDoNothing ==
  ASSUME NEW s \in Seq(ReadType)
  PROVE  ~HasEffect(s)
<1>1. \A i \in DOMAIN s : s[i] \in ReadType
  OBVIOUS
<1>2. \A i \in DOMAIN s : s[i].what = "read"
  BY <1>1, QuietParts
<1> QED
  BY <1>2 DEF HasEffect, IsEffect

(* A computation without effect adds nothing that the text has to say. *)
LEMMA PureStep ==
  ASSUME TypeInv, NEW in \in Seq(Int), Executes("pure", Step, in)
  PROVE  LET v == Event("pure", Step, in)
         IN  /\ v \in EventType /\ v.what = "pure" /\ v.what \notin {"effect", "set"}
             /\ did' = Append(did, v) /\ did \in Seq(EventType) /\ Running /\ ~ended
             /\ \A m \in Seq(EventType) : Adds(Append(did, v), v, m, <<>>)
             /\ <<>> \in Seq(EventType)
<1> DEFINE v == Event("pure", Step, in)
<1>1. Step \in Int /\ did \in Seq(EventType)
  BY DEF TypeInv, Step
<1>2. v \in EventType /\ v.what = "pure" /\ did' = Append(did, v)
  BY <1>1, Recorded
<1>3. Running /\ ~ended
  BY DEF Executes, Running
<1> HIDE DEF v
<1>4. \A m \in Seq(EventType) : Adds(Append(did, v), v, m, <<>>)
  BY <1>1, <1>2, AddsNothing
<1>5. <<>> \in Seq(EventType)
  BY EmptySeq
<1> QED
  BY <1>1, <1>2, <1>3, <1>4, <1>5 DEF v

(* A pop keeps the text in agreement with the run. *)
LEMMA DiscardComp ==
  ASSUME TypeInv, StackInv, ExprsOK, CompOK, Discard
  PROVE  CompOK'
<1> SUFFICES ASSUME ~disturbed', ~copied', ~dropped' PROVE Agrees(did', Method')
  BY CompStep
<1> DEFINE e  == Popped(1)[1]
           in == <<>>
           v  == Event("pure", Step, in)
           new == <<>>
<1>1. /\ 1 \in Ends(1)
      /\ Executes("pure", Step, in)
      /\ Say(Below(1), IF IsStatement(e) THEN e.events ELSE <<>>)
      /\ UNCHANGED <<dropped, copied>>
  BY DEF Discard
<1>2. in \in Seq(Int)
  BY EmptySeq
<1>3. /\ v \in EventType /\ v.what \notin {"effect", "set"} /\ did' = Append(did, v)
      /\ ~ended /\ \A m \in Seq(EventType) : Adds(Append(did, v), v, m, new)
      /\ new \in Seq(EventType)
  <2> HIDE DEF in
  <2> QED
    BY <1>1, <1>2, PureStep
<1>4. ~disturbed /\ ~copied /\ ~dropped
  BY <1>1 DEF Say
<1>5. Agrees(did, Method)
  BY <1>4 DEF CompOK
<1>6. /\ EventsOf(Popped(1)) \in Seq(EventType) /\ Method \in Seq(EventType) /\ out \in Seq(EventType)
  BY <1>1, <1>3, <1>4, MethodIs
<1>7. EventsOf(Popped(1)) = e.events /\ e \in ExprType
  BY OneArg
<1> DEFINE n == 1
           k == 1
<1>8. n \in Nat /\ k \in Ends(n)
  BY <1>1
<1>9. CASE IsStatement(e)
  <2>1. /\ stack' = Below(1) /\ out' = out \o e.events
        /\ ~Entangled(EventsOf(Below(1)), e.events)
    BY <1>1, <1>9 DEF Say
  <2>2. EventsOf(Popped(1)) \o new = e.events
    <3>1. e.events \in Seq(EventType)
      BY <1>6, <1>7
    <3> QED
      BY <1>7, <3>1, ConcatEmptySeq
  <2>3. /\ EventsOf(stack') = EventsOf(Below(n))
        /\ out' = out \o (EventsOf(Popped(n)) \o new)
        /\ ~Entangled(EventsOf(Below(n)), EventsOf(Popped(n)) \o new)
    BY <2>1, <2>2
  <2> HIDE DEF n, k, v, new
  <2>4. Adds(Append(did, v), v, Method, new)
    BY <1>3, <1>6
  <2> QED
    BY <1>3, <1>4, <1>5, <1>8, <2>3, <2>4, AgreesMoved
<1>10. CASE ~IsStatement(e)
  <2>1. stack' = Below(1) /\ out' = out \o <<>>
    BY <1>1, <1>10 DEF Say
  <2>2. out' = out
    BY <1>6, <2>1, ConcatEmptySeq
  <2>3. e.events \in Seq(ReadType)
    <3>1. 1 \in DOMAIN Popped(1)
      BY ArgsParts
    <3>2. Harmless(e)
      BY <3>1, PoppedHarmless
    <3>3. e.form = "name"
      BY <1>10 DEF IsStatement
    <3> QED
      BY <3>2, <3>3 DEF Harmless
  <2>4. ~HasEffect(EventsOf(Popped(n)))
    BY <1>7, <2>3, ReadsDoNothing
  <2>5. stack' = Below(n)
    BY <2>1
  <2> HIDE DEF n, k, v, new
  <2> QED
    BY <1>3, <1>4, <1>5, <1>8, <2>2, <2>4, <2>5, AgreesDropped
<1> QED
  BY <1>9, <1>10

(* A pop2 keeps the text in agreement with the run. *)
LEMMA Discard2Comp ==
  ASSUME TypeInv, StackInv, ExprsOK, CompOK, Discard2
  PROVE  CompOK'
<1> SUFFICES ASSUME ~disturbed', ~copied', ~dropped' PROVE Agrees(did', Method')
  BY CompStep
<1> DEFINE in == <<>>
           v  == Event("pure", Step, in)
<1> PICK n \in {1, 2} :
      /\ 2 \in Ends(n)
      /\ Executes("pure", Step, in)
      /\ stack' = Below(2)
      /\ disturbed' = (disturbed \/ n = 1)
      /\ dropped' = (dropped \/ HasEffect(EventsOf(Popped(2))))
      /\ UNCHANGED <<out, copied>>
  BY DEF Discard2
<1>1. in \in Seq(Int)
  BY EmptySeq
<1>2. /\ v \in EventType /\ v.what \notin {"effect", "set"} /\ did' = Append(did, v) /\ ~ended
  <2> HIDE DEF in
  <2> QED
    BY <1>1, PureStep
<1>3. n # 1 /\ ~disturbed
  OBVIOUS
<1>4. ~copied /\ ~dropped /\ ~HasEffect(EventsOf(Popped(2)))
  OBVIOUS
<1>5. n = 2
  BY <1>3
<1>6. Agrees(did, Method)
  BY <1>3, <1>4 DEF CompOK
<1> DEFINE k == 2
<1>7. n \in Nat /\ k \in Ends(n) /\ stack' = Below(n) /\ ~HasEffect(EventsOf(Popped(n))) /\ out' = out
  BY <1>4, <1>5
<1> HIDE DEF k, v
<1> QED
  BY <1>2, <1>3, <1>6, <1>7, AgreesDropped

(* An instruction the decompiler skips keeps the text in agreement with the
   run. *)
LEMMA UnhandledComp ==
  ASSUME NEW n \in Nat, NEW result \in BOOLEAN, Unhandled(n, result)
  PROVE  CompOK'
<1>1. disturbed' = TRUE
  BY DEF Unhandled
<1> QED
  BY <1>1, CompStep

(* A constructor call keeps the text in agreement with the run. *)
LEMMA ConstructComp ==
  ASSUME TypeInv, StackInv, ExprsOK, CompOK, NEW n \in Nat, Construct(n)
  PROVE  CompOK'
<1> SUFFICES ASSUME ~disturbed', ~copied', ~dropped' PROVE Agrees(did', Method')
  BY CompStep
<1> DEFINE dup(k) == Expr("new", Operands(k)[1], <<>>)
           kept == Kept(n, Made(n))
           args == Popped(n + 1)
<1> PICK k \in Ends(n + 1) :
      /\ ~ended /\ ~disturbed
      /\ args[1] = dup(k) /\ dup(k) \in ExprType
      /\ kept \in Seq(ExprType) /\ Below(n + 1) = Append(kept, dup(k))
      /\ stack' = Append(kept, Made(n))
      /\ Executes("effect", Step, Operands(k))
      /\ UNCHANGED out
      /\ dropped' = (dropped \/ HasEffect(args[1].events))
      /\ (copied => copied')
  BY ConstructInPlace
<1> DEFINE in  == Operands(k)
           v   == Event("effect", Step, in)
           e   == Event("effect", Step, Values(args))
           new == <<v>>
           t   == EventsOf(Tail(args))
           d   == dup(k)
           m   == n + 1
<1>1. m \in Nat
  OBVIOUS
<1>2. in \in Seq(Int) /\ Step \in Int /\ did \in Seq(EventType)
  <2>1. in \in Seq(Int)
    BY EndsParts
  <2> QED
    BY <2>1 DEF TypeInv, Step
<1>3. v \in EventType /\ v.what = "effect" /\ did' = Append(did, v)
  BY <1>2, Recorded
<1>4. ~dropped /\ ~copied
  OBVIOUS
<1>5. Agrees(did, Method)
  BY <1>4 DEF CompOK
<1>6. Values(Popped(m)) = in /\ k \in Ends(m)
  <2>1. k \in Ends(m)
    OBVIOUS
  <2> HIDE DEF m
  <2> QED
    BY <1>1, <2>1, Aligned
<1>7. e = v
  BY <1>6
<1>8. /\ Made(n) \in ExprType
      /\ EventsOf(args) = args[1].events \o t /\ t \in Seq(EventType)
      /\ Made(n).events = t \o <<e>>
  BY MadeParts
<1>9. d.events = <<>> /\ d \in ExprType /\ kept \in Seq(ExprType)
  BY DEF Expr
<1>10. args[1].events = <<>> /\ EventsOf(args) = t
  <2>1. args[1].events = <<>>
    BY <1>9
  <2>2. <<>> \o t = t
    BY <1>8, ConcatEmptySeq
  <2> QED
    BY <1>8, <2>1, <2>2
<1>11. Made(n).events = EventsOf(Popped(m)) \o new
  BY <1>7, <1>8, <1>10
<1>12. EventsOf(Below(m)) = EventsOf(kept)
  <2>1. Below(m) = Append(kept, d)
    OBVIOUS
  <2> HIDE DEF kept, d, m
  <2>2. EventsOf(Append(kept, d)) = EventsOf(kept) \o d.events
    BY <1>9, EventsOfAppend
  <2>3. EventsOf(kept) \in Seq(EventType)
    BY <1>9, EventsOfParts
  <2>4. EventsOf(kept) \o <<>> = EventsOf(kept)
    BY <2>3, ConcatEmptySeq
  <2> QED
    BY <1>9, <2>1, <2>2, <2>4
<1>13. EventsOf(stack') = EventsOf(kept) \o Made(n).events
  <2>1. stack' = Append(kept, Made(n))
    OBVIOUS
  <2> HIDE DEF kept
  <2>2. EventsOf(Append(kept, Made(n))) = EventsOf(kept) \o Made(n).events
    BY <1>8, <1>9, EventsOfAppend
  <2> QED
    BY <2>1, <2>2
<1>14. Method \in Seq(EventType) /\ new \in Seq(EventType) /\ ~ended /\ ~disturbed /\ out' = out
  BY <1>3, MethodType
<1>15. EventsOf(stack') = EventsOf(Below(m)) \o (EventsOf(Popped(m)) \o new)
  BY <1>11, <1>12, <1>13
<1> HIDE DEF v
<1>16. Adds(Append(did, v), v, Method, new)
  BY <1>2, <1>3, <1>5, <1>14, AddsItself
<1> HIDE DEF new, m
<1> QED
  BY <1>1, <1>3, <1>5, <1>6, <1>14, <1>15, <1>16, AgreesMoved

(* A dup or swap that disturbs nothing puts the moved expressions where the
   moved words go. *)
LEMMA ShuffleInPlace ==
  ASSUME TypeInv, StackInv, NEW s \in Shuffles, Shuffle(s), ~disturbed'
  PROVE  /\ ~ended /\ ~disturbed /\ s.take \in Ends(s.take)
         /\ stack' = Below(s.take) \o Moved(s)
<1> DEFINE n    == s.take
           tops == Tops(n)
           low  == SubSeq(words, 1, Len(words) - n)
<1>1. /\ Running
      /\ stack' = (IF Len(stack) >= n THEN Below(n) \o Moved(s) ELSE stack)
      /\ ~disturbed /\ \A i \in DOMAIN tops : tops[i].half = 0
  BY DEF Shuffle, Moved, Tops
<1>2. n \in 0 .. Len(words) /\ n \in Nat
  BY ShuffleTyped, ShufflesParts
<1>3. words \in Seq(WordType) /\ stack \in Seq(ExprType)
  BY DEF TypeInv
<1>4. /\ tops \in Seq(WordType) /\ Len(tops) = n
      /\ \A i \in 1 .. n : tops[i] = words[Len(words) - n + i]
      /\ Operands(n) = WordValues(tops)
  BY <1>2, <1>3, WordsSplit DEF Tops
<1> HIDE DEF n, tops
<1>5. \A i \in DOMAIN tops : tops[i].half # 2
  BY <1>1
<1>6. Len(Operands(n)) = n
  BY <1>4, <1>5, WholeWords
<1>7. n > 0 => words[Len(words) - n + 1].half # 2
  <2>1. n > 0 => 1 \in 1 .. n /\ DOMAIN tops = 1 .. n
    BY <1>2, <1>4
  <2> QED
    BY <1>4, <1>5, <2>1
<1>8. n \in Ends(n)
  BY <1>1, <1>2, <1>6, <1>7 DEF Ends
<1>9. ~ended
  BY <1>1 DEF Running
<1>10. n <= Len(stack)
  BY <1>1, <1>2, <1>8, <1>9, Aligned
<1>11. stack' = Below(n) \o Moved(s)
  BY <1>1, <1>2, <1>3, <1>10
<1> QED
  BY <1>1, <1>8, <1>9, <1>11 DEF n

(* A dup or swap keeps the text in agreement with the run. *)
LEMMA ShuffleComp ==
  ASSUME TypeInv, StackInv, ExprsOK, CompOK, NEW s \in Shuffles, Shuffle(s)
  PROVE  CompOK'
<1> SUFFICES ASSUME ~disturbed', ~copied', ~dropped' PROVE Agrees(did', Method')
  BY CompStep
<1> DEFINE n   == s.take
           top == Popped(n)
           mv  == Moved(s)
           b   == Below(n)
           in  == <<>>
           v   == Event("pure", Step, in)
           Given(i) == {m \in DOMAIN s.give : s.give[m] = i}
<1>1. /\ Executes("pure", Step, in)
      /\ copied' = (copied \/ \E i \in DOMAIN top : HasEffect(top[i].events) /\ Cardinality(Given(i)) > 1)
      /\ \A i, j \in DOMAIN top : i # j => ~Entangled(top[i].events, top[j].events)
      /\ UNCHANGED <<out, dropped>>
  BY DEF Shuffle
<1>2. ~ended /\ ~disturbed /\ n \in Ends(n) /\ stack' = b \o mv
  BY ShuffleInPlace
<1>3. mv \in Seq(ExprType) /\ DOMAIN mv = DOMAIN s.give
  BY ShuffleTyped
<1>4. /\ n \in Nat /\ s.give \in Seq(1 .. n) /\ \A m \in DOMAIN s.give : s.give[m] \in 1 .. n
      /\ \A i \in 1 .. n : \E m \in DOMAIN s.give : s.give[m] = i
  BY ShufflesParts
<1>5. b \in Seq(ExprType) /\ top \in Seq(ExprType) /\ Len(top) = n
  BY <1>4, ArgsParts
<1>6. DOMAIN top = 1 .. n /\ \A m \in DOMAIN mv : mv[m] = top[s.give[m]]
  BY <1>3, <1>5 DEF Moved
<1>7. ~copied /\ ~dropped
  BY <1>1
<1>8. Agrees(did, Method)
  BY <1>2, <1>7 DEF CompOK
<1>9. \A i \in 1 .. n, m, l \in DOMAIN s.give :
        HasEffect(top[i].events) /\ s.give[m] = i /\ s.give[l] = i => m = l
  <2> SUFFICES ASSUME NEW i \in 1 .. n, NEW m \in DOMAIN s.give, NEW l \in DOMAIN s.give,
                      HasEffect(top[i].events), s.give[m] = i, s.give[l] = i, m # l
               PROVE  FALSE
    OBVIOUS
  <2>1. m \in Given(i) /\ l \in Given(i) /\ Given(i) \subseteq DOMAIN s.give
    OBVIOUS
  <2>2. Cardinality(Given(i)) > 1
    <3> HIDE DEF Given
    <3>1. IsFiniteSet(Given(i))
      BY <1>4, <2>1, SomeIndices
    <3> QED
      BY <2>1, <3>1, TwoElements
  <2> QED
    BY <1>1, <1>6, <2>2
<1>10. in \in Seq(Int)
  BY EmptySeq
<1>11. v \in EventType /\ v.what \notin {"effect", "set"} /\ did' = Append(did, v) /\ did \in Seq(EventType)
  <2> HIDE DEF in
  <2> QED
    BY <1>1, <1>10, PureStep
<1>12. /\ Method = out \o (EventsOf(b) \o EventsOf(top)) /\ out \in Seq(EventType)
       /\ EventsOf(b) \in Seq(EventType) /\ EventsOf(top) \in Seq(EventType)
  BY <1>2, <1>4, MethodIs
<1>13. \A i \in DOMAIN top : top[i].events \in Seq(QuietType)
  BY <1>4, PoppedHarmless DEF Harmless
<1>14. Method' = out \o (EventsOf(b) \o EventsOf(mv))
  <2>1. EventsOf(stack') = EventsOf(b) \o EventsOf(mv)
    BY <1>2, <1>3, <1>5, EventsOfParts
  <2>2. Method' = out' \o EventsOf(stack')
    BY DEF Method, EventsOf
  <2> QED
    BY <1>1, <2>1, <2>2
<1> HIDE DEF n, top, mv, b, v, Given
<1>15. \A j \in DOMAIN mv : s.give[j] \in DOMAIN top /\ mv[j] = top[s.give[j]]
  BY <1>3, <1>4, <1>6
<1>16. \A i, j \in DOMAIN top : HasEffect(top[i].events) /\ (HasEffect(top[j].events) \/ UsesHeap(top[j].events)) => i = j
  <2> SUFFICES ASSUME NEW i \in DOMAIN top, NEW j \in DOMAIN top, i # j, HasEffect(top[i].events)
               PROVE  ~HasEffect(top[j].events) /\ ~UsesHeap(top[j].events)
    OBVIOUS
  <2> DEFINE x == top[i].events
             y == top[j].events
  <2>1. ~Entangled(x, y) /\ HasEffect(x)
    BY <1>1
  <2> HIDE DEF x, y
  <2>2. ~HasEffect(y) /\ ~UsesHeap(y)
    BY <2>1, NotEntangled
  <2> QED
    BY <2>2 DEF x, y
<1>17. \A i, j \in DOMAIN mv : HasEffect(mv[i].events) /\ (HasEffect(mv[j].events) \/ UsesHeap(mv[j].events)) => i = j
  <2> SUFFICES ASSUME NEW i \in DOMAIN mv, NEW j \in DOMAIN mv, HasEffect(mv[i].events),
                      HasEffect(mv[j].events) \/ UsesHeap(mv[j].events)
               PROVE  i = j
    OBVIOUS
  <2>1. s.give[i] = s.give[j]
    BY <1>15, <1>16
  <2>2. s.give[i] \in 1 .. n /\ HasEffect(top[s.give[i]].events) /\ i \in DOMAIN s.give /\ j \in DOMAIN s.give
    BY <1>3, <1>6, <1>15
  <2> QED
    BY <1>9, <2>1, <2>2
<1>18. Loose(top)
  BY <1>13, <1>16 DEF Loose
<1>19. Loose(mv)
  <2>1. \A j \in DOMAIN mv : mv[j].events \in Seq(QuietType)
    BY <1>13, <1>15
  <2> QED
    BY <1>17, <2>1 DEF Loose
<1>20. Effects(EventsOf(mv)) = Effects(EventsOf(top))
  <2>1. CASE \E i \in DOMAIN top : HasEffect(top[i].events)
    <3> PICK i \in DOMAIN top : HasEffect(top[i].events)
      BY <2>1
    <3> DEFINE t == top[i].events
    <3>1. t \in Seq(EventType)
      <4>1. top[i] \in ExprType
        BY <1>5
      <4> QED
        BY <4>1 DEF ExprType
    <3>2. /\ \A j \in DOMAIN top : HasEffect(top[j].events) => top[j].events = t
          /\ \A j, k \in DOMAIN top : HasEffect(top[j].events) /\ HasEffect(top[k].events) => j = k
      BY <1>16
    <3>3. /\ \A j \in DOMAIN mv : HasEffect(mv[j].events) => mv[j].events = t
          /\ \A j, k \in DOMAIN mv : HasEffect(mv[j].events) /\ HasEffect(mv[k].events) => j = k
      BY <1>15, <1>17, <3>2
    <3>4. \E j \in DOMAIN mv : HasEffect(mv[j].events)
      <4>1. PICK m \in DOMAIN s.give : s.give[m] = i
        BY <1>4, <1>6
      <4>2. m \in DOMAIN mv /\ mv[m] = top[i]
        BY <1>3, <1>6, <4>1
      <4> QED
        BY <4>2
    <3> HIDE DEF t
    <3>5. Effects(EventsOf(top)) = Effects(t)
      BY <1>5, <2>1, <3>1, <3>2, EffectsOfOne
    <3>6. Effects(EventsOf(mv)) = Effects(t)
      BY <1>3, <3>1, <3>3, <3>4, EffectsOfOne
    <3> QED
      BY <3>5, <3>6
  <2>2. CASE ~ \E i \in DOMAIN top : HasEffect(top[i].events)
    <3> DEFINE t == <<>>
    <3>1. t \in Seq(EventType)
      BY EmptySeq
    <3>2. \A j \in DOMAIN top : ~HasEffect(top[j].events)
      BY <2>2
    <3>3. \A j \in DOMAIN mv : ~HasEffect(mv[j].events)
      BY <1>15, <3>2
    <3> HIDE DEF t
    <3>4. Effects(EventsOf(top)) = <<>>
      BY <1>5, <3>1, <3>2, EffectsOfOne
    <3>5. Effects(EventsOf(mv)) = <<>>
      BY <1>3, <3>1, <3>3, EffectsOfOne
    <3> QED
      BY <3>4, <3>5
  <2> QED
    BY <2>1, <2>2
<1> DEFINE c == out \o EventsOf(b)
<1>21. c \in Seq(EventType)
  BY <1>12, ConcatProperties
<1>22. Method = c \o EventsOf(top)
  <2> DEFINE q == EventsOf(b)
             p == EventsOf(top)
  <2>1. q \in Seq(EventType) /\ p \in Seq(EventType) /\ out \in Seq(EventType)
    BY <1>12
  <2> HIDE DEF q, p
  <2>2. out \o (q \o p) = (out \o q) \o p
    BY <2>1, Associative
  <2> QED
    BY <1>12, <2>2 DEF q, p
<1>23. Method' = c \o EventsOf(mv)
  <2> DEFINE q == EventsOf(b)
             p == EventsOf(mv)
  <2>1. q \in Seq(EventType) /\ p \in Seq(EventType) /\ out \in Seq(EventType)
    BY <1>3, <1>12, EventsOfParts
  <2> HIDE DEF q, p
  <2>2. out \o (q \o p) = (out \o q) \o p
    BY <2>1, Associative
  <2> QED
    BY <1>14, <2>2 DEF q, p
<1> HIDE DEF c
<1>24. \A j \in DOMAIN mv : \E i \in DOMAIN top : mv[j] = top[i]
  BY <1>15
<1> DEFINE d == did
<1>25. Agrees(d, c \o EventsOf(top)) /\ d \in Seq(EventType)
  BY <1>8, <1>11, <1>22
<1> HIDE DEF d
<1>26. Agrees(Append(d, v), c \o EventsOf(mv))
  BY <1>3, <1>5, <1>11, <1>18, <1>19, <1>20, <1>21, <1>24, <1>25, AgreesInAnyOrder
<1> QED
  BY <1>11, <1>23, <1>26 DEF d

-----------------------------------------------------------------------------
(* The local variables, action by action. *)

(* An operation on popped words leaves every local what the run made it. *)
LEMMA OperandsKeep ==
  ASSUME TypeInv, LocalsSet, NEW what \in {"pure", "heap", "effect"}, NEW n, NEW k \in Ends(n),
         Executes(what, Step, Operands(k)), UNCHANGED locals
  PROVE  LocalsSet'
<1>1. Operands(k) \in Seq(Int)
  BY EndsParts
<1>2. Step \in Int /\ what \in {"pure", "read", "heap", "effect"}
  BY DEF TypeInv, Step
<1> QED
  BY <1>1, <1>2, LocalsSetKept

(* A constant leaves every local what the run made it. *)
LEMMA PureKeep ==
  ASSUME TypeInv, LocalsSet, Executes("pure", Step, <<>>), UNCHANGED locals
  PROVE  LocalsSet'
<1>1. Step \in Int /\ <<>> \in Seq(Int)
  BY EmptySeq DEF TypeInv, Step
<1> QED
  BY <1>1, LocalsSetKept

(* Every step leaves the locals what the run made them. *)
LEMMA LocalsSetStep ==
  ASSUME TypeInv, LocalsSet, Next
  PROVE  LocalsSet'
<1>1. ASSUME Constant \/ New \/ Discard \/ Discard2 \/ (\E s \in Shuffles : Shuffle(s))
      PROVE  LocalsSet'
  <2>1. Executes("pure", Step, <<>>) /\ UNCHANGED locals
    BY <1>1, Zenon DEF Constant, New, Discard, Discard2, Shuffle
  <2> QED
    BY <2>1, PureKeep
<1>2. ASSUME NEW n, NEW what \in {"pure", "heap", "effect"},
             \E k \in Ends(n) : Executes(what, Step, Operands(k)) /\ UNCHANGED locals
      PROVE  LocalsSet'
  BY <1>2, OperandsKeep
<1>3. ASSUME NEW n, NEW what \in {"pure", "heap"}, Operate(n, what) PROVE LocalsSet'
  <2>1. \E k \in Ends(n) : Executes(what, Step, Operands(k)) /\ UNCHANGED locals
    BY <1>3 DEF Operate
  <2> QED
    BY <1>2, <2>1
<1>4. ASSUME NEW n, Put(n) PROVE LocalsSet'
  <2>1. \E k \in Ends(n) : Executes("effect", Step, Operands(k)) /\ UNCHANGED locals
    BY <1>4 DEF Put
  <2> QED
    BY <1>2, <2>1
<1>5. ASSUME NEW n, NEW void, Invoke(n, void) PROVE LocalsSet'
  <2>1. \E k \in Ends(n) : Executes("effect", Step, Operands(k)) /\ UNCHANGED locals
    BY <1>5 DEF Invoke
  <2> QED
    BY <1>2, <2>1
<1>6. ASSUME NEW n, Construct(n) PROVE LocalsSet'
  <2>1. \E k \in Ends(n + 1) : Executes("effect", Step, Operands(k)) /\ UNCHANGED locals
    BY <1>6 DEF Construct
  <2> QED
    BY <1>2, <2>1
<1>7. ASSUME NEW n, Concat(n) PROVE LocalsSet'
  <2>1. \E k \in Ends(n) : Executes("pure", Step, Operands(k)) /\ UNCHANGED locals
    BY <1>7 DEF Concat
  <2> QED
    BY <1>2, <2>1
<1>8. ASSUME NEW n, Lambda(n) PROVE LocalsSet'
  <2>1. \E k \in Ends(n) : Executes("pure", Step, Operands(k)) /\ UNCHANGED locals
    BY <1>8 DEF Lambda
  <2> QED
    BY <1>2, <2>1
<1>9. ASSUME NEW n, NEW result \in BOOLEAN, Unhandled(n, result) PROVE LocalsSet'
  <2>1. \E k \in Ends(n) : /\ Executes(IF result THEN "pure" ELSE "effect", Step, Operands(k))
                           /\ UNCHANGED locals
    BY <1>9 DEF Unhandled
  <2> DEFINE what == IF result THEN "pure" ELSE "effect"
  <2>2. what \in {"pure", "heap", "effect"}
    OBVIOUS
  <2>3. \E k \in Ends(n) : Executes(what, Step, Operands(k)) /\ UNCHANGED locals
    BY <2>1
  <2> HIDE DEF what
  <2> QED
    BY <1>2, <2>2, <2>3
<1>10. ASSUME NEW n, Return(n) PROVE LocalsSet'
  <2>1. \E k \in Ends(n) : Executes("pure", Step, Operands(k)) /\ UNCHANGED locals
    BY <1>10 DEF Return
  <2> QED
    BY <1>2, <2>1
<1>11. ASSUME NEW x \in Locals, Load(x) PROVE LocalsSet'
  <2> DEFINE in == <<locals[x]>>
  <2>1. Executes("read", x, in) /\ UNCHANGED locals
    BY <1>11 DEF Load
  <2>2. x \in Int /\ in \in Seq(Int) /\ "read" \in {"pure", "read", "heap", "effect"}
    BY StackAssumption DEF TypeInv
  <2> HIDE DEF in
  <2> QED
    BY <2>1, <2>2, LocalsSetKept
<1>12. ASSUME NEW x \in Locals, Store(x) PROVE LocalsSet'
  <2>1. PICK k \in Ends(1) : /\ Executes("set", x, Operands(k))
                             /\ locals' = [locals EXCEPT ![x] = Operands(k)[1]]
    BY <1>12 DEF Store
  <2>2. x \in Int
    BY StackAssumption
  <2>3. Operands(k) \in Seq(Int)
    BY EndsParts
  <2> QED
    BY <2>1, <2>2, <2>3, LocalsSetSet
<1>13. ASSUME NEW x \in Locals, Increment(x) PROVE LocalsSet'
  <2> DEFINE in == <<Step>>
  <2>1. /\ Executes("set", x, in)
        /\ locals' = [locals EXCEPT ![x] = Step]
    BY <1>13 DEF Increment
  <2>2. x \in Int /\ in \in Seq(Int) /\ in[1] = Step
    BY StackAssumption DEF TypeInv, Step
  <2>3. locals' = [locals EXCEPT ![x] = in[1]]
    BY <2>1, <2>2
  <2> HIDE DEF in
  <2> QED
    BY <2>1, <2>2, <2>3, LocalsSetSet
<1> QED
  BY <1>1, <1>3, <1>4, <1>5, <1>6, <1>7, <1>8, <1>9, <1>10, <1>11, <1>12, <1>13, Zenon DEF Next

(* In every state a local is what the last setting of it in the run made it. *)
LEMMA LocalsSetHolds == Spec => []LocalsSet
<1>1. Init => LocalsSet
  <2> SUFFICES ASSUME Init, NEW x \in Locals PROVE locals[x] = ValueAfter(did, x)
    BY DEF LocalsSet
  <2>1. locals[x] = Argument(x) /\ did = <<>>
    BY DEF Init
  <2>2. Sets(<<>>, x) = <<>>
    BY SetsParts
  <2> QED
    BY <2>1, <2>2 DEF ValueAfter
<1>2. TypeInv /\ LocalsSet /\ [Next]_vars => LocalsSet'
  <2> SUFFICES ASSUME TypeInv, LocalsSet, [Next]_vars PROVE LocalsSet'
    OBVIOUS
  <2>1. CASE Next
    BY <2>1, LocalsSetStep
  <2>2. CASE UNCHANGED vars
    <3>1. locals' = locals /\ did' = did
      BY <2>2 DEF vars
    <3> QED
      BY <3>1 DEF LocalsSet, ValueAfter, Sets, IsSet
  <2> QED
    BY <2>1, <2>2
<1> QED
  BY <1>1, <1>2, TypeInvHolds, PTL DEF Spec

(* In every state of a run that nothing disturbed, copied or dropped, run and
   text agree. *)
LEMMA CompOKHolds == Spec => []CompOK
<1>1. Init => CompOK
  <2> SUFFICES ASSUME Init PROVE CompOK
    OBVIOUS
  <2>1. EventsOf(<<>>) = <<>>
    BY EventsOfParts
  <2>2. <<>> \in Seq(EventType) /\ <<>> \o <<>> = <<>> /\ DOMAIN <<>> = {}
    <3>1. <<>> \in Seq(EventType) /\ DOMAIN <<>> = {}
      BY EmptySeq
    <3> QED
      BY <3>1, ConcatEmptySeq
  <2>3. Method = <<>> /\ did = <<>>
    BY <2>1, <2>2 DEF Init, Method
  <2>4. Right(did, <<>>, <<>>)
    BY <2>2 DEF Right
  <2>5. Agrees(did, Method)
    BY <2>3, <2>4 DEF Agrees
  <2> QED
    BY <2>5 DEF CompOK
<1>2. TypeInv /\ StackInv /\ ExprsOK /\ LocalsSet /\ CompOK /\ [Next]_vars => CompOK'
  <2> SUFFICES ASSUME TypeInv, StackInv, ExprsOK, LocalsSet, CompOK, [Next]_vars PROVE CompOK'
    OBVIOUS
  <2>1. 0 .. MaxArgs \subseteq Nat /\ 1 .. MaxArgs \subseteq Nat /\ 0 .. 2 \subseteq Nat
        /\ 0 .. 3 \subseteq Nat /\ 1 .. 3 \subseteq Nat /\ {0, 1} \subseteq Nat
    BY StackAssumption
  <2>2. CASE UNCHANGED vars
    <3>1. EventsOf(stack') = EventsOf(stack) /\ out' = out /\ did' = did
          /\ disturbed' = disturbed /\ dropped' = dropped /\ copied' = copied
      BY <2>2 DEF vars
    <3>2. Method' = Method
      BY <3>1 DEF Method, EventsOf
    <3>3. ~disturbed' /\ ~copied' /\ ~dropped' => Agrees(did', Method')
      BY <3>1, <3>2 DEF CompOK
    <3> QED
      BY <3>3, CompStep
  <2>3. CASE Next
    BY <2>1, <2>3, ConstantComp, LoadComp, StoreComp, IncrementComp, OperateComp,
       PutComp, InvokeComp, NewComp, ConstructComp, ShuffleComp, DiscardComp,
       Discard2Comp, ConcatComp, LambdaComp, UnhandledComp, ReturnComp, Zenon DEF Next
  <2> QED
    BY <2>2, <2>3
<1> QED
  BY <1>1, <1>2, TypeInvHolds, StackInvHolds, ExprsOKHolds, LocalsSetHolds, PTL DEF Spec

(***************************************************************************)
(* SameComputation: as long as no statement has overtaken an expression    *)
(* that it may not overtake, no expression with an effect was duplicated   *)
(* and none thrown away, the printed method does what the bytecode has     *)
(* done: the effects in order, every operation on the values it was run    *)
(* on, every variable and field read when it has the value it had then.    *)
(***************************************************************************)
THEOREM ComputationIsSame == Spec => []SameComputation
<1>1. TypeInv /\ CompOK => SameComputation
  <2> SUFFICES ASSUME TypeInv, CompOK, ~disturbed, ~copied, ~dropped
               PROVE  /\ Effects(Method) = Effects(did)
                      /\ \A x \in Locals : Sets(Method, x) = Sets(did, x)
                      /\ \A i \in DOMAIN Method :
                           LET e == Method[i]
                           IN  /\ e.what = "read" => ValueAfter(Before(Method, i), e.at) = e.in[1]
                               /\ e.what \in {"pure", "heap"} => e.in = did[e.at].in
                               /\ e.what = "heap" =>
                                    Len(Effects(Before(Method, i))) = Len(Effects(Before(did, e.at)))
    BY DEF SameComputation
  <2>1. Agrees(did, Method)
    BY DEF CompOK
  <2>2. Method \in Seq(EventType)
    BY MethodType
  <2>3. ASSUME NEW i \in DOMAIN Method
        PROVE  EventOK(did, Before(Method, i), Method[i])
    <3>1. EventOK(did, <<>> \o Before(Method, i), Method[i])
      BY <2>1 DEF Agrees, Right
    <3> DEFINE b == Before(Method, i)
    <3>2. b \in Seq(EventType)
      BY <2>2, BeforeParts
    <3> HIDE DEF b
    <3>3. <<>> \o b = b
      BY <3>2, ConcatEmptySeq
    <3> QED
      BY <3>1, <3>3 DEF b
  <2> QED
    BY <2>1, <2>3 DEF Agrees, EventOK
<1> QED
  BY <1>1, TypeInvHolds, CompOKHolds, PTL
====
