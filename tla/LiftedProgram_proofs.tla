------------------------ MODULE LiftedProgram_proofs ------------------------
(***************************************************************************)
(* What the ARM64 lifter knows of any function before a single statement   *)
(* is written: its basic blocks partition the code, its edges lead to      *)
(* blocks, and the searches over them answer exactly what they are asked.  *)
(*                                                                         *)
(* The searches are loops, written as recursive functions.  LoopExists     *)
(* says that a function like that exists when a natural number gets less   *)
(* with every round, LoopRule that what every round keeps holds where the  *)
(* loop ends.  The invariants are the usual ones of a breadth first        *)
(* search: nothing is in the queue that one cannot get to, and what a      *)
(* block already seen leads to has been seen or waits in the queue.        *)
(***************************************************************************)
EXTENDS LiftedProgram, TLAPS, SequenceTheorems, FiniteSetTheorems, WellFoundedInduction

-----------------------------------------------------------------------------
(* Loops. *)

(* A non-empty set of naturals has a least element. *)
LEMMA LeastElement ==
  ASSUME NEW S, S \subseteq Nat, S # {}
  PROVE  \E e \in S : \A x \in S : e <= x
<1>1. \E e \in S : \A x \in S : ~ (<<x, e>> \in OpToRel(<, Nat))
  BY NatLessThanWellFounded, WFMin
<1>2. PICK e \in S : \A x \in S : ~ (<<x, e>> \in OpToRel(<, Nat))
  BY <1>1
<1>3. ASSUME NEW x \in S, x < e
      PROVE  <<x, e>> \in OpToRel(<, Nat)
  <2>1. <<x, e>> \in Nat \X Nat /\ <<x, e>>[1] = x /\ <<x, e>>[2] = e
    OBVIOUS
  <2> QED
    BY <1>3, <2>1, Zenon DEF OpToRel
<1>4. \A x \in S : ~ (x < e)
  BY <1>2, <1>3, Zenon
<1> QED
  BY <1>4

(* A set with 0 and with each number the next one has them all. *)
LEMMA EveryNumber ==
  ASSUME NEW T, 0 \in T, \A n \in Nat : n \in T => n + 1 \in T
  PROVE  Nat \subseteq T
<1> DEFINE Out == Nat \ T
<1>1. SUFFICES ASSUME Out # {} PROVE FALSE
  OBVIOUS
<1>2. PICK n \in Out : \A m \in Out : n <= m
  <2>1. Out \subseteq Nat
    OBVIOUS
  <2> HIDE DEF Out
  <2> QED
    BY <1>1, <2>1, LeastElement
<1>3. n \in Nat /\ n # 0 /\ n - 1 \in Nat /\ n - 1 \notin Out
  BY <1>2
<1>4. n - 1 \in T
  BY <1>3
<1>5. (n - 1) + 1 \in T
  BY <1>3, <1>4
<1> QED
  BY <1>2, <1>3, <1>5

(***************************************************************************)
(* A loop over the states D: it ends in E with what base says, and goes    *)
(* from any other state to next.                                           *)
(***************************************************************************)
Loops(f, D, E, base, next) ==
  f = [k \in D |-> IF k \in E THEN base[k] ELSE f[next[k]]]

(* What every round keeps holds where the loop ends. *)
LEMMA LoopRule ==
  ASSUME NEW D, NEW E, NEW base, NEW next \in [D -> D], NEW rank \in [D -> Nat],
         NEW f, Loops(f, D, E, base, next),
         NEW I \in SUBSET D, \A k \in I \ E : next[k] \in I /\ rank[next[k]] < rank[k],
         NEW k \in I
  PROVE  \E e \in I \cap E : f[k] = base[e]
<1> DEFINE Good(j) == \E e \in I \cap E : f[j] = base[e]
           Bad == {rank[j] : j \in {i \in I : ~Good(i)}}
<1>1. \A j \in D : f[j] = IF j \in E THEN base[j] ELSE f[next[j]]
  BY Zenon DEF Loops
<1>2. SUFFICES ASSUME ~Good(k) PROVE FALSE
  OBVIOUS
<1> HIDE DEF Good
<1>3. Bad \subseteq Nat /\ Bad # {}
  BY <1>2
<1>4. PICK n \in Bad : \A m \in Bad : n <= m
  <2> HIDE DEF Bad
  <2> QED BY <1>3, LeastElement
<1>5. PICK j \in I : ~Good(j) /\ rank[j] = n
  BY <1>4
<1>6. j \notin E
  BY <1>1, <1>5 DEF Good
<1>7. next[j] \in I /\ rank[next[j]] < rank[j] /\ f[j] = f[next[j]]
  BY <1>1, <1>5, <1>6
<1>8. ~Good(next[j])
  BY <1>5, <1>7 DEF Good
<1>9. rank[next[j]] \in Bad
  BY <1>7, <1>8
<1> HIDE DEF Bad
<1> QED BY <1>3, <1>4, <1>5, <1>7, <1>9

(* There is such a loop when a number gets less with every round. *)
LEMMA LoopExists ==
  ASSUME NEW D, NEW E, NEW base, NEW next \in [D -> D], NEW rank \in [D -> Nat],
         \A k \in D \ E : rank[next[k]] < rank[k]
  PROVE  \E f : Loops(f, D, E, base, next)
<1> DEFINE Turn(f, k) == IF k \in E THEN base[k] ELSE f[next[k]]
           Upto(f, n) == \A k \in D : rank[k] < n => f[k] = Turn(f, k)
           T == {n \in Nat : \E f : Upto(f, n)}
           Same == {n \in Nat : \A f, h : Upto(f, n) /\ Upto(h, n) =>
                                   \A k \in D : rank[k] < n => f[k] = h[k]}
<1>1. 0 \in T
  OBVIOUS
<1>2. ASSUME NEW n \in Nat, n \in T PROVE n + 1 \in T
  <2>1. PICK f : Upto(f, n)
    BY <1>2
  <2> DEFINE h == [k \in D |-> Turn(f, k)]
  <2>2. ASSUME NEW k \in D, rank[k] < n + 1 PROVE h[k] = Turn(h, k)
    <3>1. CASE k \in E
      BY <3>1
    <3>2. CASE k \notin E
      <4>1. next[k] \in D /\ rank[next[k]] < n
        BY <2>2, <3>2
      <4>2. h[next[k]] = f[next[k]]
        BY <2>1, <4>1
      <4> QED BY <3>2, <4>2
    <3> QED BY <3>1, <3>2
  <2> HIDE DEF h, Turn
  <2>3. Upto(h, n + 1)
    BY <2>2
  <2> HIDE DEF Upto
  <2> QED BY <2>3
<1>3. 0 \in Same
  OBVIOUS
<1>4. ASSUME NEW n \in Nat, n \in Same PROVE n + 1 \in Same
  <2>1. SUFFICES ASSUME NEW f, NEW h, Upto(f, n + 1), Upto(h, n + 1), NEW k \in D, rank[k] < n + 1
                 PROVE  f[k] = h[k]
    OBVIOUS
  <2>2. Upto(f, n) /\ Upto(h, n)
    BY <2>1
  <2>3. \A j \in D : rank[j] < n => f[j] = h[j]
    BY <1>4, <2>2
  <2>4. CASE k \in E
    BY <2>1, <2>4
  <2>5. CASE k \notin E
    <3>1. next[k] \in D /\ rank[next[k]] < n
      BY <2>1, <2>5
    <3> QED BY <2>1, <2>3, <2>5, <3>1
  <2> QED BY <2>4, <2>5
<1> HIDE DEF T, Same
<1>5. Nat \subseteq T /\ Nat \subseteq Same
  BY <1>1, <1>2, <1>3, <1>4, EveryNumber
<1> DEFINE Part(n) == CHOOSE f : Upto(f, n)
           g == [k \in D |-> Part(rank[k] + 1)[k]]
<1>6. ASSUME NEW n \in Nat PROVE Upto(Part(n), n)
  <2>1. \E f : Upto(f, n)
    BY <1>5 DEF T
  <2> QED BY <2>1
<1>7. ASSUME NEW m \in Nat, NEW n \in Nat, m <= n, NEW k \in D, rank[k] < m
      PROVE  Part(m)[k] = Part(n)[k]
  <2>1. Upto(Part(n), m)
    <3>1. Upto(Part(n), n)
      BY <1>6
    <3>2. \A j \in D : rank[j] < m => rank[j] < n
      BY <1>7
    <3> HIDE DEF Part, Turn
    <3> QED BY <3>1, <3>2
  <2>2. Upto(Part(m), m)
    BY <1>6
  <2> HIDE DEF Part, Upto
  <2>3. \A f, h : Upto(f, m) /\ Upto(h, m) => \A j \in D : rank[j] < m => f[j] = h[j]
    BY <1>5 DEF Same
  <2> QED BY <1>7, <2>1, <2>2, <2>3
<1>8. ASSUME NEW k \in D PROVE g[k] = Turn(g, k)
  <2>1. rank[k] + 1 \in Nat /\ rank[k] < rank[k] + 1
    OBVIOUS
  <2>2. Part(rank[k] + 1)[k] = Turn(Part(rank[k] + 1), k)
    <3> HIDE DEF Part
    <3> QED BY <1>6, <2>1
  <2>3. k \notin E => next[k] \in D /\ rank[next[k]] + 1 \in Nat /\ rank[next[k]] < rank[next[k]] + 1
                       /\ rank[next[k]] + 1 <= rank[k] + 1
    OBVIOUS
  <2> HIDE DEF Part
  <2>4. k \notin E => Part(rank[next[k]] + 1)[next[k]] = Part(rank[k] + 1)[next[k]]
    BY <1>7, <2>1, <2>3
  <2> QED BY <2>2, <2>3, <2>4
<1>9. g = [k \in D |-> Turn(g, k)]
  <2> HIDE DEF Turn
  <2>1. g = [k \in D |-> g[k]]
    OBVIOUS
  <2> HIDE DEF g
  <2> QED BY <1>8, <2>1, Zenon
<1> HIDE DEF g
<1> QED BY <1>9, Zenon DEF Loops

-----------------------------------------------------------------------------
(* Blocks. *)

(* Every instruction has a leader at or before it, with none in between. *)
LEMMA LeaderBefore ==
  ASSUME NEW S, NEW p \in Seq(S), NEW i \in DOMAIN p
  PROVE  \E s \in Leaders(p) : i \in Members(p, s)
<1> DEFINE T == {n \in Nat : n + 1 \in DOMAIN p => \E s \in Leaders(p) : n + 1 \in Members(p, s)}
<1>1. DOMAIN p = 1 .. Len(p) /\ Len(p) \in Nat
  OBVIOUS
<1>2. Leaders(p) \subseteq DOMAIN p
  BY DEF Leaders
<1>3. 0 \in T
  <2>1. 1 \in DOMAIN p => 1 \in Leaders(p) /\ 1 \in Members(p, 1)
    BY DEF Leaders, Members
  <2> QED BY <2>1
<1>4. ASSUME NEW n \in Nat, n \in T PROVE n + 1 \in T
  <2>1. SUFFICES ASSUME n + 2 \in DOMAIN p PROVE \E s \in Leaders(p) : n + 2 \in Members(p, s)
    OBVIOUS
  <2>2. CASE n + 2 \in Leaders(p)
    <3>1. n + 2 \in Members(p, n + 2)
      BY <2>1 DEF Members
    <3> QED BY <2>2, <3>1
  <2>3. CASE n + 2 \notin Leaders(p)
    <3>1. n + 1 \in DOMAIN p
      BY <1>1, <2>1
    <3>2. PICK s \in Leaders(p) : n + 1 \in Members(p, s)
      BY <1>4, <3>1
    <3>3. s \in Nat /\ s <= n + 1 /\ \A j \in (s + 1) .. (n + 1) : j \notin Leaders(p)
      BY <1>1, <1>2, <3>2 DEF Members
    <3>4. \A j \in (s + 1) .. (n + 2) : j \notin Leaders(p)
      BY <2>3, <3>3
    <3>5. n + 2 \in Members(p, s)
      BY <2>1, <3>3, <3>4 DEF Members
    <3> QED BY <3>5
  <2> QED BY <2>2, <2>3
<1> HIDE DEF T
<1>5. Nat \subseteq T
  BY <1>3, <1>4, EveryNumber
<1>6. i - 1 \in Nat /\ (i - 1) + 1 = i
  BY <1>1
<1>7. i - 1 \in T
  BY <1>5, <1>6
<1> QED BY <1>6, <1>7 DEF T

(* And only one. *)
LEMMA OneLeader ==
  ASSUME NEW S, NEW p \in Seq(S), NEW i \in DOMAIN p,
         NEW s \in Leaders(p), NEW t \in Leaders(p), i \in Members(p, s), i \in Members(p, t)
  PROVE  s = t
<1>1. DOMAIN p = 1 .. Len(p) /\ Len(p) \in Nat
  OBVIOUS
<1>2. s \in Nat /\ t \in Nat /\ i \in Nat
  BY <1>1 DEF Leaders
<1>3. s <= i /\ \A j \in (s + 1) .. i : j # t
  BY DEF Members
<1>4. t <= i /\ \A j \in (t + 1) .. i : j # s
  BY DEF Members
<1> QED BY <1>2, <1>3, <1>4

(* The blocks buildCFG cuts partition the code, whatever it is: there is   *)
(* one block for each instruction, and control neither enters nor leaves   *)
(* one in the middle, except that it may end there at a "ret".             *)
THEOREM BlocksArePartition ==
  ASSUME NEW S, NEW p \in Seq(S)
  PROVE  Partitioned(p)
<1>1. DOMAIN p = 1 .. Len(p) /\ Len(p) \in Nat
  OBVIOUS
<1>2. ASSUME NEW i \in DOMAIN p
      PROVE  \E s \in Leaders(p) :
               /\ \A t \in Leaders(p) : i \in Members(p, t) <=> t = s
               /\ Follows(p, i) \subseteq
                    IF i + 1 \in Members(p, s) THEN {i + 1} ELSE Leaders(p)
  <2>1. PICK s \in Leaders(p) : i \in Members(p, s)
    BY LeaderBefore
  <2>2. \A t \in Leaders(p) : i \in Members(p, t) <=> t = s
    BY <2>1, OneLeader
  <2>3. ASSUME i + 1 \in Members(p, s), IsAnyBranch(p[i]) PROVE FALSE
    <3>1. s \in Nat /\ s <= i /\ i \in Nat
      BY <1>1, <2>1 DEF Members, Leaders
    <3>2. i + 1 \notin Leaders(p) /\ i + 1 \in DOMAIN p
      BY <2>3, <3>1 DEF Members
    <3>3. (i + 1) - 1 = i
      BY <3>1
    <3> QED BY <2>3, <3>2, <3>3 DEF Leaders
  <2>4. ASSUME i + 1 \in DOMAIN p, i + 1 \notin Members(p, s) PROVE i + 1 \in Leaders(p)
    <3>1. s \in Nat /\ s <= i /\ i \in Nat /\ \A j \in (s + 1) .. i : j \notin Leaders(p)
      BY <1>1, <2>1 DEF Members, Leaders
    <3>2. PICK j \in (s + 1) .. (i + 1) : j \in Leaders(p)
      BY <2>4, <3>1 DEF Members
    <3>3. j = i + 1
      BY <3>1, <3>2
    <3> QED BY <3>2, <3>3
  <2>5. ASSUME NEW j \in Follows(p, i)
        PROVE  j \in IF i + 1 \in Members(p, s) THEN {i + 1} ELSE Leaders(p)
    <3>1. j \in DOMAIN p
      BY DEF Follows
    <3>2. CASE HasTarget(p[i]) /\ j = BranchTarget(p[i])
      BY <2>3, <3>1, <3>2 DEF Leaders, HasTarget
    <3>3. CASE j = i + 1
      BY <2>4, <3>1, <3>3
    <3> QED BY <3>2, <3>3 DEF Follows
  <2> QED BY <2>2, <2>5
<1> QED BY <1>2 DEF Partitioned

(* A block goes from its leader to its last instruction. *)
LEMMA BlockIsRange ==
  ASSUME NEW S, NEW p \in Seq(S), NEW s \in Leaders(p)
  PROVE  /\ LastOf(p, s) \in DOMAIN p
         /\ Members(p, s) = s .. LastOf(p, s)
         /\ LastOf(p, s) + 1 \in DOMAIN p => LastOf(p, s) + 1 \in Leaders(p)
<1>1. DOMAIN p = 1 .. Len(p) /\ Len(p) \in Nat /\ s \in 1 .. Len(p)
  BY DEF Leaders
<1>2. s \in Members(p, s) /\ Members(p, s) \subseteq 1 .. Len(p)
  BY <1>1 DEF Members
<1> DEFINE last == LastOf(p, s)
<1>3. last \in Members(p, s) /\ last + 1 \notin Members(p, s)
  <2>1. \E i \in Members(p, s) : i + 1 \notin Members(p, s)
    <3> DEFINE T == {n \in Nat : s + n \in Members(p, s)}
    <3>1. SUFFICES ASSUME \A i \in Members(p, s) : i + 1 \in Members(p, s) PROVE FALSE
      OBVIOUS
    <3>2. 0 \in T
      BY <1>1, <1>2
    <3>3. ASSUME NEW n \in Nat, n \in T PROVE n + 1 \in T
      <4>1. (s + n) + 1 \in Members(p, s) /\ (s + n) + 1 = s + (n + 1)
        BY <1>1, <3>1, <3>3
      <4> QED BY <4>1
    <3> HIDE DEF T
    <3>4. Nat \subseteq T
      BY <3>2, <3>3, EveryNumber
    <3>5. s + Len(p) \in Members(p, s)
      BY <1>1, <3>4 DEF T
    <3> QED BY <1>1, <1>2, <3>5
  <2> QED BY <2>1, Zenon DEF LastOf
<1> HIDE DEF last
<1>4. s <= last /\ last \in 1 .. Len(p) /\ \A j \in (s + 1) .. last : j \notin Leaders(p)
  BY <1>1, <1>2, <1>3 DEF Members
<1>5. last + 1 \in DOMAIN p => last + 1 \in Leaders(p)
  <2>1. SUFFICES ASSUME last + 1 \in DOMAIN p, last + 1 \notin Leaders(p) PROVE FALSE
    OBVIOUS
  <2>2. \A j \in (s + 1) .. (last + 1) : j \notin Leaders(p)
    BY <1>1, <1>4, <2>1
  <2> QED BY <1>1, <1>3, <1>4, <2>1, <2>2 DEF Members
<1>6. ASSUME NEW i PROVE i \in Members(p, s) <=> i \in s .. last
  <2>1. ASSUME i \in s .. last PROVE i \in Members(p, s)
    BY <1>1, <1>4, <2>1 DEF Members
  <2>2. ASSUME i \in Members(p, s) PROVE i \in s .. last
    <3>1. i \in 1 .. Len(p) /\ s <= i /\ \A j \in (s + 1) .. i : j \notin Leaders(p)
      BY <1>1, <2>2 DEF Members
    <3>2. ~(last + 1 <= i)
      BY <1>1, <1>4, <1>5, <3>1
    <3> QED BY <1>1, <1>4, <3>1, <3>2
  <2> QED BY <2>1, <2>2
<1>7. Members(p, s) = s .. last
  BY <1>6, Zenon
<1> QED BY <1>1, <1>4, <1>5, <1>7 DEF last

(* Where a block leads, there is a block, or the address is outside the    *)
(* function: no edge of the graph leads into the middle of a block.        *)
THEOREM EdgesLeadToBlocks ==
  ASSUME NEW S, NEW p \in Seq(S), NEW s \in Leaders(p), NEW i \in DOMAIN Succs(p, s),
         Succs(p, s)[i] \in DOMAIN p
  PROVE  Succs(p, s)[i] \in Leaders(p)
<1> DEFINE at == LastOf(p, s)
           last == p[at]
           t == Succs(p, s)[i]
<1>1. at \in DOMAIN p /\ (at + 1 \in DOMAIN p => at + 1 \in Leaders(p))
  BY BlockIsRange
<1>2. HasTarget(last) /\ t = BranchTarget(last) => t \in Leaders(p)
  BY <1>1 DEF Leaders
<1>3. HasCond(p, s) => HasTarget(last)
  BY DEF HasCond
<1>4. t = at + 1 \/ (HasTarget(last) /\ t = BranchTarget(last))
  BY <1>3 DEF Succs
<1> QED BY <1>1, <1>2, <1>4

-----------------------------------------------------------------------------
(* Graphs and queues. *)

(* What the searches need of a graph. *)
IsGraph(g) ==
  /\ g.blocks \subseteq Nat \ {Nowhere} /\ IsFiniteSet(g.blocks)
  /\ \A a \in g.blocks : g.succs[a] \in Seq(Nat) /\ Len(g.succs[a]) <= 2
  /\ \A a \in g.blocks : g.cond[a] => DOMAIN g.succs[a] = {1, 2}

(* The graph of a function is one. *)
LEMMA GraphIsGraph ==
  ASSUME NEW S, NEW p \in Seq(S), \A i \in DOMAIN p : HasTarget(p[i]) => BranchTarget(p[i]) \in Nat
  PROVE  IsGraph(Graph(p))
<1> DEFINE g == Graph(p)
<1>1. /\ g.blocks = Leaders(p)
      /\ g.cond = [s \in Leaders(p) |-> HasCond(p, s)]
      /\ g.succs = [s \in Leaders(p) |-> Succs(p, s)]
  BY DEF Graph
<1>2. Leaders(p) \subseteq Nat \ {0}
  BY DEF Leaders
<1>3. ASSUME NEW s \in Leaders(p)
      PROVE  Succs(p, s) \in Seq(Nat) /\ Len(Succs(p, s)) <= 2 /\ (HasCond(p, s) => DOMAIN Succs(p, s) = {1, 2})
  <2> DEFINE at == LastOf(p, s)
  <2>1. at \in DOMAIN p /\ at + 1 \in Nat
    BY BlockIsRange
  <2>2. HasTarget(p[at]) => BranchTarget(p[at]) \in Nat
    BY <2>1
  <2>3. HasCond(p, s) => HasTarget(p[at])
    BY DEF HasCond
  <2>4. CASE HasCond(p, s)
    <3>1. Succs(p, s) = <<BranchTarget(p[at]), at + 1>>
      BY <2>4 DEF Succs
    <3> HIDE DEF at
    <3> QED BY <2>1, <2>2, <2>3, <2>4, <3>1
  <2>5. CASE ~HasCond(p, s)
    <3>1. \/ Succs(p, s) = <<BranchTarget(p[at])>> /\ HasTarget(p[at])
          \/ Succs(p, s) = <<at + 1>>
          \/ Succs(p, s) = <<>>
      BY <2>5 DEF Succs
    <3> HIDE DEF at
    <3>2. CASE Succs(p, s) = <<BranchTarget(p[at])>> /\ HasTarget(p[at])
      BY <2>2, <2>5, <3>2
    <3>3. CASE Succs(p, s) = <<at + 1>>
      BY <2>1, <2>5, <3>3
    <3>4. CASE Succs(p, s) = <<>>
      BY <2>5, <3>4
    <3> QED BY <3>1, <3>2, <3>3, <3>4
  <2> QED BY <2>4, <2>5
<1>4. IsFiniteSet(Leaders(p))
  <2>1. IsFiniteSet(1 .. Len(p))
    <3>1. Len(p) \in Int /\ 1 \in Int
      OBVIOUS
    <3> QED BY <3>1, FS_Interval
  <2>2. Leaders(p) \subseteq 1 .. Len(p)
    BY DEF Leaders
  <2> QED BY <2>1, <2>2, FS_Subset
<1> HIDE DEF g
<1> QED BY <1>1, <1>2, <1>3, <1>4 DEF IsGraph, Nowhere, g

Waiting(q) == {q[i] : i \in DOMAIN q}

(* What is in a queue after its head was taken and something added. *)
LEMMA QueueParts ==
  ASSUME NEW S, NEW q \in Seq(S), q # <<>>, NEW r \in Seq(S)
  PROVE  /\ Head(q) \in S /\ Tail(q) \o r \in Seq(S)
         /\ Waiting(q) = {Head(q)} \cup Waiting(Tail(q))
         /\ Waiting(Tail(q) \o r) = Waiting(Tail(q)) \cup Waiting(r)
<1> DEFINE t == Tail(q)
<1>1. /\ Len(q) \in Nat \ {0} /\ DOMAIN q = 1 .. Len(q)
      /\ Head(q) = q[1] /\ t \in Seq(S) /\ Len(t) = Len(q) - 1
      /\ DOMAIN t = 1 .. Len(t) /\ \A i \in 1 .. Len(t) : t[i] = q[i + 1]
  BY HeadTailProperties, EmptySeq
<1>2. /\ t \o r \in Seq(S) /\ Len(t \o r) = Len(t) + Len(r)
      /\ DOMAIN (t \o r) = 1 .. Len(t \o r) /\ DOMAIN r = 1 .. Len(r) /\ Len(r) \in Nat
      /\ \A i \in 1 .. Len(t) + Len(r) : (t \o r)[i] = IF i <= Len(t) THEN t[i] ELSE r[i - Len(t)]
  BY <1>1, ConcatProperties
<1> HIDE DEF t
<1>3. ASSUME NEW x PROVE x \in Waiting(q) <=> x = Head(q) \/ x \in Waiting(t)
  <2>1. ASSUME x \in Waiting(q) PROVE x = Head(q) \/ x \in Waiting(t)
    <3>1. PICK i \in 1 .. Len(q) : q[i] = x
      BY <1>1, <2>1 DEF Waiting
    <3>2. CASE i = 1
      BY <1>1, <3>1, <3>2
    <3>3. CASE i # 1
      <4>1. i - 1 \in 1 .. Len(t) /\ t[i - 1] = q[(i - 1) + 1] /\ (i - 1) + 1 = i
        BY <1>1, <3>3
      <4> QED BY <1>1, <3>1, <4>1 DEF Waiting
    <3> QED BY <3>2, <3>3
  <2>2. ASSUME x = Head(q) PROVE x \in Waiting(q)
    BY <1>1, <2>2 DEF Waiting
  <2>3. ASSUME x \in Waiting(t) PROVE x \in Waiting(q)
    <3>1. PICK i \in 1 .. Len(t) : t[i] = x
      BY <1>1, <2>3 DEF Waiting
    <3>2. i + 1 \in 1 .. Len(q) /\ q[i + 1] = x
      BY <1>1, <3>1
    <3> QED BY <1>1, <3>2 DEF Waiting
  <2> QED BY <2>1, <2>2, <2>3
<1>4. ASSUME NEW x PROVE x \in Waiting(t \o r) <=> x \in Waiting(t) \/ x \in Waiting(r)
  <2>1. ASSUME x \in Waiting(t \o r) PROVE x \in Waiting(t) \/ x \in Waiting(r)
    <3>1. PICK i \in 1 .. (Len(t) + Len(r)) : (t \o r)[i] = x
      BY <1>2, <2>1 DEF Waiting
    <3>2. CASE i <= Len(t)
      <4>1. i \in 1 .. Len(t) /\ t[i] = x
        BY <1>1, <1>2, <3>1, <3>2
      <4> QED BY <1>1, <4>1 DEF Waiting
    <3>3. CASE ~(i <= Len(t))
      <4>1. i - Len(t) \in 1 .. Len(r) /\ r[i - Len(t)] = x
        BY <1>1, <1>2, <3>1, <3>3
      <4> QED BY <1>2, <4>1 DEF Waiting
    <3> QED BY <3>2, <3>3
  <2>2. ASSUME x \in Waiting(t) PROVE x \in Waiting(t \o r)
    <3>1. PICK i \in 1 .. Len(t) : t[i] = x
      BY <1>1, <2>2 DEF Waiting
    <3>2. i \in 1 .. (Len(t) + Len(r)) /\ (t \o r)[i] = x
      BY <1>1, <1>2, <3>1
    <3> QED BY <1>2, <3>2 DEF Waiting
  <2>3. ASSUME x \in Waiting(r) PROVE x \in Waiting(t \o r)
    <3>1. PICK i \in 1 .. Len(r) : r[i] = x
      BY <1>2, <2>3 DEF Waiting
    <3>2. i + Len(t) \in 1 .. (Len(t) + Len(r)) /\ (i + Len(t)) - Len(t) = i /\ ~(i + Len(t) <= Len(t))
      BY <1>1, <1>2, <3>1
    <3>3. (t \o r)[i + Len(t)] = x
      BY <1>2, <3>1, <3>2
    <3> QED BY <1>2, <3>2, <3>3 DEF Waiting
  <2> QED BY <2>1, <2>2, <2>3
<1>5. Waiting(q) = {Head(q)} \cup Waiting(t)
  BY <1>3
<1>6. Waiting(t \o r) = Waiting(t) \cup Waiting(r)
  BY <1>4
<1>7. Head(q) \in S
  BY <1>1
<1> QED BY <1>2, <1>5, <1>6, <1>7 DEF t

LEMMA QueueLength ==
  ASSUME NEW S, NEW q \in Seq(S), q # <<>>, NEW r \in Seq(S)
  PROVE  /\ Len(q) \in Nat \ {0} /\ Len(r) \in Nat
         /\ Len(Tail(q) \o r) = Len(q) - 1 + Len(r)
<1>1. Len(q) \in Nat \ {0} /\ Tail(q) \in Seq(S) /\ Len(Tail(q)) = Len(q) - 1
  BY HeadTailProperties, EmptySeq
<1> QED BY <1>1, ConcatProperties

(* A search goes no further where it was, at its ends, and outside. *)
Stops(g, k, ends) == Head(k.queue) \in k.seen \cup ends \/ Head(k.queue) \notin g.blocks

(* Where a block leads. *)
Leads(g, a) == Waiting(g.succs[a])

Round(g, k, ends, budget) == Expanded(g, k, Stops(g, k, ends), budget)

(* What a round of either search does to its state. *)
Advanced(g, k, ends, budget) ==
  LET a == Head(k.queue)
      n == Round(g, k, ends, budget)
  IN  /\ a \in Nat /\ n \in Searches
      /\ n.seen = k.seen \cup {a} /\ n.budget = budget
      /\ Waiting(k.queue) = {a} \cup Waiting(Tail(k.queue))
      /\ Waiting(n.queue) = Waiting(Tail(k.queue)) \cup
                            (IF Stops(g, k, ends) THEN {} ELSE Leads(g, a))
      /\ Len(k.queue) \in Nat \ {0} /\ Len(n.queue) \in Nat
      /\ Len(n.queue) <= Len(k.queue) - 1 + (IF Stops(g, k, ends) THEN 0 ELSE 2)

LEMMA RoundAdvances ==
  ASSUME NEW g, IsGraph(g), NEW k \in Searches, k.queue # <<>>, NEW ends, NEW budget \in Nat
  PROVE  Advanced(g, k, ends, budget)
<1> DEFINE a == Head(k.queue)
           stop == Stops(g, k, ends)
           r == IF stop THEN <<>> ELSE g.succs[a]
           n == Round(g, k, ends, budget)
<1>1. k.queue \in Seq(Nat) /\ k.seen \in SUBSET Nat
  BY DEF Searches
<1>0. ~stop => a \in g.blocks
  BY DEF Stops
<1>2. /\ r \in Seq(Nat) /\ Len(r) <= (IF stop THEN 0 ELSE 2)
      /\ stop => Waiting(r) = {}
      /\ ~stop => Waiting(r) = Leads(g, a)
  <2>1. CASE stop
    <3>1. r = <<>>
      BY <2>1
    <3>2. <<>> \in Seq(Nat) /\ Waiting(<<>>) = {}
      BY DEF Waiting
    <3> HIDE DEF r
    <3> QED BY <2>1, <3>1, <3>2
  <2>2. CASE ~stop
    BY <1>0, <2>2 DEF IsGraph, Leads
  <2> QED BY <2>1, <2>2
<1>3. n = [queue |-> Tail(k.queue) \o r, seen |-> k.seen \cup {a}, budget |-> budget]
  BY DEF Expanded, Round
<1> HIDE DEF r, n
<1>4. /\ a \in Nat /\ Tail(k.queue) \o r \in Seq(Nat)
      /\ Waiting(k.queue) = {a} \cup Waiting(Tail(k.queue))
      /\ Waiting(Tail(k.queue) \o r) = Waiting(Tail(k.queue)) \cup Waiting(r)
  BY <1>1, <1>2, QueueParts
<1>5. n \in Searches
  BY <1>1, <1>3, <1>4 DEF Searches
<1>6. n.queue = Tail(k.queue) \o r /\ n.seen = k.seen \cup {a} /\ n.budget = budget
  BY <1>3
<1>7. Waiting(n.queue) = Waiting(Tail(k.queue)) \cup (IF stop THEN {} ELSE Leads(g, a))
  BY <1>2, <1>4, <1>6
<1>8. /\ Len(k.queue) \in Nat \ {0} /\ Len(n.queue) \in Nat
      /\ Len(n.queue) <= Len(k.queue) - 1 + (IF stop THEN 0 ELSE 2)
  <2>1. /\ Len(k.queue) \in Nat \ {0} /\ Len(r) \in Nat
        /\ Len(n.queue) = Len(k.queue) - 1 + Len(r)
    BY <1>1, <1>2, <1>6, QueueLength
  <2> QED BY <1>2, <2>1
<1> QED BY <1>4, <1>5, <1>6, <1>7, <1>8 DEF n, stop, Advanced

-----------------------------------------------------------------------------
(* Searches. *)

(* A breadth first search: it stops at the ends, goes past nothing but     *)
(* what is passed, and spends from its budget: a unit for each address and *)
(* at most more where it goes on.                                          *)
BreadthFirst(g, ends, passed, more, E, next) ==
  /\ next \in [Searches -> Searches]
  /\ \A k \in Searches \ E :
       /\ k.queue # <<>>
       /\ Head(k.queue) \in k.seen \cup passed
       /\ \E b \in Nat :
            /\ b < k.budget
            /\ k.budget <= b + 1 + (IF Stops(g, k, ends) THEN 0 ELSE more)
            /\ next[k] = Round(g, k, ends, b)

(* What every round of such a search keeps. *)
Sound(g, from, ends, k) == \A x \in Waiting(k.queue) : LeadsTo(g, from, x, ends)

Complete(g, from, ends, k) ==
  LET known == k.seen \cup Waiting(k.queue)
  IN  /\ from \in known /\ known \subseteq Around(g, from)
      /\ \A a \in (k.seen \cap g.blocks) \ ends : \A i \in DOMAIN g.succs[a] : g.succs[a][i] \in known

(* Of every block, what it leads to and what it costs is paid for once.    *)
Left(g, k) == Cardinality(g.blocks \ k.seen)

Paid(g, more, budget, k) ==
  budget + Len(k.queue) + (2 + more) * Left(g, k)
    <= k.budget + 1 + (2 + more) * Cardinality(g.blocks)

Kept(g, from, ends, passed, more, budget) ==
  {k \in Searches : /\ Sound(g, from, ends, k)
                    /\ Paid(g, more, budget, k)
                    /\ Complete(g, from, ends, k)
                    /\ k.seen \subseteq passed
                    /\ k.budget <= budget}

(* It is so at the start. *)
LEMMA KeptAtFirst ==
  ASSUME NEW g, IsGraph(g), NEW from \in Nat, NEW ends, NEW passed, NEW more \in Nat, NEW budget \in Nat
  PROVE  From(from, budget) \in Kept(g, from, ends, passed, more, budget)
<1> DEFINE k == From(from, budget)
<1>1. k.queue = <<from>> /\ k.seen = {} /\ k.budget = budget /\ k \in Searches
  BY DEF From, Searches
<1>2. Waiting(<<from>>) = {from}
  BY DEF Waiting
<1> HIDE DEF k
<1>3. Sound(g, from, ends, k)
  BY <1>1, <1>2 DEF Sound, LeadsTo
<1>4. Complete(g, from, ends, k)
  BY <1>1, <1>2 DEF Complete, Around
<1>5. Paid(g, more, budget, k)
  <2>1. g.blocks \ k.seen = g.blocks /\ Len(k.queue) = 1
    BY <1>1
  <2>2. Cardinality(g.blocks) \in Nat
    BY FS_CardinalityType DEF IsGraph
  <2>3. (2 + more) * Cardinality(g.blocks) \in Nat
    BY <2>2
  <2> QED BY <1>1, <2>1, <2>2, <2>3 DEF Paid, Left
<1> QED BY <1>1, <1>3, <1>4, <1>5 DEF Kept, k

(* What is left when an address was seen. *)
LEMMA LeftAfter ==
  ASSUME NEW g, IsGraph(g), NEW k, NEW n, NEW a, n.seen = k.seen \cup {a}
  PROVE  /\ Left(g, k) \in Nat /\ Left(g, n) \in Nat
         /\ Left(g, n) <= Left(g, k)
         /\ a \in g.blocks \ k.seen => Left(g, k) = Left(g, n) + 1
<1> DEFINE before == g.blocks \ k.seen
           after == g.blocks \ n.seen
<1>1. IsFiniteSet(before)
  BY FS_Subset DEF IsGraph
<1>2. after = before \ {a}
  OBVIOUS
<1>3. CASE a \in before
  <2>1. IsFiniteSet(before \ {a}) /\ Cardinality(before \ {a}) = Cardinality(before) - 1
    BY <1>1, <1>3, FS_RemoveElement
  <2>2. Cardinality(before) \in Nat /\ Cardinality(after) \in Nat
    BY <1>1, <1>2, <2>1, FS_CardinalityType
  <2> HIDE DEF before, after
  <2>3. Cardinality(after) = Cardinality(before) - 1
    BY <1>2, <2>1
  <2> QED BY <2>2, <2>3 DEF Left, before, after
<1>4. CASE a \notin before
  <2>1. after = before
    BY <1>2, <1>4
  <2>2. Cardinality(before) \in Nat
    BY <1>1, FS_CardinalityType
  <2> HIDE DEF before, after
  <2>3. Left(g, k) = Cardinality(before) /\ Left(g, n) = Cardinality(before)
    BY <2>1, Zenon DEF Left, before, after
  <2> QED BY <1>4, <2>2, <2>3 DEF before
<1> QED BY <1>3, <1>4

(* Numbers multiplied. *)
LEMMA Times ==
  ASSUME NEW d \in Nat, NEW m \in Nat, NEW n \in Nat
  PROVE  /\ d * m \in Nat /\ d * n \in Nat
         /\ m <= n => d * m <= d * n
         /\ d * (m + 1) = d * m + d
OBVIOUS

(* A smaller part of what is left. *)
LEMMA SmallerPart ==
  ASSUME NEW b \in Nat, NEW l \in Nat, NEW left \in Nat, NEW d \in Nat, NEW sum \in Nat,
         b + l + left <= sum, d <= left
  PROVE  b + l + d <= sum
OBVIOUS

(* Two sums: what is paid for a round, with what it adds. *)
LEMMA Balance ==
  ASSUME NEW sum \in Nat, NEW all \in Nat,
         NEW l \in Nat, NEW d \in Nat, NEW b \in Nat, NEW m \in Nat, NEW e \in Nat, NEW c \in Nat,
         sum + l + d <= b + 1 + all, m + e + b <= l + d + c
  PROVE  sum + m + e <= c + 1 + all
OBVIOUS

LEMMA BalanceOfBlock ==
  ASSUME NEW more \in Nat,
         NEW l \in Nat, NEW d \in Nat, NEW b \in Nat, NEW m \in Nat, NEW e \in Nat, NEW c \in Nat,
         m <= l + 1, b <= c + 1 + more, d = e + 2 + more
  PROVE  m + e + b <= l + d + c
OBVIOUS

(* And after every round. *)
LEMMA KeptByRound ==
  ASSUME NEW g, IsGraph(g), NEW from \in Nat, NEW ends, NEW passed, NEW more \in Nat, NEW budget \in Nat,
         NEW k \in Kept(g, from, ends, passed, more, budget),
         k.queue # <<>>, Head(k.queue) \in k.seen \cup passed,
         NEW b \in Nat, b < k.budget, k.budget <= b + 1 + (IF Stops(g, k, ends) THEN 0 ELSE more)
  PROVE  Round(g, k, ends, b) \in Kept(g, from, ends, passed, more, budget)
<1> DEFINE a == Head(k.queue)
           stop == Stops(g, k, ends)
           n == Round(g, k, ends, b)
           follow == Leads(g, a)
<1>1. k \in Searches /\ Sound(g, from, ends, k) /\ Complete(g, from, ends, k)
      /\ Paid(g, more, budget, k) /\ k.seen \subseteq passed /\ k.budget <= budget
  BY DEF Kept
<1>2. /\ a \in Nat /\ n \in Searches
      /\ n.seen = k.seen \cup {a} /\ n.budget = b
      /\ Waiting(k.queue) = {a} \cup Waiting(Tail(k.queue))
      /\ Waiting(n.queue) = Waiting(Tail(k.queue)) \cup (IF stop THEN {} ELSE follow)
      /\ Len(k.queue) \in Nat \ {0} /\ Len(n.queue) \in Nat
      /\ Len(n.queue) <= Len(k.queue) - 1 + (IF stop THEN 0 ELSE 2)
  <2>1. Advanced(g, k, ends, b)
    BY <1>1, RoundAdvances
  <2> QED BY <2>1 DEF Advanced
<1>3. ~stop => a \in g.blocks /\ a \notin ends /\ a \notin k.seen
  BY DEF Stops
<1>4. a \in k.seen \/ a \in ends \/ a \notin g.blocks \/ ~stop
  BY DEF Stops
<1>0. k.budget <= b + 1 + (IF stop THEN 0 ELSE more)
  OBVIOUS
<1> HIDE DEF a, stop, n, follow
<1>5. Sound(g, from, ends, n)
  <2>1. SUFFICES ASSUME NEW x \in Waiting(n.queue) PROVE LeadsTo(g, from, x, ends)
    BY DEF Sound
  <2>2. CASE x \in Waiting(Tail(k.queue))
    BY <1>1, <1>2, <2>2 DEF Sound
  <2>3. CASE ~stop /\ x \in follow
    <3>1. LeadsTo(g, from, a, ends)
      BY <1>1, <1>2 DEF Sound
    <3>2. SUFFICES ASSUME NEW S \in SUBSET Around(g, from), from \in S, Followed(g, S, ends)
                   PROVE  x \in S
      BY DEF LeadsTo
    <3>3. a \in S
      BY <3>1, <3>2 DEF LeadsTo
    <3> QED BY <1>3, <2>3, <3>2, <3>3 DEF Followed, Waiting, Leads, follow
  <2> QED BY <1>2, <2>1, <2>2, <2>3
<1>6. Complete(g, from, ends, n)
  <2> DEFINE known == k.seen \cup Waiting(k.queue)
             after == n.seen \cup Waiting(n.queue)
  <2>1. /\ from \in known /\ known \subseteq Around(g, from)
        /\ \A x \in (k.seen \cap g.blocks) \ ends : \A i \in DOMAIN g.succs[x] : g.succs[x][i] \in known
    BY <1>1 DEF Complete
  <2>2. known \subseteq after
    BY <1>2
  <2>3. ~stop => follow \subseteq Around(g, from)
    BY <1>3 DEF Around, Waiting, Leads, follow
  <2>4. after \subseteq Around(g, from)
    BY <1>2, <2>1, <2>3
  <2>5. ASSUME NEW x \in (n.seen \cap g.blocks) \ ends, NEW i \in DOMAIN g.succs[x]
        PROVE  g.succs[x][i] \in after
    <3>1. CASE x \in k.seen
      <4> HIDE DEF known, after
      <4> QED BY <2>1, <2>2, <2>5, <3>1
    <3>2. CASE x \notin k.seen
      <4>1. x = a /\ ~stop
        BY <1>2, <1>4, <2>5, <3>2
      <4>2. g.succs[x][i] \in follow
        BY <2>5, <4>1 DEF Waiting, Leads, follow
      <4> QED BY <1>2, <4>1, <4>2
    <3> QED BY <3>1, <3>2
  <2>6. from \in after
    BY <2>1, <2>2
  <2> QED BY <2>4, <2>5, <2>6 DEF Complete
<1>7. n.seen \subseteq passed
  BY <1>1, <1>2 DEF a
<1>8. n.budget <= budget
  <2>1. k.budget \in Nat
    BY <1>1 DEF Searches
  <2> QED BY <1>1, <1>2, <2>1
<1>9. Paid(g, more, budget, n)
  <2> DEFINE d == 2 + more
             all == d * Cardinality(g.blocks)
             old == Left(g, k)
             new == Left(g, n)
  <2>1. /\ old \in Nat /\ new \in Nat /\ new <= old
        /\ ~stop => old = new + 1
    BY <1>2, <1>3, LeftAfter
  <2>2. /\ d * old \in Nat /\ d * new \in Nat /\ d * new <= d * old
        /\ ~stop => d * old = d * new + d
    <3>1. d \in Nat
      OBVIOUS
    <3> HIDE DEF d, old, new
    <3> QED BY <2>1, <3>1, Times
  <2>3. all \in Nat
    <3>1. Cardinality(g.blocks) \in Nat
      BY FS_CardinalityType DEF IsGraph
    <3> QED BY <3>1, Times
  <2>4. budget + Len(k.queue) + d * old <= k.budget + 1 + all
    BY <1>1 DEF Paid
  <2>5. k.budget \in Nat
    BY <1>1 DEF Searches
  <2> DEFINE dold == d * old
             dnew == d * new
  <2>6. /\ dold \in Nat /\ dnew \in Nat /\ dnew <= dold
        /\ ~stop => dold = dnew + 2 + more
    BY <2>2
  <2>7. budget + Len(k.queue) + dold <= k.budget + 1 + all
    BY <2>4
  <2> HIDE DEF all, dold, dnew
  <2>8. Len(n.queue) + dnew + k.budget <= Len(k.queue) + dold + n.budget
    <3>0. /\ n.budget = b /\ Len(k.queue) \in Nat /\ Len(n.queue) \in Nat
      BY <1>2
    <3>1. CASE stop
      <4>1. Len(n.queue) <= Len(k.queue) - 1 /\ k.budget <= b + 1
        BY <1>0, <1>2, <3>1
      <4> QED BY <2>5, <2>6, <3>0, <4>1
    <3>2. CASE ~stop
      <4>1. Len(n.queue) <= Len(k.queue) + 1 /\ k.budget <= b + 1 + more
        BY <1>0, <1>2, <3>2
      <4>2. dold = dnew + 2 + more
        BY <2>6, <3>2
      <4> QED BY <2>5, <2>6, <3>0, <4>1, <4>2, BalanceOfBlock
    <3> QED BY <3>1, <3>2
  <2>9. budget + Len(n.queue) + dnew <= n.budget + 1 + all
    <3>1. Len(k.queue) \in Nat /\ Len(n.queue) \in Nat /\ n.budget \in Nat
      BY <1>2
    <3>2. dold \in Nat /\ dnew \in Nat
      BY <2>6
    <3> QED BY <2>3, <2>5, <2>7, <2>8, <3>1, <3>2, Balance
  <2> QED BY <2>9 DEF Paid, all, dnew
<1>10. n \in Kept(g, from, ends, passed, more, budget)
  BY <1>2, <1>5, <1>6, <1>7, <1>8, <1>9 DEF Kept
<1> QED BY <1>10 DEF n, stop, a

(* Where the search ends: nothing waits that one cannot get to, and when   *)
(* nothing waits, all one can get to was seen.                             *)
EndsSo(g, from, ends, passed, more, budget, e) ==
  /\ e.budget <= budget
  /\ Paid(g, more, budget, e)
  /\ e.seen \subseteq passed
  /\ \A x \in Waiting(e.queue) : LeadsTo(g, from, x, ends)
  /\ e.queue = <<>> => \A x : LeadsTo(g, from, x, ends) => x \in e.seen

EndsAt(g, from, ends, passed, more, budget, E, base, f) ==
  \E e \in Searches \cap E :
    f[From(from, budget)] = base[e] /\ EndsSo(g, from, ends, passed, more, budget, e)

LEMMA SearchEnds ==
  ASSUME NEW g, IsGraph(g), NEW from \in Nat, NEW ends, NEW passed, NEW more \in Nat, NEW budget \in Nat,
         NEW E, NEW base, NEW next, BreadthFirst(g, ends, passed, more, E, next),
         NEW f, Loops(f, Searches, E, base, next)
  PROVE  EndsAt(g, from, ends, passed, more, budget, E, base, f)
<1> DEFINE I == Kept(g, from, ends, passed, more, budget)
           rank == [k \in Searches |-> k.budget]
<1>1. next \in [Searches -> Searches] /\ rank \in [Searches -> Nat] /\ I \in SUBSET Searches
  BY DEF BreadthFirst, Kept, Searches
<1>2. ASSUME NEW k \in I \ E PROVE next[k] \in I /\ rank[next[k]] < rank[k]
  <2>1. k \in Searches \ E
    BY <1>1
  <2>2. PICK b \in Nat :
          /\ b < k.budget
          /\ k.budget <= b + 1 + (IF Stops(g, k, ends) THEN 0 ELSE more)
          /\ next[k] = Round(g, k, ends, b)
    BY <2>1, Zenon DEF BreadthFirst
  <2>3. k.queue # <<>> /\ Head(k.queue) \in k.seen \cup passed
    BY <2>1, Zenon DEF BreadthFirst
  <2>4. next[k] \in I
    BY <2>2, <2>3, KeptByRound
  <2>5. next[k].budget = b
    BY <2>2 DEF Expanded, Round
  <2> HIDE DEF I
  <2> QED BY <1>1, <2>1, <2>2, <2>4, <2>5
<1>3. From(from, budget) \in I
  BY KeptAtFirst
<1> HIDE DEF I, rank
<1>4. PICK e \in I \cap E : f[From(from, budget)] = base[e]
  BY <1>1, <1>2, <1>3, LoopRule
<1>5. /\ e \in Searches /\ Sound(g, from, ends, e) /\ Complete(g, from, ends, e)
      /\ Paid(g, more, budget, e) /\ e.seen \subseteq passed /\ e.budget <= budget
  BY <1>4 DEF I, Kept
<1>6. ASSUME e.queue = <<>>, NEW x, LeadsTo(g, from, x, ends) PROVE x \in e.seen
  <2>1. Waiting(e.queue) = {}
    BY <1>6 DEF Waiting
  <2>2. /\ from \in e.seen /\ e.seen \subseteq Around(g, from)
        /\ \A a \in (e.seen \cap g.blocks) \ ends : \A i \in DOMAIN g.succs[a] : g.succs[a][i] \in e.seen
    BY <1>5, <2>1 DEF Complete
  <2> QED BY <1>6, <2>2 DEF LeadsTo, Followed
<1>7. EndsSo(g, from, ends, passed, more, budget, e)
  BY <1>5, <1>6 DEF Sound, EndsSo
<1>8. e \in Searches \cap E
  BY <1>4, <1>5
<1> QED BY <1>4, <1>7, <1>8, Zenon DEF EndsAt

(* A search as a loop: there is one. *)
LEMMA SearchLoops ==
  ASSUME NEW g, IsGraph(g), NEW ends, NEW passed, NEW more, NEW E, NEW base, NEW next,
         BreadthFirst(g, ends, passed, more, E, next)
  PROVE  \E f : Loops(f, Searches, E, base, next)
<1> DEFINE rank == [k \in Searches |-> k.budget]
<1>1. next \in [Searches -> Searches] /\ rank \in [Searches -> Nat]
  BY DEF BreadthFirst, Searches
<1>2. ASSUME NEW k \in Searches \ E PROVE rank[next[k]] < rank[k]
  <2>1. PICK b \in Nat :
          /\ b < k.budget
          /\ k.budget <= b + 1 + (IF Stops(g, k, ends) THEN 0 ELSE more)
          /\ next[k] = Round(g, k, ends, b)
    BY Zenon DEF BreadthFirst
  <2>2. next[k].budget = b
    BY <2>1 DEF Expanded, Round
  <2> QED BY <1>1, <2>1, <2>2
<1> HIDE DEF rank
<1> QED BY <1>1, <1>2, LoopExists

-----------------------------------------------------------------------------
(* reachesAddr. *)

(* Where it ends, what it answers there, and what it goes on with. *)
ReachEnds(target) ==
  {k \in Searches : k.queue = <<>> \/ k.budget = 0 \/ Head(k.queue) = target}

ReachAnswer ==
  [k \in Searches |-> IF k.queue = <<>> \/ k.budget = 0 THEN [found |-> FALSE, budget |-> k.budget]
                      ELSE [found |-> TRUE, budget |-> k.budget - 1]]

ReachNext(g, target, loop) ==
  [k \in Searches |-> IF k \in ReachEnds(target) THEN k
                      ELSE Round(g, k, Ends(loop), k.budget - 1)]

ReachTurn(g, target, loop, f, k) ==
  IF k.queue = <<>> \/ k.budget = 0 THEN [found |-> FALSE, budget |-> k.budget]
  ELSE LET a    == Head(k.queue)
           stop == a \in k.seen \cup {loop.head, loop.exit} \/ a \notin g.blocks
       IN  IF a = target THEN [found |-> TRUE, budget |-> k.budget - 1]
           ELSE f[Expanded(g, k, stop, k.budget - 1)]

LEMMA ReachTurns ==
  ASSUME NEW g, NEW target, NEW loop, NEW f, NEW k \in Searches
  PROVE  ReachTurn(g, target, loop, f, k) =
           IF k \in ReachEnds(target) THEN ReachAnswer[k] ELSE f[ReachNext(g, target, loop)[k]]
<1>1. CASE k.queue = <<>> \/ k.budget = 0
  BY <1>1 DEF ReachTurn, ReachEnds, ReachAnswer
<1>2. CASE ~(k.queue = <<>> \/ k.budget = 0) /\ Head(k.queue) = target
  BY <1>2 DEF ReachTurn, ReachEnds, ReachAnswer
<1>3. CASE ~(k.queue = <<>> \/ k.budget = 0) /\ Head(k.queue) # target
  <2>1. k \notin ReachEnds(target)
    BY <1>3 DEF ReachEnds
  <2>2. ReachNext(g, target, loop)[k] = Round(g, k, Ends(loop), k.budget - 1)
    BY <2>1 DEF ReachNext
  <2>3. ReachTurn(g, target, loop, f, k) =
          f[Expanded(g, k, Head(k.queue) \in k.seen \cup {loop.head, loop.exit}
                           \/ Head(k.queue) \notin g.blocks, k.budget - 1)]
    BY <1>3, Zenon DEF ReachTurn
  <2>4. Round(g, k, Ends(loop), k.budget - 1) =
          Expanded(g, k, Head(k.queue) \in k.seen \cup {loop.head, loop.exit}
                         \/ Head(k.queue) \notin g.blocks, k.budget - 1)
    BY Zenon DEF Round, Stops, Ends
  <2> QED BY <2>1, <2>2, <2>3, <2>4, Zenon
<1> QED BY <1>1, <1>2, <1>3

LEMMA ReachIsSearch ==
  ASSUME NEW g, IsGraph(g), NEW target, NEW loop
  PROVE  BreadthFirst(g, Ends(loop), Nat \ {target}, 0, ReachEnds(target), ReachNext(g, target, loop))
<1>1. ASSUME NEW k \in Searches \ ReachEnds(target)
      PROVE  /\ k.queue # <<>> /\ Head(k.queue) # target /\ Head(k.queue) \in Nat
             /\ k.budget - 1 \in Nat /\ k.budget - 1 < k.budget
             /\ k.budget <= (k.budget - 1) + 1 + (IF Stops(g, k, Ends(loop)) THEN 0 ELSE 0)
             /\ ReachNext(g, target, loop)[k] = Round(g, k, Ends(loop), k.budget - 1)
             /\ ReachNext(g, target, loop)[k] \in Searches
  <2>1. k.queue # <<>> /\ Head(k.queue) # target /\ k.budget # 0 /\ k.budget \in Nat
    BY <1>1 DEF ReachEnds, Searches
  <2>2. /\ k.budget - 1 \in Nat /\ k.budget - 1 < k.budget
        /\ k.budget <= (k.budget - 1) + 1 + (IF Stops(g, k, Ends(loop)) THEN 0 ELSE 0)
    BY <2>1
  <2>3. Advanced(g, k, Ends(loop), k.budget - 1)
    BY <2>1, <2>2, RoundAdvances
  <2>4. ReachNext(g, target, loop)[k] = Round(g, k, Ends(loop), k.budget - 1)
    BY <1>1 DEF ReachNext
  <2>5. Head(k.queue) \in Nat /\ Round(g, k, Ends(loop), k.budget - 1) \in Searches
    BY <2>3 DEF Advanced
  <2> QED BY <2>1, <2>2, <2>4, <2>5
<1>2. ReachNext(g, target, loop) \in [Searches -> Searches]
  <2>1. \A k \in Searches : ReachNext(g, target, loop)[k] \in Searches
    <3> TAKE k \in Searches
    <3>1. CASE k \in ReachEnds(target)
      BY <3>1 DEF ReachNext
    <3> QED BY <1>1, <3>1
  <2> QED BY <2>1 DEF ReachNext
<1> QED BY <1>1, <1>2, Zenon DEF BreadthFirst

(* reachesAddr is this loop. *)
LEMMA ReachesLoops ==
  ASSUME NEW g, IsGraph(g), NEW from, NEW target, NEW loop, NEW budget
  PROVE  \E f : /\ Loops(f, Searches, ReachEnds(target), ReachAnswer, ReachNext(g, target, loop))
                /\ Reaches(g, from, target, loop, budget) = f[From(from, budget)]
<1> DEFINE Is(f) == f = [k \in Searches |-> ReachTurn(g, target, loop, f, k)]
           Lps(f) == Loops(f, Searches, ReachEnds(target), ReachAnswer, ReachNext(g, target, loop))
<1>1. ASSUME NEW f PROVE Is(f) <=> Lps(f)
  <2>1. [k \in Searches |-> ReachTurn(g, target, loop, f, k)] =
          [k \in Searches |-> IF k \in ReachEnds(target) THEN ReachAnswer[k]
                              ELSE f[ReachNext(g, target, loop)[k]]]
    BY ReachTurns
  <2> QED BY <2>1, Zenon DEF Loops
<1>2. \E f : Lps(f)
  BY ReachIsSearch, SearchLoops
<1>3. Reaches(g, from, target, loop, budget) = (CHOOSE f : Is(f))[From(from, budget)]
  BY Zenon DEF Reaches, ReachTurn
<1> HIDE DEF Is, Lps
<1>4. Is(CHOOSE f : Is(f))
  BY <1>1, <1>2, Zenon
<1>5. Lps(CHOOSE f : Is(f))
  BY <1>1, <1>4, Zenon
<1> QED BY <1>3, <1>5, Zenon DEF Lps

(* What it spends. *)
LEMMA ReachCostIsNumber ==
  ASSUME NEW g, IsGraph(g)
  PROVE  ReachCost(g) \in Nat
<1>1. Cardinality(g.blocks) \in Nat
  BY FS_CardinalityType DEF IsGraph
<1> QED BY <1>1 DEF ReachCost

LEMMA ReachesParts ==
  ASSUME NEW g, IsGraph(g), NEW from \in Nat, NEW target, NEW loop, NEW budget \in Nat
  PROVE  LET r == Reaches(g, from, target, loop, budget)
         IN  /\ r.found \in BOOLEAN /\ r.budget \in Nat /\ r.budget <= budget
             /\ budget <= r.budget + ReachCost(g)
<1> DEFINE r == Reaches(g, from, target, loop, budget)
<1>1. PICK f : /\ Loops(f, Searches, ReachEnds(target), ReachAnswer, ReachNext(g, target, loop))
               /\ r = f[From(from, budget)]
  BY ReachesLoops
<1> HIDE DEF r
<1>2. PICK e \in Searches \cap ReachEnds(target) :
        r = ReachAnswer[e] /\ EndsSo(g, from, Ends(loop), Nat \ {target}, 0, budget, e)
  <2>1. BreadthFirst(g, Ends(loop), Nat \ {target}, 0, ReachEnds(target), ReachNext(g, target, loop))
    BY ReachIsSearch
  <2>2. EndsAt(g, from, Ends(loop), Nat \ {target}, 0, budget, ReachEnds(target), ReachAnswer, f)
    BY <1>1, <2>1, SearchEnds
  <2> QED BY <1>1, <2>2, Zenon DEF EndsAt
<1>3. e.budget \in Nat /\ e.budget <= budget
  BY <1>2 DEF Searches, EndsSo
<1>4. \/ r.found = FALSE /\ r.budget = e.budget
      \/ r.found = TRUE /\ r.budget = e.budget - 1 /\ e.budget # 0 /\ e.queue # <<>>
  BY <1>2 DEF ReachAnswer
<1>5. r.found \in BOOLEAN
  BY <1>4, Zenon
<1>6. r.budget \in Nat /\ r.budget <= budget
  BY <1>3, <1>4
<1>7. budget <= r.budget + ReachCost(g)
  <2> DEFINE all == 2 * Cardinality(g.blocks)
             left == 2 * Left(g, e)
  <2>1. all \in Nat /\ left \in Nat
    <3>1. Cardinality(g.blocks) \in Nat
      BY FS_CardinalityType DEF IsGraph
    <3>2. Left(g, e) \in Nat
      <4>1. IsFiniteSet(g.blocks \ e.seen)
        BY FS_Subset DEF IsGraph
      <4> QED BY <4>1, FS_CardinalityType DEF Left
    <3> QED BY <3>1, <3>2
  <2>2. budget + Len(e.queue) + left <= e.budget + 1 + all
    BY <1>2 DEF EndsSo, Paid
  <2>3. Len(e.queue) \in Nat /\ (e.queue # <<>> => Len(e.queue) # 0)
    <3>1. e.queue \in Seq(Nat)
      BY DEF Searches
    <3> QED BY <3>1, EmptySeq
  <2>4. ReachCost(g) = 1 + all
    BY DEF ReachCost
  <2> HIDE DEF all, left
  <2> QED BY <1>3, <1>4, <2>1, <2>2, <2>3, <2>4
<1> QED BY <1>5, <1>6, <1>7 DEF r

(* No such search costs more than its bound, on any graph and budget. *)
THEOREM ReachesIsCheap ==
  ASSUME NEW g, IsGraph(g), NEW from \in Nat, NEW target, NEW loop, NEW budget \in Nat
  PROVE  ReachesCheap(g, from, target, loop, budget)
BY ReachesParts DEF ReachesCheap

(* What reachesAddr answers while the budget lasts is so, for any graph.   *)
THEOREM ReachesIsExact ==
  ASSUME NEW g, IsGraph(g), NEW from \in Nat, NEW target, NEW loop, NEW budget \in Nat
  PROVE  ReachesExact(g, from, target, loop, budget)
<1> DEFINE r == Reaches(g, from, target, loop, budget)
<1>1. PICK f : /\ Loops(f, Searches, ReachEnds(target), ReachAnswer, ReachNext(g, target, loop))
               /\ r = f[From(from, budget)]
  BY ReachesLoops
<1> HIDE DEF r
<1>2. PICK e \in Searches \cap ReachEnds(target) :
        r = ReachAnswer[e] /\ EndsSo(g, from, Ends(loop), Nat \ {target}, 0, budget, e)
  <2>1. BreadthFirst(g, Ends(loop), Nat \ {target}, 0, ReachEnds(target), ReachNext(g, target, loop))
    BY ReachIsSearch
  <2>2. EndsAt(g, from, Ends(loop), Nat \ {target}, 0, budget, ReachEnds(target), ReachAnswer, f)
    BY <1>1, <2>1, SearchEnds
  <2> QED BY <1>1, <2>2, Zenon DEF EndsAt
<1>3. r.found => LeadsTo(g, from, target, Ends(loop))
  <2>1. SUFFICES ASSUME r.found PROVE LeadsTo(g, from, target, Ends(loop))
    OBVIOUS
  <2>2. e.queue # <<>> /\ Head(e.queue) = target
    BY <1>2, <2>1 DEF ReachAnswer, ReachEnds
  <2>3. e.queue \in Seq(Nat)
    BY DEF Searches
  <2>4. Head(e.queue) \in Waiting(e.queue)
    <3>1. 1 \in DOMAIN e.queue /\ Head(e.queue) = e.queue[1]
      BY <2>2, <2>3
    <3> QED BY <3>1 DEF Waiting
  <2> QED BY <1>2, <2>2, <2>4 DEF EndsSo
<1>4. LeadsTo(g, from, target, Ends(loop)) => r.found \/ r.budget = 0
  <2>1. SUFFICES ASSUME LeadsTo(g, from, target, Ends(loop)), ~r.found PROVE r.budget = 0
    OBVIOUS
  <2>2. r.budget = e.budget /\ (e.queue = <<>> \/ e.budget = 0)
    BY <1>2, <2>1 DEF ReachAnswer
  <2>3. e.queue # <<>>
    BY <1>2, <2>1 DEF EndsSo
  <2> QED BY <2>2, <2>3
<1> QED BY <1>3, <1>4 DEF ReachesExact, r

-----------------------------------------------------------------------------
(* findDoWhileTail. *)

(* At the block taken from the queue: whether it branches back to start,   *)
(* and what the search from its other side answers.                        *)
TailBack(g, start, visited, k) ==
  ~Stops(g, k, visited \ {start}) /\ BranchesBack(g, Head(k.queue), start)

TailProbe(g, start, visited, loop, k) ==
  IF TailBack(g, start, visited, k)
  THEN Reaches(g, OtherSide(g, Head(k.queue), start), start, loop, k.budget - 1)
  ELSE [found |-> FALSE, budget |-> k.budget - 1]

IsTail(g, start, visited, loop, k) ==
  TailBack(g, start, visited, k) /\ ~TailProbe(g, start, visited, loop, k).found

(* Where the search ends, what it answers there, and what it goes on with. *)
TailEnds(g, start, visited, loop) ==
  {k \in Searches : k.queue = <<>> \/ k.budget = 0 \/ IsTail(g, start, visited, loop, k)}

TailAnswer(g, start, visited, loop) ==
  [k \in Searches |->
     IF k.queue = <<>> \/ k.budget = 0
     THEN [tail |-> Nowhere, exit |-> Nowhere, budget |-> k.budget]
     ELSE [tail |-> Head(k.queue), exit |-> OtherSide(g, Head(k.queue), start),
           budget |-> TailProbe(g, start, visited, loop, k).budget]]

TailNext(g, start, visited, loop) ==
  [k \in Searches |->
     IF k \in TailEnds(g, start, visited, loop) THEN k
     ELSE Round(g, k, visited \ {start}, TailProbe(g, start, visited, loop, k).budget)]

TailTurn(g, start, visited, loop, f, k) ==
  IF k.queue = <<>> \/ k.budget = 0
  THEN [tail |-> Nowhere, exit |-> Nowhere, budget |-> k.budget]
  ELSE LET a    == Head(k.queue)
           stop == a \in k.seen \cup (visited \ {start}) \/ a \notin g.blocks
           back == ~stop /\ BranchesBack(g, a, start)
           r    == IF back THEN Reaches(g, OtherSide(g, a, start), start, loop, k.budget - 1)
                   ELSE [found |-> FALSE, budget |-> k.budget - 1]
       IN  IF back /\ ~r.found
           THEN [tail |-> a, exit |-> OtherSide(g, a, start), budget |-> r.budget]
           ELSE f[Expanded(g, k, stop, r.budget)]

LEMMA TailTurns ==
  ASSUME NEW g, NEW start, NEW visited, NEW loop, NEW f, NEW k \in Searches
  PROVE  TailTurn(g, start, visited, loop, f, k) =
           IF k \in TailEnds(g, start, visited, loop) THEN TailAnswer(g, start, visited, loop)[k]
           ELSE f[TailNext(g, start, visited, loop)[k]]
<1> DEFINE probe == TailProbe(g, start, visited, loop, k)
<1>1. CASE k.queue = <<>> \/ k.budget = 0
  BY <1>1 DEF TailTurn, TailEnds, TailAnswer
<1>2. CASE ~(k.queue = <<>> \/ k.budget = 0)
  <2>1. TailTurn(g, start, visited, loop, f, k) =
          IF TailBack(g, start, visited, k) /\ ~probe.found
          THEN [tail |-> Head(k.queue), exit |-> OtherSide(g, Head(k.queue), start),
                budget |-> probe.budget]
          ELSE f[Round(g, k, visited \ {start}, probe.budget)]
    BY <1>2, Zenon DEF TailTurn, TailBack, TailProbe, Stops, Round
  <2> HIDE DEF probe
  <2>2. CASE IsTail(g, start, visited, loop, k)
    <3>1. k \in TailEnds(g, start, visited, loop)
      BY <2>2 DEF TailEnds
    <3>2. TailAnswer(g, start, visited, loop)[k] =
            [tail |-> Head(k.queue), exit |-> OtherSide(g, Head(k.queue), start),
             budget |-> probe.budget]
      BY <1>2 DEF TailAnswer, probe
    <3> QED BY <2>1, <2>2, <3>1, <3>2, Zenon DEF IsTail, probe
  <2>3. CASE ~IsTail(g, start, visited, loop, k)
    <3>1. k \notin TailEnds(g, start, visited, loop)
      BY <1>2, <2>3 DEF TailEnds
    <3>2. TailNext(g, start, visited, loop)[k] = Round(g, k, visited \ {start}, probe.budget)
      BY <3>1 DEF TailNext, probe
    <3> QED BY <2>1, <2>3, <3>1, <3>2, Zenon DEF IsTail, probe
  <2> QED BY <2>2, <2>3
<1> QED BY <1>1, <1>2

(* The other side of a block that branches back is an address. *)
LEMMA OtherSideIsAddress ==
  ASSUME NEW g, IsGraph(g), NEW start, NEW a \in g.blocks, BranchesBack(g, a, start)
  PROVE  OtherSide(g, a, start) \in Nat
<1>1. g.succs[a] \in Seq(Nat) /\ DOMAIN g.succs[a] = {1, 2}
  BY DEF IsGraph, BranchesBack
<1>2. g.succs[a][1] \in Nat /\ g.succs[a][2] \in Nat
  BY <1>1
<1> QED BY <1>2 DEF OtherSide

(* The search from there spends a part of what is left, and what it finds  *)
(* is there.                                                               *)
LEMMA ProbeParts ==
  ASSUME NEW g, IsGraph(g), NEW start, NEW visited, NEW loop, NEW k \in Searches,
         k.queue # <<>>, k.budget # 0
  PROVE  LET r == TailProbe(g, start, visited, loop, k)
         IN  /\ r.budget \in Nat /\ r.budget < k.budget
             /\ k.budget <= r.budget + 1 + (IF TailBack(g, start, visited, k) THEN ReachCost(g) ELSE 0)
             /\ TailBack(g, start, visited, k) =>
                  LET other == OtherSide(g, Head(k.queue), start)
                  IN  /\ r.found => LeadsTo(g, other, start, Ends(loop))
                      /\ LeadsTo(g, other, start, Ends(loop)) => r.found \/ r.budget = 0
<1> DEFINE r == TailProbe(g, start, visited, loop, k)
           other == OtherSide(g, Head(k.queue), start)
<1>1. k.budget \in Nat /\ k.budget - 1 \in Nat /\ k.budget - 1 < k.budget
  BY DEF Searches
<1>2. CASE TailBack(g, start, visited, k)
  <2>1. other \in Nat
    BY <1>2, OtherSideIsAddress DEF TailBack, Stops
  <2>2. r = Reaches(g, other, start, loop, k.budget - 1)
    BY <1>2 DEF TailProbe
  <2> HIDE DEF r, other
  <2>3. /\ r.budget \in Nat /\ r.budget <= k.budget - 1
        /\ k.budget - 1 <= r.budget + ReachCost(g)
    BY <1>1, <2>1, <2>2, ReachesParts
  <2>4. ReachesExact(g, other, start, loop, k.budget - 1)
    BY <1>1, <2>1, ReachesIsExact
  <2>5. /\ r.found => LeadsTo(g, other, start, Ends(loop))
        /\ LeadsTo(g, other, start, Ends(loop)) => r.found \/ r.budget = 0
    BY <2>2, <2>4, Zenon DEF ReachesExact
  <2>6. r.budget < k.budget /\ k.budget <= r.budget + 1 + ReachCost(g)
    BY <1>1, <2>3, ReachCostIsNumber
  <2> QED BY <1>2, <2>3, <2>5, <2>6 DEF r, other
<1>3. CASE ~TailBack(g, start, visited, k)
  <2>1. r = [found |-> FALSE, budget |-> k.budget - 1]
    BY <1>3 DEF TailProbe
  <2> HIDE DEF r
  <2>2. r.budget \in Nat /\ r.budget < k.budget /\ k.budget <= r.budget + 1 + 0
    BY <1>1, <2>1
  <2> QED BY <1>3, <2>2 DEF r
<1> QED BY <1>2, <1>3

LEMMA TailIsSearch ==
  ASSUME NEW g, IsGraph(g), NEW start, NEW visited, NEW loop
  PROVE  BreadthFirst(g, visited \ {start}, Nat \ Tails(g, start, visited, loop), ReachCost(g),
                      TailEnds(g, start, visited, loop), TailNext(g, start, visited, loop))
<1> DEFINE E == TailEnds(g, start, visited, loop)
           next == TailNext(g, start, visited, loop)
           probe(k) == TailProbe(g, start, visited, loop, k)
           ends == visited \ {start}
           passed == Nat \ Tails(g, start, visited, loop)
<1>1. ASSUME NEW k \in Searches \ E
      PROVE  /\ k.queue # <<>> /\ Head(k.queue) \in k.seen \cup passed
             /\ probe(k).budget \in Nat /\ probe(k).budget < k.budget
             /\ k.budget <= probe(k).budget + 1 + (IF Stops(g, k, ends) THEN 0 ELSE ReachCost(g))
             /\ next[k] = Round(g, k, ends, probe(k).budget)
             /\ next[k] \in Searches
  <2>1. k.queue # <<>> /\ k.budget # 0 /\ ~IsTail(g, start, visited, loop, k)
    BY <1>1 DEF TailEnds
  <2>2. probe(k).budget \in Nat /\ probe(k).budget < k.budget
    BY <2>1, ProbeParts
  <2>3. next[k] = Round(g, k, ends, probe(k).budget)
    BY <1>1 DEF TailNext
  <2>4. Advanced(g, k, ends, probe(k).budget)
    <3> HIDE DEF probe, ends
    <3> QED BY <2>1, <2>2, RoundAdvances
  <2>5. Head(k.queue) \in Nat /\ Round(g, k, ends, probe(k).budget) \in Searches
    BY <2>4 DEF Advanced
  <2>6. Head(k.queue) \in k.seen \cup passed
    <3>1. SUFFICES ASSUME Head(k.queue) \notin k.seen,
                          Head(k.queue) \in Tails(g, start, visited, loop)
                   PROVE  FALSE
      BY <2>5
    <3>2. /\ TailBack(g, start, visited, k)
          /\ ~LeadsTo(g, OtherSide(g, Head(k.queue), start), start, Ends(loop))
      BY <3>1 DEF Tails, TailBack, Stops
    <3>3. probe(k).found
      BY <2>1, <3>2 DEF IsTail
    <3> QED BY <2>1, <3>2, <3>3, ProbeParts
  <2>7. k.budget <= probe(k).budget + 1 + (IF Stops(g, k, ends) THEN 0 ELSE ReachCost(g))
    <3>1. k.budget <= probe(k).budget + 1 + (IF TailBack(g, start, visited, k) THEN ReachCost(g) ELSE 0)
      BY <2>1, ProbeParts
    <3>2. TailBack(g, start, visited, k) => ~Stops(g, k, ends)
      BY DEF TailBack
    <3>3. ReachCost(g) \in Nat /\ k.budget \in Nat
      BY ReachCostIsNumber DEF Searches
    <3> HIDE DEF probe, ends
    <3>4. CASE Stops(g, k, ends)
      BY <3>1, <3>2, <3>4
    <3>5. CASE ~Stops(g, k, ends)
      BY <2>2, <3>1, <3>3, <3>5
    <3> QED BY <3>4, <3>5
  <2> QED BY <2>1, <2>2, <2>3, <2>5, <2>6, <2>7
<1>2. next \in [Searches -> Searches]
  <2>1. \A k \in Searches : next[k] \in Searches
    <3> TAKE k \in Searches
    <3>1. CASE k \in E
      BY <3>1 DEF TailNext
    <3> QED BY <1>1, <3>1
  <2> QED BY <2>1 DEF TailNext
<1> HIDE DEF E, next, ends, passed
<1>3. BreadthFirst(g, ends, passed, ReachCost(g), E, next)
  BY <1>1, <1>2, Zenon DEF BreadthFirst
<1> QED BY <1>3 DEF E, next, ends, passed

(* findDoWhileTail is this loop. *)
LEMMA FindTailLoops ==
  ASSUME NEW g, IsGraph(g), NEW start, NEW visited, NEW loop, NEW budget
  PROVE  \E f : /\ Loops(f, Searches, TailEnds(g, start, visited, loop),
                         TailAnswer(g, start, visited, loop), TailNext(g, start, visited, loop))
                /\ FindTail(g, start, visited, loop, budget) = f[From(start, budget)]
<1> DEFINE Is(f) == f = [k \in Searches |-> TailTurn(g, start, visited, loop, f, k)]
           Lps(f) == Loops(f, Searches, TailEnds(g, start, visited, loop),
                           TailAnswer(g, start, visited, loop), TailNext(g, start, visited, loop))
<1>1. ASSUME NEW f PROVE Is(f) <=> Lps(f)
  <2>1. [k \in Searches |-> TailTurn(g, start, visited, loop, f, k)] =
          [k \in Searches |-> IF k \in TailEnds(g, start, visited, loop)
                              THEN TailAnswer(g, start, visited, loop)[k]
                              ELSE f[TailNext(g, start, visited, loop)[k]]]
    BY TailTurns
  <2> QED BY <2>1, Zenon DEF Loops
<1>2. \E f : Lps(f)
  BY TailIsSearch, SearchLoops
<1>3. FindTail(g, start, visited, loop, budget) = (CHOOSE f : Is(f))[From(start, budget)]
  BY Zenon DEF FindTail, TailTurn
<1> HIDE DEF Is, Lps
<1>4. Is(CHOOSE f : Is(f))
  BY <1>1, <1>2, Zenon
<1>5. Lps(CHOOSE f : Is(f))
  BY <1>1, <1>4, Zenon
<1> QED BY <1>3, <1>5, Zenon DEF Lps

(* Where it ends. *)
LEMMA FindTailEnds ==
  ASSUME NEW g, IsGraph(g), NEW start \in Nat, NEW visited, NEW loop, NEW budget \in Nat
  PROVE  \E e \in Searches \cap TailEnds(g, start, visited, loop) :
           /\ FindTail(g, start, visited, loop, budget) = TailAnswer(g, start, visited, loop)[e]
           /\ EndsSo(g, start, visited \ {start}, Nat \ Tails(g, start, visited, loop),
                     ReachCost(g), budget, e)
<1> DEFINE r == FindTail(g, start, visited, loop, budget)
           E == TailEnds(g, start, visited, loop)
           base == TailAnswer(g, start, visited, loop)
           next == TailNext(g, start, visited, loop)
           ends == visited \ {start}
           passed == Nat \ Tails(g, start, visited, loop)
<1>1. PICK f : Loops(f, Searches, E, base, next) /\ r = f[From(start, budget)]
  BY FindTailLoops
<1>2. BreadthFirst(g, ends, passed, ReachCost(g), E, next)
  BY TailIsSearch
<1>3. ReachCost(g) \in Nat
  BY ReachCostIsNumber
<1> HIDE DEF r, E, base, next, ends, passed
<1>4. EndsAt(g, start, ends, passed, ReachCost(g), budget, E, base, f)
  BY <1>1, <1>2, <1>3, SearchEnds
<1>5. \E e \in Searches \cap E : r = base[e] /\ EndsSo(g, start, ends, passed, ReachCost(g), budget, e)
  BY <1>1, <1>4, Zenon DEF EndsAt
<1> QED BY <1>5, Zenon DEF r, E, base, ends, passed

LEMMA FindTailParts ==
  ASSUME NEW g, IsGraph(g), NEW start \in Nat, NEW visited, NEW loop, NEW budget \in Nat
  PROVE  FindTail(g, start, visited, loop, budget).budget \in Nat
<1> DEFINE r == FindTail(g, start, visited, loop, budget)
<1>1. PICK e \in Searches \cap TailEnds(g, start, visited, loop) :
        /\ r = TailAnswer(g, start, visited, loop)[e]
        /\ EndsSo(g, start, visited \ {start}, Nat \ Tails(g, start, visited, loop),
                  ReachCost(g), budget, e)
  BY FindTailEnds
<1> HIDE DEF r
<1>2. CASE e.queue = <<>> \/ e.budget = 0
  BY <1>1, <1>2 DEF TailAnswer, Searches, r
<1>3. CASE ~(e.queue = <<>> \/ e.budget = 0)
  <2>1. r.budget = TailProbe(g, start, visited, loop, e).budget
    BY <1>1, <1>3 DEF TailAnswer
  <2> QED BY <1>3, <2>1, ProbeParts DEF r
<1> QED BY <1>2, <1>3

(* The tail findDoWhileTail answers with is one, and while the budget      *)
(* lasts it answers with none only where there is none, for any graph.     *)
THEOREM FindTailIsExact ==
  ASSUME NEW g, IsGraph(g), NEW start \in g.blocks, NEW visited, NEW loop, NEW budget \in Nat
  PROVE  TailExact(g, start, visited, loop, budget)
<1> DEFINE r == FindTail(g, start, visited, loop, budget)
           E == TailEnds(g, start, visited, loop)
           ends == visited \ {start}
           tails == Tails(g, start, visited, loop)
<1>0. start \in Nat
  BY DEF IsGraph
<1>2. PICK e \in Searches \cap E :
        /\ r = TailAnswer(g, start, visited, loop)[e]
        /\ EndsSo(g, start, ends, Nat \ tails, ReachCost(g), budget, e)
  BY <1>0, FindTailEnds
<1> HIDE DEF r
<1>3. CASE e.queue = <<>> \/ e.budget = 0
  <2>1. r.tail = Nowhere /\ r.budget = e.budget
    BY <1>2, <1>3 DEF TailAnswer
  <2>2. ASSUME r.budget > 0 PROVE tails = {}
    <3>1. e.queue = <<>>
      BY <1>3, <2>1, <2>2
    <3>2. \A x : LeadsTo(g, start, x, ends) => x \notin tails
      BY <1>2, <3>1 DEF EndsSo
    <3> QED BY <3>2 DEF Tails
  <2> QED BY <2>1, <2>2, Zenon DEF TailExact, r, tails
<1>4. CASE ~(e.queue = <<>> \/ e.budget = 0)
  <2> DEFINE a == Head(e.queue)
             probe == TailProbe(g, start, visited, loop, e)
  <2>1. IsTail(g, start, visited, loop, e)
    BY <1>4 DEF TailEnds
  <2>2. r.tail = a /\ r.exit = OtherSide(g, a, start) /\ r.budget = probe.budget
    BY <1>2, <1>4 DEF TailAnswer
  <2>3. a \in g.blocks \ ends /\ BranchesBack(g, a, start) /\ ~probe.found
    BY <2>1 DEF IsTail, TailBack, Stops
  <2>4. LeadsTo(g, start, a, ends)
    <3>1. e.queue \in Seq(Nat) /\ e.queue # <<>>
      BY <1>4 DEF Searches
    <3>2. 1 \in DOMAIN e.queue /\ Head(e.queue) = e.queue[1]
      BY <3>1
    <3>3. a \in Waiting(e.queue)
      BY <3>2 DEF Waiting
    <3> QED BY <1>2, <3>3 DEF EndsSo
  <2>5. ASSUME r.budget > 0 PROVE a \in tails
    <3>1. ~LeadsTo(g, OtherSide(g, a, start), start, Ends(loop))
      <4>1. TailBack(g, start, visited, e)
        BY <2>1 DEF IsTail
      <4>2. probe.budget # 0
        BY <2>2, <2>5
      <4> QED BY <1>4, <2>3, <4>1, <4>2, ProbeParts
    <3> QED BY <2>3, <2>4, <3>1 DEF Tails
  <2>6. a # Nowhere
    BY <2>3 DEF IsGraph
  <2> HIDE DEF a, probe
  <2> QED BY <2>2, <2>3, <2>4, <2>5, <2>6, Zenon DEF TailExact, r, tails, ends
<1> QED BY <1>3, <1>4

(* And it costs no more than its bound. *)
THEOREM FindTailIsCheap ==
  ASSUME NEW g, IsGraph(g), NEW start \in Nat, NEW visited, NEW loop, NEW budget \in Nat
  PROVE  TailCheap(g, start, visited, loop, budget)
<1> DEFINE r == FindTail(g, start, visited, loop, budget)
           E == TailEnds(g, start, visited, loop)
           ends == visited \ {start}
           d == 2 + ReachCost(g)
<1>1. PICK e \in Searches \cap E :
        /\ r = TailAnswer(g, start, visited, loop)[e]
        /\ EndsSo(g, start, ends, Nat \ Tails(g, start, visited, loop), ReachCost(g), budget, e)
  BY FindTailEnds
<1> DEFINE all  == d * Cardinality(g.blocks)
           left == d * Left(g, e)
<1> HIDE DEF r
<1>2. e.budget \in Nat /\ e.budget <= budget
  BY <1>1 DEF Searches, EndsSo
<1>3. ReachCost(g) \in Nat
  BY ReachCostIsNumber
<1>4. Cardinality(g.blocks) \in Nat /\ Left(g, e) \in Nat
      /\ (Left(g, e) = 0 => g.blocks \subseteq e.seen)
  <2>1. IsFiniteSet(g.blocks \ e.seen)
    BY FS_Subset DEF IsGraph
  <2>2. Cardinality(g.blocks) \in Nat
    BY FS_CardinalityType DEF IsGraph
  <2>3. Cardinality(g.blocks \ e.seen) = 0 <=> g.blocks \ e.seen = {}
    BY <2>1, FS_EmptySet
  <2>4. Cardinality(g.blocks \ e.seen) \in Nat
    BY <2>1, FS_CardinalityType
  <2> QED BY <2>2, <2>3, <2>4 DEF Left
<1>5. all \in Nat /\ left \in Nat
  BY <1>3, <1>4, Times
<1>6. budget + Len(e.queue) + left <= e.budget + 1 + all
  BY <1>1 DEF EndsSo, Paid
<1>7. Len(e.queue) \in Nat /\ (e.queue # <<>> => Len(e.queue) # 0)
  <2>1. e.queue \in Seq(Nat)
    BY DEF Searches
  <2> QED BY <2>1, EmptySeq
<1>8. TailCost(g) = 1 + all
  BY DEF TailCost
<1>0. d = 2 + ReachCost(g)
  OBVIOUS
<1>9. CASE e.queue = <<>> \/ e.budget = 0
  <2>1. r.budget = e.budget
    BY <1>1, <1>9 DEF TailAnswer
  <2> HIDE DEF all, left
  <2>2. budget <= r.budget + TailCost(g)
    BY <1>2, <1>5, <1>6, <1>7, <1>8, <2>1
  <2> QED BY <2>2 DEF TailCheap, r
<1>10. CASE ~(e.queue = <<>> \/ e.budget = 0)
  <2> DEFINE probe == TailProbe(g, start, visited, loop, e)
  <2>1. IsTail(g, start, visited, loop, e)
    BY <1>10 DEF TailEnds
  <2>2. r.budget = probe.budget
    BY <1>1, <1>10 DEF TailAnswer
  <2>3. e.budget <= probe.budget + 1 + ReachCost(g) /\ probe.budget \in Nat
    <3>1. TailBack(g, start, visited, e)
      BY <2>1 DEF IsTail
    <3> QED BY <1>10, <3>1, ProbeParts
  <2>4. d <= left
    <3>1. Head(e.queue) \in g.blocks /\ Head(e.queue) \notin e.seen
      BY <2>1 DEF IsTail, TailBack, Stops
    <3>2. 1 <= Left(g, e)
      BY <1>4, <3>1
    <3>3. d * 1 <= left /\ d * 1 = d
      BY <1>3, <1>4, <3>2, Times
    <3> QED BY <3>3
  <2> HIDE DEF all, left, probe, d
  <2>5. budget <= r.budget + TailCost(g)
    <3>1. Len(e.queue) \in Nat /\ Len(e.queue) # 0
      BY <1>7, <1>10
    <3>2. budget + Len(e.queue) + d <= e.budget + 1 + all
      <4>1. d \in Nat
        BY <1>0, <1>3
      <4>2. e.budget + 1 + all \in Nat
        BY <1>2, <1>5
      <4> QED BY <1>5, <1>6, <3>1, <2>4, <4>1, <4>2, SmallerPart
    <3>3. d \in Nat /\ r.budget \in Nat /\ 0 \in Nat
      BY <1>0, <1>3, <2>2, <2>3
    <3>4. 0 + 0 + e.budget <= Len(e.queue) + d + r.budget
      <4>1. e.budget <= d + r.budget
        BY <1>0, <1>2, <1>3, <2>2, <2>3
      <4> QED BY <1>2, <3>1, <3>3, <4>1
    <3>5. budget + 0 + 0 <= r.budget + 1 + all
      BY <1>2, <1>5, <3>1, <3>2, <3>3, <3>4, Balance
    <3> QED BY <1>5, <1>8, <3>3, <3>5
  <2> QED BY <2>5 DEF TailCheap, r
<1> QED BY <1>9, <1>10

-----------------------------------------------------------------------------
(* With a budget above its bound when it begins, reachesAddr decides what  *)
(* it is asked.                                                            *)
THEOREM ReachesDecides ==
  ASSUME NEW g, IsGraph(g), NEW from \in Nat, NEW target, NEW loop, NEW budget \in Nat,
         budget > ReachCost(g)
  PROVE  Reaches(g, from, target, loop, budget).found <=> LeadsTo(g, from, target, Ends(loop))
<1> DEFINE r == Reaches(g, from, target, loop, budget)
<1>1. r.found \in BOOLEAN /\ r.budget \in Nat /\ budget <= r.budget + ReachCost(g)
  BY ReachesParts
<1>2. ReachesExact(g, from, target, loop, budget)
  BY ReachesIsExact
<1>3. r.budget # 0
  <2> HIDE DEF r
  <2> QED BY <1>1, ReachCostIsNumber
<1> QED BY <1>1, <1>2, <1>3, Zenon DEF ReachesExact

(* And findDoWhileTail finds a do-while loop that begins at the block, or  *)
(* there is none.                                                          *)
THEOREM FindTailDecides ==
  ASSUME NEW g, IsGraph(g), NEW start \in g.blocks, NEW visited, NEW loop, NEW budget \in Nat,
         budget > TailCost(g)
  PROVE  LET r == FindTail(g, start, visited, loop, budget)
         IN  IF r.tail = Nowhere THEN Tails(g, start, visited, loop) = {}
             ELSE r.tail \in Tails(g, start, visited, loop)
<1> DEFINE r == FindTail(g, start, visited, loop, budget)
<1>1. start \in Nat
  BY DEF IsGraph
<1>2. budget <= r.budget + TailCost(g)
  BY <1>1, FindTailIsCheap DEF TailCheap
<1>3. r.budget \in Nat
  BY <1>1, FindTailParts
<1>4. TailExact(g, start, visited, loop, budget)
  BY FindTailIsExact
<1>5. TailCost(g) \in Nat
  <2>1. Cardinality(g.blocks) \in Nat
    BY FS_CardinalityType DEF IsGraph
  <2>2. 2 + ReachCost(g) \in Nat
    BY ReachCostIsNumber
  <2>3. (2 + ReachCost(g)) * Cardinality(g.blocks) \in Nat
    BY <2>1, <2>2, Times
  <2> QED BY <2>3 DEF TailCost
<1>6. r.budget > 0
  <2> HIDE DEF r
  <2> QED BY <1>2, <1>3, <1>5
<1> QED BY <1>4, <1>6, Zenon DEF TailExact

-----------------------------------------------------------------------------
(* What is lifted. *)

(* What is found out about the loops of any function is so, and cheap to   *)
(* find out; the runs check it of those functions with branches back that  *)
(* no source was compiled to.                                              *)
THEOREM SearchesOfFunctions ==
  ASSUME NEW f \in Functions
  PROVE  ExactOn(Graph(f.code)) /\ CheapOn(Graph(f.code))
<1> DEFINE g == Graph(f.code)
<1>1. IsGraph(g)
  BY LiftedAssumption, GraphIsGraph
<1>2. Budgets \subseteq Nat
  BY LiftedAssumption
<1> HIDE DEF g
<1>3. ASSUME NEW start \in g.blocks, NEW budget \in Budgets, NEW loop
      PROVE  /\ \A target \in g.blocks : /\ ReachesExact(g, start, target, loop, budget)
                                         /\ ReachesCheap(g, start, target, loop, budget)
             /\ \A visited : /\ TailExact(g, start, visited, loop, budget)
                             /\ TailCheap(g, start, visited, loop, budget)
  <2>1. start \in Nat /\ budget \in Nat
    BY <1>1, <1>2 DEF IsGraph
  <2>2. \A target \in g.blocks : /\ ReachesExact(g, start, target, loop, budget)
                                 /\ ReachesCheap(g, start, target, loop, budget)
    BY <1>1, <2>1, ReachesIsExact, ReachesIsCheap
  <2>3. \A visited : /\ TailExact(g, start, visited, loop, budget)
                     /\ TailCheap(g, start, visited, loop, budget)
    BY <1>1, <2>1, FindTailIsExact, FindTailIsCheap
  <2> QED BY <2>2, <2>3
<1>4. ExactOn(g)
  BY <1>3, Zenon DEF ExactOn
<1>5. CheapOn(g)
  BY <1>3, Zenon DEF CheapOn
<1> QED BY <1>4, <1>5 DEF g

(* The function stays what it is while it is lifted and executed. *)
LEMMA FunctionKept == LiftedSpec => [](fn \in Functions)
<1>1. LiftedInit => fn \in Functions
  BY DEF LiftedInit
<1>2. fn \in Functions /\ [LiftedNext]_lifted => (fn \in Functions)'
  BY DEF LiftedNext, Lifting, Store, Branch, Step, lifted
<1> QED BY <1>1, <1>2, PTL DEF LiftedSpec

(* Of every function that is lifted, whatever its code, and however the    *)
(* statements are made of it, the blocks partition the code.               *)
THEOREM BlocksPartitionCorrect == LiftedSpec => []BlocksPartition
<1>1. fn \in Functions => BlocksPartition
  BY LiftedAssumption, BlocksArePartition DEF BlocksPartition
<1> QED BY <1>1, FunctionKept, PTL

(* And what the lifter finds out about its loops is so, at every time. *)
THEOREM SearchesExactCorrect == LiftedSpec => []SearchesExact
<1>1. fn \in Functions => SearchesExact
  BY SearchesOfFunctions DEF SearchesExact
<1> QED BY <1>1, FunctionKept, PTL

(* Nor does it ever take more of the budget than its bound. *)
THEOREM SearchesCheapCorrect == LiftedSpec => []SearchesCheap
<1>1. fn \in Functions => SearchesCheap
  BY SearchesOfFunctions DEF SearchesCheap
<1> QED BY <1>1, FunctionKept, PTL

=============================================================================
