---------------------------- MODULE BlockSearch ----------------------------
(***************************************************************************)
(* The searches by which the ARM64 lifter tells loops from other branches  *)
(* (reachesAddr and findDoWhileTail in internal/arm64lift/lift.go), over   *)
(* the control flow graph of a function.  Both go breadth first and spend  *)
(* the budget they share with the lift, one unit for every address taken   *)
(* from the queue; when it is gone, they end without an answer.            *)
(***************************************************************************)
EXTENDS BasicBlocks, FiniteSets

(* Addresses start at 1. *)
Nowhere == 0
NoLoop  == [head |-> Nowhere, exit |-> Nowhere, tail |-> 0]

Graph(prog) ==
  LET blocks == Leaders(prog)
  IN  [blocks |-> blocks,
       insts  |-> [s \in blocks |-> Instructions(prog, s)],
       cond   |-> [s \in blocks |-> HasCond(prog, s)],
       branch |-> [s \in blocks |-> LastOf(prog, s)],
       succs  |-> [s \in blocks |-> Succs(prog, s)]]

(* A search in progress. *)
Searches == [queue : Seq(Nat), seen : SUBSET Nat, budget : Nat]

From(start, budget) == [queue |-> <<start>>, seen |-> {}, budget |-> budget]

(* The address taken from the queue, which the block there adds to. *)
Expanded(g, k, stop, budget) ==
  LET a == Head(k.queue)
  IN  [queue  |-> Tail(k.queue) \o (IF stop THEN <<>> ELSE g.succs[a]),
       seen   |-> k.seen \cup {a},
       budget |-> budget]

-----------------------------------------------------------------------------
(* A mutant of Reaches: a block costs a unit more than other addresses. *)
ReachesPaysTwice(g, from, target, loop, budget) ==
  LET search[k \in Searches] ==
        IF k.queue = <<>> \/ k.budget = 0 THEN [found |-> FALSE, budget |-> k.budget]
        ELSE LET a    == Head(k.queue)
                 stop == a \in k.seen \cup {loop.head, loop.exit} \/ a \notin g.blocks
                 cost == IF stop \/ k.budget = 1 THEN 1 ELSE 2
             IN  IF a = target THEN [found |-> TRUE, budget |-> k.budget - 1]
                 ELSE search[Expanded(g, k, stop, k.budget - cost)]
  IN  search[From(from, budget)]

(* A mutant of Reaches: the search goes on past the loop it is made in. *)
ReachesThroughLoop(g, from, target, loop, budget) ==
  LET search[k \in Searches] ==
        IF k.queue = <<>> \/ k.budget = 0 THEN [found |-> FALSE, budget |-> k.budget]
        ELSE LET a    == Head(k.queue)
                 stop == a \in k.seen \/ a \notin g.blocks
             IN  IF a = target THEN [found |-> TRUE, budget |-> k.budget - 1]
                 ELSE search[Expanded(g, k, stop, k.budget - 1)]
  IN  search[From(from, budget)]

(* reachesAddr: the head and the exit of the loop the search is made in    *)
(* are compared with the target, but not gone past.                        *)
Reaches(g, from, target, loop, budget) ==
  LET search[k \in Searches] ==
        IF k.queue = <<>> \/ k.budget = 0 THEN [found |-> FALSE, budget |-> k.budget]
        ELSE LET a    == Head(k.queue)
                 stop == a \in k.seen \cup {loop.head, loop.exit} \/ a \notin g.blocks
             IN  IF a = target THEN [found |-> TRUE, budget |-> k.budget - 1]
                 ELSE search[Expanded(g, k, stop, k.budget - 1)]
  IN  search[From(from, budget)]

(* Block a tests, and one side only leads to start: which the other is. *)
BranchesBack(g, a, start) ==
  g.cond[a] /\ \E i \in {1, 2} : g.succs[a][i] = start /\ g.succs[a][3 - i] # start

OtherSide(g, a, start) ==
  IF g.succs[a][1] = start THEN g.succs[a][2] ELSE g.succs[a][1]

(* findDoWhileTail: the first block found that branches to start on one    *)
(* side only, and from whose other side start is out of reach.             *)
FindTail(g, start, visited, loop, budget) ==
  LET search[k \in Searches] ==
        IF k.queue = <<>> \/ k.budget = 0
        THEN [tail |-> Nowhere, exit |-> Nowhere, budget |-> k.budget]
        ELSE LET a    == Head(k.queue)
                 stop == a \in k.seen \cup (visited \ {start}) \/ a \notin g.blocks
                 back == ~stop /\ BranchesBack(g, a, start)
                 r    == IF back THEN Reaches(g, OtherSide(g, a, start), start, loop, k.budget - 1)
                         ELSE [found |-> FALSE, budget |-> k.budget - 1]
             IN  IF back /\ ~r.found
                 THEN [tail |-> a, exit |-> OtherSide(g, a, start), budget |-> r.budget]
                 ELSE search[Expanded(g, k, stop, r.budget)]
  IN  search[From(start, budget)]

-----------------------------------------------------------------------------
(***************************************************************************)
(* What the searches are for.  From from one gets to to without going past *)
(* an address in ends when to is in every set that has from and, with a    *)
(* block that is none of the ends, what the block leads to.                *)
(***************************************************************************)
Followed(g, S, ends) ==
  \A a \in (S \cap g.blocks) \ ends : \A i \in DOMAIN g.succs[a] : g.succs[a][i] \in S

Around(g, from) ==
  {from} \cup g.blocks \cup UNION {{g.succs[a][i] : i \in DOMAIN g.succs[a]} : a \in g.blocks}

LeadsTo(g, from, to, ends) ==
  \A S \in SUBSET Around(g, from) : from \in S /\ Followed(g, S, ends) => to \in S

Ends(loop) == {loop.head, loop.exit}

(* What is found is there, and what is not found, as long as the budget    *)
(* lasted, is not.                                                         *)
ReachesExact(g, from, target, loop, budget) ==
  LET r == Reaches(g, from, target, loop, budget)
  IN  /\ r.found => LeadsTo(g, from, target, Ends(loop))
      /\ LeadsTo(g, from, target, Ends(loop)) => r.found \/ r.budget = 0

(* The ends of do-while loops that begin at start: blocks one gets to from *)
(* start by way of blocks not lifted yet, with a branch that goes back to  *)
(* start or leaves for good.                                               *)
Tails(g, start, visited, loop) ==
  LET lifted == visited \ {start}
  IN  {a \in g.blocks \ lifted :
         /\ BranchesBack(g, a, start)
         /\ LeadsTo(g, start, a, lifted)
         /\ ~LeadsTo(g, OtherSide(g, a, start), start, Ends(loop))}

(* As long as the budget lasted, a tail is found where there is one; what  *)
(* is found is a branch back to start in any case.                         *)
TailExact(g, start, visited, loop, budget) ==
  LET r     == FindTail(g, start, visited, loop, budget)
      tails == Tails(g, start, visited, loop)
  IN  /\ r.tail # Nowhere =>
           /\ r.tail \in g.blocks \ (visited \ {start})
           /\ BranchesBack(g, r.tail, start)
           /\ r.exit = OtherSide(g, r.tail, start)
           /\ LeadsTo(g, start, r.tail, visited \ {start})
      /\ r.budget > 0 => IF r.tail = Nowhere THEN tails = {} ELSE r.tail \in tails

(* What a search costs at most, on whatever budget: an address comes into  *)
(* the queue by one of the two edges of a block, once, and at each block   *)
(* findDoWhileTail may ask reachesAddr.                                    *)
ReachCost(g) == 1 + 2 * Cardinality(g.blocks)
TailCost(g)  == 1 + (2 + ReachCost(g)) * Cardinality(g.blocks)

ReachesCheap(g, from, target, loop, budget) ==
  budget <= Reaches(g, from, target, loop, budget).budget + ReachCost(g)

TailCheap(g, start, visited, loop, budget) ==
  budget <= FindTail(g, start, visited, loop, budget).budget + TailCost(g)
=============================================================================
