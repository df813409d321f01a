--------------------------- MODULE LiftedProgram ---------------------------
(***************************************************************************)
(* A function and what the lifter made of it, executed side by side: the   *)
(* processor runs the instructions, a reader of the decompiled source runs *)
(* the statements.  Both show stores, tests of a branch's condition and    *)
(* returns; whatever the outcome of the tests, they show the same.         *)
(***************************************************************************)
EXTENDS BlockSearch

CONSTANTS
  Recover(_, _), \* from the code and a budget, [stmts, budget]: LiftFunction
  Functions,  \* what is lifted: [code, kind], kind "source" or "goto"
  Budgets,    \* values of blockVisitBudget
  Patience    \* bound on what a reader executes without anything to be seen

VARIABLES
  fn,     \* the function
  lift,   \* what Recover returned
  pc,     \* the next instruction of the processor, 0 before the lift
  rest    \* what the reader has left to execute

lifted == <<fn, lift, pc, rest>>

ASSUME LiftedAssumption ==
  /\ \A f \in Functions :
       /\ f.code \in Seq({f.code[i] : i \in DOMAIN f.code})
       /\ \A i \in DOMAIN f.code : HasTarget(f.code[i]) => BranchTarget(f.code[i]) \in Nat
  /\ Budgets \subseteq Nat
  /\ Patience \in Nat

(* Branches lead forward only: no loops. *)
Forward(prog) ==
  \A i \in DOMAIN prog : HasTarget(prog[i]) => BranchTarget(prog[i]) > i

-----------------------------------------------------------------------------
(* What can be seen: <<"store", slot>>, <<"test", address>>, <<"ret">>,     *)
(* <<"end">> when the end of the function is passed, and, of the reader    *)
(* only, <<"call">>: none of the functions makes one.                      *)

(* The processor, from an address on. *)
Seen(p, from) ==
  LET seen[at \in Nat] ==
        IF at \notin DOMAIN p THEN [event |-> <<"end">>, at |-> at]
        ELSE CASE p[at].op = "str" -> [event |-> <<"store", p[at].ops[2].imm>>, at |-> at]
               [] IsConditionalBranch(p[at]) -> [event |-> <<"test", at>>, at |-> at]
               [] p[at].op = "ret" -> [event |-> <<"ret">>, at |-> at]
               [] p[at].op = "b" -> seen[BranchTarget(p[at])]
               [] OTHER -> seen[at + 1]
  IN  seen[from]

(* The reader's stack of frames: statements to execute, loops to come back *)
(* to, and conditions being evaluated with what follows on either outcome. *)
Block(stmts)     == [kind |-> "block", stmts |-> stmts]
LoopAgain(stmt)  == [kind |-> "again", stmt |-> stmt]
Choose(c, t, f)  == [kind |-> "choose", cond |-> c, t |-> t, f |-> f]

IsLoop(frame) == frame.kind = "again"

(* What follows when a break or a continue leaves the frames of a body. *)
FromLoop(frames) ==
  IF \E i \in DOMAIN frames : IsLoop(frames[i])
  THEN SubSeq(frames, CHOOSE i \in DOMAIN frames :
                        IsLoop(frames[i]) /\ \A j \in 1 .. i - 1 : ~IsLoop(frames[j]), Len(frames))
  ELSE <<>>

(* What the first frame shows. *)
Shown(frames) ==
  IF frames = <<>> THEN <<"end">>
  ELSE LET top == Head(frames)
       IN  IF top.kind = "choose" /\ top.cond.kind = "test" THEN <<"test", top.cond.at>>
           ELSE IF top.kind # "block" \/ top.stmts = <<>> THEN <<"nothing">>
           ELSE LET stmt == Head(top.stmts)
                IN  CASE stmt.kind = "assign" -> <<"store", stmt.target.name[2]>>
                      [] stmt.kind = "return" -> <<"ret">>
                      [] stmt.kind = "expr"   -> <<"call">>
                      [] OTHER                -> <<"nothing">>

(* The next statement left behind. *)
Behind(frames) == <<Block(Tail(Head(frames).stmts))>> \o Tail(frames)

(* The reader takes up the first frame, which shows nothing. *)
Entered(frames) ==
  LET top   == Head(frames)
      below == Tail(frames)
      stmt  == Head(top.stmts)
      after == Behind(frames)
  IN  CASE top.kind = "again" ->
             <<Choose(top.stmt.cond, <<Block(top.stmt.body), top>>, <<>>)>> \o below
        [] top.kind = "choose" /\ top.cond.kind = "not" ->
             <<Choose(top.cond.left, top.f, top.t)>> \o below
        [] top.kind = "choose" /\ top.cond.kind = "or" ->
             <<Choose(top.cond.left, top.t, <<Choose(top.cond.right, top.t, top.f)>>)>> \o below
        [] top.kind = "block" /\ top.stmts = <<>> -> below
        [] OTHER ->
             CASE stmt.kind = "if" ->
                    <<Choose(stmt.cond, <<Block(stmt.then)>>, <<Block(stmt.else)>>)>> \o after
               [] stmt.kind = "while" -> <<LoopAgain(stmt)>> \o after
               [] stmt.kind = "dowhile" -> <<Block(stmt.body), LoopAgain(stmt)>> \o after
               [] stmt.kind = "break" -> Tail(FromLoop(after))
               [] stmt.kind = "continue" -> FromLoop(after)

(* The reader, to the next thing seen. *)
Settled(frames) ==
  LET Read(f) == IF Shown(f) = <<"nothing">> THEN Entered(f) ELSE f
      after[n \in 0 .. Patience] == IF n = 0 THEN frames ELSE Read(after[n - 1])
  IN  after[Patience]

Processor == Seen(fn.code, pc)
Reader    == Shown(rest)

-----------------------------------------------------------------------------
NotLifted == [stmts |-> <<>>, budget |-> 0]

LiftedInit ==
  /\ fn \in Functions
  /\ lift = NotLifted
  /\ pc = 0
  /\ rest = <<>>

Lifting == \E budget \in Budgets :
  /\ pc = 0
  /\ lift' = Recover(fn.code, budget)
  /\ pc' = 1
  /\ rest' = Settled(<<Block(lift'.stmts)>>)
  /\ UNCHANGED fn

(* Functions with loops no source was compiled to are not executed. *)
Executed == pc > 0 /\ (fn.kind = "source" \/ Forward(fn.code))

(* Something seen of both. *)
Step(event) ==
  /\ Executed
  /\ Processor.event = Reader
  /\ Processor.event[1] = event
  /\ UNCHANGED <<fn, lift>>

Store ==
  /\ Step("store")
  /\ pc' = Processor.at + 1
  /\ rest' = Settled(Behind(rest))

(* The outcome of a test is the same for both. *)
Branch == \E taken \in BOOLEAN :
  LET top == Head(rest)
  IN  /\ Step("test")
      /\ pc' = IF taken THEN BranchTarget(fn.code[Processor.at]) ELSE Processor.at + 1
      /\ rest' = Settled((IF taken THEN top.t ELSE top.f) \o Tail(rest))

LiftedNext == Lifting \/ Store \/ Branch

LiftedSpec == LiftedInit /\ [][LiftedNext]_lifted

-----------------------------------------------------------------------------
(* Every store, test and return of the function is one of the statements,  *)
(* in the same place of the same order, as long as the budget lasted: for  *)
(* forward branches however they are tangled, and for the loops of source  *)
(* programs.  Nothing is lost, repeated or added where paths merge, where  *)
(* a loop is left or taken up again, or where conditions were joined.      *)
SameBehaviour ==
  Executed /\ lift.budget > 0 => Processor.event = Reader

(* When the budget runs out the statements of a function without loops     *)
(* stop short, and what they show until then is right.                     *)
NeverInvents ==
  pc > 0 /\ Forward(fn.code) => Reader \in {Processor.event, <<"end">>}

(* Every instruction is in one block, a block is entered only at its first *)
(* instruction, and inside it nothing runs but the next instruction: what  *)
(* a run of register state passes over is straight.  A "ret" may stand     *)
(* before the end of a block, with dead code behind it, where the comment  *)
(* of BasicBlock promises a block that is left only at its end.            *)
BlocksPartition == pc = 1 => Partitioned(fn.code)

(* The loops a search can be made in. *)
LoopsOn(g) == {NoLoop} \cup [head : g.blocks, exit : g.blocks, tail : {0}]

Tangled(f) == f.kind = "goto" /\ ~Forward(f.code)

(* The searches of the lifter answer what they are asked, from whatever    *)
(* block, in whatever loop and with whatever other blocks lifted.          *)
ExactOn(g) ==
  \A start \in g.blocks, budget \in Budgets, loop \in LoopsOn(g) :
    /\ \A target \in g.blocks : ReachesExact(g, start, target, loop, budget)
    /\ \A visited \in SUBSET (g.blocks \ {start}) : TailExact(g, start, visited, loop, budget)

(* "Loops back" and "leaves for good" are what they say, however branches  *)
(* are tangled, unless the budget ran out.                                 *)
SearchesExact == pc = 1 /\ Tangled(fn) => ExactOn(Graph(fn.code))

(* The share of the budget, which all searches and forks have in common,   *)
(* that one search can take depends on the size of the function alone.     *)
CheapOn(g) ==
  \A start \in g.blocks, budget \in Budgets, loop \in LoopsOn(g) :
    /\ \A target \in g.blocks : ReachesCheap(g, start, target, loop, budget)
    /\ \A visited \in SUBSET (g.blocks \ {start}) : TailCheap(g, start, visited, loop, budget)

(* No search takes more than that, however branches are tangled: it ends   *)
(* where it has seen all it can get to.                                    *)
SearchesCheap == pc = 1 /\ Tangled(fn) => CheapOn(Graph(fn.code))
=============================================================================
