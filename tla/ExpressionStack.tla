-------------------------- MODULE ExpressionStack --------------------------
(***************************************************************************)
(* Bytecode of a JVM method printed as Java, without branches              *)
(* (decompileInstruction of internal/jvm/decoder.go, driven by             *)
(* decompileControlFlow and finished by decompileCode).  The decompiler    *)
(* keeps a stack of expressions.  An instruction pops the expressions of   *)
(* its operands and either pushes a larger one, to be printed when         *)
(* something consumes it, or prints a statement.  So the printed method    *)
(* does things in another order than the JVM: when a statement is printed, *)
(* not when the instruction runs.                                          *)
(*                                                                         *)
(* The JVM runs beside it.  A value is the number of the instruction that  *)
(* made it.  An expression is what happens when it is evaluated: a         *)
(* sequence of events, each with the values it gets.                       *)
(***************************************************************************)
EXTENDS Integers, SequencesExt

CONSTANTS
  Locals,    \* numbers of the local variables
  MaxArgs,   \* bound on the operands of a call
  MaxSteps   \* bound on the instructions of a method

ASSUME StackAssumption ==
  Locals \subseteq Nat \ {0} /\ MaxArgs \in Nat /\ MaxSteps \in Nat

VARIABLES
  words,     \* the JVM's operand stack; a long or double is two words
  locals,    \* the JVM's local variables
  raw,       \* the objects made by new whose constructor has not run
  did,       \* history: what each instruction does, and with which values
  stack,     \* exprStack: the expressions
  out,       \* history: the events of the statements printed so far
  ended,     \* the method has returned
  disturbed, \* history: an expression no longer says what was computed
  dropped,   \* history: an expression with an effect was thrown away
  copied     \* history: an expression with an effect is there twice

vars == <<words, locals, raw, did, stack, out, ended, disturbed, dropped, copied>>

-----------------------------------------------------------------------------
(* Events. *)

Event(what, at, in) == [what |-> what, at |-> at, in |-> in]

(* A call, or a store other than into a local variable. *)
IsEffect(e) == e.what = "effect"

HasEffect(events) == \E i \in DOMAIN events : IsEffect(events[i])

(* Two events that may not change places: effects, an effect and a read of
   the heap, a local variable read and set. *)
Ordered(a, b) ==
  \/ IsEffect(a) /\ b.what \in {"effect", "heap"}
  \/ IsEffect(b) /\ a.what \in {"effect", "heap"}
  \/ {a.what, b.what} \in {{"read", "set"}, {"set"}} /\ a.at = b.at

(* Some event of s and some event of t may not. *)
Entangled(s, t) == \E i \in DOMAIN s, j \in DOMAIN t : Ordered(s[i], t[j])

(* The value of a local variable that is not set: its argument. *)
Argument(x) == -x

-----------------------------------------------------------------------------
(* exprStack.  An expression has the form that the code looks at (a name is *)
(* an ir.LocalVar, new an ir.NewExpr), the value that it stands for, and   *)
(* its events.                                                             *)

Expr(form, val, events) == [form |-> form, val |-> val, events |-> events]

(* pop on an empty stack. *)
StackValue == Expr("name", 0, <<Event("read", 0, <<0>>)>>)

(* What n pops return, the one on top last, and what they leave. *)
Popped(n) ==
  [i \in 1 .. n |-> IF Len(stack) + i > n THEN stack[Len(stack) + i - n] ELSE StackValue]

(* A mutant of Below: a single pop leaves its expression on the stack. *)
MutBelowPeeks(n) == SubSeq(stack, 1, Len(stack) - (IF n = 1 THEN 0 ELSE n))

Below(n) == SubSeq(stack, 1, Len(stack) - n)

Values(exprs) == [i \in DOMAIN exprs |-> exprs[i].val]

EventsOf(exprs) == FlattenSeq([i \in DOMAIN exprs |-> exprs[i].events])

(* A mutant of ArgsOf: as popped. *)
MutArgsAsPopped(n) == Reverse(Popped(n))

(* The operands in the order they were pushed: binary operators pop the
   right one first, calls put every one popped in front of the others. *)
ArgsOf(n) == Popped(n)

-----------------------------------------------------------------------------
(* The JVM. *)

Step == Len(did) + 1

(* A value is one word or two. *)
WordsOf(v, wide) ==
  IF wide THEN <<[val |-> v, half |-> 1], [val |-> v, half |-> 2]>>
          ELSE <<[val |-> v, half |-> 0]>>

(* The method has not returned, nor reached the bound. *)
Running == ~ended /\ Len(did) < MaxSteps

(* The values that words hold. *)
WordValues(ws) ==
  FlattenSeq([i \in DOMAIN ws |-> IF ws[i].half = 2 THEN <<>> ELSE <<ws[i].val>>])

(* Those of the k words on top. *)
Operands(k) == WordValues(SubSeq(words, Len(words) - k + 1, Len(words)))

(* The lengths of the ends of the operand stack that hold n whole values. *)
Ends(n) ==
  {k \in IF Running THEN 0 .. Len(words) ELSE {} :
     /\ k > 0 => words[Len(words) - k + 1].half # 2
     /\ Len(Operands(k)) = n}

Executes(what, at, in) ==
  /\ Running
  /\ did' = Append(did, Event(what, at, in))

(* The words with k taken off and those of a result put on. *)
WordsAfter(k, result) == SubSeq(words, 1, Len(words) - k) \o result

(* None of the n values on top is an object that may not be used yet. *)
Initialised(k) == \A i \in DOMAIN Operands(k) : Operands(k)[i] \notin raw

-----------------------------------------------------------------------------
(* What becomes of the expressions. *)

Push(rest, e) ==
  /\ stack' = Append(rest, e)
  /\ UNCHANGED <<out, disturbed>>

(* A statement is printed while rest stays on the stack: what rest does will
   come after what the statement does. *)
Say(rest, events) ==
  /\ stack' = rest
  /\ out' = out \o events
  /\ disturbed' = (disturbed \/ Entangled(EventsOf(rest), events))

-----------------------------------------------------------------------------
(* One action for each group of cases. *)

(* Constants: iconst, bipush, ldc of a number, a string or a class ... *)
Constant ==
  \E wide \in BOOLEAN :
    /\ Executes("pure", Step, <<>>)
    /\ words' = words \o WordsOf(Step, wide)
    /\ Push(stack, Expr("other", Step, <<Event("pure", Step, <<>>)>>))
    /\ UNCHANGED <<locals, raw, ended, dropped, copied>>

Load(x) ==
  /\ Executes("read", x, <<locals[x]>>)
  /\ words' = words \o WordsOf(locals[x], FALSE)
  /\ Push(stack, Expr("name", locals[x], <<Event("read", x, <<locals[x]>>)>>))
  /\ UNCHANGED <<locals, raw, ended, dropped, copied>>

(* A local variable holds one word here: a long is stored like an int. *)
Store(x) ==
  \E k \in Ends(1) :
    LET e == ArgsOf(1)[1]
    IN
    /\ k = 1 /\ Initialised(k)
    /\ Executes("set", x, Operands(k))
    /\ words' = WordsAfter(k, <<>>)
    /\ locals' = [locals EXCEPT ![x] = Operands(k)[1]]
    /\ Say(Below(1), Append(e.events, Event("set", x, <<e.val>>)))
    /\ UNCHANGED <<raw, ended, dropped, copied>>

(* iinc is printed as x = x + delta at once. *)
Increment(x) ==
  /\ Executes("set", x, <<Step>>)
  /\ locals' = [locals EXCEPT ![x] = Step]
  /\ Say(stack, <<Event("read", x, <<locals[x]>>), Event("set", x, <<Step>>)>>)
  /\ UNCHANGED <<words, raw, ended, dropped, copied>>

(* Arithmetic, comparisons and checkcast; getstatic, getfield and the array
   loads read the heap.  A static of the class itself is a name to the code:
   that matters to pop only, which loses a read. *)
Operate(n, what) ==
  \E k \in Ends(n) :
    LET args == ArgsOf(n)
    IN
    /\ n > 0 \/ what = "heap"
    /\ Initialised(k)
    /\ Executes(what, Step, Operands(k))
    /\ words' = WordsAfter(k, WordsOf(Step, FALSE))
    /\ Push(Below(n), Expr("other", Step, Append(EventsOf(args), Event(what, Step, Values(args)))))
    /\ UNCHANGED <<locals, raw, ended, dropped, copied>>

(* putstatic, putfield and the array stores, of one, two and three operands:
   the object and the index are written in front of the value. *)
Put(n) ==
  \E k \in Ends(n) :
    LET args == ArgsOf(n)
    IN
    /\ Initialised(k)
    /\ Executes("effect", Step, Operands(k))
    /\ words' = WordsAfter(k, <<>>)
    /\ Say(Below(n), Append(EventsOf(args), Event("effect", Step, Values(args))))
    /\ UNCHANGED <<locals, raw, ended, dropped, copied>>

(* decompileInvoke: a call without a result is a statement.  newarray and
   anewarray are calls with a result here: made twice, it is two arrays. *)
Invoke(n, void) ==
  \E k \in Ends(n), wide \in BOOLEAN :
    LET args   == ArgsOf(n)
        events == Append(EventsOf(args), Event("effect", Step, Values(args)))
    IN
    /\ void => ~wide
    /\ Initialised(k)
    /\ Executes("effect", Step, Operands(k))
    /\ words' = WordsAfter(k, IF void THEN <<>> ELSE WordsOf(Step, wide))
    /\ IF void THEN Say(Below(n), events)
               ELSE Push(Below(n), Expr("other", Step, events))
    /\ UNCHANGED <<locals, raw, ended, dropped, copied>>

New ==
  /\ Executes("pure", Step, <<>>)
  /\ words' = words \o WordsOf(Step, FALSE)
  /\ raw' = raw \cup {Step}
  /\ Push(stack, Expr("new", Step, <<>>))
  /\ UNCHANGED <<locals, ended, dropped, copied>>

(* A mutant of AfterInit: the duplicate of the new object stays. *)
MutAfterInitTwice(n, e) == Append(Below(n + 1), e)

(* The constructed object replaces its duplicate. *)
AfterInit(n, e) ==
  LET rest == Below(n + 1)
      dup  == rest # <<>> /\ rest[Len(rest)].form = "new" /\ rest[Len(rest)].val = e.val
  IN  Append(IF dup THEN SubSeq(rest, 1, Len(rest) - 1) ELSE rest, e)

(* invokespecial <init>: the object is the one new has pushed, now with its
   arguments, wherever else it is on the stack.  Its duplicate must be there
   and no third one. *)
Construct(n) ==
  \E k \in Ends(n + 1) :
    LET args   == ArgsOf(n + 1)
        obj    == Operands(k)[1]
        found  == args[1].form = "new"
        made   == Expr("new", args[1].val,
                       Append(EventsOf(Tail(args)), Event("effect", Step, Values(args))))
        after  == AfterInit(n, made)
        isMade == {i \in DOMAIN after : after[i].form = "new" /\ after[i].val = made.val}
        places == {i \in DOMAIN words : words[i].val = obj}
    IN
    /\ obj \in raw
    /\ \A i \in 2 .. (n + 1) : Operands(k)[i] \notin raw
    /\ Executes("effect", Step, Operands(k))
    /\ words' = WordsAfter(k, <<>>)
    /\ raw' = raw \ {obj}
    /\ stack' = IF found THEN [i \in DOMAIN after |-> IF i \in isMade THEN made ELSE after[i]]
                         ELSE Below(n + 1)
    /\ disturbed' = (disturbed \/ ~found \/ places # {Len(words) - k, Len(words) - k + 1})
    /\ dropped' = (dropped \/ ~found \/ HasEffect(args[1].events))
    /\ copied' = (copied \/ (found /\ Cardinality(isMade) > 1))
    /\ UNCHANGED <<locals, out, ended>>

(* dup, dup_x1, dup_x2, dup2, dup2_x1, dup2_x2, swap: how many are taken, and
   which of them are given back, bottom first. *)
Shuffles ==
  {[take |-> 1, give |-> <<1, 1>>],       [take |-> 2, give |-> <<2, 1, 2>>],
   [take |-> 3, give |-> <<3, 1, 2, 3>>], [take |-> 2, give |-> <<1, 2, 1, 2>>],
   [take |-> 3, give |-> <<2, 3, 1, 2, 3>>],
   [take |-> 4, give |-> <<3, 4, 1, 2, 3, 4>>], [take |-> 2, give |-> <<2, 1>>]}

(* The JVM moves words, the decompiler expressions. *)
Shuffle(s) ==
  LET top   == Popped(s.take)
      tops  == SubSeq(words, Len(words) - s.take + 1, Len(words))
      moved == [i \in DOMAIN s.give |-> top[s.give[i]]]
      whole == WordsAfter(s.take, [i \in DOMAIN s.give |-> tops[s.give[i]]])
  IN
  /\ Running /\ Len(words) >= s.take
  /\ \A i \in DOMAIN whole : whole[i].half = 1 <=> (i < Len(whole) /\ whole[i + 1].half = 2)
  /\ \A i \in DOMAIN whole : i > 1 /\ whole[i].half = 2 => whole[i - 1].half = 1
  /\ Executes("pure", Step, <<>>)
  /\ words' = whole
  /\ stack' = IF Len(stack) >= s.take THEN Below(s.take) \o moved ELSE stack
  /\ disturbed' = (\/ disturbed
                   \/ \E i \in DOMAIN tops : tops[i].half # 0
                   \/ \E i, j \in DOMAIN top : i # j /\ Entangled(top[i].events, top[j].events))
  /\ copied' = (\/ copied
                \/ \E i \in DOMAIN top : HasEffect(top[i].events)
                     /\ Cardinality({m \in DOMAIN s.give : s.give[m] = i}) > 1)
  /\ UNCHANGED <<locals, raw, out, ended, dropped>>

(* A mutant of IsStatement: an object made for its constructor's sake is lost. *)
MutOnlyOther(e) == e.form = "other"

(* A name alone is no statement. *)
IsStatement(e) == e.form # "name"

Discard ==
  LET e == Popped(1)[1]
  IN
  /\ 1 \in Ends(1) /\ Initialised(1)
  /\ Executes("pure", Step, <<>>)
  /\ words' = WordsAfter(1, <<>>)
  /\ Say(Below(1), IF IsStatement(e) THEN e.events ELSE <<>>)
  /\ UNCHANGED <<locals, raw, ended, dropped, copied>>

(* pop2: two expressions go without a trace, also for one long. *)
Discard2 ==
  \E n \in {1, 2} :
    /\ 2 \in Ends(n) /\ Initialised(2)
    /\ Executes("pure", Step, <<>>)
    /\ words' = WordsAfter(2, <<>>)
    /\ stack' = Below(2)
    /\ disturbed' = (disturbed \/ n = 1)
    /\ dropped' = (dropped \/ HasEffect(EventsOf(Popped(2))))
    /\ UNCHANGED <<locals, raw, out, ended, copied>>

(* What makeConcatWithConstants makes of its operands: one is taken as it is. *)
Joined(args) ==
  IF Len(args) = 1
    THEN args[1]
    ELSE Expr("other", Step, Append(EventsOf(args), Event("pure", Step, Values(args))))

(* The operands are turned around, and the text between them in the recipe is
   left out: the expression is never the string that the bytecode makes. *)
Concat(n) ==
  \E k \in Ends(n) :
    /\ Initialised(k)
    /\ Executes("pure", Step, Operands(k))
    /\ words' = WordsAfter(k, WordsOf(Step, FALSE))
    /\ stack' = Append(Below(n), Joined(Reverse(ArgsOf(n))))
    /\ disturbed' = TRUE
    /\ UNCHANGED <<locals, raw, out, ended, dropped, copied>>

(* A lambda or a method reference: what it captures is popped. *)
Lambda(n) ==
  \E k \in Ends(n) :
    /\ Initialised(k)
    /\ Executes("pure", Step, Operands(k))
    /\ words' = WordsAfter(k, WordsOf(Step, FALSE))
    /\ stack' = Append(Below(n), Expr("other", Step, <<Event("pure", Step, <<>>)>>))
    /\ disturbed' = (disturbed \/ n > 0)
    /\ dropped' = (dropped \/ HasEffect(EventsOf(Popped(n))))
    /\ UNCHANGED <<locals, raw, out, ended, copied>>

(* Opcodes without a case: the conversions of numbers, the array loads and
   stores of chars, multianewarray, monitors; and ldc of a method handle, a
   method type or a dynamic constant.  The expressions stay. *)
Unhandled(n, result) ==
  \E k \in Ends(n) :
    /\ n > 0 \/ result
    /\ Initialised(k)
    /\ Executes(IF result THEN "pure" ELSE "effect", Step, Operands(k))
    /\ words' = WordsAfter(k, IF result THEN WordsOf(Step, FALSE) ELSE <<>>)
    /\ disturbed' = TRUE
    /\ dropped' = (dropped \/ ~result)
    /\ UNCHANGED <<locals, raw, stack, out, ended, copied>>

(* The events of the expressions left over: decompileCode prints all but
   names, and eliminateDeadCode takes what is behind a return away. *)
Return(n) ==
  \E k \in Ends(n) :
    LET args == ArgsOf(n)
    IN
    /\ Initialised(k)
    /\ Executes("pure", Step, Operands(k))
    /\ words' = WordsAfter(k, <<>>)
    /\ stack' = <<>>
    /\ out' = out \o Append(EventsOf(args), Event("pure", Step, Values(args)))
    /\ ended' = TRUE
    /\ disturbed' = (disturbed \/ Below(n) # <<>>)
    /\ dropped' = (dropped \/ HasEffect(EventsOf(Below(n))))
    /\ UNCHANGED <<locals, raw, copied>>

Init ==
  /\ words = <<>> /\ raw = {} /\ did = <<>> /\ stack = <<>> /\ out = <<>>
  /\ locals = [x \in Locals |-> Argument(x)]
  /\ ended = FALSE /\ disturbed = FALSE /\ dropped = FALSE /\ copied = FALSE

Next ==
  \/ Constant
  \/ \E x \in Locals : Load(x) \/ Store(x) \/ Increment(x)
  \/ \E n \in 0 .. 2, what \in {"pure", "heap"} : Operate(n, what)
  \/ \E n \in 1 .. 3 : Put(n)
  \/ \E n \in 0 .. MaxArgs, void \in BOOLEAN : Invoke(n, void)
  \/ New
  \/ \E n \in 0 .. MaxArgs : Construct(n)
  \/ \E s \in Shuffles : Shuffle(s)
  \/ Discard
  \/ Discard2
  \/ \E n \in 1 .. MaxArgs : Concat(n)
  \/ \E n \in 0 .. MaxArgs : Lambda(n)
  \/ \E n \in 0 .. 3, result \in BOOLEAN : Unhandled(n, result)
  \/ \E n \in {0, 1} : Return(n)

Spec == Init /\ [][Next]_vars

-----------------------------------------------------------------------------
(* Everything the printed method does, if the stack were printed now. *)
Method == out \o EventsOf(stack)

(* The effects among events, and the sets of local variable x, in order. *)
Effects(events) ==
  FlattenSeq([i \in DOMAIN events |-> IF IsEffect(events[i]) THEN <<events[i]>> ELSE <<>>])

IsSet(e, x) == e.what = "set" /\ e.at = x

Sets(events, x) ==
  FlattenSeq([i \in DOMAIN events |-> IF IsSet(events[i], x) THEN <<events[i]>> ELSE <<>>])

(* The value of local variable x after events. *)
ValueAfter(events, x) ==
  IF Sets(events, x) = <<>> THEN Argument(x) ELSE Last(Sets(events, x)).in[1]

(* What comes before the i-th event. *)
Before(events, i) == SubSeq(events, 1, i - 1)

(* The instructions with an effect, and the times each is in the method. *)
EffectSteps == {i \in DOMAIN did : IsEffect(did[i])}

Times(i) == Cardinality({j \in DOMAIN Method : IsEffect(Method[j]) /\ Method[j].at = i})

(***************************************************************************)
(* The type invariant: there is an expression for every value, as long as  *)
(* nothing has come between them.                                          *)
(***************************************************************************)
StackTypeOK ==
  /\ \A i \in DOMAIN stack : stack[i].form \in {"name", "new", "other"}
  /\ locals \in [Locals -> (1 .. Len(did)) \cup {Argument(x) : x \in Locals}]
  /\ ~ended /\ ~disturbed => Values(stack) = Operands(Len(words))

(***************************************************************************)
(* Unless a statement overtook an expression that it may not overtake, the *)
(* printed method does what the bytecode does: every operation gets the    *)
(* operands it got, every variable and every field is read when it has the *)
(* value it had, and the effects are in order.                             *)
(***************************************************************************)
SameComputation ==
  ~disturbed /\ ~copied /\ ~dropped =>
    /\ Effects(Method) = Effects(did)
    /\ \A x \in Locals : Sets(Method, x) = Sets(did, x)
    /\ \A i \in DOMAIN Method :
         LET e == Method[i]
         IN  /\ e.what = "read" => ValueAfter(Before(Method, i), e.at) = e.in[1]
             /\ e.what \in {"pure", "heap"} => e.in = did[e.at].in
             /\ e.what = "heap" =>
                  Len(Effects(Before(Method, i))) = Len(Effects(Before(did, e.at)))

(***************************************************************************)
(* A call or a store is lost only where its expression is thrown away      *)
(* (pop2, the captures of a lambda, under a return), whatever is out of    *)
(* order or out of step.                                                   *)
(***************************************************************************)
NoEffectLost == ~dropped => \A i \in EffectSteps : Times(i) > 0

(***************************************************************************)
(* It is printed twice only where its expression was duplicated.           *)
(***************************************************************************)
NoEffectTwice == ~copied => \A i \in EffectSteps : Times(i) <= 1
=============================================================================
