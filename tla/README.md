# DeStruct in TLA+

DeStruct is a Go program that decompiles JVM classes and archives, Hermes bytecode, ARM64 ELF
images and Flutter snapshots to source text, and edits Hermes bytecode in place.  This directory
holds TLA+ modules for the parts of it whose correctness is hard to see from the code and hard to
test, TLC configurations that check them on small instances, and TLAPS proofs of what matters
most, for every value of the constants.

## The system

| Component | State it keeps | Operations | What makes it correct |
|---|---|---|---|
| Hermes file (`internal/hermes/hbc.go`) | the raw image; decoded function headers with the places they came from; debug-info offset, file length | `Parse`, `getCode`, `writeFunctionHeaderOffsetAndSize`, `writeHeaderFields`, `SetCode`, `Write` | headers in memory and in the image agree; what the reader looks for is where the writer put it |
| Patch engine (`hermesdec_assembler.go`, second half) | that file, the batch being applied | `AssembleAndPatch`: compare, assemble, copy aliases, splice, move headers, place jump tables | exactly the requested bodies change; sections keep their order; jump tables and handlers are still found |
| Function assembler (`hermesdec_assembler.go`, first half) | edited lines, alignment with the current ones, the layout so far | align, resolve addresses, promote short jumps, encode | a jump lands on the line it meant; no jump is out of reach; the loop ends |
| Interactive patcher (`repl.go`) | file, cursor, dirty flag, path | `s sf wx wi w wq q q!` | unsaved changes are known; the file reopens to what is shown; commands act on the function under the cursor |
| Hermes decompiler (`decompiler.go`) | one function at a time: basic blocks, tokens | cut blocks, turn instructions into statements, print a dispatch loop | the printed loop takes the paths of the bytecode |
| Archive decompiler (`internal/pipeline`, `internal/jvm/pipeline.go`, `internal/java`) | current entry, totals, output files; the watchdog's view of the class in work | stream entries; warn when one takes long | the totals tell the truth about the files; a stall is reported; the call returns |
| JVM expression decoder (`internal/jvm/decoder.go`) | one method at a time: a stack of expressions, the statements so far | one case per opcode | the statements compute what the bytecode computes; each call is in them once |
| JVM statement recovery (`internal/jvm/decompiler.go`) | a budget of ranges still to be begun | some forty matchers for the shapes of loops, conditions, switches, handlers | the statements do what the branches do; no call is lost; recursion ends |
| ARM64 lifter (`internal/arm64lift`) | one function at a time: basic blocks, register values, pending calls, loop context, a budget | build the graph, lift runs of instructions, structure, render | the statements do what the code does; every call is printed once; the budget only cuts |
| Simple assembler, quick patcher (`assembler.go`, `smart_assembler.go`, `patcher.go`) | instructions with addresses, list of modifications | assemble with recalculation, patch in place | fixed-size edits stay in bounds |
| Readers of ELF, PE, unwind tables (`internal/native`), class files, opcode tables, IR, templates, CLI | none across calls | pure | - |

Components meet in three ways.  The interactive patcher and the command line both call the patch
engine, which calls the function assembler once for every function of a batch before it changes
anything, and then changes the one `HBCFile` all of them share; nothing is copied, so an error
in the middle is visible to whoever goes on.  What the assembler writes is what the decompiler
reads next.  The archive decompiler runs two goroutines that share a name and a time under a mutex
and meet through two channels; it is the only concurrency in the program.  Everything else is a
function call over data of its own.

Hard behaviours, each listed at its line in `PROJECT.json` under "hazards": a splice that moves
three kinds of offsets at once, in an order that depends on offsets it has itself moved; bodies
shared by several functions; error returns after half of the work; values cached across a change
(cursor, dirty flag, `arg2`, the watched class name); a fixed-point loop whose every step can
undo the reason for the last; failed or torn writes; a watchdog that must warn, and stop; a symbolic
register file in which one call has several names, and a symbolic stack whose expressions are
evaluated later than they were pushed; forks of a control flow graph that lift the same code
again in different loop contexts, on one budget.

## The modules

Hermes:

- **`HBCFile`** - the file as the engine holds it, and every operator on it: `Splice`,
  `ShiftHeaders`, `WriteHeaders` (with the prefix written before an error, `WriteUntilError`),
  `InsertBytesAt`, `ReplaceCode`, `SegmentEnd`, `TableAddress`, `InfoAddress`.  The image is a
  function from addresses to cells; a cell is one instruction, header, table or padding byte.
  Bytes, string tables and bit positions are abstracted; whether a value fits its field is not.
  `WellFormed` is the shape of a parsed file.
- **`FunctionStore`** - what patching promises: a store of bodies in which a request replaces the
  named ones one by one and no other body ever changes, also if it is abandoned half way.
- **`HermesPatch`** - `assembleAndPatchFuncs`.  One action per thing that can fail on its own:
  `Begin` (compare and assemble), `Pick` (next function in physical order, its aliases),
  `Deduplicate` (one alias gets its copy), `SpliceCode`, `PlaceTable`, `Finish`.  An error leaves
  `phase = "failed"` with the file as it is.  A refinement mapping shows that it implements
  `FunctionStore`.
- **`PatchSession`** - `Repl`: `Seek`, `SeekFunction`, `WriteBytes`, `WriteInstruction` (starts a
  batch of one), `PatchStep` (the engine's own actions, so that `Dirty` is set only at the end),
  `Report` (an error comes back), `Save` and `SaveElsewhere` (also failing), `Quit`, `Abandon`.  It extends
  `HermesPatch` and shares its variables, as `Repl` shares the file.  Here an instruction has a width: a cell that is an
  opcode takes its operands with it (`Starts`, `InstructionAt`), so that `NewBodies` puts a shorter, an equal or a longer
  instruction in the place of one, and an operand may come to stand where an opcode was.
- **`FunctionAssembler`** - one function from text to bytecode: the user's edits, `Align`
  (`alignInstructions` with prefix, suffix and LCS), `Resolve`, `LayoutPass` (one pass of the
  promotion loop), `Disassemble` (the next edit starts from the result).  A line is an opcode
  and its addresses; opcodes have sizes, short jumps a reach and some of them a long form.
- **`Decompiler`** - extends `FunctionAssembler`: a function before and after a patch, printed as
  `for(var _ip = 0; ; ) switch(_ip)`.  `Boundaries` are the ends of blocks, `Labelled` the
  statements with a `case`, `Dispatch` where `_ip = a; continue` leads; `CodeNext` and `PrintedNext`
  are one step of the bytecode and of the printed loop.

ARM64:

- **`BasicBlocks`** - instructions and `buildCFG`: `Leaders`, `Members`, `Succs`.
- **`BlockSearch`** - the searches that tell loops from other branches, with the budget they spend: `Reaches`
  (`reachesAddr`) and `FindTail` (`findDoWhileTail`), recursive functions over the state of a search; and what
  they are for, said without a search: `LeadsTo`, `Tails`.
- **`RegisterFile`** - the lifter's symbolic state and what each case of `run()` does to it: values and
  remembered addresses of `w` and `x` registers, the last comparison, calls whose result is still
  unread, the marks `consumed` and `printed`; one operator per mnemonic (`LiftMov`, `LiftStr`, `LiftCall`,
  ...) and `FlushRemaining` where a path ends.  An expression is its form and the calls inside it.
- **`StraightLine`** - one path: an action per mnemonic, with the processor's registers (`held`) and
  the fate of every call (`placed`) beside the lifter's.
- **`ControlFlow`** - `liftBlockGraph` and the shapes it tries in turn (`do`-`while`, `while`, chains of
  `||`, `if` with and without `else`, plain jumps as `break`, `continue` or a loop's exit), with the loop
  context, the visited set and the budget handed through as the code does.
- **`LiftedProgram`** - a function and what the lifter made of it, executed side by side: the processor and
  a reader of the statements both show stores, tests and returns.
- **`Compiler`** - how compilers lay out structured C, in the ways the lifter's comments describe: the
  environment, not a part of the program.

JVM:

- **`ExpressionStack`** - `decompileInstruction`, `decompileInvoke`, `decompileInvokedynamic` and the end
  of `decompileCode`, one action for each group of opcodes, with the JVM's own operand stack, local
  variables and effects beside it.  An expression is its form, the value it stands for and the events
  of evaluating it.
- **`StatementRecovery`** - the matchers for loops, `if`/`else`, chains of `else if`, `||`, guards and ternaries as
  recursive operators with the code's own names: `ControlFlowFrom` is the top of a method
  (`decompileControlFlow`), `Body` a range inside it (`decompileBlockBody`), which costs one unit of the
  budget; when none is left, `DecompileCode` prints the method flat.
- **`RecoveredMethod`** - `Recover` decompiles a method; then the JVM and a reader of the statements run side by
  side: `Call` when both make the same call next, `Answer` when both ask the same question.
- **`JavaCompiler`** - how `javac` lays out structured Java, with or without letting jumps to jumps lead on: the environment.
- **`JarStream`** - `decompileAndGenerateJVM`: the main goroutine takes an entry through
  `ReadEntry`, `ParseEntry`, `DecompileEntry`, `Announce`, `CreateFile`, `WriteFile`, any of which
  may fail or panic into `Skip`; then `CloseStop`, `Summarize`.  The watchdog is `OnTick`, `Warn`,
  `OnStop`.  `Time` is the ticker.

Proofs: **`HBCFile_proofs`**, **`HermesPatch_proofs`**, **`PatchSession_proofs`**,
**`FunctionAssembler_proofs`** (with those about `Decompiler`), **`StraightLine_proofs`**, **`LiftedProgram_proofs`** (with those
about `BasicBlocks` and `BlockSearch`), **`ExpressionStack_proofs`**, **`JarStream_proofs`**.
**`MC*`** are the small instances.  Where an operator is named as a mutant in its comment, it is the definition below it with
one plausible mistake, used to see that a property can fail.

## What the runs check

| Run | Question | Answer |
|---|---|---|
| `patch` | Do two batches of any edits over any of six small files keep the layout, the tables just placed, the handlers, and every body nobody asked to change? | yes |
| `session` | Does any mixture of commands, with bodies that grow and shrink, keep the cursor in its function, the dirty flag truthful about memory (a failed `wi` aside) and the file reopenable (a `wx` over a header aside)?  Does `sf` select the function, unless it has no code or shares it? | yes |
| `assemble` | Is the alignment a longest one, do edited functions keep the meaning of their jumps, is the promotion least, does every pass pay off?  Does the function, decompiled before and after, take the paths of the bytecode (conditions read as their negation)? | yes |
| `lift` | On every short path: is a remembered address the one in the register, is every call printed once and never lost?  On every small C program and every small tangle of branches: do the statements do what the code does, does the budget only cut, do blocks partition the code, do the searches for loops find what is there, miss nothing and spend no more than their share of the budget? | yes |
| `jvm` | Does every short straight method compute what its bytecode computes, with each call once, except where the expression stack is known to lose step?  Do the statements recovered from a regular method do what its branches do, and is no call lost, from these and from any with instance calls, also when the budget runs out? | yes |
| `jar` | Do the totals match entries and files, is a stalled class warned about (unless the class warned about before it has the same simple name), does the call return, with the watchdog silent after that? | yes |
| `patch_aliases` | Does a batch of two functions that share a body give each its own? (comment of `deduplicateAliasedFunctions`) | no |
| `patch_tables` | Do functions outside the batch still find their jump tables? (doc of `AssembleAndPatch`) | no, a splice moves switch and table together off the alignment that the reader rounds up to |
| `session_dirty` | Is the session dirty whenever memory differs from disk? (`Repl.Dirty`) | no, after a failed `wi` |
| `assemble_targets` | Does a jump nobody edited keep its target? (doc of `alignInstructions`) | no, after deleting an equal jump in front of it |
| `decompile_tests` | Is the printed jump taken when the instruction's condition holds? (comment in `decompiler.go`) | no, every condition is negated twice |
| `jar_stall` | Does the warning name the class that stalls? (comment in `pipeline.go`) | no, when it stalls before `onClass` |

The findings in `PROJECT.json` quote the lines.

### Bounds

- `patch`: three functions, so that a body can have a sharer on either side in index order and a
  neighbour; six files that cover shared, reordered, empty, overflowed and switching bodies;
  five edits that shrink, empty, grow by odd and even amounts and introduce two switches; alignment
  2, so that both paddings occur; limits of 11 for offsets and 3 for sizes, so that the header
  writers fail at every place they can; two batches, the second from what the first left.
- `session`: two files with shared, reordered and empty bodies; instructions of one and of two cells, each
  replaced by either, and a jump whose long form takes two, so that a `wi` shrinks, keeps or lengthens a body;
  one `wx` of two cells anywhere in the image, a cell that is no opcode in front of an opcode that may lose its operand;
  two batches.  No `wi` follows a failed one: what the code does on
  a half-patched file is not claimed to be anything.
- `assemble`: all functions of three lines over a plain line, a short jump and a switch, plus four
  longer ones in which growing one jump pushes another out of reach; two edits of any kind with
  an assembly before, between or after them; reach -3..3, sizes 1 to 3, so the extreme distances
  occur in both directions; at most 4 passes and an LCS table of 16 cells, so that both limits
  are hit.  For the decompiler, `a` leaves the function, `b` prints nothing, `j`, `J` and `n` test.
- `lift`, paths: two register numbers, one that calls overwrite and one that they keep, each under both
  names; three addresses, one a symbol and one a string; four instructions of any kind, two of them
  calls: enough for a result to be copied, moved on, overwritten by a second call and flushed.
- `lift`, functions: source programs of four statements (three when loops test `&&` and `||`), so that every
  kind of statement is met inside, before and after every other; every sequence of four stores, returns
  and branches that lead forward, and of three that lead anywhere; budgets of 300, which suffices, and
  3, which runs out at every depth.  Executions of loops are followed as long as new states appear; the reader
  takes at most 24 steps (`Patience`) to the next thing it shows, more than any of these programs needs.
- `lift`, searches: in the functions of three branches that lead anywhere, from every block, for every target,
  every set of other blocks already lifted and every loop the search could be made in.  The other functions
  are left out to keep the run short; `SearchesOfFunctions` is about all of them.
- `jvm`: five instructions of any kind over one local variable, with operators and stores of up to three operands
  and calls of up to two: an expression can be built, duplicated under another, overtaken, and
  dropped.
- `jvm`, branches: every source of three calls, returns, `if`s and `while`s with tests `a`, `a && b` and `a || b`,
  `if`/`else if` ladders, loops around each of them, `for (;;)` and empty `if`s, compiled with static and with instance
  calls and with both treatments of jumps to jumps; a budget of 1000, which suffices, and of 3, which runs out
  inside the first nested ranges.  Calls have no arguments, so a ternary appears only where
  something else is taken for one.
- `jar`: three archives (three classes, two of them with one simple name; two entries for one path; none),
  a threshold of one tick and time counted to two.

### Fairness

Only `JarStream` has liveness properties.  `Time`, `OnTick` and `Warn` are weakly fair: the clock
runs and the Go scheduler runs a goroutine that can go on.  `OnStop` is strongly fair: Go's `select`
picks at random among the channels that are ready, so a closed channel is not passed over forever
although a tick is ready again and again.  `CloseStop` and `Summarize` are weakly fair: they follow
the loop without waiting for anything but the watchdog.  The entry steps have no fairness: a class may take
forever, and the watchdog exists for that case.  So `Returns` starts from the end of the
loop, and `StallReported` needs no progress of the main goroutine.  The other modules are
sequential programs, driven by a user or by the instructions they read, without a promise of progress,
and check no deadlock because the user may stop and a function ends.  That the lifter's recursion ends is
part of the model: `ControlFlow` recurses as the code does, and TLC evaluates it to the end; likewise `StatementRecovery`.

## What is proved

`HermesPatch_proofs` shows `Spec => []TypeOK` and `Spec => []LayoutKept` for any number of functions,
any file, edits, alignment and field widths, under `CoEdits = FALSE` (no batch names two
functions that start at the same offset: without that restriction nothing is claimed about the layout, and the
content claim is false, see `patch_aliases`).  `LayoutKept` alone is not inductive: a splice keeps bodies apart only
if no other body overlaps the one replaced.  The invariant `Inv` adds why that is so: functions of the batch have
separate bodies (`BatchApart`), whoever still shares the body about to be
replaced is in `aliases` (`CurrentApart`), which is empty at the splice, and pending switches lie
inside the body just written (`PendingInside`), so that writing `arg2` hits no header.  The work
is in `HBCFile_proofs`: `SegmentEndBounds` (the insertion point lies behind every body and not
behind any large header), `InsertKeepsLayout`, `CopyKeepsLayout`, `ReplaceKeepsLayout` and
`SetArg2KeepsLayout`, one for each way the engine changes the image.  None of them reads a header from
the image: `Layout` is what they need of a file and keep, and `ImageAgrees` comes back with the headers that are
written.  `InvShape` splits `Inv` along the same line.  The assumptions are those
of the modules: `HBCAssumption` and `PatchAssumption`, the latter saying that a session starts
from well-formed files.  In these the footer is the last section: `SectionsInOrder` keeps large headers out of the last cell.

The second part of `HermesPatch_proofs` shows that the engine implements `FunctionStore`, under the same restriction:
`StoreImplemented` maps every step to one of the store or to a stutter.  `SameCode` says that
a header delimits the same units as before; one lemma for each change of the image keeps it for
every function but the one replaced (`WriteHeadersCode`, `InsertKeepsCode`, `CopyKeepsCode`, `SetArg2KeepsCode`,
`ReplaceKeepsCode`), because no header lies inside a body and, by `CurrentApart`, nobody else's
body is under the splice.  `MapInv` adds to `Inv` what the mapping needs of the batch: nothing is
outstanding at the prompt, and the function in work is no longer waiting.

The last part of `HermesPatch_proofs` shows what depends on an address rounded up, under the same restriction.  `PlacedTablesCorrect`: once its tables are placed,
the function just patched reads each of them through `arg2`.  `TablesInv` says it of every switch that is no longer
pending; a later table goes in front of the earlier ones, and because it brings its own padding, the
next address is aligned again and the distance covered by the earlier `arg2` does not change.
`AlignedGrowthCorrect`: a step, error returns included, that changes the length of the file by a multiple of the
alignment leaves every exception table where `readFunctions` rounds up to.

`PatchSession_proofs` shows every property of the session, with no restriction on batches: a `wi` edits one function.  `CleanIsSaved`
rests on `CleanInv`, which adds that the image last saved ends in its hash.  Whatever else changes the file either marks the
session dirty, or has left the prompt and comes back dirty (`PatchStep`) or broken (`Report`); a complete save makes
`saved` and memory equal, and one that fails finds the hash of a clean image in place already.
`SessionTypeCorrect`, `ReopenCorrect`, `CursorCorrect` and `SeekCorrect` follow from `SessionInv`.  The engine runs here
on files a `wx` has changed, so `Inv` cannot be taken over; `ShapeInv` can, since overwriting cells in place does not
move anything, and `ImageAgrees` holds until a `wx` touches a header.  `OneFunction` says where a `wi` is: the batch is the
one function that holds the cursor; until the splice its new body is known to reach past the cursor, afterwards it
shares it with nobody, and copies and tables go behind it.  A body may shrink, but only at and behind the cursor: what
stands in front of the replaced instruction keeps its length or grows (`NewBodiesReach`).  That is a fact about a
flattened sequence, whose length is the last of a chain of partial sums (`FlattenParts`); an instruction starts at the
cursor and no other one overlaps it, because the set of starts is the least that the walk through the body stays in (`StartsClosed`).

`FunctionAssembler_proofs` shows all five properties of the assembler and `PathsKept` of the decompiler, for any set of ops with
any sizes, any function, any text and any number of edits.  The assumptions are `AssemblerAssumption` (a jump has one
address, a long form is at least as long as its short one), `DecompilerAssumption`, and `ProgramAssumption`: the compiler wrote
jumps that lead to lines.  None of the properties is inductive; `AsmInv` adds the history the layout loop depends on.  The
alignment is still that of the two texts (`MatchInv`), every op is the line's own or its long form (`LinkInv`), every
target was resolved through the alignment (`TargetInv`), each pass so far promoted a jump (`PassInv`), and every choice
of long forms in which all short jumps reach contains the promotions made (`LeastInv`): a jump out of reach in a layout
stays out of reach when more jumps grow, since distances only stretch (`OffsetsStretch`, `FarInEvery`).
Offsets and the LCS table are recursive functions.  That they exist is shown step by step (`LayoutExists`, `TableExists`), and what
they compute by the least place where it would be something else: `IndexAtParts` finds the line at an address, and `LcsLongest` and `PairsBest` show
that reading the table back gives a longest matching.  `AlignmentBest` adds the common prefix and suffix, which cost nothing
(`CommonChain`).  A larger matching is compared line by line with `Rank`, the number of chosen lines up to a given one.  `EncodeParts` and
`PrintedFollows` carry the targets into the addresses of the new bytecode and from there into the printed blocks.

`StraightLine_proofs` shows for paths of any length, any registers, addresses and number of calls that a
call printed on its own is kept nowhere (`PrintedOnceHolds`), that a call marked as consumed was printed or
became part of a value, and that none is left over at the end (`NothingVanishesHolds`), and that a
remembered address is the processor's (`AddressesCurrentHolds`).  The first two rest on `CallsInv`: the lifter
is `Sound` (marks, names and the list of calls agree), `Once` (a call with the mark `printed` is in no
register) and what is consumed is placed.  The third rests on `AddressInv`, which
adds that `w` names carry no address and that the scratch registers of a callee are forgotten by both sides.
The assumptions are `PathAssumption` and those of `RegisterFile`.  `StraightTypeCorrect` rests on `TypedInv` alone: unlike
`Sound`, `Typed` also holds behind the flush that ends a path, and it follows every statement of a step to the call it prints
(`Told`).

`LiftedProgram_proofs` shows of every function, before a single statement of it is written, that the blocks partition the code
and that inside a block control only goes on to the next instruction or ends at a `ret` (`BlocksPartitionCorrect`), that no edge leads into the middle of a block (`EdgesLeadToBlocks`), and that the searches over
them are exact (`SearchesOfFunctions`, and from it `SearchesExactCorrect`; both from `ReachesIsExact` and `FindTailIsExact`, which are about any
graph) and cheap (`SearchesCheapCorrect`, from `ReachesIsCheap` and `FindTailIsCheap`).  What the
lifter calls a loop rests on these answers: which branch loops back, and which block ends a do-while loop.  A search is a loop
written as a recursive function; `LoopExists` shows that there is such a function when a natural number (here the
budget) gets less with every round, and `LoopRule` that what every round keeps holds where the loop ends.  Both searches are
`BreadthFirst`, and `KeptByRound` has the invariant they share: one gets from the start to whatever waits in the queue
(`Sound`), and what a block already seen leads to has been seen or waits (`Complete`); so when the queue is empty, the
blocks seen are a set that nothing leads out of.  `FindTail` makes the other search from each candidate's other side:
`ProbeParts` takes its exactness over, and what it may spend.  What is not found is known to be absent only while budget is
left; `Paid` shows when that is.  The budget gone, the addresses waiting and the price of the blocks still to be seen
(`Left`) add up to no more than they did at the start, so a search costs at most `ReachCost`, one unit and two for each block,
or `TailCost` where every block may ask `Reaches`, whatever the budget; with more than that when it begins, it
decides what it is asked (`ReachesDecides`, `FindTailDecides`).  The assumptions are `LiftedAssumption` (the target of a branch is an address),
and nothing is assumed of what `Recover` returns: these properties hold whatever is made of the function.

`ExpressionStack_proofs` shows all four properties of the expression decoder, for any local variables, any bound on
operands and methods of any length, from `StackAssumption` alone: `StackTypeCorrect`, `ComputationIsSame`, `NoEffectIsLost` and
`NoEffectIsTwice`.  None of the four is inductive.  `StackInv` adds to the type invariant that an object whose constructor has not
run is one word, in no local variable, and that its expression is the bare `new`; without that a constructor call could find
the wrong object.  `ExprsOK` says that an expression on the stack sets no local variable, that a name only reads, and that two
occurrences of one new object are the same expression, so that replacing both changes nothing else.  `EffectsOK` counts: what
the method does was done, each effect once.  `CompOK` compares the printed method with the whole run (`Agrees`) while the
histories are false, and one lemma, `AgreesAdded`, takes it over each step: an event added to the run and to the text, behind nothing it is
`Entangled` with, leaves them in agreement; `LocalsSet` gives it the value a local variable was read with.  Induction over
sequences is done by `EverySequence`: a set of sequences that has the empty one and with each its
extensions has them all, from the least length that refutes it.

`JarStream_proofs` shows for every archive type correctness (`TypeCorrect`), that each entry is counted once
(`CountsCorrect`), that the number reported is the number of complete files when paths differ (`FilesCorrect`),
and that the watchdog is silent after the totals (`SummaryIsLast`).  `FilesMatchCount` needs `WrittenBehind`: a
complete file belongs to an entry already gone through, so with distinct paths writing an entry always adds a file.

Only model-checked:

- what `ControlFlow` makes of a function (`SameBehaviour`, `NeverInvents`, `JumpsInLoops`): the operators that build the
  statements call each other as the code does, and a statement is a tree of any depth, so that a proof would be an
  induction over data;
- `StatementRecovery` and `RecoveredMethod` (`SameStatements`, `NoCallLost`), for the same reason;
- `StallReported` and `Returns`, since liveness under fairness and ENABLED are outside the prover's reach.

## What the lifter does not recover

`SameBehaviour` is about forward branches in any tangle and about the loops of the programs that
`Recoverable` admits; `AddressesCurrent`, `PrintedOnce` and `NothingVanishes` exclude what their comments name.
The models show why each exclusion is there:

- A do-while loop with a `break` or `return` at its own level passes the test for a while loop, which comes first
  (`lift.go:874`): the start of its body is printed once, in front of a while loop.  The comment at
  `lift.go:843` describes the opposite.
- A do-while loop that begins with another one, and one with a compound condition, are misread, and
  four of them nested drain the budget.
- `<<cbz 4, cbz 6, ret, str, b 1, str, b 1>>`: joining the two tests into `||` loses a block
  (the comment near `lift.go:735` calls the rewriting never lossy).
- `ret` after a write of `x0` alone returns the older `w0` (`lift.go:2362`); a load with an index register and
  a mnemonic without a case leave the old value in their destination.
- At an `if`, pending calls are flushed before the split, although both arms still hold and may print them (`lift.go:428`).
- `mov w0, w0` prints the call in `w0` and keeps it.  A call inside an arithmetic value that is thrown
  away disappears with it; stored and returned from one register it is printed in both.  A call
  waiting for its reader may come after a store that followed it.
- A search that runs out of budget answers "no" (`lift.go:586`), also the one made for `findDoWhileTail`, which takes it
  for "does not lead back" and answers with a tail where its comment (`lift.go:950`) says it answers with none.
  `ReachesExact` and `TailExact` therefore say what is not found only of a search with budget left.
  The lift itself stops at the next block then (`lift.go:331`).
- A block may have a `ret` before its end: `buildCFG` (`lift.go:82`) starts a new block behind branches, and `isAnyBranch`
  (`lift.go:170`) does not count `ret` among them, although the comment of `BasicBlock` (`lift.go:37`) says that control
  leaves a block only at its last instruction.  What stands behind such a `ret` in its block never runs, but it is
  lifted with the rest and printed behind the `return`.  `BlocksPartition` says what does hold.
- A loop back to the function's own first instruction is printed as a call of the function to itself (`lift.go:1441`).

## What the JVM statement recovery does not recover

The matchers look at where a branch leads and at the instruction in front of that place.  `SameStatements` is
about the sources that `Regular` (in `MCJVM`) admits, `NoCallLost` about these and all with instance calls.
What `Regular` leaves out, the code gets wrong, and the run shows it when the conjunct is removed:

- A loop at the top level in front of a `return`: its exit is a branch onto a return, so it is printed as
  `if (!c) return;` and its body once (`decompiler.go:1161`).
- `while (a && b)` becomes two loops inside each other, `while (a || b)` an `if`; `break`, `continue`, `do` and `for (;;)` have no matcher.
- `a || b` inside a block, or with an `else`: only the top level has `matchOrChainGuard`, and it ends where the
  last test leads.  An `if (a || b) {}` takes the statements behind it for its body.
- A test at the end of a loop body, or of an arm in front of an `else`: `javac` lets its branch lead where the
  following jump leads, and the place in front of that is not the arm's end.
- An `if`/`else` in front of a static call, with tests in both arms: both arms leave an expression on the
  scratch stack, so `matchGeneralTernary` takes them for values and the calls in them are lost.
- The `else` of `a && b` is decompiled once for each test, nested ones for each of those: the work is
  exponential in the nesting, and the budget is what ends it.
- The flat fallback ends at its first return, because `eliminateDeadCode` runs on it, and loses the calls made
  for a test, which `decompileFlatBranch` pops; the comment at `decompiler.go:136` says it processes every instruction.

## What else the models leave aside, and why

In the Hermes decompiler, `PathsKept` is about functions that are `Expressible`.  Others are not printed
faithfully by design of the code: `SwitchImm` becomes an empty token and falls through; a block that begins
with a line without a statement has no case label, and a jump there goes around the loop for ever; a
function of one block has no loop to `continue`; `StoreToEnvironment` prints an assignment to nothing; the
jumps that compare numbers (`JLessN`) and exception handlers become comments; `DecompileAll` prints the
global function and the closures created directly in it.

In `ExpressionStack` three history variables mark where the code loses step, and the properties
hold until then: `disturbed` (a statement overtook an expression that reads what it changes; two
words are moved as one expression; a concatenation of strings; opcodes without a case, such as the conversions of
numbers, the array accesses of chars and the monitors, and `ldc` of a method handle, a method type or a dynamic
constant, for which `decompileLdc` pushes nothing), `dropped` (`pop2`,
the captures of a lambda, expressions under a return) and `copied` (`dup` of a call).  `makeConcatWithConstants`
(`decoder.go:1247`) turns its operands around and drops the text between them in the recipe; with one operand it is
the operand itself that is left, so `"foo" + x` is printed as `x` (`Joined`).

A function with a `UIntSwitchImm` may change its size.  The comment at `hermesdec_assembler.go:32-38` says that this is
"rejected with an explicit error" and the table "not recalculated"; the code has no such error, and `patchOneFunction`
(`hermesdec_assembler.go:1331`) places the table anew whenever the function changes.  `PlacedTablesResolve` is about what the
code does, and holds in the cases the comment rules out.

`Repl.Dirty` is about memory: a `w` that fails in a session without changes has emptied the file (`os.WriteFile`, `hbc.go:1140`),
`cmdSave` (`repl.go:529`) returns before it touches the flag, and `q` leaves without a warning.  `CleanIsSaved` says that nothing
is lost from memory unnoticed, and of the file only that it has the saved image or what a failed save left.

In `JarStream`, the second of two stalls in a row of classes with one simple name is never warned about, since
`lastWarned` is a name (`pipeline.go:135`), although the comment above (`pipeline.go:111-115`) promises that "the person sees
which class it's stuck on".  `StallReported` demands a warning about the stalled entry itself, whatever was printed before,
and exempts that case alone (`SameNameWarnedLast`); in the archive with the classes A, B, A the third is not exempt when B was the last named.

In `FunctionAssembler` the addresses of a line are those the layout loop resolves; the default of a `UIntSwitchImm` is an
operand of its own there (`hermesdec.go:674`, `hermesdec_assembler.go:745-769`) that is resolved like a jump's and is left out of `Lines`.

`sf` on a function that shares its body selects the first of the sharers; on an empty one, another
function or none, although the help text (`repl.go:152`) promises the function.

## What is not modelled

- Of the JVM statement recovery: switches, exception tables, for-each loops, the matchers that begin with a
  constant (boolean values, toggles, array initialisers), and lambda bodies, whose decompilation starts the
  budget of the enclosing method afresh (`decompileCode` assigns the package variable).
- The simple assembler and the quick patcher: `AssembleWithRecalc` never changes a size, so its
  recalculation only rewrites operands; `Patcher` overwrites bytes without moving any.  `SetCode`, which
  splices without the copying of aliases, is `ReplaceCode` in `HBCFile`; only `SmartAssembler` calls it.
- Exception handler ranges inside a function, and `infoOffset` of small headers before version 97: a resize
  rewrites neither, so nothing could be claimed about them (a hazard without a property).
- Bit packing and version differences of headers, beyond whether a value fits; string, literal and regexp tables.
- Text: parsing and printing of `.hasm`, beyond which lines result; rendering and demangling of lifted code.
- Unknown opcodes in files edited as text: a body with one is refused before any change.  (`PatchSession` has them: a `wx`
  can leave any byte, and a `wi` is refused unless the one unknown instruction is the one replaced.)
- A `.hasm` file that lists one function twice; the last text wins and is applied twice.
- Class files, ELF, PE and unwind tables, opcode tables, IR, generators and the command line: parsing and
  formatting without state across calls.
- Vendored third-party code under `internal/flutter` and `test/`, which is more than half of the repository's lines.
