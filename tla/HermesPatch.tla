---------------------------- MODULE HermesPatch ----------------------------
(***************************************************************************)
(* HermesDecAssembler.assembleAndPatchFuncs (internal/hermes): one batch   *)
(* of edited functions is patched into a parsed file, function by function *)
(* in ascending order of the offsets they had when the batch began.        *)
(*                                                                         *)
(* Per function the code moves every other function that shares its body   *)
(* to a copy of its own, splices the new body in, moves and rewrites the   *)
(* headers, and places the function's jump tables out of line at the end   *)
(* of the bytecode segment.  Each of these is a step here, because each of *)
(* them can return an error that leaves the earlier ones in place.         *)
(***************************************************************************)
EXTENDS HBCFile

CONSTANTS
  Files,       \* the parsed files a session may start from
  Table,       \* the contents of jump tables
  NoTable,     \* the content recorded for a body without a switch
  Edits,       \* the edits a request may ask for: [code, table]
  CoEdits,     \* may a batch name two functions that start at one offset?
  MaxBatches   \* bound on the number of batches of a behaviour

ASSUME PatchAssumption ==
  /\ \A file \in Files :
       /\ WellFormed(file)
       /\ \A i \in Func : GetCode(file, i) \in Seq(Unit)
  /\ Edits \subseteq [code : Seq(Unit), table : Table \cup {NoTable}]
  /\ CoEdits \in BOOLEAN
  /\ MaxBatches \in Nat

VARIABLES
  file,       \* HermesDecAssembler.File
  phase,      \* where assembleAndPatchFuncs is
  changed,    \* changedSet: the functions of the batch
  todo,       \* those not patched yet
  start,      \* their offsets when the batch was ordered
  edit,       \* their new bodies
  cur,        \* the function being patched
  aliases,    \* the functions that still share its body and need a copy
  pending,    \* its switches whose table is not placed yet
  table,      \* history: the table content last requested per function
  batches     \* history: batches begun

batch   == <<changed, todo, start, edit>>
history == <<table, batches>>
vars    == <<file, phase, batch, cur, aliases, pending, history>>

-----------------------------------------------------------------------------
Switches(code) == {k \in 0 .. (Len(code) - 1) : code[k + 1] \in SwitchUnit}

Cells(code) == [k \in 1 .. Len(code) |-> CodeCell(code[k])]

(* changedFunctions: the text of f differs from its current disassembly. *)
Differs(f, e) ==
  \/ e.code # GetCode(file, f)
  \/ /\ e.code = GetCode(file, f)
     /\ \E k \in Switches(e.code) :
          LET a == TableAddress(file, f, k)
          IN  a \in Address(file) => file.raw[a] # TableCell(e.table, k)

NoCoEdit(S) ==
  \A f, g \in S : file.hdr[f].offset = file.hdr[g].offset => f = g

(* Reading the jump tables of f back finds what was last requested. *)
TablesResolve(f) ==
  \A k \in Switches(GetCode(file, f)) :
    LET a == TableAddress(file, f, k)
    IN  a \in Address(file) /\ file.raw[a] = TableCell(table[f], k)

(* An error return of assembleAndPatchFuncs. *)
Fail == phase' = "failed"

-----------------------------------------------------------------------------
(* Every new body is assembled before the first one is patched. *)
Begin(S) ==
  /\ phase = "idle"
  /\ batches < MaxBatches
  /\ S # {}
  /\ CoEdits \/ NoCoEdit(S)
  /\ edit' \in [S -> Edits]
  /\ \A f \in S : Differs(f, edit'[f])
  /\ phase' = "pick"
  /\ changed' = S
  /\ todo' = S
  /\ start' = [f \in S |-> file.hdr[f].offset]
  /\ batches' = batches + 1
  /\ UNCHANGED <<file, cur, aliases, pending, table>>

(* A mutant of Pick: the search for aliases starts behind f. *)
MutPickLaterAliases(f) ==
  /\ phase = "pick"
  /\ f \in todo
  /\ \A g \in todo : start[f] <= start[g]
  /\ cur' = f
  /\ todo' = todo \ {f}
  /\ aliases' = {i \in Func \ changed :
                   i > f /\ file.hdr[i].offset = file.hdr[f].offset}
  /\ phase' = "dedup"
  /\ UNCHANGED <<file, changed, start, edit, pending, history>>

(***************************************************************************)
(* The next function in sortIntsByOffset's order, and the functions        *)
(* deduplicateAliasedFunctions finds: not those of the batch itself.       *)
(***************************************************************************)
Pick(f) ==
  /\ phase = "pick"
  /\ f \in todo
  /\ \A g \in todo : start[f] <= start[g]
  /\ cur' = f
  /\ todo' = todo \ {f}
  /\ aliases' = {i \in Func \ (changed \cup {f}) :
                   file.hdr[i].offset = file.hdr[f].offset}
  /\ phase' = "dedup"
  /\ UNCHANGED <<file, changed, start, edit, pending, history>>

(* One round of deduplicateAliasedFunctions: alias i gets its own copy. *)
Deduplicate(i) ==
  LET h        == file.hdr[i]
      at       == SegmentEnd(file)
      copy     == [k \in 1 .. h.size |-> file.raw[h.offset + k - 1]]
      inserted == InsertBytesAt(file, at, copy)
      pointed  == PointAt(inserted, i, at)
  IN
  /\ phase = "dedup"
  /\ i \in aliases
  /\ \A j \in aliases : i <= j
  /\ IF End(h) > file.len
     THEN /\ Fail
          /\ UNCHANGED <<file, aliases>>
     ELSE \/ /\ ~AllFit(Inserted(file, at, copy), Func)
             /\ file' = inserted
             /\ Fail
             /\ UNCHANGED aliases
          \/ /\ AllFit(Inserted(file, at, copy), Func)
             /\ ~HeaderFits(pointed, i)
             /\ file' = pointed
             /\ Fail
             /\ UNCHANGED aliases
          \/ /\ AllFit(Inserted(file, at, copy), Func)
             /\ HeaderFits(pointed, i)
             /\ file' = WriteHeaders(pointed, {i})
             /\ aliases' = aliases \ {i}
             /\ UNCHANGED phase
  /\ UNCHANGED <<batch, cur, pending, history>>

(* The splice itself, once nobody outside the batch shares the body. *)
SpliceCode ==
  LET cells    == Cells(edit[cur].code)
      switches == Switches(edit[cur].code)
  IN
  /\ phase = "dedup"
  /\ aliases = {}
  /\ IF End(file.hdr[cur]) > file.len
     THEN /\ Fail
          /\ UNCHANGED <<file, pending, table>>
     ELSE /\ file' = ReplaceCode(file, cur, cells)
          /\ IF SpliceFits(file, cur, cells)
             THEN /\ phase' = IF switches = {} THEN "pick" ELSE "tables"
                  /\ pending' = switches
                  /\ table' = [table EXCEPT ![cur] = edit[cur].table]
             ELSE /\ Fail
                  /\ UNCHANGED <<pending, table>>
  /\ UNCHANGED <<batch, cur, aliases, batches>>

(* A mutant of PlaceTable: the table is not aligned. *)
MutPlaceTableUnaligned(k) ==
  LET at       == SegmentEnd(file)
      cells    == <<TableCell(edit[cur].table, k)>>
      inserted == InsertBytesAt(file, at, cells)
      inst     == inserted.hdr[cur].offset + k
  IN
  /\ phase = "tables"
  /\ k \in pending
  /\ \A j \in pending : k <= j
  /\ AllFit(Inserted(file, at, cells), Func)
  /\ file' = SetArg2(inserted, inst, at - inst)
  /\ pending' = pending \ {k}
  /\ phase' = IF pending = {k} THEN "pick" ELSE "tables"
  /\ UNCHANGED <<batch, cur, aliases, history>>

(* Place the table of the switch at position k, and point arg2 at it. *)
PlaceTable(k) ==
  LET at       == SegmentEnd(file)
      pad      == Padding(at)
      cells    == [n \in 1 .. (pad + 1) |->
                     IF n <= pad THEN PadCell ELSE TableCell(edit[cur].table, k)]
      inserted == InsertBytesAt(file, at, cells)
      inst     == inserted.hdr[cur].offset + k
  IN
  /\ phase = "tables"
  /\ k \in pending
  /\ \A j \in pending : k <= j
  /\ IF AllFit(Inserted(file, at, cells), Func)
     THEN /\ file' = SetArg2(inserted, inst, at + pad - inst)
          /\ pending' = pending \ {k}
          /\ phase' = IF pending = {k} THEN "pick" ELSE "tables"
     ELSE /\ file' = inserted
          /\ Fail
          /\ UNCHANGED pending
  /\ UNCHANGED <<batch, cur, aliases, history>>

(* AssemblePatchResult is returned. *)
Finish ==
  /\ phase = "pick"
  /\ todo = {}
  /\ phase' = "idle"
  /\ UNCHANGED <<file, batch, cur, aliases, pending, history>>

-----------------------------------------------------------------------------
Init ==
  /\ file \in Files
  /\ phase = "idle"
  /\ changed = {} /\ todo = {} /\ start = <<>> /\ edit = <<>>
  /\ cur = 0
  /\ aliases = {}
  /\ pending = {}
  /\ table \in [Func -> Table \cup {NoTable}]
  /\ \A i \in Func : TablesResolve(i)
  /\ \A i \in Func : Switches(GetCode(file, i)) = {} <=> table[i] = NoTable
  /\ batches = 0

Patch ==
  \/ \E f \in Func : Pick(f)
  \/ \E i \in Func : Deduplicate(i)
  \/ SpliceCode
  \/ \E k \in pending : PlaceTable(k)
  \/ Finish

Next == Patch \/ \E S \in SUBSET Func : Begin(S)

Spec == Init /\ [][Next]_vars

-----------------------------------------------------------------------------
(* The abstract store this engine implements. *)

Outstanding == todo \cup (IF phase = "dedup" THEN {cur} ELSE {})

Code   == [i \in Func |-> GetCode(file, i)]
Wanted == IF phase = "failed" THEN <<>>
          ELSE [f \in Outstanding |-> edit[f].code]

Store == INSTANCE FunctionStore WITH code <- Code, wanted <- Wanted

(***************************************************************************)
(* A patched file contains exactly the bodies that were asked for: every   *)
(* function outside a batch keeps its instructions through every splice,   *)
(* copy, shift and error return, and every function of it gets its own.    *)
(***************************************************************************)
ImplementsStore == Store!Spec

-----------------------------------------------------------------------------
(* The type invariant, which every batch keeps through every error return. *)
TypeOK ==
  /\ FileType(file)
  /\ phase \in {"idle", "pick", "dedup", "tables", "failed"}
  /\ changed \in SUBSET Func /\ todo \in SUBSET changed
  /\ start \in [changed -> Nat]
  /\ edit \in [changed -> Edits]
  /\ cur \in Func
  /\ aliases \in SUBSET Func
  /\ pending \in SUBSET Nat
  /\ table \in [Func -> Table \cup {NoTable}]
  /\ batches \in Nat

(***************************************************************************)
(* After every step that did not return an error, mid-batch or not, bodies *)
(* are shared whole or apart, sections keep their order, and parsing the   *)
(* image again gives the headers held in memory (hbc.go readFunctions      *)
(* undoes writeFunctionHeaderOffsetAndSize).                               *)
(***************************************************************************)
LayoutKept == phase # "failed" => WellFormed(file)

(***************************************************************************)
(* Once its tables are placed, the function just patched reads each of     *)
(* them back through arg2, whatever the padding and however many tables    *)
(* were inserted in front of one another.  The comment at                  *)
(* hermesdec_assembler.go:32 says otherwise of a function whose size       *)
(* changes: it "is rejected with an explicit error" and its table "is not  *)
(* recalculated".  The code has no such error; patchOneFunction places the *)
(* table anew, also where the size changes, and this is about what it does.*)
(***************************************************************************)
PlacedTablesResolve ==
  phase = "pick" /\ todo # changed => TablesResolve(cur)

(***************************************************************************)
(* AssembleAndPatch "does not touch any function whose .hasm text is       *)
(* byte-for-byte identical to the function's current disassembly": after a *)
(* batch, such a function should still disassemble to the same jump        *)
(* tables.                                                                 *)
(***************************************************************************)
UntouchedTablesResolve ==
  phase = "idle" => \A f \in Func \ changed : TablesResolve(f)

(***************************************************************************)
(* deduplicateAliasedFunctions says functions of the batch need no copy:   *)
(* they get "their own distinct bytecode regardless".                      *)
(***************************************************************************)
BatchApplied ==
  phase = "idle" /\ changed # {} =>
    \A f \in changed : GetCode(file, f) = edit[f].code

-----------------------------------------------------------------------------
(* Action properties. *)

(***************************************************************************)
(* A step that grows or shrinks the file by a multiple of the alignment    *)
(* leaves the handlers of every function with a large header where         *)
(* readFunctions will look for them, error return or not.                  *)
(***************************************************************************)
AlignedGrowthKeepsHandlers ==
  [][ \A i \in Func :
        (file'.len - file.len) % Align = 0 /\ HandlersRead(file, i)
          => HandlersRead(file', i) ]_vars
=============================================================================
