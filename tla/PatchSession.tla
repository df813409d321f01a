---------------------------- MODULE PatchSession ----------------------------
(***************************************************************************)
(* The interactive patcher (internal/hermes/repl.go): one user at a prompt *)
(* moves a cursor over a parsed file, overwrites cells in place (wx) or    *)
(* replaces the instruction under the cursor through the patch engine of   *)
(* HermesPatch (wi), saves the image (w, wq) and quits (q, q!, end of      *)
(* input).  A wi is a batch of one function; its steps are those of        *)
(* HermesPatch, and the prompt returns when phase is idle or failed.       *)
(***************************************************************************)
EXTENDS HermesPatch, SequencesExt

CONSTANTS
  Width,        \* the cells of an instruction, a function on the opcodes
  Zero,         \* the cell of an operand that is zero
  Replacements, \* the instructions a wi may put in the place of one
  Jump,         \* the jumps that have a longer form,
  Long,         \*   and that form, a function on Jump
  Written,      \* the runs of cells a wx may write
  None,         \* no function
  MaxWrites     \* bound on the number of wx commands

ASSUME SessionAssumption ==
  /\ DOMAIN Width \subseteq Unit /\ Width \in [DOMAIN Width -> Nat \ {0}]
  /\ Zero \in Unit
  /\ Replacements \subseteq Seq(Unit) \ {<<>>}
  /\ Jump \subseteq DOMAIN Width /\ Long \in [Jump -> Seq(Unit)]
  /\ \A j \in Jump : Len(Long[j]) >= Width[j]
  /\ None \notin Func
  /\ \A cells \in Written : Len(cells) \in Nat /\ DOMAIN cells = 1 .. Len(cells)
  /\ MaxWrites \in Nat

VARIABLES
  cursor,   \* Repl.Cursor
  dirty,    \* Repl.Dirty
  saved,    \* history: the image last parsed or completely written
  disk,     \* the file Repl.Path names
  open,     \* Run has not returned
  broken,   \* history: a wi has failed
  tampered, \* history: a wx wrote over a header
  writes    \* history: wx commands so far

hindsight   == <<broken, tampered, writes>>
engine      == <<phase, batch, cur, aliases, pending, history>>
sessionVars == <<vars, cursor, dirty, saved, disk, open, hindsight>>

-----------------------------------------------------------------------------
(* What is written to disk, and what a failed write may leave there. *)
Image(f) == [raw |-> f.raw, len |-> f.len]
Torn     == [raw |-> <<>>, len |-> 0]

(* funcAtOffset: the first function whose body contains address a. *)
FuncAtOffset(a) ==
  LET inside == {i \in Func : file.hdr[i].offset <= a /\ a < End(file.hdr[i])}
  IN  IF inside = {} THEN None ELSE CHOOSE i \in inside : \A j \in inside : i <= j

(***************************************************************************)
(* decodeInstruction: an opcode takes its operands with it, any other cell *)
(* is passed as an Unknown of one.  The instructions of a body start at    *)
(* its first cell and wherever the one before ends.  At the end of a body  *)
(* the operands that are cut off read as zero.                             *)
(***************************************************************************)
WidthOf(u) == IF u \in DOMAIN Width THEN Width[u] ELSE 1

(* p is reached: every set of positions that the walk stays in has it. *)
Starts(code) ==
  {p \in DOMAIN code :
     \A S \in SUBSET DOMAIN code :
       /\ 1 \in S
       /\ \A q \in S : q + WidthOf(code[q]) \in DOMAIN code
                        => q + WidthOf(code[q]) \in S
       => p \in S}

InstructionAt(code, p) ==
  [n \in 1 .. WidthOf(code[p]) |->
     IF p + n - 1 \in DOMAIN code THEN code[p + n - 1] ELSE Zero]

(***************************************************************************)
(* cmdWriteInstruction and the assembler: the instructions of a body, the  *)
(* one at position k replaced (by a longer or a shorter one), and any jump *)
(* the new distances put out of reach in its long form.  Distances are not *)
(* modelled: any set W of jumps may have to grow.                          *)
(***************************************************************************)
Rewritten(code, k, r, W) ==
  LET starts == Starts(code)
  IN  FlattenSeq([p \in 1 .. Len(code) |->
                    IF p \notin starts THEN <<>>
                    ELSE IF p = k THEN r
                    ELSE IF p \in W THEN Long[code[p]] ELSE InstructionAt(code, p)])

NewBodies(code, k) ==
  LET jumps == {p \in Starts(code) \ {k} : code[p] \in Jump}
  IN  {Rewritten(code, k, r, W) :
         r \in Replacements \ {InstructionAt(code, k)}, W \in SUBSET jumps}

(* The addresses the header tables and the file header occupy. *)
HeaderAddresses ==
  {0} \cup {file.hdr[i].small : i \in Func}
      \cup {file.hdr[i].large : i \in {j \in Func : file.hdr[j].overflowed}}

AtPrompt == open /\ phase = "idle"

-----------------------------------------------------------------------------
Seek(a) ==
  /\ AtPrompt
  /\ a \in Address(file)
  /\ cursor' = a
  /\ UNCHANGED <<vars, dirty, saved, disk, open, hindsight>>

SeekFunction(i) ==
  /\ AtPrompt
  /\ cursor' = file.hdr[i].offset
  /\ UNCHANGED <<vars, dirty, saved, disk, open, hindsight>>

(* A mutant of WriteBytes: the last bytes may lie past the end. *)
MutWriteBytesPast(cells) ==
  LET touched == cursor .. (cursor + Len(cells) - 1)
  IN
  /\ AtPrompt
  /\ writes < MaxWrites
  /\ cursor \in Address(file)
  /\ file' = WithRaw(file, [a \in Address(file) \cup touched |->
                             IF a \in touched THEN cells[a - cursor + 1]
                             ELSE file.raw[a]])
  /\ dirty' = TRUE
  /\ tampered' = (tampered \/ touched \cap HeaderAddresses # {})
  /\ writes' = writes + 1
  /\ UNCHANGED <<engine, cursor, saved, disk, open, broken>>

(* wx overwrites, it never changes the size of the file. *)
WriteBytes(cells) ==
  LET touched == cursor .. (cursor + Len(cells) - 1)
  IN
  /\ AtPrompt
  /\ writes < MaxWrites
  /\ touched \subseteq Address(file)
  /\ file' = WithRaw(file, Splice(file, cursor, Len(cells), cells))
  /\ dirty' = TRUE
  /\ tampered' = (tampered \/ touched \cap HeaderAddresses # {})
  /\ writes' = writes + 1
  /\ UNCHANGED <<engine, cursor, saved, disk, open, broken>>

(***************************************************************************)
(* wi up to the first change of the file.  The cursor has to be where an   *)
(* instruction starts (instructionIndexAt), the other instructions must be *)
(* ones the assembler knows, and the text must differ from what is there.  *)
(* Bound: no wi after a failed one.                                        *)
(***************************************************************************)
WriteInstruction ==
  LET f    == FuncAtOffset(cursor)
      code == GetCode(file, f)
      k    == cursor - file.hdr[f].offset + 1
  IN
  /\ AtPrompt
  /\ ~broken
  /\ f # None
  /\ k \in Starts(code)
  /\ \A p \in Starts(code) \ {k} : code[p] \in DOMAIN Width
  /\ \E body \in NewBodies(code, k) :
       edit' \in [{f} -> {e \in Edits : e.code = body}]
  /\ Begin({f})
  /\ UNCHANGED <<cursor, dirty, saved, disk, open, hindsight>>

(***************************************************************************)
(* The engine at work.  The prompt sets Dirty when it returns.  tampered   *)
(* stays: a header is rewritten under a mask (hbc.go:479-505), and what    *)
(* else a wx changed in it is still there.                                 *)
(***************************************************************************)
PatchStep ==
  /\ open
  /\ Patch
  /\ dirty' = (dirty \/ phase' = "idle")
  /\ UNCHANGED <<cursor, saved, disk, open, hindsight>>

(* wi returns the engine's error to the prompt. *)
Report ==
  /\ open
  /\ phase = "failed"
  /\ phase' = "idle"
  /\ broken' = TRUE
  /\ UNCHANGED <<file, batch, cur, aliases, pending, history,
                 cursor, dirty, saved, disk, open, tampered, writes>>

(* HBCFile.Write hashes the image into its own footer first. *)
Hashed == WithRaw(file, [file.raw EXCEPT ![file.len - 1] = FooterCell])

(* A mutant of Save: a failed write is reported, and the flag is cleared. *)
MutSaveForgets ==
  /\ AtPrompt
  /\ file' = Hashed
  /\ dirty' = FALSE
  /\ \/ disk' = Image(file') /\ saved' = Image(file')
     \/ disk' = Torn /\ UNCHANGED saved
  /\ UNCHANGED <<engine, cursor, open, hindsight>>

(* w, and wq without a path.  A write that fails has emptied the file. *)
Save ==
  /\ AtPrompt
  /\ file' = Hashed
  /\ \/ /\ disk' = Image(file')
        /\ saved' = Image(file')
        /\ dirty' = FALSE
     \/ /\ disk' = Torn
        /\ UNCHANGED <<dirty, saved>>
  /\ UNCHANGED <<engine, cursor, open, hindsight>>

(* wq with another path: the session ends if the write succeeds. *)
SaveElsewhere ==
  /\ AtPrompt
  /\ file' = Hashed
  /\ \/ /\ saved' = Image(file')
        /\ dirty' = FALSE
        /\ open' = FALSE
     \/ UNCHANGED <<dirty, saved, open>>
  /\ UNCHANGED <<engine, cursor, disk, hindsight>>

(* q, refused while dirty. *)
Quit ==
  /\ AtPrompt
  /\ ~dirty
  /\ open' = FALSE
  /\ UNCHANGED <<vars, cursor, dirty, saved, disk, hindsight>>

(* q!, and the end of the input. *)
Abandon ==
  /\ AtPrompt
  /\ open' = FALSE
  /\ UNCHANGED <<vars, cursor, dirty, saved, disk, hindsight>>

-----------------------------------------------------------------------------
(* Parse accepts a file only with the right hash in its footer. *)
SessionInit ==
  /\ Init
  /\ Hashed = file
  /\ cursor = 0
  /\ dirty = FALSE
  /\ saved = Image(file)
  /\ disk = Image(file)
  /\ open = TRUE
  /\ broken = FALSE
  /\ tampered = FALSE
  /\ writes = 0

SessionNext ==
  \/ \E a \in Address(file) : Seek(a)
  \/ \E i \in Func : SeekFunction(i)
  \/ \E cells \in Written : WriteBytes(cells)
  \/ WriteInstruction
  \/ PatchStep
  \/ Report
  \/ Save
  \/ SaveElsewhere
  \/ Quit
  \/ Abandon

SessionSpec == SessionInit /\ [][SessionNext]_sessionVars

-----------------------------------------------------------------------------
(* Every command leaves a file of the right shape and a cursor inside it. *)
SessionTypeOK ==
  /\ FileType(file)
  /\ cursor \in Address(file)
  /\ {dirty, open, broken, tampered} \subseteq BOOLEAN
  /\ writes \in 0 .. MaxWrites

(***************************************************************************)
(* q lets the user go without a warning only if no change is lost: at the  *)
(* prompt, a session that is not dirty shows exactly the image that was    *)
(* opened or that some w wrote out to its end, however many saves failed,  *)
(* unless a wi failed half way (see DirtyTracksMemory).  Repl.Path has     *)
(* that image too, or what a failed w left of it: the flag is about memory *)
(* and never warns of that.                                                *)
(***************************************************************************)
CleanIsSaved ==
  /\ phase = "idle" /\ ~dirty /\ ~broken => Image(file) = saved
  /\ open => disk \in {saved, Torn}

(***************************************************************************)
(* Opening the saved file again shows the functions the session shows:     *)
(* whatever mixture of wx and wi came before, the headers in the image     *)
(* decode to those in memory, unless a wx wrote over one of them or over   *)
(* the header of the file.                                                 *)
(***************************************************************************)
ReopenAgrees ==
  phase = "idle" /\ ~broken /\ ~tampered =>
    /\ file.raw[0] = FileHeaderCell(file.dbg, file.len)
    /\ \A i \in Func : ReadFunction(file, i) = HeaderCell(file.hdr[i].offset, file.hdr[i].size)

(***************************************************************************)
(* A wi leaves the cursor inside the function it edited, so that the next  *)
(* pd or wi acts on that one and on no former alias of it, however many    *)
(* copies were made, whichever jumps grew, and also when the body shrank.  *)
(***************************************************************************)
CursorStaysInFunction ==
  [][ phase = "pick" /\ phase' = "idle" => FuncAtOffset(cursor)' = cur ]_sessionVars

(***************************************************************************)
(* Repl.Dirty is "true if any write command has been applied since the     *)
(* last save".                                                             *)
(***************************************************************************)
DirtyTracksMemory ==
  phase = "idle" /\ ~dirty => Image(file) = saved

(***************************************************************************)
(* sf puts the cursor where the commands that look up "the function the     *)
(* cursor is currently in" find the body of the function sought, after any *)
(* edits: perhaps under the index of the first function that shares it, but *)
(* never a longer or shorter one that overlaps it.                         *)
(***************************************************************************)
SeekSelects ==
  [][ \A i \in Func :
        SeekFunction(i) /\ ~broken /\ file.hdr[i].size > 0 =>
          LET found == FuncAtOffset(cursor)'
          IN  /\ found # None
              /\ file.hdr[found].offset = file.hdr[i].offset
              /\ file.hdr[found].size = file.hdr[i].size ]_sessionVars
=============================================================================
