------------------------------ MODULE HBCFile ------------------------------
(***************************************************************************)
(* A parsed Hermes bytecode file as internal/hermes keeps it in memory     *)
(* (type HBCFile): the raw image, the function headers decoded from it,    *)
(* and the two file-level offsets that a change of size must move.         *)
(*                                                                         *)
(* The image is a function from addresses to cells.  A cell stands for one *)
(* instruction, one header or one jump table; only the control of the      *)
(* patch engine depends on what a cell is, so bytes are not modelled.      *)
(* Everything here is a constant-level operator on such a record; the      *)
(* modules HermesPatch and PatchSession drive them.                        *)
(***************************************************************************)
EXTENDS Integers, Sequences, FiniteSets

CONSTANTS
  FunctionCount, \* number of entries of the function header table
  Unit,          \* what an instruction cell can hold
  SwitchUnit,    \* the units that are UIntSwitchImm instructions
  Align,         \* alignment of out-of-line data (4 in the code)
  MaxOffset,     \* largest offset a small header stores (25 bits in the code)
  MaxSize        \* largest size a small header stores (14 or 15 bits)

ASSUME HBCAssumption ==
  /\ FunctionCount \in Nat \ {0}
  /\ SwitchUnit \subseteq Unit
  /\ Align \in Nat \ {0}
  /\ MaxOffset \in Nat /\ MaxSize \in Nat

Func == 0 .. (FunctionCount - 1)

-----------------------------------------------------------------------------
(* Cells. *)

CodeCell(u)         == [unit |-> u, arg2 |-> 0]
TableCell(t, k)     == [table |-> t, inst |-> k]
InfoCell(i)         == [handlers |-> i]
PadCell             == [pad |-> 0]
HeaderCell(o, s)    == [offset |-> o, size |-> s]
PointerCell(p)      == [pointer |-> p]
FileHeaderCell(d,l) == [debugInfoOffset |-> d, fileLength |-> l]
FooterCell          == [sha1 |-> 0]

(***************************************************************************)
(* SmallFunctionHeader: the fields a patch reads or writes.  large is      *)
(* meaningful only when overflowed.                                        *)
(***************************************************************************)
FunctionHeader ==
  [offset : Nat, size : Nat, overflowed : BOOLEAN, large : Nat, small : Nat]

Address(file) == 0 .. (file.len - 1)
End(h)        == h.offset + h.size

(* getCode: the instructions a header delimits in the raw image, whatever
   cells it finds there. *)
NotCode    == "not an instruction"
UnitOf(c)  == IF "unit" \in DOMAIN c THEN c.unit ELSE NotCode

GetCode(file, i) ==
  [k \in 1 .. file.hdr[i].size |-> UnitOf(file.raw[file.hdr[i].offset + k - 1])]

(***************************************************************************)
(* What readFunctions decodes for function i: the small header itself, or  *)
(* the large header its pointer locates.                                   *)
(***************************************************************************)
ReadFunction(file, i) ==
  LET small == file.raw[file.hdr[i].small]
  IN  IF file.hdr[i].overflowed THEN file.raw[small.pointer] ELSE small

-----------------------------------------------------------------------------
(* bytecodeSegmentEnd: the first large header, or the debug info. *)

SegmentLimits(file) ==
  {file.dbg} \cup {file.hdr[i].large : i \in {j \in Func : file.hdr[j].overflowed}}

SegmentEnd(file) ==
  CHOOSE e \in SegmentLimits(file) : \A x \in SegmentLimits(file) : e <= x

(* The padding that aligns address a, and a after it. *)
Padding(a) == (Align - (a % Align)) % Align
AlignUp(a) == a + Padding(a)

-----------------------------------------------------------------------------
(***************************************************************************)
(* The image with the old cells at address at replaced by the sequence     *)
(* cells: the copy into a fresh slice that SetCode, patchOneFunction and   *)
(* insertBytesAt (with old = 0) all perform.                               *)
(***************************************************************************)
Splice(file, at, old, cells) ==
  [a \in 0 .. (file.len - old + Len(cells) - 1) |->
     IF a < at THEN file.raw[a]
     ELSE IF a < at + Len(cells) THEN cells[a - at + 1]
     ELSE file.raw[a - Len(cells) + old]]

(***************************************************************************)
(* Mutants of ShiftHeaders: the guards dropped, the address itself left    *)
(* out, the large headers taken to stay where they are.                    *)
(***************************************************************************)
MutShiftEverything(hdr, from, delta, kept) ==
  [i \in Func |->
     [hdr[i] EXCEPT !.offset = IF i \in kept THEN @ ELSE @ + delta,
                    !.large  = @ + delta,
                    !.small  = @ + delta]]

MutShiftPast(hdr, from, delta, kept) ==
  [i \in Func |->
     [hdr[i] EXCEPT !.offset = IF i \notin kept /\ @ > from THEN @ + delta ELSE @,
                    !.large  = IF hdr[i].overflowed /\ @ > from THEN @ + delta ELSE @,
                    !.small  = IF @ > from THEN @ + delta ELSE @]]

MutShiftCodeOnly(hdr, from, delta, kept) ==
  [i \in Func |->
     [hdr[i] EXCEPT !.offset = IF i \notin kept /\ @ >= from THEN @ + delta ELSE @]]

(***************************************************************************)
(* Add delta to every header field at or past address from; the function   *)
(* whose own code is replaced keeps its offset (kept = {} when code is     *)
(* only inserted).                                                         *)
(***************************************************************************)
ShiftHeaders(hdr, from, delta, kept) ==
  [i \in Func |->
     [offset     |-> IF i \notin kept /\ hdr[i].offset >= from
                     THEN hdr[i].offset + delta ELSE hdr[i].offset,
      size       |-> hdr[i].size,
      overflowed |-> hdr[i].overflowed,
      large      |-> IF hdr[i].overflowed /\ hdr[i].large >= from
                     THEN hdr[i].large + delta ELSE hdr[i].large,
      small      |-> IF hdr[i].small >= from
                     THEN hdr[i].small + delta ELSE hdr[i].small]]

(* writeHeaderFields. *)
WriteHeaderFields(raw, dbg, flen) ==
  [raw EXCEPT ![0] = FileHeaderCell(dbg, flen)]

(* The same file with another image. *)
WithRaw(file, raw) ==
  [raw |-> raw, hdr |-> file.hdr, len |-> file.len,
   dbg |-> file.dbg, flen |-> file.flen]

-----------------------------------------------------------------------------
(* writeFunctionHeaderOffsetAndSize. *)

(***************************************************************************)
(* No error return of the writer: the header lies inside the image and its *)
(* values fit.  A large header stores them in 32 bits, and the pointer to  *)
(* it takes 32 bits or more, so only small headers can run out of room.    *)
(***************************************************************************)
HeaderFits(file, i) ==
  LET h == file.hdr[i]
  IN  /\ h.small \in Address(file)
      /\ IF h.overflowed
         THEN h.large \in Address(file)
         ELSE h.offset <= MaxOffset /\ h.size <= MaxSize

SmallCell(h) ==
  IF h.overflowed THEN PointerCell(h.large) ELSE HeaderCell(h.offset, h.size)

LargeCell(h) == HeaderCell(h.offset, h.size)

(* Serialize the headers of the functions in S. *)
WriteHeaders(file, S) ==
  WithRaw(file,
    [a \in Address(file) |->
       IF \E i \in S : file.hdr[i].small = a
       THEN SmallCell(file.hdr[CHOOSE i \in S : file.hdr[i].small = a])
       ELSE IF \E i \in S : file.hdr[i].overflowed /\ file.hdr[i].large = a
       THEN LargeCell(file.hdr[CHOOSE i \in S :
              file.hdr[i].overflowed /\ file.hdr[i].large = a])
       ELSE file.raw[a]])

(***************************************************************************)
(* The loop over S in index order that returns at the first header that    *)
(* does not fit: the headers before it have been written.                  *)
(***************************************************************************)
AllFit(file, S) == \A i \in S : HeaderFits(file, i)

WriteUntilError(file, S) ==
  WriteHeaders(file, {i \in S : \A j \in S : j <= i => HeaderFits(file, j)})

-----------------------------------------------------------------------------
(***************************************************************************)
(* insertBytesAt: insert cells at address at, move everything at or past   *)
(* it, then write every header.  Inserted is the file before that last     *)
(* loop; InsertBytesAt the file after it, and AllFit(Inserted(..), Func)   *)
(* says whether the loop ran to its end.                                   *)
(***************************************************************************)
Inserted(file, at, cells) ==
  LET n == Len(cells)
  IN  [raw  |-> WriteHeaderFields(Splice(file, at, 0, cells),
                                  file.dbg + n, file.flen + n),
       hdr  |-> ShiftHeaders(file.hdr, at, n, {}),
       len  |-> file.len + n,
       dbg  |-> file.dbg + n,
       flen |-> file.flen + n]

InsertBytesAt(file, at, cells) ==
  WriteUntilError(Inserted(file, at, cells), Func)

(***************************************************************************)
(* The splice of patchOneFunction and of SetCode: function f's code is     *)
(* replaced and what lies past its old end moves.  Headers are written for *)
(* f first, then (only when the size changed) for the others; the          *)
(* file-level header comes last.  Spliced is the file before the writes.   *)
(***************************************************************************)
Spliced(file, f, cells) ==
  LET h     == file.hdr[f]
      delta == Len(cells) - h.size
      moved == ShiftHeaders(file.hdr, End(h), delta, {f})
  IN  [raw  |-> Splice(file, h.offset, h.size, cells),
       hdr  |-> [moved EXCEPT ![f].size = Len(cells)],
       len  |-> file.len + delta,
       dbg  |-> file.dbg,
       flen |-> file.flen]

(* The file-level offsets moved and written, once every header is. *)
Relocated(file, delta) ==
  [raw  |-> WriteHeaderFields(file.raw, file.dbg + delta, file.flen + delta),
   hdr  |-> file.hdr,
   len  |-> file.len,
   dbg  |-> file.dbg + delta,
   flen |-> file.flen + delta]

SpliceFits(file, f, cells) ==
  LET delta == Len(cells) - file.hdr[f].size
  IN  AllFit(Spliced(file, f, cells), IF delta = 0 THEN {f} ELSE Func)

ReplaceCode(file, f, cells) ==
  LET delta   == Len(cells) - file.hdr[f].size
      spliced == Spliced(file, f, cells)
  IN  CASE ~HeaderFits(spliced, f) -> spliced
        [] HeaderFits(spliced, f) /\ delta = 0 -> WriteHeaders(spliced, {f})
        [] HeaderFits(spliced, f) /\ delta # 0 ->
             IF AllFit(spliced, Func)
             THEN Relocated(WriteHeaders(spliced, Func), delta)
             ELSE WriteUntilError(WriteHeaders(spliced, {f}), Func \ {f})

-----------------------------------------------------------------------------
(* Function i moved to a body at address at (its header not yet written). *)
PointAt(file, i, at) ==
  [raw |-> file.raw, hdr |-> [file.hdr EXCEPT ![i].offset = at],
   len |-> file.len, dbg |-> file.dbg, flen |-> file.flen]

(* The arg2 field of the switch at address inst overwritten. *)
SetArg2(file, inst, arg2) ==
  WithRaw(file, [file.raw EXCEPT
                   ![inst] = [unit |-> UnitOf(file.raw[inst]), arg2 |-> arg2]])

-----------------------------------------------------------------------------
(* Jump tables and exception information, as the readers locate them. *)

(* decodeInstructionFull: the table of the switch at position k of f. *)
TableAddress(file, f, k) ==
  LET inst == file.hdr[f].offset + k
  IN  AlignUp(inst + file.raw[inst].arg2)

(* readFunctions: an overflowed function's handlers follow its large header,
   from the next aligned address. *)
InfoAddress(file, i) == AlignUp(file.hdr[i].large + 1)

HandlersRead(file, i) ==
  /\ file.hdr[i].overflowed
  /\ InfoAddress(file, i) \in Address(file)
  /\ file.raw[InfoAddress(file, i)] = InfoCell(i)

-----------------------------------------------------------------------------
(***************************************************************************)
(* The shape every parsed file has and every patch must keep.              *)
(***************************************************************************)
FileType(file) ==
  /\ DOMAIN file = {"raw", "hdr", "len", "dbg", "flen"}
  /\ file.len \in Nat /\ file.dbg \in Nat /\ file.flen \in Nat
  /\ DOMAIN file.raw = Address(file)
  /\ file.hdr \in [Func -> FunctionHeader]

(* Two functions share one body, or their bodies do not overlap. *)
SameBody(g, h)     == g.offset = h.offset /\ g.size = h.size
SeparateBody(g, h) == End(g) <= h.offset \/ End(h) <= g.offset

RangesApart(file) ==
  \A i, j \in Func : \/ SameBody(file.hdr[i], file.hdr[j])
                     \/ SeparateBody(file.hdr[i], file.hdr[j])

(* Header table, then bytecode, then large headers and debug info; the cell
   of the footer is the last. *)
SectionsInOrder(file) ==
  /\ file.dbg < file.len
  /\ \A i \in Func :
       /\ 0 < file.hdr[i].small
       /\ End(file.hdr[i]) <= file.dbg
       /\ file.hdr[i].overflowed => file.hdr[i].large < file.len - 1
       /\ \A j \in Func :
            /\ file.hdr[j].small < file.hdr[i].offset
            /\ file.hdr[i].small = file.hdr[j].small => i = j
            /\ file.hdr[j].overflowed =>
                 /\ End(file.hdr[i]) <= file.hdr[j].large
                 /\ file.hdr[i].overflowed /\ file.hdr[i].large = file.hdr[j].large
                      => i = j

(* The serialized headers say what the decoded ones say. *)
ImageAgrees(file) ==
  /\ file.raw[0] = FileHeaderCell(file.dbg, file.flen)
  /\ file.flen = file.len
  /\ \A i \in Func :
       /\ file.raw[file.hdr[i].small] = SmallCell(file.hdr[i])
       /\ file.hdr[i].overflowed =>
            file.raw[file.hdr[i].large] = LargeCell(file.hdr[i])

WellFormed(file) ==
  /\ FileType(file)
  /\ RangesApart(file)
  /\ SectionsInOrder(file)
  /\ ImageAgrees(file)
=============================================================================
