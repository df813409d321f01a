------------------------- MODULE HermesPatch_proofs -------------------------
(***************************************************************************)
(* What is so of every batch, for every number of functions, every file    *)
(* and every set of edits, as long as no batch names two functions that    *)
(* start at the same offset (CoEdits = FALSE).                             *)
(*                                                                         *)
(* Every step keeps the file well formed.  LayoutKept is not inductive: a  *)
(* splice keeps the bodies apart only if no other body overlaps the one it *)
(* replaces.  Inv says why that is so: the functions of the batch have     *)
(* bodies of their own, and whoever still shares the body about to be      *)
(* replaced is in aliases, which must be empty before the splice.          *)
(*                                                                         *)
(* The engine implements FunctionStore: whatever is spliced, copied, moved *)
(* and rewritten on the way, a batch replaces the bodies it names, one by  *)
(* one, and no other function ever reads back different code.  First comes *)
(* what each change of the image does to the code the headers delimit,     *)
(* then the steps are mapped.                                              *)
(*                                                                         *)
(* The last part is about what lies behind the code: the jump tables a     *)
(* batch places out of line, and the exception handlers behind the large   *)
(* headers.  Neither is named by a header; a reader finds each by rounding *)
(* an address up, so both depend on the padding and on how far everything  *)
(* has moved.                                                              *)
(***************************************************************************)
EXTENDS HermesPatch, HBCFile_proofs, SequenceTheorems

(* The functions of a batch do not share their bodies. *)
BatchApart ==
  phase # "failed" =>
    \A f, g \in changed : f # g => SeparateBody(file.hdr[f], file.hdr[g])

(* Only the recorded aliases share the body about to be replaced. *)
CurrentApart ==
  phase = "dedup" =>
    /\ cur \in changed
    /\ \A g \in Func : g # cur /\ g \notin aliases
                         => SeparateBody(file.hdr[cur], file.hdr[g])

(* The switches still waiting for a table lie in the body just spliced in. *)
PendingInside ==
  phase = "tables" =>
    /\ cur \in changed
    /\ pending \subseteq 0 .. (file.hdr[cur].size - 1)

Inv ==
  /\ TypeOK
  /\ LayoutKept
  /\ BatchApart
  /\ CurrentApart
  /\ PendingInside

(***************************************************************************)
(* A step reads no header back from the image, so that all it needs, and   *)
(* all it keeps, is the shape of the file; it also leaves an image that    *)
(* agrees with memory if it found one, or if it rewrote every header       *)
(* because the size changed.                                               *)
(***************************************************************************)
ShapeKept == phase # "failed" => Layout(file)

ShapeInv ==
  /\ TypeOK
  /\ ShapeKept
  /\ BatchApart
  /\ CurrentApart
  /\ PendingInside

Refreshed ==
  phase' # "failed" /\ (ImageAgrees(file) \/ file'.len # file.len)
    => ImageAgrees(file')

(* Inv is the part about shape and the one about the image. *)
LEMMA InvShape == Inv <=> ShapeInv /\ (phase # "failed" => ImageAgrees(file))
BY LayoutOf, WellFormedOf DEF Inv, ShapeInv, LayoutKept, ShapeKept

-----------------------------------------------------------------------------
(* A function on 1 .. n has length n. *)
LEMMA LenOfFunction ==
  ASSUME NEW n \in Nat, NEW s, s = [k \in 1 .. n |-> s[k]]
  PROVE  Len(s) = n
<1>1. s \in Seq(Range(s))
  <2>1. s \in [1 .. n -> Range(s)]
    BY DEF Range
  <2> QED
    BY <2>1, SeqDef
<1>2. Len(s) \in Nat /\ DOMAIN s = 1 .. Len(s)
  BY <1>1, LenProperties
<1>3. DOMAIN s = 1 .. n
  OBVIOUS
<1> QED
  BY <1>2, <1>3

(* Cells keeps the length of a body. *)
LEMMA LenOfCells ==
  ASSUME NEW code \in Seq(Unit)
  PROVE  Len(code) \in Nat /\ Len(Cells(code)) = Len(code)
<1>1. Len(code) \in Nat
  BY LenProperties
<1>2. Cells(code) = [k \in 1 .. Len(code) |-> Cells(code)[k]]
  BY DEF Cells
<1> QED
  BY <1>1, <1>2, LenOfFunction

(* Whatever ReplaceCode returns has the shape of a file. *)
LEMMA ReplaceType ==
  ASSUME NEW image, Layout(image), NEW f \in Func,
         NEW cells, Len(cells) \in Nat,
         ~SpliceFits(image, f, cells)
  PROVE  LET new == ReplaceCode(image, f, cells)
         IN  /\ FileType(new)
             /\ new.hdr = Spliced(image, f, cells).hdr
             /\ new.len = Spliced(image, f, cells).len
<1> DEFINE mid   == Spliced(image, f, cells)
           delta == Len(cells) - image.hdr[f].size
           new   == ReplaceCode(image, f, cells)
<1>1. FileType(mid)
  BY SplicedHeaders, SplicedType DEF Layout
<1>2. \/ ~HeaderFits(mid, f)
      \/ HeaderFits(mid, f) /\ delta # 0 /\ ~AllFit(mid, Func)
  BY DEF SpliceFits, AllFit
<1>3. CASE ~HeaderFits(mid, f)
  <2>1. new = mid
    BY <1>3 DEF ReplaceCode
  <2> QED
    BY <1>1, <2>1
<1>4. CASE HeaderFits(mid, f) /\ delta # 0 /\ ~AllFit(mid, Func)
  <2>1. new = WriteUntilError(WriteHeaders(mid, {f}), Func \ {f})
    BY <1>4 DEF ReplaceCode
  <2> HIDE DEF mid, new
  <2>2. /\ FileType(WriteHeaders(mid, {f}))
        /\ WriteHeaders(mid, {f}).hdr = mid.hdr /\ WriteHeaders(mid, {f}).len = mid.len
    BY <1>1, WriteHeadersShape
  <2>3. \A other, S : FileType(other) =>
          /\ FileType(WriteUntilError(other, S))
          /\ WriteUntilError(other, S).hdr = other.hdr
          /\ WriteUntilError(other, S).len = other.len
    BY WriteHeadersShape DEF WriteUntilError
  <2> QED
    BY <2>1, <2>2, <2>3 DEF new, mid
<1> QED
  BY <1>2, <1>3, <1>4

-----------------------------------------------------------------------------
(* A parsed file has the invariant. *)
LEMMA InitInv == Init => Inv
<1> SUFFICES ASSUME Init PROVE Inv
  OBVIOUS
<1>1. WellFormed(file) /\ FileType(file)
  BY PatchAssumption DEF Init, WellFormed
<1>2. 0 \in Func
  BY HBCAssumption DEF Func
<1>3. TypeOK
  BY <1>1, <1>2 DEF Init, TypeOK
<1> QED
  BY <1>1, <1>3 DEF Init, Inv, LayoutKept, BatchApart, CurrentApart, PendingInside

(* Begin: the functions asked for do not share bodies with one another. *)
LEMMA BeginInv ==
  ASSUME ShapeInv, NEW S \in SUBSET Func, Begin(S), NoCoEdit(S)
  PROVE  ShapeInv' /\ Refreshed
<1>1. /\ phase = "idle" /\ phase' = "pick" /\ changed' = S /\ todo' = S
      /\ edit' \in [S -> Edits] /\ start' = [f \in S |-> file.hdr[f].offset]
      /\ batches' = batches + 1
      /\ UNCHANGED <<file, cur, aliases, pending, table>>
  BY DEF Begin
<1>2. TypeOK /\ Layout(file) /\ FileType(file) /\ RangesApart(file)
  BY <1>1 DEF ShapeInv, ShapeKept, Layout
<1>3. TypeOK'
  <2>1. start' \in [S -> Nat]
    BY <1>1, <1>2 DEF FileType, FunctionHeader
  <2> QED
    BY <1>1, <1>2, <2>1 DEF TypeOK
<1>4. ShapeKept'
  BY <1>1, <1>2 DEF ShapeKept
<1>5. BatchApart'
  <2> SUFFICES ASSUME NEW f \in S, NEW g \in S, f # g
               PROVE  SeparateBody(file.hdr[f], file.hdr[g])
    BY <1>1 DEF BatchApart
  <2>1. file.hdr[f].offset # file.hdr[g].offset
    BY DEF NoCoEdit
  <2>2. SameBody(file.hdr[f], file.hdr[g]) \/ SeparateBody(file.hdr[f], file.hdr[g])
    BY <1>2 DEF RangesApart
  <2> QED
    BY <2>1, <2>2 DEF SameBody
<1> QED
  BY <1>1, <1>3, <1>4, <1>5 DEF ShapeInv, CurrentApart, PendingInside, Refreshed

(* Pick: a body at another offset is another body. *)
LEMMA PickInv ==
  ASSUME ShapeInv, NEW f \in Func, Pick(f)
  PROVE  ShapeInv' /\ Refreshed
<1>1. /\ phase = "pick" /\ phase' = "dedup" /\ f \in todo /\ cur' = f
      /\ todo' = todo \ {f}
      /\ aliases' = {i \in Func \ (changed \cup {f}) :
                       file.hdr[i].offset = file.hdr[f].offset}
      /\ UNCHANGED <<file, changed, start, edit, pending, history>>
  BY DEF Pick
<1>2. TypeOK /\ Layout(file) /\ RangesApart(file) /\ f \in changed
  BY <1>1 DEF ShapeInv, ShapeKept, Layout, TypeOK
<1>3. TypeOK'
  BY <1>1, <1>2 DEF TypeOK, history
<1>4. ShapeKept' /\ BatchApart'
  BY <1>1, <1>2 DEF ShapeKept, BatchApart, ShapeInv
<1>5. CurrentApart'
  <2> SUFFICES ASSUME NEW g \in Func, g # f, g \notin aliases'
               PROVE  SeparateBody(file.hdr[f], file.hdr[g])
    BY <1>1, <1>2 DEF CurrentApart
  <2>1. CASE g \in changed
    BY <1>1, <1>2, <2>1 DEF ShapeInv, BatchApart
  <2>2. CASE g \notin changed
    <3>1. file.hdr[g].offset # file.hdr[f].offset
      BY <1>1, <2>2
    <3>2. SameBody(file.hdr[f], file.hdr[g]) \/ SeparateBody(file.hdr[f], file.hdr[g])
      BY <1>2 DEF RangesApart
    <3> QED
      BY <3>1, <3>2 DEF SameBody
  <2> QED
    BY <2>1, <2>2
<1> QED
  BY <1>1, <1>3, <1>4, <1>5 DEF ShapeInv, PendingInside, Refreshed

(* Deduplicate: the copy has a place of its own, and nothing else moves
   relative to its neighbours. *)
LEMMA DeduplicateInv ==
  ASSUME ShapeInv, NEW i \in Func, Deduplicate(i)
  PROVE  ShapeInv' /\ Refreshed
<1> DEFINE at       == SegmentEnd(file)
           copy     == [k \in 1 .. file.hdr[i].size |->
                          file.raw[file.hdr[i].offset + k - 1]]
           inserted == InsertBytesAt(file, at, copy)
           pointed  == PointAt(inserted, i, at)
<1>1. /\ phase = "dedup" /\ i \in aliases
      /\ UNCHANGED <<batch, cur, pending, history>>
  BY DEF Deduplicate
<1>2. TypeOK /\ Layout(file) /\ FileType(file) /\ SectionsInOrder(file)
  BY <1>1 DEF ShapeInv, ShapeKept, Layout
<1>3. Len(copy) = file.hdr[i].size /\ Len(copy) \in Nat
  <2>1. file.hdr[i].size \in Nat
    BY <1>2 DEF FileType, FunctionHeader
  <2>2. copy = [k \in 1 .. file.hdr[i].size |-> copy[k]]
    OBVIOUS
  <2> QED
    BY <2>1, <2>2, LenOfFunction
<1>4. \/ /\ phase' = "failed" /\ UNCHANGED aliases
         /\ file' = file \/ file' = inserted \/ file' = pointed
      \/ /\ AllFit(Inserted(file, at, copy), Func)
         /\ file' = WriteHeaders(pointed, {i})
         /\ aliases' = aliases \ {i}
         /\ phase' = phase
  BY DEF Deduplicate, Fail
<1> HIDE DEF copy
<1>5. FileType(inserted)
  BY <1>2, <1>3, InsertKeepsBodies
<1>6. FileType(pointed)
  <2>1. at \in Nat
    BY <1>2, SegmentEndBounds
  <2> HIDE DEF at, inserted
  <2> QED
    BY <1>5, <2>1, PointedShape
<1>7. CASE phase' = "failed" /\ UNCHANGED aliases
           /\ (file' = file \/ file' = inserted \/ file' = pointed)
  <2>1. FileType(file')
    BY <1>2, <1>5, <1>6, <1>7
  <2>2. TypeOK'
    BY <1>1, <1>2, <1>7, <2>1 DEF TypeOK, batch, history
  <2> QED
    BY <1>7, <2>2 DEF ShapeInv, ShapeKept, BatchApart, CurrentApart, PendingInside,
      Refreshed
<1>8. CASE AllFit(Inserted(file, at, copy), Func)
           /\ file' = WriteHeaders(pointed, {i})
           /\ aliases' = aliases \ {i}
           /\ phase' = phase
  <2>1. /\ WellFormed(file')
        /\ SeparationKept(file, file')
        /\ \A j \in Func \ {i} : SeparateBody(file'.hdr[j], file'.hdr[i])
    BY <1>2, <1>3, <1>8, CopyKeepsLayout
  <2>2. TypeOK'
    <3>1. FileType(file')
      BY <2>1 DEF WellFormed
    <3> QED
      BY <1>1, <1>2, <1>8, <3>1 DEF TypeOK, batch, history
  <2>3. BatchApart'
    <3> SUFFICES ASSUME NEW f \in changed, NEW g \in changed, f # g
                 PROVE  SeparateBody(file'.hdr[f], file'.hdr[g])
      BY <1>1 DEF BatchApart, batch
    <3>1. SeparateBody(file.hdr[f], file.hdr[g]) /\ f \in Func /\ g \in Func
      BY <1>1, <1>2 DEF ShapeInv, BatchApart, TypeOK
    <3> QED
      BY <2>1, <3>1 DEF SeparationKept
  <2>4. CurrentApart'
    <3> SUFFICES ASSUME NEW g \in Func, g # cur, g \notin aliases \ {i}
                 PROVE  SeparateBody(file'.hdr[cur], file'.hdr[g]) /\ cur \in changed
      BY <1>1, <1>8 DEF CurrentApart, batch, ShapeInv
    <3>1. cur \in Func /\ cur \in changed
      BY <1>1, <1>2 DEF TypeOK, ShapeInv, CurrentApart
    <3>2. CASE g = i
      BY <2>1, <3>1, <3>2
    <3>3. CASE g # i
      <4>1. SeparateBody(file.hdr[cur], file.hdr[g])
        BY <1>1, <3>3 DEF ShapeInv, CurrentApart
      <4> QED
        BY <2>1, <3>1, <4>1 DEF SeparationKept
    <3> QED
      BY <3>1, <3>2, <3>3
  <2> QED
    BY <1>1, <1>8, <2>1, <2>2, <2>3, <2>4, LayoutOf
    DEF ShapeInv, ShapeKept, PendingInside, Refreshed
<1> QED
  BY <1>4, <1>7, <1>8

(* SpliceCode: nobody shares the body any more, so nobody else changes. *)
LEMMA SpliceCodeInv ==
  ASSUME ShapeInv, SpliceCode
  PROVE  ShapeInv' /\ Refreshed
<1> DEFINE code  == edit[cur].code
           cells == Cells(code)
<1>1. /\ phase = "dedup" /\ aliases = {}
      /\ UNCHANGED <<batch, cur, aliases, batches>>
  BY DEF SpliceCode
<1>2. TypeOK /\ Layout(file) /\ FileType(file) /\ cur \in Func /\ cur \in changed
  BY <1>1 DEF ShapeInv, ShapeKept, Layout, TypeOK, CurrentApart
<1>3. edit[cur] \in [code : Seq(Unit), table : Table \cup {NoTable}]
  BY <1>2, PatchAssumption DEF TypeOK
<1>4. code \in Seq(Unit) /\ edit[cur].table \in Table \cup {NoTable}
  BY <1>3
<1>5. Len(cells) = Len(code) /\ Len(code) \in Nat
  BY <1>4, LenOfCells
<1>6. \/ phase' = "failed" /\ UNCHANGED <<file, pending, table>>
      \/ /\ file' = ReplaceCode(file, cur, cells) /\ SpliceFits(file, cur, cells)
         /\ phase' = IF Switches(code) = {} THEN "pick" ELSE "tables"
         /\ pending' = Switches(code)
         /\ table' = [table EXCEPT ![cur] = edit[cur].table]
      \/ /\ file' = ReplaceCode(file, cur, cells) /\ ~SpliceFits(file, cur, cells)
         /\ phase' = "failed" /\ UNCHANGED <<pending, table>>
  BY DEF SpliceCode, Fail
<1> HIDE DEF cells
<1>7. CASE phase' = "failed" /\ UNCHANGED <<file, pending, table>>
  BY <1>1, <1>2, <1>7
  DEF ShapeInv, TypeOK, ShapeKept, BatchApart, CurrentApart, PendingInside, batch,
      Refreshed
<1>8. CASE /\ file' = ReplaceCode(file, cur, cells) /\ ~SpliceFits(file, cur, cells)
           /\ phase' = "failed" /\ UNCHANGED <<pending, table>>
  <2>1. FileType(file')
    BY <1>2, <1>5, <1>8, ReplaceType
  <2>2. TypeOK'
    BY <1>1, <1>2, <1>8, <2>1 DEF TypeOK, batch
  <2> QED
    BY <1>8, <2>2 DEF ShapeInv, ShapeKept, BatchApart, CurrentApart, PendingInside,
      Refreshed
<1>9. CASE /\ file' = ReplaceCode(file, cur, cells) /\ SpliceFits(file, cur, cells)
           /\ phase' = IF Switches(code) = {} THEN "pick" ELSE "tables"
           /\ pending' = Switches(code)
           /\ table' = [table EXCEPT ![cur] = edit[cur].table]
  <2>1. \A g \in Func \ {cur} : SeparateBody(file.hdr[cur], file.hdr[g])
    BY <1>1 DEF ShapeInv, CurrentApart
  <2>2. /\ Layout(file') /\ SeparationKept(file, file')
        /\ file'.hdr[cur].size = Len(cells)
        /\ file'.len = file.len + (Len(cells) - file.hdr[cur].size)
        /\ ImageAgrees(file) \/ Len(cells) # file.hdr[cur].size => ImageAgrees(file')
    BY <1>2, <1>5, <1>9, <2>1, ReplaceKeepsLayout
  <2>3. Switches(code) \subseteq 0 .. (Len(code) - 1)
    BY DEF Switches
  <2>4. TypeOK'
    <3>1. FileType(file')
      BY <2>2 DEF Layout
    <3>2. table' \in [Func -> Table \cup {NoTable}]
      BY <1>2, <1>4, <1>9 DEF TypeOK
    <3>3. pending' \in SUBSET Nat
      BY <1>5, <1>9, <2>3
    <3> QED
      BY <1>1, <1>2, <1>9, <3>1, <3>2, <3>3 DEF TypeOK, batch
  <2>5. BatchApart'
    <3> SUFFICES ASSUME NEW f \in changed, NEW g \in changed, f # g
                 PROVE  SeparateBody(file'.hdr[f], file'.hdr[g])
      BY <1>1 DEF BatchApart, batch
    <3>1. SeparateBody(file.hdr[f], file.hdr[g]) /\ f \in Func /\ g \in Func
      BY <1>1, <1>2 DEF ShapeInv, BatchApart, TypeOK
    <3> QED
      BY <2>2, <3>1 DEF SeparationKept
  <2>6. PendingInside'
    BY <1>1, <1>2, <1>5, <1>9, <2>2, <2>3 DEF PendingInside, batch
  <2>7. Refreshed
    <3>1. file.len \in Nat /\ file.hdr[cur].size \in Nat
      BY <1>2 DEF FileType, FunctionHeader
    <3>2. file'.len # file.len => Len(cells) # file.hdr[cur].size
      BY <1>5, <2>2, <3>1
    <3> QED
      BY <2>2, <3>2 DEF Refreshed
  <2> QED
    BY <1>1, <1>9, <2>2, <2>4, <2>5, <2>6, <2>7 DEF ShapeInv, ShapeKept, CurrentApart
<1> QED
  BY <1>6, <1>7, <1>8, <1>9

(* PlaceTable: an insertion, then a write inside the patched body. *)
LEMMA PlaceTableInv ==
  ASSUME ShapeInv, NEW k \in pending, PlaceTable(k)
  PROVE  ShapeInv' /\ Refreshed
<1> DEFINE at       == SegmentEnd(file)
           pad      == Padding(at)
           cells    == [n \in 1 .. (pad + 1) |->
                          IF n <= pad THEN PadCell ELSE TableCell(edit[cur].table, k)]
           inserted == InsertBytesAt(file, at, cells)
           inst     == inserted.hdr[cur].offset + k
<1>1. /\ phase = "tables"
      /\ UNCHANGED <<batch, cur, aliases, history>>
  BY DEF PlaceTable
<1>2. TypeOK /\ Layout(file) /\ FileType(file) /\ cur \in Func /\ cur \in changed
      /\ SectionsInOrder(file)
  BY <1>1 DEF ShapeInv, ShapeKept, Layout, TypeOK, PendingInside
<1>3. Len(cells) \in Nat
  <2>1. at \in Nat
    BY <1>2, SegmentEndBounds
  <2>2. pad \in Nat
    <3> HIDE DEF at
    <3>1. at % Align \in 0 .. (Align - 1)
      BY <2>1, HBCAssumption
    <3>2. Align - (at % Align) \in Nat
      BY <3>1, HBCAssumption
    <3> QED
      BY <3>2, HBCAssumption DEF Padding
  <2> HIDE DEF pad
  <2>3. cells = [n \in 1 .. (pad + 1) |-> cells[n]]
    OBVIOUS
  <2>4. pad + 1 \in Nat
    BY <2>2
  <2> HIDE DEF cells
  <2>5. Len(cells) = pad + 1
    BY <2>3, <2>4, LenOfFunction
  <2> QED
    BY <2>4, <2>5
<1>4. \/ /\ AllFit(Inserted(file, at, cells), Func)
         /\ file' = SetArg2(inserted, inst, at + pad - inst)
         /\ pending' = pending \ {k}
         /\ phase' = IF pending = {k} THEN "pick" ELSE "tables"
      \/ /\ file' = inserted /\ phase' = "failed" /\ UNCHANGED pending
  BY DEF PlaceTable, Fail
<1> HIDE DEF cells, pad
<1>5. /\ FileType(inserted)
      /\ \A i \in Func : inserted.hdr[i].size = file.hdr[i].size
      /\ SeparationKept(file, inserted)
  BY <1>2, <1>3, InsertKeepsBodies
<1>6. CASE file' = inserted /\ phase' = "failed" /\ UNCHANGED pending
  <2>1. TypeOK'
    BY <1>1, <1>2, <1>5, <1>6 DEF TypeOK, batch, history
  <2> QED
    BY <1>6, <2>1 DEF ShapeInv, ShapeKept, BatchApart, CurrentApart, PendingInside,
      Refreshed
<1>7. CASE /\ AllFit(Inserted(file, at, cells), Func)
           /\ file' = SetArg2(inserted, inst, at + pad - inst)
           /\ pending' = pending \ {k}
           /\ phase' = IF pending = {k} THEN "pick" ELSE "tables"
  <2>1. WellFormed(inserted)
    BY <1>2, <1>3, <1>7, InsertKeepsLayout
  <2>2. k \in 0 .. (inserted.hdr[cur].size - 1)
    <3>1. k \in 0 .. (file.hdr[cur].size - 1)
      BY <1>1 DEF ShapeInv, PendingInside
    <3> QED
      BY <1>2, <1>5, <3>1
  <2> HIDE DEF inserted
  <2>3. WellFormed(file') /\ file'.hdr = inserted.hdr
    BY <1>2, <1>7, <2>1, <2>2, SetArg2KeepsLayout
  <2>4. TypeOK'
    <3>1. FileType(file')
      BY <2>3 DEF WellFormed
    <3> QED
      BY <1>1, <1>2, <1>7, <3>1 DEF TypeOK, batch, history
  <2>5. BatchApart'
    <3> SUFFICES ASSUME NEW f \in changed, NEW g \in changed, f # g
                 PROVE  SeparateBody(file'.hdr[f], file'.hdr[g])
      BY <1>1 DEF BatchApart, batch
    <3>1. SeparateBody(file.hdr[f], file.hdr[g]) /\ f \in Func /\ g \in Func
      BY <1>1, <1>2 DEF ShapeInv, BatchApart, TypeOK
    <3> QED
      BY <1>5, <2>3, <3>1 DEF SeparationKept
  <2>6. PendingInside'
    <3>1. pending' \subseteq 0 .. (file'.hdr[cur].size - 1)
      BY <1>1, <1>2, <1>5, <1>7, <2>3 DEF ShapeInv, PendingInside
    <3> QED
      BY <1>1, <1>2, <3>1 DEF PendingInside, batch
  <2> QED
    BY <1>7, <2>3, <2>4, <2>5, <2>6, LayoutOf DEF ShapeInv, ShapeKept, CurrentApart, Refreshed
<1> QED
  BY <1>4, <1>6, <1>7

(* Every step of a batch keeps the shape of the file. *)
LEMMA PatchKeepsShape ==
  ASSUME ShapeInv, Patch
  PROVE  ShapeInv' /\ Refreshed
<1>1. ASSUME NEW f \in Func, Pick(f) PROVE ShapeInv' /\ Refreshed
  BY <1>1, PickInv
<1>2. ASSUME NEW i \in Func, Deduplicate(i) PROVE ShapeInv' /\ Refreshed
  BY <1>2, DeduplicateInv
<1>3. CASE SpliceCode
  BY <1>3, SpliceCodeInv
<1>4. ASSUME NEW k \in pending, PlaceTable(k) PROVE ShapeInv' /\ Refreshed
  BY <1>4, PlaceTableInv
<1>5. CASE Finish
  BY <1>5 DEF Finish, ShapeInv, TypeOK, ShapeKept, BatchApart, CurrentApart, PendingInside,
              batch, history, Refreshed
<1> QED
  BY <1>1, <1>2, <1>3, <1>4, <1>5 DEF Patch

(* ... and the agreement of the image with memory. *)
LEMMA NextInv ==
  ASSUME CoEdits = FALSE, Inv, [Next]_vars
  PROVE  Inv'
<1>1. ShapeInv /\ (phase # "failed" => ImageAgrees(file))
  BY InvShape
<1>2. SUFFICES ShapeInv' /\ (phase' # "failed" => ImageAgrees(file'))
  BY LayoutOf, WellFormedOf DEF Inv, ShapeInv, LayoutKept, ShapeKept
<1>3. ASSUME NEW S \in SUBSET Func, Begin(S)
      PROVE  ShapeInv' /\ (phase' # "failed" => ImageAgrees(file'))
  <2>1. NoCoEdit(S) /\ phase = "idle"
    BY <1>3 DEF Begin
  <2> QED
    BY <1>1, <1>3, <2>1, BeginInv DEF Refreshed
<1>4. CASE Patch
  <2>1. phase # "failed"
    BY <1>4 DEF Patch, Pick, Deduplicate, SpliceCode, PlaceTable, Finish
  <2> QED
    BY <1>1, <1>4, <2>1, PatchKeepsShape DEF Refreshed
<1>5. CASE UNCHANGED vars
  BY <1>1, <1>5 DEF vars, ShapeInv, TypeOK, ShapeKept, BatchApart, CurrentApart,
                    PendingInside, batch, history
<1> QED
  BY <1>3, <1>4, <1>5 DEF Next

(***************************************************************************)
(* The inductive invariant holds of every behaviour.                       *)
(***************************************************************************)
THEOREM InvHolds ==
  ASSUME CoEdits = FALSE
  PROVE  Spec => []Inv
<1>1. Init => Inv
  BY InitInv
<1>2. Inv /\ [Next]_vars => Inv'
  BY NextInv
<1> QED
  BY <1>1, <1>2, PTL DEF Spec

(***************************************************************************)
(* Every variable keeps its type, error returns included: no header field  *)
(* of assembleAndPatchFuncs becomes negative, and the image keeps the      *)
(* length the code believes it has.                                        *)
(***************************************************************************)
THEOREM TypeCorrect ==
  ASSUME CoEdits = FALSE
  PROVE  Spec => []TypeOK
<1>1. Inv => TypeOK
  BY DEF Inv
<1> QED
  BY <1>1, InvHolds, PTL

(***************************************************************************)
(* After every step that did not fail, bodies are shared whole or apart,   *)
(* sections are in order, and the headers in the image are those in        *)
(* memory: what patchOneFunction leaves behind parses back to what it has  *)
(* in hand.                                                                *)
(***************************************************************************)
THEOREM LayoutCorrect ==
  ASSUME CoEdits = FALSE
  PROVE  Spec => []LayoutKept
<1>1. Inv => LayoutKept
  BY DEF Inv
<1> QED
  BY <1>1, InvHolds, PTL

-----------------------------------------------------------------------------
(***************************************************************************)
(* Every body lies inside the image, and no header inside a body: all that *)
(* is needed of the layout for a header write to leave the code alone.     *)
(***************************************************************************)
HeadersOutside(image) ==
  \A i \in Func :
    /\ End(image.hdr[i]) <= image.len
    /\ \A j \in Func :
         /\ image.hdr[j].small < image.hdr[i].offset
         /\ image.hdr[j].overflowed => End(image.hdr[i]) <= image.hdr[j].large

(* Body i of old is body j of new, wherever it is now. *)
SameCode(old, i, new, j) ==
  /\ new.hdr[j].size = old.hdr[i].size
  /\ \A k \in 1 .. old.hdr[i].size :
       UnitOf(new.raw[new.hdr[j].offset + k - 1]) = UnitOf(old.raw[old.hdr[i].offset + k - 1])

LEMMA SameCodeReads ==
  ASSUME NEW old, NEW new, NEW i, NEW j, SameCode(old, i, new, j)
  PROVE  GetCode(new, j) = GetCode(old, i)
BY DEF SameCode, GetCode

LEMMA OrderedOutside ==
  ASSUME NEW image, FileType(image), SectionsInOrder(image)
  PROVE  HeadersOutside(image)
<1> SUFFICES ASSUME NEW i \in Func, NEW j \in Func
             PROVE  /\ End(image.hdr[i]) <= image.len
                    /\ image.hdr[j].small < image.hdr[i].offset
                    /\ image.hdr[j].overflowed => End(image.hdr[i]) <= image.hdr[j].large
  BY DEF HeadersOutside
<1>1. /\ image.hdr[i].offset \in Nat /\ image.hdr[i].size \in Nat
      /\ image.dbg \in Nat /\ image.len \in Nat
  BY DEF FileType, FunctionHeader
<1>2. End(image.hdr[i]) <= image.dbg /\ image.dbg < image.len
  BY DEF SectionsInOrder
<1>3. End(image.hdr[i]) <= image.len
  BY <1>1, <1>2 DEF End
<1> QED
  BY <1>3 DEF SectionsInOrder

(* Writing headers changes nothing where there is none. *)
LEMMA WriteHeadersElsewhere ==
  ASSUME NEW image, NEW S \in SUBSET Func, NEW a \in Address(image),
         \A i \in Func : /\ image.hdr[i].small # a
                         /\ image.hdr[i].overflowed => image.hdr[i].large # a
  PROVE  WriteHeaders(image, S).raw[a] = image.raw[a]
BY DEF WriteHeaders, WithRaw

(* No function reads back different code after headers have been written. *)
LEMMA WriteHeadersCode ==
  ASSUME NEW image, FileType(image), HeadersOutside(image),
         NEW S \in SUBSET Func, NEW i \in Func
  PROVE  /\ SameCode(image, i, WriteHeaders(image, S), i)
         /\ HeadersOutside(WriteHeaders(image, S))
<1> DEFINE new == WriteHeaders(image, S)
<1>1. new.hdr = image.hdr /\ new.len = image.len
  BY DEF WriteHeaders, WithRaw
<1>2. ASSUME NEW k \in 1 .. image.hdr[i].size
      PROVE  new.raw[image.hdr[i].offset + k - 1] = image.raw[image.hdr[i].offset + k - 1]
  <2> DEFINE a == image.hdr[i].offset + k - 1
  <2>1. /\ image.hdr[i].offset \in Nat /\ image.hdr[i].size \in Nat /\ image.len \in Nat
        /\ image.hdr[i].offset + image.hdr[i].size <= image.len
    BY DEF FileType, FunctionHeader, HeadersOutside, End
  <2>2. a \in Address(image)
    BY <2>1 DEF Address
  <2>3. ASSUME NEW j \in Func
        PROVE  image.hdr[j].small # a /\ (image.hdr[j].overflowed => image.hdr[j].large # a)
    <3>1. /\ image.hdr[j].small \in Nat /\ image.hdr[j].large \in Nat
          /\ image.hdr[j].small < image.hdr[i].offset
          /\ image.hdr[j].overflowed
               => image.hdr[i].offset + image.hdr[i].size <= image.hdr[j].large
      BY DEF FileType, FunctionHeader, HeadersOutside, End
    <3> QED
      BY <2>1, <3>1
  <2> HIDE DEF a
  <2>4. new.raw[a] = image.raw[a]
    BY <2>2, <2>3, WriteHeadersElsewhere
  <2> QED
    BY <2>4 DEF a
<1> HIDE DEF new
<1>3. SameCode(image, i, new, i)
  BY <1>1, <1>2 DEF SameCode
<1>4. HeadersOutside(new)
  BY <1>1 DEF HeadersOutside
<1> QED
  BY <1>3, <1>4 DEF new

-----------------------------------------------------------------------------
(***************************************************************************)
(* An insertion at the end of the bytecode segment, before and after the   *)
(* headers are written (all of them, or those before an error): every      *)
(* function keeps its code, and the inserted cells can be read back.       *)
(***************************************************************************)
LEMMA InsertedCode ==
  ASSUME NEW image, WellFormed(image), NEW cells, Len(cells) \in Nat
  PROVE  LET new == Inserted(image, SegmentEnd(image), cells)
         IN  /\ \A i \in Func : SameCode(image, i, new, i)
             /\ \A k \in 1 .. Len(cells) : new.raw[SegmentEnd(image) + k - 1] = cells[k]
<1> DEFINE at  == SegmentEnd(image)
           n   == Len(cells)
           new == Inserted(image, at, cells)
<1>1. FileType(image) /\ SectionsInOrder(image)
  BY DEF WellFormed
<1>2. at \in 1 .. (image.len - 1) /\ image.len \in Nat
  BY <1>1, SegmentEndInside DEF FileType
<1>3. \A i \in Func : Moved(new.hdr[i], image.hdr[i], at, n)
  BY LayoutOf, InsertedMoves
<1>4. /\ new.len = image.len + n
      /\ \A a \in 1 .. (new.len - 1) :
           /\ a < at => new.raw[a] = image.raw[a]
           /\ at <= a /\ a < at + n => new.raw[a] = cells[a - at + 1]
  BY <1>1, <1>2, InsertedFields
<1>5. \A i \in Func : /\ End(image.hdr[i]) <= at
                      /\ 0 < image.hdr[i].offset
                      /\ image.hdr[i] \in FunctionHeader
  <2>1. \A i \in Func : 0 < image.hdr[i].small /\ image.hdr[i].small < image.hdr[i].offset
    BY <1>1 DEF SectionsInOrder
  <2>2. \A i \in Func : image.hdr[i] \in FunctionHeader
    BY <1>1 DEF FileType
  <2>3. \A i \in Func : image.hdr[i].small \in Nat /\ image.hdr[i].offset \in Nat
    BY <2>2 DEF FunctionHeader
  <2>4. \A i \in Func : 0 < image.hdr[i].offset
    BY <2>1, <2>3
  <2> QED
    BY <1>1, <2>2, <2>4, SegmentEndBounds
<1> HIDE DEF at, n, new
<1>6. n \in Nat
  BY DEF n
<1>7. ASSUME NEW i \in Func
      PROVE  SameCode(image, i, new, i)
  <2> DEFINE h == image.hdr[i]
             g == new.hdr[i]
  <2>1. /\ h.offset \in Nat /\ h.size \in Nat /\ 0 < h.offset
        /\ h.offset + h.size <= at
    BY <1>5 DEF End, FunctionHeader
  <2>2. g.size = h.size /\ (h.offset < at => g.offset = h.offset)
    BY <1>3 DEF Moved
  <2>3. ASSUME NEW k \in 1 .. h.size
        PROVE  new.raw[g.offset + k - 1] = image.raw[h.offset + k - 1]
    <3>1. h.offset < at /\ h.offset + k - 1 \in 1 .. (new.len - 1) /\ h.offset + k - 1 < at
      <4>1. new.len = image.len + n /\ at <= image.len /\ at \in Nat
        BY <1>2, <1>4
      <4> HIDE DEF h
      <4> QED
        BY <1>2, <1>6, <2>1, <4>1
    <3> QED
      BY <1>4, <2>2, <3>1
  <2> QED
    BY <2>2, <2>3 DEF SameCode
<1>8. ASSUME NEW k \in 1 .. n
      PROVE  new.raw[at + k - 1] = cells[k]
  <2>1. /\ at + k - 1 \in 1 .. (new.len - 1)
        /\ at <= at + k - 1 /\ at + k - 1 < at + n
        /\ (at + k - 1) - at + 1 = k
    BY <1>2, <1>4, <1>6
  <2> QED
    BY <1>4, <2>1
<1> QED
  BY <1>7, <1>8 DEF at, n, new

LEMMA InsertKeepsCode ==
  ASSUME NEW image, WellFormed(image), NEW cells, Len(cells) \in Nat
  PROVE  LET new == InsertBytesAt(image, SegmentEnd(image), cells)
         IN  /\ \A i \in Func : SameCode(image, i, new, i)
             /\ \A k \in 1 .. Len(cells) : new.raw[SegmentEnd(image) + k - 1] = cells[k]
<1> DEFINE at  == SegmentEnd(image)
           n   == Len(cells)
           mid == Inserted(image, at, cells)
           S   == {i \in Func : \A j \in Func : j <= i => HeaderFits(mid, j)}
           new == InsertBytesAt(image, at, cells)
<1>1. FileType(mid) /\ SectionsInOrder(mid)
  BY LayoutOf, InsertedLayout
<1>2. HeadersOutside(mid)
  BY <1>1, OrderedOutside
<1>3. new = WriteHeaders(mid, S) /\ S \in SUBSET Func
  BY DEF InsertBytesAt, WriteUntilError
<1>4. /\ \A i \in Func : SameCode(image, i, mid, i)
      /\ \A k \in 1 .. n : mid.raw[at + k - 1] = cells[k]
  BY InsertedCode
<1>5. /\ \A i \in Func : Moved(mid.hdr[i], image.hdr[i], at, n)
      /\ mid.len = image.len + n
  BY LayoutOf, InsertedMoves
<1>6. /\ FileType(image) /\ SectionsInOrder(image)
  BY DEF WellFormed
<1>7. /\ at \in 1 .. (image.len - 1) /\ image.len \in Nat
      /\ \A i \in Func : image.hdr[i].small < at
      /\ \A i \in Func : image.hdr[i].overflowed => at <= image.hdr[i].large
      /\ \A i \in Func : image.hdr[i] \in FunctionHeader
  BY <1>6, SegmentEndInside, SegmentEndBounds DEF FileType
<1> HIDE DEF at, n, mid, S, new
<1>8. n \in Nat
  BY DEF n
<1>9. \A i \in Func : SameCode(mid, i, new, i)
  BY <1>1, <1>2, <1>3, WriteHeadersCode
<1>10. \A i \in Func : SameCode(image, i, new, i)
  BY <1>4, <1>9 DEF SameCode
<1>11. ASSUME NEW k \in 1 .. n
       PROVE  new.raw[at + k - 1] = cells[k]
  <2> DEFINE a == at + k - 1
  <2>1. a \in Address(mid) /\ at <= a /\ a < at + n /\ a \in Nat
    BY <1>5, <1>7, <1>8 DEF Address
  <2>2. ASSUME NEW i \in Func
        PROVE  mid.hdr[i].small # a /\ (mid.hdr[i].overflowed => mid.hdr[i].large # a)
    <3>1. /\ mid.hdr[i].small = image.hdr[i].small
          /\ mid.hdr[i].overflowed => mid.hdr[i].large = image.hdr[i].large + n
          /\ mid.hdr[i].overflowed = image.hdr[i].overflowed
      BY <1>5 DEF Moved
    <3>2. image.hdr[i].small \in Nat /\ image.hdr[i].large \in Nat
      BY <1>7 DEF FunctionHeader
    <3>3. /\ image.hdr[i].small < at
          /\ image.hdr[i].overflowed => at <= image.hdr[i].large
          /\ at \in Nat
      BY <1>7
    <3> HIDE DEF a
    <3>4. image.hdr[i].small < a
      BY <2>1, <3>2, <3>3
    <3>5. image.hdr[i].overflowed => a < image.hdr[i].large + n
      <4>1. CASE at <= image.hdr[i].large
        BY <1>8, <2>1, <3>2, <3>3, <4>1
      <4> QED
        BY <3>3, <4>1
    <3>6. mid.hdr[i].small # a
      BY <2>1, <3>1, <3>2, <3>4
    <3>7. mid.hdr[i].overflowed => mid.hdr[i].large # a
      <4>1. CASE mid.hdr[i].overflowed
        <5>1. a < image.hdr[i].large + n /\ mid.hdr[i].large = image.hdr[i].large + n
          BY <3>1, <3>5, <4>1
        <5>2. a \in Nat /\ image.hdr[i].large + n \in Nat
          BY <1>8, <2>1, <3>2
        <5> QED
          BY <5>1, <5>2
      <4> QED
        BY <4>1
    <3> QED
      BY <3>6, <3>7
  <2> HIDE DEF a
  <2>3. new.raw[a] = mid.raw[a]
    BY <1>3, <2>1, <2>2, WriteHeadersElsewhere
  <2> QED
    BY <1>4, <2>3 DEF a
<1> QED
  BY <1>10, <1>11 DEF at, n, new

(***************************************************************************)
(* One round of deduplicateAliasedFunctions, stopped before or after the   *)
(* header of the copy is written: function i reads its own code from the   *)
(* copy, everyone else from where it was.                                  *)
(***************************************************************************)
LEMMA CopyKeepsCode ==
  ASSUME NEW image, WellFormed(image), NEW i \in Func,
         NEW copy, Len(copy) = image.hdr[i].size,
         \A k \in 1 .. Len(copy) : copy[k] = image.raw[image.hdr[i].offset + k - 1]
  PROVE  LET at  == SegmentEnd(image)
             pnt == PointAt(InsertBytesAt(image, at, copy), i, at)
         IN  /\ \A j \in Func : GetCode(pnt, j) = GetCode(image, j)
             /\ AllFit(Inserted(image, at, copy), Func) =>
                  \A j \in Func :
                    GetCode(WriteHeaders(pnt, {i}), j) = GetCode(image, j)
<1> DEFINE at  == SegmentEnd(image)
           n   == Len(copy)
           ins == InsertBytesAt(image, at, copy)
           pnt == PointAt(ins, i, at)
           new == WriteHeaders(pnt, {i})
<1>1. /\ FileType(image) /\ SectionsInOrder(image)
      /\ n \in Nat /\ n = image.hdr[i].size
  BY DEF WellFormed, FileType, FunctionHeader
<1>2. at \in Nat
  BY <1>1, SegmentEndBounds
<1>3. /\ \A j \in Func : SameCode(image, j, ins, j)
      /\ \A k \in 1 .. n : ins.raw[at + k - 1] = copy[k]
  BY <1>1, InsertKeepsCode
<1>4. FileType(ins)
  BY <1>1, LayoutOf, InsertKeepsBodies
<1> HIDE DEF at, n, ins
<1>5. /\ FileType(pnt) /\ pnt.raw = ins.raw /\ pnt.len = ins.len
      /\ \A j \in Func \ {i} : pnt.hdr[j] = ins.hdr[j]
      /\ pnt.hdr[i].offset = at /\ pnt.hdr[i].size = ins.hdr[i].size
  BY <1>2, <1>4, PointedShape
<1> HIDE DEF pnt
<1>6. ASSUME NEW j \in Func
      PROVE  SameCode(image, j, pnt, j)
  <2>1. CASE j # i
    BY <1>3, <1>5, <2>1 DEF SameCode
  <2>2. CASE j = i
    <3>1. pnt.hdr[i].size = image.hdr[i].size
      BY <1>3, <1>5 DEF SameCode
    <3>2. \A k \in 1 .. image.hdr[i].size :
            pnt.raw[pnt.hdr[i].offset + k - 1] = image.raw[image.hdr[i].offset + k - 1]
      BY <1>1, <1>3, <1>5 DEF n
    <3> QED
      BY <2>2, <3>1, <3>2 DEF SameCode
  <2> QED
    BY <2>1, <2>2
<1>7. ASSUME AllFit(Inserted(image, at, copy), Func), NEW j \in Func
      PROVE  GetCode(new, j) = GetCode(image, j)
  <2>1. WellFormed(new)
    BY <1>7, LayoutOf, CopyKeepsLayout DEF at, ins, pnt
  <2>2. new.hdr = pnt.hdr /\ new.len = pnt.len
    BY DEF WriteHeaders, WithRaw
  <2> HIDE DEF new
  <2>3. HeadersOutside(new)
    BY <2>1, OrderedOutside DEF WellFormed
  <2>4. HeadersOutside(pnt)
    BY <2>2, <2>3 DEF HeadersOutside
  <2>5. SameCode(pnt, j, new, j)
    BY <1>5, <2>4, WriteHeadersCode DEF new
  <2> QED
    BY <1>6, <2>5, SameCodeReads
<1>8. \A j \in Func : GetCode(pnt, j) = GetCode(image, j)
  BY <1>6, SameCodeReads
<1> HIDE DEF new
<1>9. AllFit(Inserted(image, at, copy), Func)
        => \A j \in Func : GetCode(new, j) = GetCode(image, j)
  BY <1>7
<1> QED
  BY <1>8, <1>9 DEF at, ins, pnt, new

(* The padding is a number of cells. *)
LEMMA PaddingNat ==
  ASSUME NEW a \in Nat
  PROVE  Padding(a) \in Nat
<1>1. a % Align \in 0 .. (Align - 1)
  BY HBCAssumption
<1>2. Align - (a % Align) \in Nat
  BY <1>1, HBCAssumption
<1> QED
  BY <1>2, HBCAssumption DEF Padding

(* Moving a switch's table leaves the instruction the one it was. *)
LEMMA SetArg2KeepsCode ==
  ASSUME NEW image, FileType(image), HeadersOutside(image),
         NEW inst, NEW arg2, NEW i \in Func
  PROVE  GetCode(SetArg2(image, inst, arg2), i) = GetCode(image, i)
<1> DEFINE new == SetArg2(image, inst, arg2)
<1>1. /\ new.hdr = image.hdr
      /\ new.raw = [image.raw EXCEPT
                      ![inst] = [unit |-> UnitOf(image.raw[inst]), arg2 |-> arg2]]
  BY DEF SetArg2, WithRaw
<1> HIDE DEF new
<1>2. ASSUME NEW a \in DOMAIN image.raw
      PROVE  UnitOf(new.raw[a]) = UnitOf(image.raw[a])
  <2>1. CASE a # inst
    BY <1>1, <2>1
  <2>2. CASE a = inst
    <3>1. new.raw[a] = [unit |-> UnitOf(image.raw[inst]), arg2 |-> arg2]
      BY <1>1, <2>2
    <3>2. \A u : UnitOf([unit |-> u, arg2 |-> arg2]) = u
      BY DEF UnitOf
    <3> QED
      BY <2>2, <3>1, <3>2
  <2> QED
    BY <2>1, <2>2
<1>3. ASSUME NEW k \in 1 .. image.hdr[i].size
      PROVE  image.hdr[i].offset + k - 1 \in DOMAIN image.raw
  <2>1. /\ image.hdr[i].offset \in Nat /\ image.hdr[i].size \in Nat /\ image.len \in Nat
        /\ image.hdr[i].offset + image.hdr[i].size <= image.len
        /\ DOMAIN image.raw = 0 .. (image.len - 1)
    BY DEF FileType, FunctionHeader, HeadersOutside, End, Address
  <2> QED
    BY <2>1
<1>4. SameCode(image, i, new, i)
  BY <1>1, <1>2, <1>3 DEF SameCode
<1> QED
  BY <1>4, SameCodeReads DEF new

-----------------------------------------------------------------------------
(***************************************************************************)
(* The splice: the new body where the old one was, everything behind it    *)
(* shifted, the functions apart from it untouched.                         *)
(***************************************************************************)
LEMMA SplicedCode ==
  ASSUME NEW image, WellFormed(image), NEW f \in Func,
         NEW cells, Len(cells) \in Nat,
         \A i \in Func \ {f} : SeparateBody(image.hdr[f], image.hdr[i])
  PROVE  LET mid == Spliced(image, f, cells)
         IN  /\ FileType(mid) /\ HeadersOutside(mid)
             /\ \A i \in Func \ {f} : SameCode(image, i, mid, i)
             /\ mid.hdr[f].size = Len(cells)
             /\ \A k \in 1 .. Len(cells) : mid.raw[mid.hdr[f].offset + k - 1] = cells[k]
<1> DEFINE hf    == image.hdr[f]
           n     == Len(cells)
           delta == n - hf.size
           mid   == Spliced(image, f, cells)
           moved == [mid EXCEPT !.dbg = mid.dbg + delta]
<1>1. /\ FileType(image) /\ SectionsInOrder(image) /\ image.dbg \in Nat /\ image.len \in Nat
      /\ image.hdr \in [Func -> FunctionHeader]
  BY DEF WellFormed, FileType
<1>2. HeadersOutside(image)
  BY <1>1, OrderedOutside
<1>3. /\ InImage(image, f)
      /\ mid.hdr[f].offset = hf.offset /\ mid.hdr[f].size = n
      /\ \A i \in Func \ {f} : SplicedHeader(mid.hdr[i], image.hdr[i], hf, n)
  BY LayoutOf, SplicedHeaders
<1>4. FileType(mid)
  BY <1>1, <1>3, SplicedType
<1>5. /\ mid.len = image.len + delta /\ mid.len \in Nat /\ mid.dbg = image.dbg
      /\ \A a \in 0 .. (mid.len - 1) :
           /\ a < hf.offset => mid.raw[a] = image.raw[a]
           /\ hf.offset + n <= a => mid.raw[a] = image.raw[a - delta]
  BY <1>1, <1>3, SplicedFields
<1>6. /\ hf.offset \in Nat /\ hf.size \in Nat /\ n \in Nat /\ hf \in FunctionHeader
      /\ hf.offset + hf.size <= image.len /\ hf.offset + hf.size <= image.dbg
  BY <1>1, <1>3 DEF FunctionHeader, InImage, End, SectionsInOrder
<1>7. mid.raw = [a \in 0 .. (image.len - hf.size + n - 1) |->
                   IF a < hf.offset THEN image.raw[a]
                   ELSE IF a < hf.offset + n THEN cells[a - hf.offset + 1]
                   ELSE image.raw[a - n + hf.size]]
  BY DEF Spliced, Splice
<1> HIDE DEF mid, n, hf
<1>8. HeadersOutside(mid)
  <2>1. /\ moved.hdr = mid.hdr /\ moved.len = mid.len /\ moved.raw = mid.raw
        /\ moved.flen = mid.flen /\ moved.dbg = mid.dbg + delta
        /\ DOMAIN moved = {"raw", "hdr", "len", "dbg", "flen"}
    BY <1>4 DEF FileType
  <2>2. mid.dbg + delta \in Nat
    BY <1>1, <1>5, <1>6
  <2> HIDE DEF moved, delta
  <2>3. FileType(moved)
    BY <1>4, <2>1, <2>2 DEF FileType, Address
  <2>4. moved.len = image.len + delta /\ moved.dbg = image.dbg + delta
    BY <1>5, <2>1
  <2>5. SectionsInOrder(moved)
    BY <2>1, <2>3, <2>4, LayoutOf, SplicedLayout DEF mid, delta, n, hf
  <2>6. HeadersOutside(moved)
    BY <2>3, <2>5, OrderedOutside
  <2> QED
    BY <2>1, <2>6 DEF HeadersOutside
<1>9. ASSUME NEW i \in Func \ {f}
      PROVE  SameCode(image, i, mid, i)
  <2> DEFINE h == image.hdr[i]
             g == mid.hdr[i]
  <2>1. /\ h \in FunctionHeader /\ h.offset \in Nat /\ h.size \in Nat
        /\ h.offset + h.size <= image.len
    BY <1>1, <1>2 DEF FunctionHeader, HeadersOutside, End
  <2>2. SplicedHeader(g, h, hf, n) /\ SeparateBody(hf, h) /\ g.size = h.size
    BY <1>3 DEF SplicedHeader, hf
  <2>3. \/ g.offset = h.offset /\ End(g) <= hf.offset
        \/ hf.offset + n <= g.offset /\ End(g) = End(h) + (n - hf.size)
    BY <1>6, <2>1, <2>2, SplicedBeside
  <2>4. ASSUME NEW k \in 1 .. h.size
        PROVE  mid.raw[g.offset + k - 1] = image.raw[h.offset + k - 1]
    <3>1. CASE g.offset = h.offset /\ End(g) <= hf.offset
      <4>1. h.offset + h.size <= hf.offset
        BY <2>2, <3>1 DEF End
      <4> HIDE DEF h, g
      <4>2. h.offset + k - 1 < hf.offset /\ h.offset + k - 1 \in Nat
        BY <1>6, <2>1, <4>1
      <4>3. h.offset + k - 1 \in 0 .. (mid.len - 1)
        BY <1>1, <1>5, <1>6, <4>2
      <4> QED
        BY <1>5, <3>1, <4>2, <4>3
    <3>2. CASE hf.offset + n <= g.offset /\ End(g) = End(h) + (n - hf.size)
      <4>1. g.offset + g.size = h.offset + h.size + (n - hf.size)
        BY <3>2 DEF End
      <4>2. mid.hdr[i] \in FunctionHeader /\ g.offset \in Nat
        BY <1>4 DEF FileType, FunctionHeader
      <4> HIDE DEF h, g
      <4>3. g.offset + h.size = h.offset + h.size + delta /\ delta \in Int
        BY <1>6, <2>2, <4>1
      <4> HIDE DEF delta
      <4>4. g.offset = h.offset + delta
        BY <2>1, <4>2, <4>3
      <4>5. mid.len = image.len + delta /\ mid.len \in Nat /\ hf.offset + n <= g.offset
        BY <1>5, <3>2
      <4>6. /\ g.offset + k - 1 \in 0 .. (mid.len - 1)
            /\ hf.offset + n <= g.offset + k - 1
            /\ (g.offset + k - 1) - delta = h.offset + k - 1
        <5>1. /\ g.offset + k - 1 \in Nat
              /\ hf.offset + n <= g.offset + k - 1
          BY <1>6, <2>1, <4>2, <4>5
        <5>2. g.offset + k - 1 = h.offset + delta + k - 1
          BY <4>4
        <5>3. (g.offset + k - 1) - delta = h.offset + k - 1
          BY <2>1, <4>3, <5>2
        <5>4. h.offset + k - 1 <= image.len - 1
          BY <1>1, <2>1
        <5>5. g.offset + k - 1 <= mid.len - 1
          BY <1>1, <2>1, <4>3, <4>5, <5>2, <5>4
        <5> QED
          BY <4>5, <5>1, <5>3, <5>5
      <4> QED
        BY <1>5, <4>6
    <3> QED
      BY <2>3, <3>1, <3>2
  <2> QED
    BY <2>2, <2>4 DEF SameCode
<1>10. ASSUME NEW k \in 1 .. n
       PROVE  mid.raw[hf.offset + k - 1] = cells[k]
  <2>1. /\ hf.offset + k - 1 \in 0 .. (image.len - hf.size + n - 1)
        /\ ~(hf.offset + k - 1 < hf.offset)
        /\ hf.offset + k - 1 < hf.offset + n
        /\ (hf.offset + k - 1) - hf.offset + 1 = k
    BY <1>1, <1>6
  <2> QED
    BY <1>7, <2>1
<1> QED
  BY <1>3, <1>4, <1>8, <1>9, <1>10 DEF mid, n, hf

(* Where an error, or an unchanged size, stops the writes of ReplaceCode. *)
LEMMA ReplaceForms ==
  ASSUME NEW image, NEW f \in Func, NEW cells
  PROVE  LET mid   == Spliced(image, f, cells)
             delta == Len(cells) - image.hdr[f].size
             new   == ReplaceCode(image, f, cells)
         IN  \/ new = mid
             \/ new = WriteHeaders(mid, {f})
             \/ new = Relocated(WriteHeaders(mid, Func), delta)
             \/ \E S \in SUBSET Func : new = WriteHeaders(WriteHeaders(mid, {f}), S)
<1> DEFINE mid   == Spliced(image, f, cells)
           delta == Len(cells) - image.hdr[f].size
           new   == ReplaceCode(image, f, cells)
           one   == WriteHeaders(mid, {f})
           S     == {i \in Func \ {f} : \A j \in Func \ {f} : j <= i => HeaderFits(one, j)}
<1>1. WriteUntilError(one, Func \ {f}) = WriteHeaders(one, S) /\ S \in SUBSET Func
  BY DEF WriteUntilError
<1> HIDE DEF one, S, mid, delta
<1>2. \/ new = mid \/ new = one
      \/ new = Relocated(WriteHeaders(mid, Func), delta)
      \/ new = WriteUntilError(one, Func \ {f})
  BY DEF ReplaceCode, mid, delta, one
<1> QED
  BY <1>1, <1>2 DEF one, mid, delta

(***************************************************************************)
(* ReplaceCode writes the headers of the spliced file in one of four ways, *)
(* by where an error stops it, and the code is the same after each.        *)
(***************************************************************************)
LEMMA ReplaceKeepsCode ==
  ASSUME NEW image, WellFormed(image), NEW f \in Func,
         NEW code \in Seq(Unit),
         \A i \in Func \ {f} : SeparateBody(image.hdr[f], image.hdr[i])
  PROVE  LET new == ReplaceCode(image, f, Cells(code))
         IN  /\ \A i \in Func \ {f} : GetCode(new, i) = GetCode(image, i)
             /\ GetCode(new, f) = code
<1> DEFINE cells == Cells(code)
           mid   == Spliced(image, f, cells)
           delta == Len(cells) - image.hdr[f].size
           new   == ReplaceCode(image, f, cells)
<1>1. Len(code) \in Nat /\ Len(cells) = Len(code)
  BY LenOfCells
<1>2. /\ FileType(mid) /\ HeadersOutside(mid)
      /\ \A i \in Func \ {f} : SameCode(image, i, mid, i)
      /\ mid.hdr[f].size = Len(code)
      /\ \A k \in 1 .. Len(code) : mid.raw[mid.hdr[f].offset + k - 1] = cells[k]
  <2> HIDE DEF cells
  <2> QED
    BY <1>1, SplicedCode
<1>3. GetCode(mid, f) = code
  <2>1. \A k \in 1 .. Len(code) : UnitOf(cells[k]) = code[k]
    BY DEF Cells, CodeCell, UnitOf
  <2> HIDE DEF cells, mid
  <2>2. GetCode(mid, f) = [k \in 1 .. Len(code) |-> code[k]]
    BY <1>2, <2>1 DEF GetCode
  <2> QED
    BY <2>2
<1>4. \/ new = mid
      \/ new = WriteHeaders(mid, {f})
      \/ new = Relocated(WriteHeaders(mid, Func), delta)
      \/ \E S \in SUBSET Func : new = WriteHeaders(WriteHeaders(mid, {f}), S)
  BY ReplaceForms
<1> HIDE DEF mid, delta, new, cells
<1>5. \A S \in SUBSET Func : \A i \in Func :
        /\ SameCode(mid, i, WriteHeaders(mid, S), i)
        /\ HeadersOutside(WriteHeaders(mid, S)) /\ FileType(WriteHeaders(mid, S))
  BY <1>2, WriteHeadersCode, WriteHeadersShape
<1>6. ASSUME NEW i \in Func
      PROVE  GetCode(new, i) = GetCode(mid, i)
  <2>1. CASE new = mid
    BY <2>1
  <2>2. CASE new = WriteHeaders(mid, {f})
    BY <1>5, <2>2, SameCodeReads
  <2>3. CASE new = Relocated(WriteHeaders(mid, Func), delta)
    <3> DEFINE all == WriteHeaders(mid, Func)
    <3>1. SameCode(mid, i, all, i) /\ HeadersOutside(all) /\ FileType(all)
      BY <1>5
    <3>2. /\ new.hdr = all.hdr
          /\ \A a \in DOMAIN all.raw : a # 0 => new.raw[a] = all.raw[a]
      BY <2>3 DEF Relocated, WriteHeaderFields
    <3> HIDE DEF all
    <3>3. ASSUME NEW k \in 1 .. all.hdr[i].size
          PROVE  /\ all.hdr[i].offset + k - 1 # 0
                 /\ all.hdr[i].offset + k - 1 \in DOMAIN all.raw
      <4>1. /\ all.hdr[i].offset \in Nat /\ all.hdr[i].small \in Nat
            /\ all.hdr[i].size \in Nat /\ all.len \in Nat
            /\ all.hdr[i].small < all.hdr[i].offset
            /\ all.hdr[i].offset + all.hdr[i].size <= all.len
            /\ DOMAIN all.raw = 0 .. (all.len - 1)
        BY <3>1 DEF FileType, FunctionHeader, HeadersOutside, End, Address
      <4>2. /\ all.hdr[i].offset > 0
            /\ k \in Nat /\ k > 0 /\ k <= all.hdr[i].size
        BY <4>1
      <4>3. /\ all.hdr[i].offset + k - 1 # 0
            /\ all.hdr[i].offset + k - 1 \in 0 .. (all.len - 1)
        <5> DEFINE o == all.hdr[i].offset
                   n == all.hdr[i].size
                   l == all.len
        <5>1. /\ o \in Nat /\ n \in Nat /\ l \in Nat /\ o > 0 /\ o + n <= l
              /\ k \in Nat /\ k > 0 /\ k <= n
          BY <4>1, <4>2
        <5> HIDE DEF o, n, l
        <5>2. o + k - 1 # 0 /\ o + k - 1 \in 0 .. (l - 1)
          BY <5>1
        <5> QED
          BY <5>2 DEF o, l
      <4> QED
        BY <4>1, <4>3
    <3>4. SameCode(all, i, new, i)
      BY <3>2, <3>3 DEF SameCode
    <3> QED
      BY <3>1, <3>4, SameCodeReads
  <2>4. CASE \E S \in SUBSET Func : new = WriteHeaders(WriteHeaders(mid, {f}), S)
    <3> DEFINE one == WriteHeaders(mid, {f})
    <3>1. SameCode(mid, i, one, i) /\ HeadersOutside(one) /\ FileType(one)
      BY <1>5
    <3> HIDE DEF one
    <3>2. PICK S \in SUBSET Func : new = WriteHeaders(one, S)
      BY <2>4 DEF one
    <3>3. SameCode(one, i, new, i)
      BY <3>1, <3>2, WriteHeadersCode
    <3> QED
      BY <3>1, <3>3, SameCodeReads
  <2> QED
    BY <1>4, <2>1, <2>2, <2>3, <2>4
<1>7. \A i \in Func \ {f} : GetCode(mid, i) = GetCode(image, i)
  BY <1>2, SameCodeReads
<1> QED
  BY <1>3, <1>6, <1>7 DEF new, cells

-----------------------------------------------------------------------------
(***************************************************************************)
(* What the mapping needs besides Inv: nothing is outstanding between      *)
(* batches, and the function at hand is not also still to come.            *)
(***************************************************************************)
MapInv ==
  /\ Inv
  /\ phase = "idle" => todo = {}
  /\ phase = "dedup" => cur \notin todo

LEMMA MapInvHolds ==
  ASSUME CoEdits = FALSE
  PROVE  Spec => []MapInv
<1>1. Init => MapInv
  BY InitInv DEF Init, MapInv
<1>2. MapInv /\ [Next]_vars => MapInv'
  <2> SUFFICES ASSUME MapInv, [Next]_vars
               PROVE  MapInv'
    OBVIOUS
  <2>1. Inv'
    BY NextInv DEF MapInv
  <2>2. (phase = "idle" => todo = {})' /\ (phase = "dedup" => cur \notin todo)'
    BY DEF MapInv, Next, Patch, Begin, Pick, Deduplicate, SpliceCode, PlaceTable, Finish,
           Fail, batch, history, vars
  <2> QED
    BY <2>1, <2>2 DEF MapInv
<1> QED
  BY <1>1, <1>2, PTL DEF Spec

(* A function on no arguments is the empty sequence. *)
LEMMA NoArguments ==
  ASSUME NEW s, s = [x \in {} |-> s[x]]
  PROVE  s = <<>>
<1>1. s \in [1 .. 0 -> {}]
  OBVIOUS
<1>2. s \in Seq({})
  BY <1>1, SeqDef
<1>3. Len(s) = 0
  BY <1>1, <1>2, LenProperties
<1> QED
  BY <1>2, <1>3, EmptySeq

LEMMA NothingWanted ==
  ASSUME Outstanding = {}
  PROVE  Wanted = <<>>
<1>1. CASE phase = "failed"
  BY <1>1 DEF Wanted
<1>2. CASE phase # "failed"
  <2>1. Wanted = [x \in {} |-> Wanted[x]]
    BY <1>2 DEF Wanted
  <2> QED
    BY <2>1, NoArguments
<1> QED
  BY <1>1, <1>2

(* The initial states are initial states of the store. *)
LEMMA InitMaps == Init => Store!Init
<1> SUFFICES ASSUME Init PROVE Store!Init
  OBVIOUS
<1>1. Code \in [Func -> Seq(Unit)]
  BY PatchAssumption DEF Init, Code
<1>2. Wanted = <<>>
  BY NothingWanted DEF Init, Outstanding
<1> QED
  BY <1>1, <1>2 DEF Store!Init, Store!NoRequest

(* Steps that change neither the code nor what is wanted are stutters. *)
LEMMA SameCodeMaps ==
  ASSUME \A i \in Func : GetCode(file', i) = GetCode(file, i)
  PROVE  Code' = Code
BY DEF Code

(* A step that gives up leaves nothing wanted. *)
LEMMA FailureMaps ==
  ASSUME phase' = "failed",
         \/ Code' = Code
         \/ \E f \in DOMAIN Wanted : Code' = [Code EXCEPT ![f] = Wanted[f]]
  PROVE  Store!Abandon
<1>1. Wanted' = <<>>
  BY DEF Wanted
<1> QED
  BY <1>1 DEF Store!Abandon, Store!NoRequest

LEMMA BeginMaps ==
  ASSUME MapInv, NEW S \in SUBSET Func, Begin(S)
  PROVE  Store!Request(S)
<1>1. /\ phase = "idle" /\ phase' = "pick" /\ S # {} /\ todo' = S
      /\ edit' \in [S -> Edits] /\ file' = file
  BY DEF Begin
<1>2. Wanted = <<>>
  BY <1>1, NothingWanted DEF MapInv, Outstanding
<1>3. Wanted' = [f \in S |-> edit'[f].code]
  BY <1>1 DEF Wanted, Outstanding
<1>4. Wanted' \in [S -> Seq(Unit)]
  BY <1>1, <1>3, PatchAssumption
<1>5. Code' = Code
  BY <1>1 DEF Code
<1> QED
  BY <1>1, <1>2, <1>4, <1>5 DEF Store!Request, Store!NoRequest

LEMMA PickMaps ==
  ASSUME MapInv, NEW f \in Func, Pick(f)
  PROVE  Code' = Code /\ Wanted' = Wanted
<1>1. /\ phase = "pick" /\ phase' = "dedup" /\ f \in todo /\ cur' = f
      /\ todo' = todo \ {f} /\ file' = file /\ edit' = edit
  BY DEF Pick
<1>2. Outstanding' = Outstanding
  BY <1>1 DEF Outstanding
<1> QED
  BY <1>1, <1>2 DEF Code, Wanted

LEMMA DeduplicateMaps ==
  ASSUME MapInv, NEW i \in Func, Deduplicate(i)
  PROVE  Store!Abandon \/ (Code' = Code /\ Wanted' = Wanted)
<1> DEFINE at       == SegmentEnd(file)
           copy     == [k \in 1 .. file.hdr[i].size |->
                          file.raw[file.hdr[i].offset + k - 1]]
           inserted == InsertBytesAt(file, at, copy)
           pointed  == PointAt(inserted, i, at)
<1>1. phase = "dedup" /\ UNCHANGED <<batch, cur>>
  BY DEF Deduplicate
<1>2. WellFormed(file)
  BY <1>1 DEF MapInv, Inv, LayoutKept
<1>3. /\ Len(copy) = file.hdr[i].size /\ Len(copy) \in Nat
      /\ \A k \in 1 .. Len(copy) : copy[k] = file.raw[file.hdr[i].offset + k - 1]
  <2>1. file.hdr[i].size \in Nat
    BY <1>2 DEF WellFormed, FileType, FunctionHeader
  <2>2. copy = [k \in 1 .. file.hdr[i].size |-> copy[k]]
    OBVIOUS
  <2>3. Len(copy) = file.hdr[i].size
    BY <2>1, <2>2, LenOfFunction
  <2> QED
    BY <2>1, <2>3
<1>4. \/ /\ phase' = "failed"
         /\ file' = file \/ file' = inserted \/ file' = pointed
      \/ /\ AllFit(Inserted(file, at, copy), Func)
         /\ file' = WriteHeaders(pointed, {i})
         /\ phase' = phase
  BY DEF Deduplicate, Fail
<1> HIDE DEF copy
<1>5. \A j \in Func : /\ GetCode(inserted, j) = GetCode(file, j)
                      /\ GetCode(pointed, j) = GetCode(file, j)
  <2>1. \A j \in Func : SameCode(file, j, inserted, j)
    BY <1>2, <1>3, InsertKeepsCode
  <2>2. \A j \in Func : GetCode(pointed, j) = GetCode(file, j)
    BY <1>2, <1>3, CopyKeepsCode
  <2> HIDE DEF inserted, pointed
  <2> QED
    BY <2>1, <2>2, SameCodeReads
<1>6. CASE phase' = "failed" /\ (file' = file \/ file' = inserted \/ file' = pointed)
  <2> HIDE DEF inserted, pointed
  <2>1. Code' = Code
    BY <1>5, <1>6, SameCodeMaps
  <2> QED
    BY <1>6, <2>1, FailureMaps
<1>7. CASE /\ AllFit(Inserted(file, at, copy), Func)
           /\ file' = WriteHeaders(pointed, {i})
           /\ phase' = phase
  <2>1. \A j \in Func : GetCode(WriteHeaders(pointed, {i}), j) = GetCode(file, j)
    BY <1>2, <1>3, <1>7, CopyKeepsCode
  <2> HIDE DEF pointed
  <2>2. Code' = Code
    BY <1>7, <2>1, SameCodeMaps
  <2>3. Wanted' = Wanted
    BY <1>1, <1>7 DEF Wanted, Outstanding, batch
  <2> QED
    BY <2>2, <2>3
<1> QED
  BY <1>4, <1>6, <1>7

LEMMA SpliceCodeMaps ==
  ASSUME MapInv, SpliceCode
  PROVE  Store!Abandon \/ Store!Apply(cur)
<1> DEFINE code == edit[cur].code
<1>1. /\ phase = "dedup" /\ aliases = {} /\ UNCHANGED <<batch, cur>>
  BY DEF SpliceCode
<1>2. /\ WellFormed(file) /\ cur \in Func /\ cur \in changed /\ cur \notin todo
      /\ edit \in [changed -> Edits]
      /\ \A g \in Func \ {cur} : SeparateBody(file.hdr[cur], file.hdr[g])
  BY <1>1 DEF MapInv, Inv, LayoutKept, TypeOK, CurrentApart
<1>3. code \in Seq(Unit)
  BY <1>2, PatchAssumption
<1>4. DOMAIN Wanted = todo \cup {cur} /\ Wanted[cur] = code
  BY <1>1 DEF Wanted, Outstanding
<1>5. \/ phase' = "failed" /\ file' = file
      \/ phase' = "failed" /\ file' = ReplaceCode(file, cur, Cells(code))
      \/ phase' \in {"pick", "tables"} /\ file' = ReplaceCode(file, cur, Cells(code))
  BY DEF SpliceCode, Fail
<1> HIDE DEF code
<1>6. ASSUME file' = ReplaceCode(file, cur, Cells(code))
      PROVE  Code' = [Code EXCEPT ![cur] = Wanted[cur]]
  <2>1. /\ \A i \in Func \ {cur} : GetCode(file', i) = GetCode(file, i)
        /\ GetCode(file', cur) = code
    BY <1>2, <1>3, <1>6, ReplaceKeepsCode
  <2> QED
    BY <1>4, <2>1 DEF Code
<1>7. CASE phase' = "failed" /\ file' = file
  BY <1>7, FailureMaps DEF Code
<1>8. CASE phase' = "failed" /\ file' = ReplaceCode(file, cur, Cells(code))
  BY <1>4, <1>6, <1>8, FailureMaps
<1>9. CASE phase' \in {"pick", "tables"} /\ file' = ReplaceCode(file, cur, Cells(code))
  <2>1. Wanted = [f \in todo \cup {cur} |-> edit[f].code]
    BY <1>1 DEF Wanted, Outstanding
  <2>2. Wanted' = [f \in todo |-> edit[f].code]
    BY <1>1, <1>9 DEF Wanted, Outstanding, batch
  <2>3. (todo \cup {cur}) \ {cur} = todo
    BY <1>2
  <2>4. Wanted' = [g \in DOMAIN Wanted \ {cur} |-> Wanted[g]]
    BY <2>1, <2>2, <2>3
  <2> QED
    BY <1>4, <1>6, <1>9, <2>4 DEF Store!Apply
<1> QED
  BY <1>5, <1>7, <1>8, <1>9

LEMMA PlaceTableMaps ==
  ASSUME MapInv, NEW k \in pending, PlaceTable(k)
  PROVE  Store!Abandon \/ (Code' = Code /\ Wanted' = Wanted)
<1> DEFINE at       == SegmentEnd(file)
           pad      == Padding(at)
           cells    == [n \in 1 .. (pad + 1) |->
                          IF n <= pad THEN PadCell ELSE TableCell(edit[cur].table, k)]
           inserted == InsertBytesAt(file, at, cells)
           inst     == inserted.hdr[cur].offset + k
<1>1. phase = "tables" /\ UNCHANGED <<batch, cur>>
  BY DEF PlaceTable
<1>2. WellFormed(file)
  BY <1>1 DEF MapInv, Inv, LayoutKept
<1>3. Len(cells) \in Nat
  <2>1. at \in Nat
    BY <1>2, SegmentEndBounds DEF WellFormed
  <2>2. pad \in Nat
    BY <2>1, PaddingNat
  <2> HIDE DEF pad
  <2>3. cells = [n \in 1 .. (pad + 1) |-> cells[n]]
    OBVIOUS
  <2> HIDE DEF cells
  <2> QED
    BY <2>2, <2>3, LenOfFunction
<1>4. \/ /\ AllFit(Inserted(file, at, cells), Func)
         /\ file' = SetArg2(inserted, inst, at + pad - inst)
         /\ phase' \in {"pick", "tables"}
      \/ /\ file' = inserted /\ phase' = "failed"
  BY DEF PlaceTable, Fail
<1> HIDE DEF cells, pad
<1>5. \A j \in Func : GetCode(inserted, j) = GetCode(file, j)
  <2>1. \A j \in Func : SameCode(file, j, inserted, j)
    BY <1>2, <1>3, InsertKeepsCode
  <2> HIDE DEF inserted
  <2> QED
    BY <2>1, SameCodeReads
<1>6. CASE file' = inserted /\ phase' = "failed"
  <2> HIDE DEF inserted
  <2>1. Code' = Code
    BY <1>5, <1>6, SameCodeMaps
  <2> QED
    BY <1>6, <2>1, FailureMaps
<1>7. CASE /\ AllFit(Inserted(file, at, cells), Func)
           /\ file' = SetArg2(inserted, inst, at + pad - inst)
           /\ phase' \in {"pick", "tables"}
  <2>1. WellFormed(inserted)
    BY <1>2, <1>3, <1>7, LayoutOf, InsertKeepsLayout
  <2> HIDE DEF inserted, inst
  <2>2. FileType(inserted) /\ HeadersOutside(inserted)
    BY <2>1, OrderedOutside DEF WellFormed
  <2>3. \A j \in Func : GetCode(file', j) = GetCode(file, j)
    BY <1>5, <1>7, <2>2, SetArg2KeepsCode
  <2>4. Wanted' = Wanted
    BY <1>1, <1>7 DEF Wanted, Outstanding, batch
  <2> QED
    BY <2>3, <2>4, SameCodeMaps
<1> QED
  BY <1>4, <1>6, <1>7

(* Every step is a step of the store, or none. *)
LEMMA NextMaps ==
  ASSUME MapInv, [Next]_vars
  PROVE  [Store!Next]_(Store!vars)
<1>1. ASSUME NEW S \in SUBSET Func, Begin(S) PROVE Store!Next
  BY <1>1, BeginMaps DEF Store!Next
<1>2. ASSUME NEW f \in Func, Pick(f) PROVE UNCHANGED Store!vars
  BY <1>2, PickMaps DEF Store!vars
<1>3. ASSUME NEW i \in Func, Deduplicate(i)
      PROVE  Store!Next \/ UNCHANGED Store!vars
  BY <1>3, DeduplicateMaps DEF Store!Next, Store!vars
<1>4. CASE SpliceCode
  <2>1. cur \in Func
    BY DEF MapInv, Inv, TypeOK
  <2> QED
    BY <1>4, <2>1, SpliceCodeMaps DEF Store!Next
<1>5. ASSUME NEW k \in pending, PlaceTable(k)
      PROVE  Store!Next \/ UNCHANGED Store!vars
  BY <1>5, PlaceTableMaps DEF Store!Next, Store!vars
<1>6. CASE Finish
  BY <1>6 DEF Finish, Store!vars, Code, Wanted, Outstanding, batch
<1>7. CASE UNCHANGED vars
  BY <1>7 DEF vars, Store!vars, Code, Wanted, Outstanding, batch
<1> QED
  BY <1>1, <1>2, <1>3, <1>4, <1>5, <1>6, <1>7 DEF Next, Patch

(***************************************************************************)
(* A patched file contains exactly the bodies that were asked for, through *)
(* every splice, copy, shift and error return of assembleAndPatchFuncs, as *)
(* long as no batch names two functions that start at the same offset.     *)
(***************************************************************************)
THEOREM StoreImplemented ==
  ASSUME CoEdits = FALSE
  PROVE  Spec => ImplementsStore
<1>1. Init => Store!Init
  BY InitMaps
<1>2. MapInv /\ [Next]_vars => [Store!Next]_(Store!vars)
  BY NextMaps
<1> QED
  BY <1>1, <1>2, MapInvHolds, PTL DEF Spec, ImplementsStore, Store!Spec

-----------------------------------------------------------------------------
(* Rounding up to the alignment. *)

(* Division with remainder by Align, and that the remainder is the only one. *)
LEMMA Remainder ==
  ASSUME NEW a \in Int
  PROVE  /\ a % Align \in 0 .. (Align - 1) /\ a \div Align \in Int
         /\ a = Align * (a \div Align) + (a % Align)
  BY HBCAssumption

LEMMA RemainderUnique ==
  ASSUME NEW q \in Int, NEW r \in 0 .. (Align - 1)
  PROVE  (Align * q + r) % Align = r
  BY HBCAssumption

(* The padding of an address depends on its remainder only. *)
LEMMA PaddingOf ==
  ASSUME NEW a \in Int
  PROVE  /\ Padding(a) \in 0 .. (Align - 1)
         /\ Padding(a) = IF a % Align = 0 THEN 0 ELSE Align - (a % Align)
<1>1. Align \in Nat /\ Align > 0 /\ a % Align \in 0 .. (Align - 1)
  BY Remainder, HBCAssumption
<1>2. CASE a % Align = 0
  <2>1. Align % Align = 0
    <3>1. (Align * 1 + 0) % Align = 0
      BY <1>1, RemainderUnique
    <3> QED
      BY <1>1, <3>1
  <2> QED
    BY <1>1, <1>2, <2>1 DEF Padding
<1>3. CASE a % Align # 0
  <2> DEFINE r == Align - (a % Align)
  <2>1. r \in 0 .. (Align - 1)
    BY <1>1, <1>3
  <2>2. (Align * 0 + r) % Align = r
    BY <2>1, RemainderUnique
  <2>3. r % Align = r
    BY <1>1, <2>1, <2>2
  <2> QED
    BY <1>3, <2>1, <2>3 DEF Padding
<1> QED
  BY <1>2, <1>3

(* An aligned address is its own; every other is moved up to one. *)
LEMMA AlignUpAligned ==
  ASSUME NEW a \in Int
  PROVE  /\ AlignUp(a) \in Int /\ a <= AlignUp(a)
         /\ AlignUp(a) % Align = 0
         /\ a % Align = 0 => AlignUp(a) = a
<1> DEFINE q == a \div Align
           r == a % Align
<1>1. /\ Align \in Nat /\ Align > 0 /\ q \in Int /\ r \in 0 .. (Align - 1)
      /\ a = Align * q + r
  BY Remainder, HBCAssumption
<1>2. /\ Padding(a) \in 0 .. (Align - 1)
      /\ Padding(a) = IF r = 0 THEN 0 ELSE Align - r
  BY PaddingOf
<1> HIDE DEF q, r
<1>3. AlignUp(a) % Align = 0
  <2>1. AlignUp(a) = Align * (IF r = 0 THEN q ELSE q + 1) + 0
    BY <1>1, <1>2 DEF AlignUp
  <2> QED
    BY <1>1, <2>1, RemainderUnique
<1> QED
  BY <1>1, <1>2, <1>3 DEF AlignUp, r

Aligned(d) == d % Align = 0

(* A shift by a multiple of the alignment moves the aligned address along. *)
LEMMA AlignUpShift ==
  ASSUME NEW a \in Int, NEW d \in Int, Aligned(d)
  PROVE  AlignUp(a + d) = AlignUp(a) + d
<1> DEFINE q == a \div Align
           r == a % Align
           p == d \div Align
<1>1. /\ Align \in Nat /\ Align > 0 /\ q \in Int /\ r \in 0 .. (Align - 1)
      /\ a = Align * q + r /\ p \in Int /\ d = Align * p
  BY Remainder, HBCAssumption DEF Aligned
<1> HIDE DEF q, r, p
<1>2. (a + d) % Align = r
  <2>1. a + d = Align * (q + p) + r /\ q + p \in Int
    BY <1>1
  <2> QED
    BY <1>1, <2>1, RemainderUnique
<1>3. Padding(a + d) = Padding(a) /\ Padding(a) \in Int
  BY <1>2, PaddingOf DEF Padding, r
<1> QED
  BY <1>3 DEF AlignUp

-----------------------------------------------------------------------------
(* Where the cells of an image go. *)

(* No function header is kept at address a. *)
NoHeaderAt(image, a) ==
  \A i \in Func : /\ image.hdr[i].small # a
                  /\ image.hdr[i].overflowed => image.hdr[i].large # a

(* A lower bound of the large headers and the debug info bounds the end. *)
LEMMA SegmentEndAtLeast ==
  ASSUME NEW image, FileType(image), SectionsInOrder(image), NEW e \in Nat,
         e <= image.dbg,
         \A i \in Func : image.hdr[i].overflowed => e <= image.hdr[i].large
  PROVE  e <= SegmentEnd(image)
<1> DEFINE L == SegmentLimits(image)
<1>1. L \subseteq Nat /\ L # {} /\ \A x \in L : e <= x
  BY DEF SegmentLimits, FileType, FunctionHeader
<1>2. \E m \in L : \A x \in L : m <= x
  <2> HIDE DEF L
  <2> QED
    BY <1>1, LeastElement
<1>3. SegmentEnd(image) \in L
  BY <1>2 DEF SegmentEnd
<1> QED
  BY <1>1, <1>3

(***************************************************************************)
(* insertBytesAt at the end of the segment, all headers written or only    *)
(* those before an error: a cell in front that is no header stays, a cell  *)
(* behind that is no header moves with the rest, and so do the headers.    *)
(***************************************************************************)
LEMMA InsertMovesCells ==
  ASSUME NEW image, WellFormed(image), NEW cells, Len(cells) \in Nat
  PROVE  LET at  == SegmentEnd(image)
             n   == Len(cells)
             new == InsertBytesAt(image, at, cells)
         IN  /\ new.len = image.len + n
             /\ \A i \in Func : Moved(new.hdr[i], image.hdr[i], at, n)
             /\ \A a \in 1 .. (at - 1) :
                  NoHeaderAt(image, a) => new.raw[a] = image.raw[a]
             /\ \A a \in at .. (image.len - 1) :
                  NoHeaderAt(image, a) => new.raw[a + n] = image.raw[a]
<1> DEFINE at  == SegmentEnd(image)
           n   == Len(cells)
           mid == Inserted(image, at, cells)
           S   == {i \in Func : \A j \in Func : j <= i => HeaderFits(mid, j)}
           new == InsertBytesAt(image, at, cells)
<1>1. new = WriteHeaders(mid, S) /\ S \in SUBSET Func
  BY DEF InsertBytesAt, WriteUntilError
<1>2. new.hdr = mid.hdr /\ new.len = mid.len
  BY <1>1 DEF WriteHeaders, WithRaw
<1>3. /\ FileType(image) /\ SectionsInOrder(image)
      /\ at \in 1 .. (image.len - 1) /\ image.len \in Nat
      /\ \A i \in Func : image.hdr[i].small < at
      /\ \A i \in Func : image.hdr[i].overflowed => at <= image.hdr[i].large
      /\ \A i \in Func : image.hdr[i].small \in Nat /\ image.hdr[i].large \in Nat
  BY SegmentEndInside, SegmentEndBounds DEF WellFormed, FileType, FunctionHeader
<1>4. /\ mid.len = image.len + n
      /\ \A a \in 1 .. (mid.len - 1) :
           /\ a < at => mid.raw[a] = image.raw[a]
           /\ at + n <= a => mid.raw[a] = image.raw[a - n]
  BY <1>3, InsertedFields
<1>5. \A i \in Func : Moved(mid.hdr[i], image.hdr[i], at, n)
  BY LayoutOf, InsertedMoves
<1> HIDE DEF at, n, mid, S, new
<1>6. n \in Nat
  BY DEF n
<1>7. ASSUME NEW a \in 1 .. (at - 1), NoHeaderAt(image, a)
      PROVE  new.raw[a] = image.raw[a]
  <2>1. a \in Address(mid) /\ a \in 1 .. (mid.len - 1) /\ a < at
    BY <1>3, <1>4, <1>6 DEF Address
  <2>2. ASSUME NEW i \in Func
        PROVE  mid.hdr[i].small # a /\ (mid.hdr[i].overflowed => mid.hdr[i].large # a)
    <3>1. /\ mid.hdr[i].small = image.hdr[i].small /\ image.hdr[i].small # a
          /\ mid.hdr[i].overflowed => /\ mid.hdr[i].large = image.hdr[i].large + n
                                      /\ at <= image.hdr[i].large
      BY <1>3, <1>5, <1>7 DEF Moved, NoHeaderAt
    <3>2. mid.hdr[i].overflowed => at <= mid.hdr[i].large
      BY <1>3, <1>6, <3>1
    <3> QED
      BY <1>3, <1>6, <2>1, <3>1, <3>2
  <2>3. new.raw[a] = mid.raw[a]
    BY <1>1, <2>1, <2>2, WriteHeadersElsewhere
  <2> QED
    BY <1>4, <2>1, <2>3
<1>8. ASSUME NEW a \in at .. (image.len - 1), NoHeaderAt(image, a)
      PROVE  new.raw[a + n] = image.raw[a]
  <2>1. /\ a + n \in Address(mid) /\ a + n \in 1 .. (mid.len - 1) /\ at + n <= a + n
        /\ (a + n) - n = a
    BY <1>3, <1>4, <1>6 DEF Address
  <2>2. ASSUME NEW i \in Func
        PROVE  mid.hdr[i].small # a + n
               /\ (mid.hdr[i].overflowed => mid.hdr[i].large # a + n)
    <3>1. /\ mid.hdr[i].small = image.hdr[i].small
          /\ mid.hdr[i].overflowed = image.hdr[i].overflowed
          /\ mid.hdr[i].overflowed => /\ mid.hdr[i].large = image.hdr[i].large + n
                                      /\ image.hdr[i].large # a
      BY <1>5, <1>8 DEF Moved, NoHeaderAt
    <3>2. image.hdr[i].small < a + n
      BY <1>3, <1>6
    <3> QED
      BY <1>3, <1>6, <3>1, <3>2
  <2>3. new.raw[a + n] = mid.raw[a + n]
    BY <1>1, <2>1, <2>2, WriteHeadersElsewhere
  <2> QED
    BY <1>4, <2>1, <2>3
<1> QED
  BY <1>2, <1>4, <1>5, <1>7, <1>8 DEF at, n, new

(* The end of the segment lies behind whatever is inserted there. *)
LEMMA InsertedSegmentEnd ==
  ASSUME NEW image, WellFormed(image), NEW cells, Len(cells) \in Nat
  PROVE  LET new == InsertBytesAt(image, SegmentEnd(image), cells)
         IN  FileType(new) /\ SectionsInOrder(new)
               => SegmentEnd(image) + Len(cells) <= SegmentEnd(new)
<1> DEFINE at  == SegmentEnd(image)
           n   == Len(cells)
           new == InsertBytesAt(image, at, cells)
<1> SUFFICES ASSUME FileType(new), SectionsInOrder(new)
             PROVE  at + n <= SegmentEnd(new)
  OBVIOUS
<1>1. /\ FileType(image) /\ SectionsInOrder(image)
      /\ \A i \in Func : Moved(new.hdr[i], image.hdr[i], at, n)
  BY InsertMovesCells DEF WellFormed
<1>2. at \in Nat /\ at <= image.dbg /\ image.dbg \in Nat /\ new.dbg = image.dbg + n
  BY <1>1, SegmentEndBounds
  DEF FileType, InsertBytesAt, WriteUntilError, WriteHeaders, WithRaw, Inserted
<1>3. ASSUME NEW i \in Func, new.hdr[i].overflowed
      PROVE  /\ new.hdr[i].large = image.hdr[i].large + n
             /\ image.hdr[i].large \in Nat /\ at <= image.hdr[i].large
  BY <1>1, <1>3, SegmentEndBounds DEF Moved, FileType, FunctionHeader
<1> HIDE DEF at, n, new
<1>4. n \in Nat
  BY DEF n
<1>5. \A i \in Func : new.hdr[i].overflowed => at + n <= new.hdr[i].large
  BY <1>2, <1>3, <1>4
<1> QED
  BY <1>2, <1>4, <1>5, SegmentEndAtLeast

-----------------------------------------------------------------------------
(* The jump tables of the function being patched. *)

(***************************************************************************)
(* The switch at position k of f reads content t back, from a cell behind  *)
(* the code of f and in front of the end of the segment.                   *)
(***************************************************************************)
TableBehind(image, f, k, t) ==
  LET a == TableAddress(image, f, k)
  IN  /\ a \in Nat /\ End(image.hdr[f]) <= a /\ a < SegmentEnd(image)
      /\ image.raw[a] = TableCell(t, k)

(* Between a body and the end of the segment there is no header. *)
LEMMA SegmentHasNoHeader ==
  ASSUME NEW image, WellFormed(image), NEW f \in Func,
         NEW a \in Nat, image.hdr[f].offset <= a, a < SegmentEnd(image)
  PROVE  a \in 1 .. (SegmentEnd(image) - 1) /\ NoHeaderAt(image, a)
<1>1. FileType(image) /\ SectionsInOrder(image)
  BY DEF WellFormed
<1>2. SegmentEnd(image) \in Nat /\ image.hdr[f].offset \in Nat
  BY <1>1, SegmentEndBounds DEF FileType, FunctionHeader
<1>3. ASSUME NEW i \in Func
      PROVE  /\ image.hdr[i].small \in Nat /\ image.hdr[i].large \in Nat
             /\ 0 < image.hdr[i].small /\ image.hdr[i].small < image.hdr[f].offset
             /\ image.hdr[i].overflowed => SegmentEnd(image) <= image.hdr[i].large
  BY <1>1, SegmentEndBounds DEF FileType, FunctionHeader, SectionsInOrder
<1>4. 0 < a
  BY <1>2, <1>3
<1>5. NoHeaderAt(image, a)
  BY <1>2, <1>3 DEF NoHeaderAt
<1> QED
  BY <1>2, <1>4, <1>5

(***************************************************************************)
(* A table placed earlier survives the insertion of a later one: neither   *)
(* the switch nor the table moves, and no header is written over either.   *)
(***************************************************************************)
LEMMA InsertKeepsTable ==
  ASSUME NEW image, WellFormed(image), NEW cells, Len(cells) \in Nat,
         AllFit(Inserted(image, SegmentEnd(image), cells), Func),
         NEW f \in Func, NEW k \in 0 .. (image.hdr[f].size - 1), NEW t,
         TableBehind(image, f, k, t)
  PROVE  LET new == InsertBytesAt(image, SegmentEnd(image), cells)
         IN  TableBehind(new, f, k, t)
<1> DEFINE at   == SegmentEnd(image)
           n    == Len(cells)
           new  == InsertBytesAt(image, at, cells)
           h    == image.hdr[f]
           a    == TableAddress(image, f, k)
           inst == h.offset + k
<1>1. /\ FileType(image) /\ SectionsInOrder(image)
      /\ WellFormed(new) /\ FileType(new) /\ SectionsInOrder(new)
  BY LayoutOf, InsertKeepsLayout DEF WellFormed
<1>2. /\ at \in Nat /\ h.offset + h.size <= at /\ End(h) = h.offset + h.size
      /\ h.offset \in Nat /\ h.size \in Nat /\ k \in 0 .. (h.size - 1)
  BY <1>1, SegmentEndBounds DEF FileType, FunctionHeader, End
<1>3. /\ \A i \in Func : Moved(new.hdr[i], image.hdr[i], at, n)
      /\ \A b \in 1 .. (at - 1) : NoHeaderAt(image, b) => new.raw[b] = image.raw[b]
  BY InsertMovesCells
<1>4. at <= SegmentEnd(new) /\ n \in Nat
  <2>1. at + n <= SegmentEnd(new) /\ n \in Nat
    BY <1>1, InsertedSegmentEnd
  <2>2. SegmentEnd(new) \in Nat
    BY <1>1, SegmentEndBounds
  <2> HIDE DEF at, n, new
  <2> QED
    BY <1>2, <2>1, <2>2
<1>5. End(h) <= a /\ a < at /\ image.raw[a] = TableCell(t, k) /\ a \in Nat
  BY DEF TableBehind
<1>6. SegmentEnd(new) \in Nat
  BY <1>1, SegmentEndBounds
<1> HIDE DEF at, n, new, a
<1>7. inst \in Nat /\ h.offset <= inst /\ inst < at /\ h.offset < at /\ h.offset <= a
  <2> HIDE DEF h
  <2> QED
    BY <1>2, <1>5
<1>8. new.raw[inst] = image.raw[inst] /\ new.raw[a] = image.raw[a]
  <2>1. inst \in 1 .. (at - 1) /\ NoHeaderAt(image, inst)
    BY <1>7, SegmentHasNoHeader DEF at
  <2>2. a \in 1 .. (at - 1) /\ NoHeaderAt(image, a)
    BY <1>5, <1>7, SegmentHasNoHeader DEF at
  <2> QED
    BY <1>3, <2>1, <2>2
<1>9. new.hdr[f].offset = h.offset /\ new.hdr[f].size = h.size
  BY <1>3, <1>7 DEF Moved
<1>10. TableAddress(new, f, k) = a
  BY <1>8, <1>9 DEF TableAddress, a
<1>11. a < SegmentEnd(new)
  BY <1>2, <1>4, <1>5, <1>6
<1> QED
  BY <1>5, <1>8, <1>9, <1>10, <1>11 DEF TableBehind, End, at, new, a

(***************************************************************************)
(* Pointing arg2 at an aligned address makes the reader look there, and    *)
(* leaves what the other switches of the function read.                    *)
(***************************************************************************)
LEMMA SetArg2PointsAt ==
  ASSUME NEW image, WellFormed(image), NEW f \in Func,
         NEW k \in 0 .. (image.hdr[f].size - 1),
         NEW a \in Nat, a % Align = 0,
         End(image.hdr[f]) <= a, a < SegmentEnd(image)
  PROVE  LET inst == image.hdr[f].offset + k
             new  == SetArg2(image, inst, a - inst)
         IN  /\ TableAddress(new, f, k) = a
             /\ \A t : image.raw[a] = TableCell(t, k) => TableBehind(new, f, k, t)
             /\ \A j \in 0 .. (image.hdr[f].size - 1) : \A t :
                  j # k /\ TableBehind(image, f, j, t) => TableBehind(new, f, j, t)
<1> DEFINE h    == image.hdr[f]
           inst == h.offset + k
           new  == SetArg2(image, inst, a - inst)
<1>1. /\ FileType(image) /\ SectionsInOrder(image)
      /\ h.offset \in Nat /\ h.size \in Nat /\ image.len \in Nat
      /\ k \in 0 .. (h.size - 1)
      /\ DOMAIN image.raw = 0 .. (image.len - 1)
      /\ End(h) = h.offset + h.size /\ h.offset + h.size <= SegmentEnd(image)
  BY SegmentEndBounds DEF WellFormed, FileType, FunctionHeader, Address, End
<1>2. SegmentEnd(image) \in 1 .. (image.len - 1)
  BY <1>1, SegmentEndInside
<1>3. /\ new.hdr = image.hdr /\ new.dbg = image.dbg
      /\ new.raw = [image.raw EXCEPT
                      ![inst] = [unit |-> UnitOf(image.raw[inst]), arg2 |-> a - inst]]
  BY DEF SetArg2, WithRaw
<1>4. SegmentEnd(new) = SegmentEnd(image)
  <2>1. SegmentLimits(new) = SegmentLimits(image)
    BY <1>3 DEF SegmentLimits
  <2> QED
    BY <2>1 DEF SegmentEnd
<1> HIDE DEF new, h
<1>5. inst \in DOMAIN image.raw /\ inst \in Nat /\ inst < h.offset + h.size
  BY <1>1, <1>2
<1>6. \A b \in DOMAIN image.raw : b # inst => new.raw[b] = image.raw[b]
  BY <1>3
<1>7. TableAddress(new, f, k) = a
  <2>1. new.raw[inst].arg2 = a - inst
    BY <1>3, <1>5
  <2>2. inst + (a - inst) = a
    BY <1>5
  <2>3. TableAddress(new, f, k) = AlignUp(inst + (a - inst))
    BY <1>3, <2>1 DEF TableAddress, h
  <2> QED
    BY <2>2, <2>3, AlignUpAligned
<1>8. \A b \in Nat : End(h) <= b /\ b < SegmentEnd(image) => new.raw[b] = image.raw[b]
  <2> SUFFICES ASSUME NEW b \in Nat, End(h) <= b, b < SegmentEnd(image)
               PROVE  new.raw[b] = image.raw[b]
    OBVIOUS
  <2>1. b \in DOMAIN image.raw /\ b # inst
    BY <1>1, <1>2, <1>5
  <2> QED
    BY <1>6, <2>1
<1>9. ASSUME NEW t, image.raw[a] = TableCell(t, k)
      PROVE  TableBehind(new, f, k, t)
  BY <1>3, <1>4, <1>7, <1>8, <1>9 DEF TableBehind, h
<1>10. ASSUME NEW j \in 0 .. (h.size - 1), NEW t, j # k, TableBehind(image, f, j, t)
       PROVE  TableBehind(new, f, j, t)
  <2> DEFINE other == h.offset + j
  <2>1. other \in DOMAIN image.raw /\ other # inst
    <3>1. j \in Nat /\ j <= h.size - 1 /\ j # k /\ k \in Nat
      BY <1>1, <1>10
    <3>2. other \in Nat /\ other < h.offset + h.size /\ other # inst
      BY <1>1, <3>1
    <3> HIDE DEF other
    <3>3. other <= image.len - 1
      BY <1>1, <1>2, <3>2
    <3> QED
      BY <1>1, <3>2, <3>3
  <2>2. new.raw[other] = image.raw[other]
    BY <1>6, <2>1
  <2>3. TableAddress(new, f, j) = TableAddress(image, f, j)
    BY <1>3, <2>2 DEF TableAddress, h
  <2> QED
    BY <1>3, <1>4, <1>8, <1>10, <2>3 DEF TableBehind, h
<1> QED
  BY <1>7, <1>9, <1>10 DEF new, h

(***************************************************************************)
(* The tables placed so far.  PlacedTablesResolve speaks of the moment all *)
(* of them are placed, so it is not inductive; this says what holds from   *)
(* the splice on, while later tables are inserted behind earlier ones.     *)
(***************************************************************************)
PlacedSoFar ==
  phase = "tables" =>
    /\ table[cur] = edit[cur].table
    /\ GetCode(file, cur) = edit[cur].code
    /\ pending \subseteq Switches(edit[cur].code)
    /\ \A k \in Switches(edit[cur].code) \ pending :
         TableBehind(file, cur, k, table[cur])

TablesInv ==
  /\ Inv
  /\ PlacedSoFar
  /\ PlacedTablesResolve

(* Switches are positions in the code. *)
LEMMA SwitchInside ==
  ASSUME NEW image, NEW f \in Func, image.hdr[f].size \in Nat,
         NEW k \in Switches(GetCode(image, f))
  PROVE  k \in 0 .. (image.hdr[f].size - 1)
<1> DEFINE code == GetCode(image, f)
<1>1. code = [j \in 1 .. image.hdr[f].size |-> code[j]]
  BY DEF GetCode
<1>2. Len(code) = image.hdr[f].size
  <2> HIDE DEF code
  <2> QED
    BY <1>1, LenOfFunction
<1> QED
  BY <1>2 DEF Switches

(* A table behind the code is in the image, so it resolves. *)
LEMMA BehindResolves ==
  ASSUME NEW image, WellFormed(image), NEW f \in Func, NEW k, NEW t,
         TableBehind(image, f, k, t)
  PROVE  /\ TableAddress(image, f, k) \in Address(image)
         /\ image.raw[TableAddress(image, f, k)] = TableCell(t, k)
<1>1. SegmentEnd(image) \in 1 .. (image.len - 1) /\ image.len \in Nat
  BY SegmentEndInside DEF WellFormed, FileType
<1> QED
  BY <1>1 DEF TableBehind, Address

(***************************************************************************)
(* PlaceTable: the padding puts the table at an aligned address, arg2 is   *)
(* set to the distance, and the earlier tables are still found.            *)
(***************************************************************************)
LEMMA PlaceTableKeepsTables ==
  ASSUME TablesInv, Inv', NEW k \in pending, PlaceTable(k)
  PROVE  PlacedSoFar' /\ PlacedTablesResolve'
<1> DEFINE at       == SegmentEnd(file)
           pad      == Padding(at)
           cells    == [n \in 1 .. (pad + 1) |->
                          IF n <= pad THEN PadCell ELSE TableCell(edit[cur].table, k)]
           inserted == InsertBytesAt(file, at, cells)
           inst     == inserted.hdr[cur].offset + k
           code     == edit[cur].code
<1>1. /\ phase = "tables"
      /\ UNCHANGED <<changed, todo, edit, cur, table>>
  BY DEF PlaceTable, batch, history
<1>2. /\ WellFormed(file) /\ FileType(file) /\ SectionsInOrder(file) /\ cur \in Func
      /\ pending \subseteq 0 .. (file.hdr[cur].size - 1)
      /\ file.hdr[cur].size \in Nat
  BY <1>1 DEF TablesInv, Inv, LayoutKept, WellFormed, TypeOK, PendingInside, FileType,
              FunctionHeader
<1>3. /\ table[cur] = edit[cur].table /\ GetCode(file, cur) = code
      /\ pending \subseteq Switches(code)
      /\ \A j \in Switches(code) \ pending : TableBehind(file, cur, j, table[cur])
  BY <1>1 DEF TablesInv, PlacedSoFar
<1>4. at \in Nat /\ pad \in Nat /\ Len(cells) = pad + 1 /\ cells[pad + 1] = TableCell(table[cur], k)
  <2>1. at \in Nat
    BY <1>2, SegmentEndBounds
  <2>2. pad \in Nat
    BY <2>1, PaddingNat
  <2> HIDE DEF pad
  <2>3. cells[pad + 1] = TableCell(edit[cur].table, k)
    BY <2>2
  <2>4. cells = [n \in 1 .. (pad + 1) |-> cells[n]]
    OBVIOUS
  <2> HIDE DEF cells
  <2>5. Len(cells) = pad + 1
    BY <2>2, <2>4, LenOfFunction
  <2> QED
    BY <1>3, <2>1, <2>2, <2>3, <2>5
<1>5. \/ /\ AllFit(Inserted(file, at, cells), Func)
         /\ file' = SetArg2(inserted, inst, at + pad - inst)
         /\ pending' = pending \ {k}
         /\ phase' = IF pending = {k} THEN "pick" ELSE "tables"
      \/ phase' = "failed"
  BY DEF PlaceTable, Fail
<1> HIDE DEF cells
<1>6. CASE phase' = "failed"
  BY <1>6 DEF PlacedSoFar, PlacedTablesResolve
<1>7. CASE /\ AllFit(Inserted(file, at, cells), Func)
           /\ file' = SetArg2(inserted, inst, at + pad - inst)
           /\ pending' = pending \ {k}
           /\ phase' = IF pending = {k} THEN "pick" ELSE "tables"
  <2>1. WellFormed(inserted) /\ FileType(inserted) /\ SectionsInOrder(inserted)
    BY <1>2, <1>4, <1>7, LayoutOf, InsertKeepsLayout DEF WellFormed
  <2>2. /\ \A i \in Func : SameCode(file, i, inserted, i)
        /\ inserted.raw[at + pad] = TableCell(table[cur], k)
    <3>1. /\ \A i \in Func : SameCode(file, i, inserted, i)
          /\ \A n \in 1 .. Len(cells) : inserted.raw[at + n - 1] = cells[n]
      BY <1>2, <1>4, InsertKeepsCode
    <3> HIDE DEF inserted, at, pad
    <3>2. pad + 1 \in 1 .. Len(cells) /\ at + (pad + 1) - 1 = at + pad
      BY <1>4
    <3>3. inserted.raw[at + (pad + 1) - 1] = cells[pad + 1]
      BY <3>1, <3>2
    <3> QED
      BY <1>4, <3>1, <3>2, <3>3
  <2>3. /\ inserted.hdr[cur].size = file.hdr[cur].size
        /\ End(inserted.hdr[cur]) <= at + pad /\ at + pad < SegmentEnd(inserted)
    <3>1. at + Len(cells) <= SegmentEnd(inserted)
      BY <1>2, <1>4, <1>7, <2>1, InsertedSegmentEnd
    <3>2. \A i \in Func : Moved(inserted.hdr[i], file.hdr[i], at, Len(cells))
      BY <1>2, <1>4, InsertMovesCells
    <3>3. /\ file.hdr[cur].offset \in Nat /\ file.hdr[cur].size \in Nat
          /\ file.hdr[cur].offset + file.hdr[cur].size <= at
      BY <1>2, SegmentEndBounds DEF FileType, FunctionHeader, End
    <3>4. k \in 0 .. (file.hdr[cur].size - 1)
      BY <1>2
    <3>5. SegmentEnd(inserted) \in Nat
      BY <2>1, SegmentEndBounds
    <3> HIDE DEF inserted, at, pad
    <3>6. /\ inserted.hdr[cur].offset = file.hdr[cur].offset
          /\ inserted.hdr[cur].size = file.hdr[cur].size
      <4>1. file.hdr[cur].offset < at
        BY <1>4, <3>3, <3>4
      <4> QED
        BY <1>2, <3>2, <4>1 DEF Moved
    <3>7. End(inserted.hdr[cur]) = file.hdr[cur].offset + file.hdr[cur].size
      BY <3>6 DEF End
    <3> QED
      BY <1>4, <3>1, <3>3, <3>5, <3>6, <3>7
  <2>4. at + pad \in Nat /\ (at + pad) % Align = 0
    <3>1. AlignUp(at) % Align = 0
      BY <1>4, AlignUpAligned
    <3> HIDE DEF at
    <3> QED
      BY <1>4, <3>1 DEF AlignUp
  <2>5. k \in 0 .. (inserted.hdr[cur].size - 1)
    BY <1>2, <2>3
  <2>6. /\ TableBehind(file', cur, k, table[cur])
        /\ \A j \in 0 .. (file.hdr[cur].size - 1) :
             j # k /\ TableBehind(inserted, cur, j, table[cur])
               => TableBehind(file', cur, j, table[cur])
    <3> DEFINE a == at + pad
    <3>1. /\ a \in Nat /\ a % Align = 0
          /\ End(inserted.hdr[cur]) <= a /\ a < SegmentEnd(inserted)
          /\ inserted.raw[a] = TableCell(table[cur], k)
      BY <2>2, <2>3, <2>4
    <3>2. file' = SetArg2(inserted, inst, a - inst)
      <4>1. inst \in Int
        BY <1>2, <2>1, <2>5 DEF FileType, FunctionHeader
      <4>2. at + pad - inst = a - inst
        <5> HIDE DEF at, pad, inst
        <5> QED
          BY <1>4, <4>1
      <4> QED
        BY <1>7, <4>2
    <3> HIDE DEF a, inserted
    <3> QED
      BY <1>2, <2>1, <2>3, <2>5, <3>1, <3>2, SetArg2PointsAt
  <2>7. \A j \in Switches(code) \ pending : TableBehind(inserted, cur, j, table[cur])
    <3> TAKE j \in Switches(code) \ pending
    <3>1. TableBehind(file, cur, j, table[cur]) /\ j \in 0 .. (file.hdr[cur].size - 1)
      BY <1>2, <1>3, SwitchInside
    <3> QED
      BY <1>2, <1>4, <1>7, <3>1, InsertKeepsTable
  <2>8. \A j \in Switches(code) \ pending' : TableBehind(file', cur, j, table[cur])
    <3> TAKE j \in Switches(code) \ pending'
    <3>1. j \in 0 .. (file.hdr[cur].size - 1) /\ (j = k \/ j \notin pending)
      BY <1>2, <1>3, <1>7, SwitchInside
    <3> QED
      BY <2>6, <2>7, <3>1
  <2>9. GetCode(file', cur) = code
    <3>1. GetCode(inserted, cur) = code
      BY <1>2, <1>3, <2>2, SameCodeReads
    <3>2. HeadersOutside(inserted)
      BY <2>1, OrderedOutside
    <3> HIDE DEF inserted, inst
    <3> QED
      BY <1>2, <1>7, <2>1, <3>1, <3>2, SetArg2KeepsCode
  <2>10. PlacedSoFar'
    BY <1>1, <1>3, <1>7, <2>8, <2>9 DEF PlacedSoFar
  <2>11. PlacedTablesResolve'
    <3> SUFFICES ASSUME phase' = "pick", NEW j \in Switches(code)
                 PROVE  /\ TableAddress(file', cur, j) \in Address(file')
                        /\ file'.raw[TableAddress(file', cur, j)] = TableCell(table[cur], j)
      BY <1>1, <2>9 DEF PlacedTablesResolve, TablesResolve
    <3>1. pending' = {}
      BY <1>7
    <3>2. WellFormed(file')
      BY DEF Inv, LayoutKept
    <3> QED
      BY <1>2, <2>8, <3>1, <3>2, BehindResolves
  <2> QED
    BY <2>10, <2>11
<1> QED
  BY <1>5, <1>6, <1>7

(* SpliceCode: no table is placed yet, or none is needed. *)
LEMMA SpliceCodeKeepsTables ==
  ASSUME TablesInv, SpliceCode
  PROVE  PlacedSoFar' /\ PlacedTablesResolve'
<1> DEFINE code == edit[cur].code
<1>1. /\ phase = "dedup" /\ aliases = {} /\ UNCHANGED <<changed, todo, edit, cur>>
  BY DEF SpliceCode, batch
<1>2. /\ WellFormed(file) /\ cur \in Func /\ cur \in changed
      /\ edit \in [changed -> Edits] /\ table \in [Func -> Table \cup {NoTable}]
      /\ \A g \in Func \ {cur} : SeparateBody(file.hdr[cur], file.hdr[g])
  BY <1>1 DEF TablesInv, Inv, LayoutKept, TypeOK, CurrentApart
<1>3. code \in Seq(Unit)
  BY <1>2, PatchAssumption
<1>4. \/ phase' = "failed"
      \/ /\ file' = ReplaceCode(file, cur, Cells(code))
         /\ phase' = IF Switches(code) = {} THEN "pick" ELSE "tables"
         /\ pending' = Switches(code)
         /\ table' = [table EXCEPT ![cur] = edit[cur].table]
  BY DEF SpliceCode, Fail
<1> HIDE DEF code
<1>5. CASE phase' = "failed"
  BY <1>5 DEF PlacedSoFar, PlacedTablesResolve
<1>6. CASE /\ file' = ReplaceCode(file, cur, Cells(code))
           /\ phase' = IF Switches(code) = {} THEN "pick" ELSE "tables"
           /\ pending' = Switches(code)
           /\ table' = [table EXCEPT ![cur] = edit[cur].table]
  <2>1. GetCode(file', cur) = code
    BY <1>2, <1>3, <1>6, ReplaceKeepsCode
  <2>2. PlacedSoFar'
    BY <1>1, <1>2, <1>6, <2>1 DEF PlacedSoFar, code
  <2>3. PlacedTablesResolve'
    BY <1>1, <1>6, <2>1 DEF PlacedTablesResolve, TablesResolve
  <2> QED
    BY <2>2, <2>3
<1> QED
  BY <1>4, <1>5, <1>6

(* The other steps leave the tables alone, or the moment behind. *)
LEMMA TablesNext ==
  ASSUME CoEdits = FALSE, TablesInv, [Next]_vars
  PROVE  TablesInv'
<1>1. Inv'
  BY NextInv DEF TablesInv
<1>2. ASSUME NEW S \in SUBSET Func, Begin(S) PROVE TablesInv'
  BY <1>1, <1>2 DEF Begin, TablesInv, PlacedSoFar, PlacedTablesResolve
<1>3. ASSUME NEW f \in Func, Pick(f) PROVE TablesInv'
  BY <1>1, <1>3 DEF Pick, TablesInv, PlacedSoFar, PlacedTablesResolve
<1>4. ASSUME NEW i \in Func, Deduplicate(i) PROVE TablesInv'
  BY <1>1, <1>4 DEF Deduplicate, Fail, TablesInv, PlacedSoFar, PlacedTablesResolve
<1>5. CASE SpliceCode
  BY <1>1, <1>5, SpliceCodeKeepsTables DEF TablesInv
<1>6. ASSUME NEW k \in pending, PlaceTable(k) PROVE TablesInv'
  BY <1>1, <1>6, PlaceTableKeepsTables DEF TablesInv
<1>7. CASE Finish
  BY <1>1, <1>7 DEF Finish, TablesInv, PlacedSoFar, PlacedTablesResolve
<1>8. CASE UNCHANGED vars
  BY <1>1, <1>8 DEF vars, batch, history, TablesInv, PlacedSoFar, PlacedTablesResolve,
                    TablesResolve
<1> QED
  BY <1>2, <1>3, <1>4, <1>5, <1>6, <1>7, <1>8 DEF Next, Patch

(***************************************************************************)
(* Once its tables are placed, the function just patched reads each of     *)
(* them back through arg2: whatever the alignment, the number of switches, *)
(* and the large headers that moved meanwhile, each out-of-line table of   *)
(* patchOneFunction is where decodeInstructionFull rounds up to.           *)
(***************************************************************************)
THEOREM PlacedTablesCorrect ==
  ASSUME CoEdits = FALSE
  PROVE  Spec => []PlacedTablesResolve
<1>1. Init => TablesInv
  BY InitInv DEF Init, TablesInv, PlacedSoFar, PlacedTablesResolve
<1>2. TablesInv /\ [Next]_vars => TablesInv'
  BY TablesNext
<1>3. TablesInv => PlacedTablesResolve
  BY DEF TablesInv
<1> QED
  BY <1>1, <1>2, <1>3, PTL DEF Spec

-----------------------------------------------------------------------------
(* Exception handlers. *)

(* The handlers of function i are found, in a cell that is no header. *)
HandlersAt(image, i) ==
  HandlersRead(image, i) /\ NoHeaderAt(image, InfoAddress(image, i))

(* In a well-formed file a cell of handlers is never a header. *)
LEMMA HandlersNoHeader ==
  ASSUME NEW image, WellFormed(image), NEW i \in Func, HandlersRead(image, i)
  PROVE  /\ HandlersAt(image, i)
         /\ image.hdr[i].overflowed
         /\ InfoAddress(image, i) \in Nat
         /\ image.hdr[i].large < InfoAddress(image, i)
         /\ InfoAddress(image, i) < image.len
<1> DEFINE a == InfoAddress(image, i)
<1>1. /\ ImageAgrees(image) /\ image.len \in Nat
      /\ image.hdr[i].large \in Nat
  BY DEF WellFormed, FileType, FunctionHeader
<1>2. a \in Address(image) /\ image.raw[a] = InfoCell(i) /\ image.hdr[i].overflowed
  BY DEF HandlersRead
<1>3. image.hdr[i].large + 1 <= a
  BY <1>1, AlignUpAligned DEF InfoAddress
<1>4. \A o, s, p : InfoCell(i) # HeaderCell(o, s) /\ InfoCell(i) # PointerCell(p)
  <2> TAKE o, s, p
  <2>1. /\ DOMAIN InfoCell(i) = {"handlers"}
        /\ DOMAIN HeaderCell(o, s) = {"offset", "size"}
        /\ DOMAIN PointerCell(p) = {"pointer"}
    BY DEF InfoCell, HeaderCell, PointerCell
  <2>2. "handlers" \notin DOMAIN HeaderCell(o, s) /\ "handlers" \notin DOMAIN PointerCell(p)
    BY <2>1
  <2> QED
    BY <2>1, <2>2
<1>5. NoHeaderAt(image, a)
  <2> SUFFICES ASSUME NEW j \in Func
               PROVE  /\ image.hdr[j].small # a
                      /\ image.hdr[j].overflowed => image.hdr[j].large # a
    BY DEF NoHeaderAt
  <2>1. image.raw[image.hdr[j].small] # InfoCell(i)
    BY <1>1, <1>4 DEF ImageAgrees, SmallCell
  <2>2. image.hdr[j].overflowed => image.raw[image.hdr[j].large] # InfoCell(i)
    BY <1>1, <1>4 DEF ImageAgrees, LargeCell
  <2> QED
    BY <1>2, <2>1, <2>2
<1> HIDE DEF a
<1>6. a \in Nat /\ a < image.len /\ image.hdr[i].large < a
  BY <1>1, <1>2, <1>3 DEF Address
<1> QED
  BY <1>2, <1>5, <1>6 DEF HandlersAt, a

(***************************************************************************)
(* Everything behind the code moved by a multiple of the alignment: the    *)
(* reader rounds up to the cell the handlers have moved to.                *)
(***************************************************************************)
LEMMA HandlersFollow ==
  ASSUME NEW image, WellFormed(image), NEW i \in Func, HandlersRead(image, i),
         NEW d \in Int, Aligned(d), NEW new,
         new.hdr[i].overflowed, new.hdr[i].large \in Nat,
         new.hdr[i].large = image.hdr[i].large + d,
         new.len = image.len + d,
         new.raw[InfoAddress(image, i) + d] = image.raw[InfoAddress(image, i)]
  PROVE  /\ InfoAddress(new, i) = InfoAddress(image, i) + d
         /\ HandlersRead(new, i)
<1> DEFINE a == InfoAddress(image, i)
<1>1. /\ image.hdr[i].large \in Nat /\ image.len \in Nat
      /\ a \in Nat /\ image.hdr[i].large < a /\ a < image.len
  BY HandlersNoHeader DEF WellFormed, FileType, FunctionHeader
<1>2. InfoAddress(new, i) = a + d
  <2>1. new.hdr[i].large + 1 = (image.hdr[i].large + 1) + d
    BY <1>1
  <2> DEFINE b == image.hdr[i].large + 1
  <2>2. AlignUp(b + d) = AlignUp(b) + d
    <3>1. b \in Int
      BY <1>1
    <3> HIDE DEF b
    <3> QED
      BY <3>1, AlignUpShift
  <2> QED
    BY <2>1, <2>2 DEF InfoAddress
<1>3. image.raw[a] = InfoCell(i)
  BY DEF HandlersRead
<1> HIDE DEF a
<1>4. a + d \in 0 .. (new.len - 1)
  BY <1>1
<1> QED
  BY <1>2, <1>3, <1>4 DEF HandlersRead, Address, a

(* Writing headers does not touch handlers that are no header. *)
LEMMA WriteHeadersKeepsHandlers ==
  ASSUME NEW image, NEW S \in SUBSET Func, NEW i \in Func, HandlersAt(image, i)
  PROVE  HandlersAt(WriteHeaders(image, S), i)
<1> DEFINE new == WriteHeaders(image, S)
           a   == InfoAddress(image, i)
<1>1. new.hdr = image.hdr /\ new.len = image.len
  BY DEF WriteHeaders, WithRaw
<1>2. a \in Address(image) /\ NoHeaderAt(image, a)
  BY DEF HandlersAt, HandlersRead
<1>3. new.raw[a] = image.raw[a]
  <2> HIDE DEF a
  <2> QED
    BY <1>2, WriteHeadersElsewhere DEF NoHeaderAt
<1>4. InfoAddress(new, i) = a
  BY <1>1 DEF InfoAddress
<1> HIDE DEF new
<1> QED
  BY <1>1, <1>2, <1>3, <1>4 DEF HandlersAt, HandlersRead, NoHeaderAt, Address, new

(* Nor does anything that leaves the headers and the cells behind the code. *)
LEMMA SameBehindKeepsHandlers ==
  ASSUME NEW image, NEW new, NEW i \in Func, HandlersAt(image, i),
         new.len = image.len,
         \A j \in Func : /\ new.hdr[j].overflowed = image.hdr[j].overflowed
                         /\ new.hdr[j].large = image.hdr[j].large
                         /\ new.hdr[j].small = image.hdr[j].small,
         new.raw[InfoAddress(image, i)] = image.raw[InfoAddress(image, i)]
  PROVE  HandlersAt(new, i)
<1>1. InfoAddress(new, i) = InfoAddress(image, i)
  BY DEF InfoAddress
<1> QED
  BY <1>1 DEF HandlersAt, HandlersRead, NoHeaderAt, Address

(* An insertion at the end of the segment moves the handlers with the rest. *)
LEMMA InsertKeepsHandlers ==
  ASSUME NEW image, WellFormed(image), NEW cells, Len(cells) \in Nat,
         Aligned(Len(cells)), NEW i \in Func, HandlersRead(image, i)
  PROVE  HandlersAt(InsertBytesAt(image, SegmentEnd(image), cells), i)
<1> DEFINE at  == SegmentEnd(image)
           n   == Len(cells)
           new == InsertBytesAt(image, at, cells)
           a   == InfoAddress(image, i)
<1>1. /\ new.len = image.len + n
      /\ \A j \in Func : Moved(new.hdr[j], image.hdr[j], at, n)
      /\ \A b \in at .. (image.len - 1) : NoHeaderAt(image, b) => new.raw[b + n] = image.raw[b]
  BY InsertMovesCells
<1>2. /\ NoHeaderAt(image, a) /\ image.hdr[i].overflowed
      /\ a \in Nat /\ image.hdr[i].large < a /\ a < image.len
  BY HandlersNoHeader DEF HandlersAt
<1>3. /\ at \in Nat /\ image.len \in Nat
      /\ \A j \in Func : /\ image.hdr[j].small \in Nat /\ image.hdr[j].large \in Nat
                         /\ image.hdr[j].small < at
                         /\ image.hdr[j].overflowed => at <= image.hdr[j].large
  BY SegmentEndInside, SegmentEndBounds DEF WellFormed, FileType, FunctionHeader
<1> HIDE DEF at, n, new, a
<1>4. n \in Nat /\ Aligned(n)
  BY DEF n
<1>5. new.raw[a + n] = image.raw[a]
  BY <1>1, <1>2, <1>3
<1>6. ASSUME NEW j \in Func
      PROVE  /\ new.hdr[j].small = image.hdr[j].small
             /\ new.hdr[j].overflowed = image.hdr[j].overflowed
             /\ image.hdr[j].overflowed => new.hdr[j].large = image.hdr[j].large + n
  BY <1>1 DEF Moved
<1>7. InfoAddress(new, i) = a + n /\ HandlersRead(new, i)
  <2>1. new.hdr[i].overflowed /\ new.hdr[i].large = image.hdr[i].large + n
    BY <1>2, <1>6
  <2> QED
    <3>1. new.hdr[i].large \in Nat /\ n \in Int
      BY <1>3, <1>4, <2>1
    <3> QED
      BY <1>1, <1>4, <1>5, <2>1, <3>1, HandlersFollow DEF a
<1>8. NoHeaderAt(new, a + n)
  <2> SUFFICES ASSUME NEW j \in Func
               PROVE  /\ new.hdr[j].small # a + n
                      /\ new.hdr[j].overflowed => new.hdr[j].large # a + n
    BY DEF NoHeaderAt
  <2>1. image.hdr[j].small < a + n
    BY <1>2, <1>3, <1>4
  <2>2. image.hdr[j].overflowed => image.hdr[j].large # a
    BY <1>2 DEF NoHeaderAt
  <2> QED
    BY <1>2, <1>3, <1>4, <1>6, <2>1, <2>2
<1> QED
  BY <1>7, <1>8 DEF HandlersAt, new, at

(***************************************************************************)
(* The splice moves what lies behind the old body, and the handlers with   *)
(* it, wherever an error stops the header writes.                          *)
(***************************************************************************)
LEMMA SplicedKeepsHandlers ==
  ASSUME NEW image, WellFormed(image), NEW f \in Func,
         NEW cells, Len(cells) \in Nat,
         Aligned(Len(cells) - image.hdr[f].size),
         NEW i \in Func, HandlersRead(image, i)
  PROVE  HandlersAt(Spliced(image, f, cells), i)
<1> DEFINE hf  == image.hdr[f]
           n   == Len(cells)
           d   == n - hf.size
           new == Spliced(image, f, cells)
           a   == InfoAddress(image, i)
<1>1. /\ FileType(image) /\ SectionsInOrder(image) /\ image.len \in Nat
      /\ hf.offset \in Nat /\ hf.size \in Nat
  BY DEF WellFormed, FileType, FunctionHeader
<1>2. /\ InImage(image, f)
      /\ new.hdr[f].small = hf.small /\ new.hdr[f].overflowed = hf.overflowed
      /\ hf.overflowed => new.hdr[f].large = hf.large + d
      /\ \A j \in Func \ {f} : SplicedHeader(new.hdr[j], image.hdr[j], hf, n)
  BY LayoutOf, SplicedHeaders
<1>3. ASSUME NEW j \in Func
      PROVE  /\ new.hdr[j].small = image.hdr[j].small
             /\ new.hdr[j].overflowed = image.hdr[j].overflowed
             /\ image.hdr[j].overflowed => new.hdr[j].large = image.hdr[j].large + d
  BY <1>2 DEF SplicedHeader
<1>4. /\ new.len = image.len + d /\ new.len \in Nat
      /\ \A b \in 0 .. (new.len - 1) :
           hf.offset + n <= b => new.raw[b] = image.raw[b - d]
  BY <1>1, <1>2, SplicedFields
<1>5. /\ NoHeaderAt(image, a) /\ image.hdr[i].overflowed
      /\ a \in Nat /\ image.hdr[i].large < a /\ a < image.len
  BY HandlersNoHeader DEF HandlersAt
<1>6. \A j \in Func : /\ image.hdr[j].small \in Nat /\ image.hdr[j].large \in Nat
                      /\ image.hdr[j].small < hf.offset
                      /\ image.hdr[j].overflowed => hf.offset + hf.size <= image.hdr[j].large
  BY <1>1 DEF FileType, FunctionHeader, SectionsInOrder, End
<1> HIDE DEF hf, n, new, a
<1>7. n \in Nat /\ d \in Int /\ Aligned(d)
  BY <1>1 DEF n, hf
<1>8. /\ a + d \in 0 .. (new.len - 1) /\ hf.offset + n <= a + d /\ (a + d) - d = a
      /\ image.hdr[i].large + d \in Nat
  <2>1. hf.offset + hf.size <= image.hdr[i].large /\ image.hdr[i].large \in Nat
    BY <1>5, <1>6
  <2> QED
    <3>1. hf.offset + n <= a + d /\ a + d \in Int
      BY <1>1, <1>5, <1>7, <2>1
    <3>2. (a + d) - d = a
      BY <1>1, <1>5, <1>7, <2>1
    <3>3. image.hdr[i].large + d \in Nat
      BY <1>1, <1>5, <1>7, <2>1
    <3>4. a + d <= new.len - 1 /\ new.len \in Nat
      BY <1>1, <1>4, <1>5, <1>7
    <3> HIDE DEF d
    <3>5. a + d \in 0 .. (new.len - 1)
      BY <1>1, <1>7, <3>1, <3>4
    <3> QED
      BY <3>1, <3>2, <3>3, <3>5
<1> HIDE DEF d
<1>9. new.raw[a + d] = image.raw[a]
  BY <1>4, <1>8
<1>10. InfoAddress(new, i) = a + d /\ HandlersRead(new, i)
  <2>1. /\ new.hdr[i].overflowed /\ new.hdr[i].large = image.hdr[i].large + d
        /\ new.hdr[i].large \in Nat
    BY <1>3, <1>5, <1>8
  <2> QED
    BY <1>4, <1>7, <1>9, <2>1, HandlersFollow DEF a
<1>11. NoHeaderAt(new, a + d)
  <2> SUFFICES ASSUME NEW j \in Func
               PROVE  /\ new.hdr[j].small # a + d
                      /\ new.hdr[j].overflowed => new.hdr[j].large # a + d
    BY DEF NoHeaderAt
  <2>1. image.hdr[j].small < a + d
    BY <1>1, <1>6, <1>7, <1>8
  <2>2. image.hdr[j].overflowed => image.hdr[j].large # a
    BY <1>5 DEF NoHeaderAt
  <2> QED
    BY <1>3, <1>5, <1>6, <1>7, <2>1, <2>2
<1> QED
  BY <1>10, <1>11 DEF HandlersAt, new

LEMMA ReplaceKeepsHandlers ==
  ASSUME NEW image, WellFormed(image), NEW f \in Func,
         NEW cells, Len(cells) \in Nat,
         Aligned(Len(cells) - image.hdr[f].size),
         NEW i \in Func, HandlersRead(image, i)
  PROVE  HandlersRead(ReplaceCode(image, f, cells), i)
<1> DEFINE mid   == Spliced(image, f, cells)
           delta == Len(cells) - image.hdr[f].size
           new   == ReplaceCode(image, f, cells)
<1>1. \/ new = mid
      \/ new = WriteHeaders(mid, {f})
      \/ new = Relocated(WriteHeaders(mid, Func), delta)
      \/ \E S \in SUBSET Func : new = WriteHeaders(WriteHeaders(mid, {f}), S)
  <2>1. \/ ReplaceCode(image, f, cells) = Spliced(image, f, cells)
        \/ ReplaceCode(image, f, cells) = WriteHeaders(Spliced(image, f, cells), {f})
        \/ ReplaceCode(image, f, cells)
              = Relocated(WriteHeaders(Spliced(image, f, cells), Func),
                          Len(cells) - image.hdr[f].size)
        \/ \E S \in SUBSET Func :
             ReplaceCode(image, f, cells)
               = WriteHeaders(WriteHeaders(Spliced(image, f, cells), {f}), S)
    BY ReplaceForms
  <2> QED
    BY <2>1
<1>2. HandlersAt(mid, i) /\ FileType(mid)
  BY SplicedKeepsHandlers, LayoutOf, SplicedHeaders, SplicedType DEF WellFormed
<1> HIDE DEF mid, delta, new
<1> SUFFICES HandlersRead(new, i)
  BY DEF new
<1>3. \A S \in SUBSET Func : HandlersAt(WriteHeaders(mid, S), i)
  BY <1>2, WriteHeadersKeepsHandlers
<1>4. CASE new = mid
  BY <1>2, <1>4 DEF HandlersAt
<1>5. CASE new = WriteHeaders(mid, {f})
  BY <1>3, <1>5 DEF HandlersAt
<1>6. CASE new = Relocated(WriteHeaders(mid, Func), delta)
  <2> DEFINE all == WriteHeaders(mid, Func)
             a   == InfoAddress(all, i)
  <2>1. HandlersAt(all, i) /\ FileType(all)
    BY <1>2, <1>3, WriteHeadersShape
  <2>2. /\ new.hdr = all.hdr /\ new.len = all.len
        /\ \A b \in DOMAIN all.raw : b # 0 => new.raw[b] = all.raw[b]
    BY <1>6 DEF Relocated, WriteHeaderFields
  <2> HIDE DEF all
  <2>3. a \in DOMAIN all.raw /\ a # 0
    <3>1. all.hdr[i].large \in Nat /\ all.len \in Nat /\ DOMAIN all.raw = 0 .. (all.len - 1)
      BY <2>1 DEF FileType, FunctionHeader, Address
    <3>2. a \in 0 .. (all.len - 1)
      BY <2>1 DEF HandlersAt, HandlersRead, Address
    <3>3. all.hdr[i].large + 1 <= a
      BY <3>1, AlignUpAligned DEF InfoAddress
    <3> QED
      BY <3>1, <3>2, <3>3
  <2>4. HandlersAt(new, i)
    BY <2>1, <2>2, <2>3, SameBehindKeepsHandlers
  <2> QED
    BY <2>4 DEF HandlersAt
<1>7. CASE \E S \in SUBSET Func : new = WriteHeaders(WriteHeaders(mid, {f}), S)
  <2>1. HandlersAt(WriteHeaders(mid, {f}), i)
    BY <1>3
  <2> QED
    BY <1>7, <2>1, WriteHeadersKeepsHandlers DEF HandlersAt
<1> QED
  BY <1>1, <1>4, <1>5, <1>6, <1>7

-----------------------------------------------------------------------------
(* The steps of a batch. *)

(* Each length is what the step added to the file. *)
LEMMA DeduplicateKeepsHandlers ==
  ASSUME Inv, NEW j \in Func, Deduplicate(j),
         Aligned(file'.len - file.len),
         NEW i \in Func, HandlersRead(file, i)
  PROVE  HandlersRead(file', i)
<1> DEFINE at       == SegmentEnd(file)
           copy     == [k \in 1 .. file.hdr[j].size |->
                          file.raw[file.hdr[j].offset + k - 1]]
           inserted == InsertBytesAt(file, at, copy)
           pointed  == PointAt(inserted, j, at)
<1>1. phase = "dedup" /\ j \in aliases
  BY DEF Deduplicate
<1>2. WellFormed(file) /\ FileType(file) /\ SectionsInOrder(file) /\ file.len \in Nat
  BY <1>1 DEF Inv, LayoutKept, WellFormed, FileType
<1>3. Len(copy) = file.hdr[j].size /\ Len(copy) \in Nat
  <2>1. file.hdr[j].size \in Nat
    BY <1>2 DEF FileType, FunctionHeader
  <2>2. copy = [k \in 1 .. file.hdr[j].size |-> copy[k]]
    OBVIOUS
  <2> QED
    BY <2>1, <2>2, LenOfFunction
<1>4. \/ file' = file
      \/ file' = inserted
      \/ file' = pointed
      \/ file' = WriteHeaders(pointed, {j})
  BY DEF Deduplicate, Fail
<1> HIDE DEF copy
<1>5. CASE file' = file
  BY <1>5
<1>6. CASE file' # file
  <2>1. inserted.len = file.len + Len(copy) /\ FileType(inserted)
    BY <1>2, <1>3, InsertMovesCells, LayoutOf, InsertKeepsBodies
  <2>2. /\ pointed.raw = inserted.raw /\ pointed.len = inserted.len
        /\ \A h \in Func : /\ pointed.hdr[h].overflowed = inserted.hdr[h].overflowed
                           /\ pointed.hdr[h].large = inserted.hdr[h].large
                           /\ pointed.hdr[h].small = inserted.hdr[h].small
    <3>1. at \in Nat
      BY <1>2, SegmentEndBounds
    <3> HIDE DEF inserted, at
    <3>2. /\ pointed.raw = inserted.raw /\ pointed.len = inserted.len
          /\ \A h \in Func \ {j} : pointed.hdr[h] = inserted.hdr[h]
          /\ pointed.hdr[j].overflowed = inserted.hdr[j].overflowed
          /\ pointed.hdr[j].large = inserted.hdr[j].large
          /\ pointed.hdr[j].small = inserted.hdr[j].small
      BY <2>1, <3>1, PointedShape
    <3> HIDE DEF pointed
    <3> QED
      BY <3>2
  <2>3. file'.len = file.len + Len(copy)
    BY <1>4, <1>6, <2>1, <2>2 DEF WriteHeaders, WithRaw
  <2>4. Aligned(Len(copy))
    <3>1. (file.len + Len(copy)) - file.len = Len(copy)
      BY <1>2, <1>3
    <3> QED
      BY <2>3, <3>1
  <2>5. HandlersAt(inserted, i)
    BY <1>2, <1>3, <2>4, InsertKeepsHandlers
  <2> HIDE DEF inserted, pointed
  <2>6. HandlersAt(pointed, i)
    BY <2>2, <2>5, SameBehindKeepsHandlers
  <2>7. HandlersAt(WriteHeaders(pointed, {j}), i)
    BY <2>6, WriteHeadersKeepsHandlers
  <2> QED
    BY <1>4, <1>6, <2>5, <2>6, <2>7 DEF HandlersAt
<1> QED
  BY <1>5, <1>6

LEMMA SpliceCodeKeepsHandlers ==
  ASSUME Inv, SpliceCode,
         Aligned(file'.len - file.len),
         NEW i \in Func, HandlersRead(file, i)
  PROVE  HandlersRead(file', i)
<1> DEFINE cells == Cells(edit[cur].code)
           delta == Len(cells) - file.hdr[cur].size
<1>1. phase = "dedup"
  BY DEF SpliceCode
<1>2. /\ WellFormed(file) /\ FileType(file) /\ cur \in Func /\ file.len \in Nat
      /\ edit[cur] \in Edits /\ file.hdr[cur].size \in Nat
  BY <1>1 DEF Inv, LayoutKept, WellFormed, TypeOK, CurrentApart, FileType, FunctionHeader
<1>3. Len(cells) \in Nat
  <2>1. edit[cur].code \in Seq(Unit)
    BY <1>2, PatchAssumption
  <2> QED
    BY <2>1, LenOfCells
<1>4. file' = file \/ file' = ReplaceCode(file, cur, cells)
  BY DEF SpliceCode
<1> HIDE DEF cells
<1>5. CASE file' = ReplaceCode(file, cur, cells)
  <2>1. file'.len = file.len + delta
    <3>1. Spliced(file, cur, cells).len = file.len + delta
      BY DEF Spliced
    <3>2. \/ file' = Spliced(file, cur, cells)
          \/ file' = WriteHeaders(Spliced(file, cur, cells), {cur})
          \/ file' = Relocated(WriteHeaders(Spliced(file, cur, cells), Func), delta)
          \/ \E S \in SUBSET Func :
               file' = WriteHeaders(WriteHeaders(Spliced(file, cur, cells), {cur}), S)
      BY <1>2, <1>5, ReplaceForms
    <3>3. \A image, S : WriteHeaders(image, S).len = image.len
                        /\ Relocated(image, delta).len = image.len
      BY DEF WriteHeaders, WithRaw, Relocated
    <3> QED
      BY <3>1, <3>2, <3>3
  <2>2. Aligned(delta)
    <3>1. (file.len + delta) - file.len = delta
      BY <1>2, <1>3
    <3> QED
      BY <2>1, <3>1
  <2> QED
    BY <1>2, <1>3, <1>5, <2>2, ReplaceKeepsHandlers
<1> QED
  BY <1>4, <1>5

LEMMA PlaceTableKeepsHandlers ==
  ASSUME Inv, NEW k \in pending, PlaceTable(k),
         Aligned(file'.len - file.len),
         NEW i \in Func, HandlersRead(file, i)
  PROVE  HandlersRead(file', i)
<1> DEFINE at       == SegmentEnd(file)
           pad      == Padding(at)
           cells    == [n \in 1 .. (pad + 1) |->
                          IF n <= pad THEN PadCell ELSE TableCell(edit[cur].table, k)]
           inserted == InsertBytesAt(file, at, cells)
           inst     == inserted.hdr[cur].offset + k
           arg2     == at + pad - inst
<1>1. phase = "tables"
  BY DEF PlaceTable
<1>2. /\ WellFormed(file) /\ FileType(file) /\ SectionsInOrder(file) /\ cur \in Func
      /\ file.len \in Nat /\ k \in 0 .. (file.hdr[cur].size - 1)
  BY <1>1 DEF Inv, LayoutKept, WellFormed, TypeOK, PendingInside, FileType
<1>3. at \in Nat /\ Len(cells) \in Nat
  <2>1. at \in Nat
    BY <1>2, SegmentEndBounds
  <2>2. pad \in Nat
    BY <2>1, PaddingNat
  <2> HIDE DEF pad
  <2>3. cells = [n \in 1 .. (pad + 1) |-> cells[n]]
    OBVIOUS
  <2> HIDE DEF cells
  <2>4. Len(cells) = pad + 1
    BY <2>2, <2>3, LenOfFunction
  <2> QED
    BY <2>1, <2>2, <2>4
<1>4. file' = SetArg2(inserted, inst, arg2) \/ file' = inserted
  BY DEF PlaceTable
<1> HIDE DEF cells, pad, arg2
<1>5. /\ inserted.len = file.len + Len(cells)
      /\ \A j \in Func : Moved(inserted.hdr[j], file.hdr[j], at, Len(cells))
      /\ FileType(inserted)
  BY <1>2, <1>3, InsertMovesCells, LayoutOf, InsertKeepsBodies
<1>6. Aligned(Len(cells))
  <2>1. file'.len = file.len + Len(cells)
    BY <1>4, <1>5 DEF SetArg2, WithRaw
  <2>2. (file.len + Len(cells)) - file.len = Len(cells)
    BY <1>2, <1>3
  <2> QED
    BY <2>1, <2>2
<1>7. HandlersAt(inserted, i)
  BY <1>2, <1>3, <1>6, InsertKeepsHandlers
<1>8. inst < InfoAddress(inserted, i) /\ inst \in Nat
  <2>1. /\ file.hdr[cur].offset \in Nat /\ file.hdr[cur].size \in Nat
        /\ file.hdr[cur].offset + file.hdr[cur].size <= at
        /\ file.hdr[i].large \in Nat
        /\ file.hdr[i].overflowed => at <= file.hdr[i].large
    BY <1>2, SegmentEndBounds DEF FileType, FunctionHeader, End
  <2>2. file.hdr[cur].offset < at /\ file.hdr[cur].offset + k < at
    BY <1>2, <1>3, <2>1
  <2>3. inserted.hdr[cur].offset = file.hdr[cur].offset
    BY <1>2, <1>5, <2>1, <2>2 DEF Moved
  <2>4. file.hdr[i].overflowed
    BY DEF HandlersRead
  <2>5. inserted.hdr[i].large = file.hdr[i].large + Len(cells)
    BY <1>5, <2>4 DEF Moved
  <2>6. /\ inserted.hdr[i].large + 1 \in Int
        /\ inserted.hdr[i].large + 1 <= AlignUp(inserted.hdr[i].large + 1)
        /\ AlignUp(inserted.hdr[i].large + 1) \in Int
    <3>1. inserted.hdr[i].large + 1 \in Int
      BY <1>3, <2>1, <2>5
    <3> QED
      BY <3>1, AlignUpAligned
  <2>7. InfoAddress(inserted, i) = AlignUp(inserted.hdr[i].large + 1)
    BY DEF InfoAddress
  <2> DEFINE a == AlignUp(inserted.hdr[i].large + 1)
  <2>8. file.hdr[i].large + Len(cells) + 1 <= a /\ a \in Int
    BY <2>5, <2>6
  <2>9. at <= file.hdr[i].large
    BY <2>1, <2>4
  <2> HIDE DEF inserted, at, a
  <2>10. file.hdr[cur].offset + k < a /\ file.hdr[cur].offset + k \in Nat
    <3>1. file.hdr[i].large \in Nat /\ file.hdr[cur].offset \in Nat
      BY <2>1
    <3>2. at < a
      BY <1>3, <2>8, <2>9, <3>1
    <3>3. k \in Nat
      BY <1>2
    <3>4. file.hdr[cur].offset + k \in Nat
      BY <3>1, <3>3
    <3>5. file.hdr[cur].offset + k < at
      BY <2>2
    <3>6. a \in Int
      BY <2>8
    <3> QED
      BY <1>3, <3>2, <3>4, <3>5, <3>6
  <2> QED
    BY <2>3, <2>7, <2>10 DEF a
<1> HIDE DEF inserted, inst
<1>9. CASE file' = SetArg2(inserted, inst, arg2)
  <2>1. /\ file'.hdr = inserted.hdr /\ file'.len = inserted.len
        /\ \A a \in DOMAIN inserted.raw : a # inst => file'.raw[a] = inserted.raw[a]
    BY <1>9 DEF SetArg2, WithRaw
  <2>2. InfoAddress(inserted, i) \in DOMAIN inserted.raw /\ InfoAddress(inserted, i) # inst
    BY <1>5, <1>7, <1>8 DEF HandlersAt, HandlersRead, FileType
  <2>3. HandlersAt(file', i)
    BY <1>7, <2>1, <2>2, SameBehindKeepsHandlers
  <2> QED
    BY <2>3 DEF HandlersAt
<1> QED
  BY <1>4, <1>7, <1>9 DEF HandlersAt

(* Only these three change the file. *)
LEMMA StepKeepsHandlers ==
  ASSUME Inv, [Next]_vars, Aligned(file'.len - file.len),
         NEW i \in Func, HandlersRead(file, i)
  PROVE  HandlersRead(file', i)
<1>1. ASSUME NEW j \in Func, Deduplicate(j) PROVE HandlersRead(file', i)
  BY <1>1, DeduplicateKeepsHandlers
<1>2. CASE SpliceCode
  BY <1>2, SpliceCodeKeepsHandlers
<1>3. ASSUME NEW k \in pending, PlaceTable(k) PROVE HandlersRead(file', i)
  BY <1>3, PlaceTableKeepsHandlers
<1>4. CASE file' = file
  BY <1>4
<1>5. \/ \E j \in Func : Deduplicate(j)
      \/ SpliceCode
      \/ \E k \in pending : PlaceTable(k)
      \/ file' = file
  BY DEF Next, Patch, Begin, Pick, Finish, vars
<1> QED
  BY <1>1, <1>2, <1>3, <1>4, <1>5

(***************************************************************************)
(* A step that grows or shrinks the file by a multiple of the alignment    *)
(* leaves the handlers of every function with a large header where         *)
(* readFunctions looks for them, error return or not.                      *)
(***************************************************************************)
THEOREM AlignedGrowthCorrect ==
  ASSUME CoEdits = FALSE
  PROVE  Spec => AlignedGrowthKeepsHandlers
<1> DEFINE Kept == \A i \in Func :
                     (file'.len - file.len) % Align = 0 /\ HandlersRead(file, i)
                       => HandlersRead(file', i)
<1>1. Inv /\ [Next]_vars => Kept
  BY StepKeepsHandlers DEF Aligned
<1> QED
  BY <1>1, InvHolds, PTL DEF Spec, AlignedGrowthKeepsHandlers
=============================================================================
