--------------------------- MODULE HBCFile_proofs ---------------------------
(***************************************************************************)
(* What the operators of HBCFile do to a well-formed file.                 *)
(***************************************************************************)
EXTENDS HBCFile, TLAPS, WellFoundedInduction

(* A non-empty set of naturals has a least element. *)
LEMMA LeastElement ==
  ASSUME NEW S, S \subseteq Nat, S # {}
  PROVE  \E e \in S : \A x \in S : e <= x
<1>1. \E e \in S : \A x \in S : ~ (<<x, e>> \in OpToRel(<, Nat))
  BY NatLessThanWellFounded, WFMin
<1>2. PICK e \in S : \A x \in S : ~ (<<x, e>> \in OpToRel(<, Nat))
  BY <1>1
<1>3. ASSUME NEW x \in S, x < e
      PROVE  <<x, e>> \in OpToRel(<, Nat)
  <2>1. <<x, e>> \in Nat \X Nat /\ <<x, e>>[1] = x /\ <<x, e>>[2] = e
    OBVIOUS
  <2> QED
    BY <1>3, <2>1, Zenon DEF OpToRel
<1>4. \A x \in S : ~ (x < e)
  BY <1>2, <1>3, Zenon
<1> QED
  BY <1>4

(***************************************************************************)
(* The shape of a file, whatever cells its image holds: what a wx leaves   *)
(* alone even where it overwrites a header.                                *)
(***************************************************************************)
Layout(file) ==
  /\ FileType(file)
  /\ RangesApart(file)
  /\ SectionsInOrder(file)
  /\ file.flen = file.len

(* A well-formed file has the layout, and headers that decode to memory. *)
LEMMA LayoutOf ==
  ASSUME NEW file, WellFormed(file)
  PROVE  Layout(file) /\ ImageAgrees(file)
BY DEF WellFormed, Layout, ImageAgrees

(* Nothing else is asked of one. *)
LEMMA WellFormedOf ==
  ASSUME NEW file, Layout(file), ImageAgrees(file)
  PROVE  WellFormed(file)
BY DEF WellFormed, Layout

(***************************************************************************)
(* bytecodeSegmentEnd lies past every body and at or before every large    *)
(* header and the debug information.                                       *)
(***************************************************************************)
LEMMA SegmentEndBounds ==
  ASSUME NEW file, FileType(file), SectionsInOrder(file)
  PROVE  /\ SegmentEnd(file) \in Nat
         /\ SegmentEnd(file) <= file.dbg
         /\ \A i \in Func : End(file.hdr[i]) <= SegmentEnd(file)
         /\ \A i \in Func : file.hdr[i].overflowed
                              => SegmentEnd(file) <= file.hdr[i].large
<1> DEFINE L == SegmentLimits(file)
<1>1. L \subseteq Nat /\ L # {}
  BY DEF SegmentLimits, FileType, FunctionHeader
<1>2. \E e \in L : \A x \in L : e <= x
  <2> HIDE DEF L
  <2> QED BY <1>1, LeastElement
<1>3. SegmentEnd(file) \in L /\ \A x \in L : SegmentEnd(file) <= x
  BY <1>2 DEF SegmentEnd
<1>4. \A i \in Func : \A x \in L : End(file.hdr[i]) <= x
  BY DEF SectionsInOrder, SegmentLimits
<1> QED
  BY <1>1, <1>3, <1>4 DEF SegmentLimits

(* The fields of a file after a shift of its headers. *)
LEMMA ShiftHeadersFields ==
  ASSUME NEW hdr \in [Func -> FunctionHeader], NEW from \in Nat,
         NEW delta \in Int, NEW kept
  PROVE  LET s == ShiftHeaders(hdr, from, delta, kept)
         IN  /\ DOMAIN s = Func
             /\ \A i \in Func :
                  /\ s[i] = [offset |-> s[i].offset, size |-> hdr[i].size,
                             overflowed |-> hdr[i].overflowed,
                             large |-> s[i].large, small |-> s[i].small]
                  /\ s[i].size = hdr[i].size
                  /\ s[i].overflowed = hdr[i].overflowed
                  /\ i \in kept \/ hdr[i].offset < from
                       => s[i].offset = hdr[i].offset
                  /\ i \notin kept /\ hdr[i].offset >= from
                       => s[i].offset = hdr[i].offset + delta
                  /\ ~hdr[i].overflowed \/ hdr[i].large < from
                       => s[i].large = hdr[i].large
                  /\ hdr[i].overflowed /\ hdr[i].large >= from
                       => s[i].large = hdr[i].large + delta
                  /\ hdr[i].small < from => s[i].small = hdr[i].small
  BY DEF ShiftHeaders, FunctionHeader

(***************************************************************************)
(* Every field of the file insertBytesAt has built before it writes the    *)
(* function headers.                                                       *)
(***************************************************************************)
LEMMA InsertedFields ==
  ASSUME NEW file, FileType(file), NEW at \in 1 .. file.len,
         NEW cells, Len(cells) \in Nat
  PROVE  LET new == Inserted(file, at, cells)
         IN  /\ DOMAIN new = DOMAIN file
             /\ new.len  = file.len + Len(cells)
             /\ new.dbg  = file.dbg + Len(cells)
             /\ new.flen = file.flen + Len(cells)
             /\ new.hdr  = ShiftHeaders(file.hdr, at, Len(cells), {})
             /\ DOMAIN new.raw = 0 .. (new.len - 1)
             /\ new.raw[0] = FileHeaderCell(new.dbg, new.flen)
             /\ \A a \in 1 .. (new.len - 1) :
                  /\ a < at => new.raw[a] = file.raw[a]
                  /\ at <= a /\ a < at + Len(cells)
                       => new.raw[a] = cells[a - at + 1]
                  /\ at + Len(cells) <= a => new.raw[a] = file.raw[a - Len(cells)]
  BY DEF Inserted, Splice, WriteHeaderFields, FileType, Address

(***************************************************************************)
(* g is what header h becomes when n cells are inserted at address at, an  *)
(* address no body reaches past.                                           *)
(***************************************************************************)
Moved(g, h, at, n) ==
  /\ g.size = h.size
  /\ g.overflowed = h.overflowed
  /\ g.small = h.small
  /\ h.offset < at => g.offset = h.offset
  /\ h.offset >= at => g.offset = h.offset + n /\ h.size = 0 /\ h.offset = at
  /\ h.overflowed => g.large = h.large + n

(* Two bodies that were shared or apart before an insertion still are. *)
LEMMA MovedBodies ==
  ASSUME NEW at \in Nat, NEW n \in Nat,
         NEW a \in FunctionHeader, NEW b \in FunctionHeader, NEW g, NEW h,
         Moved(g, a, at, n), Moved(h, b, at, n),
         End(a) <= at, End(b) <= at,
         SameBody(a, b) \/ SeparateBody(a, b)
  PROVE  SameBody(g, h) \/ SeparateBody(g, h)
<1>1. /\ a.offset \in Nat /\ a.size \in Nat
      /\ b.offset \in Nat /\ b.size \in Nat
  BY DEF FunctionHeader
<1>2. CASE SameBody(a, b)
  <2>1. g.size = h.size /\ g.offset = h.offset
    BY <1>1, <1>2 DEF Moved, SameBody
  <2> QED BY <2>1 DEF SameBody
<1>3. CASE SeparateBody(a, b)
  <2>1. g.size = a.size /\ h.size = b.size
    BY DEF Moved
  <2>2. \/ a.offset < at /\ g.offset = a.offset
        \/ a.size = 0 /\ a.offset = at /\ g.offset = at + n
    BY <1>1 DEF Moved
  <2>3. \/ b.offset < at /\ h.offset = b.offset
        \/ b.size = 0 /\ b.offset = at /\ h.offset = at + n
    BY <1>1 DEF Moved
  <2>4. \/ g.offset + g.size <= h.offset
        \/ h.offset + h.size <= g.offset
    BY <1>1, <1>3, <2>1, <2>2, <2>3 DEF End, SeparateBody
  <2> QED BY <2>4 DEF SeparateBody, End
<1> QED
  BY <1>2, <1>3

(***************************************************************************)
(* The end of the bytecode segment is an address of the image behind the   *)
(* file header.                                                            *)
(***************************************************************************)
LEMMA SegmentEndInside ==
  ASSUME NEW file, FileType(file), SectionsInOrder(file)
  PROVE  /\ SegmentEnd(file) \in 1 .. (file.len - 1)
         /\ \A i \in Func : file.hdr[i].small < SegmentEnd(file)
<1> DEFINE at == SegmentEnd(file)
<1>1. at \in Nat /\ at <= file.dbg
  BY SegmentEndBounds
<1> HIDE DEF at
<1>2. file.len \in Nat /\ file.dbg \in Nat /\ file.dbg < file.len
  BY DEF FileType, SectionsInOrder
<1>3. ASSUME NEW i \in Func
      PROVE  0 < file.hdr[i].small /\ file.hdr[i].small < at /\ file.hdr[i].small \in Nat
  <2>1. /\ file.hdr[i].offset \in Nat /\ file.hdr[i].size \in Nat
        /\ file.hdr[i].small \in Nat
    BY DEF FileType, FunctionHeader
  <2>2. 0 < file.hdr[i].small /\ file.hdr[i].small < file.hdr[i].offset
    BY DEF SectionsInOrder
  <2>3. file.hdr[i].offset + file.hdr[i].size <= at
    BY SegmentEndBounds DEF End, at
  <2> QED
    BY <1>1, <2>1, <2>2, <2>3
<1>4. PICK i \in Func : TRUE
  BY HBCAssumption DEF Func
<1>5. at \in 1 .. (file.len - 1)
  BY <1>1, <1>2, <1>3, <1>4
<1> QED
  BY <1>3, <1>5 DEF at

(***************************************************************************)
(* Inserting at the end of the bytecode segment: file-level fields, and    *)
(* what becomes of each header.                                            *)
(***************************************************************************)
LEMMA InsertedMoves ==
  ASSUME NEW file, Layout(file), NEW cells, Len(cells) \in Nat
  PROVE  LET at  == SegmentEnd(file)
             new == Inserted(file, at, cells)
         IN  /\ new.len  = file.len + Len(cells)
             /\ new.dbg  = file.dbg + Len(cells)
             /\ new.flen = file.flen + Len(cells)
             /\ DOMAIN new = DOMAIN file
             /\ DOMAIN new.raw = 0 .. (new.len - 1)
             /\ new.raw[0] = FileHeaderCell(new.dbg, new.flen)
             /\ new.hdr \in [Func -> FunctionHeader]
             /\ \A i \in Func : Moved(new.hdr[i], file.hdr[i], at, Len(cells))
<1> DEFINE at  == SegmentEnd(file)
           new == Inserted(file, at, cells)
           n   == Len(cells)
<1>1. FileType(file) /\ SectionsInOrder(file)
  BY DEF Layout
<1>2. at \in Nat /\ at <= file.dbg
  BY <1>1, SegmentEndBounds
<1>3. \A i \in Func : /\ End(file.hdr[i]) <= at
                      /\ file.hdr[i].overflowed => at <= file.hdr[i].large
  BY <1>1, SegmentEndBounds
<1>4. at \in 1 .. file.len
  <2>1. at \in 1 .. (file.len - 1) /\ file.len \in Nat
    BY <1>1, SegmentEndInside DEF FileType
  <2> QED
    BY <2>1
<1> HIDE DEF at, n
<1>5. n \in Nat
  BY DEF n
<1>6. /\ new.len  = file.len + n
      /\ new.dbg  = file.dbg + n
      /\ new.flen = file.flen + n
  BY <1>1, <1>4, InsertedFields DEF n
<1>7. /\ new.hdr = ShiftHeaders(file.hdr, at, n, {})
      /\ DOMAIN new = DOMAIN file
      /\ DOMAIN new.raw = 0 .. (new.len - 1)
      /\ new.raw[0] = FileHeaderCell(new.dbg, new.flen)
  BY <1>1, <1>4, InsertedFields DEF n
<1> HIDE DEF new
<1>8. ASSUME NEW i \in Func
      PROVE  /\ new.hdr[i] \in FunctionHeader
             /\ Moved(new.hdr[i], file.hdr[i], at, n)
  <2> DEFINE h == file.hdr[i]
             s == ShiftHeaders(file.hdr, at, n, {})[i]
  <2>1. /\ h.offset \in Nat /\ h.size \in Nat /\ h.overflowed \in BOOLEAN
        /\ h.large \in Nat /\ h.small \in Nat
    BY <1>1 DEF FileType, FunctionHeader
  <2>2. h.small < h.offset /\ h.offset + h.size <= at
    BY <1>1, <1>3 DEF SectionsInOrder, End
  <2>3. h.overflowed => at <= h.large
    BY <1>3
  <2>4. file.hdr \in [Func -> FunctionHeader]
    BY <1>1 DEF FileType
  <2>5. /\ s = [offset |-> s.offset, size |-> h.size,
               overflowed |-> h.overflowed, large |-> s.large, small |-> s.small]
        /\ s.size = h.size /\ s.overflowed = h.overflowed
        /\ h.offset < at => s.offset = h.offset
        /\ h.offset >= at => s.offset = h.offset + n
        /\ ~h.overflowed \/ h.large < at => s.large = h.large
        /\ h.overflowed /\ h.large >= at => s.large = h.large + n
        /\ h.small < at => s.small = h.small
    BY <1>2, <1>5, <2>4, ShiftHeadersFields
  <2>6. new.hdr[i] = s
    BY <1>7
  <2> HIDE DEF s, h
  <2>7. /\ h.small < at
        /\ h.overflowed => h.large >= at
        /\ h.offset >= at => h.size = 0 /\ h.offset = at
    BY <1>2, <2>1, <2>2, <2>3
  <2>8. s.offset \in Nat /\ s.large \in Nat
    BY <1>2, <1>5, <2>1, <2>5, <2>7
  <2>9. s.small = h.small /\ (h.overflowed => s.large = h.large + n)
    BY <2>5, <2>7
  <2>10. s \in FunctionHeader
    BY <2>1, <2>5, <2>8, <2>9 DEF FunctionHeader
  <2> QED
    BY <2>5, <2>6, <2>7, <2>9, <2>10 DEF h, Moved
<1>9. new.hdr \in [Func -> FunctionHeader]
  <2>1. DOMAIN new.hdr = Func
    BY <1>7 DEF ShiftHeaders
  <2> QED
    BY <1>7, <1>8, <2>1 DEF ShiftHeaders
<1> QED
  BY <1>6, <1>7, <1>8, <1>9 DEF new, at, n

(***************************************************************************)
(* Inserting at the end of the bytecode segment keeps every body, the      *)
(* order of the sections and the header of the file.                       *)
(***************************************************************************)
LEMMA InsertedLayout ==
  ASSUME NEW file, Layout(file), NEW cells, Len(cells) \in Nat
  PROVE  LET new == Inserted(file, SegmentEnd(file), cells)
         IN  /\ FileType(new) /\ RangesApart(new) /\ SectionsInOrder(new)
             /\ new.raw[0] = FileHeaderCell(new.dbg, new.flen)
             /\ new.flen = new.len
<1> DEFINE at  == SegmentEnd(file)
           new == Inserted(file, at, cells)
           n   == Len(cells)
<1>1. /\ FileType(file) /\ RangesApart(file) /\ SectionsInOrder(file)
      /\ file.flen = file.len
  BY DEF Layout
<1>2. at \in Nat /\ at <= file.dbg
  BY <1>1, SegmentEndBounds
<1>3. \A i \in Func : /\ End(file.hdr[i]) <= at
                      /\ file.hdr[i].overflowed => at <= file.hdr[i].large
  BY <1>1, SegmentEndBounds
<1> HIDE DEF at, n
<1>5. n \in Nat
  BY DEF n
<1>6. /\ new.len  = file.len + n
      /\ new.dbg  = file.dbg + n
      /\ new.flen = file.flen + n
      /\ DOMAIN new = DOMAIN file
      /\ DOMAIN new.raw = 0 .. (new.len - 1)
      /\ new.raw[0] = FileHeaderCell(new.dbg, new.flen)
      /\ new.hdr \in [Func -> FunctionHeader]
  BY InsertedMoves DEF n, at
<1>8. ASSUME NEW i \in Func
      PROVE  /\ new.hdr[i] \in FunctionHeader
             /\ Moved(new.hdr[i], file.hdr[i], at, n)
  BY <1>6, InsertedMoves DEF n, at
<1> HIDE DEF new
<1>9. FileType(new)
  BY <1>1, <1>5, <1>6 DEF FileType, Address
<1>10. ASSUME NEW i \in Func
       PROVE  /\ file.hdr[i].offset \in Nat /\ file.hdr[i].size \in Nat
              /\ file.hdr[i].large \in Nat /\ file.hdr[i].small \in Nat
              /\ file.hdr[i].offset + file.hdr[i].size <= at
              /\ 0 < file.hdr[i].small
              /\ file.hdr[i].overflowed => /\ at <= file.hdr[i].large
                                           /\ file.hdr[i].large < file.len - 1
  BY <1>1, <1>3 DEF FileType, FunctionHeader, SectionsInOrder, End
<1>11. RangesApart(new)
  <2> SUFFICES ASSUME NEW i \in Func, NEW j \in Func
               PROVE  \/ SameBody(new.hdr[i], new.hdr[j])
                      \/ SeparateBody(new.hdr[i], new.hdr[j])
    BY DEF RangesApart
  <2>1. file.hdr[i] \in FunctionHeader /\ file.hdr[j] \in FunctionHeader
    BY <1>1 DEF FileType
  <2>2. \/ SameBody(file.hdr[i], file.hdr[j])
        \/ SeparateBody(file.hdr[i], file.hdr[j])
    BY <1>1 DEF RangesApart
  <2>3. Moved(new.hdr[i], file.hdr[i], at, n) /\ Moved(new.hdr[j], file.hdr[j], at, n)
    BY <1>8
  <2>4. End(file.hdr[i]) <= at /\ End(file.hdr[j]) <= at
    BY <1>3
  <2> QED
    BY <1>2, <1>5, <2>1, <2>2, <2>3, <2>4, MovedBodies
<1>12. SectionsInOrder(new)
  <2>1. file.len \in Nat /\ file.dbg \in Nat /\ file.dbg < file.len
    BY <1>1 DEF FileType, SectionsInOrder
  <2>2. new.dbg < new.len
    BY <1>5, <1>6, <2>1
  <2>3. ASSUME NEW i \in Func
        PROVE  /\ 0 < new.hdr[i].small
               /\ End(new.hdr[i]) <= new.dbg
               /\ End(new.hdr[i]) <= at + n
               /\ End(new.hdr[i]) \in Nat
               /\ new.hdr[i].overflowed => /\ new.hdr[i].large < new.len - 1
                                           /\ at + n <= new.hdr[i].large
    <3>1. Moved(new.hdr[i], file.hdr[i], at, n)
      BY <1>8
    <3>2. /\ file.hdr[i].offset \in Nat /\ file.hdr[i].size \in Nat
          /\ file.hdr[i].large \in Nat
          /\ file.hdr[i].offset + file.hdr[i].size <= at
          /\ 0 < file.hdr[i].small
          /\ file.hdr[i].overflowed => /\ at <= file.hdr[i].large
                                       /\ file.hdr[i].large < file.len - 1
      BY <1>10
    <3>3. /\ 0 < new.hdr[i].small
          /\ new.hdr[i].overflowed => /\ new.hdr[i].large < new.len - 1
                                      /\ at + n <= new.hdr[i].large
      <4>1. /\ new.hdr[i].small = file.hdr[i].small
            /\ new.hdr[i].overflowed = file.hdr[i].overflowed
            /\ file.hdr[i].overflowed => new.hdr[i].large = file.hdr[i].large + n
        BY <3>1 DEF Moved
      <4>2. CASE file.hdr[i].overflowed
        <5>1. /\ new.hdr[i].large = file.hdr[i].large + n
              /\ at <= file.hdr[i].large /\ file.hdr[i].large < file.len - 1
          BY <3>2, <4>1, <4>2
        <5>2. /\ at \in Nat /\ n \in Nat /\ file.len \in Nat /\ file.hdr[i].large \in Nat
              /\ new.len = file.len + n
          BY <1>2, <1>5, <1>6, <2>1, <3>2
        <5>3. new.hdr[i].large < new.len - 1 /\ at + n <= new.hdr[i].large
          BY <5>1, <5>2
        <5> QED BY <3>2, <4>1, <5>3
      <4>3. CASE ~file.hdr[i].overflowed
        BY <3>2, <4>1, <4>3
      <4> QED
        BY <4>2, <4>3
    <3>4. /\ End(new.hdr[i]) <= at + n
          /\ End(new.hdr[i]) \in Nat
      <4> DEFINE from == file.hdr[i].offset
                 to   == new.hdr[i].offset
                 size == file.hdr[i].size
      <4>1. /\ from < at => to = from
            /\ from >= at => to = from + n
            /\ new.hdr[i].size = size
        BY <3>1 DEF Moved
      <4>2. from \in Nat /\ size \in Nat /\ from + size <= at
        BY <3>2
      <4> HIDE DEF from, to, size
      <4>3. to + size <= at + n /\ to + size \in Nat
        BY <1>2, <1>5, <4>1, <4>2
      <4> QED
        BY <4>1, <4>3 DEF End, to
    <3> QED
      BY <1>2, <1>5, <1>6, <2>1, <3>3, <3>4
  <2>4. ASSUME NEW i \in Func, NEW j \in Func
        PROVE  /\ new.hdr[j].small < new.hdr[i].offset
               /\ new.hdr[i].small = new.hdr[j].small => i = j
               /\ new.hdr[j].overflowed =>
                    /\ End(new.hdr[i]) <= new.hdr[j].large
                    /\ new.hdr[i].overflowed /\ new.hdr[i].large = new.hdr[j].large
                         => i = j
    <3>1. /\ file.hdr[i].offset \in Nat
          /\ file.hdr[j].large \in Nat /\ file.hdr[i].large \in Nat
          /\ file.hdr[j].small \in Nat /\ file.hdr[i].small \in Nat
      BY <1>10
    <3>2. /\ file.hdr[j].small < file.hdr[i].offset
          /\ file.hdr[i].small = file.hdr[j].small => i = j
          /\ file.hdr[j].overflowed /\ file.hdr[i].overflowed
               => (file.hdr[i].large = file.hdr[j].large => i = j)
      BY <1>1 DEF SectionsInOrder
    <3>3. Moved(new.hdr[i], file.hdr[i], at, n) /\ Moved(new.hdr[j], file.hdr[j], at, n)
      BY <1>8
    <3>4. new.hdr[j].small < new.hdr[i].offset
      <4> DEFINE from == file.hdr[i].offset
                 to   == new.hdr[i].offset
                 head == file.hdr[j].small
      <4>1. /\ from < at => to = from
            /\ from >= at => to = from + n
            /\ new.hdr[j].small = head
        BY <3>3 DEF Moved
      <4>2. from \in Nat /\ head \in Nat /\ head < from
        BY <3>1, <3>2
      <4> HIDE DEF from, to, head
      <4>3. head < to
        BY <1>2, <1>5, <4>1, <4>2
      <4> QED
        BY <4>1, <4>3 DEF to
    <3>5. new.hdr[j].overflowed => End(new.hdr[i]) <= new.hdr[j].large
      <4>1. /\ End(new.hdr[i]) <= at + n
            /\ End(new.hdr[i]) \in Nat
            /\ new.hdr[j].overflowed => at + n <= new.hdr[j].large
        BY <2>3
      <4>2. new.hdr[j].large \in Nat
        BY <1>8 DEF FunctionHeader
      <4> QED
        BY <1>2, <1>5, <4>1, <4>2
    <3>6. new.hdr[i].small = new.hdr[j].small => i = j
      BY <3>2, <3>3 DEF Moved
    <3>7. /\ new.hdr[j].overflowed /\ new.hdr[i].overflowed
          /\ new.hdr[i].large = new.hdr[j].large
          => i = j
      <4>1. SUFFICES ASSUME new.hdr[j].overflowed, new.hdr[i].overflowed,
                            new.hdr[i].large = new.hdr[j].large
                     PROVE  i = j
        OBVIOUS
      <4>2. /\ file.hdr[i].overflowed /\ new.hdr[i].large = file.hdr[i].large + n
            /\ file.hdr[j].overflowed /\ new.hdr[j].large = file.hdr[j].large + n
        BY <3>3, <4>1 DEF Moved
      <4> DEFINE li == file.hdr[i].large
                 lj == file.hdr[j].large
      <4>3. li + n = lj + n
        BY <4>1, <4>2
      <4>4. li \in Nat /\ lj \in Nat
        BY <3>1
      <4> HIDE DEF li, lj
      <4>5. li = lj
        BY <1>5, <4>3, <4>4
      <4> QED
        BY <3>2, <4>2, <4>5 DEF li, lj
    <3> QED
      BY <3>4, <3>5, <3>6, <3>7
  <2> QED
    BY <2>2, <2>3, <2>4 DEF SectionsInOrder
<1> QED
  BY <1>1, <1>6, <1>9, <1>11, <1>12 DEF new, at

-----------------------------------------------------------------------------
(* The serialized header of function i says what the decoded one does. *)
HeaderAgrees(file, i) ==
  /\ file.raw[file.hdr[i].small] = SmallCell(file.hdr[i])
  /\ file.hdr[i].overflowed =>
       file.raw[file.hdr[i].large] = LargeCell(file.hdr[i])

(* The cells of the header tables lie in the image and are distinct. *)
HeaderTable(file) ==
  \A i \in Func :
    /\ file.hdr[i].small \in Address(file) /\ file.hdr[i].small # 0
    /\ \A j \in Func : file.hdr[j].small = file.hdr[i].small => j = i
    /\ file.hdr[i].overflowed =>
         /\ file.hdr[i].large \in Address(file) /\ file.hdr[i].large # 0
         /\ \A j \in Func : file.hdr[j].small # file.hdr[i].large
         /\ \A j \in Func :
              file.hdr[j].overflowed /\ file.hdr[j].large = file.hdr[i].large
                => j = i

(* They are when the sections are in order. *)
LEMMA HeaderCells ==
  ASSUME NEW file, FileType(file), SectionsInOrder(file)
  PROVE  HeaderTable(file)
<1> SUFFICES ASSUME NEW i \in Func
             PROVE  /\ file.hdr[i].small \in Address(file) /\ file.hdr[i].small # 0
                    /\ \A j \in Func : file.hdr[j].small = file.hdr[i].small => j = i
                    /\ file.hdr[i].overflowed =>
                         /\ file.hdr[i].large \in Address(file)
                         /\ file.hdr[i].large # 0
                         /\ \A j \in Func : file.hdr[j].small # file.hdr[i].large
                         /\ \A j \in Func :
                              file.hdr[j].overflowed /\ file.hdr[j].large = file.hdr[i].large
                                => j = i
  BY DEF HeaderTable
<1>1. /\ file.len \in Nat /\ file.dbg \in Nat /\ file.dbg < file.len
      /\ \A j \in Func : /\ file.hdr[j].offset \in Nat /\ file.hdr[j].size \in Nat
                          /\ file.hdr[j].small \in Nat /\ file.hdr[j].large \in Nat
  BY DEF FileType, FunctionHeader, SectionsInOrder
<1>2. ASSUME NEW j \in Func
      PROVE  /\ 0 < file.hdr[j].small /\ file.hdr[j].small < file.hdr[i].offset
             /\ file.hdr[i].offset + file.hdr[i].size <= file.dbg
             /\ file.hdr[i].small = file.hdr[j].small => i = j
             /\ file.hdr[i].overflowed =>
                  /\ file.hdr[i].offset + file.hdr[i].size <= file.hdr[i].large
                  /\ file.hdr[i].large < file.len - 1
                  /\ file.hdr[j].overflowed /\ file.hdr[j].large = file.hdr[i].large
                       => j = i
  BY DEF SectionsInOrder, End
<1>3. file.hdr[i].small \in 0 .. (file.len - 1) /\ file.hdr[i].small # 0
  BY <1>1, <1>2
<1>4. ASSUME file.hdr[i].overflowed
      PROVE  /\ file.hdr[i].large \in 0 .. (file.len - 1) /\ file.hdr[i].large # 0
             /\ \A j \in Func : file.hdr[j].small # file.hdr[i].large
  <2>1. file.hdr[i].large \in 0 .. (file.len - 1)
    BY <1>1, <1>2, <1>4
  <2>2. ASSUME NEW j \in Func
        PROVE  /\ file.hdr[j].small # file.hdr[i].large
               /\ file.hdr[i].large # 0
    BY <1>1, <1>2, <1>4
  <2> QED
    BY <2>1, <2>2
<1> QED
  BY <1>2, <1>3, <1>4, Zenon DEF Address

(***************************************************************************)
(* After the headers of S are written, those of S agree with memory, and   *)
(* those that already did still do.                                        *)
(***************************************************************************)
LEMMA WrittenHeaders ==
  ASSUME NEW file, NEW S \in SUBSET Func, FileType(file), HeaderTable(file),
         0 \in Address(file),
         \A i \in Func \ S : HeaderAgrees(file, i)
  PROVE  /\ \A i \in Func : HeaderAgrees(WriteHeaders(file, S), i)
         /\ WriteHeaders(file, S).raw[0] = file.raw[0]
<1> DEFINE new == WriteHeaders(file, S)
<1>1. /\ new.hdr = file.hdr /\ new.len = file.len
      /\ new.dbg = file.dbg /\ new.flen = file.flen
  BY DEF WriteHeaders, WithRaw
<1>2. ASSUME NEW a \in Address(file)
      PROVE  new.raw[a] =
        IF \E i \in S : file.hdr[i].small = a
        THEN SmallCell(file.hdr[CHOOSE i \in S : file.hdr[i].small = a])
        ELSE IF \E i \in S : file.hdr[i].overflowed /\ file.hdr[i].large = a
        THEN LargeCell(file.hdr[CHOOSE i \in S :
               file.hdr[i].overflowed /\ file.hdr[i].large = a])
        ELSE file.raw[a]
  BY DEF WriteHeaders, WithRaw
<1> HIDE DEF new
<1>3. new.raw[0] = file.raw[0]
  <2>2. /\ ~ \E i \in S : file.hdr[i].small = 0
        /\ ~ \E i \in S : file.hdr[i].overflowed /\ file.hdr[i].large = 0
    BY DEF HeaderTable
  <2> QED
    BY <1>2, <2>2
<1>4. ASSUME NEW i \in Func
      PROVE  new.raw[file.hdr[i].small] = SmallCell(file.hdr[i])
  <2> DEFINE a == file.hdr[i].small
  <2>1. /\ a \in Address(file)
        /\ \A j \in Func : file.hdr[j].small = a => j = i
        /\ \A j \in Func : file.hdr[j].overflowed => file.hdr[j].large # a
    BY DEF HeaderTable
  <2> HIDE DEF a
  <2>2. CASE i \in S
    <3>1. (CHOOSE j \in S : file.hdr[j].small = a) = i
      BY <2>1, <2>2 DEF a
    <3> QED
      BY <1>2, <2>1, <2>2, <3>1, Zenon DEF a
  <2>3. CASE i \notin S
    <3>1. /\ ~ \E j \in S : file.hdr[j].small = a
          /\ ~ \E j \in S : file.hdr[j].overflowed /\ file.hdr[j].large = a
      BY <2>1, <2>3
    <3>2. new.raw[a] = file.raw[a]
      BY <1>2, <2>1, <3>1, Zenon
    <3> QED
      BY <2>3, <3>2 DEF HeaderAgrees, a
  <2> QED
    BY <2>2, <2>3
<1>5. ASSUME NEW i \in Func, file.hdr[i].overflowed
      PROVE  new.raw[file.hdr[i].large] = LargeCell(file.hdr[i])
  <2> DEFINE a == file.hdr[i].large
  <2>1. /\ a \in Address(file)
        /\ \A j \in Func : file.hdr[j].small # a
        /\ \A j \in Func : file.hdr[j].overflowed /\ file.hdr[j].large = a => j = i
    BY <1>5 DEF HeaderTable
  <2> HIDE DEF a
  <2>2. ~ \E j \in S : file.hdr[j].small = a
    BY <2>1
  <2>3. CASE i \in S
    <3>1. (CHOOSE j \in S : file.hdr[j].overflowed /\ file.hdr[j].large = a) = i
      BY <1>5, <2>1, <2>3 DEF a
    <3> QED
      BY <1>2, <1>5, <2>1, <2>2, <2>3, <3>1, Zenon DEF a
  <2>4. CASE i \notin S
    <3>1. ~ \E j \in S : file.hdr[j].overflowed /\ file.hdr[j].large = a
      BY <2>1, <2>4
    <3>2. new.raw[a] = file.raw[a]
      BY <1>2, <2>1, <2>2, <3>1, Zenon
    <3> QED
      BY <1>5, <2>4, <3>2 DEF HeaderAgrees, a
  <2> QED
    BY <2>3, <2>4
<1> QED
  BY <1>1, <1>3, <1>4, <1>5 DEF HeaderAgrees, new

(* ... and then the image agrees with memory. *)
LEMMA WriteHeadersAgree ==
  ASSUME NEW file, NEW S \in SUBSET Func,
         FileType(file), SectionsInOrder(file),
         file.raw[0] = FileHeaderCell(file.dbg, file.flen), file.flen = file.len,
         \A i \in Func \ S : HeaderAgrees(file, i)
  PROVE  ImageAgrees(WriteHeaders(file, S))
<1>1. HeaderTable(file)
  BY HeaderCells
<1>2. 0 \in Address(file)
  BY DEF FileType, SectionsInOrder, Address
<1>3. /\ \A i \in Func : HeaderAgrees(WriteHeaders(file, S), i)
      /\ WriteHeaders(file, S).raw[0] = file.raw[0]
  BY <1>1, <1>2, WrittenHeaders
<1>4. /\ WriteHeaders(file, S).dbg = file.dbg /\ WriteHeaders(file, S).flen = file.flen
      /\ WriteHeaders(file, S).len = file.len
  BY DEF WriteHeaders, WithRaw
<1> QED
  BY <1>3, <1>4 DEF ImageAgrees, HeaderAgrees

(* Writing headers touches nothing but the image. *)
LEMMA WriteHeadersShape ==
  ASSUME NEW file, FileType(file), NEW S
  PROVE  LET new == WriteHeaders(file, S)
         IN  /\ FileType(new)
             /\ new.hdr = file.hdr /\ new.len = file.len
             /\ new.dbg = file.dbg /\ new.flen = file.flen
             /\ RangesApart(file) => RangesApart(new)
             /\ SectionsInOrder(file) => SectionsInOrder(new)
<1> DEFINE new == WriteHeaders(file, S)
<1>1. /\ new.hdr = file.hdr /\ new.len = file.len
      /\ new.dbg = file.dbg /\ new.flen = file.flen
      /\ DOMAIN new = {"raw", "hdr", "len", "dbg", "flen"}
      /\ DOMAIN new.raw = Address(file)
  BY DEF WriteHeaders, WithRaw
<1> HIDE DEF new
<1>2. FileType(new)
  BY <1>1 DEF FileType, Address
<1>3. RangesApart(file) => RangesApart(new)
  BY <1>1 DEF RangesApart
<1>4. SectionsInOrder(file) => SectionsInOrder(new)
  BY <1>1 DEF SectionsInOrder
<1> QED
  BY <1>1, <1>2, <1>3, <1>4 DEF new

(* When every header fits, the loop that stops at an error writes them all. *)
LEMMA WriteAll ==
  ASSUME NEW file, NEW S, AllFit(file, S)
  PROVE  WriteUntilError(file, S) = WriteHeaders(file, S)
<1>1. {i \in S : \A j \in S : j <= i => HeaderFits(file, j)} = S
  BY DEF AllFit
<1> QED
  BY <1>1 DEF WriteUntilError

(***************************************************************************)
(* insertBytesAt at the end of the bytecode segment keeps the file well    *)
(* formed.                                                                 *)
(***************************************************************************)
LEMMA InsertKeepsLayout ==
  ASSUME NEW file, Layout(file), NEW cells, Len(cells) \in Nat,
         AllFit(Inserted(file, SegmentEnd(file), cells), Func)
  PROVE  WellFormed(InsertBytesAt(file, SegmentEnd(file), cells))
<1> DEFINE mid == Inserted(file, SegmentEnd(file), cells)
<1>1. /\ FileType(mid) /\ RangesApart(mid) /\ SectionsInOrder(mid)
      /\ mid.raw[0] = FileHeaderCell(mid.dbg, mid.flen)
      /\ mid.flen = mid.len
  BY InsertedLayout
<1>2. InsertBytesAt(file, SegmentEnd(file), cells) = WriteHeaders(mid, Func)
  BY WriteAll DEF InsertBytesAt
<1> HIDE DEF mid
<1>3. ImageAgrees(WriteHeaders(mid, Func))
  BY <1>1, WriteHeadersAgree
<1> QED
  BY <1>1, <1>2, <1>3, WriteHeadersShape DEF WellFormed

-----------------------------------------------------------------------------
(***************************************************************************)
(* g is what header h becomes when the code of function f, whose header    *)
(* was hf and whose new size is n, is replaced.                            *)
(***************************************************************************)
SplicedHeader(g, h, hf, n) ==
  LET delta == n - hf.size
  IN  /\ g.size = h.size
      /\ g.overflowed = h.overflowed
      /\ g.small = h.small
      /\ h.offset < End(hf)  => g.offset = h.offset
      /\ h.offset >= End(hf) => g.offset = h.offset + delta
      /\ h.overflowed => g.large = h.large + delta

(* The body of function f lies inside the image. *)
InImage(file, f) == End(file.hdr[f]) <= file.len

(* Every field of the file a splice has built before it writes headers. *)
LEMMA SplicedFields ==
  ASSUME NEW file, FileType(file), NEW f \in Func, InImage(file, f),
         NEW cells, Len(cells) \in Nat
  PROVE  LET h     == file.hdr[f]
             delta == Len(cells) - h.size
             new   == Spliced(file, f, cells)
         IN  /\ DOMAIN new = DOMAIN file
             /\ new.len  = file.len + delta /\ new.len \in Nat
             /\ new.dbg  = file.dbg
             /\ new.flen = file.flen
             /\ DOMAIN new.hdr = Func
             /\ DOMAIN new.raw = 0 .. (new.len - 1)
             /\ \A a \in 0 .. (new.len - 1) :
                  /\ a < h.offset => new.raw[a] = file.raw[a]
                  /\ h.offset + Len(cells) <= a
                       => new.raw[a] = file.raw[a - delta]
<1> DEFINE h     == file.hdr[f]
           n     == Len(cells)
           new   == Spliced(file, f, cells)
<1>1. /\ h.offset \in Nat /\ h.size \in Nat /\ file.len \in Nat
      /\ h.offset + h.size <= file.len
  BY DEF FileType, FunctionHeader, End, InImage
<1>2. /\ DOMAIN new = {"raw", "hdr", "len", "dbg", "flen"}
      /\ new.len = file.len + (n - h.size)
      /\ new.dbg = file.dbg /\ new.flen = file.flen
      /\ new.raw = Splice(file, h.offset, h.size, cells)
      /\ new.hdr = [ShiftHeaders(file.hdr, End(h), n - h.size, {f})
                       EXCEPT ![f].size = n]
  BY DEF Spliced
<1> HIDE DEF new, h
<1>3. DOMAIN new.hdr = Func
  BY <1>2 DEF ShiftHeaders
<1>4. new.len \in Nat
  <2> HIDE DEF n
  <2>1. n \in Nat BY DEF n
  <2> QED BY <1>1, <1>2, <2>1
<1>5. DOMAIN new.raw = 0 .. (new.len - 1)
  <2>1. file.len - h.size + n - 1 = new.len - 1
    BY <1>1, <1>2
  <2> QED
    BY <1>2, <2>1 DEF Splice
<1>6. ASSUME NEW a \in 0 .. (new.len - 1)
      PROVE  /\ a < h.offset => new.raw[a] = file.raw[a]
             /\ h.offset + n <= a => new.raw[a] = file.raw[a - (n - h.size)]
  <2>1. a \in 0 .. (file.len - h.size + n - 1)
    BY <1>1, <1>2, <1>6
  <2>2. new.raw[a] = IF a < h.offset THEN file.raw[a]
                     ELSE IF a < h.offset + n THEN cells[a - h.offset + 1]
                     ELSE file.raw[a - n + h.size]
    BY <1>2, <2>1 DEF Splice
  <2>3. a - n + h.size = a - (n - h.size)
    BY <1>1, <1>6
  <2>4. h.offset + n <= a => ~ (a < h.offset) /\ ~ (a < h.offset + n)
    BY <1>1, <1>6
  <2> QED
    BY <2>2, <2>3, <2>4
<1> QED
  BY <1>2, <1>3, <1>4, <1>5, <1>6 DEF FileType, new, h

(* The type of that file. *)
LEMMA SplicedType ==
  ASSUME NEW file, FileType(file), NEW f \in Func, InImage(file, f),
         NEW cells, Len(cells) \in Nat
  PROVE  FileType(Spliced(file, f, cells))
<1> DEFINE from  == End(file.hdr[f])
           n     == Len(cells)
           delta == n - file.hdr[f].size
           moved == ShiftHeaders(file.hdr, from, delta, {f})
           new   == Spliced(file, f, cells)
<1>1. /\ file.hdr[f].offset \in Nat /\ file.hdr[f].size \in Nat
      /\ file.hdr \in [Func -> FunctionHeader]
  BY DEF FileType, FunctionHeader
<1>2. /\ DOMAIN new = DOMAIN file
      /\ new.len \in Nat /\ new.dbg = file.dbg /\ new.flen = file.flen
      /\ DOMAIN new.raw = 0 .. (new.len - 1)
  BY SplicedFields
<1>10. new.hdr = [moved EXCEPT ![f].size = n]
  BY DEF Spliced
<1>3. n \in Nat /\ from \in Nat /\ delta \in Int /\ from + delta >= 0
  <2> HIDE DEF n
  <2>1. n \in Nat
    BY DEF n
  <2>2. from = file.hdr[f].offset + file.hdr[f].size
    BY DEF End
  <2> QED
    BY <1>1, <2>1, <2>2
<1> HIDE DEF new, n, from, delta
<1>4. ASSUME NEW i \in Func
      PROVE  moved[i] \in FunctionHeader /\ moved[i].size = file.hdr[i].size
  <2> DEFINE h == file.hdr[i]
             s == moved[i]
  <2>1. /\ h.offset \in Nat /\ h.size \in Nat /\ h.overflowed \in BOOLEAN
        /\ h.large \in Nat /\ h.small \in Nat
    BY <1>1 DEF FunctionHeader
  <2>2. s = [offset |-> s.offset, size |-> h.size, overflowed |-> h.overflowed,
             large |-> s.large, small |-> s.small]
    BY DEF ShiftHeaders
  <2>3. /\ s.offset = h.offset \/ (h.offset >= from /\ s.offset = h.offset + delta)
        /\ s.large = h.large \/ (h.large >= from /\ s.large = h.large + delta)
        /\ s.small = h.small \/ (h.small >= from /\ s.small = h.small + delta)
    BY DEF ShiftHeaders
  <2> HIDE DEF s, h, moved
  <2>4. s.offset \in Nat /\ s.large \in Nat /\ s.small \in Nat
    BY <1>3, <2>1, <2>3
  <2>5. s \in FunctionHeader /\ s.size = h.size
    BY <2>1, <2>2, <2>4 DEF FunctionHeader
  <2> QED
    BY <2>5 DEF s, h
<1>5. moved \in [Func -> FunctionHeader]
  <2>1. DOMAIN moved = Func /\ moved = [i \in Func |-> moved[i]]
    BY DEF ShiftHeaders
  <2> QED
    BY <1>4, <2>1
<1> HIDE DEF moved
<1>6. new.hdr \in [Func -> FunctionHeader]
  BY <1>3, <1>5, <1>10 DEF FunctionHeader
<1>9. FileType(new)
  BY <1>2, <1>6 DEF FileType, Address
<1> QED
  BY <1>9 DEF new

(* Bodies apart from the replaced one stay shared, or apart, among each other. *)
LEMMA SplicedBodies ==
  ASSUME NEW hf \in FunctionHeader, NEW n \in Nat,
         NEW a \in FunctionHeader, NEW b \in FunctionHeader, NEW g, NEW h,
         SplicedHeader(g, a, hf, n), SplicedHeader(h, b, hf, n),
         SeparateBody(hf, a), SeparateBody(hf, b)
  PROVE  /\ SameBody(a, b) => SameBody(g, h)
         /\ SeparateBody(a, b) => SeparateBody(g, h)
<1>1. /\ a.offset \in Nat /\ a.size \in Nat
      /\ b.offset \in Nat /\ b.size \in Nat
      /\ hf.offset \in Nat /\ hf.size \in Nat
  BY DEF FunctionHeader
<1>2. g.size = a.size /\ h.size = b.size
  BY DEF SplicedHeader
<1>3. \/ a.offset + a.size <= hf.offset /\ g.offset = a.offset
      \/ hf.offset + hf.size <= a.offset /\ g.offset = a.offset + (n - hf.size)
  BY <1>1 DEF SplicedHeader, SeparateBody, End
<1>4. \/ b.offset + b.size <= hf.offset /\ h.offset = b.offset
      \/ hf.offset + hf.size <= b.offset /\ h.offset = b.offset + (n - hf.size)
  BY <1>1 DEF SplicedHeader, SeparateBody, End
<1>6. ASSUME SameBody(a, b) PROVE SameBody(g, h)
  <2>1. a.offset = b.offset /\ g.size = h.size
    BY <1>2, <1>6 DEF SameBody
  <2>2. g.offset = h.offset
    BY <1>1, <1>6, <2>1 DEF SplicedHeader, End
  <2> QED BY <2>1, <2>2 DEF SameBody
<1>7. ASSUME SeparateBody(a, b) PROVE SeparateBody(g, h)
  <2>1. \/ g.offset + g.size <= h.offset
        \/ h.offset + h.size <= g.offset
    BY <1>1, <1>2, <1>3, <1>4, <1>7 DEF SeparateBody, End
  <2> QED BY <2>1 DEF SeparateBody, End
<1> QED
  BY <1>6, <1>7

(* Each of them either stays where it was, in front of the replaced body, or
   moves with everything behind it. *)
LEMMA SplicedBeside ==
  ASSUME NEW hf \in FunctionHeader, NEW n \in Nat,
         NEW a \in FunctionHeader, NEW g,
         SplicedHeader(g, a, hf, n), SeparateBody(hf, a)
  PROVE  \/ /\ g.offset = a.offset
            /\ End(g) <= hf.offset
         \/ /\ hf.offset + n <= g.offset
            /\ End(g) = End(a) + (n - hf.size)
<1>1. /\ a.offset \in Nat /\ a.size \in Nat
      /\ hf.offset \in Nat /\ hf.size \in Nat
  BY DEF FunctionHeader
<1>2. g.size = a.size
  BY DEF SplicedHeader
<1>3. \/ a.offset + a.size <= hf.offset /\ g.offset = a.offset
      \/ hf.offset + hf.size <= a.offset /\ g.offset = a.offset + (n - hf.size)
  BY <1>1 DEF SplicedHeader, SeparateBody, End
<1>4. \/ g.offset = a.offset /\ g.offset + g.size <= hf.offset
      \/ /\ hf.offset + n <= g.offset
         /\ g.offset + g.size = a.offset + a.size + (n - hf.size)
  BY <1>1, <1>2, <1>3
<1> QED
  BY <1>4 DEF End

(***************************************************************************)
(* Two bodies of old that are apart are apart in new.                      *)
(***************************************************************************)
SeparationKept(old, new) ==
  \A i, j \in Func :
    i # j /\ SeparateBody(old.hdr[i], old.hdr[j])
      => SeparateBody(new.hdr[i], new.hdr[j])

(***************************************************************************)
(* Every header after a splice into a well-formed file.                    *)
(***************************************************************************)
LEMMA SplicedHeaders ==
  ASSUME NEW file, Layout(file), NEW f \in Func,
         NEW cells, Len(cells) \in Nat
  PROVE  LET hf  == file.hdr[f]
             new == Spliced(file, f, cells)
         IN  /\ InImage(file, f)
             /\ new.hdr[f].offset = hf.offset /\ new.hdr[f].size = Len(cells)
             /\ new.hdr[f].small = hf.small
             /\ new.hdr[f].overflowed = hf.overflowed
             /\ hf.overflowed => new.hdr[f].large = hf.large + (Len(cells) - hf.size)
             /\ \A i \in Func \ {f} :
                  SplicedHeader(new.hdr[i], file.hdr[i], hf, Len(cells))
<1> DEFINE hf    == file.hdr[f]
           n     == Len(cells)
           from  == End(hf)
           delta == n - hf.size
           new   == Spliced(file, f, cells)
<1>1. FileType(file) /\ SectionsInOrder(file)
  BY DEF Layout
<1>2. /\ hf.offset \in Nat /\ hf.size \in Nat
      /\ file.len \in Nat /\ file.dbg \in Nat /\ file.dbg < file.len
      /\ from <= file.dbg /\ from \in Nat /\ hf.offset <= from
      /\ file.hdr \in [Func -> FunctionHeader]
  BY <1>1 DEF FileType, FunctionHeader, SectionsInOrder, End
<1>3. InImage(file, f)
  <2> HIDE DEF from
  <2>1. from <= file.len
    BY <1>2
  <2> QED BY <2>1 DEF from, InImage
<1> DEFINE moved == ShiftHeaders(file.hdr, from, delta, {f})
<1>9. new.hdr = [moved EXCEPT ![f].size = n]
  BY DEF Spliced
<1>10. /\ moved = [i \in Func |-> moved[i]]
       /\ \A i \in Func : moved[i] =
            [offset |-> moved[i].offset, size |-> file.hdr[i].size,
             overflowed |-> moved[i].overflowed, large |-> moved[i].large,
             small |-> moved[i].small]
  BY DEF ShiftHeaders
<1> HIDE DEF moved, new, n, from, delta
<1>4. new.hdr[f].size = n
  BY <1>9, <1>10
<1>8. ASSUME NEW i \in Func
      PROVE  LET s == moved[i]
                 g == new.hdr[i]
             IN  /\ g.offset = s.offset /\ g.overflowed = s.overflowed
                 /\ g.large = s.large /\ g.small = s.small
                 /\ i # f => g.size = file.hdr[i].size
  BY <1>9, <1>10
<1>5. n \in Nat /\ delta \in Int
  BY <1>2 DEF n, delta
<1>6. ASSUME NEW i \in Func
      PROVE  /\ new.hdr[i].overflowed = file.hdr[i].overflowed
             /\ new.hdr[i].small = file.hdr[i].small
             /\ i = f => new.hdr[i].offset = file.hdr[i].offset
             /\ i # f /\ file.hdr[i].offset < from
                  => new.hdr[i].offset = file.hdr[i].offset
             /\ i # f /\ file.hdr[i].offset >= from
                  => new.hdr[i].offset = file.hdr[i].offset + delta
             /\ file.hdr[i].overflowed
                  => new.hdr[i].large = file.hdr[i].large + delta
  <2> DEFINE h == file.hdr[i]
             s == moved[i]
  <2>1. /\ h.offset \in Nat /\ h.small \in Nat /\ h.large \in Nat
        /\ h.overflowed \in BOOLEAN
    BY <1>2 DEF FunctionHeader
  <2>2. h.small < hf.offset /\ (h.overflowed => from <= h.large)
    BY <1>1 DEF SectionsInOrder, from
  <2>3. /\ s.offset = IF i \notin {f} /\ h.offset >= from THEN h.offset + delta ELSE h.offset
        /\ s.overflowed = h.overflowed
        /\ s.large = IF h.overflowed /\ h.large >= from THEN h.large + delta ELSE h.large
        /\ s.small = IF h.small >= from THEN h.small + delta ELSE h.small
    BY DEF ShiftHeaders, moved
  <2>4. /\ new.hdr[i].offset = s.offset /\ new.hdr[i].overflowed = s.overflowed
        /\ new.hdr[i].large = s.large /\ new.hdr[i].small = s.small
    BY <1>8
  <2> HIDE DEF h, s, hf
  <2>5. ~ (h.small >= from) /\ (h.overflowed => h.large >= from)
    BY <1>2, <2>1, <2>2
  <2>6. h.offset < from => ~ (h.offset >= from)
    BY <1>2, <2>1
  <2> QED
    BY <2>3, <2>4, <2>5, <2>6 DEF h
<1>7. ASSUME NEW i \in Func \ {f}
      PROVE  SplicedHeader(new.hdr[i], file.hdr[i], hf, n)
  BY <1>6, <1>8 DEF SplicedHeader, from, delta
<1> QED
  BY <1>3, <1>4, <1>6, <1>7 DEF new, delta, n

(* A header in front of the code stays in front of what is moved. *)
LEMMA SmallStaysBefore ==
  ASSUME NEW o \in Nat, NEW n \in Nat, NEW small \in Nat, NEW offset \in Nat,
         small < o, o + n <= offset
  PROVE  small < offset
OBVIOUS

(***************************************************************************)
(* With the file-level offsets moved, the bodies and sections are still in *)
(* order: no other body may have overlapped the replaced one.              *)
(***************************************************************************)
LEMMA SplicedLayout ==
  ASSUME NEW file, Layout(file), NEW f \in Func,
         NEW cells, Len(cells) \in Nat,
         \A i \in Func \ {f} : SeparateBody(file.hdr[f], file.hdr[i]),
         NEW new, FileType(new), new.hdr = Spliced(file, f, cells).hdr,
         new.len = file.len + (Len(cells) - file.hdr[f].size),
         new.dbg = file.dbg + (Len(cells) - file.hdr[f].size)
  PROVE  /\ RangesApart(new) /\ SectionsInOrder(new)
         /\ SeparationKept(file, new)
<1> DEFINE hf    == file.hdr[f]
           n     == Len(cells)
           delta == n - hf.size
<1>1. FileType(file) /\ SectionsInOrder(file) /\ RangesApart(file)
  BY DEF Layout
<1>2. /\ new.hdr[f].offset = hf.offset /\ new.hdr[f].size = n
      /\ new.hdr[f].small = hf.small
      /\ new.hdr[f].overflowed = hf.overflowed
      /\ hf.overflowed => new.hdr[f].large = hf.large + delta
      /\ \A i \in Func \ {f} : SplicedHeader(new.hdr[i], file.hdr[i], hf, n)
  BY SplicedHeaders
<1>3. hf \in FunctionHeader /\ n \in Nat
  BY <1>1 DEF FileType
<1>4. \A i \in Func : file.hdr[i] \in FunctionHeader /\ new.hdr[i] \in FunctionHeader
  BY <1>1 DEF FileType
<1>5. ASSUME NEW i \in Func \ {f}, NEW j \in Func \ {f}
      PROVE  /\ SameBody(file.hdr[i], file.hdr[j]) => SameBody(new.hdr[i], new.hdr[j])
             /\ SeparateBody(file.hdr[i], file.hdr[j])
                  => SeparateBody(new.hdr[i], new.hdr[j])
  <2>1. SplicedHeader(new.hdr[i], file.hdr[i], hf, n) /\ SplicedHeader(new.hdr[j], file.hdr[j], hf, n)
    BY <1>2
  <2>2. SeparateBody(hf, file.hdr[i]) /\ SeparateBody(hf, file.hdr[j])
    OBVIOUS
  <2>3. file.hdr[i] \in FunctionHeader /\ file.hdr[j] \in FunctionHeader
    BY <1>4
  <2> HIDE DEF hf, n
  <2> QED
    BY <1>3, <2>1, <2>2, <2>3, SplicedBodies
<1>13. ASSUME NEW i \in Func \ {f}
       PROVE  \/ /\ new.hdr[i].offset = file.hdr[i].offset
                 /\ End(new.hdr[i]) <= hf.offset
              \/ /\ hf.offset + n <= new.hdr[i].offset
                 /\ End(new.hdr[i]) = End(file.hdr[i]) + delta
  <2>1. SplicedHeader(new.hdr[i], file.hdr[i], hf, n)
    BY <1>2
  <2>2. SeparateBody(hf, file.hdr[i])
    OBVIOUS
  <2>3. file.hdr[i] \in FunctionHeader
    BY <1>4
  <2> HIDE DEF hf, n
  <2> QED
    BY <1>3, <2>1, <2>2, <2>3, SplicedBeside
<1>6. ASSUME NEW i \in Func \ {f}
      PROVE  /\ SeparateBody(new.hdr[f], new.hdr[i])
             /\ SeparateBody(new.hdr[i], new.hdr[f])
  <2>1. hf.offset + n <= new.hdr[i].offset \/ End(new.hdr[i]) <= hf.offset
    BY <1>13
  <2>2. new.hdr[f].offset = hf.offset /\ End(new.hdr[f]) = hf.offset + n
    BY <1>2 DEF End
  <2> HIDE DEF hf, n
  <2>3. \/ End(new.hdr[f]) <= new.hdr[i].offset
        \/ End(new.hdr[i]) <= new.hdr[f].offset
    BY <2>1, <2>2
  <2> QED
    BY <2>3 DEF SeparateBody
<1>7. RangesApart(new)
  <2> SUFFICES ASSUME NEW i \in Func, NEW j \in Func
               PROVE  \/ SameBody(new.hdr[i], new.hdr[j])
                      \/ SeparateBody(new.hdr[i], new.hdr[j])
    BY DEF RangesApart
  <2>1. CASE i = f /\ j = f
    BY <2>1 DEF SameBody
  <2>2. CASE i = f /\ j # f
    BY <1>6, <2>2
  <2>3. CASE i # f /\ j = f
    BY <1>6, <2>3
  <2>4. CASE i # f /\ j # f
    <3>1. \/ SameBody(file.hdr[i], file.hdr[j])
          \/ SeparateBody(file.hdr[i], file.hdr[j])
      BY <1>1 DEF RangesApart
    <3> QED
      BY <1>5, <2>4, <3>1
  <2> QED
    BY <2>1, <2>2, <2>3, <2>4
<1>8. SeparationKept(file, new)
  <2> SUFFICES ASSUME NEW i \in Func, NEW j \in Func, i # j,
                      SeparateBody(file.hdr[i], file.hdr[j])
               PROVE  SeparateBody(new.hdr[i], new.hdr[j])
    BY DEF SeparationKept
  <2> QED
    BY <1>5, <1>6
<1> HIDE DEF hf, n, delta
<1>9. ASSUME NEW i \in Func
      PROVE  /\ file.hdr[i].offset \in Nat /\ file.hdr[i].size \in Nat
             /\ file.hdr[i].small \in Nat /\ file.hdr[i].large \in Nat
             /\ file.hdr[i].offset + file.hdr[i].size <= file.dbg
             /\ 0 < file.hdr[i].small /\ file.hdr[i].small < hf.offset
             /\ file.hdr[i].overflowed =>
                  /\ hf.offset + hf.size <= file.hdr[i].large
                  /\ file.hdr[i].large < file.len - 1
  BY <1>1, <1>4 DEF FunctionHeader, SectionsInOrder, End, hf
<1>10. /\ hf.offset \in Nat /\ hf.size \in Nat /\ hf.offset + hf.size <= file.dbg
       /\ file.dbg \in Nat /\ file.len \in Nat /\ file.dbg < file.len
       /\ delta = n - hf.size
       /\ new.len = file.len + delta /\ new.dbg = file.dbg + delta
  BY <1>1, <1>9 DEF FileType, SectionsInOrder, delta, hf, n
<1>11. ASSUME NEW i \in Func
       PROVE  /\ new.hdr[i].small = file.hdr[i].small
              /\ new.hdr[i].overflowed = file.hdr[i].overflowed
              /\ file.hdr[i].overflowed => new.hdr[i].large = file.hdr[i].large + delta
  <2>1. CASE i = f
    BY <1>2, <2>1 DEF hf
  <2>2. CASE i # f
    BY <1>2, <2>2 DEF SplicedHeader, delta
  <2> QED
    BY <2>1, <2>2
<1>14. ASSUME NEW i \in Func
       PROVE  \/ /\ new.hdr[i].offset = file.hdr[i].offset
                 /\ End(new.hdr[i]) <= hf.offset + n
              \/ /\ hf.offset + n <= new.hdr[i].offset
                 /\ End(new.hdr[i]) = End(file.hdr[i]) + delta
  <2>1. CASE i = f
    <3>1. new.hdr[f].offset = hf.offset /\ End(new.hdr[f]) = hf.offset + n
      BY <1>2 DEF End
    <3> QED
      BY <1>3, <1>10, <2>1, <3>1 DEF hf
  <2>2. CASE i # f
    <3>1. \/ /\ new.hdr[i].offset = file.hdr[i].offset
             /\ End(new.hdr[i]) <= hf.offset
          \/ /\ hf.offset + n <= new.hdr[i].offset
             /\ End(new.hdr[i]) = End(file.hdr[i]) + delta
      BY <1>13, <2>2
    <3>2. End(new.hdr[i]) \in Nat
      BY <1>4 DEF FunctionHeader, End
    <3> QED
      BY <1>3, <1>10, <3>1, <3>2
  <2> QED
    BY <2>1, <2>2
<1>12. SectionsInOrder(new)
  <2>1. new.dbg < new.len
    BY <1>3, <1>10
  <2>2. ASSUME NEW i \in Func
        PROVE  /\ 0 < new.hdr[i].small
               /\ End(new.hdr[i]) <= new.dbg
               /\ new.hdr[i].overflowed => new.hdr[i].large < new.len - 1
               /\ new.hdr[i].offset \in Nat /\ End(new.hdr[i]) \in Nat
               /\ new.hdr[i].small < hf.offset
               /\ End(file.hdr[i]) \in Nat
    <3>1. new.hdr[i].offset \in Nat /\ End(new.hdr[i]) \in Nat
      BY <1>4 DEF FunctionHeader, End
    <3>2. 0 < new.hdr[i].small /\ new.hdr[i].small < hf.offset
      BY <1>9, <1>11
    <3>3. End(file.hdr[i]) <= file.dbg /\ End(file.hdr[i]) \in Nat
      BY <1>9 DEF End
    <3>4. End(new.hdr[i]) <= hf.offset + n \/ End(new.hdr[i]) = End(file.hdr[i]) + delta
      BY <1>14
    <3>5. End(new.hdr[i]) <= new.dbg
      BY <1>3, <1>10, <3>1, <3>3, <3>4
    <3>6. new.hdr[i].overflowed =>
            /\ new.hdr[i].large = file.hdr[i].large + delta
            /\ file.hdr[i].large < file.len - 1 /\ file.hdr[i].large \in Nat
      BY <1>9, <1>11
    <3>7. new.hdr[i].overflowed => new.hdr[i].large < new.len - 1
      BY <1>3, <1>10, <3>6
    <3> QED
      BY <3>1, <3>2, <3>3, <3>5, <3>7
  <2>3. ASSUME NEW i \in Func, NEW j \in Func
        PROVE  /\ new.hdr[j].small < new.hdr[i].offset
               /\ new.hdr[i].small = new.hdr[j].small => i = j
               /\ new.hdr[j].overflowed =>
                    /\ End(new.hdr[i]) <= new.hdr[j].large
                    /\ new.hdr[i].overflowed /\ new.hdr[i].large = new.hdr[j].large
                         => i = j
    <3>1. /\ file.hdr[j].small < file.hdr[i].offset
          /\ file.hdr[i].small = file.hdr[j].small => i = j
          /\ file.hdr[j].overflowed =>
               /\ End(file.hdr[i]) <= file.hdr[j].large
               /\ file.hdr[i].overflowed /\ file.hdr[i].large = file.hdr[j].large
                    => i = j
      BY <1>1 DEF SectionsInOrder
    <3>2. new.hdr[j].small < new.hdr[i].offset
      <4>1. new.hdr[i].offset = file.hdr[i].offset \/ hf.offset + n <= new.hdr[i].offset
        BY <1>14
      <4>2. new.hdr[j].small = file.hdr[j].small /\ new.hdr[j].small < hf.offset
        BY <1>11, <2>2
      <4>3. file.hdr[j].small \in Nat /\ new.hdr[i].offset \in Nat
        BY <1>9, <2>2
      <4>4. CASE new.hdr[i].offset = file.hdr[i].offset
        BY <3>1, <4>2, <4>4
      <4>5. CASE hf.offset + n <= new.hdr[i].offset
        <5>1. hf.offset \in Nat /\ n \in Nat
          BY <1>3, <1>10
        <5>2. file.hdr[j].small < hf.offset
          BY <4>2
        <5>3. file.hdr[j].small < new.hdr[i].offset
          BY <4>3, <4>5, <5>1, <5>2, SmallStaysBefore
        <5> QED
          BY <4>2, <5>3
      <4> QED
        BY <4>1, <4>4, <4>5
    <3>3. new.hdr[i].small = new.hdr[j].small => i = j
      BY <1>11, <3>1
    <3>4. ASSUME new.hdr[j].overflowed
          PROVE  End(new.hdr[i]) <= new.hdr[j].large
      <4>1. /\ file.hdr[j].overflowed
            /\ new.hdr[j].large = file.hdr[j].large + delta
            /\ file.hdr[j].large \in Nat
            /\ hf.offset + hf.size <= file.hdr[j].large
        BY <1>9, <1>11, <3>4
      <4>2. End(new.hdr[i]) <= hf.offset + n \/ End(new.hdr[i]) = End(file.hdr[i]) + delta
        BY <1>14
      <4>3. /\ End(file.hdr[i]) <= file.hdr[j].large
            /\ End(file.hdr[i]) \in Nat /\ End(new.hdr[i]) \in Nat
        BY <2>2, <3>1, <4>1
      <4> DEFINE o     == hf.offset
                 size  == hf.size
                 old   == End(file.hdr[i])
                 end   == End(new.hdr[i])
                 limit == file.hdr[j].large
      <4>4. /\ o \in Nat /\ size \in Nat /\ n \in Nat /\ delta = n - size
            /\ old \in Nat /\ end \in Nat /\ limit \in Nat
            /\ old <= limit /\ o + size <= limit
            /\ end <= o + n \/ end = old + delta
        BY <1>3, <1>10, <4>1, <4>2, <4>3
      <4>5. new.hdr[j].large = limit + delta
        BY <4>1
      <4> HIDE DEF o, size, old, end, limit
      <4>6. end <= limit + delta
        BY <4>4
      <4> QED
        BY <4>5, <4>6 DEF end
    <3>5. ASSUME new.hdr[j].overflowed, new.hdr[i].overflowed,
                 new.hdr[i].large = new.hdr[j].large
          PROVE  i = j
      <4>1. /\ file.hdr[j].overflowed /\ file.hdr[i].overflowed
            /\ file.hdr[i].large + delta = file.hdr[j].large + delta
        BY <1>11, <3>5
      <4>2. file.hdr[i].large \in Nat /\ file.hdr[j].large \in Nat
        BY <1>9
      <4>3. delta \in Int
        BY <1>3, <1>10
      <4> DEFINE li == file.hdr[i].large
                 lj == file.hdr[j].large
      <4>4. li \in Nat /\ lj \in Nat /\ li + delta = lj + delta
        BY <4>1, <4>2
      <4> HIDE DEF li, lj
      <4>5. li = lj
        BY <4>3, <4>4
      <4> QED
        BY <3>1, <4>1, <4>5 DEF li, lj
    <3> QED
      BY <3>2, <3>3, <3>4, <3>5
  <2> QED
    BY <2>1, <2>2, <2>3 DEF SectionsInOrder
<1> QED
  BY <1>7, <1>8, <1>12

(***************************************************************************)
(* Replacing the code of a function whose body no other function overlaps  *)
(* keeps the file well formed, unless a header does not fit.               *)
(***************************************************************************)
LEMMA ReplaceKeepsLayout ==
  ASSUME NEW file, Layout(file), NEW f \in Func,
         NEW cells, Len(cells) \in Nat,
         \A i \in Func \ {f} : SeparateBody(file.hdr[f], file.hdr[i]),
         SpliceFits(file, f, cells)
  PROVE  LET new == ReplaceCode(file, f, cells)
         IN  /\ Layout(new)
             /\ ImageAgrees(file) \/ Len(cells) # file.hdr[f].size
                  => ImageAgrees(new)
             /\ new.hdr[f].size = Len(cells)
             /\ new.hdr[f].offset = file.hdr[f].offset
             /\ new.len = file.len + (Len(cells) - file.hdr[f].size)
             /\ SeparationKept(file, new)
<1> DEFINE n     == Len(cells)
           delta == n - file.hdr[f].size
           mid   == Spliced(file, f, cells)
           new   == ReplaceCode(file, f, cells)
<1>1. FileType(file) /\ SectionsInOrder(file) /\ file.flen = file.len
  BY DEF Layout
<1>2. InImage(file, f)
  BY SplicedHeaders
<1>3. FileType(mid)
  BY <1>1, <1>2, SplicedType
<1>4. /\ mid.len = file.len + delta /\ mid.dbg = file.dbg /\ mid.flen = file.flen
      /\ \A a \in 0 .. (mid.len - 1) :
           /\ a < file.hdr[f].offset => mid.raw[a] = file.raw[a]
           /\ file.hdr[f].offset + n <= a => mid.raw[a] = file.raw[a - delta]
  BY <1>1, <1>2, SplicedFields
<1>5. HeaderFits(mid, f) /\ (delta # 0 => AllFit(mid, Func))
  BY DEF SpliceFits, AllFit
<1>6. mid.hdr[f].size = n /\ mid.hdr[f].offset = file.hdr[f].offset
  BY SplicedHeaders
<1>7. /\ file.hdr[f].offset \in Nat /\ file.hdr[f].size \in Nat
      /\ file.len \in Nat /\ file.dbg \in Nat /\ n \in Nat
      /\ 0 < file.hdr[f].offset
  BY <1>1 DEF FileType, FunctionHeader, SectionsInOrder
<1>8. CASE delta = 0
  <2>1. new = WriteHeaders(mid, {f})
    BY <1>5, <1>8 DEF ReplaceCode
  <2> HIDE DEF mid, new, delta, n
  <2>2. mid.len = file.len /\ mid.dbg = file.dbg /\ mid.flen = file.flen
    BY <1>4, <1>7, <1>8
  <2>3. /\ new.hdr = mid.hdr /\ new.len = mid.len /\ new.dbg = mid.dbg
        /\ new.flen = mid.flen /\ FileType(new)
    BY <1>3, <2>1, WriteHeadersShape
  <2>4. RangesApart(mid) /\ SectionsInOrder(mid) /\ SeparationKept(file, mid)
    <3>1. mid.len = file.len + delta /\ mid.dbg = file.dbg + delta
      BY <1>7, <1>8, <2>2
    <3> QED
      BY <1>3, <3>1, SplicedLayout DEF mid, delta, n
  <2>5. ASSUME ImageAgrees(file)
        PROVE  ImageAgrees(new)
    <3>1. mid.raw[0] = FileHeaderCell(mid.dbg, mid.flen) /\ mid.flen = mid.len
      <4>1. 0 \in 0 .. (mid.len - 1)
        BY <1>1, <1>7, <2>2 DEF SectionsInOrder
      <4>2. file.raw[0] = FileHeaderCell(file.dbg, file.flen)
        BY <2>5 DEF ImageAgrees
      <4> QED
        BY <1>1, <1>4, <1>7, <2>2, <4>1, <4>2
    <3>2. ASSUME NEW i \in Func \ {f}
          PROVE  HeaderAgrees(mid, i)
      <4>1. SplicedHeader(mid.hdr[i], file.hdr[i], file.hdr[f], n)
        BY SplicedHeaders DEF mid, n
      <4> DEFINE h == file.hdr[i]
                 g == mid.hdr[i]
      <4>2. /\ h.offset \in Nat /\ h.size \in Nat /\ h.small \in Nat /\ h.large \in Nat
            /\ h.overflowed \in BOOLEAN
            /\ h.small < file.hdr[f].offset
            /\ h.offset + h.size <= file.dbg
            /\ file.dbg < file.len
            /\ h.overflowed => /\ file.hdr[f].offset + file.hdr[f].size <= h.large
                               /\ h.large < file.len - 1
            /\ file.hdr[f].offset + file.hdr[f].size <= file.dbg
        BY <1>1 DEF FileType, FunctionHeader, SectionsInOrder, End
      <4>3. /\ file.raw[h.small] = SmallCell(h)
            /\ h.overflowed => file.raw[h.large] = LargeCell(h)
        BY <2>5 DEF ImageAgrees
      <4>4. /\ g.offset = h.offset /\ g.size = h.size /\ g.small = h.small
            /\ g.overflowed = h.overflowed
            /\ h.overflowed => g.large = h.large
        <5>1. /\ g.size = h.size /\ g.small = h.small /\ g.overflowed = h.overflowed
              /\ h.offset < End(file.hdr[f]) => g.offset = h.offset
              /\ h.offset >= End(file.hdr[f]) => g.offset = h.offset + delta
              /\ h.overflowed => g.large = h.large + delta
          BY <4>1 DEF SplicedHeader, delta
        <5>2. End(file.hdr[f]) \in Nat
          BY <1>7 DEF End
        <5> HIDE DEF g, h
        <5> QED
          BY <1>8, <4>2, <5>1, <5>2
      <4> HIDE DEF g, h
      <4>5. mid.raw[h.small] = file.raw[h.small]
        <5>1. h.small \in 0 .. (mid.len - 1)
          <6>1. /\ h.small \in Nat /\ h.small < file.hdr[f].offset
                /\ file.hdr[f].offset + file.hdr[f].size <= file.dbg
                /\ file.dbg < file.len
            BY <4>2
          <6>2. h.small < file.len
            BY <1>7, <6>1
          <6> QED
            BY <1>7, <2>2, <6>1, <6>2
        <5> QED
          BY <1>4, <4>2, <5>1
      <4>6. h.overflowed => mid.raw[h.large] = file.raw[h.large]
        <5>1. ASSUME h.overflowed
              PROVE  /\ h.large \in 0 .. (mid.len - 1)
                     /\ file.hdr[f].offset + n <= h.large
                     /\ h.large - delta = h.large
          BY <1>7, <1>8, <2>2, <4>2, <5>1 DEF delta
        <5> QED
          BY <1>4, <5>1
      <4>7. SmallCell(g) = SmallCell(h) /\ LargeCell(g) = LargeCell(h)
        BY <4>4 DEF SmallCell, LargeCell
      <4>8. /\ mid.raw[g.small] = SmallCell(g)
            /\ g.overflowed => mid.raw[g.large] = LargeCell(g)
        BY <4>3, <4>4, <4>5, <4>6, <4>7
      <4> QED
        BY <4>8 DEF HeaderAgrees, g
    <3> QED
      BY <1>3, <2>1, <2>4, <3>1, <3>2, WriteHeadersAgree
  <2>8. RangesApart(new) /\ SectionsInOrder(new)
    BY <1>3, <2>1, <2>4, WriteHeadersShape
  <2>9. SeparationKept(file, new)
    BY <2>3, <2>4 DEF SeparationKept
  <2>10. /\ new.hdr[f].size = n /\ new.hdr[f].offset = file.hdr[f].offset
         /\ new.len = file.len + delta
    BY <1>4, <1>6, <2>3
  <2>11. Layout(new)
    BY <1>1, <2>2, <2>3, <2>8 DEF Layout
  <2>12. n = file.hdr[f].size
    BY <1>7, <1>8 DEF delta
  <2> QED
    BY <2>5, <2>9, <2>10, <2>11, <2>12 DEF new, n, delta
<1>9. CASE delta # 0
  <2> DEFINE written == WriteHeaders(mid, Func)
  <2>1. new = Relocated(written, delta)
    BY <1>5, <1>9 DEF ReplaceCode
  <2> HIDE DEF mid, delta, n
  <2>2. /\ written.hdr = mid.hdr /\ written.len = mid.len
        /\ written.dbg = mid.dbg /\ written.flen = mid.flen /\ FileType(written)
    BY <1>3, WriteHeadersShape
  <2> HIDE DEF new, written
  <2>3. /\ new.hdr = mid.hdr /\ new.len = mid.len
        /\ new.dbg = file.dbg + delta /\ new.flen = file.flen + delta
        /\ DOMAIN new = {"raw", "hdr", "len", "dbg", "flen"}
        /\ new.raw = [written.raw EXCEPT ![0] = FileHeaderCell(new.dbg, new.flen)]
    BY <1>4, <2>1, <2>2 DEF Relocated, WriteHeaderFields
  <2>4. file.hdr[f].size <= file.dbg /\ file.dbg < file.len
    <3>1. file.hdr[f].offset + file.hdr[f].size <= file.dbg
      BY <1>1 DEF SectionsInOrder, End
    <3> QED
      BY <1>1, <1>7, <3>1 DEF SectionsInOrder
  <2>5. new.dbg \in Nat /\ new.len \in Nat /\ new.flen = new.len
    BY <1>1, <1>4, <1>7, <2>3, <2>4 DEF delta
  <2>6. FileType(new)
    <3>1. DOMAIN new.raw = Address(new)
      BY <2>2, <2>3 DEF FileType, Address
    <3> QED
      BY <1>3, <2>3, <2>5, <3>1 DEF FileType
  <2>7. RangesApart(new) /\ SectionsInOrder(new) /\ SeparationKept(file, new)
    <3>1. new.len = file.len + delta
      BY <1>4, <2>3
    <3> QED
      BY <2>3, <2>6, <3>1, SplicedLayout DEF mid, delta, n
  <2>8. HeaderTable(new) /\ 0 \in Address(new)
    BY <2>6, <2>7, HeaderCells DEF FileType, SectionsInOrder, Address
  <2>9. HeaderTable(mid) /\ 0 \in Address(mid)
    BY <2>3, <2>8 DEF HeaderTable, Address
  <2>10. \A i \in Func : HeaderAgrees(written, i)
    BY <1>3, <2>9, WrittenHeaders DEF written
  <2>11. ASSUME NEW i \in Func PROVE HeaderAgrees(new, i)
    <3>1. /\ mid.hdr[i].small # 0
          /\ mid.hdr[i].overflowed => mid.hdr[i].large # 0
      BY <2>9 DEF HeaderTable
    <3>2. \A a : a # 0 => new.raw[a] = written.raw[a]
      BY <2>3
    <3>3. HeaderAgrees(written, i)
      BY <2>10
    <3> QED
      BY <2>2, <2>3, <3>1, <3>2, <3>3 DEF HeaderAgrees
  <2>12. new.raw[0] = FileHeaderCell(new.dbg, new.flen)
    <3>1. 0 \in DOMAIN written.raw
      BY <2>2, <2>3, <2>8 DEF FileType, Address
    <3> QED
      BY <2>3, <3>1
  <2>13. ImageAgrees(new)
    BY <2>5, <2>11, <2>12 DEF ImageAgrees, HeaderAgrees
  <2>14. /\ new.hdr[f].size = n /\ new.hdr[f].offset = file.hdr[f].offset
         /\ new.len = file.len + delta
    BY <1>4, <1>6, <2>3
  <2> QED
    BY <2>5, <2>6, <2>7, <2>13, <2>14 DEF Layout, new, n, delta
<1> QED
  BY <1>8, <1>9

-----------------------------------------------------------------------------
(* Bodies apart before an insertion at the end of the segment stay apart. *)
LEMMA MovedApart ==
  ASSUME NEW at \in Nat, NEW n \in Nat,
         NEW a \in FunctionHeader, NEW b \in FunctionHeader, NEW g, NEW h,
         Moved(g, a, at, n), Moved(h, b, at, n),
         End(a) <= at, End(b) <= at, SeparateBody(a, b)
  PROVE  SeparateBody(g, h)
<1>1. /\ a.offset \in Nat /\ a.size \in Nat
      /\ b.offset \in Nat /\ b.size \in Nat
  BY DEF FunctionHeader
<1>2. g.size = a.size /\ h.size = b.size
  BY DEF Moved
<1>3. \/ a.offset < at /\ g.offset = a.offset
      \/ a.size = 0 /\ a.offset = at /\ g.offset = at + n
  BY <1>1 DEF Moved
<1>4. \/ b.offset < at /\ h.offset = b.offset
      \/ b.size = 0 /\ b.offset = at /\ h.offset = at + n
  BY <1>1 DEF Moved
<1>5. \/ g.offset + g.size <= h.offset
      \/ h.offset + h.size <= g.offset
  BY <1>1, <1>2, <1>3, <1>4 DEF End, SeparateBody
<1> QED BY <1>5 DEF SeparateBody, End

(* A body after the insertion lies in front of the new cells or behind them. *)
LEMMA MovedBeside ==
  ASSUME NEW at \in Nat, NEW n \in Nat, NEW a \in FunctionHeader, NEW g,
         Moved(g, a, at, n), End(a) <= at
  PROVE  End(g) <= at \/ at + n <= g.offset
<1>1. a.offset \in Nat /\ a.size \in Nat
  BY DEF FunctionHeader
<1>2. g.size = a.size
  BY DEF Moved
<1>3. \/ a.offset < at /\ g.offset = a.offset
      \/ a.size = 0 /\ a.offset = at /\ g.offset = at + n
  BY <1>1 DEF Moved
<1>4. a.offset + a.size <= at
  BY DEF End
<1>5. g.offset + g.size <= at \/ at + n <= g.offset
  BY <1>1, <1>2, <1>3, <1>4
<1> QED BY <1>5 DEF End

(***************************************************************************)
(* What insertBytesAt at the end of the segment does to the headers.       *)
(***************************************************************************)
LEMMA InsertKeepsBodies ==
  ASSUME NEW file, Layout(file), NEW cells, Len(cells) \in Nat
  PROVE  LET new == InsertBytesAt(file, SegmentEnd(file), cells)
         IN  /\ FileType(new)
             /\ new.hdr = Inserted(file, SegmentEnd(file), cells).hdr
             /\ \A i \in Func : new.hdr[i].size = file.hdr[i].size
             /\ SeparationKept(file, new)
<1> DEFINE at  == SegmentEnd(file)
           mid == Inserted(file, at, cells)
           new == InsertBytesAt(file, at, cells)
<1>1. FileType(mid)
  BY InsertedLayout
<1>2. /\ FileType(file) /\ SectionsInOrder(file)
  BY DEF Layout
<1>3. /\ at \in Nat
      /\ \A i \in Func : End(file.hdr[i]) <= at
      /\ \A i \in Func : file.hdr[i] \in FunctionHeader
  BY <1>2, SegmentEndBounds DEF FileType
<1>4. \A i \in Func : Moved(mid.hdr[i], file.hdr[i], at, Len(cells))
  BY InsertedMoves
<1> HIDE DEF mid, at
<1>5. /\ FileType(new) /\ new.hdr = mid.hdr
  <2>1. new = WriteHeaders(mid, {i \in Func : \A j \in Func : j <= i => HeaderFits(mid, j)})
    BY DEF InsertBytesAt, WriteUntilError, mid
  <2> HIDE DEF new
  <2> QED
    BY <1>1, <2>1, WriteHeadersShape
<1>6. \A i \in Func : new.hdr[i].size = file.hdr[i].size
  BY <1>4, <1>5 DEF Moved
<1>7. SeparationKept(file, new)
  <2> SUFFICES ASSUME NEW i \in Func, NEW j \in Func,
                      SeparateBody(file.hdr[i], file.hdr[j])
               PROVE  SeparateBody(mid.hdr[i], mid.hdr[j])
    BY <1>5 DEF SeparationKept
  <2>1. Moved(mid.hdr[i], file.hdr[i], at, Len(cells)) /\ Moved(mid.hdr[j], file.hdr[j], at, Len(cells))
    BY <1>4
  <2>2. End(file.hdr[i]) <= at /\ End(file.hdr[j]) <= at
    BY <1>3
  <2>3. file.hdr[i] \in FunctionHeader /\ file.hdr[j] \in FunctionHeader
    BY <1>3
  <2> QED
    BY <1>3, <2>1, <2>2, <2>3, MovedApart
<1> QED
  BY <1>5, <1>6, <1>7 DEF new, mid, at

(***************************************************************************)
(* Giving function i a copy of its own: the cells of the copy are inserted *)
(* at the end of the segment and the header of i is pointed at them.       *)
(***************************************************************************)
LEMMA PointedShape ==
  ASSUME NEW file, FileType(file), NEW i \in Func, NEW at \in Nat
  PROVE  LET new == PointAt(file, i, at)
         IN  /\ FileType(new)
             /\ new.raw = file.raw /\ new.len = file.len
             /\ new.dbg = file.dbg /\ new.flen = file.flen
             /\ \A j \in Func \ {i} : new.hdr[j] = file.hdr[j]
             /\ new.hdr[i].offset = at
             /\ new.hdr[i].size = file.hdr[i].size
             /\ new.hdr[i].overflowed = file.hdr[i].overflowed
             /\ new.hdr[i].large = file.hdr[i].large
             /\ new.hdr[i].small = file.hdr[i].small
<1> DEFINE new == PointAt(file, i, at)
<1>1. /\ new.raw = file.raw /\ new.len = file.len
      /\ new.dbg = file.dbg /\ new.flen = file.flen
      /\ new.hdr = [file.hdr EXCEPT ![i].offset = at]
      /\ DOMAIN new = {"raw", "hdr", "len", "dbg", "flen"}
  BY DEF PointAt
<1> HIDE DEF new
<1>2. file.hdr \in [Func -> FunctionHeader]
  BY DEF FileType
<1>3. new.hdr \in [Func -> FunctionHeader]
  BY <1>1, <1>2 DEF FunctionHeader
<1>4. /\ \A j \in Func \ {i} : new.hdr[j] = file.hdr[j]
      /\ new.hdr[i].offset = at
      /\ new.hdr[i].size = file.hdr[i].size
      /\ new.hdr[i].overflowed = file.hdr[i].overflowed
      /\ new.hdr[i].large = file.hdr[i].large
      /\ new.hdr[i].small = file.hdr[i].small
  BY <1>1, <1>2 DEF FunctionHeader
<1>5. FileType(new)
  BY <1>1, <1>3 DEF FileType, Address
<1> QED
  BY <1>1, <1>4, <1>5 DEF new

(***************************************************************************)
(* One round of deduplicateAliasedFunctions keeps the layout: the copy is  *)
(* apart from every other body, and the bodies that were apart stay so.    *)
(***************************************************************************)
LEMMA CopyKeepsLayout ==
  ASSUME NEW file, Layout(file), NEW i \in Func,
         NEW cells, Len(cells) = file.hdr[i].size,
         AllFit(Inserted(file, SegmentEnd(file), cells), Func)
  PROVE  LET at  == SegmentEnd(file)
             new == WriteHeaders(PointAt(InsertBytesAt(file, at, cells), i, at), {i})
         IN  /\ WellFormed(new)
             /\ SeparationKept(file, new)
             /\ \A j \in Func \ {i} : SeparateBody(new.hdr[j], new.hdr[i])
             /\ \A j \in Func : new.hdr[j].size = file.hdr[j].size
<1> DEFINE at  == SegmentEnd(file)
           n   == Len(cells)
           ins == InsertBytesAt(file, at, cells)
           pnt == PointAt(ins, i, at)
           new == WriteHeaders(pnt, {i})
<1>1. /\ FileType(file) /\ SectionsInOrder(file)
      /\ file.hdr \in [Func -> FunctionHeader] /\ file.dbg \in Nat
  BY DEF Layout, FileType
<1>2. /\ file.hdr[i].size \in Nat /\ n \in Nat /\ n = file.hdr[i].size
  BY <1>1 DEF FunctionHeader
<1>3. /\ at \in Nat /\ at <= file.dbg
      /\ \A j \in Func : End(file.hdr[j]) <= at
      /\ \A j \in Func : file.hdr[j].overflowed => at <= file.hdr[j].large
  BY <1>1, SegmentEndBounds
<1>4. \A j \in Func : file.hdr[j].small < at /\ file.hdr[j].small \in Nat
  BY <1>1, SegmentEndInside DEF FunctionHeader
<1>5. WellFormed(ins)
  BY <1>2, InsertKeepsLayout
<1>6. /\ ins.hdr = Inserted(file, at, cells).hdr
      /\ SeparationKept(file, ins)
      /\ \A j \in Func : ins.hdr[j].size = file.hdr[j].size
  BY <1>2, InsertKeepsBodies
<1>7. \A j \in Func : Moved(Inserted(file, at, cells).hdr[j], file.hdr[j], at, n)
  BY <1>2, InsertedMoves
<1>8. /\ FileType(ins) /\ RangesApart(ins) /\ SectionsInOrder(ins) /\ ImageAgrees(ins)
  BY <1>5 DEF WellFormed
<1>9. ins.dbg = file.dbg + n
  <2>1. Inserted(file, at, cells).dbg = file.dbg + n
    BY <1>2, InsertedMoves
  <2>2. ins.dbg = Inserted(file, at, cells).dbg
    BY DEF InsertBytesAt, WriteUntilError, WriteHeaders, WithRaw
  <2> QED BY <2>1, <2>2
<1> HIDE DEF at, ins, n
<1>10. \A j \in Func : Moved(ins.hdr[j], file.hdr[j], at, n)
  BY <1>6, <1>7
<1>11. /\ FileType(pnt)
       /\ pnt.raw = ins.raw /\ pnt.len = ins.len
       /\ pnt.dbg = ins.dbg /\ pnt.flen = ins.flen
       /\ pnt.hdr[i].offset = at
       /\ pnt.hdr[i].size = ins.hdr[i].size
       /\ pnt.hdr[i].overflowed = ins.hdr[i].overflowed
       /\ pnt.hdr[i].large = ins.hdr[i].large
       /\ pnt.hdr[i].small = ins.hdr[i].small
  BY <1>3, <1>8, PointedShape
<1>12. \A j \in Func \ {i} : pnt.hdr[j] = ins.hdr[j]
  BY <1>3, <1>8, PointedShape
<1> HIDE DEF pnt
<1>13. pnt.hdr[i].size = n /\ End(pnt.hdr[i]) = at + n
  BY <1>2, <1>6, <1>11 DEF End
<1>14. ASSUME NEW j \in Func \ {i}
       PROVE  End(ins.hdr[j]) <= at \/ at + n <= ins.hdr[j].offset
  <2>1. Moved(ins.hdr[j], file.hdr[j], at, n) /\ End(file.hdr[j]) <= at
    BY <1>3, <1>10
  <2>2. file.hdr[j] \in FunctionHeader
    BY <1>1
  <2> QED
    BY <1>2, <1>3, <2>1, <2>2, MovedBeside
<1>15. ASSUME NEW j \in Func \ {i}
       PROVE  /\ SeparateBody(pnt.hdr[j], pnt.hdr[i])
              /\ SeparateBody(pnt.hdr[i], pnt.hdr[j])
  <2>1. End(pnt.hdr[j]) <= pnt.hdr[i].offset \/ End(pnt.hdr[i]) <= pnt.hdr[j].offset
    BY <1>11, <1>12, <1>13, <1>14
  <2> QED
    BY <2>1 DEF SeparateBody
<1>16. RangesApart(pnt)
  <2> SUFFICES ASSUME NEW j \in Func, NEW k \in Func
               PROVE  \/ SameBody(pnt.hdr[j], pnt.hdr[k])
                      \/ SeparateBody(pnt.hdr[j], pnt.hdr[k])
    BY DEF RangesApart
  <2>1. CASE j = i /\ k = i
    BY <2>1 DEF SameBody
  <2>2. CASE j = i /\ k # i
    BY <1>15, <2>2
  <2>3. CASE j # i /\ k = i
    BY <1>15, <2>3
  <2>4. CASE j # i /\ k # i
    <3>1. SameBody(ins.hdr[j], ins.hdr[k]) \/ SeparateBody(ins.hdr[j], ins.hdr[k])
      BY <1>8 DEF RangesApart
    <3> QED
      BY <1>12, <2>4, <3>1
  <2> QED
    BY <2>1, <2>2, <2>3, <2>4
<1>17. SeparationKept(file, pnt)
  <2> SUFFICES ASSUME NEW j \in Func, NEW k \in Func, j # k,
                      SeparateBody(file.hdr[j], file.hdr[k])
               PROVE  SeparateBody(pnt.hdr[j], pnt.hdr[k])
    BY DEF SeparationKept
  <2>1. CASE j = i \/ k = i
    BY <1>15, <2>1
  <2>2. CASE j # i /\ k # i
    <3>1. SeparateBody(ins.hdr[j], ins.hdr[k])
      BY <1>6 DEF SeparationKept
    <3> QED
      BY <1>12, <2>2, <3>1
  <2> QED
    BY <2>1, <2>2
<1>18. ASSUME NEW j \in Func
       PROVE  /\ pnt.hdr[j].small = ins.hdr[j].small
              /\ pnt.hdr[j].small = file.hdr[j].small
              /\ pnt.hdr[j].overflowed = ins.hdr[j].overflowed
              /\ pnt.hdr[j].large = ins.hdr[j].large
              /\ ins.hdr[j].overflowed => /\ at + n <= ins.hdr[j].large
                                         /\ ins.hdr[j].large \in Nat
              /\ pnt.hdr[j].size = file.hdr[j].size
  <2>1. Moved(ins.hdr[j], file.hdr[j], at, n)
    BY <1>10
  <2>2. /\ pnt.hdr[j].small = ins.hdr[j].small
        /\ pnt.hdr[j].overflowed = ins.hdr[j].overflowed
        /\ pnt.hdr[j].large = ins.hdr[j].large
        /\ pnt.hdr[j].size = ins.hdr[j].size
    BY <1>11, <1>12
  <2>3. file.hdr[j].overflowed => at <= file.hdr[j].large
    BY <1>3
  <2>4. file.hdr[j].large \in Nat /\ ins.hdr[j].large \in Nat
    BY <1>1, <1>8 DEF FileType, FunctionHeader
  <2>5. ins.hdr[j].overflowed => at + n <= ins.hdr[j].large
    BY <1>2, <1>3, <2>1, <2>3, <2>4 DEF Moved
  <2>6. ins.hdr[j].small = file.hdr[j].small /\ ins.hdr[j].size = file.hdr[j].size
    BY <2>1 DEF Moved
  <2> QED
    BY <2>2, <2>4, <2>5, <2>6
<1>19. SectionsInOrder(pnt)
  <2>1. ASSUME NEW j \in Func
        PROVE  /\ 0 < pnt.hdr[j].small
               /\ End(pnt.hdr[j]) <= pnt.dbg
               /\ pnt.hdr[j].overflowed => pnt.hdr[j].large < pnt.len - 1
    <3>1. /\ 0 < ins.hdr[j].small
          /\ End(ins.hdr[j]) <= ins.dbg
          /\ ins.hdr[j].overflowed => ins.hdr[j].large < ins.len - 1
      BY <1>8 DEF SectionsInOrder
    <3>2. End(pnt.hdr[j]) <= pnt.dbg
      <4>1. CASE j = i
        BY <1>1, <1>2, <1>3, <1>9, <1>11, <1>13, <4>1
      <4>2. CASE j # i
        BY <1>11, <1>12, <3>1, <4>2
      <4> QED
        BY <4>1, <4>2
    <3> QED
      BY <1>11, <1>18, <3>1, <3>2
  <2>2. ASSUME NEW j \in Func, NEW k \in Func
        PROVE  /\ pnt.hdr[k].small < pnt.hdr[j].offset
               /\ pnt.hdr[j].small = pnt.hdr[k].small => j = k
               /\ pnt.hdr[k].overflowed =>
                    /\ End(pnt.hdr[j]) <= pnt.hdr[k].large
                    /\ pnt.hdr[j].overflowed /\ pnt.hdr[j].large = pnt.hdr[k].large
                         => j = k
    <3>1. /\ ins.hdr[k].small < ins.hdr[j].offset
          /\ ins.hdr[j].small = ins.hdr[k].small => j = k
          /\ ins.hdr[k].overflowed =>
               /\ End(ins.hdr[j]) <= ins.hdr[k].large
               /\ ins.hdr[j].overflowed /\ ins.hdr[j].large = ins.hdr[k].large
                    => j = k
      BY <1>8 DEF SectionsInOrder
    <3>2. pnt.hdr[k].small < pnt.hdr[j].offset
      <4>1. CASE j = i
        BY <1>4, <1>11, <1>18, <4>1
      <4>2. CASE j # i
        BY <1>12, <1>18, <3>1, <4>2
      <4> QED
        BY <4>1, <4>2
    <3>3. pnt.hdr[k].overflowed => End(pnt.hdr[j]) <= pnt.hdr[k].large
      <4>1. CASE j = i
        BY <1>13, <1>18, <4>1
      <4>2. CASE j # i
        BY <1>12, <1>18, <3>1, <4>2
      <4> QED
        BY <4>1, <4>2
    <3> QED
      BY <1>18, <3>1, <3>2, <3>3
  <2>3. pnt.dbg < pnt.len
    BY <1>8, <1>11 DEF SectionsInOrder
  <2> QED
    BY <2>1, <2>2, <2>3 DEF SectionsInOrder
<1>20. pnt.raw[0] = FileHeaderCell(pnt.dbg, pnt.flen) /\ pnt.flen = pnt.len
  BY <1>8, <1>11 DEF ImageAgrees
<1>21. ASSUME NEW j \in Func \ {i}
       PROVE  HeaderAgrees(pnt, j)
  <2>1. HeaderAgrees(ins, j)
    BY <1>8 DEF ImageAgrees, HeaderAgrees
  <2> QED
    BY <1>11, <1>12, <2>1 DEF HeaderAgrees
<1>22. ImageAgrees(new)
  BY <1>11, <1>19, <1>20, <1>21, WriteHeadersAgree
<1>23. /\ FileType(new) /\ RangesApart(new) /\ SectionsInOrder(new)
       /\ new.hdr = pnt.hdr
  BY <1>11, <1>16, <1>19, WriteHeadersShape
<1> HIDE DEF new
<1>24. SeparationKept(file, new)
  BY <1>17, <1>23 DEF SeparationKept
<1>25. \A j \in Func \ {i} : SeparateBody(new.hdr[j], new.hdr[i])
  BY <1>15, <1>23
<1>26. \A j \in Func : new.hdr[j].size = file.hdr[j].size
  BY <1>18, <1>23
<1> QED
  BY <1>22, <1>23, <1>24, <1>25, <1>26 DEF WellFormed, new, pnt, ins, at

(***************************************************************************)
(* Overwriting the operand of an instruction inside a body touches no      *)
(* header.                                                                 *)
(***************************************************************************)
LEMMA SetArg2KeepsLayout ==
  ASSUME NEW file, WellFormed(file), NEW f \in Func,
         NEW k \in 0 .. (file.hdr[f].size - 1), NEW arg2
  PROVE  LET new == SetArg2(file, file.hdr[f].offset + k, arg2)
         IN  WellFormed(new) /\ new.hdr = file.hdr
<1> DEFINE inst == file.hdr[f].offset + k
           new  == SetArg2(file, inst, arg2)
<1>1. /\ FileType(file) /\ RangesApart(file) /\ SectionsInOrder(file) /\ ImageAgrees(file)
  BY DEF WellFormed
<1>2. /\ new.hdr = file.hdr /\ new.len = file.len /\ new.dbg = file.dbg
      /\ new.flen = file.flen
      /\ DOMAIN new = {"raw", "hdr", "len", "dbg", "flen"}
      /\ new.raw = [file.raw EXCEPT ![inst] =
                      [unit |-> UnitOf(file.raw[inst]), arg2 |-> arg2]]
  BY DEF SetArg2, WithRaw
<1> HIDE DEF new
<1>3. /\ file.hdr[f].offset \in Nat /\ file.hdr[f].size \in Nat
      /\ k \in Nat /\ k < file.hdr[f].size
  BY <1>1 DEF FileType, FunctionHeader
<1>4. ASSUME NEW i \in Func
      PROVE  /\ file.hdr[i].small # inst
             /\ file.hdr[i].overflowed => file.hdr[i].large # inst
             /\ inst # 0
  <2>1. /\ file.hdr[i].small \in Nat /\ 0 < file.hdr[i].small
        /\ file.hdr[i].small < file.hdr[f].offset
        /\ file.hdr[i].large \in Nat
        /\ file.hdr[i].overflowed
             => file.hdr[f].offset + file.hdr[f].size <= file.hdr[i].large
    BY <1>1 DEF FileType, FunctionHeader, SectionsInOrder, End
  <2> QED
    BY <1>3, <2>1
<1> HIDE DEF inst
<1>5. FileType(new)
  <2>1. DOMAIN new.raw = Address(new)
    BY <1>1, <1>2 DEF FileType, Address
  <2> QED
    BY <1>1, <1>2, <2>1 DEF FileType
<1>6. \A a : a # inst => new.raw[a] = file.raw[a]
  BY <1>2
<1>7. ImageAgrees(new)
  BY <1>1, <1>2, <1>4, <1>6 DEF ImageAgrees
<1>8. RangesApart(new)
  BY <1>1, <1>2 DEF RangesApart
<1>9. SectionsInOrder(new)
  BY <1>1, <1>2 DEF SectionsInOrder
<1> QED
  BY <1>2, <1>5, <1>7, <1>8, <1>9 DEF WellFormed, new, inst
=============================================================================
