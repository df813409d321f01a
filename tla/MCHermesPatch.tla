--------------------------- MODULE MCHermesPatch ---------------------------
(***************************************************************************)
(* Small files for model checking HermesPatch.  A file is built the way    *)
(* the compiler lays one out: file header, small headers, bodies (each     *)
(* followed by its aligned jump tables), large headers (each followed by   *)
(* its aligned handler information), footer.                               *)
(***************************************************************************)
EXTENDS HermesPatch, SequencesExt

(* A section grows one cell at a time; addresses are lengths so far. *)
PadTo(cells) == cells \o [n \in 1 .. Padding(Len(cells)) |-> PadCell]

PutBody(cells, body) ==
  LET at     == Len(cells)
      sw     == SetToSortSeq(Switches(body.code), <)
      padded == PadTo([n \in 1 .. at + Len(body.code) |-> PadCell])
      first  == Len(padded)
      code   == [k \in 1 .. Len(body.code) |->
                   IF (k - 1) \in Switches(body.code)
                   THEN [unit |-> body.code[k],
                         arg2 |-> first + (CHOOSE n \in 1 .. Len(sw) : sw[n] = k - 1) - 1
                                    - (at + k - 1)]
                   ELSE CodeCell(body.code[k])]
  IN  IF sw = <<>> THEN cells \o code
      ELSE PadTo(cells \o code)
             \o [n \in 1 .. Len(sw) |-> TableCell(body.table, sw[n])]

PutLarge(cells, i) == Append(PadTo(Append(cells, [large |-> i])), InfoCell(i))

Blank(n) == [k \in 1 .. n |-> PadCell]

(***************************************************************************)
(* bodies: a sequence of [owners, code, table] in physical order;          *)
(* over: the functions with a large header.                                *)
(***************************************************************************)
MakeFile(bodies, over) ==
  LET starts == [n \in 1 .. Len(bodies) |->
                   Len(FoldLeft(PutBody, Blank(1 + FunctionCount),
                                SubSeq(bodies, 1, n - 1)))]
      coded  == FoldLeft(PutBody, Blank(1 + FunctionCount), bodies)
      large  == FoldLeft(PutLarge, coded, SetToSortSeq(over, <))
      cells  == Append(large, FooterCell)
      owner(i) == CHOOSE n \in 1 .. Len(bodies) : i \in bodies[n].owners
      hdr    == [i \in Func |->
                  [offset     |-> starts[owner(i)],
                   size       |-> Len(bodies[owner(i)].code),
                   overflowed |-> i \in over,
                   large      |-> IF i \in over
                                  THEN (CHOOSE k \in 1 .. Len(large) :
                                          large[k] = [large |-> i]) - 1
                                  ELSE 0,
                   small      |-> 1 + i]]
      blank  == [hdr  |-> hdr,
                 len  |-> Len(cells),
                 flen |-> Len(cells),
                 dbg  |-> Len(large),
                 raw  |-> [a \in 0 .. (Len(cells) - 1) |-> cells[a + 1]]]
  IN  WriteHeaders([blank EXCEPT !.raw = [blank.raw EXCEPT
                      ![0] = FileHeaderCell(blank.dbg, blank.flen)]], Func)

Body(owners, code, t) == [owners |-> owners, code |-> code, table |-> t]
Plain(owners, code)   == Body(owners, code, NoTable)

(* A shared body in front; physical order against index order; everybody
   sharing one body, two of them through large headers; the last body empty. *)
PlainFiles ==
  { MakeFile(<<Plain({0, 1}, <<"a", "b">>), Plain({2}, <<"b">>)>>, {2}),
    MakeFile(<<Plain({2}, <<"a">>), Plain({1}, <<"b", "a">>), Plain({0}, <<"a">>)>>, {1}),
    MakeFile(<<Plain({0, 1, 2}, <<"a">>)>>, {0, 2}),
    MakeFile(<<Plain({1}, <<"b">>), Plain({0, 2}, <<>>)>>, {}) }

(* The same with jump tables behind the bodies that switch. *)
SwitchFiles ==
  { MakeFile(<<Body({0}, <<"s", "a">>, "t"), Plain({1, 2}, <<"b">>)>>, {1}),
    MakeFile(<<Plain({2}, <<"a">>), Body({0, 1}, <<"b", "s">>, "t")>>, {}) }

AllFiles == PlainFiles \cup SwitchFiles

PlainEdit(code) == [code |-> code, table |-> NoTable]

(* Shrinking, growing by an odd and an even amount, and emptying a body. *)
PlainEdits  == {PlainEdit(<<>>), PlainEdit(<<"a">>), PlainEdit(<<"b", "b", "a">>),
                PlainEdit(<<"a", "b", "a", "b">>)}
SwitchEdits == {[code |-> <<"s", "b", "s">>, table |-> "u"]}
AllEdits    == PlainEdits \cup SwitchEdits
=============================================================================
