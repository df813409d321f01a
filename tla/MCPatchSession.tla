--------------------------- MODULE MCPatchSession ---------------------------
(***************************************************************************)
(* Small sessions over files whose bodies jump: a and j take one cell, b   *)
(* and J, the long form of j, take an operand with them, and 0 is no       *)
(* opcode.                                                                 *)
(***************************************************************************)
EXTENDS PatchSession, MCHermesPatch

OpcodeWidth == [u \in {"a", "b", "j", "J"} |-> IF u \in {"b", "J"} THEN 2 ELSE 1]

(* A shared body that shrinks and grows in front of one that grows; bodies
   in the opposite order, two of them empty. *)
SessionFiles ==
  { MakeFile(<<Plain({0, 1}, <<"b", "0", "j">>), Plain({2}, <<"a">>)>>, {2}),
    MakeFile(<<Plain({2}, <<"j">>), Plain({0, 1}, <<>>)>>, {0}) }

SessionEdits ==
  {PlainEdit(code) : code \in UNION {[1 .. n -> Unit] : n \in 0 .. 4}}

SessionReplacements == {<<"a">>, <<"b", "0">>}
LongForm            == [j \in {"j"} |-> <<"J", "0">>]

(* A cell that is no opcode, in front of an opcode without its operand. *)
SessionWritten == {<<CodeCell("0"), CodeCell("b")>>}
=============================================================================
