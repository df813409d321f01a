------------------------ MODULE MCFunctionAssembler ------------------------
(***************************************************************************)
(* Small functions for FunctionAssembler and Decompiler: every one of      *)
(* three lines out of three ops, and a few longer ones: promoting a jump   *)
(* puts another out of reach, or both kinds of jumps make loops.           *)
(***************************************************************************)
EXTENDS Decompiler

MCLongOf == [o \in {"j", "k"} |-> IF o = "j" THEN "J" ELSE "K"]
MCSize   == [o \in Op |-> IF o \in {"J", "K"} THEN 3 ELSE IF o = "b" THEN 2 ELSE 1]

Line(o, addr) == [op |-> o, addr |-> addr]

(* A function from its ops and, for every line, the lines it addresses. *)
Function(ops, to) ==
  [i \in DOMAIN ops |->
     Line(ops[i],
          IF ops[i] \in Addressing
          THEN <<Offsets(ops)[to[i]] - (IF ops[i] \in Switch THEN 0 ELSE Offsets(ops)[i])>>
          ELSE <<>>)]

Short == {f \in {Function(ops, to) : ops \in [1 .. 3 -> {"a", "j", "s"}],
                                     to \in [1 .. 3 -> 1 .. 3]} :
            \A i \in 1 .. 3 : f[i].op \in ShortJump => InReach(f[i].addr[1])}

(* Jumps that just reach over one another, and a pair of the same op. *)
Longer == { Function(<<"j", "j", "a", "b">>, <<3, 4, 1, 1>>),
            Function(<<"k", "a", "j", "b", "a">>, <<4, 1, 5, 1, 1>>),
            Function(<<"a", "k", "b", "j", "s">>, <<1, 4, 1, 1, 2>>),
            Function(<<"j", "n", "b", "a">>, <<3, 4, 1, 1>>),
            Function(<<"j", "k", "n", "a">>, <<4, 1, 2, 1>>),
            Function(<<"c", "b", "c", "j", "a">>, <<1, 1, 1, 3, 1>>) }

MCPrograms     == Short \cup Longer
MCNewLines     == {Line("b", <<>>), Line("j", <<1>>)}
MCNewAddresses == {-1, 2}
MCMinRel       == -3
=============================================================================
