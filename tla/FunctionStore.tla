--------------------------- MODULE FunctionStore ---------------------------
(***************************************************************************)
(* What patching a Hermes file promises to whoever asked for it: the file  *)
(* is a store of function bodies, a request names new bodies for some of   *)
(* them, the bodies are replaced one function at a time, and no function   *)
(* that was not named ever changes.  A request may be abandoned after any  *)
(* number of replacements; what it already replaced stays.                 *)
(*                                                                         *)
(* The abstraction has no offsets, no sharing of bodies and no headers:    *)
(* HermesPatch is shown to implement it.                                   *)
(***************************************************************************)
EXTENDS Integers, Sequences

CONSTANTS
  Func,  \* the functions of the file
  Unit   \* the instructions of a body

VARIABLES
  code,    \* the body of every function
  wanted   \* the bodies still to be replaced

vars == <<code, wanted>>

NoRequest == <<>>

Init ==
  /\ code \in [Func -> Seq(Unit)]
  /\ wanted = NoRequest

(* A request for new bodies of the functions in S. *)
Request(S) ==
  /\ wanted = NoRequest
  /\ S # {}
  /\ wanted' \in [S -> Seq(Unit)]
  /\ UNCHANGED code

Apply(f) ==
  /\ f \in DOMAIN wanted
  /\ code' = [code EXCEPT ![f] = wanted[f]]
  /\ wanted' = [g \in DOMAIN wanted \ {f} |-> wanted[g]]

(* An error return, before or after the body at hand was replaced. *)
Abandon ==
  /\ wanted' = NoRequest
  /\ \/ UNCHANGED code
     \/ \E f \in DOMAIN wanted : code' = [code EXCEPT ![f] = wanted[f]]

Next ==
  \/ \E S \in SUBSET Func : Request(S)
  \/ \E f \in Func : Apply(f)
  \/ Abandon

Spec == Init /\ [][Next]_vars
=============================================================================
