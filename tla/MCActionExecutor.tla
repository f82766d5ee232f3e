-------------------------- MODULE MCActionExecutor --------------------------
(***************************************************************************)
(* A small instance of ActionExecutor: two actions, a target with an       *)
(* adapter and one without, an ordinary user and an administrator.         *)
(***************************************************************************)
EXTENDS ActionExecutor, TLC

MCPayload(s, t) == [size |-> s, timeout |-> t]

MCPayloads == {MCPayload("small", TRUE), MCPayload("large", FALSE), MCPayload("junk", FALSE)}

MCSymmetry == Permutations(Actions)
=============================================================================
