-------------------------- MODULE MCOperatorDelete --------------------------
(* The model-checking module of OperatorDelete.  A unit of an operation    *)
(* produces a unit into the buffer, two (Twofold), or a half (Half).       *)
EXTENDS OperatorDelete

Quantities == {-2, 0, 2, 4}

Single  == [lot |-> 2, made |-> 2, min |-> 0, max |-> 2]
Twofold == [lot |-> 1, made |-> 2, min |-> 0, max |-> 2]
Half    == [lot |-> 2, made |-> 1, min |-> 2, max |-> 4]

FewOperations == {(2 :> Single) @@ (5 :> Twofold), (2 :> Half) @@ (5 :> Single)}
=============================================================================
