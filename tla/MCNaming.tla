-------------------------------- MODULE MCNaming --------------------------------
(* Instances of Naming for TLC. *)
EXTENDS Naming, TLC

CONSTANTS p1, p2

TwoBooks == <<[name |-> "ann", title |-> "t"], [name |-> "bob", title |-> "t"]>>
AuthorTitle == [folder |-> "$Author", file |-> "$Author - $Title"]

ProcSymmetry == Permutations(Proc)
=================================================================================
