------------------------------ MODULE MCBookSearch ------------------------------
(* Instances of BookSearch for TLC. *)
EXTENDS BookSearch, TLC

CONSTANTS p1, p2

\* A source has nothing, an ebook, or something else.
SmallAnswers == {{}, {"ebook"}, {"other"}}

ProcSymmetry == Permutations(Proc)
================================================================================
