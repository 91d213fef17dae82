-------------------------------- MODULE Sums --------------------------------
(***************************************************************************)
(* The sum of the values of an integer function with a finite domain.      *)
(***************************************************************************)
EXTENDS Integers, Functions

SumOf(g) == FoldFunction(+, 0, g)
=============================================================================
