-------------------------------- MODULE Sums --------------------------------
(* Sums of a function over a finite set.                                   *)
EXTENDS FiniteSetsExt

SumOn(f, S) == FoldFunctionOnSet(+, 0, f, S)
=============================================================================
