------------------------------- MODULE Products -------------------------------
(* Products over the domain of a function and powers: the probability of a   *)
(* path, the number of bit patterns, the number of mappings.                *)
EXTENDS Integers, Functions

ProductOf(f) == FoldFunction(LAMBDA x, y : x * y, 1, f)
Power(x, n) == ProductOf([k \in 1..n |-> x])
=============================================================================
