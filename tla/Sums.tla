-------------------------------- MODULE Sums --------------------------------
(* The sum of the numbers in a sequence, as the loops of the code add it up. *)
EXTENDS Integers, SequencesExt

Total(q) == FoldLeft(LAMBDA sum, x : sum + x, 0, q)
=============================================================================
