------------------------- MODULE MCUpdateRegister -------------------------
EXTENDS UpdateRegister, TLC

(* Registers and values are interchangeable in the safety run.             *)
Symmetry == Permutations(Registers) \cup Permutations(Keys \ {NoXOR})

=============================================================================
