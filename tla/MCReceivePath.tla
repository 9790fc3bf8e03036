---------------------------- MODULE MCReceivePath ----------------------------
EXTENDS ReceivePath

(* Registers, and the bytes of values, are interchangeable.                *)
Symmetry == Permutations(Registers) \cup Permutations(Bytes)

=============================================================================
