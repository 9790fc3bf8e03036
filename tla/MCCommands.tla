------------------------------ MODULE MCCommands ------------------------------
EXTENDS Commands

(* Bytes at both ends, the first number beyond them, and one that is a     *)
(* byte again in 16 bits.                                                  *)
MCNumbers == {0, 255, 256, 65537}

(* For the operations alone.                                               *)
NoNumbers == {}

=============================================================================
