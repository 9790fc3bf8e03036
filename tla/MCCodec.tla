------------------------------- MODULE MCCodec -------------------------------
EXTENDS Codec, Bitwise

(* Bit by bit, the table is the exclusive or of the language.              *)
ASSUME XORAssumption == \A a, b \in Byte : XOR(a, b) = a ^^ b

(* An update and a start response; data that completes the                 *)
(* checksum of a start response with the first byte of an update.          *)
MCCommands == {\h6f, \h2f}
MCValues == {<<0>>, <<3>>, <<7, 7>>}
(* Not encoded; a key that only touches the type bit; one that turns an    *)
(* update into a start response; one that turns nothing into a command.    *)
MCKeys == {0, 1, \h40, \h25}

=============================================================================
