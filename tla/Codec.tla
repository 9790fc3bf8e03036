-------------------------------- MODULE Codec --------------------------------
(***************************************************************************)
(* The message codec of phev_core as the output chain uses it, over bytes. *)
(* A message from the car is                                               *)
(*                                                                         *)
(*    command, length, type, register, data, checksum                      *)
(*                                                                         *)
(* and every byte of it is XORed with a key that is not sent along: the    *)
(* library guesses it from the type byte, which is 0 or 1.  The car writes *)
(* a few messages, one read returns a beginning of what it wrote, and the  *)
(* splitter cuts it up.  Each message it cuts off is then decoded again by *)
(* every later stage of the chain.                                         *)
(***************************************************************************)
EXTENDS Integers, FiniteSets, SequencesExt

CONSTANTS
    CarCommands,     \* commands the car sends
    Registers,       \* registers it names
    Values,          \* data it sends, sequences of bytes
    Keys,            \* keys it encodes with
    MaxMessages,     \* bound: messages the car writes at once
    MaxRead          \* bound: bytes in one read

Byte == 0 .. 255

(* phev_core_checkIncomingCommand.                                         *)
IncomingCommands == {\h3f, \h6f, \h4e, \h5e, \hbb, \hcc, \h2f, \h2e}

REQUEST_TYPE == 0
RESPONSE_TYPE == 1

(* The length byte counts the data and three more; a length is kept in a   *)
(* uint8_t, which holds that of every message in a read this long.         *)
ASSUME CodecAssumption ==
    /\ CarCommands \subseteq IncomingCommands
    /\ Registers \subseteq Byte
    /\ Values \subseteq Seq(Byte)
    /\ \A v \in Values : Len(v) + 3 \in Byte
    /\ Keys \subseteq Byte
    /\ MaxMessages \in Nat
    /\ MaxRead \in Byte

Message ==
    [command : CarCommands, type : {REQUEST_TYPE, RESPONSE_TYPE},
     register : Registers, data : Values, xor : Keys]

VARIABLES
    sent,            \* messages the car put into the read
    stream,          \* bytes of the read not split yet
    cut,             \* messages cut off, as they stand in the read
    phase            \* the car is writing or the splitter is cutting

vars == <<sent, stream, cut, phase>>

-----------------------------------------------------------------------------
(* Encoding and decoding.                                                  *)

(* The bit of weight w of the exclusive or of a and b, with its weight.    *)
XORBit(a, b, w) == IF (a \div w) % 2 = (b \div w) % 2 THEN 0 ELSE w

(* Tabulated, since every property evaluates it many times.                *)
XORTable ==
    [a \in Byte |-> [b \in Byte |->
        XORBit(a, b, 128) + XORBit(a, b, 64) + XORBit(a, b, 32) + XORBit(a, b, 16)
            + XORBit(a, b, 8) + XORBit(a, b, 4) + XORBit(a, b, 2) + XORBit(a, b, 1)]]
XOR(a, b) == XORTable[a][b]

Xored(s, key) == [i \in DOMAIN s |-> XOR(s[i], key)]

Checksum(s) ==
    LET sum[i \in 0 .. Len(s)] == IF i = 0 THEN 0 ELSE (s[i] + sum[i - 1]) % 256
    IN  sum[Len(s)]

(* phev_core_encodeMessage.                                                *)
Encode(m) ==
    LET plain == <<m.command, Len(m.data) + 3, m.type, m.register>> \o m.data
    IN  Xored(Append(plain, Checksum(plain)), m.xor)

(* Number of bytes of the message at the front of s, read with a key.      *)
LengthUnder(s, key) == XOR(s[2], key) + 2

(* phev_core_validateChecksumXORBounded.                                   *)
ChecksumValid(s, key) ==
    LET n == LengthUnder(s, key)
        plain == Xored(SubSeq(s, 1, n), key)
    IN  n <= Len(s) /\ Checksum(Front(plain)) = Last(plain)

Accepts(s, key) == XOR(s[1], key) \in IncomingCommands /\ ChecksumValid(s, key)

(* Faulty variant of Guesses: a response type is not thought of.           *)
GuessesRequests(s) == <<0, s[3]>>

(* phev_core_extractIncomingMessageAndXORBounded: not encoded, then the    *)
(* key that makes the type a request, then the one that makes it a response*)
Guesses(s) == <<0, s[3], XOR(s[3], 1)>>

Extractable(s) ==
    /\ Len(s) >= 3
    /\ \E i \in DOMAIN Guesses(s) : Accepts(s, Guesses(s)[i])

Guessed(s) == Guesses(s)[SelectInSeq(Guesses(s), LAMBDA key : Accepts(s, key))]

(* The message at the front of s: its bytes, still encoded, and the key.   *)
Extract(s) == [bytes |-> SubSeq(s, 1, LengthUnder(s, Guessed(s))), xor |-> Guessed(s)]

(* Faulty variant of Rest: the length is taken before it is decoded.       *)
RestRaw(s, e) == SubSeq(s, s[2] + 3, Len(s))

(* What the splitter looks at next.                                        *)
Rest(s, e) == SubSeq(s, Len(e.bytes) + 1, Len(s))

(* Faulty variant of Fields: the checksum is taken for data.               *)
FieldsWithChecksum(plain, key) ==
    [command |-> plain[1], type |-> plain[3], register |-> plain[4],
     data |-> SubSeq(plain, 5, plain[2] + 2), xor |-> key]

(* The fields of a decoded message.                                        *)
Fields(plain, key) ==
    [command |-> plain[1], type |-> plain[3], register |-> plain[4],
     data |-> SubSeq(plain, 5, plain[2] + 1), xor |-> key]

(* phev_core_decodeMessage.                                                *)
Decode(s) ==
    LET e == Extract(s) IN Fields(Xored(e.bytes, e.xor), e.xor)

-----------------------------------------------------------------------------
(* The stages behind the splitter.                                         *)

(* phev_pipe_outputChainInputTransformer: the decoded bytes, and the key   *)
(* in the context of the message.                                          *)
Transformed(s) ==
    LET m == Decode(s)
    IN  IF m.xor = 0 THEN [bytes |-> s, ctx |-> 0]
        ELSE [bytes |-> Xored(s, m.xor), ctx |-> m.xor]

(* Faulty variant of RespondedTo: the key of the message is not looked up. *)
RespondedToPlain(t) == Decode(t.bytes)

(* What phev_pipe_commandResponder makes of a transformed message.         *)
RespondedTo(t) ==
    LET m == Decode(t.bytes)
    IN  IF t.ctx # 0 /\ m.xor = 0 THEN [m EXCEPT !.xor = t.ctx] ELSE m

-----------------------------------------------------------------------------
Init ==
    /\ sent = << >>
    /\ stream = << >>
    /\ cut = << >>
    /\ phase = "writing"

CarWrites ==
    /\ phase = "writing"
    /\ Len(sent) < MaxMessages
    /\ \E m \in Message :
        /\ sent' = Append(sent, m)
        /\ stream' = stream \o Encode(m)
    /\ UNCHANGED <<cut, phase>>

(* A read may end anywhere in what the car wrote.                          *)
Read ==
    /\ phase = "writing"
    /\ \E n \in 1 .. Len(stream) : n <= MaxRead /\ stream' = SubSeq(stream, 1, n)
    /\ phase' = "splitting"
    /\ UNCHANGED <<sent, cut>>

(* phev_pipe_outputSplitter, one turn of its loop.                         *)
CutOff ==
    /\ phase = "splitting"
    /\ Extractable(stream)
    /\ LET e == Extract(stream)
       IN  /\ cut' = Append(cut, e)
           /\ stream' = Rest(stream, e)
    /\ UNCHANGED <<sent, phase>>

(* The rest of the read is dropped, and the bundle is passed on.           *)
Done ==
    /\ phase = "splitting"
    /\ ~Extractable(stream)
    /\ sent' = << >>
    /\ stream' = << >>
    /\ cut' = << >>
    /\ phase' = "writing"

Next == CarWrites \/ Read \/ CutOff \/ Done

Spec == Init /\ [][Next]_vars

-----------------------------------------------------------------------------
(* Properties.                                                             *)

Written == FlattenSeq([i \in DOMAIN sent |-> Encode(sent[i])])

(* Every key under which the front of a read is a message, whatever way it *)
(* is found: each command there is gives one key to try.                   *)
Readings(s) ==
    {key \in {XOR(s[1], c) : c \in IncomingCommands} :
        /\ ChecksumValid(s, key)
        /\ key = 0 \/ XOR(s[3], key) \in {REQUEST_TYPE, RESPONSE_TYPE}}

(* A message that cannot be taken for another: neither a start response    *)
(* (0x2e and 0x2f differ in the bit that tells the types apart), nor one   *)
(* whose encoded command looks like a command.                             *)
Distinct(m) ==
    /\ m.command \notin {\h2e, \h2f}
    /\ m.xor = 0 \/ XOR(m.command, m.xor) \notin IncomingCommands

(* The three guesses miss nothing: the splitter stops only where no key    *)
(* makes a message, and otherwise takes the message under one of the keys  *)
(* that do (phev_core.c 343-366).                                          *)
FindsReading ==
    phase = "splitting" /\ Len(stream) >= 3 =>
        IF Extractable(stream) THEN Guessed(stream) \in Readings(stream)
                               ELSE Readings(stream) = {}

(* Splitting neither loses nor repeats a byte: what was cut off and what   *)
(* is left are together a beginning of what the car wrote                  *)
(* (phev_pipe.c 851-875).                                                  *)
NothingLost == IsPrefix(FlattenSeq([i \in DOMAIN cut |-> cut[i].bytes]) \o stream, Written)

(* Of messages that cannot be taken for another the library reads exactly  *)
(* what the car sent, in order, and a torn one never decodes.              *)
ReadAsSent ==
    (\A i \in DOMAIN sent : Distinct(sent[i])) =>
        /\ IsPrefix([i \in DOMAIN cut |-> Decode(cut[i].bytes)], sent)
        /\ (phase = "splitting" /\ ~Extractable(stream)) =>
               LET rest == SubSeq(sent, Len(cut) + 1, Len(sent))
               IN  rest # << >> => Len(stream) < Len(Encode(rest[1]))

(* The stages of the chain decode the same message again, the later ones   *)
(* in its decoded form: all of them must read what the splitter read, and  *)
(* the responder must find its key (phev_pipe.c 293-316).  In fewer than   *)
(* five bytes there are no fields to read.                                 *)
StagesAgree ==
    \A i \in DOMAIN cut : Len(cut[i].bytes) >= 5 =>
        LET m == Fields(Xored(cut[i].bytes, cut[i].xor), cut[i].xor)
        IN  /\ Decode(cut[i].bytes) = m
            /\ RespondedTo(Transformed(cut[i].bytes)) = m

=============================================================================
