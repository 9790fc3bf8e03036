----------------------------- MODULE ReceivePath -----------------------------
(***************************************************************************)
(* The output chain of phev_service: what happens to the bytes read from   *)
(* the car.  The splitter cuts one read into messages, and each message    *)
(* goes through the chain of msg_pipe_transformChain: input transformer,   *)
(* filter, responder, output transformer.  The filter keeps the model of   *)
(* the car's registers and drops repeated values, the responder answers    *)
(* requests, the output transformer calls the event handlers.              *)
(*                                                                         *)
(* A key is the set of its bits, so that 0 is the empty set and the XOR of *)
(* two keys is their symmetric difference.                                 *)
(***************************************************************************)
EXTENDS Naturals, FiniteSets, SequencesExt

CONSTANTS
    Registers,       \* registers the car notifies
    Bytes,           \* bytes their values are made of
    MaxLength,       \* bound: length of a value
    Bits,            \* bits of a key
    Unset,           \* a register the model knows nothing of
    MaxMessages,     \* bound: messages the car sends
    MaxDisruptions   \* bound: connections lost or closed

ASSUME SizesAssumption == MaxLength \in Nat /\ MaxMessages \in Nat /\ MaxDisruptions \in Nat

Data == UNION {[1 .. n -> Bytes] : n \in 0 .. MaxLength}
ASSUME UnsetAssumption == Unset \notin Data

Key == SUBSET Bits
NoXOR == {}
XOR(a, b) == (a \ b) \cup (b \ a)

(* Commands from the car: 0x6f of type request and of type response, 0x4e  *)
(* or 0x5e, 0xbb and 0xcc.  xor is the key the bytes are encoded with.     *)
Notify(r, d, k, n) == [command |-> "notify", register |-> r, data |-> d, xor |-> k, id |-> n]
UpdateAck(r, k, n) == [command |-> "ack", register |-> r, xor |-> k, id |-> n]
Start(n) == [command |-> "start", xor |-> NoXOR, id |-> n]
NewKey(c, new, k, n) == [command |-> c, key |-> new, xor |-> k, id |-> n]

Ids == 1 .. MaxMessages
Message ==
    {Notify(r, d, k, n) : r \in Registers, d \in Data, k \in Key, n \in Ids}
    \cup {UpdateAck(r, k, n) : r \in Registers, k \in Key, n \in Ids}
    \cup {Start(n) : n \in Ids}
    \cup {NewKey(c, new, k, n) : c \in {"bb", "cc"}, new \in Key, k \in Key, n \in Ids}

VARIABLES
    toApp,           \* messages written by the car and not read yet
    torn,            \* the last read ended inside the first of them
    chunk,           \* what the splitter made of the last read, not done yet
    phase,           \* where in the chain the first message of chunk is
    currentXOR,      \* ctx->currentXOR
    commandXOR,      \* ctx->commandXOR
    pingXOR,         \* ctx->pingXOR
    encrypt,         \* ctx->encrypt
    registerDevice,  \* ctx->registerDevice
    model,           \* serviceCtx->model
    connected,       \* ctx->pipe->out->connected
    up,              \* the connection the library reads from still exists
    carXOR,          \* key the car encodes its messages with
    disruptions,     \* connections lost or closed so far
    seen,            \* history: last value of a register in an event
    sent,            \* history: last notification of a register
    messages,        \* history: number of messages sent
    handled,         \* history: ids of the messages past the filter
    stored,          \* history: ids of the notifications the filter stored
    answers,         \* history: responses written to the socket
    unsent,          \* history: ids whose response was not written
    out,             \* ids of the chunk's messages to report, in order
    reports          \* history: ids reported to the input client, in order

chain == <<chunk, phase>>
keys == <<currentXOR, commandXOR, pingXOR>>
link == <<toApp, torn, connected, up, carXOR, disruptions>>
history == <<handled, stored, answers, unsent>>
car == <<sent, messages>>
reporting == <<out, reports>>
vars == <<chain, keys, encrypt, registerDevice, model, link, seen, history, reporting, car>>

Init ==
    /\ toApp = << >>
    /\ torn = FALSE
    /\ chunk = << >>
    /\ phase = "idle"
    /\ currentXOR = NoXOR
    /\ commandXOR = NoXOR
    /\ pingXOR = NoXOR
    /\ encrypt = FALSE
    /\ registerDevice \in BOOLEAN
    /\ model = [r \in Registers |-> Unset]
    /\ connected = TRUE
    /\ up = TRUE
    /\ carXOR = NoXOR
    /\ disruptions = 0
    /\ seen = [r \in Registers |-> Unset]
    /\ sent = [r \in Registers |-> [id |-> 0, data |-> << >>]]
    /\ messages = 0
    /\ handled = {}
    /\ stored = {}
    /\ answers = {}
    /\ unsent = {}
    /\ out = << >>
    /\ reports = << >>

-----------------------------------------------------------------------------
(* Splitting a read into messages.                                         *)

(* Faulty variant of Split: the last message of the read comes first.      *)
SplitBackwards(n) == IF torn THEN << >> ELSE Reverse(SubSeq(toApp, 1, n))

(* phev_pipe_outputSplitter on a read that ends in the message after the   *)
(* first n, or between messages.  Of a torn message neither half decodes   *)
(* (its checksum fails), and the splitter gives up at the first one that   *)
(* does not: a beginning at the end of a read is dropped, an end at the    *)
(* start of the next read takes all of that read with it.                  *)
Split(n) == IF torn THEN << >> ELSE SubSeq(toApp, 1, n)

(* phev_pipe_checkXORChanged for each message: the last encoded one counts.*)
LastXOR(s) ==
    LET encoded == {i \in DOMAIN s : s[i].xor # NoXOR}
    IN  IF encoded = {} THEN currentXOR ELSE s[Max(encoded)].xor

Read ==
    /\ phase = "idle"
    /\ connected
    /\ toApp # << >>
    /\ \E n \in 0 .. Len(toApp), tears \in BOOLEAN :
        /\ tears => n < Len(toApp)
        /\ n = 0 => tears
        /\ chunk' = Split(n)
        /\ toApp' = SubSeq(toApp, n + 1, Len(toApp))
        /\ torn' = tears
    /\ currentXOR' = LastXOR(chunk')
    /\ phase' = IF chunk' = << >> THEN "idle" ELSE "transform"
    /\ UNCHANGED <<commandXOR, pingXOR, encrypt, registerDevice, model,
                   connected, up, carXOR, disruptions, seen, history, reporting, car>>

(* msg_tcpip_incomingHandler on a read that fills the buffer: it is dropped *)
(* whole, wherever it ends.                                                *)
ReadFull ==
    /\ phase = "idle"
    /\ connected
    /\ \E n \in 0 .. Len(toApp), tears \in BOOLEAN :
        /\ tears => n < Len(toApp)
        /\ n = 0 => tears
        /\ toApp' = SubSeq(toApp, n + 1, Len(toApp))
        /\ torn' = tears
    /\ UNCHANGED <<chain, keys, encrypt, registerDevice, model,
                   connected, up, carXOR, disruptions, seen, history, reporting, car>>

(* msg_tcpip_incomingHandler: the read fails once nothing is left.         *)
ReadError ==
    /\ phase = "idle"
    /\ connected
    /\ ~up
    /\ toApp = << >>
    /\ connected' = FALSE
    /\ UNCHANGED <<chain, keys, encrypt, registerDevice, model,
                   toApp, torn, up, carXOR, disruptions, seen, history, reporting, car>>

(* The read times out: msg_core_loop has nothing to hand on.               *)
ReadNothing ==
    /\ phase = "idle"
    /\ connected
    /\ toApp = << >>
    /\ UNCHANGED vars

-----------------------------------------------------------------------------
(* The chain, for the first message of the chunk.                          *)

message == Head(chunk)

(* phev_pipe_outputChainInputTransformer.                                  *)
Transform ==
    /\ phase = "transform"
    /\ phase' = "filter"
    /\ currentXOR' = IF message.xor # NoXOR THEN message.xor ELSE currentXOR
    /\ commandXOR' = IF message.command = "bb" THEN message.key ELSE commandXOR
    /\ pingXOR' = IF message.command \in {"bb", "cc"} THEN message.key ELSE pingXOR
    /\ UNCHANGED <<chunk, encrypt, registerDevice, model, link, seen, history, reporting, car>>

(* phev_model_compareRegister compares as many bytes as the register holds.*)
(* Beyond the end of a shorter new value it reads other memory and may     *)
(* find anything there.  A register of length 0 counts as not set.         *)
CommonBytes(old, new) == 1 .. (IF Len(new) < Len(old) THEN Len(new) ELSE Len(old))
MaySeemSame(old, new) ==
    /\ old \notin {Unset, << >>}
    /\ new # << >>
    /\ \A i \in CommonBytes(old, new) : new[i] = old[i]
MustSeemSame(old, new) == MaySeemSame(old, new) /\ Len(new) >= Len(old)

PassOther ==
    /\ phase = "filter"
    /\ message.command # "notify"
    /\ phase' = "respond"
    /\ handled' = handled \cup {message.id}
    /\ UNCHANGED <<chunk, keys, encrypt, registerDevice, model, link, seen,
                   stored, answers, unsent, reporting, car>>

(* Faulty variant of StoreChanged: only a register not known is set.       *)
StoreFirst ==
    /\ phase = "filter"
    /\ message.command = "notify"
    /\ ~MustSeemSame(model[message.register], message.data)
    /\ phase' = "respond"
    /\ handled' = handled \cup {message.id}
    /\ stored' = stored \cup {message.id}
    /\ model' = IF model[message.register] = Unset
                THEN [model EXCEPT ![message.register] = message.data] ELSE model
    /\ UNCHANGED <<chunk, keys, encrypt, registerDevice, link, seen, answers, unsent, reporting, car>>

(* phev_service_outputFilter sets a register that is new or has changed    *)
(* and lets the message pass,                                              *)
StoreChanged ==
    /\ phase = "filter"
    /\ message.command = "notify"
    /\ ~MustSeemSame(model[message.register], message.data)
    /\ phase' = "respond"
    /\ handled' = handled \cup {message.id}
    /\ stored' = stored \cup {message.id}
    /\ model' = [model EXCEPT ![message.register] = message.data]
    /\ UNCHANGED <<chunk, keys, encrypt, registerDevice, link, seen, answers, unsent, reporting, car>>

(* Faulty variant of DropSame: the dropped value is stored none the less.  *)
DropSameStoring ==
    /\ phase = "filter"
    /\ message.command = "notify"
    /\ MaySeemSame(model[message.register], message.data)
    /\ phase' = "filtered"
    /\ handled' = handled \cup {message.id}
    /\ model' = [model EXCEPT ![message.register] = message.data]
    /\ UNCHANGED <<chunk, keys, encrypt, registerDevice, link, seen,
                   stored, answers, unsent, reporting, car>>

(* and drops a repeated value after an event of its own.                   *)
DropSame ==
    /\ phase = "filter"
    /\ message.command = "notify"
    /\ MaySeemSame(model[message.register], message.data)
    /\ phase' = "filtered"
    /\ handled' = handled \cup {message.id}
    /\ UNCHANGED <<chunk, keys, encrypt, registerDevice, model, link, seen,
                   stored, answers, unsent, reporting, car>>

(* Faulty variant of Answered: registerDevice is not looked at.            *)
AnsweredAlways == message.command \in {"start", "notify"}

(* phev_pipe_commandResponder: start messages are answered always, and     *)
(* register notifications unless the device is being registered.           *)
Answered ==
    \/ message.command = "start"
    \/ message.command = "notify" /\ ~registerDevice

(* Key of the response as written: the key of the message (encodeMessage), *)
(* and on top of it commandXOR (XOROutboundMessage), but not for a start.  *)
ResponseXOR ==
    IF message.command = "start" THEN message.xor ELSE XOR(message.xor, commandXOR)

NoResponse ==
    /\ phase = "respond"
    /\ ~Answered
    /\ phase' = "event"
    /\ UNCHANGED <<chunk, keys, encrypt, registerDevice, model, link, seen, history, reporting, car>>

Respond ==
    /\ phase = "respond"
    /\ Answered
    /\ phase' = "event"
    /\ encrypt' = (encrypt \/ message.command = "start")
    /\ UNCHANGED <<chunk, keys, registerDevice, model, toApp, torn, up,
                   carXOR, disruptions, seen, handled, stored, reporting, car>>

WriteResponse ==
    /\ Respond
    /\ connected
    /\ answers' = answers \cup {[id |-> message.id, xor |-> message.xor, wire |-> ResponseXOR]}
    /\ UNCHANGED <<connected, unsent>>

(* msg_tcpip_outgoingHandler: not connected, or the write fails.           *)
ResponseNotWritten ==
    /\ Respond
    /\ ~connected \/ ~up
    /\ connected' = FALSE
    /\ unsent' = unsent \cup {message.id}
    /\ UNCHANGED answers

(* phev_pipe_sendEvent: the handlers see the notified value.               *)
SendEvent ==
    /\ phase = "event"
    /\ phase' = "application"
    /\ seen' = IF message.command = "notify"
               THEN [seen EXCEPT ![message.register] = message.data] ELSE seen
    /\ UNCHANGED <<chunk, keys, encrypt, registerDevice, model, link, history, reporting, car>>

(* What there is a report for: phev_service_updatedRegister,               *)
(* phev_service_updateRegisterAck and phev_service_sendStart.              *)
Reportable == message.command \in {"notify", "ack", "start"}

(* phev_service_jsonOutputTransformer, once the event handlers are done.   *)
JsonOutput ==
    IF phase = "application" /\ Reportable THEN Append(out, message.id) ELSE out

HandlersReturn ==
    /\ phase \in {"application", "filtered"}
    /\ Tail(chunk) # << >>
    /\ phase' = "transform"
    /\ chunk' = Tail(chunk)
    /\ out' = JsonOutput
    /\ UNCHANGED <<keys, encrypt, registerDevice, model, link, seen, history, reports, car>>

(* Faulty variant of EndOfChunk: the bundle of reports is not emptied.     *)
EndOfChunkKeepingBundle ==
    /\ phase \in {"application", "filtered"}
    /\ Tail(chunk) = << >>
    /\ phase' = "idle"
    /\ chunk' = << >>
    /\ out' = JsonOutput
    /\ reports' = reports \o JsonOutput
    /\ UNCHANGED <<keys, encrypt, registerDevice, model, link, seen, history, car>>

(* After the last message phev_service_jsonResponseAggregator makes one    *)
(* message of the bundle, and msg_pipe_inboundPublish hands it over.       *)
EndOfChunk ==
    /\ phase \in {"application", "filtered"}
    /\ Tail(chunk) = << >>
    /\ phase' = "idle"
    /\ chunk' = << >>
    /\ out' = << >>
    /\ reports' = reports \o JsonOutput
    /\ UNCHANGED <<keys, encrypt, registerDevice, model, link, seen, history, car>>

-----------------------------------------------------------------------------
(* Faulty variant of DisconnectOutput: the rest of the read goes with it.  *)
DisconnectOutputDroppingRest ==
    /\ phase \in {"idle", "application", "filtered"}
    /\ disruptions < MaxDisruptions
    /\ disruptions' = disruptions + 1
    /\ connected' = FALSE
    /\ up' = FALSE
    /\ toApp' = << >>
    /\ torn' = FALSE
    /\ currentXOR' = NoXOR
    /\ commandXOR' = NoXOR
    /\ pingXOR' = NoXOR
    /\ encrypt' = FALSE
    /\ chunk' = IF phase = "idle" THEN chunk ELSE <<Head(chunk)>>
    /\ UNCHANGED <<phase, registerDevice, model, carXOR, seen, history, reporting, car>>

(* phev_pipe_disconnectOutput, called by the application between turns or  *)
(* from an event handler: the rest of the chunk is processed all the same. *)
DisconnectOutput ==
    /\ phase \in {"idle", "application", "filtered"}
    /\ disruptions < MaxDisruptions
    /\ disruptions' = disruptions + 1
    /\ connected' = FALSE
    /\ up' = FALSE
    /\ toApp' = << >>
    /\ torn' = FALSE
    /\ currentXOR' = NoXOR
    /\ commandXOR' = NoXOR
    /\ pingXOR' = NoXOR
    /\ encrypt' = FALSE
    /\ UNCHANGED <<chain, registerDevice, model, carXOR, seen, history, reporting, car>>

(* A new connection; what was not read from the old one is gone, and the   *)
(* car starts it without a key.                                            *)
Reconnect ==
    /\ phase = "idle"
    /\ ~connected
    /\ connected' = TRUE
    /\ up' = TRUE
    /\ toApp' = << >>
    /\ torn' = FALSE
    /\ carXOR' = NoXOR
    /\ UNCHANGED <<chain, keys, encrypt, registerDevice, model, disruptions, seen, history, reporting, car>>

LinkLost ==
    /\ up
    /\ disruptions < MaxDisruptions
    /\ disruptions' = disruptions + 1
    /\ up' = FALSE
    /\ UNCHANGED <<chain, keys, encrypt, registerDevice, model,
                   toApp, torn, connected, carXOR, seen, history, reporting, car>>

-----------------------------------------------------------------------------
(* The car, as the code expects it: it encodes what it sends with the key  *)
(* it announced last, start messages excepted.                             *)

CarSends(m) ==
    /\ up
    /\ messages < MaxMessages
    /\ messages' = messages + 1
    /\ toApp' = Append(toApp, m)
    /\ UNCHANGED <<chain, keys, encrypt, registerDevice, model,
                   torn, connected, up, disruptions, seen, history, reporting>>

CarNotifies ==
    \E r \in Registers, d \in Data :
        /\ CarSends(Notify(r, d, carXOR, messages + 1))
        /\ sent' = [sent EXCEPT ![r] = [id |-> messages + 1, data |-> d]]
        /\ UNCHANGED carXOR

CarSendsOther ==
    /\ \/ \E r \in Registers : CarSends(UpdateAck(r, carXOR, messages + 1))
       \/ CarSends(Start(messages + 1))
       \/ \E k \in Key \ {NoXOR} : CarSends(NewKey("cc", k, carXOR, messages + 1))
    /\ UNCHANGED <<sent, carXOR>>

CarAnnouncesKey ==
    \E k \in Key \ {NoXOR} :
        /\ CarSends(NewKey("bb", k, carXOR, messages + 1))
        /\ carXOR' = k
        /\ UNCHANGED sent

-----------------------------------------------------------------------------
Library ==
    \/ Read
    \/ ReadFull
    \/ ReadError
    \/ ReadNothing
    \/ Transform
    \/ PassOther
    \/ StoreChanged
    \/ DropSame
    \/ NoResponse
    \/ WriteResponse
    \/ ResponseNotWritten
    \/ SendEvent
    \/ HandlersReturn
    \/ EndOfChunk
    \/ Reconnect

Environment ==
    \/ DisconnectOutput
    \/ LinkLost
    \/ CarNotifies
    \/ CarSendsOther
    \/ CarAnnouncesKey

Next == Library \/ Environment

Spec == Init /\ [][Next]_vars

-----------------------------------------------------------------------------
TypeOK ==
    /\ toApp \in Seq(Message)
    /\ torn \in BOOLEAN
    /\ chunk \in Seq(Message)
    /\ phase \in {"idle", "transform", "filter", "filtered", "respond", "event", "application"}
    /\ phase = "idle" <=> chunk = << >>
    /\ {currentXOR, commandXOR, pingXOR, carXOR} \subseteq Key
    /\ {encrypt, registerDevice, connected, up} \subseteq BOOLEAN
    /\ model \in [Registers -> Data \cup {Unset}]
    /\ seen \in [Registers -> Data \cup {Unset}]
    /\ sent \in [Registers -> [id : 0 .. MaxMessages, data : Data]]
    /\ disruptions \in 0 .. MaxDisruptions
    /\ messages \in 0 .. MaxMessages
    /\ handled \cup unsent \subseteq Ids
    /\ stored \subseteq handled
    /\ answers \subseteq [id : Ids, xor : Key, wire : Key]
    /\ {out, reports} \subseteq Seq(Ids)

(* Message n is past the filter and not at the end of the chain yet.       *)
InChain(n) == phase \in {"respond", "event", "application"} /\ message.id = n

Agree(a, b) == IsPrefix(a, b) \/ IsPrefix(b, a)

(* Once the last notification of a register is past the filter, the model  *)
(* holds its value, or one that agrees with it as far as both reach (the   *)
(* comparison stops at the old length), and never an older value that      *)
(* differs, however reads are torn and connections lost.                   *)
ModelMirrors ==
    \A r \in Registers :
        sent[r].id \in handled => model[r] # Unset /\ Agree(model[r], sent[r].data)

(* Outside the passage from the filter to the event handlers, the value    *)
(* the handlers saw last is the one the model holds: they miss no change   *)
(* of it and see none that the model does not have.                        *)
EventsShowModel ==
    \A r \in Registers :
        seen[r] # model[r] =>
            /\ phase \in {"respond", "event"}
            /\ message.command = "notify"
            /\ message.register = r

(* Every value the filter stored is answered, or its answer was lost with  *)
(* the link, one of the two and once, wherever it stood in its read; in    *)
(* registration mode none is answered.                                     *)
AnswerPerStore ==
    LET answered == {a.id : a \in answers}
        waiting == IF phase = "respond" THEN {message.id} ELSE {}
    IN  /\ answered \cap unsent = {}
        /\ Cardinality(answers) = Cardinality(answered)
        /\ stored \cap (answered \cup unsent) = IF registerDevice THEN {} ELSE stored \ waiting

(* The input client is told of every value the filter stored, once and in  *)
(* the order the car sent them, at the end of its read at the latest, also *)
(* when a handler closes the connection in the middle of that read.        *)
StoresReported ==
    LET told == reports \o out
    IN  /\ \A i, j \in DOMAIN told : i < j => told[i] < told[j]
        /\ \A n \in stored : n \in ToSet(told) \/ InChain(n)
        /\ phase = "idle" => out = << >>

(* The notifications among some messages.                                  *)
Notified(s) ==
    {[id |-> s[i].id, register |-> s[i].register, data |-> s[i].data] :
        i \in {j \in DOMAIN s : s[j].command = "notify"}}

Coming == Notified(toApp)
Taken == Notified(IF phase \in {"application", "filtered"} THEN Tail(chunk) ELSE chunk)
Compared == (Data \cup {Unset}) \X Data

(* The output chain keeps the promise of RegisterEvents: what the splitter *)
(* made of a read reaches the event handlers, in order, but for repeated   *)
(* values, also when a handler closes the connection in between            *)
(* (phev_pipe.c 691-741, phev_service.c 209-239).                          *)
Events == INSTANCE RegisterEvents WITH
    Values   <- Data,
    Numbers  <- Ids,
    Alike    <- {p \in Compared : MaySeemSame(p[1], p[2])},
    Repeated <- {p \in Compared : MustSeemSame(p[1], p[2])},
    coming   <- Coming,
    taken    <- Taken,
    shown    <- seen

EventsDelivered == Events!Spec

(* Messages are handled in the order the car sent them.                    *)
HandledInOrder == [][\A n \in handled' \ handled : \A o \in handled : o < n]_vars

(* A response is encoded once, with the key of the message it answers (the *)
(* responder takes that key from message->ctx to encode it correctly).     *)
EncodedOnce == \A a \in answers : a.wire = a.xor

=============================================================================
