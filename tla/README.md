# Verification of phevcore

phevcore is a single-threaded C library that talks to the car of a Mitsubishi
Outlander PHEV over one TCP connection. There are no locks and no threads: what
makes it hard is that the peer and the network act between any two calls, that
application callbacks run in the middle of the library's loops and may call
back into it, and that three places may reconnect the socket on their own.

## Inventory

| part | source | state | interacts with |
|---|---|---|---|
| register updates | `phev_pipe.c` 662-807, 952-1085 | update table, handler table, `commandXOR` | called by the application and by `phev_service.c`; sends commands; completes on acknowledgements, sends again on 0xbb/0xcc |
| receiving | `phev_pipe.c` 226-369, 691-882; `phev_service.c` 188-252; `phev_model.c` | keys, `encrypt`, the register model | fed by the TCP client, answers the car, raises events |
| connection and ping | `phev_pipe.c` 37-148, 884-951; `msg_pipe.c`; `msg_tcpip.c` | two `connected` flags, the socket, ping number | loop of the service; connects in `waitForConnection`, in `msg_pipe_outboundPublish` and in `msg_tcpip_incomingHandler` |
| registration | `phev_service.c` 14-49; `phev_register.c` | the VIN register of the model; VIN, acknowledgement and completion of the handler | events of the pipe |
| reports | `phev_service.c` 600-801, 922-949; `msg_pipe.c` 21-131 | the bundle of one read | what the output chain makes of a read goes to the input client as JSON |
| commands | `phev_service.c` 281-598, `phev.c` | none of their own | JSON requests from the input client, calls of the application |
| main loop | `phev_service.c` 92-107, `phev.c` 263-271 | `exit` | turns the loop until the application stops it |
| codec | `phev_core.c` | none | every message in and out |
| sockets | `phev_tcpip.c` | none | connects, reads with a timeout; dumps not modelled |
| the rest | `phev_config.c`, `msg_mqtt.c`, logging | | not modelled, see below |

What makes each part correct: an update is kept until the car acknowledged its
register, and meanwhile something is on its way that will complete it or send
it again; the model mirrors the registers of the car and the handlers see every
change; every stored notification is answered once and reported once; a connected client has an
open socket; pings are numbered without gaps and never leave in the clear after
encryption has started; waiting ends, the loop stops when told to, and the
library finds back to a car that comes back, as long as it writes pings; a registration is reported only when it took
place, and missed only when a message is lost; what the library reads is what the car sent; a request
becomes the command it means, by whichever interface it comes.

## Modules

| module | models | checked by |
|---|---|---|
| `UpdateRegister` | update table, handler table, delivery of events, resend | `MCUpdateRegister.cfg` |
| `RegisterWrites` | abstract: what an application may rely on when it updates registers | |
| `UpdateOutcome` | `UpdateRegister` with the values the car holds; implements `RegisterWrites` | `MCUpdateOutcome.cfg` |
| `RegisterEvents` | abstract: what an application may rely on that handles register events | |
| `ReceivePath` | splitter, transformer, filter and model, responder, events, reports to the input client; implements `RegisterEvents` | `MCReceivePath.cfg`, `MCReceivePathEncoded.cfg` |
| `CarSession` | abstract: what the car may rely on that takes pings and the time | |
| `Connection` | start, loop, stop, waiting, reads and writes, ping, disconnects; implements `CarSession` | `MCConnection.cfg`, `MCConnectionLive.cfg` |
| `Registration` | the registration mode of the service, the car's other devices | `MCRegistration.cfg` |
| `RegisterHandler` | the handler of `phev_register.c`, with the same car | `MCRegisterHandler.cfg` |
| `Codec` | bytes and keys: extraction, decoding, encoding | `MCCodec.cfg` |
| `Commands` | requests in JSON and calls of `phev.c` | `MCCommands*.cfg` |
| `UpdateRegisterProofs`, `UpdateOutcomeProofs`, `ReceivePathProofs`, `ConnectionProofs`, `RegistrationProofs`, `RegisterHandlerProofs`, `CommandsProofs`, `CodecProofs` | theorems about them | TLAPS |

`UpdateOutcome` composes `UpdateRegister` with the car. The other modules are
joined by what each assumes: `ReceivePath` that a message is read as it was sent
(`Codec`), `Registration` and `RegisterHandler` that the messages of a read reach the
handlers in order (`UpdateRegister`, `ReceivePath`), `Connection` that a publish is one write (`Commands`).

### What is lost

Four kinds of loss are modelled in every module that receives.

* A lost connection takes with it what was on its way in either direction.
* A dropped read (`ReadDropped`; `Read` and `ReadFull` in `ReceivePath`): a read that
  fills the buffer is dropped whole without an error (`msg_tcpip.c` 76), and of any other
  read the splitter drops the rest from the first message that is torn or does not
  decode (`phev_pipe.c` 843-847, 864-866). The connection stays and the car does not
  know. Which messages of the queue go is left open: any first part of what has not been
  handled yet, after any number of messages that have been. A key, an acknowledgement, a report of
  devices or a greeting that is lost in this way is not asked for again. So the
  properties that promise an answer say what was missed (`keyMissed`, `acksMissed`,
  `unread`, `missed`: histories that are set when the *last* message of its kind is
  dropped and cleared when the car sends another), and claim that nothing but
  this, or a lost connection, can come in between.
* A silent loss: `tcp_read` gives 0 when it times out, whether or not the car is still
  there (`phev_tcpip.c` 162-165), so `ReadNothing` is possible on a dead connection for
  ever. Only a write, or an end of the stream, tells. Where the library writes pings
  that is enough (`StaysConnected`). In registration mode it writes none, nor while it
  waits for a key, and there the notice is a premise of the liveness properties.
* A failed attempt to connect leaves its socket open (`phev_tcpip.c` 277-291). In
  `Connection` these sockets are the one element `Unconnected` of `open`.

Names follow the source. A variable is a field of a context structure unless its
comment calls it a bound, a history, or something of the car or the network.

### UpdateRegister

One event delivery (`phev_pipe_sendEventToHandlers`) is split at the points
where application code runs: in a user's handler (`phase = "user"`) and in the
callback of an acknowledged update (`"callback"`). There, and between turns, the
application may issue updates, register and deregister handlers. The walk over
the update table is `ScanReaches`: the next matching slot at or after
`slotIndex`. The two event deliveries of one message (register event, message
event) are one, since the update handler reacts to one of them only. Losing the
connection is modelled between turns; `DisconnectOutput` resets the key,
`LinkLost` (the connection lost, noticed and re-established in `msg_tcpip.c`) does not.
`ReadDropped` takes place between two deliveries. `KeyAgreement`, `PendingCovered` and
`UpdatesComplete` tolerate a key or an acknowledgement that was dropped and nothing
else; the next key the car announces makes up for both, since the handler then sends
what is pending again.

### UpdateOutcome and RegisterWrites

The acknowledgement of a command names its register only. So one that answers a
command sent again completes whatever update of that register is pending, and
updates sent again after a new key go in the order of their slots, which need not
be the order in which they were issued: with two values asked for, an older one
may be the last to arrive. `RegisterWrites` states the promise that is left.
A register is open from its first update until nothing of it is in the table, on
the wire or being delivered; meanwhile the car takes only values asked for since
it opened, and no update is complete before the car holds one of them. The
refinement maps slots to tickets and computes `open` and `waiting` from the table
and the queues; `car` and `asked` are the same. `Open` ends by itself, when the last
trace is gone, so `Close` may be taken together with a lost connection.

### ReceivePath and RegisterEvents

A read takes any number of whole messages and may end inside the next one.
Each message then goes through the chain of `msg_pipe_transformChain`, one step
per stage. `phev_model_compareRegister` compares as many bytes as the *stored*
value has, so a shorter new value is compared with whatever follows it in
memory: `MaySeemSame` and `MustSeemSame` leave that outcome open. A key is the
set of its bits, which gives XOR its algebra. It is assumed that a torn message
does not decode by accident: its checksum would have to match. A read that fills
the buffer is dropped whole and no error is seen (`ReadFull`), so the next read
may start inside a message. What the filter lets through and
`phev_service_jsonOutputTransformer` knows how to report is collected in `out`
and handed to the input client at the end of the read (`EndOfChunk`), also when a
handler disconnected in between; the JSON text itself is left out.

`RegisterEvents` says what an application that handles register events may count
on. Notifications on their way may be lost (torn, dropped with a full buffer,
or with the connection), but a read takes the first of them without a gap, and
what it took is not lost any more: each leads to an event or is dropped for a value
taken for the one the handlers saw last, in the order of the car, whatever happens to
the link and whatever a handler calls in between. Under the refinement `coming` is the
notifications of `toApp`, `taken` those of `chunk` whose event is still due, and `shown`
is `seen`; the values that may be or must be taken for one another are
`MaySeemSame` and `MustSeemSame`. The abstract specification compares with what the
handlers *saw*, the code with what the model *holds*.

### Connection and CarSession

One step per call of the socket functions, so the connection may be lost between
any two of them. Sockets are numbered by the order in which they are connected;
`peer` is the one the car holds. A write to a dead connection may or may not be
noticed, and a short write counts as failed. A read of a dead connection may time out
any number of times (`ReadNothing`), or fail (`ReadError`). `SendCommand` stands for every
`msg_pipe_outboundPublish` the application or the input client causes, and
`CallbackReturns` for the JSON output, which may connect the input client.
Disconnecting inside an event handler leaves the rest of the read to be
processed; `leftover` records that a key came that way. `phev_exit` may come in any
callback; it is seen at the next turn (`Stop`), and `Stopped` is the state after
`phev_service_start` has returned.

`CarSession` is the other end of the same connection: what the car sees. While a
connection is open no frame of it is lost, so pings come without a gap, the time comes
before those with a multiple of `SyncPeriod` and at no other place, none comes in the
clear once encryption was started, and none at all in registration mode. A lost frame
ends the connection, and only then is another one opened; a ping it is opened for may
come without its time. Under the refinement a connection is open while the client
counts as connected and writes to the socket the car holds.

### Registration

The application registers once (`phev_registerDevice`) and then runs the loop.
The event handlers run in the order in which `phev_service_create` installs
them: the application's, which may disconnect, then `phev_service_eventHandler`,
which sends the registration command on a VIN event. The output filter stands
before the events, so a VIN message equal to the last one raises none. The car
is external: it reports the number of its devices on each connection and when
the number changes, registers this device if the command has the right key and
a place is left, and acknowledges that. A report dropped with a read (`unread`) is
followed by another only when the number changes or on the next connection, and the
loss of the connection may go unnoticed, since no ping is written: `Working` is
weakly fair, `Reconnect` is not.

### RegisterHandler

The library does not install this handler itself (line 51 of `phev_register.c` is
commented out); an application does, as the tests do, on a pipe without the filter
of the service. It asks for registration at a VIN event and at each of the messages
with which the car opens a connection, all but the acknowledgement 0xaa, and is
complete when it has seen an acknowledgement and a VIN. `Conclude` is the end of
the handler, which every event but `PHEV_PIPE_MAX_REGISTRATIONS` reaches. The flags
nothing reads are left out. The car sends its VIN first, as in the test
`test_phev_register_end_to_end`, and then its greetings in any order. `Leads` names the
messages that bring the registration on: a VIN with a place left, a greeting that asks,
an acknowledgement; `missed` is set when the last of them is dropped with a read.

### Codec

The only module over bytes. The car writes messages with any of the keys, a read
returns a beginning of them, and `CutOff` is a turn of the loop in
`phev_pipe_outputSplitter`. The key is not sent: `Guesses` lists the three the
library tries. `StagesAgree` follows a message through the later decodings, of
`phev_pipe_outputChainInputTransformer` and `phev_pipe_commandResponder`; it speaks
of messages of at least five bytes, since in shorter ones the code reads fields
beyond the end. Reads are shorter than 256 bytes (`MaxRead`), so that lengths do not
wrap. XOR is written out bit by bit, as the proofs need it; `MCCodec` compares it with
the operator of the community modules for every pair of bytes. `ReceivePath` relies
on this module: there a message is read as it was sent, and a torn one does not
decode.

### Commands

A number keeps the value of a C `int` and is cut where the code cuts it: to 16
bits by `phev_service_checkByte`, to 8 bits by the constructors of commands. Of
the operations an object may name, the first the code looks for counts; a
request holds one. Each call of `phev.c` that sends a command is an action.
`asked` and `earlier` are a history of the last two operations and the commands
they became. What happens to a command afterwards is the subject of `UpdateRegister`.

## Runs and bounds

| run | bounds | result |
|---|---|---|
| `update_register` | 2 registers, 2 keys, 2 slots, 3 handlers of which the application registers 2, 1 message in flight when an update is issued, 2 disruptions | passes, 2.5 million states |
| `update_outcome` | 1 register, 2 values, 2 keys, 2 slots, 2 handlers, 1 disruption | passes, 0.24 million states |
| `receive_path` | 2 registers, values of up to 2 bytes out of 2, 1 key bit, 3 messages, 1 disruption | passes, 1.2 million states |
| `receive_path_encoded` | 1 register, 1 byte, 3 messages | `EncodedOnce` fails, see Findings |
| `connection` | 1 key, ping modulus 3 with the time at multiples of 2, 1 retry, 2 messages, 2 disruptions | passes, 5.5 million states |
| `connection_live` | ping modulus 2, 1 message, 2 disruptions | passes, 0.59 million states |
| `registration` | 2 keys, 2 places, 2 disruptions, 1 change of other devices | passes, 0.29 million states |
| `register_handler` | as `registration`, 1 greeting that asks and 1 that does not, 2 messages on their way when the car sends one | passes, 0.23 million states |
| `codec` | 2 commands, both types, 3 values, 4 keys, 2 messages and at most 255 bytes in a read | passes, 51 thousand states |
| `commands` | 4 numbers, arrays of up to 2, 1 request, 2 operations remembered | passes, 0.27 million states |
| `commands_aircon` | the air conditioning alone | `AirConAgrees` fails, see Findings |
| `commands_range` | 4 numbers, arrays of up to 1 | `OutOfRangeRejected` fails, see Findings |

What the runs ask: `update_register`, that the tables and keys stay consistent
whatever the callbacks do; `update_outcome`, that the car ends up with what was
asked for, and that updates end; `receive_path`, that the model, the handlers, the
answers and the reports follow the car; `connection`, that sockets, keys and pings
stay right when three places connect and any call may fail, and
`connection_live`, that the loop goes on, stops and recovers; `registration` and
`register_handler`, what each way to register survives; `codec`, that reading
inverts sending; `commands`, that a request means one thing.

Two slots and three handlers (one is the library's) let the tables fill up, a callback issue an update
into a slot the loop has passed or has still to visit, and a handler leave a
hole. Values of 0 to 2 bytes give equal, shorter, longer and differing values.
A dropped read counts as a disruption; the key that makes up for one in
`UpdateRegister` does not, so the recovery is within the bound also where there is one
disruption. Two disruptions let a loss hit the recovery from another. The ping modulus is
scaled from 0x30 and 30 to 3 and 2, so that wrapping and the time of both the
multiple 0 and a multiple inside the cycle occur. Two places let this device take the last one and
another device take it first. `Connection` compares keys only with "no key", so
one is enough. One register and two values are enough for `update_outcome`, since
acknowledgements, slots and promises of different registers do not meet. The keys of the codec are 0, one that touches only
the bit of the type, one that turns one command into another and one that turns
none into another. The numbers of requests are both ends of a byte, the first
number beyond it and one that is a byte again in 16 bits. Registers, bytes and
keys are symmetric in the safety runs `update_register` and `receive_path`; liveness runs use no symmetry.

### Fairness

`phev_service_start` calls the loop for ever, callbacks return, and no call
blocks without a timeout: weak fairness of the library's steps as a whole, in every
module with a liveness property. In `Connection` (`LoopSpec`) seconds also pass
(`SecondPasses`, weakly fair), so pings fall due; and of the writes of a ping to a
connection that is gone not all are accepted (`WriteFails`, strongly fair): TCP takes a few frames
for a dead peer into its buffer and then reports the error. That the car comes
back, the input client connects, the application neither stops the library nor registers,
and the wait for a key ends are premises of `StaysConnected`; without the last two nothing
is written and a silent loss is not noticed.
In `UpdateOutcome` (`FairOutcome`) the car also reads what arrives and announces a
key on each connection, each weakly fair. A connection that is lost is
thereby assumed to be noticed, which `StaysConnected` shows for a library that writes
pings. In `Registration` the car reads what arrives, announces a key
and reports its devices; in `RegisterHandler` it also sends its greetings; each
weakly fair. There only `Working` is fair, which leaves out `ReadNothing` and
`Reconnect`: nothing in the code makes sure that the loss is noticed, so
`RegistrationCompletes` and `HandlerCompletes` have `[]<>up` as a premise, and that a
dropped message is followed by another one (`[]<>~unread`, `[]<>~missed`).
Disruptions are bounded, which is the premise of `UpdatesComplete`,
`StaysConnected` and both properties of registration: what they hold for is the
time after the last one.

### Findings

`EncodedOnce`: `phev_pipe_commandResponder` encodes a response with the key of
the request (`phev_core_convertToMessage`, line 350) and then again with
`commandXOR` (line 356). `TODO.md:63` and the test at `test_phev_pipe.c:537`
expect the first of the two. With both keys equal, which is the normal state
after 0xbb, the response leaves in the clear.

`AirConAgrees`: `phev_airCon` sends 2 for on and 1 for off when it is given a
callback (`phev.c` 333), as JSON requests do, and the reverse without one (335).
The tests `test_phev_service.c` 202-225 expect 2 for on.

`OutOfRangeRejected`: `phev_service_checkByte` has a parameter of 16 bits, so a
register or value of 65537 is taken for 1. The tests `test_phev_service.c`
124-141 expect numbers beyond a byte to be rejected, with 555 and 256, which
are.

Not findings, since nothing in the repository states otherwise, but worth
knowing:

* The registration command is never repeated. If it is lost or refused, the VIN
  message that would lead to the next one is filtered as long as the car reports
  the same number. `NotMissed` says that this, a report dropped with a read and a
  connection whose loss is not noticed are the only ways to miss the registration. If an acknowledgement is lost, the raised number of devices in
  the next report saves the day once; not a second time, and not when this
  device took the last place (`PHEV_PIPE_MAX_REGISTRATIONS` has no handler).
  `RegistrationCompletes` has these cases as its premise. The handler of
  `phev_register.c` has neither weakness: it asks again on each connection, so only
  a refusal or a dropped message on the *current* connection counts
  (`AskedOnEachConnection`), and it
  completes even if the device took the last place (`HandlerCompletes`), provided
  it once saw a VIN event. It may however report "Maximum number of registrations"
  for a device that is registered and holds the last place.
* With two updates of one register pending, an acknowledgement completes both, and
  a resend may leave the older value in the car (see `RegisterWrites`).
* The socket of a failed attempt to connect is never closed
  (`phev_tcpip.c` 285), so descriptors run out when a car stays away long enough.
* A read that fills the buffer is dropped without an error (`msg_tcpip.c` 76), and a torn
  message takes the rest of its read with it. If the key was among what is dropped, every
  command goes out under the wrong one until the car announces another; if an
  acknowledgement was, its update stays pending until then.
* A connection lost without a word is not noticed in registration mode, nor while the
  ping waits for its key: a read that times out gives 0 either way.
* A start response 0x2f encoded with key 1 looks like an unencoded 0x2e one byte
  longer, so if the next byte of the read completes the checksum it is misread
  and the message after it torn. `ReadAsSent` excludes start responses, and keys
  that turn the command into another, for this reason; the run fails without
  that premise.

## Proofs

`UpdateRegisterProofs` proves the seven safety properties of the run
`update_register` for every number of registers, values, keys, slots, handlers
and disruptions. Assumed: 0 is a key, `Free` is not an update, the sizes are
naturals and both tables have an entry, and the application registers fewer
handlers than the table holds (`HandlerRoom`: the library itself needs one).

* `InductiveInvariant`. `PendingHasHandler` is not inductive: an update may be
  issued when the table of handlers is full, and then the registration of the
  update handler is refused. `IInv` is the conjunction of
  `TypeOK`, `CountMatchesSlots`, `DeliveryInv` and `HandlerInv`. `HandlerInv` says
  that entries at and beyond `eventHandlers` are NULL, and that either the update
  handler stands below, or no slot is used and `eventHandlers` is at most
  `registrations`, in which case the table has room by `HandlerRoom`.
  `DeliveryInv` says where a delivery may stand. `TypeCorrect`, `CountCorrect` and
  `HandlerPresent` follow.
* `KeysAgree`. `KeyAgreement` allows the car to be ahead; the strengthening
  `KeyInv` says that the *last* key announcement on its way carries the key of
  the car. A dropped read takes the beginning of what is on its way, so what is left
  still ends with that announcement, or the key was missed (`KeyDropped`).
* `SlotsKept` needs the invariant only for where the loop stands.
* `NothingForgotten`, on top of both: for each pending update a command with the
  right key, an acknowledgement, the delivery in progress or a key announcement
  will reach it, or the last key or acknowledgement that would have was dropped.

* `HandlersStay`: `HandlersKept` follows from where `HandlerInv` lets free entries
  be.
* `DeliveriesEnd` is what can be proved of `DeliveryEnds`, its variant function: by
  each step of the library a delivery ends, or fewer entries of the handler table are
  left, or as many and less of the scan (`HandlersLeft`, `EntryLeft`, naturals). The
  first counts up to the size of the table and not to `eventHandlers`, which grows when
  a callback issues an update; no step of the application or the car changes either.

`UpdateOutcomeProofs` proves, on top of that and for every size, that
`UpdateOutcome` implements `RegisterWrites` (`Refinement`) and `SettledAsAsked`
(`Settled`). Its invariant `OInv` (`OutcomeInvariant`) adds that every command on
the wire and every used slot carries a value asked for since its register opened,
and that while an acknowledgement is on the wire or being delivered the car holds
such a value. Each step is then a step of `RegisterWrites` or a stutter:
`CarWrites` is `Act`, clearing a slot is `Done`, and what removes the last trace of a
register is `Close`. `OtherShape` says what the steps that neither ask nor write
have in common, so that the cases need be split only once.

`ReceivePathProofs` proves the type invariant and all six safety properties of the run
`receive_path`, for any registers, values, keys, lengths of reads and disruptions. Its invariant
(`ReceiveInvariant`) has one part for each:
* `OrderInv`: what was handled, what the read still holds and what the car has sent
  since are in this order; `InOrder` is its consequence. The other parts use it.
* `MirrorInv`: a message of a register is no later than the last notification the car
  sent for it, and the one with that number carries its value (`Fits`). So the last
  one to pass the filter leaves the value in the model, as far as it reaches
  (`ModelFollowsCar`).
* `EventInv`: the handlers lag behind the model by at most the message between the
  filter and them (`HandlersSeeModel`), and that message does not repeat what they saw.
* `ReportInv` speaks of the reports sent followed by those still collected, which is
  what stays ordered while the read is processed (`ReportsComplete`); `AnswerInv`
  counts a lost answer with those sent (`StoresAnswered`).

`EventsImplemented` is the refinement of `RegisterEvents`. That a read leaves no gap,
and that the head of the chunk is the first of what is taken, comes from the order
(`OrderInv`, by `NotifiedCut` and `NotifiedTail`). That the filter drops only what looks like
the value the *handlers* saw, and passes nothing that surely does, comes from
`EventInv`: the code compares with the model. `Read` is `Take`, or `Lose` when it starts
inside a message; `DropSame` is `Drop`; `SendEvent` is `Show`, or a stutter for other
messages; closing the connection, a full buffer and a new connection are `Lose`.

That the key taken from a read is a key (`TypeOK`) needs that a nonempty set of
positions has a greatest (`LastPosition`), which follows from the well-foundedness of
the naturals.

`ConnectionProofs` proves the type invariant and all seven safety properties of
the run `connection`, for every number of retries, keys, messages and disruptions
and every sync period; assumed is that pings are numbered modulo at least 2, as
each connection starts with ping 1. Its invariant
(`ConnectionInvariant`) has five parts, of which two are needed beyond the properties:
* `ThreadInv` and `PingInv` tie facts to where the thread stands: there is a message
  when one is processed, and between the time and its ping no key can be forgotten,
  since the application is not called there. `NoPingInTheClear` rests on this.
* `SeenInv` ties the counter to what the car saw, but only while the library writes to
  the connection the car holds (`outConnected` and `peer = socket`). Once a frame is lost
  this fails for good: both become true again only with a new connection, where
  the car has seen nothing. `PingsNumbered` and `TimeSynced` follow.

`OriginInv` bounds the connection every message came on, which `TypeOK` needs when
a key is taken up; `SocketInv` is `SocketUsable` and `OnlyFailedAbandoned` with
what makes them inductive: a socket that no longer counts as connected has failed.
The sockets of failed attempts to connect are the exception `AbandonedHaveFailed` names.

`SessionImplemented` is the refinement of `CarSession`. `SeenInv` says when a ping or the
time is the next frame of a connection that stands, `PingInv` that it has a key, and
`SocketUsable` that a lost link ends it (`LinkLost` clears `peer`, and a connected client
has a socket). Of a command the car sees nothing: sending one breaks a connection or
opens one at most (`SessionCommand`).

`TurnsEnd` is the variant function of a turn, which `KeepsTurning` rests on: by each
step of the library the turn ends, or goes on to a later part (`Part`), or has less of
the same part left (`Left`: attempts to connect, messages of the read, one connection
while reading). So a turn ends although every attempt may fail, every read may be
cut short and the application may disconnect at any time: none of that changes either.

`RegisterHandlerProofs` and `RegistrationProofs` prove the safety properties of both
ways to register, for every number of places, keys, disruptions and other devices.
`CompletesOnce` and `CompleteOnlyIfRegistered` rest on the same idea: an
acknowledgement, on its way or processed, is always of a device the car knows, and the
car forgets only other devices. In `RegisterHandler` completion is also tied to the
flag that stops the handler.

That the device is not forgotten needs more, and shows where the two ways differ:
* `AskedAgain`: once the car has introduced itself on a connection with a place left,
  a message that leads on is in the queue, or the command it led to is on its way, or the
  car has answered, or the last such message was dropped (`AskInv`). Each connection
  starts this anew.
* `NeverHidden`: the model holds a number with a place left only after an event that led
  to a command (`RaisedInv`), and the last report of the connection is on its way or is
  what the model holds, or was dropped with a read (`ReportInv`). So a report the filter
  hides was answered by a command; if that one was lost, `lost` says so, and nothing asks again.

`CommandsProofs` proves the four properties of the run `commands`, for any numbers in
requests, arrays of any length and messages of any number of requests. Three are
invariants and rest on `AskedInv`: what an operation sent is what `Explained` says of
its name and argument, so that commands differ by their register, or by the byte that
holds the argument. `RequestsAsMeant` goes through the kinds of JSON values a request
may hold; that a number below 65536 does not change when it is cut to 16 bits is where
"plain" is needed (without it the findings on `OutOfRangeRejected` apply).

`CodecProofs` proves the four properties of the run `codec` for any registers, data,
keys, numbers of messages and ends of the read; assumed is only that commands, registers,
keys and data are bytes and that the length of a message fits its length byte.
* Below all of them stands that XOR, which is defined bit by bit, has an inverse and
  passes through another (`XORTwice`, `XORCancels`): bytes with the same bits are
  equal (`SameBits`). `Checksummed` and `Flattened` give the recursive functions of
  `Checksum` and `FlattenSeq` by what they do at each index; that these exist follows
  from the well-foundedness of the naturals, not from induction over an operator.
* `ReadingFound`: of the keys that make a command of the first byte, only those the
  code tries make the type 0 or 1 (`ReadingGuessed`). It holds for any bytes.
* `BytesKept`, `StagesRead`: what is cut off is accepted again on its own
  (`ExtractAgain`), and decoded without a key (`ExtractPlain`).
* `SentIsRead` needs the invariant `InOrderInv`: the i-th piece cut off is the i-th
  message sent, as it was encoded. With `NothingLost`, what is left of the read
  then begins the next message (`NextMessage`), of which only one key makes a command
  (`OneKey`): whole, it is read as it was sent, and torn, it is not read (`ReadDistinct`).
  `DecodeOfEncode` is the case of a single message.

Only model-checked: the findings, and every liveness property, as fairness and ENABLED
are beyond the prover. Of two of them, `DeliveryEnds` and `KeepsTurning`, the part that
needs neither is proved for every size (`DeliveriesEnd`, `TurnsEnd`); that the library
can always take its next step, and then does, stays with TLC. The others have no such
part: `UpdatesComplete` and the two `Completes` properties rest on the fairness of the
car as well, and `StaysConnected` on what its premises let recur.

## Plan

The order followed so far: the update table with its proofs, the chain of
received messages, the connection, codec, registration and commands; then the
promise of updates (`RegisterWrites`) with its refinement proof, reports to the
input client, stopping the loop, the remaining calls of `phev.c`, and the handler of
`phev_register.c`, with proofs for the receiving chain, the connection, both ways to
register, the requests and the codec, and the promise of events (`RegisterEvents`)
with its refinement proof, and that of the car (`CarSession`) with its own.

## Not modelled

* The text of JSON reports and of the status on request, the getters of `phev.c`,
  logging and hex dumps (which decode what `phev_tcpip.c` reads and writes once
  more, for the log only): functions of the model without state.
* `phev_config.c`: decodes flags out of one register by a table; no state outlives
  a call.
* `msg_mqtt.c`: another transport for the input client, a thin layer over a library.
* Outgoing variants of the codec, which nothing uses; `phev_service_resetPipeAfterRegistration`,
  which nothing calls.
* Socket options, the dumps and the Windows variant of `phev_tcpip.c`.
* Memory management, including reads of more than `MAX_MESSAGE_BUNDLE_SIZE`
  messages, and running out of descriptors.
