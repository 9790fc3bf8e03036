----------------------------- MODULE Connection -----------------------------
(***************************************************************************)
(* The connection with the car: phev_pipe_start, phev_pipe_loop with its   *)
(* ping, and the three places that connect the socket, which are           *)
(* phev_pipe_waitForConnection, msg_pipe_outboundPublish and               *)
(* msg_tcpip_incomingHandler.  Every call of the socket functions is a     *)
(* step of its own, so that the connection may be lost between any two.    *)
(*                                                                         *)
(* A connection is numbered by the order in which they were made.          *)
(***************************************************************************)
EXTENDS Naturals, Sequences

CONSTANTS
    Keys,            \* XOR keys other than 0
    NoXOR,           \* key 0
    NoPing,          \* no ping arrived on this connection yet
    Unconnected,     \* the sockets of failed attempts to connect, as one
    MaxRetries,      \* PHEV_CONNECT_MAX_RETRIES
    PingModulus,     \* 0x30: pings are numbered modulo this
    SyncPeriod,      \* 30: a ping with a multiple of this goes with the time
    MaxMessages,     \* bound: messages the car sends
    MaxDisruptions   \* bound: disconnections, link losses, network failures

ASSUME NoXORAssumption == NoXOR \notin Keys
ASSUME NoPingAssumption == NoPing \notin Nat
ASSUME UnconnectedAssumption == Unconnected \notin Nat
ASSUME SizesAssumption ==
    /\ MaxRetries \in Nat
    /\ SyncPeriod \in Nat \ {0}
    /\ PingModulus \in Nat \ {0, 1}
    /\ MaxMessages \in Nat
    /\ MaxDisruptions \in Nat

NoSocket == 0
Message == [command : {"start", "bb", "cc"}, key : Keys \cup {NoXOR}, conn : Nat]

VARIABLES
    pc,              \* where the thread is, see Library
    starting,        \* inside phev_pipe_start
    retries,         \* retries of phev_pipe_waitForConnection
    inConnected,     \* ctx->pipe->in->connected
    outConnected,    \* ctx->pipe->out->connected
    connected,       \* ctx->connected
    socket,          \* socket of the output client, NoSocket for -1
    open,            \* sockets not closed
    conns,           \* number of connections made so far
    encrypt,         \* ctx->encrypt
    pingXOR,         \* ctx->pingXOR
    commandXOR,      \* ctx->commandXOR
    currentPing,     \* ctx->currentPing
    due,             \* a second has passed since ctx->lastPingTime
    registerDevice,  \* ctx->registerDevice
    exit,            \* exit of the service, set by phev_exit
    chunk,           \* messages of the last read, not processed yet
    output,          \* the chain made something of them for the input client
    peer,            \* connection the car holds open, NoSocket if none
    toApp,           \* messages of the car waiting in the socket
    reachable,       \* a connection attempt succeeds
    car,             \* what the car saw of this connection: the last ping,
                     \* its key, and whether the time came after it
    messages,        \* messages the car has sent
    disruptions,     \* disconnections, link losses, network failures
    broken,          \* history: connections that failed in a read or write
    closed,          \* history: connections the application closed
    origin,          \* history: connection pingXOR was announced on
    leftover         \* history: a key came from a read on a closed connection

client == <<inConnected, connected>>
tcp == <<outConnected, socket, open, conns, peer, toApp, broken, car>>
keys == <<pingXOR, commandXOR, origin, leftover>>
pinging == <<currentPing, due>>
service == <<registerDevice, exit>>
env == <<reachable, messages, disruptions>>
thread == <<pc, starting, retries, chunk, output>>
vars == <<client, tcp, keys, encrypt, pinging, service, env, thread, closed>>

NothingSeen == [ping |-> NoPing, key |-> NoXOR, timed |-> FALSE]

-----------------------------------------------------------------------------
(* The socket.                                                             *)

(* msg_tcpip_connect: the old socket, if one is still open, is not closed. *)
Connected ==
    /\ reachable
    /\ conns' = conns + 1
    /\ socket' = conns + 1
    /\ open' = open \cup {conns + 1}
    /\ outConnected' = TRUE
    /\ peer' = conns + 1
    /\ toApp' = << >>
    /\ UNCHANGED broken

(* Faulty variant of ConnectFails: outConnected stays set, as              *)
(* msg_pipe_out_connect leaves it before it calls the client.              *)
ConnectFailsUnnoticed ==
    /\ ~reachable
    /\ socket' = NoSocket
    /\ outConnected' = TRUE
    /\ open' = open \cup {Unconnected}
    /\ UNCHANGED <<conns, peer, toApp, broken, car>>

(* phev_tcpClientConnectSocket returns -1 without closing the socket it    *)
(* has opened for the attempt.                                             *)
ConnectFails ==
    /\ ~reachable
    /\ socket' = NoSocket
    /\ outConnected' = FALSE
    /\ open' = open \cup {Unconnected}
    /\ UNCHANGED <<conns, peer, toApp, broken, car>>

(* msg_pipe_out_connect with nothing to send.                              *)
OutConnect ==
    \/ Connected /\ car' = NothingSeen
    \/ ConnectFails

(* What the car has seen of the connection after frame f.                  *)
Sees(f, seen) ==
    CASE f.kind = "ping" -> [ping |-> f.number, key |-> f.xor, timed |-> FALSE]
      [] f.kind = "time" -> [seen EXCEPT !.timed = TRUE]
      [] OTHER -> seen

Ping(n, k) == [kind |-> "ping", number |-> n, xor |-> k]
TimeSync == [kind |-> "time"]
Command == [kind |-> "command"]

(* Faulty variant of Write: an error leaves the client connected.          *)
WriteErrorIgnored(f) ==
    \/ /\ peer = socket
       /\ car' = Sees(f, car)
       /\ UNCHANGED <<outConnected, socket, open, conns, peer, toApp, broken, disruptions>>
    \/ /\ peer # socket
       /\ UNCHANGED <<tcp, disruptions>>

(* msg_tcpip_outgoingHandler on a connected client.  A write to a          *)
(* connection that is gone may go unnoticed, and any write may fall short. *)
Write(f) ==
    \/ /\ peer = socket
       /\ car' = Sees(f, car)
       /\ UNCHANGED <<outConnected, socket, open, conns, peer, toApp, broken, disruptions>>
    \/ /\ peer # socket
       /\ UNCHANGED <<tcp, disruptions>>
    \/ /\ IF peer = socket
          THEN disruptions < MaxDisruptions /\ disruptions' = disruptions + 1
          ELSE UNCHANGED disruptions
       /\ outConnected' = FALSE
       /\ broken' = broken \cup {socket}
       /\ UNCHANGED <<socket, open, conns, peer, toApp, car>>

(* client->publish, which does not connect,                                *)
Publish(f) == IF outConnected THEN Write(f) ELSE UNCHANGED <<tcp, disruptions>>

(* and msg_pipe_outboundPublish, which does.                               *)
OutboundPublish(f) ==
    \/ outConnected /\ Write(f)
    \/ ~outConnected /\ Connected /\ car' = Sees(f, NothingSeen) /\ UNCHANGED disruptions
    \/ ~outConnected /\ ConnectFails /\ UNCHANGED disruptions

-----------------------------------------------------------------------------
(* phev_pipe_createPipe connects both clients; phev_pipe_start follows.    *)
Init ==
    /\ pc = "connect"
    /\ starting = TRUE
    /\ retries = 0
    /\ inConnected \in BOOLEAN
    /\ outConnected \in BOOLEAN
    /\ conns = IF outConnected THEN 1 ELSE 0
    /\ socket = conns
    /\ peer = conns
    /\ open = IF outConnected THEN {1} ELSE {Unconnected}
    /\ reachable = outConnected
    /\ connected = FALSE
    /\ encrypt = FALSE
    /\ pingXOR = NoXOR
    /\ commandXOR = NoXOR
    /\ currentPing = 1
    /\ due = FALSE
    /\ registerDevice \in BOOLEAN
    /\ exit = FALSE
    /\ chunk = << >>
    /\ output = FALSE
    /\ toApp = << >>
    /\ car = NothingSeen
    /\ messages = 0
    /\ disruptions = 0
    /\ broken = {}
    /\ closed = {}
    /\ origin = NoSocket
    /\ leftover = FALSE

-----------------------------------------------------------------------------
(* phev_pipe_waitForConnection.                                            *)

(* One attempt for each client that is not connected.                      *)
TryConnect ==
    /\ pc = "connect"
    /\ pc' = "wait"
    /\ connected' = FALSE
    /\ inConnected' \in {TRUE, inConnected}
    /\ IF outConnected THEN UNCHANGED tcp ELSE OutConnect
    /\ UNCHANGED <<keys, encrypt, pinging, service, env, starting, retries, chunk, output, closed>>

AfterWait == IF starting THEN "start" ELSE "ping"

WaitSucceeds ==
    /\ pc = "wait"
    /\ inConnected /\ outConnected
    /\ connected' = TRUE
    /\ pc' = AfterWait
    /\ UNCHANGED <<inConnected, tcp, keys, encrypt, pinging, service, env,
                   starting, retries, chunk, output, closed>>

(* Faulty variant of Retry: the retries are not counted.                   *)
RetryForever ==
    /\ pc = "wait"
    /\ ~(inConnected /\ outConnected)
    /\ retries <= MaxRetries
    /\ pc' = "connect"
    /\ UNCHANGED <<client, tcp, keys, encrypt, pinging, service, env,
                   starting, retries, chunk, output, closed>>

Retry ==
    /\ pc = "wait"
    /\ ~(inConnected /\ outConnected)
    /\ retries <= MaxRetries
    /\ retries' = retries + 1
    /\ pc' = "connect"
    /\ UNCHANGED <<client, tcp, keys, encrypt, pinging, service, env,
                   starting, chunk, output, closed>>

GiveUp ==
    /\ pc = "wait"
    /\ ~(inConnected /\ outConnected)
    /\ retries > MaxRetries
    /\ pc' = AfterWait
    /\ UNCHANGED <<client, tcp, keys, encrypt, pinging, service, env,
                   starting, retries, chunk, output, closed>>

-----------------------------------------------------------------------------
(* phev_pipe_start: the start message and the first update go out, whether *)
(* or not there is a connection.                                           *)
SendStart ==
    /\ pc = "start"
    /\ OutboundPublish(Command)
    /\ pc' = "update"
    /\ UNCHANGED <<client, keys, encrypt, pinging, service, reachable, messages,
                   starting, retries, chunk, output, closed>>

SendFirstUpdate ==
    /\ pc = "update"
    /\ OutboundPublish(Command)
    /\ pc' = "turn"
    /\ starting' = FALSE
    /\ UNCHANGED <<client, keys, encrypt, pinging, service, reachable, messages,
                   retries, chunk, output, closed>>

-----------------------------------------------------------------------------
(* phev_service_start turns phev_pipe_loop until the service exits.        *)

Stop ==
    /\ pc = "turn"
    /\ exit
    /\ pc' = "stopped"
    /\ UNCHANGED <<client, tcp, keys, encrypt, pinging, service, env,
                   starting, retries, chunk, output, closed>>

(* The library is left alone from then on.                                 *)
Stopped == pc = "stopped" /\ UNCHANGED vars

TurnConnected ==
    /\ pc = "turn"
    /\ ~exit
    /\ inConnected /\ outConnected
    /\ connected' = TRUE
    /\ pc' = "in"
    /\ UNCHANGED <<inConnected, tcp, keys, encrypt, pinging, service, env,
                   starting, retries, chunk, output, closed>>

TurnNotConnected ==
    /\ pc = "turn"
    /\ ~exit
    /\ ~(inConnected /\ outConnected)
    /\ pc' = "connect"
    /\ retries' = 0
    /\ UNCHANGED <<client, tcp, keys, encrypt, pinging, service, env,
                   starting, chunk, output, closed>>

(* The input client's loop is over; see SendCommand for what it brings.    *)
InLoop ==
    /\ pc = "in"
    /\ pc' = "read"
    /\ UNCHANGED <<client, tcp, keys, encrypt, pinging, service, env,
                   starting, retries, chunk, output, closed>>

(* msg_tcpip_incomingHandler.                                              *)
ReadReconnects ==
    /\ pc = "read"
    /\ ~outConnected
    /\ OutConnect
    /\ pc' = IF outConnected' THEN "read" ELSE "ping"
    /\ UNCHANGED <<client, keys, encrypt, pinging, service, env,
                   starting, retries, chunk, output, closed>>

ReadMessages ==
    /\ pc = "read"
    /\ outConnected
    /\ \E n \in 1 .. Len(toApp) :
        /\ chunk' = SubSeq(toApp, 1, n)
        /\ toApp' = SubSeq(toApp, n + 1, Len(toApp))
    /\ pc' = "process"
    /\ UNCHANGED <<client, outConnected, socket, open, conns, peer, broken, car,
                   keys, encrypt, pinging, service, env, starting, retries, output, closed>>

(* A read that fills the buffer, or begins with a message that does not    *)
(* decode, is dropped; so is what follows such a message.                  *)
ReadDropped ==
    /\ pc = "read"
    /\ outConnected
    /\ \E n \in 1 .. Len(toApp) : toApp' = SubSeq(toApp, n + 1, Len(toApp))
    /\ pc' = "ping"
    /\ UNCHANGED <<client, outConnected, socket, open, conns, peer, broken, car, keys, encrypt,
                   pinging, service, env, starting, retries, chunk, output, closed>>

(* tcp_read gives 0 when it times out, whether or not the car is there.    *)
ReadNothing ==
    /\ pc = "read"
    /\ outConnected
    /\ toApp = << >>
    /\ pc' = "ping"
    /\ UNCHANGED <<client, tcp, keys, encrypt, pinging, service, env,
                   starting, retries, chunk, output, closed>>

ReadError ==
    /\ pc = "read"
    /\ outConnected
    /\ socket # peer
    /\ toApp = << >>
    /\ outConnected' = FALSE
    /\ broken' = broken \cup {socket}
    /\ pc' = "ping"
    /\ UNCHANGED <<client, socket, open, conns, peer, toApp, car,
                   keys, encrypt, pinging, service, env, starting, retries, chunk, output, closed>>

(* The chain of the output client for one message: the keys of 0xbb and    *)
(* 0xcc, and the answer to a start message, which switches encrypt on.     *)
Process ==
    /\ pc = "process"
    /\ pc' = "callback"
    /\ LET m == Head(chunk) IN
        /\ output' = (output \/ m.command = "start")
        /\ IF m.command = "start"
           THEN /\ Publish(Command)
                /\ encrypt' = TRUE
                /\ UNCHANGED keys
           ELSE /\ pingXOR' = m.key
                /\ commandXOR' = IF m.command = "bb" THEN m.key ELSE commandXOR
                /\ origin' = m.conn
                /\ leftover' = (leftover \/ m.conn \in closed)
                /\ UNCHANGED <<tcp, disruptions, encrypt>>
    /\ UNCHANGED <<client, pinging, service, reachable, messages,
                   starting, retries, chunk, closed>>

(* What the output transformer made of the chunk goes to the input client, *)
(* and msg_pipe_inboundPublish tries to connect that.                      *)
CallbackReturns ==
    /\ pc = "callback"
    /\ chunk' = Tail(chunk)
    /\ IF chunk' # << >>
       THEN pc' = "process" /\ UNCHANGED <<inConnected, output>>
       ELSE /\ pc' = "ping"
            /\ output' = FALSE
            /\ inConnected' \in IF output THEN {TRUE, inConnected} ELSE {inConnected}
    /\ UNCHANGED <<connected, tcp, keys, encrypt, pinging, service, env,
                   starting, retries, closed>>

-----------------------------------------------------------------------------
(* phev_pipe_ping, at the end of the turn.                                 *)

NoPingNow ==
    /\ pc = "ping"
    /\ ~(outConnected /\ due)
    /\ pc' = "turn"
    /\ UNCHANGED <<client, tcp, keys, encrypt, pinging, service, env,
                   starting, retries, chunk, output, closed>>

(* Faulty variant of KeyAwaited: never wait.                               *)
KeyNotAwaited == FALSE

(* The car has started encryption and its key is not known yet.            *)
KeyAwaited == encrypt /\ pingXOR = NoXOR

PingWithheld ==
    /\ pc = "ping"
    /\ outConnected /\ due
    /\ KeyAwaited
    /\ due' = FALSE
    /\ pc' = "turn"
    /\ UNCHANGED <<client, tcp, keys, encrypt, currentPing, service, env,
                   starting, retries, chunk, output, closed>>

(* Faulty variants of SyncDue: one ping late; registerDevice is not looked *)
(* at.                                                                     *)
SyncDueAnyhow == currentPing % SyncPeriod = 0
SyncDueLate == currentPing % SyncPeriod = 1 /\ ~registerDevice

SyncDue == currentPing % SyncPeriod = 0 /\ ~registerDevice

SendTimeSync ==
    /\ pc = "ping"
    /\ outConnected /\ due
    /\ ~KeyAwaited
    /\ IF SyncDue THEN OutboundPublish(TimeSync) ELSE UNCHANGED <<tcp, disruptions>>
    /\ pc' = "number"
    /\ UNCHANGED <<client, keys, encrypt, pinging, service, reachable, messages,
                   starting, retries, chunk, output, closed>>

(* Faulty variant of NextPing: the number wraps one early.                 *)
NextPingShort == (currentPing + 1) % (PingModulus - 1)

NextPing == (currentPing + 1) % PingModulus

SendPing ==
    /\ pc = "number"
    /\ currentPing' = NextPing
    /\ IF registerDevice
       THEN UNCHANGED <<tcp, disruptions>>
       ELSE OutboundPublish(Ping(currentPing, pingXOR))
    /\ due' = FALSE
    /\ pc' = "turn"
    /\ UNCHANGED <<client, keys, encrypt, service, reachable, messages,
                   starting, retries, chunk, output, closed>>

-----------------------------------------------------------------------------
(* Calls of the application, between turns, in the loop of the input       *)
(* client and from its event handlers.                                     *)

InApplication == pc \in {"turn", "in", "callback"}

(* Faulty variants of ForgetKeys: pingXOR is kept; the socket is forgotten *)
(* but not closed.                                                         *)
KeepPingKey ==
    /\ commandXOR' = NoXOR
    /\ UNCHANGED <<pingXOR, origin>>

ForgetKeys ==
    /\ commandXOR' = NoXOR
    /\ pingXOR' = NoXOR
    /\ origin' = NoSocket

LeaveOpen == UNCHANGED open

CloseSocket == open' = open \ {socket}

(* phev_pipe_disconnectOutput with msg_tcpip_disconnect.                   *)
DisconnectOutput ==
    /\ InApplication
    /\ disruptions < MaxDisruptions
    /\ disruptions' = disruptions + 1
    /\ CloseSocket
    /\ closed' = closed \cup ({socket} \ {NoSocket})
    /\ socket' = NoSocket
    /\ outConnected' = FALSE
    /\ connected' = FALSE
    /\ peer' = IF peer = socket THEN NoSocket ELSE peer
    /\ toApp' = << >>
    /\ ForgetKeys
    /\ encrypt' = FALSE
    /\ currentPing' = 1
    /\ due' = FALSE
    /\ UNCHANGED <<inConnected, conns, broken, car, leftover, service,
                   reachable, messages, thread>>

DisconnectInput ==
    /\ InApplication
    /\ disruptions < MaxDisruptions
    /\ disruptions' = disruptions + 1
    /\ inConnected' = FALSE
    /\ UNCHANGED <<connected, tcp, keys, encrypt, pinging, service,
                   reachable, messages, thread, closed>>

(* phev_exit.                                                              *)
Exit ==
    /\ InApplication
    /\ ~exit
    /\ exit' = TRUE
    /\ UNCHANGED <<client, tcp, keys, encrypt, pinging, registerDevice, env, thread, closed>>

(* A command of the application, called for or brought by the input client.*)
SendCommand ==
    /\ InApplication
    /\ OutboundPublish(Command)
    /\ UNCHANGED <<client, keys, encrypt, pinging, service, reachable, messages,
                   thread, closed>>

-----------------------------------------------------------------------------
(* The car and the network.                                                *)

CarSends(c, k) ==
    /\ peer # NoSocket
    /\ peer = socket
    /\ messages < MaxMessages
    /\ messages' = messages + 1
    /\ toApp' = Append(toApp, [command |-> c, key |-> k, conn |-> peer])
    /\ UNCHANGED <<client, outConnected, socket, open, conns, peer, broken, car,
                   keys, encrypt, pinging, service, reachable, disruptions, thread, closed>>

LinkLost ==
    /\ peer # NoSocket
    /\ disruptions < MaxDisruptions
    /\ disruptions' = disruptions + 1
    /\ peer' = NoSocket
    /\ reachable' \in BOOLEAN
    /\ UNCHANGED <<client, outConnected, socket, open, conns, toApp, broken, car,
                   keys, encrypt, pinging, service, messages, thread, closed>>

CarBack ==
    /\ ~reachable
    /\ reachable' = TRUE
    /\ UNCHANGED <<client, tcp, keys, encrypt, pinging, service, messages,
                   disruptions, thread, closed>>

SecondPasses ==
    /\ ~due
    /\ due' = TRUE
    /\ UNCHANGED <<client, tcp, keys, encrypt, currentPing, service, env, thread, closed>>

-----------------------------------------------------------------------------
Waiting == TryConnect \/ WaitSucceeds \/ Retry \/ GiveUp
Starting == SendStart \/ SendFirstUpdate
Reading == ReadReconnects \/ ReadMessages \/ ReadDropped \/ ReadNothing \/ ReadError
Turning == Stop \/ TurnConnected \/ TurnNotConnected \/ InLoop \/ Process \/ CallbackReturns
Pinging == NoPingNow \/ PingWithheld \/ SendTimeSync \/ SendPing
Library == Waiting \/ Starting \/ Reading \/ Turning \/ Pinging

Application == DisconnectOutput \/ DisconnectInput \/ SendCommand \/ Exit

Environment ==
    \/ CarSends("start", NoXOR)
    \/ \E c \in {"bb", "cc"}, k \in Keys : CarSends(c, k)
    \/ LinkLost
    \/ CarBack
    \/ SecondPasses

Next == Library \/ Stopped \/ Application \/ Environment

Spec == Init /\ [][Next]_vars

(* A ping or the time fails on a connection that is gone.                  *)
WriteFails ==
    /\ SendTimeSync \/ SendPing
    /\ outConnected /\ socket # peer
    /\ ~outConnected'

(* phev_service_start turns the loop, and every call returns; and TCP does *)
(* not take frames for a connection that is gone for ever.                 *)
LoopSpec == Spec /\ WF_vars(Library) /\ WF_vars(SecondPasses) /\ SF_vars(WriteFails)

-----------------------------------------------------------------------------
TypeOK ==
    /\ pc \in {"connect", "wait", "start", "update", "turn", "in", "read",
               "process", "callback", "ping", "number", "stopped"}
    /\ {starting, inConnected, outConnected, connected, encrypt, due,
        registerDevice, exit, reachable, leftover, output} \subseteq BOOLEAN
    /\ retries \in 0 .. MaxRetries + 1
    /\ conns \in Nat
    /\ {socket, peer, origin} \subseteq 0 .. conns
    /\ open \subseteq 1 .. conns \cup {Unconnected}
    /\ broken \cup closed \subseteq 1 .. conns
    /\ {pingXOR, commandXOR} \subseteq Keys \cup {NoXOR}
    /\ currentPing \in 0 .. PingModulus - 1
    /\ chunk \in Seq(Message) /\ toApp \in Seq(Message)
    /\ car \in [ping : 0 .. PingModulus - 1 \cup {NoPing}, key : Keys \cup {NoXOR}, timed : BOOLEAN]
    /\ messages \in 0 .. MaxMessages
    /\ disruptions \in 0 .. MaxDisruptions

(* A client that counts as connected has a socket, and it is open: nothing *)
(* is read from or written to -1 or a closed descriptor, whichever of the  *)
(* three places connected last.                                            *)
SocketUsable == outConnected => socket # NoSocket /\ socket \in open

(* A socket is abandoned without being closed only after it failed, in the *)
(* attempt to connect, in a read or in a write: no connection that works   *)
(* is, and what the application closes is closed.                          *)
OnlyFailedAbandoned == open \ {socket} \subseteq (broken \ closed) \cup {Unconnected}

(* A key of an earlier connection is used after phev_pipe_disconnectOutput *)
(* only if it was announced in a read still being processed at that call.  *)
NoKeyOfClosed == pingXOR # NoXOR /\ origin \in closed => leftover

NewPing == conns' = conns /\ car.ping # NoPing /\ car'.ping # car.ping

(* On one connection the car sees every ping number, in order and modulo   *)
(* PingModulus, whatever messages, errors and key changes come in between. *)
PingsInOrder == [][NewPing => car'.ping = (car.ping + 1) % PingModulus]_vars

(* The time comes right before each ping numbered with a multiple of       *)
(* SyncPeriod, unless its connection was lost in between.                  *)
TimeBeforePing == [][NewPing => (car'.ping % SyncPeriod = 0 <=> car.timed)]_vars

(* Once encryption was started the car gets no ping in the clear.          *)
NoPlainPing == [][car'.ping \notin {car.ping, NoPing} /\ encrypt => car'.key # NoXOR]_vars

(* The connection keeps the promise of CarSession: on one connection no    *)
(* frame is lost and then another one arrives, and the time, pings in the  *)
(* clear and pings while registering come only where that allows them      *)
(* (phev_pipe.c 912-951, msg_tcpip.c 92-113).                              *)
Session == INSTANCE CarSession WITH
    session     <- conns,
    open        <- outConnected /\ peer = socket,
    seen        <- car,
    secret      <- encrypt,
    registering <- registerDevice

ServesCar == Session!Spec

(* The loop keeps turning, since waiting for a car that is not there ends, *)
(* until the application tells it to stop; then it stops.                  *)
KeepsTurning == []<>(pc = "turn" \/ pc = "stopped") /\ (exit ~> pc = "stopped")

(* When disruptions end, the car comes back and the input client connects  *)
(* (msg_core_connect always does), the library ends up connected to a car  *)
(* that is there, whatever step the last disruption hit, unless it stops.  *)
(* But only as long as it has something to write: a read just times out on *)
(* a connection that is gone, so while this device is registered, or a key *)
(* is awaited, nothing need notice that the car has left.                  *)
StaysConnected ==
    /\ []~exit /\ []<>reachable /\ []<>inConnected
    /\ []~registerDevice /\ <>[]~KeyAwaited
    => <>[](outConnected /\ connected /\ socket = peer /\ peer # NoSocket)

=============================================================================
