--------------------------- MODULE ConnectionProofs ---------------------------
(***************************************************************************)
(* Proofs about the connection: that the client has an open socket when it *)
(* counts as connected, which sockets are left open, which keys outlive a  *)
(* connection and that no ping leaves in the clear, for any number of      *)
(* retries, messages and disruptions.                                      *)
(***************************************************************************)
EXTENDS Connection, TLAPS

Key == Keys \cup {NoXOR}
Seen == [ping : 0 .. PingModulus - 1 \cup {NoPing}, key : Key, timed : BOOLEAN]
Frame == {Command, TimeSync} \cup {Ping(n, k) : n \in 0 .. PingModulus - 1, k \in Key}

SocketTypes ==
    /\ conns \in Nat
    /\ socket \in 0 .. conns
    /\ peer \in 0 .. conns
    /\ open \subseteq 1 .. conns \cup {Unconnected}
    /\ broken \subseteq 1 .. conns
    /\ closed \subseteq 1 .. conns
    /\ outConnected \in BOOLEAN
    /\ toApp \in Seq(Message)
    /\ car \in Seen

(* A socket stops counting as connected only when it fails or is closed,   *)
(* and what is closed is not open.                                         *)
SocketInv ==
    /\ SocketTypes
    /\ SocketUsable
    /\ open \cap closed = {}
    /\ socket \in open /\ ~outConnected => socket \in broken
    /\ OnlyFailedAbandoned

ThreadTypes ==
    /\ pc \in {"connect", "wait", "start", "update", "turn", "in", "read",
               "process", "callback", "ping", "number", "stopped"}
    /\ retries \in 0 .. MaxRetries + 1
    /\ chunk \in Seq(Message)
    /\ starting \in BOOLEAN /\ output \in BOOLEAN
    /\ inConnected \in BOOLEAN /\ connected \in BOOLEAN
    /\ registerDevice \in BOOLEAN /\ exit \in BOOLEAN
    /\ reachable \in BOOLEAN
    /\ messages \in 0 .. MaxMessages
    /\ disruptions \in 0 .. MaxDisruptions

(* There is a message to process.                                          *)
ThreadInv ==
    /\ ThreadTypes
    /\ pc \in {"process", "callback"} => chunk # << >>

(* A number is given to a ping only once the key is known, and nothing     *)
(* comes in between.                                                       *)
PingInv ==
    /\ pingXOR \in Key /\ commandXOR \in Key
    /\ encrypt \in BOOLEAN /\ due \in BOOLEAN /\ leftover \in BOOLEAN
    /\ currentPing \in 0 .. PingModulus - 1
    /\ pc = "number" => ~KeyAwaited

(* Every message says which of the connections so far it came on.          *)
Numbered(msgs) == \A i \in 1 .. Len(msgs) : msgs[i].conn \in 0 .. conns

OriginInv ==
    /\ origin \in 0 .. conns
    /\ Numbered(toApp) /\ Numbered(chunk)
    /\ NoKeyOfClosed

(* What the car saw of the connection the library writes to: the next ping *)
(* follows on the last, and the time since then is that of the next ping.  *)
SeenInv ==
    outConnected /\ peer = socket =>
        /\ car.ping # NoPing =>
              ~registerDevice /\ currentPing = (car.ping + 1) % PingModulus
        /\ car.timed <=> pc = "number" /\ SyncDue

IInv == SocketInv /\ ThreadInv /\ PingInv /\ OriginInv /\ SeenInv

-----------------------------------------------------------------------------
(* The socket functions.                                                   *)

LEMMA NothingSeenType == NothingSeen \in Seen
  BY DEF NothingSeen, Seen, Key

LEMMA SeesType == ASSUME NEW f \in Frame, NEW seen \in Seen PROVE Sees(f, seen) \in Seen
<1>1. CASE f = Command
  BY <1>1 DEF Sees, Command
<1>2. CASE f = TimeSync
  <2>1. Sees(f, seen) = [seen EXCEPT !.timed = TRUE]
    BY <1>2 DEF Sees, TimeSync
  <2>2. QED
    BY <2>1 DEF Seen
<1>3. ASSUME NEW n \in 0 .. PingModulus - 1, NEW k \in Key, f = Ping(n, k)
      PROVE  Sees(f, seen) \in Seen
  <2>1. Sees(f, seen) = [ping |-> n, key |-> k, timed |-> FALSE]
    BY <1>3 DEF Sees, Ping
  <2>2. QED
    BY <2>1 DEF Seen
<1>4. QED
  BY <1>1, <1>2, <1>3 DEF Frame

(* A new connection.                                                       *)
LEMMA ConnectedKeeps ==
    ASSUME SocketInv, ~outConnected, Connected, car' \in Seen, closed' = closed
    PROVE  SocketInv' /\ conns' = conns + 1
<1>1. /\ conns' = conns + 1 /\ socket' = conns + 1 /\ peer' = conns + 1
      /\ open' = open \cup {conns + 1} /\ outConnected' = TRUE
      /\ toApp' = << >> /\ broken' = broken
  BY DEF Connected
<1>2. SocketTypes'
  BY <1>1 DEF SocketInv, SocketTypes
<1>3. SocketUsable'
  BY <1>1 DEF SocketInv, SocketTypes, SocketUsable, NoSocket
<1>4. (open \cap closed = {})' /\ (socket \in open /\ ~outConnected => socket \in broken)'
  BY <1>1 DEF SocketInv, SocketTypes
<1>5. OnlyFailedAbandoned'
  BY <1>1 DEF SocketInv, SocketTypes, OnlyFailedAbandoned
<1>6. QED
  BY <1>1, <1>2, <1>3, <1>4, <1>5 DEF SocketInv

LEMMA OutConnectKeeps ==
    ASSUME SocketInv, ~outConnected, NEW c \in Seen, closed' = closed,
           (Connected /\ car' = c) \/ ConnectFails
    PROVE  SocketInv' /\ conns' \in Nat /\ conns' >= conns
<1>1. CASE Connected /\ car' = c
  BY <1>1, ConnectedKeeps DEF SocketInv, SocketTypes
<1>2. CASE ConnectFails
  <2>1. /\ socket' = 0 /\ outConnected' = FALSE
        /\ open' = open \cup {Unconnected}
        /\ UNCHANGED <<conns, peer, toApp, broken, car>>
    BY <1>2 DEF ConnectFails, NoSocket
  <2>2. SocketTypes'
    <3>1. conns \in Nat /\ socket' \in 0 .. conns
      BY <2>1 DEF SocketInv, SocketTypes
    <3>2. outConnected' \in BOOLEAN
      BY <2>1
    <3>3. QED
      BY <2>1, <3>1, <3>2 DEF SocketInv, SocketTypes
  <2>3. SocketUsable'
    BY <2>1 DEF SocketUsable
  <2>4. OnlyFailedAbandoned'
    <3>1. 0 \notin open
      BY UnconnectedAssumption DEF UnconnectedAssumption, SocketInv, SocketTypes
    <3>2. QED
      BY <2>1, <3>1 DEF SocketInv, OnlyFailedAbandoned
  <2>5. socket' \notin open' /\ open' \cap closed' = {}
    <3>1. 0 # Unconnected /\ Unconnected \notin closed
      <4>1. 0 \in Nat /\ closed \subseteq Nat
        BY DEF SocketInv, SocketTypes
      <4>2. QED
        BY <4>1, UnconnectedAssumption DEF UnconnectedAssumption
    <3>2. 0 \notin open /\ open \cap closed = {}
      BY UnconnectedAssumption DEF UnconnectedAssumption, SocketInv, SocketTypes
    <3>3. QED
      BY <2>1, <3>1, <3>2
  <2>6. QED
    BY <2>1, <2>2, <2>3, <2>4, <2>5 DEF SocketInv, SocketTypes
<1>3. QED
  BY <1>1, <1>2

LEMMA TcpUnchanged ==
    ASSUME SocketInv, UNCHANGED <<tcp, closed>>
    PROVE  SocketInv' /\ conns' \in Nat /\ conns' >= conns
  BY DEF SocketInv, SocketTypes, SocketUsable, OnlyFailedAbandoned, tcp

(* The connected client fails in a read or a write.                        *)
LEMMA FailureKeeps ==
    ASSUME SocketInv, outConnected, outConnected' = FALSE, broken' = broken \cup {socket},
           UNCHANGED <<socket, open, conns, peer, toApp, car, closed>>
    PROVE  SocketInv' /\ conns' \in Nat /\ conns' >= conns
<1>1. socket \in 1 .. conns
  BY DEF SocketInv, SocketTypes, SocketUsable, NoSocket
<1>2. SocketTypes'
  BY <1>1 DEF SocketInv, SocketTypes
<1>3. SocketUsable' /\ OnlyFailedAbandoned'
  BY DEF SocketInv, SocketTypes, SocketUsable, OnlyFailedAbandoned
<1>4. QED
  BY <1>2, <1>3 DEF SocketInv, SocketTypes

LEMMA WriteKeeps ==
    ASSUME SocketInv, outConnected, NEW f \in Frame, Write(f), closed' = closed
    PROVE  SocketInv' /\ conns' \in Nat /\ conns' >= conns
<1>1. CASE /\ car' = Sees(f, car)
           /\ UNCHANGED <<outConnected, socket, open, conns, peer, toApp, broken>>
  <2>1. car' \in Seen
    BY <1>1, SeesType DEF SocketInv, SocketTypes
  <2>2. QED
    BY <1>1, <2>1 DEF SocketInv, SocketTypes, SocketUsable, OnlyFailedAbandoned
<1>2. CASE UNCHANGED tcp
  BY <1>2, TcpUnchanged
<1>3. CASE /\ outConnected' = FALSE /\ broken' = broken \cup {socket}
           /\ UNCHANGED <<socket, open, conns, peer, toApp, car>>
  BY <1>3, FailureKeeps
<1>4. QED
  BY <1>1, <1>2, <1>3 DEF Write

LEMMA OutboundKeeps ==
    ASSUME SocketInv, NEW f \in Frame, OutboundPublish(f), closed' = closed
    PROVE  SocketInv' /\ conns' \in Nat /\ conns' >= conns
<1>1. CASE outConnected /\ Write(f)
  BY <1>1, WriteKeeps
<1>2. CASE ~outConnected /\ ((Connected /\ car' = Sees(f, NothingSeen)) \/ ConnectFails)
  <2>1. Sees(f, NothingSeen) \in Seen
    BY NothingSeenType, SeesType
  <2>2. QED
    BY <1>2, <2>1, OutConnectKeeps
<1>3. QED
  BY <1>1, <1>2 DEF OutboundPublish

(* Publishing disrupts the connection within the bound.                    *)
LEMMA OutboundDisrupts ==
    ASSUME NEW f, OutboundPublish(f), disruptions \in 0 .. MaxDisruptions
    PROVE  disruptions' \in 0 .. MaxDisruptions
  BY SizesAssumption DEF SizesAssumption, OutboundPublish, Write

-----------------------------------------------------------------------------
(* The initial states satisfy the invariant.                               *)
LEMMA InitInv == Init => IInv
<1> SUFFICES ASSUME Init PROVE IInv
  OBVIOUS
<1>1. SocketInv
  <2>1. conns \in {0, 1} /\ socket = conns /\ peer = conns
    BY DEF Init
  <2>2. outConnected => conns = 1 /\ open = {1}
    BY DEF Init
  <2>3. ~outConnected => conns = 0 /\ open = {Unconnected}
    BY DEF Init
  <2>4. /\ outConnected \in BOOLEAN /\ toApp = << >> /\ car \in Seen
        /\ broken = {} /\ closed = {}
    BY NothingSeenType DEF Init
  <2>5. SocketTypes
    BY <2>1, <2>2, <2>3, <2>4 DEF SocketTypes
  <2>6. SocketUsable /\ OnlyFailedAbandoned
    BY <2>1, <2>2, <2>3, <2>4 DEF SocketUsable, OnlyFailedAbandoned, NoSocket
  <2>7. QED
    BY <2>1, <2>3, <2>4, <2>5, <2>6, UnconnectedAssumption DEF UnconnectedAssumption, SocketInv
<1>2. ThreadInv
  <2>1. chunk \in Seq(Message) /\ pc = "connect"
    BY DEF Init
  <2>2. retries \in 0 .. MaxRetries + 1 /\ messages \in 0 .. MaxMessages /\ disruptions \in 0 .. MaxDisruptions
    BY SizesAssumption DEF SizesAssumption, Init
  <2>3. /\ starting \in BOOLEAN /\ output \in BOOLEAN
        /\ inConnected \in BOOLEAN /\ connected \in BOOLEAN
        /\ registerDevice \in BOOLEAN /\ exit \in BOOLEAN
    BY DEF Init
  <2>4. reachable \in BOOLEAN
    BY DEF Init
  <2>5. QED
    BY <2>1, <2>2, <2>3, <2>4 DEF ThreadInv, ThreadTypes
<1>3. PingInv
  <2>1. currentPing \in 0 .. PingModulus - 1
    BY SizesAssumption DEF SizesAssumption, Init
  <2>2. /\ encrypt \in BOOLEAN /\ due \in BOOLEAN /\ leftover \in BOOLEAN
        /\ pc = "connect"
    BY DEF Init
  <2>3. pingXOR \in Key /\ commandXOR \in Key
    BY DEF Init, Key
  <2>4. QED
    BY <2>1, <2>2, <2>3 DEF PingInv
<1>4. OriginInv
  <2>1. /\ conns \in Nat /\ origin = 0 /\ closed = {}
        /\ toApp = << >> /\ chunk = << >>
    BY DEF Init, NoSocket
  <2>2. QED
    BY <2>1 DEF OriginInv, NoKeyOfClosed, Numbered
<1>5. SeenInv
  BY DEF Init, SeenInv, NothingSeen
<1>6. QED
  BY <1>1, <1>2, <1>3, <1>4, <1>5 DEF IInv

(* Every step keeps the sockets in order.                                  *)
LEMMA SocketStep ==
    ASSUME IInv, [Next]_vars
    PROVE  SocketInv' /\ conns' \in Nat /\ conns' >= conns
<1> USE DEF IInv
<1>1. Command \in Frame /\ TimeSync \in Frame /\ Ping(currentPing, pingXOR) \in Frame
  BY DEF Frame, PingInv
<1>2. CASE TryConnect
  <2>1. CASE outConnected
    BY <1>2, <2>1, TcpUnchanged DEF TryConnect
  <2>2. CASE ~outConnected
    BY <1>2, <2>2, NothingSeenType, OutConnectKeeps DEF TryConnect, OutConnect
  <2>3. QED
    BY <2>1, <2>2
<1>3. CASE ReadReconnects
  BY <1>3, NothingSeenType, OutConnectKeeps DEF ReadReconnects, OutConnect
<1>4. CASE SendStart \/ SendFirstUpdate \/ SendCommand
  BY <1>4, <1>1, OutboundKeeps DEF SendStart, SendFirstUpdate, SendCommand
<1>5. CASE ReadMessages \/ ReadDropped
  <2>1. PICK n \in 1 .. Len(toApp) : toApp' = SubSeq(toApp, n + 1, Len(toApp))
    BY <1>5 DEF ReadMessages, ReadDropped
  <2>2. toApp' \in Seq(Message)
    BY <2>1 DEF SocketInv, SocketTypes
  <2>3. UNCHANGED <<outConnected, socket, open, conns, peer, broken, car, closed>>
    BY <1>5 DEF ReadMessages, ReadDropped
  <2>4. QED
    BY <2>2, <2>3 DEF SocketInv, SocketTypes, SocketUsable, OnlyFailedAbandoned
<1>6. CASE ReadError
  BY <1>6, FailureKeeps DEF ReadError
<1>7. CASE Process
  <2>1. closed' = closed /\ (Publish(Command) \/ UNCHANGED tcp)
    BY <1>7 DEF Process
  <2>2. UNCHANGED tcp \/ (outConnected /\ Write(Command))
    BY <2>1 DEF Publish
  <2>3. CASE UNCHANGED tcp
    BY <2>1, <2>3, TcpUnchanged
  <2>4. CASE outConnected /\ Write(Command)
    BY <2>1, <2>4, <1>1, WriteKeeps
  <2>5. QED
    BY <2>2, <2>3, <2>4
<1>8. CASE SendTimeSync
  <2>1. closed' = closed /\ (OutboundPublish(TimeSync) \/ UNCHANGED tcp)
    BY <1>8 DEF SendTimeSync
  <2>2. QED
    BY <2>1, <1>1, TcpUnchanged, OutboundKeeps
<1>9. CASE SendPing
  <2>1. closed' = closed /\ (OutboundPublish(Ping(currentPing, pingXOR)) \/ UNCHANGED tcp)
    BY <1>9 DEF SendPing
  <2>2. QED
    BY <2>1, <1>1, TcpUnchanged, OutboundKeeps
<1>10. CASE DisconnectOutput
  <2>1. /\ open' = open \ {socket} /\ closed' = closed \cup ({socket} \ {NoSocket})
        /\ socket' = 0 /\ outConnected' = FALSE /\ toApp' = << >>
        /\ peer' = IF peer = socket THEN 0 ELSE peer
        /\ UNCHANGED <<conns, broken, car>>
    BY <1>10 DEF DisconnectOutput, CloseSocket, NoSocket
  <2>2. SocketTypes'
    <3>1. conns \in Nat /\ peer \in 0 .. conns /\ 0 \in 0 .. conns
      BY DEF SocketInv, SocketTypes
    <3>2. outConnected' \in BOOLEAN /\ toApp' \in Seq(Message)
      <4>1. outConnected' \in BOOLEAN
        BY <2>1
      <4>2. toApp' = << >>
        BY <2>1
      <4>3. QED
        BY <4>1, <4>2
    <3>3. open' \subseteq 1 .. conns \cup {Unconnected} /\ closed' \subseteq 1 .. conns
      BY <2>1 DEF SocketInv, SocketTypes, NoSocket
    <3>4. socket' \in 0 .. conns /\ peer' \in 0 .. conns
      <4>1. CASE peer = socket
        BY <2>1, <3>1, <4>1
      <4>2. CASE peer # socket
        BY <2>1, <3>1, <4>2
      <4>3. QED
        BY <4>1, <4>2
    <3>5. QED
      BY <2>1, <3>1, <3>2, <3>3, <3>4 DEF SocketInv, SocketTypes
  <2>3. SocketUsable'
    BY <2>1 DEF SocketUsable
  <2>4. (open \cap closed = {})' /\ socket' \notin open'
    <3>1. open \cap closed = {} /\ 0 \notin open
      BY UnconnectedAssumption DEF UnconnectedAssumption, SocketInv, SocketTypes
    <3>2. QED
      BY <2>1, <3>1
  <2>5. OnlyFailedAbandoned'
    BY <2>1 DEF SocketInv, OnlyFailedAbandoned
  <2>6. QED
    BY <2>1, <2>2, <2>3, <2>4, <2>5 DEF SocketInv, SocketTypes
<1>11. ASSUME NEW c \in {"start", "bb", "cc"}, NEW k \in Key, CarSends(c, k)
       PROVE  SocketInv' /\ conns' \in Nat /\ conns' >= conns
  <2>1. /\ toApp' = Append(toApp, [command |-> c, key |-> k, conn |-> peer])
        /\ UNCHANGED <<outConnected, socket, open, conns, peer, broken, car, closed>>
    BY <1>11 DEF CarSends
  <2>2. [command |-> c, key |-> k, conn |-> peer] \in Message
    BY DEF Message, Key, SocketInv, SocketTypes
  <2>3. toApp' \in Seq(Message)
    BY <2>1, <2>2 DEF SocketInv, SocketTypes
  <2>4. QED
    BY <2>1, <2>3 DEF SocketInv, SocketTypes, SocketUsable, OnlyFailedAbandoned
<1>12. CASE LinkLost
  BY <1>12 DEF LinkLost, SocketInv, SocketTypes, SocketUsable, OnlyFailedAbandoned, NoSocket
<1>13. CASE \/ WaitSucceeds \/ Retry \/ GiveUp \/ Stop \/ Stopped \/ TurnConnected
            \/ TurnNotConnected \/ InLoop \/ ReadNothing \/ CallbackReturns \/ NoPingNow
            \/ PingWithheld \/ DisconnectInput \/ Exit \/ CarBack \/ SecondPasses
            \/ UNCHANGED vars
  <2>1. UNCHANGED <<tcp, closed>>
    BY <1>13 DEF WaitSucceeds, Retry, GiveUp, Stop, Stopped, TurnConnected,
         TurnNotConnected, InLoop, ReadNothing, CallbackReturns, NoPingNow,
         PingWithheld, DisconnectInput, Exit, CarBack, SecondPasses, vars
  <2>2. QED
    BY <2>1, TcpUnchanged
<1>14. QED
  BY <1>2, <1>3, <1>4, <1>5, <1>6, <1>7, <1>8, <1>9, <1>10, <1>11, <1>12, <1>13
     DEF Next, Library, Waiting, Starting, Reading, Turning, Pinging, Application,
         Environment, Key

-----------------------------------------------------------------------------
(* Every step keeps the thread where it may be.                            *)
LEMMA ThreadStep == ASSUME IInv, [Next]_vars PROVE ThreadInv'
<1> USE DEF IInv
<1>1. CASE TryConnect \/ WaitSucceeds \/ GiveUp
  BY <1>1 DEF TryConnect, WaitSucceeds, GiveUp, AfterWait, service, env, ThreadInv, ThreadTypes, client
<1>2. CASE Retry
  BY <1>2, SizesAssumption
     DEF SizesAssumption, Retry, service, env, ThreadInv, ThreadTypes, client
<1>3. CASE SendStart \/ SendFirstUpdate
  <2>1. disruptions' \in 0 .. MaxDisruptions
    BY <1>3, OutboundDisrupts DEF SendStart, SendFirstUpdate, ThreadInv, ThreadTypes
  <2>2. QED
    BY <1>3, <2>1 DEF SendStart, SendFirstUpdate, service, ThreadInv, ThreadTypes, client
<1>4. CASE \/ Stop \/ TurnConnected \/ InLoop \/ ReadReconnects \/ ReadDropped \/ ReadNothing
           \/ ReadError \/ NoPingNow \/ PingWithheld
  <2>1. CASE Stop \/ TurnConnected \/ InLoop
    BY <2>1 DEF Stop, TurnConnected, InLoop, service, env, ThreadInv, ThreadTypes, client
  <2>2. CASE ReadReconnects \/ ReadDropped \/ ReadNothing \/ ReadError
    BY <2>2 DEF ReadReconnects, ReadDropped, ReadNothing, ReadError, service, env, ThreadInv,
         ThreadTypes, client
  <2>3. CASE NoPingNow \/ PingWithheld
    BY <2>3 DEF NoPingNow, PingWithheld, service, env, ThreadInv, ThreadTypes, client
  <2>4. QED
    BY <1>4, <2>1, <2>2, <2>3
<1>5. CASE TurnNotConnected
  BY <1>5, SizesAssumption
     DEF SizesAssumption, TurnNotConnected, service, env, ThreadInv, ThreadTypes, client
<1>6. CASE ReadMessages
  <2>1. PICK n \in 1 .. Len(toApp) : chunk' = SubSeq(toApp, 1, n)
    BY <1>6 DEF ReadMessages
  <2>2. chunk' \in Seq(Message) /\ chunk' # << >>
    BY <2>1 DEF SocketInv, SocketTypes
  <2>3. QED
    BY <1>6, <2>2 DEF ReadMessages, service, env, ThreadInv, ThreadTypes, client
<1>7. CASE Process
  <2>1. /\ pc = "process" /\ pc' = "callback" /\ output' \in BOOLEAN
        /\ UNCHANGED <<client, service, reachable, messages, starting, retries, chunk>>
    BY <1>7 DEF Process, ThreadInv, ThreadTypes
  <2>2. Publish(Command) \/ disruptions' = disruptions
    BY <1>7 DEF Process
  <2>3. disruptions' \in 0 .. MaxDisruptions
    BY <2>2, SizesAssumption DEF SizesAssumption, Publish, Write, ThreadInv, ThreadTypes
  <2>4. QED
    BY <2>1, <2>3 DEF service, ThreadInv, ThreadTypes, client
<1>8. CASE CallbackReturns
  <2>1. chunk' \in Seq(Message)
    BY <1>8 DEF CallbackReturns, ThreadInv, ThreadTypes
  <2>2. /\ inConnected' \in BOOLEAN /\ output' \in BOOLEAN
        /\ (pc' = "process" /\ chunk' # << >>) \/ pc' = "ping"
    BY <1>8 DEF CallbackReturns, ThreadInv, ThreadTypes
  <2>3. UNCHANGED <<connected, service, env, starting, retries>>
    BY <1>8 DEF CallbackReturns
  <2>4. QED
    BY <2>1, <2>2, <2>3 DEF service, env, ThreadInv, ThreadTypes
<1>9. CASE SendTimeSync
  <2>1. OutboundPublish(TimeSync) \/ disruptions' = disruptions
    BY <1>9 DEF SendTimeSync
  <2>2. disruptions' \in 0 .. MaxDisruptions
    BY <2>1, OutboundDisrupts DEF ThreadInv, ThreadTypes
  <2>3. QED
    BY <1>9, <2>2 DEF SendTimeSync, service, ThreadInv, ThreadTypes, client
<1>10. CASE SendPing
  <2>1. OutboundPublish(Ping(currentPing, pingXOR)) \/ disruptions' = disruptions
    BY <1>10 DEF SendPing
  <2>2. disruptions' \in 0 .. MaxDisruptions
    BY <2>1, OutboundDisrupts DEF ThreadInv, ThreadTypes
  <2>3. QED
    BY <1>10, <2>2 DEF SendPing, service, ThreadInv, ThreadTypes, client
<1>11. CASE DisconnectOutput \/ DisconnectInput
  <2>1. disruptions' \in 0 .. MaxDisruptions
    BY <1>11, SizesAssumption
       DEF SizesAssumption, DisconnectOutput, DisconnectInput, ThreadInv, ThreadTypes
  <2>2. /\ UNCHANGED <<service, reachable, messages, thread>>
        /\ inConnected' \in BOOLEAN /\ connected' \in BOOLEAN
    BY <1>11 DEF DisconnectOutput, DisconnectInput, ThreadInv, ThreadTypes
  <2>3. QED
    BY <2>1, <2>2 DEF service, thread, ThreadInv, ThreadTypes
<1>12. CASE Exit \/ CarBack \/ SecondPasses \/ Stopped \/ UNCHANGED vars
  <2>1. UNCHANGED <<client, registerDevice, messages, disruptions, thread>>
    BY <1>12 DEF Exit, CarBack, SecondPasses, Stopped, vars, service, env
  <2>2. exit' \in BOOLEAN
    BY <1>12 DEF Exit, CarBack, SecondPasses, Stopped, vars, service, ThreadInv, ThreadTypes
  <2>3. reachable' \in BOOLEAN
    BY <1>12 DEF Exit, CarBack, SecondPasses, Stopped, vars, env, ThreadInv, ThreadTypes
  <2>4. QED
    BY <2>1, <2>2, <2>3 DEF thread, client, ThreadInv, ThreadTypes
<1>13. CASE SendCommand
  <2>1. disruptions' \in 0 .. MaxDisruptions
    BY <1>13, OutboundDisrupts DEF SendCommand, ThreadInv, ThreadTypes
  <2>2. QED
    BY <1>13, <2>1 DEF SendCommand, service, thread, client, ThreadInv, ThreadTypes
<1>14. ASSUME NEW c, NEW k, CarSends(c, k) PROVE ThreadInv'
  BY <1>14, SizesAssumption
     DEF SizesAssumption, CarSends, service, thread, client, ThreadInv, ThreadTypes
<1>15. CASE LinkLost
  <2>1. disruptions' \in 0 .. MaxDisruptions
    BY <1>15, SizesAssumption DEF SizesAssumption, LinkLost, ThreadInv, ThreadTypes
  <2>2. QED
    BY <1>15, <2>1 DEF LinkLost, service, thread, client, ThreadInv, ThreadTypes
<1>16. QED
  BY <1>1, <1>2, <1>3, <1>4, <1>5, <1>6, <1>7, <1>8, <1>9, <1>10, <1>11, <1>12, <1>13,
     <1>14, <1>15
     DEF Next, Library, Waiting, Starting, Reading, Turning, Pinging, Application,
         Environment

-----------------------------------------------------------------------------
(* Every step keeps the keys, and the number of a ping waits for its key.  *)
LEMMA PingStep == ASSUME IInv, [Next]_vars PROVE PingInv'
<1> USE DEF IInv
<1>1. CASE Process
  <2>1. pc' = "callback" /\ UNCHANGED pinging
    BY <1>1 DEF Process
  <2>2. Head(chunk) \in Message
    BY <1>1 DEF Process, ThreadInv, ThreadTypes
  <2>3. encrypt' \in BOOLEAN /\ leftover' \in BOOLEAN
    BY <1>1 DEF Process, PingInv, keys
  <2>4. pingXOR' \in Key /\ commandXOR' \in Key
    BY <1>1, <2>2 DEF Process, PingInv, keys, Message, Key
  <2>5. QED
    BY <2>1, <2>3, <2>4 DEF PingInv, pinging
<1>2. CASE SendPing
  <2>1. currentPing' \in 0 .. PingModulus - 1
    BY <1>2, SizesAssumption DEF SizesAssumption, SendPing, NextPing, PingInv
  <2>2. pc' = "turn" /\ due' = FALSE /\ UNCHANGED <<keys, encrypt>>
    BY <1>2 DEF SendPing
  <2>3. QED
    BY <2>1, <2>2 DEF PingInv, keys
<1>3. CASE DisconnectOutput
  <2>1. currentPing' \in 0 .. PingModulus - 1
    BY <1>3, SizesAssumption DEF SizesAssumption, DisconnectOutput
  <2>2. pc' # "number"
    BY <1>3 DEF DisconnectOutput, InApplication, thread
  <2>3. QED
    BY <1>3, <2>1, <2>2 DEF DisconnectOutput, ForgetKeys, PingInv, Key
<1>4. CASE SendTimeSync
  BY <1>4 DEF SendTimeSync, PingInv, keys, pinging, KeyAwaited
<1>5. CASE PingWithheld
  BY <1>5 DEF PingWithheld, PingInv, keys
<1>6. CASE SecondPasses
  BY <1>6 DEF SecondPasses, PingInv, keys, thread, KeyAwaited
<1>7. CASE \/ TryConnect \/ WaitSucceeds \/ Retry \/ GiveUp \/ SendStart \/ SendFirstUpdate
           \/ Reading \/ Stop \/ TurnConnected \/ TurnNotConnected \/ InLoop
           \/ CallbackReturns \/ NoPingNow
  <2>1. UNCHANGED <<keys, encrypt, pinging>>
    BY <1>7 DEF TryConnect, WaitSucceeds, Retry, GiveUp, SendStart, SendFirstUpdate,
         Reading, ReadReconnects, ReadMessages, ReadDropped, ReadNothing, ReadError,
         Stop, TurnConnected, TurnNotConnected, InLoop, CallbackReturns, NoPingNow
  <2>2. pc' # "number"
    BY <1>7 DEF TryConnect, WaitSucceeds, Retry, GiveUp, AfterWait, SendStart,
         SendFirstUpdate, Reading, ReadReconnects, ReadMessages, ReadDropped, ReadNothing,
         ReadError, Stop, TurnConnected, TurnNotConnected, InLoop, CallbackReturns, NoPingNow
  <2>3. QED
    BY <2>1, <2>2 DEF PingInv, keys, pinging
<1>8. CASE \/ Stopped \/ DisconnectInput \/ SendCommand \/ Exit \/ LinkLost \/ CarBack
           \/ UNCHANGED vars
  <2>1. UNCHANGED <<keys, encrypt, pinging, thread>>
    BY <1>8 DEF Stopped, DisconnectInput, SendCommand, Exit, LinkLost, CarBack, vars
  <2>2. QED
    BY <2>1 DEF PingInv, keys, pinging, thread, KeyAwaited
<1>9. ASSUME NEW c, NEW k, CarSends(c, k) PROVE PingInv'
  <2>1. UNCHANGED <<keys, encrypt, pinging, thread>>
    BY <1>9 DEF CarSends
  <2>2. QED
    BY <2>1 DEF PingInv, keys, pinging, thread, KeyAwaited
<1>10. QED
  BY <1>1, <1>2, <1>3, <1>4, <1>5, <1>6, <1>7, <1>8, <1>9
     DEF Next, Library, Waiting, Starting, Turning, Pinging, Application, Environment

-----------------------------------------------------------------------------
(* The messages, from the socket to the key they announce.                 *)

LEMMA WriteLeaves == ASSUME NEW f, Write(f) PROVE toApp' = toApp
  BY DEF Write, tcp

LEMMA OutboundLeaves == ASSUME NEW f, OutboundPublish(f) PROVE toApp' \in {toApp, << >>}
  BY WriteLeaves DEF OutboundPublish, Connected, ConnectFails

LEMMA ConnectLeaves == ASSUME OutConnect PROVE toApp' \in {toApp, << >>}
  BY DEF OutConnect, Connected, ConnectFails

(* What is not taken from the socket stays numbered.                       *)
LEMMA NumberedKeeps ==
    ASSUME SocketInv, Numbered(toApp), toApp' \in {toApp, << >>},
           conns' \in Nat, conns' >= conns
    PROVE  Numbered(toApp)'
<1>1. CASE toApp' = toApp
  BY <1>1 DEF Numbered, SocketInv, SocketTypes
<1>2. CASE toApp' = << >>
  BY <1>2 DEF Numbered
<1>3. QED
  BY <1>1, <1>2

LEMMA ToAppStep == ASSUME IInv, [Next]_vars PROVE Numbered(toApp)'
<1> USE DEF IInv
<1>1. /\ conns' \in Nat /\ conns' >= conns /\ toApp' \in Seq(Message)
      /\ conns \in Nat /\ toApp \in Seq(Message)
  BY SocketStep DEF SocketInv, SocketTypes
<1>2. toApp' \in {toApp, << >>} => Numbered(toApp)'
  BY <1>1, NumberedKeeps DEF OriginInv
<1>3. CASE ReadMessages \/ ReadDropped
  <2>1. PICK n \in 1 .. Len(toApp) : toApp' = SubSeq(toApp, n + 1, Len(toApp))
    BY <1>3 DEF ReadMessages, ReadDropped
  <2>2. conns' = conns
    BY <1>3 DEF ReadMessages, ReadDropped
  <2>3. ASSUME NEW i \in 1 .. Len(toApp') PROVE toApp'[i].conn \in 0 .. conns
    <3>1. i + n \in 1 .. Len(toApp) /\ toApp'[i] = toApp[i + n]
      BY <1>1, <2>1
    <3>2. QED
      BY <3>1 DEF OriginInv, Numbered
  <2>4. QED
    BY <2>2, <2>3 DEF Numbered
<1>4. ASSUME NEW c, NEW k, CarSends(c, k) PROVE Numbered(toApp)'
  <2> DEFINE m == [command |-> c, key |-> k, conn |-> peer]
  <2>1. toApp' = Append(toApp, m) /\ conns' = conns
    BY <1>4 DEF CarSends
  <2>2. m.conn \in 0 .. conns
    BY DEF SocketInv, SocketTypes
  <2>3. ASSUME NEW i \in 1 .. Len(toApp') PROVE toApp'[i].conn \in 0 .. conns
    <3>1. CASE i \in 1 .. Len(toApp)
      <4>1. toApp'[i] = toApp[i]
        BY <1>1, <2>1, <3>1
      <4>2. QED
        BY <3>1, <4>1 DEF OriginInv, Numbered
    <3>2. CASE i = Len(toApp) + 1
      <4>1. toApp'[i] = m
        BY <1>1, <2>1, <3>2
      <4>2. QED
        BY <2>2, <4>1
    <3>3. QED
      BY <1>1, <2>1, <3>1, <3>2
  <2>4. QED
    BY <2>1, <2>3 DEF Numbered
<1>5. CASE Process
  BY <1>2, <1>5, WriteLeaves DEF Process, Publish, tcp
<1>6. CASE \/ TryConnect \/ ReadReconnects \/ SendStart \/ SendFirstUpdate \/ SendTimeSync
           \/ SendPing \/ SendCommand \/ DisconnectOutput
  <2>1. toApp' \in {toApp, << >>}
    BY <1>6, ConnectLeaves, OutboundLeaves
       DEF TryConnect, ReadReconnects, SendStart, SendFirstUpdate, SendTimeSync,
           SendPing, SendCommand, DisconnectOutput, tcp
  <2>2. QED
    BY <1>2, <2>1
<1>7. CASE \/ WaitSucceeds \/ Retry \/ GiveUp \/ ReadNothing \/ ReadError \/ Stop \/ Stopped
           \/ TurnConnected \/ TurnNotConnected \/ InLoop
           \/ CallbackReturns \/ NoPingNow \/ PingWithheld \/ DisconnectInput \/ Exit \/ LinkLost \/ CarBack \/ SecondPasses
           \/ UNCHANGED vars
  <2>1. toApp' = toApp
    BY <1>7 DEF WaitSucceeds, Retry, GiveUp, ReadNothing, ReadError, Stop, Stopped,
         TurnConnected, TurnNotConnected, InLoop, CallbackReturns, NoPingNow,
         PingWithheld, DisconnectInput, Exit, LinkLost, CarBack, SecondPasses, vars, tcp
  <2>2. QED
    BY <1>2, <2>1
<1>8. QED
  BY <1>3, <1>4, <1>5, <1>6, <1>7
     DEF Next, Library, Waiting, Starting, Reading, Turning, Pinging, Application,
         Environment

(* The messages of a read keep their numbers while they are processed.     *)
LEMMA ChunkStep == ASSUME IInv, [Next]_vars PROVE Numbered(chunk)'
<1> USE DEF IInv
<1>1. /\ conns' \in Nat /\ conns' >= conns /\ conns \in Nat
      /\ chunk \in Seq(Message) /\ toApp \in Seq(Message)
  BY SocketStep DEF SocketInv, SocketTypes, ThreadInv, ThreadTypes
<1>2. CASE ReadMessages
  <2>1. PICK n \in 1 .. Len(toApp) : chunk' = SubSeq(toApp, 1, n)
    BY <1>2 DEF ReadMessages
  <2>2. conns' = conns
    BY <1>2 DEF ReadMessages
  <2>3. ASSUME NEW i \in 1 .. Len(chunk') PROVE chunk'[i].conn \in 0 .. conns
    <3>1. i \in 1 .. Len(toApp) /\ chunk'[i] = toApp[i]
      BY <1>1, <2>1
    <3>2. QED
      BY <3>1 DEF OriginInv, Numbered
  <2>4. QED
    BY <2>2, <2>3 DEF Numbered
<1>3. CASE CallbackReturns
  <2>1. chunk' = Tail(chunk) /\ conns' = conns /\ chunk # << >>
    BY <1>3 DEF CallbackReturns, tcp, ThreadInv
  <2>2. ASSUME NEW i \in 1 .. Len(chunk') PROVE chunk'[i].conn \in 0 .. conns
    <3>1. i + 1 \in 1 .. Len(chunk) /\ chunk'[i] = chunk[i + 1]
      BY <1>1, <2>1
    <3>2. QED
      BY <3>1 DEF OriginInv, Numbered
  <2>3. QED
    BY <2>1, <2>2 DEF Numbered
<1>4. CASE chunk' = chunk
  BY <1>1, <1>4 DEF Numbered, OriginInv
<1>5. ReadMessages \/ CallbackReturns \/ chunk' = chunk
  BY DEF Next, Library, Waiting, Starting, Reading, Turning, Pinging, Application,
       Environment, TryConnect, WaitSucceeds, Retry, GiveUp, SendStart, SendFirstUpdate,
       ReadReconnects, ReadDropped, ReadNothing, ReadError, Stop,
       Stopped, TurnConnected, TurnNotConnected, InLoop, Process, NoPingNow, PingWithheld,
       SendTimeSync, SendPing, DisconnectOutput, DisconnectInput, Exit, SendCommand, CarSends, LinkLost, CarBack,
       SecondPasses, vars, thread
<1>6. QED
  BY <1>2, <1>3, <1>4, <1>5

(* Only Process takes up a key, and only DisconnectOutput, which forgets   *)
(* it, closes a socket.                                                    *)
LEMMA OriginStep == ASSUME IInv, [Next]_vars PROVE OriginInv'
<1> USE DEF IInv
<1>1. conns' \in Nat /\ conns' >= conns /\ conns \in Nat
  BY SocketStep DEF SocketInv, SocketTypes
<1>2. CASE Process
  <2> DEFINE m == Head(chunk)
  <2>1. m = chunk[1] /\ 1 \in 1 .. Len(chunk)
    BY <1>2 DEF Process, ThreadInv, ThreadTypes
  <2>2. m.conn \in 0 .. conns
    BY <2>1 DEF OriginInv, Numbered
  <2>3. closed' = closed
    BY <1>2 DEF Process
  <2>4. CASE m.command = "start"
    <3>1. UNCHANGED <<pingXOR, origin, leftover>>
      BY <1>2, <2>4 DEF Process, keys
    <3>2. QED
      BY <1>1, <2>3, <3>1, ToAppStep, ChunkStep DEF OriginInv, NoKeyOfClosed
  <2>5. CASE m.command # "start"
    <3>1. origin' = m.conn /\ leftover' = (leftover \/ m.conn \in closed)
      BY <1>2, <2>5 DEF Process
    <3>2. NoKeyOfClosed'
      BY <2>3, <3>1 DEF NoKeyOfClosed
    <3>3. origin' \in 0 .. conns'
      BY <1>1, <2>2, <3>1
    <3>4. QED
      BY <3>2, <3>3, ToAppStep, ChunkStep DEF OriginInv
  <2>6. QED
    BY <2>4, <2>5
<1>3. CASE DisconnectOutput
  <2>1. origin' = 0 /\ pingXOR' = NoXOR
    BY <1>3 DEF DisconnectOutput, ForgetKeys, NoSocket
  <2>2. QED
    BY <1>1, <2>1, ToAppStep, ChunkStep DEF OriginInv, NoKeyOfClosed
<1>4. CASE UNCHANGED <<keys, closed>>
  BY <1>1, <1>4, ToAppStep, ChunkStep DEF OriginInv, NoKeyOfClosed, keys
<1>5. Process \/ DisconnectOutput \/ UNCHANGED <<keys, closed>>
  BY DEF Next, Library, Waiting, Starting, Reading, Turning, Pinging, Application,
       Environment, TryConnect, WaitSucceeds, Retry, GiveUp, SendStart, SendFirstUpdate,
       ReadReconnects, ReadMessages, ReadDropped, ReadNothing, ReadError, Stop,
       Stopped, TurnConnected, TurnNotConnected, InLoop, CallbackReturns, NoPingNow,
       PingWithheld, SendTimeSync, SendPing, DisconnectInput, Exit, SendCommand, CarSends, LinkLost, CarBack,
       SecondPasses, vars
<1>6. QED
  BY <1>2, <1>3, <1>4, <1>5

-----------------------------------------------------------------------------
(* What the car sees.                                                      *)

LEMMA SeesCommand == \A seen : Sees(Command, seen) = seen
  BY DEF Sees, Command

LEMMA SeesTime ==
    ASSUME NEW seen \in Seen
    PROVE  Sees(TimeSync, seen).ping = seen.ping /\ Sees(TimeSync, seen).timed = TRUE
<1>1. Sees(TimeSync, seen) = [seen EXCEPT !.timed = TRUE]
  BY DEF Sees, TimeSync
<1>2. QED
  BY <1>1 DEF Seen

LEMMA SeesPing ==
    \A n, k, seen : Sees(Ping(n, k), seen) = [ping |-> n, key |-> k, timed |-> FALSE]
  BY DEF Sees, Ping

(* A frame is lost with its connection, or reaches the car on the one that *)
(* stands or on a new one.                                                 *)
LEMMA FrameSent ==
    ASSUME NEW f, Publish(f) \/ OutboundPublish(f)
    PROVE  \/ car' = car /\ (~outConnected' \/ peer' # socket')
           \/ /\ car' = Sees(f, car) /\ peer = socket /\ outConnected
              /\ UNCHANGED <<outConnected, peer, socket, conns>>
           \/ car' = Sees(f, NothingSeen) /\ conns' = conns + 1
<1>1. CASE outConnected /\ Write(f)
  BY <1>1 DEF Write, tcp
<1>2. CASE ~outConnected /\ UNCHANGED tcp
  BY <1>2 DEF tcp
<1>3. CASE ~outConnected /\ Connected /\ car' = Sees(f, NothingSeen)
  BY <1>3 DEF Connected
<1>4. CASE ~outConnected /\ ConnectFails
  BY <1>4 DEF ConnectFails
<1>5. QED
  BY <1>1, <1>2, <1>3, <1>4 DEF Publish, OutboundPublish

(* A step that sends neither time nor ping.                                *)
LEMMA SeenKeeps ==
    ASSUME SeenInv, pc # "number", pc' # "number", UNCHANGED <<currentPing, registerDevice>>,
           \/ ~outConnected'
           \/ peer' # socket'
           \/ outConnected /\ peer = socket /\ car' = car
           \/ car' = NothingSeen
    PROVE  SeenInv'
  BY DEF SeenInv, NothingSeen

LEMMA SeenStep == ASSUME IInv, [Next]_vars PROVE SeenInv'
<1> USE DEF IInv
<1>1. CASE TryConnect \/ ReadReconnects
  <2>1. pc # "number" /\ pc' # "number" /\ UNCHANGED <<currentPing, registerDevice>>
    BY <1>1 DEF TryConnect, ReadReconnects, pinging, service
  <2>2. UNCHANGED tcp \/ OutConnect
    BY <1>1 DEF TryConnect, ReadReconnects
  <2>3. QED
    BY <2>1, <2>2, SeenKeeps DEF tcp, OutConnect, ConnectFails
<1>2. CASE SendStart \/ SendFirstUpdate \/ SendCommand \/ Process
  <2>1. pc # "number" /\ pc' # "number" /\ UNCHANGED <<currentPing, registerDevice>>
    BY <1>2 DEF SendStart, SendFirstUpdate, SendCommand, Process, InApplication,
         pinging, service, thread
  <2>2. UNCHANGED tcp \/ Publish(Command) \/ OutboundPublish(Command)
    BY <1>2 DEF SendStart, SendFirstUpdate, SendCommand, Process
  <2>3. CASE UNCHANGED tcp
    BY <2>1, <2>3, SeenKeeps DEF tcp
  <2>4. CASE Publish(Command) \/ OutboundPublish(Command)
    BY <2>1, <2>4, FrameSent, SeesCommand, SeenKeeps
  <2>5. QED
    BY <2>2, <2>3, <2>4
<1>3. CASE \/ WaitSucceeds \/ Retry \/ GiveUp \/ ReadMessages \/ ReadDropped \/ ReadNothing
           \/ ReadError \/ Stop \/ TurnConnected \/ TurnNotConnected \/ InLoop \/ CallbackReturns
           \/ NoPingNow \/ PingWithheld
  <2>1. pc # "number" /\ pc' # "number" /\ UNCHANGED <<currentPing, registerDevice>>
    BY <1>3 DEF WaitSucceeds, Retry, GiveUp, AfterWait, ReadMessages, ReadDropped, ReadNothing,
         ReadError, Stop, TurnConnected, TurnNotConnected, InLoop, CallbackReturns,
         NoPingNow, PingWithheld, pinging, service
  <2>2. ~outConnected' \/ UNCHANGED <<outConnected, peer, socket, car>>
    BY <1>3 DEF WaitSucceeds, Retry, GiveUp, ReadMessages, ReadDropped, ReadNothing, ReadError,
         Stop, TurnConnected, TurnNotConnected, InLoop, CallbackReturns, NoPingNow,
         PingWithheld, tcp
  <2>3. QED
    BY <2>1, <2>2, SeenKeeps
<1>4. CASE SendTimeSync
  <2>1. /\ pc # "number" /\ pc' = "number" /\ outConnected
        /\ UNCHANGED <<currentPing, registerDevice>>
        /\ IF SyncDue THEN OutboundPublish(TimeSync) ELSE UNCHANGED tcp
    BY <1>4 DEF SendTimeSync, pinging, service
  <2>2. car \in Seen /\ SyncDue' = SyncDue
    BY <2>1 DEF SyncDue, SocketInv, SocketTypes
  <2>3. CASE ~SyncDue
    BY <2>1, <2>2, <2>3 DEF SeenInv, tcp
  <2>4. CASE SyncDue
    <3>1. Write(TimeSync)
      BY <2>1, <2>4 DEF OutboundPublish
    <3>2. \/ ~outConnected' \/ peer' # socket'
          \/ car' = Sees(TimeSync, car) /\ peer = socket
      BY <3>1 DEF Write, tcp
    <3>3. QED
      BY <2>1, <2>2, <2>4, <3>2, SeesTime DEF SeenInv
  <2>5. QED
    BY <2>3, <2>4
<1>5. CASE SendPing
  <2> DEFINE f == Ping(currentPing, pingXOR)
  <2>1. /\ pc = "number" /\ pc' = "turn" /\ currentPing' = (currentPing + 1) % PingModulus
        /\ registerDevice' = registerDevice
    BY <1>5 DEF SendPing, NextPing, service
  <2>2. CASE registerDevice
    <3>1. UNCHANGED tcp
      BY <1>5, <2>2 DEF SendPing
    <3>2. QED
      BY <2>1, <2>2, <3>1 DEF SeenInv, SyncDue, tcp
  <2>3. CASE ~registerDevice
    <3>1. OutboundPublish(f)
      BY <1>5, <2>3 DEF SendPing
    <3>2. \/ ~outConnected' \/ peer' # socket'
          \/ car' = [ping |-> currentPing, key |-> pingXOR, timed |-> FALSE]
      BY <3>1, FrameSent, SeesPing
    <3>3. QED
      BY <2>1, <2>3, <3>2 DEF SeenInv
  <2>4. QED
    BY <2>2, <2>3
<1>6. CASE DisconnectOutput
  BY <1>6 DEF DisconnectOutput, SeenInv
<1>7. CASE LinkLost
  BY <1>7 DEF LinkLost, SeenInv, SocketInv, SocketUsable
<1>8. CASE Stopped \/ DisconnectInput \/ Exit \/ CarBack \/ SecondPasses \/ UNCHANGED vars
  <2>1. UNCHANGED <<outConnected, peer, socket, car, currentPing, pc, registerDevice>>
    BY <1>8 DEF Stopped, DisconnectInput, Exit, CarBack, SecondPasses, vars, tcp,
         pinging, thread, service
  <2>2. QED
    BY <2>1 DEF SeenInv, SyncDue
<1>9. ASSUME NEW c, NEW k, CarSends(c, k) PROVE SeenInv'
  <2>1. UNCHANGED <<outConnected, peer, socket, car, currentPing, pc, registerDevice>>
    BY <1>9 DEF CarSends, pinging, thread, service
  <2>2. QED
    BY <2>1 DEF SeenInv, SyncDue
<1>10. QED
  BY <1>1, <1>2, <1>3, <1>4, <1>5, <1>6, <1>7, <1>8, <1>9
     DEF Next, Library, Waiting, Starting, Reading, Turning, Pinging, Application,
         Environment

-----------------------------------------------------------------------------
(* The invariant, and what follows from it.                                *)

LEMMA StepInv == IInv /\ [Next]_vars => IInv'
  BY SocketStep, ThreadStep, PingStep, OriginStep, SeenStep DEF IInv

(* Every reachable state satisfies the inductive invariant.                *)
THEOREM ConnectionInvariant == Spec => []IInv
  BY InitInv, StepInv, PTL DEF Spec

LEMMA InvType == IInv => TypeOK
<1> SUFFICES ASSUME IInv PROVE TypeOK
  OBVIOUS
<1> USE DEF IInv
<1>1. SocketTypes /\ ThreadTypes /\ PingInv /\ OriginInv
  BY DEF SocketInv, ThreadInv
<1>2. {starting, inConnected, outConnected, connected, encrypt, due,
       registerDevice, exit, reachable, leftover, output} \subseteq BOOLEAN
  BY <1>1 DEF SocketTypes, ThreadTypes, PingInv
<1>3. {socket, peer, origin} \subseteq 0 .. conns /\ broken \cup closed \subseteq 1 .. conns
  BY <1>1 DEF SocketTypes, OriginInv
<1>4. {pingXOR, commandXOR} \subseteq Keys \cup {NoXOR} /\ currentPing \in 0 .. PingModulus - 1
  BY <1>1 DEF PingInv, Key
<1>5. car \in [ping : 0 .. PingModulus - 1 \cup {NoPing}, key : Keys \cup {NoXOR}, timed : BOOLEAN]
  BY <1>1 DEF SocketTypes, Seen, Key
<1>6. QED
  BY <1>1, <1>2, <1>3, <1>4, <1>5 DEF TypeOK, SocketTypes, ThreadTypes

(* Every variable of the connection keeps its type, the ping number below  *)
(* PingModulus and the retries within MaxRetries + 1 among them.           *)
THEOREM ConnectionTypes == Spec => []TypeOK
  BY ConnectionInvariant, InvType, PTL

(* A client that counts as connected has an open socket: whichever of      *)
(* phev_pipe_waitForConnection, msg_pipe_outboundPublish and               *)
(* msg_tcpip_incomingHandler connected, and whatever failed.               *)
THEOREM SocketAlwaysUsable == Spec => []SocketUsable
<1>1. IInv => SocketUsable
  BY DEF IInv, SocketInv
<1>2. QED
  BY <1>1, ConnectionInvariant, PTL

(* The sockets that msg_tcpip_connect leaves open behind it are those that *)
(* failed: in the attempt to connect (phev_tcpip.c 277-291), in a read or  *)
(* in a write.  What msg_tcpip_disconnect took is closed.                  *)
THEOREM AbandonedHaveFailed == Spec => []OnlyFailedAbandoned
<1>1. IInv => OnlyFailedAbandoned
  BY DEF IInv, SocketInv
<1>2. QED
  BY <1>1, ConnectionInvariant, PTL

(* phev_pipe_disconnectOutput forgets the keys of its connection, and none *)
(* comes back but from a read still being processed at the call.           *)
THEOREM KeysForgotten == Spec => []NoKeyOfClosed
<1>1. IInv => NoKeyOfClosed
  BY DEF IInv, OriginInv
<1>2. QED
  BY <1>1, ConnectionInvariant, PTL

-----------------------------------------------------------------------------
(* The pings.                                                              *)

(* Only SendPing sends a ping; a new connection has seen none.             *)
LEMMA PingFromSendPing ==
    ASSUME IInv, [Next]_vars, ~SendPing
    PROVE  car'.ping = car.ping \/ (car'.ping = NoPing /\ conns' = conns + 1)
<1> USE DEF IInv
<1>1. car \in Seen /\ NothingSeen \in Seen /\ NothingSeen.ping = NoPing
  BY NothingSeenType DEF SocketInv, SocketTypes, NothingSeen
<1>2. ASSUME NEW f \in {Command, TimeSync}, Publish(f) \/ OutboundPublish(f)
      PROVE  car'.ping = car.ping \/ (car'.ping = NoPing /\ conns' = conns + 1)
  <2>1. Sees(f, car).ping = car.ping /\ Sees(f, NothingSeen).ping = NoPing
    BY <1>1, SeesCommand, SeesTime
  <2>2. QED
    BY <1>2, <2>1, FrameSent
<1>3. CASE OutConnect
  BY <1>1, <1>3 DEF OutConnect, Connected, ConnectFails
<1>4. \/ OutConnect \/ car' = car
      \/ \E f \in {Command, TimeSync} : Publish(f) \/ OutboundPublish(f)
  BY DEF Next, Library, Waiting, Starting, Reading, Turning, Pinging, Application,
       Environment, TryConnect, WaitSucceeds, Retry, GiveUp, SendStart, SendFirstUpdate,
       ReadReconnects, ReadMessages, ReadDropped, ReadNothing, ReadError, Stop,
       Stopped, TurnConnected, TurnNotConnected, InLoop, Process, CallbackReturns,
       NoPingNow, PingWithheld, SendTimeSync, DisconnectOutput, DisconnectInput, Exit, SendCommand, CarSends,
       LinkLost, CarBack, SecondPasses, vars, tcp
<1>5. QED
  BY <1>2, <1>3, <1>4

(* What a ping tells the car, on the connection that stands or a new one.  *)
LEMMA PingSeen ==
    ASSUME SendPing, car' # car
    PROVE  /\ ~registerDevice
           /\ car' = [ping |-> currentPing, key |-> pingXOR, timed |-> FALSE]
           /\ conns' = conns + 1 \/ (conns' = conns /\ outConnected /\ peer = socket)
<1>1. ~registerDevice /\ OutboundPublish(Ping(currentPing, pingXOR))
  BY DEF SendPing, tcp
<1>2. QED
  BY <1>1, FrameSent, SeesPing

(* A new ping on a connection follows on what the car saw of it.           *)
LEMMA NewPingFollows ==
    ASSUME IInv, [Next]_vars, NewPing
    PROVE  /\ car'.ping = (car.ping + 1) % PingModulus
           /\ car.timed <=> car'.ping % SyncPeriod = 0
<1> USE DEF IInv
<1>1. conns' = conns /\ car.ping # NoPing /\ car'.ping # car.ping /\ conns \in Nat
  BY DEF NewPing, SocketInv, SocketTypes
<1>2. SendPing
  BY <1>1, PingFromSendPing
<1>3. /\ ~registerDevice /\ car'.ping = currentPing
      /\ outConnected /\ peer = socket
  BY <1>1, <1>2, PingSeen
<1>4. pc = "number"
  BY <1>2 DEF SendPing
<1>5. QED
  BY <1>1, <1>3, <1>4 DEF SeenInv, SyncDue

(* The car sees the pings of a connection numbered without a gap, whatever *)
(* is lost, read or withheld in between.                                   *)
THEOREM PingsNumbered == Spec => PingsInOrder
<1>1. ASSUME IInv, [Next]_vars
      PROVE  [NewPing => car'.ping = (car.ping + 1) % PingModulus]_vars
  BY <1>1, NewPingFollows
<1>2. QED
  BY <1>1, ConnectionInvariant, PTL DEF Spec, PingsInOrder

(* The car gets the time before each ping numbered with a multiple of      *)
(* SyncPeriod, and before no other.                                        *)
THEOREM TimeSynced == Spec => TimeBeforePing
<1>1. ASSUME IInv, [Next]_vars
      PROVE  [NewPing => (car'.ping % SyncPeriod = 0 <=> car.timed)]_vars
  BY <1>1, NewPingFollows
<1>2. QED
  BY <1>1, ConnectionInvariant, PTL DEF Spec, TimeBeforePing

(* phev_pipe_ping sends a ping with pingXOR, which it waited for when the  *)
(* car had started encryption.                                             *)
LEMMA PingHasKey ==
    ASSUME IInv, SendPing, encrypt
    PROVE  car' = car \/ car'.key # NoXOR
<1>1. pingXOR # NoXOR
  BY DEF IInv, PingInv, SendPing, KeyAwaited
<1>2. QED
  BY <1>1, PingSeen

(* Once the car has started encryption no ping reaches it in the clear,    *)
(* across any losses, reconnections and keys.                              *)
THEOREM NoPingInTheClear == Spec => NoPlainPing
<1>1. ASSUME IInv, [Next]_vars
      PROVE  [car'.ping \notin {car.ping, NoPing} /\ encrypt => car'.key # NoXOR]_vars
  BY <1>1, PingFromSendPing, PingHasKey
<1>2. QED
  BY <1>1, ConnectionInvariant, PTL DEF Spec, NoPlainPing

-----------------------------------------------------------------------------
(* The connection implements CarSession.                                   *)

(* The library still writes to the connection the car holds.               *)
Stands == outConnected /\ peer = socket

LEMMA SessionInit == Init => Session!Init
<1> SUFFICES ASSUME Init PROVE Session!Init
  OBVIOUS
<1>1. /\ conns \in {0, 1} /\ Stands = (conns = 1)
      /\ car = NothingSeen /\ encrypt = FALSE /\ registerDevice \in BOOLEAN
  BY DEF Init, Stands
<1>2. NothingSeen = Session!Nothing
  BY DEF NothingSeen, Session!Nothing
<1>3. QED
  BY <1>1, <1>2 DEF Session!Init, Stands

(* A connection that is made where the last does not stand.                *)
LEMMA SessionOpen ==
    ASSUME Connected, ~outConnected, UNCHANGED <<encrypt, registerDevice>>,
           \/ car' = NothingSeen
           \/ ~registerDevice /\ \E n \in Session!Number, k \in Key :
                  (encrypt => k # NoXOR) /\ car' = [ping |-> n, key |-> k, timed |-> FALSE]
    PROVE  Session!Open
<1>1. conns' = conns + 1 /\ ~Stands /\ Stands' = TRUE
  BY DEF Connected, Stands
<1>2. car' = Session!Nothing \/ \E n \in Session!Number, k \in Keys \cup {NoXOR} : Session!Ping(n, k)
  BY DEF NothingSeen, Session!Nothing, Session!Ping, Key
<1>3. QED
  BY <1>1, <1>2 DEF Session!Open, Stands

(* A step that changes what is written to breaks the connection at most.   *)
LEMMA SessionBreak ==
    ASSUME UNCHANGED <<conns, car, encrypt, registerDevice>>, ~Stands' \/ Stands' = Stands
    PROVE  Session!Break \/ UNCHANGED Session!vars
<1>1. CASE ~Stands'
  BY <1>1 DEF Session!Break, Stands
<1>2. CASE Stands' = Stands
  BY <1>2 DEF Session!vars, Stands
<1>3. QED
  BY <1>1, <1>2

LEMMA SessionConnect ==
    ASSUME OutConnect, ~outConnected, UNCHANGED <<encrypt, registerDevice>>
    PROVE  Session!Next \/ UNCHANGED Session!vars
<1>1. CASE Connected /\ car' = NothingSeen
  BY <1>1, SessionOpen DEF Session!Next
<1>2. CASE ConnectFails
  <2>1. UNCHANGED <<conns, car>> /\ ~Stands'
    BY <1>2 DEF ConnectFails, Stands
  <2>2. QED
    BY <2>1, SessionBreak DEF Session!Next
<1>3. QED
  BY <1>1, <1>2 DEF OutConnect

(* The car sees nothing of a command.                                      *)
LEMMA SessionCommand ==
    ASSUME OutboundPublish(Command), UNCHANGED <<encrypt, registerDevice>>
    PROVE  Session!Next \/ UNCHANGED Session!vars
<1>1. CASE outConnected /\ Write(Command)
  <2>1. UNCHANGED <<conns, car>> /\ (~Stands' \/ Stands' = Stands)
    BY <1>1, SeesCommand DEF Write, tcp, Stands
  <2>2. QED
    BY <2>1, SessionBreak DEF Session!Next
<1>2. CASE ~outConnected /\ Connected /\ car' = Sees(Command, NothingSeen)
  BY <1>2, SeesCommand, SessionOpen DEF Session!Next
<1>3. CASE ~outConnected /\ ConnectFails
  <2>1. UNCHANGED <<conns, car>> /\ ~Stands'
    BY <1>3 DEF ConnectFails, Stands
  <2>2. QED
    BY <2>1, SessionBreak DEF Session!Next
<1>4. QED
  BY <1>1, <1>2, <1>3 DEF OutboundPublish

(* The time comes when the next number on the connection asks for it.      *)
LEMMA SessionTime ==
    ASSUME IInv, SendTimeSync
    PROVE  Session!Next \/ UNCHANGED Session!vars
<1>1. /\ pc = "ping" /\ outConnected /\ UNCHANGED <<encrypt, registerDevice>>
      /\ IF SyncDue THEN OutboundPublish(TimeSync) ELSE UNCHANGED tcp
  BY DEF SendTimeSync, service
<1>2. CASE UNCHANGED tcp
  <2>1. UNCHANGED <<conns, car>> /\ Stands' = Stands
    BY <1>2 DEF tcp, Stands
  <2>2. QED
    BY <1>1, <2>1, SessionBreak DEF Session!Next
<1>3. CASE SyncDue /\ Write(TimeSync)
  <2>1. CASE Stands /\ car' = Sees(TimeSync, car) /\ UNCHANGED <<outConnected, socket, conns, peer>>
    <3>1. ~registerDevice /\ currentPing % SyncPeriod = 0
      BY <1>3 DEF SyncDue
    <3>2. ~car.timed /\ (car.ping # NoPing => currentPing = (car.ping + 1) % PingModulus)
      BY <1>1, <2>1 DEF IInv, SeenInv, Stands
    <3>3. car' = [car EXCEPT !.timed = TRUE]
      BY <2>1 DEF Sees, TimeSync
    <3>4. Session!TimeArrives
      BY <1>1, <2>1, <3>1, <3>2, <3>3
         DEF Session!TimeArrives, Session!Timed, Session!Following, Stands
    <3>5. QED
      BY <3>4 DEF Session!Next
  <2>2. CASE UNCHANGED <<conns, car>> /\ (~Stands' \/ Stands' = Stands)
    BY <1>1, <2>2, SessionBreak DEF Session!Next
  <2>3. QED
    BY <1>1, <1>3, <2>1, <2>2 DEF Write, tcp, Stands
<1>4. QED
  BY <1>1, <1>2, <1>3 DEF OutboundPublish

(* A ping follows on the one the car saw last, with its key and its time.  *)
LEMMA SessionPing ==
    ASSUME IInv, SendPing
    PROVE  Session!Next \/ UNCHANGED Session!vars
<1> DEFINE f == Ping(currentPing, pingXOR)
           seen == [ping |-> currentPing, key |-> pingXOR, timed |-> FALSE]
<1>1. /\ pc = "number" /\ UNCHANGED <<encrypt, registerDevice>>
      /\ IF registerDevice THEN UNCHANGED tcp ELSE OutboundPublish(f)
  BY DEF SendPing, service
<1>2. CASE UNCHANGED tcp
  <2>1. UNCHANGED <<conns, car>> /\ Stands' = Stands
    BY <1>2 DEF tcp, Stands
  <2>2. QED
    BY <1>1, <2>1, SessionBreak DEF Session!Next
<1>3. currentPing \in Session!Number /\ pingXOR \in Key /\ (encrypt => pingXOR # NoXOR)
  BY <1>1 DEF IInv, PingInv, KeyAwaited, Session!Number
<1>4. \A s : Sees(f, s) = seen
  BY SeesPing
<1> HIDE DEF f
<1>5. CASE ~registerDevice /\ outConnected /\ Write(f)
  <2>1. CASE Stands /\ car' = seen /\ UNCHANGED <<outConnected, socket, conns, peer>>
    <3>1. /\ car.ping # NoPing => currentPing = (car.ping + 1) % PingModulus
          /\ car.timed <=> currentPing % SyncPeriod = 0
      BY <1>1, <1>5, <2>1 DEF IInv, SeenInv, SyncDue, Stands
    <3>2. Session!Ping(currentPing, pingXOR)
      BY <1>3, <1>5, <2>1 DEF Session!Ping
    <3>3. Session!PingArrives
      BY <1>1, <1>3, <2>1, <3>1, <3>2
         DEF Session!PingArrives, Session!Timed, Session!Following, Stands, Key
    <3>4. QED
      BY <3>3 DEF Session!Next
  <2>2. CASE UNCHANGED <<conns, car>> /\ (~Stands' \/ Stands' = Stands)
    BY <1>1, <2>2, SessionBreak DEF Session!Next
  <2>3. QED
    BY <1>4, <1>5, <2>1, <2>2 DEF Write, tcp, Stands
<1>6. CASE ~registerDevice /\ ~outConnected /\ Connected /\ car' = Sees(f, NothingSeen)
  BY <1>1, <1>3, <1>4, <1>6, SessionOpen DEF Session!Next
<1>7. CASE ~outConnected /\ ConnectFails
  <2>1. UNCHANGED <<conns, car>> /\ ~Stands'
    BY <1>7 DEF ConnectFails, Stands
  <2>2. QED
    BY <1>1, <2>1, SessionBreak DEF Session!Next
<1>8. QED
  BY <1>1, <1>2, <1>5, <1>6, <1>7 DEF OutboundPublish

(* A start message is answered if the client is connected.                 *)
LEMMA SessionProcess ==
    ASSUME Process
    PROVE  Session!Next \/ UNCHANGED Session!vars
<1>1. registerDevice' = registerDevice
  BY DEF Process, service
<1>2. CASE Publish(Command) /\ encrypt' = TRUE
  <2>1. UNCHANGED <<conns, car>> /\ (~Stands' \/ Stands' = Stands)
    BY <1>2, SeesCommand DEF Publish, Write, tcp, Stands
  <2>2. Session!StartEncryption
    BY <1>1, <1>2, <2>1 DEF Session!StartEncryption, Stands
  <2>3. QED
    BY <2>2 DEF Session!Next
<1>3. CASE UNCHANGED <<tcp, encrypt>>
  BY <1>1, <1>3 DEF tcp, Session!vars
<1>4. QED
  BY <1>2, <1>3 DEF Process

(* Each step is a step of CarSession, or leaves its variables alone.       *)
LEMMA SessionNext == IInv /\ [Next]_vars => [Session!Next]_(Session!vars)
<1> SUFFICES ASSUME IInv, [Next]_vars
             PROVE  Session!Next \/ UNCHANGED Session!vars
  OBVIOUS
<1>1. CASE TryConnect \/ ReadReconnects
  <2>1. UNCHANGED <<encrypt, registerDevice>> /\ (UNCHANGED tcp \/ (~outConnected /\ OutConnect))
    BY <1>1 DEF TryConnect, ReadReconnects, service
  <2>2. QED
    BY <2>1, SessionConnect DEF Session!vars, tcp
<1>2. CASE SendStart \/ SendFirstUpdate \/ SendCommand
  <2>1. OutboundPublish(Command) /\ UNCHANGED <<encrypt, registerDevice>>
    BY <1>2 DEF SendStart, SendFirstUpdate, SendCommand, service
  <2>2. QED
    BY <2>1, SessionCommand
<1>3. CASE DisconnectOutput
  <2>1. /\ UNCHANGED <<conns, car, registerDevice>> /\ encrypt' = FALSE /\ ~Stands'
    BY <1>3 DEF DisconnectOutput, service, Stands
  <2>2. QED
    BY <2>1 DEF Session!Close, Session!Next, Stands
<1>4. CASE LinkLost
  <2>1. UNCHANGED <<conns, car, encrypt, registerDevice>> /\ peer' = NoSocket /\ UNCHANGED <<socket, outConnected>>
    BY <1>4 DEF LinkLost, service
  <2>2. ~Stands'
    BY <2>1 DEF IInv, SocketInv, SocketUsable, Stands
  <2>3. QED
    BY <2>1, <2>2, SessionBreak DEF Session!Next
<1>5. CASE ReadError
  <2>1. UNCHANGED <<conns, car, encrypt, registerDevice>> /\ ~Stands'
    BY <1>5 DEF ReadError, service, Stands
  <2>2. QED
    BY <2>1, SessionBreak DEF Session!Next
<1>6. CASE \/ WaitSucceeds \/ Retry \/ GiveUp \/ ReadMessages \/ ReadDropped \/ ReadNothing
           \/ Stop \/ Stopped \/ TurnConnected \/ TurnNotConnected \/ InLoop
           \/ CallbackReturns \/ NoPingNow \/ PingWithheld \/ DisconnectInput \/ Exit \/ CarBack \/ SecondPasses
           \/ UNCHANGED vars
  <2>1. UNCHANGED <<conns, outConnected, peer, socket, car, encrypt, registerDevice>>
    BY <1>6 DEF WaitSucceeds, Retry, GiveUp, ReadMessages, ReadDropped, ReadNothing, Stop, Stopped,
         TurnConnected, TurnNotConnected, InLoop, CallbackReturns, NoPingNow,
         PingWithheld, DisconnectInput, Exit, CarBack, SecondPasses, vars, tcp, service
  <2>2. QED
    BY <2>1 DEF Session!vars
<1>7. ASSUME NEW c, NEW k, CarSends(c, k) PROVE UNCHANGED Session!vars
  BY <1>7 DEF CarSends, service, Session!vars
<1>8. QED
  BY <1>1, <1>2, <1>3, <1>4, <1>5, <1>6, <1>7, SessionProcess, SessionTime, SessionPing
     DEF Next, Library, Waiting, Starting, Reading, Turning, Pinging, Application,
         Environment

(* phev_pipe_ping and msg_tcpip_outgoingHandler serve the car as CarSession *)
(* says: a frame that is lost ends the connection it was lost on, so what  *)
(* the car sees of one connection has no gap.                              *)
THEOREM SessionImplemented == Spec => ServesCar
  BY SessionInit, SessionNext, ConnectionInvariant, PTL DEF Spec, ServesCar, Session!Spec

-----------------------------------------------------------------------------
(* What is left of a turn.                                                 *)

(* The parts of a turn, from the last to the first.                        *)
Part ==
    CASE pc \in {"number", "update"} -> 0
      [] pc \in {"ping", "start"} -> 1
      [] pc \in {"process", "callback"} -> 2
      [] pc = "read" -> 3
      [] pc = "in" -> 4
      [] pc \in {"connect", "wait"} -> 5
      [] OTHER -> 6

(* How often the part may still be repeated: the attempts to connect that  *)
(* are left, the messages of the read, and a connection to be made.        *)
Left ==
    CASE pc = "connect" -> 2 * (MaxRetries + 1 - retries) + 1
      [] pc = "wait" -> 2 * (MaxRetries + 1 - retries)
      [] pc = "read" -> IF outConnected THEN 0 ELSE 1
      [] pc = "process" -> 2 * Len(chunk) + 1
      [] pc = "callback" -> 2 * Len(chunk)
      [] OTHER -> 0

Nearer == Part' < Part \/ (Part' = Part /\ Left' < Left)

(* Each step of the library inside a turn ends it or comes nearer to its   *)
(* end, and nothing that happens meanwhile puts the end off.               *)
TurnAdvances ==
    [][IF Library
       THEN \/ pc = "turn" /\ pc' \in {"in", "connect", "stopped"}
            \/ pc' = "turn"
            \/ Left' \in Nat /\ Nearer
       ELSE UNCHANGED <<Part, Left>>]_vars

LEMMA PartType == Part \in 0 .. 6
  BY DEF Part

LEMMA LeftType == IInv => Left \in Nat
<1> SUFFICES ASSUME IInv PROVE Left \in Nat
  OBVIOUS
<1>1. retries \in 0 .. MaxRetries + 1 /\ MaxRetries \in Nat /\ Len(chunk) \in Nat
  BY SizesAssumption DEF SizesAssumption, IInv, ThreadInv, ThreadTypes
<1>2. MaxRetries + 1 - retries \in Nat
  BY <1>1
<1>3. QED
  BY <1>1, <1>2 DEF Left

(* Attempts to connect come to an end, since each one counts.              *)
LEMMA WaitingAdvances ==
    ASSUME IInv, Waiting
    PROVE  Nearer
<1>1. retries \in 0 .. MaxRetries + 1 /\ MaxRetries \in Nat
  BY SizesAssumption DEF SizesAssumption, IInv, ThreadInv, ThreadTypes
<1>2. CASE TryConnect
  <2>1. pc = "connect" /\ pc' = "wait" /\ retries' = retries
    BY <1>2 DEF TryConnect
  <2>2. Part = 5 /\ Part' = 5
    BY <2>1 DEF Part
  <2>3. Left = 2 * (MaxRetries + 1 - retries) + 1 /\ Left' = 2 * (MaxRetries + 1 - retries)
    BY <2>1 DEF Left
  <2>4. QED
    BY <1>1, <2>2, <2>3 DEF Nearer
<1>3. CASE Retry
  <2>1. pc = "wait" /\ pc' = "connect" /\ retries' = retries + 1
    BY <1>3 DEF Retry
  <2>2. Part = 5 /\ Part' = 5
    BY <2>1 DEF Part
  <2>3. Left = 2 * (MaxRetries + 1 - retries) /\ Left' = 2 * (MaxRetries + 1 - (retries + 1)) + 1
    BY <2>1 DEF Left
  <2>4. QED
    BY <1>1, <2>2, <2>3 DEF Nearer
<1>4. CASE WaitSucceeds \/ GiveUp
  <2>1. pc = "wait" /\ pc' \in {"start", "ping"}
    BY <1>4 DEF WaitSucceeds, GiveUp, AfterWait
  <2>2. Part = 5 /\ Part' = 1
    BY <2>1 DEF Part
  <2>3. QED
    BY <2>2 DEF Nearer
<1>5. QED
  BY <1>2, <1>3, <1>4 DEF Waiting

(* A read connects once at most, and is followed by what it brought.       *)
LEMMA ReadingAdvances ==
    ASSUME IInv, Reading
    PROVE  Nearer
<1>1. CASE ReadReconnects
  <2>1. CASE outConnected'
    <3>1. pc = "read" /\ pc' = "read" /\ ~outConnected
      BY <1>1, <2>1 DEF ReadReconnects
    <3>2. Part = 3 /\ Part' = 3 /\ Left = 1 /\ Left' = 0
      BY <2>1, <3>1 DEF Part, Left
    <3>3. QED
      BY <3>2 DEF Nearer
  <2>2. CASE ~outConnected'
    <3>1. pc = "read" /\ pc' = "ping"
      BY <1>1, <2>2 DEF ReadReconnects
    <3>2. Part = 3 /\ Part' = 1
      BY <3>1 DEF Part
    <3>3. QED
      BY <3>2 DEF Nearer
  <2>3. QED
    BY <2>1, <2>2
<1>2. CASE ReadMessages \/ ReadDropped \/ ReadNothing \/ ReadError
  <2>1. pc = "read" /\ pc' \in {"process", "ping"}
    BY <1>2 DEF ReadMessages, ReadDropped, ReadNothing, ReadError
  <2>2. Part = 3 /\ Part' \in {1, 2}
    BY <2>1 DEF Part
  <2>3. QED
    BY <2>2 DEF Nearer
<1>3. QED
  BY <1>1, <1>2 DEF Reading

(* Each message of the read is processed once.                             *)
LEMMA ProcessingAdvances ==
    ASSUME IInv, Process \/ CallbackReturns
    PROVE  Nearer
<1>1. chunk \in Seq(Message) /\ chunk # << >>
  BY DEF IInv, ThreadInv, ThreadTypes, Process, CallbackReturns
<1>2. CASE Process
  <2>1. pc = "process" /\ pc' = "callback" /\ chunk' = chunk
    BY <1>2 DEF Process
  <2>2. Part = 2 /\ Part' = 2 /\ Left = 2 * Len(chunk) + 1 /\ Left' = 2 * Len(chunk)
    BY <2>1 DEF Part, Left
  <2>3. QED
    BY <1>1, <2>2 DEF Nearer
<1>3. CASE CallbackReturns
  <2>1. pc = "callback" /\ chunk' = Tail(chunk) /\ pc' \in {"process", "ping"}
    BY <1>3 DEF CallbackReturns
  <2>2. Len(chunk') = Len(chunk) - 1 /\ Len(chunk) \in Nat
    BY <1>1, <2>1
  <2>3. CASE pc' = "process"
    <3>1. Part = 2 /\ Part' = 2 /\ Left = 2 * Len(chunk) /\ Left' = 2 * Len(chunk') + 1
      BY <2>1, <2>3 DEF Part, Left
    <3>2. QED
      BY <2>2, <3>1 DEF Nearer
  <2>4. CASE pc' = "ping"
    <3>1. Part = 2 /\ Part' = 1
      BY <2>1, <2>4 DEF Part
    <3>2. QED
      BY <3>1 DEF Nearer
  <2>5. QED
    BY <2>1, <2>3, <2>4
<1>4. QED
  BY <1>2, <1>3

(* What the rest of a turn takes.                                          *)
LEMMA EndingAdvances ==
    ASSUME InLoop \/ Starting \/ Pinging
    PROVE  Nearer \/ pc' = "turn"
<1>1. CASE InLoop
  <2>1. pc = "in" /\ pc' = "read"
    BY <1>1 DEF InLoop
  <2>2. Part = 4 /\ Part' = 3
    BY <2>1 DEF Part
  <2>3. QED
    BY <2>2 DEF Nearer
<1>2. CASE SendStart
  <2>1. pc = "start" /\ pc' = "update"
    BY <1>2 DEF SendStart
  <2>2. Part = 1 /\ Part' = 0
    BY <2>1 DEF Part
  <2>3. QED
    BY <2>2 DEF Nearer
<1>3. CASE SendTimeSync
  <2>1. pc = "ping" /\ pc' = "number"
    BY <1>3 DEF SendTimeSync
  <2>2. Part = 1 /\ Part' = 0
    BY <2>1 DEF Part
  <2>3. QED
    BY <2>2 DEF Nearer
<1>4. CASE SendFirstUpdate \/ NoPingNow \/ PingWithheld \/ SendPing
  BY <1>4 DEF SendFirstUpdate, NoPingNow, PingWithheld, SendPing
<1>5. QED
  BY <1>1, <1>2, <1>3, <1>4 DEF Starting, Pinging

(* What is no step of the library leaves the turn where it is: where the   *)
(* thread reads, nobody else writes.                                       *)
LEMMA OthersWait ==
    ASSUME [Next]_vars, ~Library
    PROVE  UNCHANGED <<Part, Left>>
<1>1. UNCHANGED <<pc, retries, chunk>> /\ (pc = "read" => outConnected' = outConnected)
  <2>1. CASE Application
    BY <2>1 DEF Application, DisconnectOutput, DisconnectInput, SendCommand, Exit,
         InApplication, thread
  <2>2. CASE LinkLost \/ CarBack \/ SecondPasses \/ Stopped \/ UNCHANGED vars
    BY <2>2 DEF LinkLost, CarBack, SecondPasses, Stopped, thread, tcp, vars
  <2>3. ASSUME NEW c, NEW k, CarSends(c, k)
        PROVE  UNCHANGED <<pc, retries, chunk, outConnected>>
    BY <2>3 DEF CarSends, thread
  <2>4. QED
    BY <2>1, <2>2, <2>3 DEF Next, Environment
<1>2. Part' = Part
  BY <1>1 DEF Part
<1>3. Left' = Left
  BY <1>1 DEF Left
<1>4. QED
  BY <1>2, <1>3

(* phev_service_start gets back to its test of exit: within a turn of      *)
(* phev_pipe_loop there are finitely many steps, whatever the network, the *)
(* car and the application do, and however often connecting is retried.    *)
(* With the fairness of the library this is what KeepsTurning rests on.    *)
THEOREM TurnsEnd == Spec => TurnAdvances
<1>1. ASSUME IInv, (Left \in Nat)', [Next]_vars
      PROVE  [IF Library
              THEN \/ pc = "turn" /\ pc' \in {"in", "connect", "stopped"}
                   \/ pc' = "turn"
                   \/ Left' \in Nat /\ Nearer
              ELSE UNCHANGED <<Part, Left>>]_vars
  <2>1. Left' \in Nat
    BY <1>1
  <2>2. ASSUME Library
        PROVE  \/ pc = "turn" /\ pc' \in {"in", "connect", "stopped"}
               \/ pc' = "turn"
               \/ Nearer
    <3>1. CASE Stop \/ TurnConnected \/ TurnNotConnected
      BY <3>1 DEF Stop, TurnConnected, TurnNotConnected
    <3>2. QED
      BY <1>1, <2>2, <3>1, WaitingAdvances, ReadingAdvances, ProcessingAdvances, EndingAdvances
         DEF Library, Turning
  <2>3. ASSUME ~Library PROVE UNCHANGED <<Part, Left>>
    BY <1>1, <2>3, OthersWait
  <2>4. QED
    BY <2>1, <2>2, <2>3
<1>2. QED
  BY <1>1, LeftType, ConnectionInvariant, PTL DEF Spec, TurnAdvances

=============================================================================
