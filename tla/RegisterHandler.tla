---------------------------- MODULE RegisterHandler ----------------------------
(***************************************************************************)
(* phev_register_eventHandler, the other way to register this device, for  *)
(* an application that installs it itself (settings.eventHandler of        *)
(* phev_register_init).  It needs no output filter, asks for registration  *)
(* at almost every message with which the car opens a connection, and is   *)
(* complete once it has both an acknowledgement and a VIN.  The flags      *)
(* startAck, aaAck, registrationRequest, ecu and remoteSecurity are left   *)
(* out: nothing reads them.                                                *)
(***************************************************************************)
EXTENDS Naturals, Sequences

CONSTANTS
    Keys,            \* keys the car chooses from, and NoXOR
    NoXOR,           \* no key: 0
    Places,          \* devices the car takes, 3 in phev_pipe.c
    Greetings,       \* messages the car opens a connection with, after VIN
    MaxQueued,       \* bound: messages on their way when the car sends one
    MaxDisruptions,  \* bound: connections lost or closed, key changes, reads dropped
    MaxChanges       \* bound: other devices registered or removed

ASSUME RegisterHandlerAssumption ==
    /\ NoXOR \in Keys
    /\ Places \in Nat \ {0}
    /\ Greetings \subseteq {"start", "connected", "registration", "ecu", "security"}
    /\ MaxQueued \in Nat \ {0}
    /\ MaxDisruptions \in Nat
    /\ MaxChanges \in Nat

VIN(n) == [command |-> "vin", value |-> n]
BB(k) == [command |-> "bb", value |-> k]
RegisterAck == [command |-> "ack"]
Greeting(g) == [command |-> g]

VARIABLES
    vin,                   \* regCtx->vin is not NULL
    registrationAck,
    registrationComplete,
    completions,           \* history: calls of regCtx->complete, up to 2
    commandXOR,            \* ctx->commandXOR
    toApp,                 \* messages on their way from the car
    toCar,                 \* registration commands on their way, each is its key
    up,                    \* the connection the library uses still exists
    carXOR,                \* key the car expects
    keyed,                 \* it announced one on this connection
    introduced,            \* it sent its VIN on this connection
    reported,              \* number of devices it last sent with it
    ungreeted,             \* greetings it has still to send on this connection
    others,                \* other devices it knows
    mine,                  \* it knows this device
    disruptions,           \* disruptions so far
    changes,               \* other devices registered or removed so far
    refused,               \* history: a command was refused on this connection
    missed                 \* history: the last message that leads on was dropped

handler == <<vin, registrationAck, registrationComplete, completions>>
session == <<carXOR, keyed, introduced, reported, ungreeted, missed>>
devices == <<others, mine, changes>>
vars == <<handler, commandXOR, toApp, toCar, up, session, devices, disruptions, refused>>

Known == others + (IF mine THEN 1 ELSE 0)

Init ==
    /\ vin = FALSE
    /\ registrationAck = FALSE
    /\ registrationComplete = FALSE
    /\ completions = 0
    /\ commandXOR = NoXOR
    /\ toApp = << >>
    /\ toCar = << >>
    /\ up = TRUE
    /\ carXOR = NoXOR
    /\ keyed = FALSE
    /\ introduced = FALSE
    /\ reported = 0
    /\ ungreeted = Greetings
    /\ others \in 0 .. Places
    /\ mine = FALSE
    /\ disruptions = 0
    /\ changes = 0
    /\ refused = FALSE
    /\ missed = FALSE

-----------------------------------------------------------------------------
(* The handler.                                                            *)

Take(commands) ==
    /\ toApp # << >>
    /\ Head(toApp).command \in commands
    /\ toApp' = Tail(toApp)

(* Faulty variant of SendRegister: not again once the VIN is known.        *)
SendRegisterOnce == toCar' = IF up /\ ~vin THEN Append(toCar, commandXOR) ELSE toCar

(* phev_register_sendRegister.  On a connection the car has left the       *)
(* command is lost whether or not the write fails.                         *)
SendRegister == toCar' = IF up THEN Append(toCar, commandXOR) ELSE toCar

(* Faulty variant of Running: an event after completion counts again.      *)
StillRunning == TRUE

Running == ~registrationComplete

(* The end of the handler.                                                 *)
Conclude(acked, gotVIN) ==
    IF acked /\ gotVIN
    THEN /\ registrationComplete' = TRUE
         /\ completions' = IF completions < 2 THEN completions + 1 ELSE 2
    ELSE UNCHANGED <<registrationComplete, completions>>

Environs == <<up, session, devices, disruptions, refused>>

ReceiveKey ==
    /\ Take({"bb"})
    /\ commandXOR' = Head(toApp).value
    /\ UNCHANGED <<Environs, handler, toCar>>

(* The handler returns at once.                                            *)
ReceiveWhenComplete ==
    /\ ~Running
    /\ Take({"vin", "ack"} \cup Greetings)
    /\ UNCHANGED <<Environs, handler, commandXOR, toCar>>

(* phev_pipe_createVINEvent: PHEV_PIPE_GOT_VIN.                            *)
HasPlace(n) == n < Places

ReceiveVIN ==
    /\ Running
    /\ Take({"vin"})
    /\ HasPlace(Head(toApp).value)
    /\ SendRegister
    /\ vin' = TRUE
    /\ Conclude(registrationAck, TRUE)
    /\ UNCHANGED <<Environs, registrationAck, commandXOR>>

(* Faulty variant of KeepVIN: the VIN of an earlier event is given up.     *)
DropVIN == vin' = FALSE

KeepVIN == vin' = vin

(* PHEV_PIPE_MAX_REGISTRATIONS: the error handler is called.               *)
ReceiveVINWhenFull ==
    /\ Running
    /\ Take({"vin"})
    /\ ~HasPlace(Head(toApp).value)
    /\ KeepVIN
    /\ UNCHANGED <<Environs, registrationAck, registrationComplete, completions, commandXOR, toCar>>

(* All but PHEV_PIPE_CONNECTED ask for registration.                       *)
Asks(g) == g # "connected"

ReceiveGreeting ==
    /\ Running
    /\ Take(Greetings)
    /\ IF Asks(Head(toApp).command) THEN SendRegister ELSE UNCHANGED toCar
    /\ Conclude(registrationAck, vin)
    /\ UNCHANGED <<Environs, vin, registrationAck, commandXOR>>

(* PHEV_PIPE_REGISTRATION_COMPLETE.                                        *)
ReceiveAck ==
    /\ Running
    /\ Take({"ack"})
    /\ registrationAck' = TRUE
    /\ Conclude(TRUE, vin)
    /\ UNCHANGED <<Environs, vin, commandXOR, toCar>>

(* msg_pipe_loop with nothing to read; tcp_read times out alike when the   *)
(* car has left (phev_tcpip.c 162-165).                                    *)
ReadNothing ==
    /\ toApp = << >>
    /\ UNCHANGED vars

(* A message the handler asks for registration at, or an acknowledgement.  *)
Leads(m) ==
    \/ m.command = "vin" /\ HasPlace(m.value)
    \/ m.command = "ack"
    \/ m.command \in Greetings /\ Asks(m.command)

LeadOnItsWay == \E i \in DOMAIN toApp : Leads(toApp[i])

(* What a read that fills the buffer brings is dropped, and so is the rest *)
(* of a read from a message on that is torn or does not decode             *)
(* (msg_tcpip.c 73-91, phev_pipe.c 834-879).  The connection stays.        *)
ReadDropped ==
    /\ disruptions < MaxDisruptions
    /\ disruptions' = disruptions + 1
    /\ \E n \in 1 .. Len(toApp) : toApp' = SubSeq(toApp, n + 1, Len(toApp))
    /\ missed' = (missed \/ (LeadOnItsWay /\ ~LeadOnItsWay'))
    /\ UNCHANGED <<handler, commandXOR, toCar, up, carXOR, keyed, introduced, reported,
                   ungreeted, devices, refused>>

-----------------------------------------------------------------------------
(* The connection.                                                         *)

NewSession ==
    /\ up' = TRUE
    /\ toCar' = << >>
    /\ carXOR' = NoXOR
    /\ keyed' = FALSE
    /\ introduced' = FALSE
    /\ ungreeted' = Greetings
    /\ refused' = FALSE
    /\ missed' = FALSE
    /\ UNCHANGED reported

Disrupt ==
    /\ disruptions < MaxDisruptions
    /\ disruptions' = disruptions + 1
    /\ \E n \in 0 .. Len(toApp) : toApp' = SubSeq(toApp, 1, n)

(* The application disconnects, also from the completion callback; the     *)
(* next use connects again.                                                *)
DisconnectOutput ==
    /\ Disrupt
    /\ NewSession
    /\ commandXOR' = NoXOR
    /\ UNCHANGED <<handler, devices>>

LinkLost ==
    /\ up
    /\ Disrupt
    /\ up' = FALSE
    /\ toCar' = << >>
    /\ UNCHANGED <<handler, commandXOR, session, devices, refused>>

(* msg_tcpip_incomingHandler: the key of the old connection stays.  Only a *)
(* write can show that the car has left, so it may never be noticed.       *)
Reconnect ==
    /\ ~up
    /\ toApp = << >>
    /\ NewSession
    /\ UNCHANGED <<handler, commandXOR, toApp, devices, disruptions>>

-----------------------------------------------------------------------------
(* The car and the other devices.                                          *)

CarReceives ==
    /\ toCar # << >>
    /\ toCar' = Tail(toCar)
    /\ IF Head(toCar) = carXOR /\ (mine \/ others < Places)
       THEN /\ mine' = TRUE
            /\ toApp' = Append(toApp, RegisterAck)
            /\ missed' = FALSE
            /\ UNCHANGED refused
       ELSE /\ refused' = TRUE
            /\ UNCHANGED <<mine, toApp, missed>>
    /\ UNCHANGED <<handler, commandXOR, up, carXOR, keyed, introduced, reported, ungreeted,
                   others, changes, disruptions>>

CarMaySend == up /\ Len(toApp) < MaxQueued

Announce(k) ==
    /\ CarMaySend
    /\ carXOR' = k
    /\ keyed' = TRUE
    /\ toApp' = Append(toApp, BB(k))
    /\ UNCHANGED <<handler, commandXOR, toCar, up, introduced, reported, ungreeted, missed,
                   devices, refused>>

CarAnnouncesKey ==
    /\ ~keyed
    /\ \E k \in Keys \ {NoXOR} : Announce(k)
    /\ UNCHANGED disruptions

CarChangesKey ==
    /\ keyed
    /\ disruptions < MaxDisruptions
    /\ disruptions' = disruptions + 1
    /\ \E k \in Keys \ {NoXOR, carXOR} : Announce(k)

(* First on each connection, and when the number has changed.              *)
CarSendsVIN ==
    /\ CarMaySend
    /\ introduced => reported # Known
    /\ introduced' = TRUE
    /\ reported' = Known
    /\ toApp' = Append(toApp, VIN(Known))
    /\ missed' = (missed /\ ~HasPlace(Known))
    /\ UNCHANGED <<handler, commandXOR, toCar, up, carXOR, keyed, ungreeted, devices, disruptions, refused>>

CarGreets ==
    /\ CarMaySend
    /\ introduced
    /\ \E g \in ungreeted :
        /\ ungreeted' = ungreeted \ {g}
        /\ toApp' = Append(toApp, Greeting(g))
        /\ missed' = (missed /\ ~Asks(g))
    /\ UNCHANGED <<handler, commandXOR, toCar, up, carXOR, keyed, introduced, reported, devices, disruptions, refused>>

OtherRegisters ==
    /\ changes < MaxChanges
    /\ Known < Places
    /\ changes' = changes + 1
    /\ others' = others + 1
    /\ UNCHANGED <<handler, commandXOR, toApp, toCar, up, session, mine, disruptions, refused>>

OtherRemoved ==
    /\ changes < MaxChanges
    /\ others > 0
    /\ changes' = changes + 1
    /\ others' = others - 1
    /\ UNCHANGED <<handler, commandXOR, toApp, toCar, up, session, mine, disruptions, refused>>

-----------------------------------------------------------------------------
Working ==
    \/ ReceiveKey
    \/ ReceiveWhenComplete
    \/ ReceiveVIN
    \/ ReceiveVINWhenFull
    \/ ReceiveGreeting
    \/ ReceiveAck
    \/ ReadDropped

Library == Working \/ ReadNothing \/ Reconnect

Next ==
    \/ Library
    \/ DisconnectOutput
    \/ LinkLost
    \/ CarReceives
    \/ CarAnnouncesKey
    \/ CarChangesKey
    \/ CarSendsVIN
    \/ CarGreets
    \/ OtherRegisters
    \/ OtherRemoved

(* The application runs msg_pipe_loop for ever; the car reads what arrives *)
(* and opens each connection with all it has to say.  Nothing says that    *)
(* the loss of the connection is ever noticed.                             *)
Fairness ==
    /\ WF_vars(Working)
    /\ WF_vars(CarReceives)
    /\ WF_vars(CarAnnouncesKey)
    /\ WF_vars(CarSendsVIN)
    /\ WF_vars(CarGreets)

Spec == Init /\ [][Next]_vars /\ Fairness

-----------------------------------------------------------------------------
(* Properties.                                                             *)

(* However often the command was sent and acknowledged, completion is      *)
(* reported once, and only for a device the car knows (phev_register.c     *)
(* 70-73, 135-147).                                                        *)
CompletedOnce ==
    /\ completions <= 1
    /\ completions = 1 => mine

(* While this device is missing and has a place, a command or a message    *)
(* that leads to one is on its way, or the car has still to introduce      *)
(* itself, unless on this same connection it refused a command or the last *)
(* such message was dropped with a read: what was lost with an earlier     *)
(* connection is asked for again.                                          *)
AskedOnEachConnection ==
    (~mine /\ others < Places) =>
        \/ refused
        \/ missed
        \/ ~up
        \/ ~introduced
        \/ reported # Known
        \/ toCar # << >>
        \/ LeadOnItsWay

(* Once the VIN was seen, and once the car stops refusing commands and     *)
(* losing connections, completion is reported, whatever was lost before,   *)
(* even if this device took the last place and the acknowledgement was     *)
(* lost: unlike in Registration, where the filter and the number of        *)
(* devices stand in the way.  Here too a lost connection must be noticed,  *)
(* and a dropped message followed by another.                              *)
HandlerCompletes ==
    /\ <>vin
    /\ <>[]~refused
    /\ []<>up /\ []<>~missed
    => <>registrationComplete

=============================================================================
