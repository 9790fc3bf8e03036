----------------------------- MODULE Registration -----------------------------
(***************************************************************************)
(* Registering this device with the car (phev_registerDevice).  On each    *)
(* connection the car reports in its VIN message how many devices it       *)
(* knows.  If it has a place left, phev_service_eventHandler sends the     *)
(* registration command, and reports completion when the car acknowledges  *)
(* it.  Nothing sends the command again: that is left to the next VIN      *)
(* event, and phev_service_outputFilter raises one only when the message   *)
(* differs from what the model holds.                                      *)
(***************************************************************************)
EXTENDS Naturals, Sequences

CONSTANTS
    Keys,            \* keys the car chooses from, and NoXOR
    NoXOR,           \* no key: 0
    Places,          \* devices the car takes, 3 in phev_pipe.c
    Unset,           \* a register the model knows nothing of
    MaxDisruptions,  \* bound: connections lost or closed, key changes, reads dropped
    MaxChanges       \* bound: other devices registered or removed

ASSUME RegistrationAssumption ==
    /\ NoXOR \in Keys
    /\ Places \in Nat \ {0}
    /\ Unset \notin 0 .. Places
    /\ MaxDisruptions \in Nat
    /\ MaxChanges \in Nat

VIN(n) == [command |-> "vin", value |-> n]
BB(k) == [command |-> "bb", value |-> k]
RegisterAck == [command |-> "ack", value |-> Unset]

Message == {VIN(n) : n \in 0 .. Places} \cup {BB(k) : k \in Keys} \cup {RegisterAck}

VARIABLES
    vin,             \* the VIN register of the model: the number it reports
    commandXOR,      \* ctx->commandXOR
    phase,           \* whose handler runs: the application's, the service's
    event,           \* the event it handles
    complete,        \* history: registrationCompleteCallback was called
    toApp,           \* messages on their way from the car
    toCar,           \* registration commands on their way, each is its key
    up,              \* the connection the library uses still exists
    carXOR,          \* key the car expects
    keyed,           \* it announced one on this connection
    reported,        \* number of devices it last reported on this connection
    others,          \* other devices it knows
    mine,            \* it knows this device
    disruptions,     \* disruptions so far
    changes,         \* other devices registered or removed so far
    lost,            \* history: a registration command was lost or refused
    unheard,         \* history: acknowledgements lost, up to 2
    left,            \* history: another device was removed
    unread           \* history: the last report of the number was dropped

library == <<vin, commandXOR, phase, event, complete>>
session == <<carXOR, keyed, reported, unread>>
devices == <<others, mine, changes, left>>
vars == <<library, toApp, toCar, up, session, devices, disruptions, lost, unheard>>

Known == others + (IF mine THEN 1 ELSE 0)

Init ==
    /\ vin = Unset
    /\ commandXOR = NoXOR
    /\ phase = "idle"
    /\ event = "none"
    /\ complete = FALSE
    /\ toApp = << >>
    /\ toCar = << >>
    /\ up = TRUE
    /\ carXOR = NoXOR
    /\ keyed = FALSE
    /\ reported = Unset
    /\ others \in 0 .. Places
    /\ mine = FALSE
    /\ disruptions = 0
    /\ changes = 0
    /\ lost = FALSE
    /\ unheard = 0
    /\ left = FALSE
    /\ unread = FALSE

-----------------------------------------------------------------------------
(* Receiving.                                                              *)

Take(command) ==
    /\ phase = "idle"
    /\ toApp # << >>
    /\ Head(toApp).command = command
    /\ toApp' = Tail(toApp)

Untouched == <<toCar, up, session, devices, disruptions, unheard>>

ReceiveKey ==
    /\ Take("bb")
    /\ commandXOR' = Head(toApp).value
    /\ UNCHANGED <<Untouched, vin, phase, event, complete, lost>>

(* Faulty variant of Filtered: a register set once is not set again.       *)
FilteredOnceSet(n) == vin # Unset

(* phev_service_outputFilter: the model holds this value already.          *)
Filtered(n) == vin = n

ReceiveFilteredVIN ==
    /\ Take("vin")
    /\ Filtered(Head(toApp).value)
    /\ UNCHANGED <<Untouched, library, lost>>

(* Faulty variant of HasPlace: the last place is not used.                 *)
HasPlaceButLast(n) == n + 1 < Places

(* phev_pipe_createVINEvent: PHEV_PIPE_GOT_VIN.                            *)
HasPlace(n) == n < Places

ReceiveVIN ==
    /\ Take("vin")
    /\ LET n == Head(toApp).value
       IN  /\ ~Filtered(n)
           /\ HasPlace(n)
           /\ vin' = n
    /\ phase' = "application"
    /\ event' = "vin"
    /\ UNCHANGED <<Untouched, commandXOR, complete, lost>>

(* PHEV_PIPE_MAX_REGISTRATIONS, which neither handler reacts to.           *)
ReceiveVINWhenFull ==
    /\ Take("vin")
    /\ LET n == Head(toApp).value
       IN  /\ ~Filtered(n)
           /\ ~HasPlace(n)
           /\ vin' = n
    /\ UNCHANGED <<Untouched, commandXOR, phase, event, complete, lost>>

ReceiveAck ==
    /\ Take("ack")
    /\ phase' = "application"
    /\ event' = "ack"
    /\ UNCHANGED <<Untouched, vin, commandXOR, complete, lost>>

(* msg_core_loop with nothing to read; tcp_read times out alike when the   *)
(* car has left (phev_tcpip.c 162-165).                                    *)
ReadNothing ==
    /\ phase = "idle"
    /\ toApp = << >>
    /\ UNCHANGED vars

ReportOnItsWay == \E i \in DOMAIN toApp : toApp[i].command = "vin"

Acks(s) == Len(SelectSeq(s, LAMBDA m : m = RegisterAck))
Least(a, b) == IF a < b THEN a ELSE b

(* What a read that fills the buffer brings is dropped, and so is the rest *)
(* of a read from a message on that is torn or does not decode             *)
(* (msg_tcpip.c 73-91, phev_pipe.c 834-879).  The connection stays.        *)
ReadDropped ==
    /\ phase = "idle"
    /\ disruptions < MaxDisruptions
    /\ disruptions' = disruptions + 1
    /\ \E n \in 1 .. Len(toApp) : toApp' = SubSeq(toApp, n + 1, Len(toApp))
    /\ unread' = (unread \/ (ReportOnItsWay /\ ~ReportOnItsWay'))
    /\ unheard' = Least(2, unheard + Acks(toApp) - Acks(toApp'))
    /\ UNCHANGED <<library, toCar, up, carXOR, keyed, reported, devices, lost>>

-----------------------------------------------------------------------------
(* The handlers, in the order phev_service_create registers them.          *)

ApplicationReturns ==
    /\ phase = "application"
    /\ phase' = "service"
    /\ UNCHANGED <<Untouched, toApp, vin, commandXOR, event, complete, lost>>

(* phev_pipe_sendRegister.  On a connection the car has left the command   *)
(* is lost whether or not the write fails.                                 *)
SendRegister ==
    /\ phase = "service"
    /\ event = "vin"
    /\ toCar' = IF up THEN Append(toCar, commandXOR) ELSE toCar
    /\ lost' = (lost \/ ~up)
    /\ phase' = "idle"
    /\ event' = "none"
    /\ UNCHANGED <<toApp, up, session, devices, disruptions, unheard, vin, commandXOR, complete>>

(* Faulty variant of Completes: any event of the registration does.        *)
CompletesAnyhow == event # "none"

(* PHEV_PIPE_REGISTRATION_COMPLETE in phev_service_eventHandler.           *)
Completes == event = "ack"

CallCompletion ==
    /\ phase = "service"
    /\ Completes
    /\ complete' = TRUE
    /\ phase' = "callback"
    /\ UNCHANGED <<Untouched, toApp, vin, commandXOR, event, lost>>

CallbackReturns ==
    /\ phase = "callback"
    /\ phase' = "idle"
    /\ event' = "none"
    /\ UNCHANGED <<Untouched, toApp, vin, commandXOR, complete, lost>>

-----------------------------------------------------------------------------
(* The connection.                                                         *)

NewSession ==
    /\ up' = TRUE
    /\ toCar' = << >>
    /\ carXOR' = NoXOR
    /\ keyed' = FALSE
    /\ reported' = Unset
    /\ unread' = FALSE

Disrupt ==
    /\ disruptions < MaxDisruptions
    /\ disruptions' = disruptions + 1
    /\ lost' = (lost \/ toCar # << >>)
    /\ \E n \in 0 .. Len(toApp) :
        /\ toApp' = SubSeq(toApp, 1, n)
        /\ unheard' = Least(2, unheard + Acks(toApp) - Acks(toApp'))

(* phev_disconnectCar, also from a handler.  What the current read still   *)
(* holds is processed all the same; the next use connects again.           *)
DisconnectOutput ==
    /\ phase # "service"
    /\ Disrupt
    /\ NewSession
    /\ commandXOR' = NoXOR
    /\ UNCHANGED <<vin, phase, event, complete, devices>>

(* The car leaves; what it sent may still be read.                         *)
LinkLost ==
    /\ up
    /\ Disrupt
    /\ up' = FALSE
    /\ toCar' = << >>
    /\ UNCHANGED <<library, session, devices>>

(* msg_tcpip_incomingHandler fails, and connects when it is called again:  *)
(* if ever, since no ping is written while a device is registered and a    *)
(* read may just time out.                                                 *)
Reconnect ==
    /\ phase = "idle"
    /\ ~up
    /\ toApp = << >>
    /\ NewSession
    /\ UNCHANGED <<library, toApp, devices, disruptions, lost, unheard>>

-----------------------------------------------------------------------------
(* The car and the other devices.                                          *)

CarReceives ==
    /\ toCar # << >>
    /\ toCar' = Tail(toCar)
    /\ IF Head(toCar) = carXOR /\ (mine \/ others < Places)
       THEN /\ mine' = TRUE
            /\ toApp' = Append(toApp, RegisterAck)
            /\ UNCHANGED lost
       ELSE /\ lost' = TRUE
            /\ UNCHANGED <<mine, toApp>>
    /\ UNCHANGED <<library, up, session, others, changes, left, disruptions, unheard>>

Announce(k) ==
    /\ up
    /\ carXOR' = k
    /\ keyed' = TRUE
    /\ toApp' = Append(toApp, BB(k))
    /\ UNCHANGED <<library, toCar, up, reported, unread, devices, lost, unheard>>

CarAnnouncesKey ==
    /\ ~keyed
    /\ \E k \in Keys \ {NoXOR} : Announce(k)
    /\ UNCHANGED disruptions

CarChangesKey ==
    /\ keyed
    /\ disruptions < MaxDisruptions
    /\ disruptions' = disruptions + 1
    /\ \E k \in Keys \ {NoXOR, carXOR} : Announce(k)

(* On each connection, and when the number has changed.                    *)
CarSendsVIN ==
    /\ up
    /\ reported # Known
    /\ reported' = Known
    /\ unread' = FALSE
    /\ toApp' = Append(toApp, VIN(Known))
    /\ UNCHANGED <<library, toCar, up, carXOR, keyed, devices, disruptions, lost, unheard>>

OtherRegisters ==
    /\ changes < MaxChanges
    /\ Known < Places
    /\ changes' = changes + 1
    /\ others' = others + 1
    /\ UNCHANGED <<library, toApp, toCar, up, session, mine, left, disruptions, lost, unheard>>

OtherRemoved ==
    /\ changes < MaxChanges
    /\ others > 0
    /\ changes' = changes + 1
    /\ others' = others - 1
    /\ left' = TRUE
    /\ UNCHANGED <<library, toApp, toCar, up, session, mine, disruptions, lost, unheard>>

-----------------------------------------------------------------------------
Working ==
    \/ ReceiveKey
    \/ ReceiveFilteredVIN
    \/ ReceiveVIN
    \/ ReceiveVINWhenFull
    \/ ReceiveAck
    \/ ApplicationReturns
    \/ SendRegister
    \/ CallCompletion
    \/ CallbackReturns
    \/ ReadDropped

Library == Working \/ ReadNothing \/ Reconnect

Environment ==
    \/ DisconnectOutput
    \/ LinkLost
    \/ CarReceives
    \/ CarAnnouncesKey
    \/ CarChangesKey
    \/ CarSendsVIN
    \/ OtherRegisters
    \/ OtherRemoved

Next == Library \/ Environment

Spec == Init /\ [][Next]_vars

(* The loop of phev_service_start goes on for ever and handlers return;    *)
(* the car reads what arrives and reports its devices.  Nothing says that  *)
(* the loss of the connection is ever noticed.                             *)
Fairness ==
    /\ WF_vars(Working)
    /\ WF_vars(CarReceives)
    /\ WF_vars(CarAnnouncesKey)
    /\ WF_vars(CarSendsVIN)

FairSpec == Spec /\ Fairness

-----------------------------------------------------------------------------
(* Properties.                                                             *)

(* The application is told that the registration is complete only when the *)
(* car knows the device (phev_service.c 19-29).                            *)
CompleteIsRegistered == complete => mine

(* A report on its way that the filter will let pass and that has a place. *)
WillRaiseVIN ==
    \E i \in DOMAIN toApp :
        /\ toApp[i].command = "vin"
        /\ toApp[i].value < Places
        /\ toApp[i].value # vin

(* As long as the car has a place for this device, it has been reported or *)
(* will be, and the report leads to a command with a key the car expects:  *)
(* the registration is missed only when the command is lost or refused, or *)
(* the report is dropped with a read.  The filter must not hide a report   *)
(* that no command answered yet.                                           *)
NotMissed ==
    (~mine /\ others < Places) =>
        \/ lost
        \/ unread
        \/ reported # Known
        \/ ~up
        \/ WillRaiseVIN
        \/ event = "vin"
        \/ toCar # << >>

(* With no command lost and no device removed, and a place left for one    *)
(* more device all the time, the application is told in the end, although  *)
(* an acknowledgement may be lost: the car then reports one device more,   *)
(* which the filter lets pass.  That happens only once.  A second time, or *)
(* when this device took the last place, the application hears nothing.    *)
(* A lost connection must be noticed and a dropped report followed by      *)
(* another, of which nothing in the library takes care.                    *)
RegistrationCompletes ==
    /\ [](~lost /\ ~left /\ unheard < 2)
    /\ <>[](Known < Places)
    /\ []<>up /\ []<>~unread
    => <>complete

=============================================================================
