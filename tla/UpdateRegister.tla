--------------------------- MODULE UpdateRegister ---------------------------
(***************************************************************************)
(* Register updates of phev_pipe.c: the application asks for a register of *)
(* the car to be changed, the update is kept in a table until the car      *)
(* acknowledges it, and the whole table is sent again when the car         *)
(* announces a new XOR key (command 0xbb).                                 *)
(*                                                                         *)
(* The library is single-threaded, but it calls back into the application  *)
(* while it walks its tables: an event goes to every entry of eventHandler *)
(* in turn, and the walk of the update table calls the callback of each    *)
(* acknowledged update.  The application may issue updates and register    *)
(* handlers from inside those calls, so one delivery is split into the     *)
(* steps between which application code runs.                              *)
(***************************************************************************)
EXTENDS Naturals, Sequences, FiniteSets

CONSTANTS
    Registers,           \* registers the application updates
    Values,              \* values it writes to them
    Keys,                \* XOR keys, NoXOR among them
    NoXOR,               \* key 0: the message goes out unencoded
    Free,                \* an update slot whose "used" flag is false
    MaxUpdateCallbacks,  \* PHEV_PIPE_MAX_UPDATE_CALLBACKS
    MaxEventHandlers,    \* PHEV_PIPE_MAX_EVENT_HANDLERS
    MaxUserHandlers,     \* bound: handlers the application registers
    MaxInFlight,         \* bound: messages in flight when an update is issued
    MaxDisruptions       \* bound: key changes, connection losses, reads dropped

Slots == 0 .. MaxUpdateCallbacks - 1
HandlerIndex == 0 .. MaxEventHandlers - 1
Handlers == {"update", "user", "NULL"}
Update == [register : Registers, value : Values, callback : BOOLEAN]
Command == [register : Registers, value : Values, xor : Keys]

Ack(r) == [type |-> "ack", register |-> r]
BB(k) == [type |-> "bb", xor |-> k]
CC == [type |-> "cc"]
Message == {Ack(r) : r \in Registers} \cup {BB(k) : k \in Keys} \cup {CC}

ASSUME KeysAssumption == NoXOR \in Keys
ASSUME FreeAssumption == Free \notin Update
ASSUME SizesAssumption ==
    /\ MaxUpdateCallbacks \in Nat \ {0}
    /\ MaxEventHandlers \in Nat \ {0}
    /\ MaxInFlight \in Nat
    /\ MaxDisruptions \in Nat
(* The library itself registers at most two handlers (phev_service.c:78,   *)
(* 84); the first update needs one entry of the table for its own.         *)
ASSUME HandlerRoom == MaxUserHandlers \in Nat /\ MaxUserHandlers < MaxEventHandlers

VARIABLES
    updates,            \* updateRegisterCallbacks: slot -> Update or Free
    numberOfCallbacks,  \* updateRegisterCallbacks->numberOfCallbacks
    eventHandler,       \* ctx->eventHandler
    eventHandlers,      \* ctx->eventHandlers
    commandXOR,         \* ctx->commandXOR
    phase,              \* where the thread is in phev_pipe_sendEventToHandlers
    event,              \* the message whose event is being delivered
    handlerIndex,       \* i of the loop over eventHandler
    slotIndex,          \* i of the loop over the update table
    toCar,              \* commands on their way to the car
    toApp,              \* messages on their way to the application
    carXOR,             \* key the car expects commands to be encoded with
    keyed,              \* the car has announced a key on this connection
    registrations,      \* handlers the application has registered so far
    disruptions,        \* key changes, connection losses and reads dropped
    keyMissed,          \* history: the car's last key was dropped with a read
    acksMissed          \* history: registers whose last acknowledgement was,
                        \* with no key announced after it

table == <<updates, numberOfCallbacks>>
handlers == <<eventHandler, eventHandlers, registrations>>
delivery == <<phase, event, handlerIndex, slotIndex>>
missed == <<keyMissed, acksMissed>>
link == <<toCar, toApp, carXOR, keyed, disruptions, missed>>
vars == <<table, handlers, delivery, link, commandXOR>>

Init ==
    /\ updates = [i \in Slots |-> Free]
    /\ numberOfCallbacks = 0
    /\ eventHandler = [h \in HandlerIndex |-> "NULL"]
    /\ eventHandlers = 0
    /\ registrations = 0
    /\ commandXOR = NoXOR
    /\ phase = "idle"
    /\ event = CC
    /\ handlerIndex = 0
    /\ slotIndex = 0
    /\ toCar = << >>
    /\ toApp = << >>
    /\ carXOR = NoXOR
    /\ keyed = FALSE
    /\ disruptions = 0
    /\ keyMissed = FALSE
    /\ acksMissed = {}

UsedSlots == {i \in Slots : updates[i] # Free}

(* Application code runs between two turns of phev_pipe_loop, in its event *)
(* handler and in the callback of an acknowledged update.                  *)
InApplication == phase \in {"idle", "user", "callback"}

-----------------------------------------------------------------------------
(* The application's calls.                                                *)

(* Faulty variant of AddHandler: the count is not checked.                 *)
AddHandlerNoLimit(f) ==
    /\ eventHandler' = [eventHandler EXCEPT ![eventHandlers] = f]
    /\ eventHandlers' = eventHandlers + 1

(* phev_pipe_registerEventHandler: with room in the count and some NULL    *)
(* entry, the handler goes to entry eventHandlers, whichever was NULL.     *)
AddHandler(f) ==
    IF eventHandlers < MaxEventHandlers /\ \E h \in HandlerIndex : eventHandler[h] = "NULL"
    THEN /\ eventHandler' = [eventHandler EXCEPT ![eventHandlers] = f]
         /\ eventHandlers' = eventHandlers + 1
    ELSE UNCHANGED <<eventHandler, eventHandlers>>

RegisterEventHandler ==
    /\ InApplication
    /\ registrations < MaxUserHandlers
    /\ registrations' = registrations + 1
    /\ AddHandler("user")
    /\ UNCHANGED <<table, delivery, link, commandXOR>>

(* Faulty variant of DeregisterEventHandler: it drops the last entry.      *)
DeregisterLast ==
    /\ InApplication
    /\ eventHandlers > 0
    /\ eventHandler' = [eventHandler EXCEPT ![eventHandlers - 1] = "NULL"]
    /\ UNCHANGED <<table, eventHandlers, registrations, delivery, link, commandXOR>>

(* Faulty variant of DeregisterEventHandler: it counts the handler out.    *)
DeregisterCounting ==
    /\ InApplication
    /\ eventHandlers > 0
    /\ \E h \in HandlerIndex :
        /\ eventHandler[h] = "user"
        /\ \A g \in 0 .. h - 1 : eventHandler[g] # "user"
        /\ eventHandler' = [eventHandler EXCEPT ![h] = "NULL"]
    /\ eventHandlers' = eventHandlers - 1
    /\ UNCHANGED <<table, registrations, delivery, link, commandXOR>>

(* phev_pipe_deregisterEventHandler: the first matching entry becomes NULL *)
(* and eventHandlers is left as it was.                                    *)
DeregisterEventHandler ==
    /\ InApplication
    /\ \E h \in HandlerIndex :
        /\ eventHandler[h] = "user"
        /\ \A g \in 0 .. h - 1 : eventHandler[g] # "user"
        /\ eventHandler' = [eventHandler EXCEPT ![h] = "NULL"]
    /\ UNCHANGED <<table, eventHandlers, registrations, delivery, link, commandXOR>>

(* phev_pipe_updateRegisterNoRetry through commandOutboundPublish.         *)
Send(u) ==
    toCar' = Append(toCar, [register |-> u.register, value |-> u.value, xor |-> commandXOR])

(* phev_pipe_updateComplexRegisterWithCallback (updateRegister passes a    *)
(* NULL callback): the first free slot takes the update, the update        *)
(* handler is registered once more and the command is sent.                *)
UpdateRegister(u) ==
    /\ InApplication
    /\ Len(toCar) + Len(toApp) < MaxInFlight
    /\ \E i \in Slots :
        /\ updates[i] = Free
        /\ \A j \in 0 .. i - 1 : updates[j] # Free
        /\ updates' = [updates EXCEPT ![i] = u]
    /\ numberOfCallbacks' = numberOfCallbacks + 1
    /\ AddHandler("update")
    /\ Send(u)
    /\ UNCHANGED <<registrations, delivery, toApp, carXOR, keyed, disruptions, missed, commandXOR>>

(* The same call with every slot in use: a warning, and nothing is sent.   *)
UpdateRegisterTableFull ==
    /\ InApplication
    /\ UsedSlots = Slots
    /\ UNCHANGED vars

-----------------------------------------------------------------------------
(* Delivery of one incoming message to the event handlers.                 *)

(* Faulty variant of Receive: 0xbb leaves commandXOR alone, as 0xcc does.  *)
ReceiveKeepingKey ==
    /\ phase = "idle"
    /\ toApp # << >>
    /\ toApp' = Tail(toApp)
    /\ IF eventHandlers > 0
       THEN phase' = "dispatch" /\ event' = Head(toApp) /\ handlerIndex' = 0
       ELSE UNCHANGED <<phase, event, handlerIndex>>
    /\ UNCHANGED <<table, handlers, slotIndex, toCar, carXOR, keyed, disruptions, missed, commandXOR>>

(* phev_pipe_outputChainInputTransformer, then phev_pipe_sendEvent: 0xbb   *)
(* sets commandXOR before its event goes out, 0xcc does not.               *)
Receive ==
    /\ phase = "idle"
    /\ toApp # << >>
    /\ toApp' = Tail(toApp)
    /\ commandXOR' = IF Head(toApp).type = "bb" THEN Head(toApp).xor ELSE commandXOR
    /\ IF eventHandlers > 0
       THEN phase' = "dispatch" /\ event' = Head(toApp) /\ handlerIndex' = 0
       ELSE UNCHANGED <<phase, event, handlerIndex>>
    /\ UNCHANGED <<table, handlers, slotIndex, toCar, carXOR, keyed, disruptions, missed>>

KeyOnItsWay == \E n \in DOMAIN toApp : toApp[n].type = "bb"

AckOnItsWay(r) == \E n \in DOMAIN toApp : toApp[n] = Ack(r)

(* What a read that fills the buffer brings is dropped, and so is the rest *)
(* of a read from a message on that is torn or does not decode             *)
(* (msg_tcpip.c 73-91, phev_pipe.c 834-879).  The connection stays.        *)
ReadDropped ==
    /\ phase = "idle"
    /\ disruptions < MaxDisruptions
    /\ disruptions' = disruptions + 1
    /\ \E n \in 1 .. Len(toApp) : toApp' = SubSeq(toApp, n + 1, Len(toApp))
    /\ keyMissed' = (keyMissed \/ (KeyOnItsWay /\ ~KeyOnItsWay'))
    /\ acksMissed' = acksMissed \cup
          {r \in Registers : AckOnItsWay(r) /\ ~AckOnItsWay(r)' /\ ~KeyOnItsWay'}
    /\ UNCHANGED <<table, handlers, delivery, toCar, carXOR, keyed, commandXOR>>

(* Calling is the phase the thread enters for a handler.                   *)
Dispatch(f, calling) ==
    /\ phase = "dispatch"
    /\ handlerIndex < eventHandlers
    /\ eventHandler[handlerIndex] = f
    /\ phase' = calling

NextHandler ==
    /\ phase' = "dispatch"
    /\ handlerIndex' = handlerIndex + 1

(* Faulty variant of SkipNull: the walk does not step over the entry.      *)
StuckOnNull ==
    /\ Dispatch("NULL", "dispatch")
    /\ handlerIndex' = handlerIndex
    /\ UNCHANGED <<table, handlers, event, slotIndex, link, commandXOR>>

SkipNull ==
    /\ Dispatch("NULL", "dispatch")
    /\ handlerIndex' = handlerIndex + 1
    /\ UNCHANGED <<table, handlers, event, slotIndex, link, commandXOR>>

CallUser ==
    /\ Dispatch("user", "user")
    /\ UNCHANGED <<table, handlers, event, handlerIndex, slotIndex, link, commandXOR>>

UserReturns ==
    /\ phase = "user"
    /\ NextHandler
    /\ UNCHANGED <<table, handlers, event, slotIndex, link, commandXOR>>

(* phev_pipe_updateRegisterEventHandler returns at once with no update     *)
(* pending.                                                                *)
NothingPending ==
    /\ Dispatch("update", "dispatch")
    /\ numberOfCallbacks = 0
    /\ handlerIndex' = handlerIndex + 1
    /\ UNCHANGED <<table, handlers, event, slotIndex, link, commandXOR>>

ScanTable ==
    /\ Dispatch("update", "scan")
    /\ numberOfCallbacks > 0
    /\ slotIndex' = 0
    /\ UNCHANGED <<table, handlers, event, handlerIndex, link, commandXOR>>

(* Faulty variants of Matches: the register of an acknowledgement is not   *)
(* compared; the resend starts at slot 1.                                  *)
MatchesAnyRegister(i) == updates[i] # Free
MatchesButFirst(i) ==
    /\ updates[i] # Free
    /\ IF event.type = "ack" THEN updates[i].register = event.register ELSE i > 0

(* The used slots the event concerns: all of them for a new key, those of  *)
(* the acknowledged register for an acknowledgement.                       *)
Matches(i) ==
    /\ updates[i] # Free
    /\ event.type = "ack" => updates[i].register = event.register

(* The loop over the table stands at its next matching slot.               *)
ScanReaches(i) ==
    /\ phase = "scan"
    /\ i \in Slots
    /\ i >= slotIndex
    /\ Matches(i)
    /\ \A j \in slotIndex .. i - 1 : ~Matches(j)

Resend ==
    /\ event.type \in {"bb", "cc"}
    /\ \E i \in Slots :
        /\ ScanReaches(i)
        /\ slotIndex' = i + 1
        /\ Send(updates[i])
    /\ UNCHANGED <<table, handlers, phase, event, handlerIndex,
                   toApp, carXOR, keyed, disruptions, missed, commandXOR>>

(* Faulty variant of Clear: numberOfCallbacks is not decremented.          *)
ClearWithoutCount(i) ==
    /\ updates' = [updates EXCEPT ![i] = Free]
    /\ numberOfCallbacks' = numberOfCallbacks

Clear(i) ==
    /\ updates' = [updates EXCEPT ![i] = Free]
    /\ numberOfCallbacks' = numberOfCallbacks - 1

(* The slot stays in use while its callback runs.                          *)
CallCallback ==
    /\ event.type = "ack"
    /\ \E i \in Slots :
        /\ ScanReaches(i)
        /\ updates[i].callback
        /\ slotIndex' = i
    /\ phase' = "callback"
    /\ UNCHANGED <<table, handlers, event, handlerIndex, link, commandXOR>>

CallbackReturns ==
    /\ phase = "callback"
    /\ Clear(slotIndex)
    /\ slotIndex' = slotIndex + 1
    /\ phase' = "scan"
    /\ UNCHANGED <<handlers, event, handlerIndex, link, commandXOR>>

(* Faulty variant of ClearSilently: the type of the event is not looked    *)
(* at, so that a new key ends the updates it should repeat.                *)
ClearOnAnyEvent ==
    /\ \E i \in Slots :
        /\ ScanReaches(i)
        /\ ~updates[i].callback
        /\ Clear(i)
        /\ slotIndex' = i + 1
    /\ UNCHANGED <<handlers, phase, event, handlerIndex, link, commandXOR>>

ClearSilently ==
    /\ event.type = "ack"
    /\ \E i \in Slots :
        /\ ScanReaches(i)
        /\ ~updates[i].callback
        /\ Clear(i)
        /\ slotIndex' = i + 1
    /\ UNCHANGED <<handlers, phase, event, handlerIndex, link, commandXOR>>

EndScan ==
    /\ phase = "scan"
    /\ \A i \in Slots : i >= slotIndex => ~Matches(i)
    /\ NextHandler
    /\ UNCHANGED <<table, handlers, event, slotIndex, link, commandXOR>>

EndDelivery ==
    /\ phase = "dispatch"
    /\ handlerIndex >= eventHandlers
    /\ phase' = "idle"
    /\ UNCHANGED <<table, handlers, event, handlerIndex, slotIndex, link, commandXOR>>

-----------------------------------------------------------------------------
(* The car, as the code expects it: it acts on commands encoded with its   *)
(* key, acknowledges them by register, and announces a key on every        *)
(* connection and whenever it changes it.                                  *)

CarReceives ==
    /\ toCar # << >>
    /\ toCar' = Tail(toCar)
    /\ IF Head(toCar).xor = carXOR
       THEN /\ toApp' = Append(toApp, Ack(Head(toCar).register))
            /\ acksMissed' = acksMissed \ {Head(toCar).register}
       ELSE UNCHANGED <<toApp, acksMissed>>
    /\ UNCHANGED <<table, handlers, delivery, carXOR, keyed, disruptions, keyMissed, commandXOR>>

Announce(k) ==
    /\ carXOR' = k
    /\ keyed' = TRUE
    /\ toApp' = Append(toApp, BB(k))
    /\ keyMissed' = FALSE
    /\ acksMissed' = {}
    /\ UNCHANGED <<table, handlers, delivery, toCar, commandXOR>>

CarAnnouncesKey ==
    /\ ~keyed
    /\ \E k \in Keys \ {NoXOR} : Announce(k)
    /\ UNCHANGED disruptions

(* The bound leaves room for the key that makes up for a dropped read.     *)
CarChangesKey ==
    /\ keyed
    /\ IF keyMissed \/ acksMissed # {}
       THEN UNCHANGED disruptions
       ELSE disruptions < MaxDisruptions /\ disruptions' = disruptions + 1
    /\ \E k \in Keys \ {NoXOR, carXOR} : Announce(k)

CarSendsCC ==
    /\ disruptions < MaxDisruptions
    /\ disruptions' = disruptions + 1
    /\ toApp' = Append(toApp, CC)
    /\ UNCHANGED <<table, handlers, delivery, toCar, carXOR, keyed, missed, commandXOR>>

(* What both sides still had to say on the old connection is gone, and the *)
(* car starts the new one without a key.                                   *)
NewConnection ==
    /\ phase = "idle"
    /\ disruptions < MaxDisruptions
    /\ disruptions' = disruptions + 1
    /\ toCar' = << >>
    /\ toApp' = << >>
    /\ carXOR' = NoXOR
    /\ keyed' = FALSE
    /\ keyMissed' = FALSE
    /\ acksMissed' = {}
    /\ UNCHANGED <<table, handlers, delivery>>

(* phev_pipe_disconnectOutput forgets the key with the connection;         *)
DisconnectOutput ==
    /\ NewConnection
    /\ commandXOR' = NoXOR

(* a connection lost and re-established inside msg_tcpip.c does not.       *)
LinkLost ==
    /\ NewConnection
    /\ UNCHANGED commandXOR

-----------------------------------------------------------------------------
Library ==
    \/ Receive
    \/ ReadDropped
    \/ SkipNull
    \/ CallUser
    \/ UserReturns
    \/ NothingPending
    \/ ScanTable
    \/ Resend
    \/ CallCallback
    \/ CallbackReturns
    \/ ClearSilently
    \/ EndScan
    \/ EndDelivery

Application ==
    \/ RegisterEventHandler
    \/ DeregisterEventHandler
    \/ \E u \in Update : UpdateRegister(u)
    \/ UpdateRegisterTableFull

Environment ==
    \/ CarReceives
    \/ CarAnnouncesKey
    \/ CarChangesKey
    \/ CarSendsCC
    \/ DisconnectOutput
    \/ LinkLost

Next == Library \/ Application \/ Environment

Spec == Init /\ [][Next]_vars

-----------------------------------------------------------------------------
TypeOK ==
    /\ updates \in [Slots -> Update \cup {Free}]
    /\ numberOfCallbacks \in Nat
    /\ eventHandler \in [HandlerIndex -> Handlers]
    /\ eventHandlers \in 0 .. MaxEventHandlers
    /\ registrations \in 0 .. MaxUserHandlers
    /\ commandXOR \in Keys
    /\ phase \in {"idle", "dispatch", "user", "scan", "callback"}
    /\ event \in Message
    /\ handlerIndex \in 0 .. MaxEventHandlers
    /\ slotIndex \in 0 .. MaxUpdateCallbacks
    /\ toCar \in Seq(Command)
    /\ toApp \in Seq(Message)
    /\ carXOR \in Keys
    /\ keyed \in BOOLEAN
    /\ disruptions \in 0 .. MaxDisruptions
    /\ keyMissed \in BOOLEAN
    /\ acksMissed \subseteq Registers

(* The counter that gates the whole event handler (phev_pipe.c:1001) is    *)
(* the number of slots in use, also while callbacks issue updates in the   *)
(* middle of the loop that clears slots.                                   *)
CountMatchesSlots == numberOfCallbacks = Cardinality(UsedSlots)

(* While an update is pending, the handler that completes and resends it   *)
(* is in the table of event handlers, however the application registers    *)
(* and deregisters its own.                                                *)
PendingHasHandler ==
    UsedSlots # {} => \E h \in 0 .. eventHandlers - 1 : eventHandler[h] = "update"

(* On a connection whose key was announced, commands are encoded with the  *)
(* key the car expects, or the message that corrects it is on its way, or  *)
(* was dropped with a read: nothing else leaves the two with keys that     *)
(* differ.                                                                 *)
KeyAgreement == keyed => commandXOR = carXOR \/ KeyOnItsWay \/ keyMissed

CommandOnItsWay(u) ==
    \E n \in DOMAIN toCar :
        toCar[n] = [register |-> u.register, value |-> u.value, xor |-> carXOR]

HandlersAhead == IF phase = "dispatch" THEN handlerIndex ELSE handlerIndex + 1

(* The delivery in progress will still visit slot i.                       *)
VisitAhead(i) ==
    /\ phase # "idle"
    /\ event.type = "ack" => event.register = updates[i].register
    /\ \/ phase \in {"scan", "callback"} /\ i >= slotIndex
       \/ \E h \in HandlersAhead .. eventHandlers - 1 : eventHandler[h] = "update"

(* The message that would send the updates of r again, or end them, was    *)
(* dropped, and the car has sent none since.                               *)
Missed(r) == keyMissed \/ r \in acksMissed

Covered(i) ==
    \/ CommandOnItsWay(updates[i])
    \/ AckOnItsWay(updates[i].register)
    \/ VisitAhead(i)
    \/ KeyOnItsWay
    \/ ~keyed
    \/ Missed(updates[i].register)

(* No pending update is forgotten, unless a read with the key or with its  *)
(* acknowledgement is dropped: the car will still get it under its own     *)
(* key, or has answered it, or a key message (arrived or expected) makes   *)
(* the handler send it again.                                              *)
PendingCovered == \A i \in UsedSlots : Covered(i)

(* A slot never changes hands while in use: it keeps its update until an   *)
(* acknowledgement of that register is being delivered.                    *)
SlotKept ==
    \A i \in UsedSlots :
        updates'[i] # updates[i] =>
            /\ updates'[i] = Free
            /\ event.type = "ack"
            /\ event.register = updates[i].register

SlotKeptUntilAck == [][SlotKept]_vars

(* A handler is never pushed out of the table by another: an entry changes *)
(* only when it was free, or when the application takes its own handler    *)
(* out.  (New handlers go to the entry the count points at, not to the     *)
(* free entry the search found, phev_pipe.c:775-784.)                      *)
EntriesKept ==
    \A h \in HandlerIndex :
        eventHandler[h] # "NULL" /\ eventHandler'[h] # eventHandler[h] =>
            eventHandler[h] = "user" /\ eventHandler'[h] = "NULL"

HandlersKept == [][EntriesKept]_vars

(* Every delivery comes to its end, although handlers and callbacks extend *)
(* the tables it walks.                                                    *)
DeliveryEnds == phase # "idle" ~> phase = "idle"

(* Every update is acknowledged in the end, over key changes and lost      *)
(* connections, unless a read with the key or with its acknowledgement is  *)
(* dropped; then it waits for the next key, which takes it up again.       *)
UpdatesComplete ==
    \A i \in Slots :
        updates[i] # Free ~> updates[i] = Free \/ Missed(updates[i].register)

=============================================================================
