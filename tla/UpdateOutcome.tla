---------------------------- MODULE UpdateOutcome ----------------------------
(***************************************************************************)
(* UpdateRegister with what the updates do to the car: the value the car   *)
(* holds in each register, and the values the application has asked for    *)
(* since nothing of the register was under way.  The handler of phev_pipe.c *)
(* matches an acknowledgement by its register alone (phev_pipe.c:1022) and  *)
(* resends the table in slot order (1009), so acknowledgements of resent    *)
(* commands complete later updates of the same register, and commands of an *)
(* earlier update may follow those of a later one.  RegisterWrites says     *)
(* what is left of the promise, and this module implements it.              *)
(***************************************************************************)
EXTENDS UpdateRegister

CONSTANT Unset          \* the car's value before the first update
ASSUME UnsetAssumption == Unset \notin Values
ASSUME TicketAssumption == Free \notin Registers

VARIABLES
    car,                \* register -> the value the car holds
    asked               \* history: values asked for since r was opened

history == <<car, asked>>
allVars == <<vars, history>>

PendingFor(r) == \E i \in UsedSlots : updates[i].register = r

AckBeingDelivered(r) == phase # "idle" /\ event = Ack(r)

(* Something of r is in the table, on the wire or being delivered.         *)
Open(r) ==
    \/ PendingFor(r)
    \/ \E n \in DOMAIN toCar : toCar[n].register = r
    \/ \E n \in DOMAIN toApp : toApp[n] = Ack(r)
    \/ AckBeingDelivered(r)

InitOutcome ==
    /\ Init
    /\ car = [r \in Registers |-> Unset]
    /\ asked = [r \in Registers |-> {}]

Ask(u) ==
    /\ UpdateRegister(u)
    /\ asked' = [asked EXCEPT ![u.register] = IF Open(u.register) THEN @ \cup {u.value} ELSE {u.value}]
    /\ UNCHANGED car

(* The car writes the value of a command encoded with its key.             *)
CarWrites ==
    /\ CarReceives
    /\ LET c == Head(toCar)
       IN  car' = IF c.xor = carXOR THEN [car EXCEPT ![c.register] = c.value] ELSE car
    /\ UNCHANGED asked

(* The steps that neither ask for a value nor write one.                   *)
OtherStep ==
    \/ Library
    \/ RegisterEventHandler
    \/ DeregisterEventHandler
    \/ UpdateRegisterTableFull
    \/ CarAnnouncesKey
    \/ CarChangesKey
    \/ CarSendsCC
    \/ DisconnectOutput
    \/ LinkLost

NextOutcome ==
    \/ \E u \in Update : Ask(u)
    \/ CarWrites
    \/ OtherStep /\ UNCHANGED history

SpecOutcome == InitOutcome /\ [][NextOutcome]_allVars

(* phev_service_start calls phev_pipe_loop for ever and callbacks return;  *)
(* the car reads what arrives and announces a key on each connection, so a *)
(* connection that is lost is noticed (StaysConnected of Connection).      *)
FairOutcome ==
    /\ SpecOutcome
    /\ WF_allVars(Library /\ UNCHANGED history)
    /\ WF_allVars(CarWrites)
    /\ WF_allVars(CarAnnouncesKey /\ UNCHANGED history)

-----------------------------------------------------------------------------
(* With no update of a register pending, the car holds a value asked for   *)
(* since the register was last at rest: an acknowledgement that completes  *)
(* the wrong update of the register, one sent again, or a key change never *)
(* leave the car with a value of before.                                   *)
SettledAsAsked ==
    \A r \in Registers : asked[r] # {} /\ ~PendingFor(r) => car[r] \in asked[r]

(* The update handler keeps the promise of RegisterWrites: slots of the    *)
(* table of phev_pipe.c are its tickets.                                   *)
Writes == INSTANCE RegisterWrites WITH
    Tickets <- Slots,
    None    <- Free,
    open    <- [r \in Registers |-> Open(r)],
    waiting <- [i \in Slots |-> IF updates[i] = Free THEN Free ELSE updates[i].register]

WritesImplemented == Writes!Spec

=============================================================================
