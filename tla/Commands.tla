------------------------------- MODULE Commands -------------------------------
(***************************************************************************)
(* How requests become register updates.  Requests arrive as JSON from the *)
(* input client, several in one message: phev_service_inputSplitter takes  *)
(* them apart, and phev_service_jsonInputTransformer checks each of them   *)
(* and translates it.  The application may ask for the same operations     *)
(* with calls of phev.c.  Both end in phev_pipe_updateRegister, which is   *)
(* the subject of the module UpdateRegister.                               *)
(***************************************************************************)
EXTENDS Integers, FiniteSets, SequencesExt

CONSTANTS
    Numbers,         \* numbers in requests, any int of C
    MaxItems,        \* bound: length of an array in a request
    MaxRequests,     \* bound: requests in one message
    Operations       \* bound: operations asked for

ASSUME CommandsAssumption ==
    /\ Numbers \subseteq Int
    /\ MaxItems \in Nat
    /\ MaxRequests \in Nat
    /\ Operations \subseteq {"headLights", "parkingLights", "airCon", "update",
                              "removeACError", "airConMode", "airConMY19"}

(* A JSON value: cJSON keeps an int for a number, and 0 for the rest.      *)
Number(n) == [kind |-> "number", int |-> n]
Text == [kind |-> "text", int |-> 0]
Absent == [kind |-> "absent", int |-> 0]
Array(s) == [kind |-> "array", int |-> 0, items |-> s]

Scalar == {Number(n) : n \in Numbers} \cup {Text}
Arrays == {Array(s) : s \in UNION {[1 .. n -> Scalar] : n \in 0 .. MaxItems}}
Json == Scalar \cup {Absent} \cup Arrays

None == [kind |-> "none"]
Update == [kind : {"update"}, register : Scalar \cup {Absent}, value : Json]
Operation ==
    [kind : {"operation"},
     name : (Operations \cap {"headLights", "airCon", "update"}) \cup {"other"},
     argument : {"on", "off", "true", "other"}]

(* A request may hold an update, an operation, or both.                    *)
Request == [update : Update \cup {None}, operation : Operation \cup {None}]

Command(r, data) == [kind |-> "command", register |-> r, data |-> data]

(* phev_core.h 39-48; the register of phev_removeACError has no name.      *)
KO_WF_AC_SCH_SP == 2
KO_WF_AC_SCH_SP_MY19 == 27
KO_WF_MANUAL_AC_ON_RQ_SP == 4
KO_WF_EV_UPDATE_SP == 6
KO_WF_H_LAMP_CONT_SP == 10
KO_WF_P_LAMP_CONT_SP == 11
ACErrorRegister == 19

(* phevAirConMode_t and phevAirConTime_t.                                  *)
Mode == 0 .. 3
Time == 0 .. 2

VARIABLES
    connected,       \* ctx->connected of the pipe
    bundle,          \* requests of the last input message, not done yet
    issued,          \* command the last step made an update of, or None
    asked,           \* history: operation the last step was asked for, or None
    earlier          \* history: the operation asked for before, or None

history == <<asked, earlier>>
vars == <<connected, bundle, issued, history>>

-----------------------------------------------------------------------------
(* phev_service_validateCommand.                                           *)

(* Faulty variant of CheckByte: one too many.                              *)
CheckByteLoosely(n) == n % 65536 <= 256

(* phev_service_checkByte: its parameter has 16 bits.                      *)
CheckByte(n) == n % 65536 < 256

ValidUpdate(u) ==
    /\ CheckByte(u.register.int)
    /\ IF u.value.kind = "array"
       THEN \A i \in DOMAIN u.value.items :
               u.value.items[i].kind = "number" /\ CheckByte(u.value.items[i].int)
       ELSE CheckByte(u.value.int)

ValidOperation(o) ==
    \/ o.name \in {"headLights", "airCon"} /\ o.argument \in {"on", "off"}
    \/ o.name = "update" /\ o.argument = "true"

Given(v) == v.kind # "absent"

HasUpdate(r) == r.update # None /\ Given(r.update.register) /\ Given(r.update.value)

ValidateCommand(r) ==
    IF HasUpdate(r) THEN ValidUpdate(r.update)
    ELSE r.operation # None /\ ValidOperation(r.operation)

-----------------------------------------------------------------------------
(* phev_service_updateRegisterHandler and phev_service_operationHandler.   *)

Data(v) ==
    IF v.kind = "array" THEN [i \in DOMAIN v.items |-> v.items[i].int % 256]
    ELSE <<v.int % 256>>

UpdateCommand(u) ==
    IF Given(u.register) /\ u.value.kind \in {"array", "number"}
    THEN Command(u.register.int % 256, Data(u.value))
    ELSE None

OperationCommand(o) ==
    LET on == o.argument = "on"
    IN  CASE o.name = "headLights" -> Command(KO_WF_H_LAMP_CONT_SP, <<IF on THEN 1 ELSE 2>>)
          [] o.name = "airCon" -> Command(KO_WF_MANUAL_AC_ON_RQ_SP, <<IF on THEN 2 ELSE 1>>)
          [] o.name = "update" -> Command(KO_WF_EV_UPDATE_SP, <<3>>)

(* phev_service_jsonCommandToPhevMessage.                                  *)
ToCommand(r) ==
    IF ~ValidateCommand(r) THEN None
    ELSE IF r.update # None THEN UpdateCommand(r.update)
    ELSE OperationCommand(r.operation)

-----------------------------------------------------------------------------
(* The calls of phev.c; some of them differ with and without a callback.   *)

(* Faulty variant of HeadLights: on and off are swapped.                   *)
HeadLightsSwapped(on, callback) == Command(KO_WF_H_LAMP_CONT_SP, <<IF on THEN 2 ELSE 1>>)

HeadLights(on, callback) == Command(KO_WF_H_LAMP_CONT_SP, <<IF on THEN 1 ELSE 2>>)

(* Faulty variant of ParkingLights: the register of the head lights.       *)
ParkingLightsInFront(on, callback) == Command(KO_WF_H_LAMP_CONT_SP, <<IF on THEN 1 ELSE 2>>)

ParkingLights(on, callback) == Command(KO_WF_P_LAMP_CONT_SP, <<IF on THEN 1 ELSE 2>>)

AirCon(on, callback) ==
    Command(KO_WF_MANUAL_AC_ON_RQ_SP,
            <<IF callback THEN IF on THEN 2 ELSE 1 ELSE IF on THEN 1 ELSE 2>>)

UpdateAll == Command(KO_WF_EV_UPDATE_SP, <<3>>)

RemoveACError == Command(ACErrorRegister, <<1>>)

(* Faulty variant of AirConMode: the time goes into the bits of the mode.  *)
AirConModeUnshifted(mode, time) ==
    Command(KO_WF_AC_SCH_SP, [i \in 1 .. 15 |-> IF i <= 2 THEN 0 ELSE IF i = 7 THEN mode + time ELSE 255])

(* The byte of the mode holds both: val |= 0, 16 or 32.                    *)
AirConMode(mode, time) ==
    Command(KO_WF_AC_SCH_SP, [i \in 1 .. 15 |-> IF i <= 2 THEN 0 ELSE IF i = 7 THEN mode + 16 * time ELSE 255])

AirConMY19(mode, time) == Command(KO_WF_AC_SCH_SP_MY19, <<2, mode, time, 0>>)

-----------------------------------------------------------------------------
Remember(name, argument, command) ==
    /\ earlier' = IF asked # None THEN asked ELSE earlier
    /\ asked' = [name |-> name, argument |-> argument, command |-> command]

NothingAsked ==
    /\ earlier' = IF asked # None THEN asked ELSE earlier
    /\ asked' = None

Init ==
    /\ connected \in BOOLEAN
    /\ bundle = << >>
    /\ issued = None
    /\ asked = None
    /\ earlier = None

(* phev_service_inputSplitter.                                             *)
InputArrives ==
    /\ bundle = << >>
    /\ \E n \in 0 .. MaxRequests : bundle' \in [1 .. n -> Request]
    /\ issued' = None
    /\ NothingAsked
    /\ UNCHANGED connected

(* phev_service_jsonInputTransformer.                                      *)
DropUnconnected ==
    /\ bundle # << >>
    /\ ~connected
    /\ bundle' = Tail(bundle)
    /\ issued' = None
    /\ NothingAsked
    /\ UNCHANGED connected

TransformInput ==
    /\ bundle # << >>
    /\ connected
    /\ LET r == Head(bundle)
       IN  /\ issued' = ToCommand(r)
           /\ IF issued' # None /\ r.update = None
              THEN Remember(r.operation.name, r.operation.argument, issued')
              ELSE NothingAsked
    /\ bundle' = Tail(bundle)
    /\ UNCHANGED connected

(* The application calls between messages; phev.c does not ask whether the *)
(* pipe is connected.                                                      *)
Call(name, argument, command) ==
    /\ bundle = << >>
    /\ name \in Operations
    /\ issued' = command
    /\ Remember(name, argument, command)
    /\ UNCHANGED <<connected, bundle>>

CallHeadLights ==
    \E on, callback \in BOOLEAN :
        Call("headLights", IF on THEN "on" ELSE "off", HeadLights(on, callback))

CallAirCon ==
    \E on, callback \in BOOLEAN :
        Call("airCon", IF on THEN "on" ELSE "off", AirCon(on, callback))

CallParkingLights ==
    \E on, callback \in BOOLEAN :
        Call("parkingLights", IF on THEN "on" ELSE "off", ParkingLights(on, callback))

CallUpdateAll == Call("update", "true", UpdateAll)

CallRemoveACError == Call("removeACError", "true", RemoveACError)

CallAirConMode ==
    \E mode \in Mode, time \in Time : Call("airConMode", <<mode, time>>, AirConMode(mode, time))

CallAirConMY19 ==
    \E mode \in Mode, time \in Time : Call("airConMY19", <<mode, time>>, AirConMY19(mode, time))

ConnectionChanges ==
    /\ bundle = << >>
    /\ connected' = ~connected
    /\ issued' = None
    /\ NothingAsked
    /\ UNCHANGED bundle

Next ==
    \/ InputArrives
    \/ DropUnconnected
    \/ TransformInput
    \/ CallHeadLights
    \/ CallAirCon
    \/ CallParkingLights
    \/ CallUpdateAll
    \/ CallRemoveACError
    \/ CallAirConMode
    \/ CallAirConMY19
    \/ ConnectionChanges

Spec == Init /\ [][Next]_vars

-----------------------------------------------------------------------------
(* Properties.                                                             *)

Byte == 0 .. 255

(* The values an update is to send.                                        *)
Sent(u) == IF u.value.kind = "array" THEN u.value.items ELSE <<u.value>>

NumbersOf(u) == {u.register.int} \cup {Sent(u)[i].int : i \in DOMAIN Sent(u)}

(* A request that says one thing: an update whose register is a number, or *)
(* an operation, and no number that wraps around in 16 bits.               *)
Plain(r) ==
    \/ r.update = None
    \/ /\ r.operation = None
       /\ r.update.register.kind = "number"
       /\ \A n \in NumbersOf(r.update) : 0 <= n /\ n < 65536

(* The command a plain request means, if any, and no other: what an update *)
(* names byte for byte, provided all of it are bytes.                      *)
MeansCommand(r, c) ==
    LET u == r.update
        wellFormed ==
            \A i \in DOMAIN Sent(u) : Sent(u)[i].kind = "number" /\ Sent(u)[i].int \in Byte
    IN  IF u = None THEN (c = None) = (r.operation = None \/ ~ValidOperation(r.operation))
        ELSE IF u.register.int \in Byte /\ wellFormed
        THEN c.kind = "command" /\ c.register = u.register.int
             /\ c.data = [i \in DOMAIN Sent(u) |-> Sent(u)[i].int]
        ELSE c = None

(* Each plain request of a message becomes the command it means, exactly   *)
(* when it is well formed: checking and translating, which look at the     *)
(* request on their own, agree (phev_service.c 355-564).                   *)
PlainAsMeant ==
    [][TransformInput /\ Plain(Head(bundle)) => MeansCommand(Head(bundle), issued')]_vars

(* Two operations asked for one after the other.                           *)
Asked == {asked, earlier} \ {None}

OneMeaning(name) ==
    \A x, y \in Asked :
        x.name = name /\ y.name = name /\ x.argument = y.argument => x.command = y.command

(* An operation sends the same command whichever way it is asked for, by   *)
(* JSON or by a call, with or without a callback (phev.c 286-320, 341-376  *)
(* and phev_service.c 484-538).                                            *)
OperationsAgree == \A name \in Operations \ {"airCon"} : OneMeaning(name)

(* Different operations, and one operation with different arguments, send  *)
(* different commands: the car can tell what it was asked for.  The air    *)
(* conditioning is left out, whose two calls disagree: see AirConAgrees.   *)
OperationsDiffer ==
    \A x, y \in Asked :
        x.command = y.command /\ "airCon" \notin {x.name, y.name} =>
            x.name = y.name /\ x.argument = y.argument

(* The two calls for the mode of the air conditioning, one for each model  *)
(* year, ask for the same mode and time: the nibbles in which phev.c packs *)
(* them (420-427), and in which phev_service_statusAsJson reads the car's  *)
(* (888-889), are the two bytes of the newer command (383-396).            *)
ModesAgree ==
    \A x, y \in Asked :
        x.name = "airConMode" /\ y.name = "airConMY19" /\ x.argument = y.argument =>
            y.command.data[2] = x.command.data[7] % 16 /\ y.command.data[3] = x.command.data[7] \div 16

(* The air conditioning (phev.c 322-341 and phev_service.c 506-523).       *)
AirConAgrees == OneMeaning("airCon")

(* A request with a register or a value that is not a byte is rejected.    *)
OutOfRangeRejected ==
    [][LET u == Head(bundle).update
       IN  TransformInput /\ HasUpdate(Head(bundle)) /\ ~(NumbersOf(u) \subseteq Byte)
               => issued' = None]_vars

=============================================================================
