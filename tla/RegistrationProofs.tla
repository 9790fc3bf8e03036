-------------------------- MODULE RegistrationProofs --------------------------
(***************************************************************************)
(* Proofs that the registration mode of the service reports completion     *)
(* only for a device the car knows, and that the filter hides no report    *)
(* which is still to be answered, for any number of keys, places,          *)
(* disruptions and other devices.                                          *)
(***************************************************************************)
EXTENDS Registration, TLAPS

(* An acknowledgement, on its way, being delivered or reported to the      *)
(* application, is of a device the car knows.                              *)
AckInv ==
    /\ event = "ack" => mine
    /\ complete => mine
    /\ \A i \in 1 .. Len(toApp) : toApp[i] = RegisterAck => mine

Queue == {VIN(n) : n \in Nat} \cup {BB(k) : k \in Keys} \cup {RegisterAck}

Types ==
    /\ toApp \in Seq(Queue)
    /\ others \in Nat
    /\ mine \in BOOLEAN

IInv == Types /\ AckInv

(* What is left of a sequence after its end or its first element is lost   *)
(* has no new elements.                                                    *)
LEMMA Cut ==
    ASSUME NEW S, NEW s \in Seq(S), NEW n \in 0 .. Len(s)
    PROVE  /\ SubSeq(s, 1, n) \in Seq(S)
           /\ Len(SubSeq(s, 1, n)) = n
           /\ \A i \in 1 .. n : SubSeq(s, 1, n)[i] = s[i]
  OBVIOUS

LEMMA Rest ==
    ASSUME NEW S, NEW s \in Seq(S), NEW n \in 1 .. Len(s)
    PROVE  /\ SubSeq(s, n + 1, Len(s)) \in Seq(S)
           /\ Len(SubSeq(s, n + 1, Len(s))) = Len(s) - n
           /\ \A i \in 1 .. Len(s) - n :
                 SubSeq(s, n + 1, Len(s))[i] = s[i + n] /\ i + n \in 1 .. Len(s)
  OBVIOUS

LEMMA Taken ==
    ASSUME NEW S, NEW s \in Seq(S), s # << >>
    PROVE  /\ Tail(s) \in Seq(S)
           /\ Len(Tail(s)) = Len(s) - 1
           /\ \A i \in 1 .. Len(s) - 1 : Tail(s)[i] = s[i + 1]
           /\ Head(s) = s[1]
           /\ 1 \in 1 .. Len(s)
           /\ Head(s) \in S
  OBVIOUS

(* The only message with the command of an acknowledgement is one.         *)
LEMMA AckCommand == ASSUME NEW m \in Queue, m.command = "ack" PROVE m = RegisterAck
  BY DEF Queue, VIN, BB, RegisterAck

(* A message taken from the queue leaves it as AckInv wants it.            *)
LEMMA QueueTaken ==
    ASSUME IInv, NEW c, Take(c), UNCHANGED devices
    PROVE  /\ Types'
           /\ \A i \in 1 .. Len(toApp') : toApp'[i] = RegisterAck => mine'
           /\ c = "ack" => mine'
<1>1. toApp # << >> /\ toApp \in Seq(Queue) /\ mine' = mine /\ others' = others
  BY DEF Take, IInv, Types, devices
<1>2. \A i \in 1 .. Len(toApp') : i + 1 \in 1 .. Len(toApp) /\ toApp'[i] = toApp[i + 1]
  BY <1>1, Taken DEF Take
<1>3. toApp' \in Seq(Queue)
  BY <1>1, Taken DEF Take
<1>4. c = "ack" => mine
  <2>1. c = "ack" => Head(toApp) = RegisterAck
    BY <1>1, Taken, AckCommand DEF Take
  <2>2. QED
    BY <1>1, <2>1, Taken DEF IInv, AckInv
<1>5. QED
  BY <1>1, <1>2, <1>3, <1>4 DEF IInv, Types, AckInv

(* So does the loss of the end of the queue.                               *)
LEMMA QueueCut ==
    ASSUME IInv, Disrupt, UNCHANGED devices
    PROVE  /\ Types'
           /\ \A i \in 1 .. Len(toApp') : toApp'[i] = RegisterAck => mine'
<1>1. PICK n \in 0 .. Len(toApp) : toApp' = SubSeq(toApp, 1, n)
  BY DEF Disrupt
<1>2. /\ toApp' \in Seq(Queue) /\ Len(toApp') = n
      /\ \A i \in 1 .. n : toApp'[i] = toApp[i] /\ i \in 1 .. Len(toApp)
  BY <1>1, Cut DEF IInv, Types
<1>3. QED
  BY <1>2 DEF IInv, Types, AckInv, devices

(* and dropping what a read brings.                                        *)
LEMMA QueueDropped ==
    ASSUME IInv, ReadDropped
    PROVE  IInv'
<1>1. PICK n \in 1 .. Len(toApp) : toApp' = SubSeq(toApp, n + 1, Len(toApp))
  BY DEF ReadDropped
<1>2. /\ toApp' \in Seq(Queue) /\ Len(toApp') = Len(toApp) - n
      /\ \A i \in 1 .. Len(toApp) - n : toApp'[i] = toApp[i + n] /\ i + n \in 1 .. Len(toApp)
  BY <1>1, Rest DEF IInv, Types
<1>3. UNCHANGED <<library, devices>>
  BY DEF ReadDropped
<1>4. QED
  BY <1>2, <1>3 DEF IInv, Types, AckInv, library, devices

(* A message the car adds is no acknowledgement unless it knows the        *)
(* device.                                                                 *)
LEMMA QueueGrown ==
    ASSUME IInv, NEW m \in Queue, m = RegisterAck => mine',
           mine => mine', toApp' = Append(toApp, m)
    PROVE  /\ toApp' \in Seq(Queue)
           /\ \A i \in 1 .. Len(toApp') : toApp'[i] = RegisterAck => mine'
<1>1. /\ Len(toApp') = Len(toApp) + 1
      /\ \A i \in 1 .. Len(toApp) : toApp'[i] = toApp[i]
      /\ toApp'[Len(toApp) + 1] = m
  BY DEF IInv, Types
<1>2. QED
  BY <1>1 DEF IInv, Types, AckInv

-----------------------------------------------------------------------------
(* The initial states satisfy the invariant.                               *)
LEMMA InitInv == Init => IInv
<1> SUFFICES ASSUME Init PROVE IInv
  OBVIOUS
<1>1. others \in Nat
  BY RegistrationAssumption DEF RegistrationAssumption, Init
<1>2. Types
  <2>1. toApp \in Seq(Queue)
    BY DEF Init
  <2>2. mine \in BOOLEAN
    BY DEF Init
  <2>3. QED
    BY <1>1, <2>1, <2>2 DEF Types
<1>3. AckInv
  BY DEF Init, AckInv
<1>4. QED
  BY <1>2, <1>3 DEF IInv

(* Every step keeps it.                                                    *)
LEMMA NextInv == IInv /\ [Next]_vars => IInv'
<1> SUFFICES ASSUME IInv, [Next]_vars PROVE IInv'
  OBVIOUS
<1>1. CASE ReceiveKey \/ ReceiveFilteredVIN
  <2>1. /\ UNCHANGED <<devices, event, complete>>
        /\ Take("bb") \/ Take("vin")
    BY <1>1 DEF ReceiveKey, ReceiveFilteredVIN, Untouched, library
  <2>2. QED
    BY <2>1, QueueTaken DEF IInv, AckInv, devices
<1>2. CASE ReceiveVIN \/ ReceiveVINWhenFull
  <2>1. /\ UNCHANGED <<devices, complete>>
        /\ Take("vin")
        /\ event' = "vin" \/ event' = event
    BY <1>2 DEF ReceiveVIN, ReceiveVINWhenFull, Untouched
  <2>2. QED
    BY <2>1, QueueTaken DEF IInv, AckInv, devices
<1>3. CASE ReceiveAck
  <2>1. UNCHANGED <<devices, complete>> /\ Take("ack")
    BY <1>3 DEF ReceiveAck, Untouched
  <2>2. QED
    BY <2>1, QueueTaken DEF IInv, AckInv, devices
<1>4. CASE ApplicationReturns \/ SendRegister \/ CallbackReturns
  <2>1. /\ UNCHANGED <<devices, complete, toApp>>
        /\ event' = "none" \/ event' = event
    BY <1>4 DEF ApplicationReturns, SendRegister, CallbackReturns, Untouched
  <2>2. QED
    BY <2>1 DEF IInv, Types, AckInv, devices
<1>5. CASE CallCompletion
  <2>1. UNCHANGED <<devices, toApp, event>> /\ event = "ack"
    BY <1>5 DEF CallCompletion, Completes, Untouched
  <2>2. QED
    BY <2>1 DEF IInv, Types, AckInv, devices
<1>6. CASE DisconnectOutput \/ LinkLost
  <2>1. Disrupt /\ UNCHANGED <<devices, event, complete>>
    BY <1>6 DEF DisconnectOutput, LinkLost, library
  <2>2. QED
    BY <2>1, QueueCut DEF IInv, AckInv, devices
<1>7. CASE Reconnect \/ UNCHANGED vars
  <2>1. UNCHANGED <<devices, library, toApp>>
    BY <1>7 DEF Reconnect, vars
  <2>2. QED
    BY <2>1 DEF IInv, Types, AckInv, devices, library
<1>8. CASE CarReceives
  <2>1. UNCHANGED <<library, others>>
    BY <1>8 DEF CarReceives
  <2>2. CASE UNCHANGED <<toApp, mine>>
    BY <2>1, <2>2 DEF IInv, Types, AckInv, library
  <2>3. CASE toApp' = Append(toApp, RegisterAck) /\ mine' = TRUE
    <3>1. RegisterAck \in Queue
      BY DEF Queue
    <3>2. /\ toApp' \in Seq(Queue)
          /\ \A i \in 1 .. Len(toApp') : toApp'[i] = RegisterAck => mine'
      BY <2>3, <3>1, QueueGrown
    <3>3. QED
      BY <2>1, <2>3, <3>2 DEF IInv, Types, AckInv, library
  <2>4. QED
    BY <1>8, <2>2, <2>3 DEF CarReceives
<1>9. ASSUME NEW m \in Queue, m # RegisterAck, toApp' = Append(toApp, m),
             UNCHANGED <<library, devices>>
      PROVE  IInv'
  <2>1. /\ toApp' \in Seq(Queue)
        /\ \A i \in 1 .. Len(toApp') : toApp'[i] = RegisterAck => mine'
    BY <1>9, QueueGrown DEF devices
  <2>2. QED
    BY <1>9, <2>1 DEF IInv, Types, AckInv, library, devices
<1>10. CASE CarAnnouncesKey \/ CarChangesKey
  <2>1. PICK k \in Keys : Announce(k)
    BY <1>10 DEF CarAnnouncesKey, CarChangesKey
  <2>2. BB(k) \in Queue /\ BB(k) # RegisterAck
    BY DEF Queue, BB, RegisterAck
  <2>3. QED
    BY <2>1, <2>2, <1>9 DEF Announce
<1>11. CASE CarSendsVIN
  <2>1. Known \in Nat
    BY DEF Known, IInv, Types
  <2>2. VIN(Known) \in Queue /\ VIN(Known) # RegisterAck
    BY <2>1 DEF Queue, VIN, RegisterAck
  <2>3. QED
    BY <1>11, <2>2, <1>9 DEF CarSendsVIN
<1>12. CASE OtherRegisters \/ OtherRemoved
  <2>1. UNCHANGED <<library, toApp, mine>> /\ others' \in Nat
    BY <1>12 DEF OtherRegisters, OtherRemoved, IInv, Types
  <2>2. QED
    BY <2>1 DEF IInv, Types, AckInv, library
<1>13. CASE ReadNothing
  BY <1>13, <1>7 DEF ReadNothing
<1>14. CASE ReadDropped
  BY <1>14, QueueDropped
<1>15. QED
  BY <1>1, <1>2, <1>3, <1>4, <1>5, <1>6, <1>7, <1>8, <1>10, <1>11, <1>12, <1>13, <1>14
     DEF Next, Library, Working, Environment

-----------------------------------------------------------------------------
(* Acknowledgements only come for a device the car has registered, and     *)
(* only they lead to the completion callback.                              *)
THEOREM AcksOfKnown == Spec => []IInv
<1>1. QED
  BY InitInv, NextInv, PTL DEF Spec

(* The application is told that the registration is complete only when the *)
(* car knows the device (phev_service.c 19-29).                            *)
THEOREM CompleteOnlyIfRegistered == Spec => []CompleteIsRegistered
<1>1. IInv => CompleteIsRegistered
  BY DEF IInv, AckInv, CompleteIsRegistered
<1>2. QED
  BY <1>1, AcksOfKnown, PTL

-----------------------------------------------------------------------------
(* The commands on their way, and the key the next one gets.               *)
CommandTypes == toCar \in Seq(Keys) /\ commandXOR \in Keys

(* An event ends before the next message is taken, and the callback is     *)
(* only called for an acknowledgement; without a connection no command is  *)
(* on its way.                                                             *)
EventInv ==
    /\ event = "vin" => phase \in {"application", "service"}
    /\ phase = "callback" => event = "ack"
    /\ ~up => toCar = << >>

(* A report with a place left that the model holds has led to a command.   *)
RaisedInv ==
    (vin # Unset /\ vin < Places) =>
        mine \/ lost \/ event = "vin" \/ toCar # << >>

(* The last report of the connection is on its way, with none after it, or *)
(* the model holds it, or it was dropped with a read.                      *)
NoReportAfter(i) == \A j \in 1 .. Len(toApp) : j > i => toApp[j].command # "vin"

ReportInv ==
    (up /\ reported # Unset) =>
        \/ \E i \in 1 .. Len(toApp) : toApp[i] = VIN(reported) /\ NoReportAfter(i)
        \/ vin = reported /\ NoReportAfter(0)
        \/ unread

MissInv == CommandTypes /\ EventInv /\ RaisedInv /\ ReportInv

LEMMA MissInit == Init => MissInv
<1> SUFFICES ASSUME Init PROVE MissInv
  OBVIOUS
<1>1. CommandTypes
  BY RegistrationAssumption DEF RegistrationAssumption, Init, CommandTypes
<1>2. EventInv
  BY DEF Init, EventInv
<1>3. RaisedInv
  BY DEF Init, RaisedInv
<1>4. ReportInv
  BY DEF Init, ReportInv
<1>5. QED
  BY <1>1, <1>2, <1>3, <1>4 DEF MissInv

LEMMA KeyOfBB == ASSUME NEW m \in Queue, m.command = "bb" PROVE m.value \in Keys
  BY DEF Queue, VIN, BB, RegisterAck

LEMMA CommandTypesStep == ASSUME Types, CommandTypes, [Next]_vars PROVE CommandTypes'
<1> USE DEF CommandTypes
<1>1. CASE ReceiveKey
  <2>1. toApp # << >> /\ toApp \in Seq(Queue)
    BY <1>1 DEF ReceiveKey, Take, Types
  <2>2. Head(toApp) \in Queue /\ Head(toApp).command = "bb"
    BY <1>1, <2>1, Taken DEF ReceiveKey, Take
  <2>3. QED
    BY <1>1, <2>2, KeyOfBB DEF ReceiveKey, Untouched
<1>2. CASE SendRegister
  <2>1. toCar' = Append(toCar, commandXOR) \/ toCar' = toCar
    BY <1>2 DEF SendRegister
  <2>2. commandXOR' = commandXOR
    BY <1>2 DEF SendRegister
  <2>3. QED
    BY <2>1, <2>2
<1>3. CASE \/ ReceiveFilteredVIN \/ ReceiveVIN \/ ReceiveVINWhenFull \/ ReceiveAck
           \/ ApplicationReturns \/ CallCompletion \/ CallbackReturns
  <2>1. toCar' = toCar /\ commandXOR' = commandXOR
    BY <1>3 DEF ReceiveFilteredVIN, ReceiveVIN, ReceiveVINWhenFull, ReceiveAck,
                ApplicationReturns, CallCompletion, CallbackReturns, Untouched, library
  <2>2. QED
    BY <2>1
<1>4. CASE DisconnectOutput \/ LinkLost \/ Reconnect
  <2>1. toCar' = << >> /\ commandXOR' \in {NoXOR, commandXOR}
    BY <1>4 DEF DisconnectOutput, LinkLost, Reconnect, NewSession, library
  <2>2. QED
    BY <2>1, RegistrationAssumption DEF RegistrationAssumption
<1>5. CASE CarReceives
  <2>1. toCar' \in Seq(Keys)
    BY <1>5, Taken DEF CarReceives
  <2>2. QED
    BY <1>5, <2>1 DEF CarReceives, library
<1>6. ASSUME NEW k \in Keys, Announce(k) PROVE CommandTypes'
  BY <1>6 DEF Announce, library
<1>7. CASE CarSendsVIN \/ OtherRegisters \/ OtherRemoved \/ ReadDropped
  BY <1>7 DEF ReadDropped, CarSendsVIN, OtherRegisters, OtherRemoved, library
<1>8. CASE UNCHANGED vars
  BY <1>8 DEF vars, library
<1>9. QED
  BY <1>1, <1>2, <1>3, <1>4, <1>5, <1>6, <1>7, <1>8
     DEF Next, Library, Working, Environment, ReadNothing, CarAnnouncesKey, CarChangesKey

(* The events and the connection.                                          *)
LEMMA EventStep == ASSUME EventInv, [Next]_vars PROVE EventInv'
<1> USE DEF EventInv
<1>1. CASE \/ ReceiveKey \/ ReceiveFilteredVIN \/ ReceiveVIN
           \/ ReceiveVINWhenFull \/ ReceiveAck
  BY <1>1 DEF ReceiveKey, ReceiveFilteredVIN, ReceiveVIN, ReceiveVINWhenFull, ReceiveAck,
              Take, Untouched, library
<1>2. CASE ApplicationReturns \/ SendRegister \/ CallCompletion \/ CallbackReturns
  BY <1>2 DEF ApplicationReturns, SendRegister, CallCompletion, Completes, CallbackReturns,
              Untouched
<1>3. CASE DisconnectOutput \/ LinkLost \/ Reconnect
  BY <1>3 DEF DisconnectOutput, LinkLost, Reconnect, NewSession, library
<1>4. CASE CarReceives
  <2>1. up /\ UNCHANGED <<library, up>>
    BY <1>4 DEF CarReceives
  <2>2. QED
    BY <2>1 DEF library
<1>5. ASSUME NEW k \in Keys, Announce(k) PROVE EventInv'
  BY <1>5 DEF Announce, library
<1>6. CASE CarSendsVIN \/ OtherRegisters \/ OtherRemoved \/ ReadDropped
  BY <1>6 DEF ReadDropped, CarSendsVIN, OtherRegisters, OtherRemoved, library
<1>7. CASE UNCHANGED vars
  BY <1>7 DEF vars, library
<1>8. QED
  BY <1>1, <1>2, <1>3, <1>4, <1>5, <1>6, <1>7
     DEF Next, Library, Working, Environment, ReadNothing, CarAnnouncesKey, CarChangesKey

(* A report that was let pass leads to a command, which the car answers or *)
(* which is lost.                                                          *)
LEMMA RaisedStep ==
    ASSUME CommandTypes, EventInv, RaisedInv, [Next]_vars PROVE RaisedInv'
<1> USE DEF RaisedInv
<1>1. CASE ReceiveKey \/ ReceiveFilteredVIN \/ ReceiveAck
  <2>1. phase = "idle" /\ UNCHANGED <<vin, mine, lost, toCar>>
    BY <1>1 DEF ReceiveKey, ReceiveFilteredVIN, ReceiveAck, Take, Untouched, library, devices
  <2>2. QED
    BY <2>1 DEF EventInv
<1>2. CASE ReceiveVIN
  BY <1>2 DEF ReceiveVIN
<1>3. CASE ReceiveVINWhenFull
  BY <1>3 DEF ReceiveVINWhenFull, HasPlace
<1>4. CASE ApplicationReturns
  BY <1>4 DEF ApplicationReturns, Untouched, devices
<1>5. CASE SendRegister
  <2>1. CASE up
    <3>1. toCar' # << >>
      BY <1>5, <2>1 DEF SendRegister, CommandTypes
    <3>2. QED
      BY <3>1
  <2>2. CASE ~up
    BY <1>5, <2>2 DEF SendRegister
  <2>3. QED
    BY <2>1, <2>2
<1>6. CASE CallCompletion \/ CallbackReturns
  <2>1. event # "vin" /\ UNCHANGED <<vin, mine, lost, toCar>>
    BY <1>6 DEF CallCompletion, CallbackReturns, Completes, EventInv, Untouched, devices
  <2>2. QED
    BY <2>1
<1>7. CASE DisconnectOutput \/ LinkLost
  BY <1>7 DEF DisconnectOutput, LinkLost, Disrupt, library, devices
<1>8. CASE Reconnect
  BY <1>8 DEF Reconnect, EventInv, library, devices
<1>9. CASE CarReceives
  BY <1>9 DEF CarReceives
<1>10. ASSUME NEW k \in Keys, Announce(k) PROVE RaisedInv'
  BY <1>10 DEF Announce, library, devices
<1>11. CASE CarSendsVIN \/ OtherRegisters \/ OtherRemoved \/ ReadDropped
  BY <1>11 DEF ReadDropped, CarSendsVIN, OtherRegisters, OtherRemoved, library, devices
<1>12. CASE UNCHANGED vars
  BY <1>12 DEF vars, library, devices
<1>13. QED
  BY <1>1, <1>2, <1>3, <1>4, <1>5, <1>6, <1>7, <1>8, <1>9, <1>10, <1>11, <1>12
     DEF Next, Library, Working, Environment, ReadNothing, CarAnnouncesKey, CarChangesKey

(* A report taken from the queue is what the model then holds.             *)
LEMMA ReportTaken ==
    ASSUME Types, ReportInv, NEW c, Take(c), UNCHANGED <<up, reported, unread>>,
           c = "vin" => vin' = Head(toApp).value,
           c # "vin" => vin' = vin
    PROVE  ReportInv'
<1> SUFFICES ASSUME up, reported # Unset PROVE ReportInv'
  BY DEF ReportInv
<1>1. toApp # << >> /\ toApp \in Seq(Queue) /\ toApp' = Tail(toApp)
  BY DEF Take, Types
<1>2. /\ Len(toApp) \in Nat /\ 1 \in 1 .. Len(toApp)
      /\ Len(toApp') = Len(toApp) - 1
      /\ toApp[1].command = c
      /\ c = "vin" => vin' = toApp[1].value
      /\ \A j \in 1 .. Len(toApp') : j + 1 \in 1 .. Len(toApp) /\ toApp'[j] = toApp[j + 1]
  BY <1>1, Taken DEF Take
<1>3. ASSUME NEW i \in 1 .. Len(toApp), toApp[i] = VIN(reported), NoReportAfter(i)
      PROVE  ReportInv'
  <2>1. CASE i = 1
    <3>1. vin' = reported'
      BY <1>2, <1>3, <2>1 DEF VIN
    <3>2. NoReportAfter(0)'
      BY <1>2, <1>3, <2>1 DEF NoReportAfter
    <3>3. QED
      BY <3>1, <3>2 DEF ReportInv
  <2>2. CASE i # 1
    <3>1. i - 1 \in 1 .. Len(toApp') /\ (i - 1) + 1 = i
      BY <1>2, <2>2
    <3>2. toApp'[i - 1] = VIN(reported)
      BY <1>2, <1>3, <3>1
    <3>3. ASSUME NEW j \in 1 .. Len(toApp'), j > i - 1 PROVE toApp'[j].command # "vin"
      <4>1. j + 1 \in 1 .. Len(toApp) /\ j + 1 > i /\ toApp'[j] = toApp[j + 1]
        BY <1>2, <3>3
      <4>2. QED
        BY <4>1, <1>3 DEF NoReportAfter
    <3>4. \E k \in 1 .. Len(toApp') :
            /\ toApp'[k] = VIN(reported')
            /\ \A j \in 1 .. Len(toApp') : j > k => toApp'[j].command # "vin"
      BY <3>1, <3>2, <3>3
    <3>5. QED
      BY <3>4 DEF ReportInv, NoReportAfter, VIN
  <2>3. QED
    BY <2>1, <2>2
<1>4. ASSUME vin = reported, NoReportAfter(0)
      PROVE  ReportInv'
  <2>1. c # "vin"
    BY <1>2, <1>4 DEF NoReportAfter
  <2>2. \A j \in 1 .. Len(toApp') : toApp'[j].command # "vin"
    BY <1>2, <1>4 DEF NoReportAfter
  <2>3. NoReportAfter(0)' /\ vin' = reported'
    BY <1>4, <2>1, <2>2 DEF NoReportAfter
  <2>4. QED
    BY <2>3 DEF ReportInv
<1>5. QED
  BY <1>3, <1>4 DEF ReportInv

(* Dropping a read takes the last report with it, or leaves it the last.   *)
LEMMA ReportDropped ==
    ASSUME Types, ReportInv, ReadDropped
    PROVE  ReportInv'
<1> SUFFICES ASSUME up, reported # Unset, ~unread' PROVE ReportInv'
  BY DEF ReportInv, ReadDropped
<1>1. PICK n \in 1 .. Len(toApp) : toApp' = SubSeq(toApp, n + 1, Len(toApp))
  BY DEF ReadDropped
<1>2. /\ toApp \in Seq(Queue) /\ Len(toApp) \in Nat /\ Len(toApp') = Len(toApp) - n
      /\ \A j \in 1 .. Len(toApp') : toApp'[j] = toApp[j + n] /\ j + n \in 1 .. Len(toApp)
  BY <1>1, Rest DEF Types
<1>3. /\ UNCHANGED <<up, reported, vin>>
      /\ ~unread /\ (ReportOnItsWay => ReportOnItsWay')
  BY DEF ReadDropped, library
<1>4. ASSUME NEW i \in 1 .. Len(toApp), toApp[i] = VIN(reported), NoReportAfter(i)
      PROVE  ReportInv'
  <2>1. ReportOnItsWay
    BY <1>2, <1>4 DEF ReportOnItsWay, VIN
  <2>2. PICK j \in 1 .. Len(toApp') : toApp'[j].command = "vin"
    <3>1. toApp' \in Seq(Queue)
      BY <1>1, <1>2, Rest
    <3>2. QED
      BY <1>3, <2>1, <3>1 DEF ReportOnItsWay
  <2>3. ~(j + n > i)
    BY <1>2, <1>4, <2>2 DEF NoReportAfter
  <2>4. i - n \in 1 .. Len(toApp') /\ (i - n) + n = i
    BY <1>2, <2>3
  <2>5. toApp'[i - n] = VIN(reported)
    BY <1>2, <1>4, <2>4
  <2>6. ASSUME NEW k \in 1 .. Len(toApp'), k > i - n PROVE toApp'[k].command # "vin"
    <3>1. k + n \in 1 .. Len(toApp) /\ k + n > i /\ toApp'[k] = toApp[k + n]
      BY <1>2, <2>6
    <3>2. QED
      BY <3>1, <1>4 DEF NoReportAfter
  <2>7. QED
    BY <1>3, <2>4, <2>5, <2>6 DEF ReportInv, NoReportAfter, VIN
<1>5. ASSUME vin = reported, NoReportAfter(0) PROVE ReportInv'
  <2>1. \A j \in 1 .. Len(toApp') : toApp'[j].command # "vin"
    BY <1>2, <1>5 DEF NoReportAfter
  <2>2. QED
    BY <1>3, <1>5, <2>1 DEF ReportInv, NoReportAfter
<1>6. QED
  BY <1>3, <1>4, <1>5 DEF ReportInv

(* Another message added leaves the last report the last.                  *)
LEMMA ReportGrown ==
    ASSUME Types, ReportInv, NEW m \in Queue, m.command # "vin", toApp' = Append(toApp, m),
           UNCHANGED <<up, reported, unread, vin>>
    PROVE  ReportInv'
<1> SUFFICES ASSUME up, reported # Unset PROVE ReportInv'
  BY DEF ReportInv
<1>1. /\ Len(toApp) \in Nat /\ Len(toApp') = Len(toApp) + 1
      /\ \A j \in 1 .. Len(toApp) : toApp'[j] = toApp[j]
      /\ toApp'[Len(toApp) + 1] = m
  BY DEF Types
<1>2. ASSUME NEW i \in Nat, NoReportAfter(i), NEW j \in 1 .. Len(toApp'), j > i
      PROVE  toApp'[j].command # "vin"
  BY <1>1, <1>2 DEF NoReportAfter
<1>3. ASSUME NEW i \in 1 .. Len(toApp), toApp[i] = VIN(reported), NoReportAfter(i)
      PROVE  ReportInv'
  <2>1. i \in 1 .. Len(toApp') /\ i \in Nat /\ toApp'[i] = VIN(reported)
    BY <1>1, <1>3
  <2>2. \A j \in 1 .. Len(toApp') : j > i => toApp'[j].command # "vin"
    BY <1>2, <1>3, <2>1
  <2>3. QED
    BY <2>1, <2>2 DEF ReportInv, NoReportAfter, VIN
<1>4. ASSUME vin = reported, NoReportAfter(0) PROVE ReportInv'
  <2>1. \A j \in 1 .. Len(toApp') : j > 0 => toApp'[j].command # "vin"
    BY <1>2, <1>4
  <2>2. QED
    BY <1>4, <2>1 DEF ReportInv, NoReportAfter
<1>5. QED
  BY <1>3, <1>4 DEF ReportInv

LEMMA ReportStep == ASSUME Types, ReportInv, [Next]_vars PROVE ReportInv'
<1>1. CASE ReceiveKey
  <2>1. Take("bb") /\ UNCHANGED <<up, reported, unread, vin>>
    BY <1>1 DEF ReceiveKey, Untouched, session
  <2>2. QED
    BY <2>1, ReportTaken
<1>2. CASE ReceiveFilteredVIN \/ ReceiveVIN \/ ReceiveVINWhenFull
  <2>1. Take("vin") /\ UNCHANGED <<up, reported, unread>> /\ vin' = Head(toApp).value
    BY <1>2 DEF ReceiveFilteredVIN, Filtered, ReceiveVIN, ReceiveVINWhenFull, Untouched,
                session, library
  <2>2. QED
    BY <2>1, ReportTaken
<1>3. CASE ReceiveAck
  <2>1. Take("ack") /\ UNCHANGED <<up, reported, unread, vin>>
    BY <1>3 DEF ReceiveAck, Untouched, session
  <2>2. QED
    BY <2>1, ReportTaken
<1>4. ASSUME UNCHANGED <<up, reported, unread, vin, toApp>> PROVE ReportInv'
  BY <1>4 DEF ReportInv, NoReportAfter
<1>5. CASE ApplicationReturns \/ SendRegister \/ CallCompletion \/ CallbackReturns
  BY <1>5, <1>4 DEF ApplicationReturns, SendRegister, CallCompletion, CallbackReturns,
                    Untouched, session
<1>6. CASE DisconnectOutput \/ LinkLost \/ Reconnect
  BY <1>6 DEF DisconnectOutput, LinkLost, Reconnect, NewSession, ReportInv
<1>7. CASE CarReceives
  <2>1. UNCHANGED <<up, reported, unread, vin>>
    BY <1>7 DEF CarReceives, library, session
  <2>2. RegisterAck \in Queue /\ RegisterAck.command # "vin"
    BY DEF Queue, RegisterAck
  <2>3. toApp' = toApp \/ toApp' = Append(toApp, RegisterAck)
    BY <1>7 DEF CarReceives
  <2>4. CASE toApp' = toApp
    BY <2>1, <2>4, <1>4
  <2>5. CASE toApp' = Append(toApp, RegisterAck)
    BY <2>1, <2>2, <2>5, ReportGrown
  <2>6. QED
    BY <2>3, <2>4, <2>5
<1>8. ASSUME NEW k \in Keys, Announce(k) PROVE ReportInv'
  <2>1. BB(k) \in Queue /\ BB(k).command # "vin"
    BY DEF Queue, BB
  <2>2. toApp' = Append(toApp, BB(k)) /\ UNCHANGED <<up, reported, unread, vin>>
    BY <1>8 DEF Announce, library
  <2>3. QED
    BY <2>1, <2>2, ReportGrown
<1>9. CASE CarSendsVIN
  <2>1. toApp' = Append(toApp, VIN(Known)) /\ reported' = Known
    BY <1>9 DEF CarSendsVIN
  <2>2. /\ Len(toApp') = Len(toApp) + 1 /\ Len(toApp) \in Nat
        /\ toApp'[Len(toApp) + 1] = VIN(reported')
    BY <2>1 DEF Types, VIN
  <2>3. Len(toApp) + 1 \in 1 .. Len(toApp')
    BY <2>2
  <2>4. \A j \in 1 .. Len(toApp') : j > Len(toApp) + 1 => toApp'[j].command # "vin"
    BY <2>2
  <2>5. QED
    BY <2>2, <2>3, <2>4 DEF ReportInv, NoReportAfter, VIN
<1>10. CASE OtherRegisters \/ OtherRemoved
  BY <1>10, <1>4 DEF OtherRegisters, OtherRemoved, library, session
<1>11. CASE UNCHANGED vars
  BY <1>11, <1>4 DEF vars, library, session
<1>12. CASE ReadDropped
  BY <1>12, ReportDropped
<1>13. QED
  BY <1>1, <1>2, <1>3, <1>5, <1>6, <1>7, <1>8, <1>9, <1>10, <1>11, <1>12
     DEF Next, Library, Working, Environment, ReadNothing, CarAnnouncesKey, CarChangesKey

(* As long as the car has a place for this device, it has been reported or *)
(* will be, and the report leads to a command, unless one was lost or the  *)
(* report was dropped with a read: the filter hides no report that no      *)
(* command answered.                                                       *)
THEOREM NeverHidden == Spec => []NotMissed
<1>1. ASSUME IInv, MissInv PROVE NotMissed
  <2>1. SUFFICES ASSUME ~mine, others < Places, ~lost, ~unread, reported = Known, up,
                        event # "vin", toCar = << >>
                 PROVE  WillRaiseVIN
    BY DEF NotMissed
  <2>2. reported \in 0 .. Places /\ reported < Places
    BY <2>1, <1>1, RegistrationAssumption DEF RegistrationAssumption, Known, IInv, Types
  <2>3. reported # Unset
    BY <2>2, RegistrationAssumption DEF RegistrationAssumption
  <2>4. vin # reported
    BY <2>1, <2>2, <2>3, <1>1 DEF MissInv, RaisedInv
  <2>5. PICK i \in 1 .. Len(toApp) : toApp[i] = VIN(reported)
    BY <2>1, <2>3, <2>4, <1>1 DEF MissInv, ReportInv
  <2>6. i \in DOMAIN toApp /\ toApp[i].command = "vin" /\ toApp[i].value = reported
    BY <2>5, <1>1 DEF IInv, Types, VIN
  <2>7. QED
    BY <2>2, <2>4, <2>6 DEF WillRaiseVIN
<1>2. Init => IInv /\ MissInv
  BY InitInv, MissInit
<1>3. ASSUME IInv, MissInv, [Next]_vars PROVE IInv' /\ MissInv'
  <2>1. IInv'
    BY <1>3, NextInv
  <2>2. CommandTypes' /\ EventInv' /\ RaisedInv' /\ ReportInv'
    BY <1>3, CommandTypesStep, EventStep, RaisedStep, ReportStep DEF IInv, MissInv
  <2>3. QED
    BY <2>1, <2>2 DEF MissInv
<1>4. QED
  BY <1>1, <1>2, <1>3, PTL DEF Spec

=============================================================================
