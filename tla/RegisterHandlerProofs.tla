------------------------- MODULE RegisterHandlerProofs -------------------------
(***************************************************************************)
(* Proofs that the handler of phev_register.c reports completion once, and *)
(* only for a device the car knows, and that it asks for registration on   *)
(* each connection, for any number of keys, places, greetings, disruptions *)
(* and changes.                                                            *)
(***************************************************************************)
EXTENDS RegisterHandler, TLAPS

Message ==
    {VIN(n) : n \in Nat} \cup {BB(k) : k \in Keys} \cup {RegisterAck}
        \cup {Greeting(g) : g \in Greetings}

Types ==
    /\ toApp \in Seq(Message)
    /\ mine \in BOOLEAN
    /\ vin \in BOOLEAN
    /\ registrationAck \in BOOLEAN
    /\ registrationComplete \in BOOLEAN
    /\ others \in Nat
    /\ reported \in Nat
    /\ ungreeted \subseteq Greetings

(* Completion is counted with the flag that stops the handler.             *)
CompletionInv ==
    /\ completions = IF registrationComplete THEN 1 ELSE 0
    /\ registrationComplete => registrationAck

(* An acknowledgement, on its way or processed, is of a known device.      *)
AckInv ==
    /\ registrationAck => mine
    /\ \A i \in 1 .. Len(toApp) : toApp[i] = RegisterAck => mine

IInv == Types /\ CompletionInv /\ AckInv

(* What is left of a sequence after its end, its beginning or its first    *)
(* element is lost has no new elements.                                    *)
LEMMA Cut ==
    ASSUME NEW S, NEW s \in Seq(S), NEW n \in 0 .. Len(s)
    PROVE  /\ SubSeq(s, 1, n) \in Seq(S)
           /\ Len(SubSeq(s, 1, n)) = n
           /\ \A i \in 1 .. n : SubSeq(s, 1, n)[i] = s[i]
  OBVIOUS

LEMMA Rest ==
    ASSUME NEW S, NEW s \in Seq(S), NEW n \in 1 .. Len(s)
    PROVE  /\ SubSeq(s, n + 1, Len(s)) \in Seq(S)
           /\ Len(SubSeq(s, n + 1, Len(s))) = Len(s) - n
           /\ \A i \in 1 .. Len(s) - n : SubSeq(s, n + 1, Len(s))[i] = s[i + n]
  OBVIOUS

LEMMA Taken ==
    ASSUME NEW S, NEW s \in Seq(S), s # << >>
    PROVE  /\ Tail(s) \in Seq(S)
           /\ Len(Tail(s)) = Len(s) - 1
           /\ \A i \in 1 .. Len(s) - 1 : Tail(s)[i] = s[i + 1]
           /\ Head(s) = s[1]
           /\ 1 \in 1 .. Len(s)
           /\ Head(s) \in S
  OBVIOUS

(* The initial states satisfy the invariant.                               *)
LEMMA InitInv == Init => IInv
<1> SUFFICES ASSUME Init PROVE IInv
  OBVIOUS
<1>1. Types
  <2>1. others \in Nat
    BY RegisterHandlerAssumption DEF RegisterHandlerAssumption, Init
  <2>2. toApp \in Seq(Message) /\ reported \in Nat /\ ungreeted \subseteq Greetings
    BY DEF Init
  <2>3. /\ mine \in BOOLEAN /\ vin \in BOOLEAN
        /\ registrationAck \in BOOLEAN /\ registrationComplete \in BOOLEAN
    BY DEF Init
  <2>4. QED
    BY <2>1, <2>2, <2>3 DEF Types
<1>2. CompletionInv
  BY DEF Init, CompletionInv
<1>3. AckInv
  BY DEF Init, AckInv
<1>4. QED
  BY <1>1, <1>2, <1>3 DEF IInv

(* The handler's end keeps the two halves of CompletionInv together.       *)
LEMMA Concluded ==
    ASSUME Types, CompletionInv, ~registrationComplete,
           registrationAck => registrationAck',
           Conclude(registrationAck', vin')
    PROVE  CompletionInv' /\ registrationComplete' \in BOOLEAN
<1>1. completions = 0
  BY DEF CompletionInv
<1>2. CASE registrationAck' /\ vin'
  <2>1. registrationComplete' = TRUE
    BY <1>2 DEF Conclude
  <2>2. completions' = IF completions < 2 THEN completions + 1 ELSE 2
    BY <1>2 DEF Conclude
  <2>3. completions' = 1
    BY <1>1, <2>2
  <2>4. QED
    BY <1>2, <2>1, <2>3 DEF CompletionInv
<1>3. CASE ~(registrationAck' /\ vin')
  <2>1. registrationComplete' = registrationComplete /\ completions' = completions
    BY <1>3 DEF Conclude
  <2>2. QED
    BY <1>1, <2>1 DEF CompletionInv, Types
<1>4. QED
  BY <1>2, <1>3

(* A message taken from the queue, with nothing learnt of the car, leaves  *)
(* the queue as AckInv wants it.                                           *)
LEMMA QueueTaken ==
    ASSUME Types, AckInv, NEW C, Take(C), mine' = mine
    PROVE  /\ toApp' \in Seq(Message)
           /\ Head(toApp) \in Message
           /\ Head(toApp).command \in C
           /\ \A i \in 1 .. Len(toApp') : toApp'[i] = RegisterAck => mine'
           /\ Head(toApp) = RegisterAck => mine
  <1>1. toApp # << >> /\ toApp \in Seq(Message)
    BY DEF Take, Types
  <1>2. \A i \in 1 .. Len(toApp') : i + 1 \in 1 .. Len(toApp) /\ toApp'[i] = toApp[i + 1]
    BY <1>1, Taken DEF Take
  <1> QED BY <1>1, <1>2, Taken DEF Take, AckInv

(* The only message with the command of an acknowledgement is one.         *)
LEMMA AckCommand == ASSUME NEW m \in Message, m.command = "ack" PROVE m = RegisterAck
  BY RegisterHandlerAssumption
     DEF RegisterHandlerAssumption, Message, VIN, BB, RegisterAck, Greeting

(* A message the car adds is no acknowledgement unless it knows the        *)
(* device; then the queue stays as AckInv wants it.                        *)
LEMMA QueueGrown ==
    ASSUME Types, AckInv, NEW m \in Message, m = RegisterAck => mine',
           mine => mine', toApp' = Append(toApp, m)
    PROVE  /\ toApp' \in Seq(Message)
           /\ \A i \in 1 .. Len(toApp') : toApp'[i] = RegisterAck => mine'
  <1>1. /\ Len(toApp') = Len(toApp) + 1
        /\ \A i \in 1 .. Len(toApp) : toApp'[i] = toApp[i]
        /\ toApp'[Len(toApp) + 1] = m
    BY DEF Types
  <1> QED BY <1>1 DEF Types, AckInv

(* A step that leaves the handler and the car's devices alone.             *)
LEMMA Elsewhere ==
    ASSUME IInv, UNCHANGED <<handler, devices>>, reported' \in Nat,
           ungreeted' \subseteq Greetings,
           toApp' \in Seq(Message),
           \A i \in 1 .. Len(toApp') : toApp'[i] = RegisterAck => mine'
    PROVE  IInv'
  BY DEF IInv, Types, CompletionInv, AckInv, handler, devices

(* A step of the handler at a message it took.                             *)
LEMMA Handled ==
    ASSUME IInv, UNCHANGED <<devices, session>>,
           toApp' \in Seq(Message),
           \A i \in 1 .. Len(toApp') : toApp'[i] = RegisterAck => mine',
           vin' \in BOOLEAN, registrationAck' \in BOOLEAN,
           registrationAck' => mine, registrationComplete' \in BOOLEAN, CompletionInv'
    PROVE  IInv'
  BY DEF IInv, Types, AckInv, devices, session

(* What is left of a read that was dropped brings no new message.          *)
LEMMA QueueDropped == ASSUME IInv, ReadDropped PROVE IInv'
<1>1. PICK n \in 1 .. Len(toApp) : toApp' = SubSeq(toApp, n + 1, Len(toApp))
  BY DEF ReadDropped
<1>2. /\ toApp' \in Seq(Message) /\ Len(toApp') = Len(toApp) - n
      /\ \A i \in 1 .. Len(toApp) - n : toApp'[i] = toApp[i + n] /\ i + n \in 1 .. Len(toApp)
  BY <1>1, Rest DEF IInv, Types
<1>3. UNCHANGED <<handler, devices, reported, ungreeted>>
  BY DEF ReadDropped
<1>4. \A i \in 1 .. Len(toApp') : toApp'[i] = RegisterAck => mine'
  BY <1>2, <1>3 DEF IInv, AckInv, devices, Types
<1>5. QED
  BY <1>2, <1>3, <1>4, Elsewhere DEF IInv, Types

-----------------------------------------------------------------------------
(* Every step keeps the invariant.                                         *)
LEMMA NextInv == IInv /\ [Next]_vars => IInv'
<1> SUFFICES ASSUME IInv, [Next]_vars PROVE IInv'
  OBVIOUS
<1> USE DEF IInv
<1>1. ASSUME NEW C, Take(C), UNCHANGED <<devices, session>>
      PROVE  /\ toApp' \in Seq(Message)
             /\ Head(toApp) \in Message
             /\ Head(toApp).command \in C
             /\ \A i \in 1 .. Len(toApp') : toApp'[i] = RegisterAck => mine'
             /\ Head(toApp) = RegisterAck => mine
  BY <1>1, QueueTaken DEF devices
<1>2. ASSUME Disrupt, mine' = mine
      PROVE  /\ toApp' \in Seq(Message)
             /\ \A i \in 1 .. Len(toApp') : toApp'[i] = RegisterAck => mine'
  <2>1. PICK n \in 0 .. Len(toApp) : toApp' = SubSeq(toApp, 1, n)
    BY <1>2 DEF Disrupt
  <2>2. /\ toApp' \in Seq(Message) /\ Len(toApp') = n
        /\ \A i \in 1 .. n : toApp'[i] = toApp[i] /\ i \in 1 .. Len(toApp)
    BY <2>1, Cut DEF Types
  <2>3. QED
    BY <1>2, <2>2 DEF AckInv
<1>3. CASE ReceiveKey
  <2>1. Take({"bb"}) /\ UNCHANGED <<devices, session, handler>>
    BY <1>3 DEF ReceiveKey, Environs
  <2>2. QED
    BY <2>1, <1>1, Elsewhere DEF session, Types
<1>4. CASE ReceiveWhenComplete
  <2>1. Take({"vin", "ack"} \cup Greetings) /\ UNCHANGED <<devices, session, handler>>
    BY <1>4 DEF ReceiveWhenComplete, Environs
  <2>2. QED
    BY <2>1, <1>1, Elsewhere DEF session, Types
<1>5. CASE ReceiveVIN
  <2>1. /\ Take({"vin"}) /\ UNCHANGED <<devices, session>> /\ vin' = TRUE
        /\ registrationAck' = registrationAck /\ ~registrationComplete
        /\ Conclude(registrationAck', vin')
    BY <1>5 DEF ReceiveVIN, Environs, Running
  <2>2. CompletionInv' /\ registrationComplete' \in BOOLEAN
    BY <2>1, Concluded DEF Types
  <2>3. QED
    BY <2>1, <2>2, <1>1, Handled DEF Types, AckInv
<1>6. CASE ReceiveVINWhenFull
  <2>1. Take({"vin"}) /\ UNCHANGED <<devices, session, handler>>
    BY <1>6 DEF ReceiveVINWhenFull, Environs, KeepVIN, handler
  <2>2. QED
    BY <2>1, <1>1, Elsewhere DEF session, Types
<1>7. CASE ReceiveGreeting
  <2>1. /\ Take(Greetings) /\ UNCHANGED <<devices, session, vin, registrationAck>>
        /\ ~registrationComplete /\ Conclude(registrationAck', vin')
    BY <1>7 DEF ReceiveGreeting, Environs, Running
  <2>2. CompletionInv' /\ registrationComplete' \in BOOLEAN
    BY <2>1, Concluded DEF Types
  <2>3. QED
    BY <2>1, <2>2, <1>1, Handled DEF Types, AckInv
<1>8. CASE ReceiveAck
  <2>1. /\ Take({"ack"}) /\ UNCHANGED <<devices, session, vin>> /\ registrationAck' = TRUE
        /\ ~registrationComplete /\ Conclude(registrationAck', vin')
    BY <1>8 DEF ReceiveAck, Environs, Running
  <2>2. CompletionInv' /\ registrationComplete' \in BOOLEAN
    BY <2>1, Concluded DEF Types
  <2>3. mine
    BY <2>1, <1>1, AckCommand
  <2>4. QED
    BY <2>1, <2>2, <2>3, <1>1, Handled DEF Types
<1>9. CASE DisconnectOutput
  <2>1. Disrupt /\ UNCHANGED <<handler, devices, reported>> /\ ungreeted' = Greetings
    BY <1>9 DEF DisconnectOutput, NewSession
  <2>2. QED
    BY <2>1, <1>2, Elsewhere DEF Types, devices
<1>10. CASE LinkLost
  <2>1. Disrupt /\ UNCHANGED <<handler, devices, reported, ungreeted>>
    BY <1>10 DEF LinkLost, session
  <2>2. QED
    BY <2>1, <1>2, Elsewhere DEF Types, devices
<1>11. CASE Reconnect
  BY <1>11, Elsewhere DEF Reconnect, NewSession, Types, AckInv, devices
<1>12. CASE CarReceives
  <2>1. UNCHANGED <<handler, reported, ungreeted, others>>
    BY <1>12 DEF CarReceives
  <2>2. CASE toApp' = toApp /\ mine' = mine
    BY <2>1, <2>2 DEF Types, CompletionInv, AckInv, handler
  <2>3. CASE toApp' = Append(toApp, RegisterAck) /\ mine' = TRUE
    <3>1. RegisterAck \in Message
      BY DEF Message
    <3>2. /\ toApp' \in Seq(Message)
          /\ \A i \in 1 .. Len(toApp') : toApp'[i] = RegisterAck => mine'
      BY <2>3, <3>1, QueueGrown
    <3>3. QED
      BY <2>1, <2>3, <3>2 DEF Types, CompletionInv, AckInv, handler
  <2>4. QED
    BY <1>12, <2>2, <2>3 DEF CarReceives
<1>13. ASSUME NEW k \in Keys, Announce(k) PROVE IInv'
  <2>1. BB(k) \in Message /\ BB(k) # RegisterAck
    BY DEF Message, BB, RegisterAck
  <2>2. toApp' = Append(toApp, BB(k)) /\ UNCHANGED <<handler, devices, reported, ungreeted>>
    BY <1>13 DEF Announce
  <2>3. QED
    BY <2>1, <2>2, QueueGrown, Elsewhere DEF Types, devices
<1>14. CASE CarSendsVIN
  <2>1. Known \in Nat
    BY DEF Known, Types
  <2>2. VIN(Known) \in Message /\ VIN(Known) # RegisterAck
    BY <2>1 DEF Message, VIN, RegisterAck
  <2>3. /\ toApp' = Append(toApp, VIN(Known)) /\ reported' = Known
        /\ UNCHANGED <<handler, devices, ungreeted>>
    BY <1>14 DEF CarSendsVIN
  <2>4. QED
    BY <2>1, <2>2, <2>3, QueueGrown, Elsewhere DEF Types, devices
<1>15. CASE CarGreets
  <2>1. PICK g \in ungreeted : toApp' = Append(toApp, Greeting(g))
    BY <1>15 DEF CarGreets
  <2>2. UNCHANGED <<handler, devices, reported>> /\ ungreeted' \subseteq ungreeted
    BY <1>15 DEF CarGreets
  <2>3. g \in Greetings
    BY <2>1 DEF Types
  <2>4. Greeting(g) \in Message /\ Greeting(g) # RegisterAck
    BY <2>3, RegisterHandlerAssumption
       DEF RegisterHandlerAssumption, Message, Greeting, RegisterAck
  <2>5. QED
    BY <2>1, <2>2, <2>4, QueueGrown, Elsewhere DEF Types, devices
<1>16. CASE OtherRegisters
  BY <1>16 DEF OtherRegisters, Types, CompletionInv, AckInv, handler, session
<1>17. CASE OtherRemoved
  BY <1>17 DEF OtherRemoved, Types, CompletionInv, AckInv, handler, session
<1>18. CASE UNCHANGED vars
  BY <1>18 DEF vars, Types, CompletionInv, AckInv, handler, session, devices
<1>19. CASE ReadDropped
  BY <1>19, QueueDropped
<1>20. QED
  BY <1>3, <1>4, <1>5, <1>6, <1>7, <1>8, <1>9, <1>10, <1>11, <1>12, <1>13, <1>14,
     <1>15, <1>16, <1>17, <1>18, <1>19
     DEF Next, Library, Working, ReadNothing, CarAnnouncesKey, CarChangesKey

-----------------------------------------------------------------------------
(* The inductive invariant of the handler and the car's answers.           *)
THEOREM HandlerInvariant == Spec => []IInv
<1>1. QED
  BY InitInv, NextInv, PTL DEF Spec

(* However often registration is asked for and acknowledged, completion is *)
(* reported once, and only for a device the car knows.                     *)
THEOREM CompletesOnce == Spec => []CompletedOnce
<1>1. IInv => CompletedOnce
  BY DEF IInv, Types, CompletionInv, AckInv, CompletedOnce
<1>2. QED
  BY <1>1, HandlerInvariant, PTL

-----------------------------------------------------------------------------
(* On a connection the car introduced itself on with a place left, a       *)
(* message that leads on is still to be handled, or the command it led to  *)
(* is on its way, or the car has answered that command, unless the last    *)
(* such message was dropped.                                               *)
AskInv ==
    (up /\ introduced /\ ~mine /\ ~refused /\ ~missed /\ reported < Places) =>
        \/ toCar # << >>
        \/ LeadOnItsWay

(* A leading message that is not the message taken stays in the queue.     *)
LEMMA LeadStays ==
    ASSUME Types, NEW C, Take(C), ~Leads(Head(toApp)), LeadOnItsWay
    PROVE  LeadOnItsWay'
<1>1. toApp # << >> /\ toApp \in Seq(Message) /\ toApp' = Tail(toApp)
  BY DEF Take, Types
<1>2. PICK i \in 1 .. Len(toApp) : Leads(toApp[i])
  BY <1>1 DEF LeadOnItsWay
<1>3. i # 1 /\ Len(toApp) \in Nat
  BY <1>1, <1>2, Taken
<1>4. i - 1 \in 1 .. Len(toApp) - 1 /\ (i - 1) + 1 = i
  BY <1>3
<1>5. toApp'[i - 1] = toApp[i] /\ i - 1 \in DOMAIN toApp'
  BY <1>1, <1>4, Taken
<1>6. Leads(toApp'[i - 1])
  BY <1>2, <1>5
<1>7. QED
  BY <1>5, <1>6 DEF LeadOnItsWay, Leads, HasPlace, Asks

(* So does every leading message when one is added, and the one added.     *)
LEMMA LeadKept ==
    ASSUME Types, NEW m \in Message, toApp' = Append(toApp, m),
           LeadOnItsWay \/ Leads(m)
    PROVE  LeadOnItsWay'
<1>1. /\ toApp \in Seq(Message) /\ Len(toApp) \in Nat
      /\ DOMAIN toApp = 1 .. Len(toApp) /\ DOMAIN toApp' = 1 .. Len(toApp) + 1
      /\ \A i \in 1 .. Len(toApp) : toApp'[i] = toApp[i]
      /\ toApp'[Len(toApp) + 1] = m
  BY DEF Types
<1>2. CASE Leads(m)
  <2>1. Len(toApp) + 1 \in DOMAIN toApp' /\ Leads(toApp'[Len(toApp) + 1])
    BY <1>1, <1>2
  <2>2. QED
    BY <2>1 DEF LeadOnItsWay, Leads, HasPlace, Asks
<1>3. CASE LeadOnItsWay
  <2>1. PICK i \in 1 .. Len(toApp) : Leads(toApp[i])
    BY <1>1, <1>3 DEF LeadOnItsWay
  <2>2. i \in DOMAIN toApp' /\ toApp'[i] = toApp[i]
    BY <1>1, <2>1
  <2>3. i \in DOMAIN toApp' /\ Leads(toApp'[i])
    BY <2>1, <2>2
  <2>4. QED
    BY <2>3 DEF LeadOnItsWay, Leads, HasPlace, Asks
<1>4. QED
  BY <1>2, <1>3

(* A handler step on a message that does not lead on.                      *)
LEMMA AskUntouched ==
    ASSUME Types, AskInv, UNCHANGED <<up, session, devices, refused, toCar>>,
           NEW C, Take(C), ~Leads(Head(toApp))
    PROVE  AskInv'
<1>1. CASE toCar # << >>
  BY <1>1 DEF AskInv
<1>2. CASE toCar = << >>
  BY <1>2, LeadStays DEF AskInv, session, devices
<1>3. QED
  BY <1>1, <1>2

(* The commands on their way, and the key the next one gets.               *)
CommandTypes == toCar \in Seq(Keys) /\ commandXOR \in Keys

LEMMA CommandTypesInit == Init => CommandTypes
  BY RegisterHandlerAssumption DEF RegisterHandlerAssumption, Init, CommandTypes

LEMMA KeyOfBB == ASSUME NEW m \in Message, m.command = "bb" PROVE m.value \in Keys
  BY RegisterHandlerAssumption
     DEF RegisterHandlerAssumption, Message, VIN, BB, RegisterAck, Greeting

LEMMA CommandTypesStep == ASSUME Types, CommandTypes, [Next]_vars PROVE CommandTypes'
<1> USE DEF CommandTypes
<1>1. CASE ReceiveKey
  <2>1. toApp # << >> /\ toApp \in Seq(Message)
    BY <1>1 DEF ReceiveKey, Take, Types
  <2>2. Head(toApp) \in Message /\ Head(toApp).command = "bb"
    BY <1>1, <2>1, Taken DEF ReceiveKey, Take
  <2>3. QED
    BY <1>1, <2>2, KeyOfBB DEF ReceiveKey
<1>2. CASE ReceiveVIN \/ ReceiveGreeting
  <2>1. toCar' = Append(toCar, commandXOR) \/ toCar' = toCar
    BY <1>2 DEF ReceiveVIN, ReceiveGreeting, SendRegister
  <2>2. commandXOR' = commandXOR
    BY <1>2 DEF ReceiveVIN, ReceiveGreeting
  <2>3. QED
    BY <2>1, <2>2
<1>3. CASE ReceiveWhenComplete \/ ReceiveVINWhenFull \/ ReceiveAck
  BY <1>3 DEF ReceiveWhenComplete, ReceiveVINWhenFull, ReceiveAck, Environs
<1>4. CASE DisconnectOutput \/ LinkLost \/ Reconnect
  <2>1. toCar' = << >> /\ commandXOR' \in {NoXOR, commandXOR}
    BY <1>4 DEF DisconnectOutput, LinkLost, Reconnect, NewSession
  <2>2. QED
    BY <2>1, RegisterHandlerAssumption DEF RegisterHandlerAssumption
<1>5. CASE CarReceives
  BY <1>5, Taken DEF CarReceives
<1>6. ASSUME NEW k \in Keys, Announce(k) PROVE CommandTypes'
  BY <1>6 DEF Announce
<1>7. CASE CarSendsVIN \/ CarGreets \/ OtherRegisters \/ OtherRemoved \/ ReadDropped
  BY <1>7 DEF CarSendsVIN, CarGreets, OtherRegisters, OtherRemoved, ReadDropped
<1>8. CASE UNCHANGED vars
  BY <1>8 DEF vars
<1>9. QED
  BY <1>1, <1>2, <1>3, <1>4, <1>5, <1>6, <1>7, <1>8
     DEF Next, Library, Working, ReadNothing, CarAnnouncesKey, CarChangesKey

LEMMA AskInit == Init => AskInv
  BY DEF Init, AskInv

(* Every step keeps AskInv.                                                *)
LEMMA AskStep == ASSUME IInv, CommandTypes, AskInv, [Next]_vars PROVE AskInv'
<1> USE DEF IInv
<1>1. ASSUME NEW C, Take(C)
      PROVE  Head(toApp) \in Message /\ Head(toApp).command \in C
  <2>1. toApp # << >> /\ toApp \in Seq(Message)
    BY <1>1 DEF Take, Types
  <2>2. QED
    BY <1>1, <2>1, Taken DEF Take
<1>2. \A g \in Greetings : g \notin {"vin", "bb", "ack"}
  BY RegisterHandlerAssumption DEF RegisterHandlerAssumption
<1>3. CASE ReceiveKey
  <2>1. Take({"bb"}) /\ UNCHANGED Environs /\ toCar' = toCar
    BY <1>3 DEF ReceiveKey
  <2>2. ~Leads(Head(toApp))
    BY <2>1, <1>1, <1>2 DEF Leads
  <2>3. QED
    BY <2>1, <2>2, AskUntouched DEF Environs
<1>4. CASE ReceiveWhenComplete
  <2>1. mine /\ mine' = mine
    BY <1>4 DEF ReceiveWhenComplete, Running, Environs, devices, CompletionInv, AckInv
  <2>2. QED
    BY <2>1 DEF AskInv
<1>5. ASSUME SendRegister, UNCHANGED Environs, NEW C, Take(C) PROVE AskInv'
  <2>1. CASE up
    <3>1. toCar' # << >>
      BY <1>5, <2>1 DEF SendRegister, CommandTypes
    <3>2. QED
      BY <3>1 DEF AskInv
  <2>2. CASE ~up
    BY <1>5, <2>2 DEF AskInv, Environs
  <2>3. QED
    BY <2>1, <2>2
<1>6. CASE ReceiveVIN
  BY <1>6, <1>5 DEF ReceiveVIN
<1>7. CASE ReceiveVINWhenFull
  <2>1. Take({"vin"}) /\ UNCHANGED Environs /\ toCar' = toCar
    BY <1>7 DEF ReceiveVINWhenFull
  <2>2. ~Leads(Head(toApp))
    BY <2>1, <1>1, <1>2, <1>7 DEF ReceiveVINWhenFull, Leads
  <2>3. QED
    BY <2>1, <2>2, AskUntouched DEF Environs
<1>8. CASE ReceiveGreeting
  <2>1. Take(Greetings) /\ UNCHANGED Environs
    BY <1>8 DEF ReceiveGreeting
  <2>2. CASE SendRegister
    BY <2>1, <2>2, <1>5
  <2>3. CASE toCar' = toCar /\ ~Asks(Head(toApp).command)
    <3>1. ~Leads(Head(toApp))
      BY <2>1, <2>3, <1>1, <1>2 DEF Leads
    <3>2. QED
      BY <2>1, <2>3, <3>1, AskUntouched DEF Environs
  <2>4. QED
    BY <1>8, <2>2, <2>3 DEF ReceiveGreeting
<1>9. CASE ReceiveAck
  <2>1. Take({"ack"}) /\ UNCHANGED Environs
    BY <1>9 DEF ReceiveAck
  <2>2. mine
    <3>1. Head(toApp) \in Message /\ Head(toApp).command = "ack" /\ toApp # << >>
      BY <2>1, <1>1 DEF Take
    <3>2. Head(toApp) = RegisterAck
      BY <3>1, AckCommand
    <3>3. QED
      BY <3>1, <3>2, Taken DEF AckInv, Types
  <2>3. QED
    BY <2>1, <2>2 DEF AskInv, Environs, devices
<1>10. CASE DisconnectOutput \/ Reconnect
  BY <1>10 DEF DisconnectOutput, Reconnect, NewSession, AskInv
<1>11. CASE LinkLost
  BY <1>11 DEF LinkLost, AskInv
<1>12. CASE CarReceives
  BY <1>12 DEF CarReceives, AskInv
<1>13. ASSUME NEW m \in Message, toApp' = Append(toApp, m), missed' = (missed /\ ~Leads(m)),
              UNCHANGED <<toCar, up, introduced, reported, devices, refused>>
       PROVE  AskInv'
  <2>1. CASE toCar # << >>
    BY <1>13, <2>1 DEF AskInv
  <2>2. CASE LeadOnItsWay \/ Leads(m)
    BY <1>13, <2>2, LeadKept DEF AskInv
  <2>3. CASE toCar = << >> /\ ~LeadOnItsWay /\ ~Leads(m)
    BY <1>13, <2>3 DEF AskInv, devices
  <2>4. QED
    BY <2>1, <2>2, <2>3
<1>14. ASSUME NEW k \in Keys, Announce(k) PROVE AskInv'
  <2>1. BB(k) \in Message
    BY DEF Message
  <2>2. ~Leads(BB(k))
    BY <1>2 DEF Leads, BB
  <2>3. /\ toApp' = Append(toApp, BB(k))
        /\ UNCHANGED <<toCar, up, introduced, reported, devices, refused, missed>>
    BY <1>14 DEF Announce
  <2>4. CASE LeadOnItsWay
    BY <2>1, <2>3, <2>4, LeadKept DEF AskInv
  <2>5. CASE ~LeadOnItsWay
    BY <2>3, <2>5 DEF AskInv, devices
  <2>6. QED
    BY <2>4, <2>5
<1>15. CASE CarSendsVIN
  <2>1. toApp' = Append(toApp, VIN(Known)) /\ reported' = Known
    BY <1>15 DEF CarSendsVIN
  <2>2. VIN(Known) \in Message
    BY DEF Message, Known, Types
  <2>3. CASE HasPlace(Known)
    <3>1. Leads(VIN(Known))
      BY <2>3 DEF Leads, VIN
    <3>2. QED
      BY <2>1, <2>2, <3>1, LeadKept DEF AskInv
  <2>4. CASE ~HasPlace(Known)
    BY <2>1, <2>4 DEF AskInv, HasPlace
  <2>5. QED
    BY <2>3, <2>4
<1>16. CASE CarGreets
  <2>1. PICK g \in ungreeted : /\ toApp' = Append(toApp, Greeting(g))
                               /\ missed' = (missed /\ ~Asks(g))
    BY <1>16 DEF CarGreets
  <2>2. g \in Greetings /\ Greeting(g) \in Message
    BY DEF Types, Message
  <2>3. Leads(Greeting(g)) <=> Asks(g)
    BY <2>2, <1>2 DEF Leads, Greeting
  <2>4. UNCHANGED <<toCar, up, introduced, reported, devices, refused>>
    BY <1>16 DEF CarGreets
  <2>5. QED
    BY <2>1, <2>2, <2>3, <2>4, <1>13
<1>17. CASE OtherRegisters \/ OtherRemoved
  BY <1>17 DEF OtherRegisters, OtherRemoved, AskInv, session, LeadOnItsWay, Leads,
               HasPlace, Asks
<1>18. CASE ReadDropped
  <2>1. /\ missed' = (missed \/ (LeadOnItsWay /\ ~LeadOnItsWay'))
        /\ UNCHANGED <<toCar, up, introduced, reported, devices, refused>>
    BY <1>18 DEF ReadDropped
  <2>2. QED
    BY <2>1 DEF AskInv, devices
<1>19. CASE UNCHANGED vars
  BY <1>19 DEF vars, AskInv, session, devices, LeadOnItsWay, Leads, HasPlace, Asks
<1>20. QED
  BY <1>3, <1>4, <1>6, <1>7, <1>8, <1>9, <1>10, <1>11, <1>12, <1>14, <1>15, <1>16,
     <1>17, <1>18, <1>19
     DEF Next, Library, Working, ReadNothing, CarAnnouncesKey, CarChangesKey

(* While this device is missing and has a place, a command or a message    *)
(* that leads to one is on its way, or the car has still to introduce      *)
(* itself, unless on this same connection it refused a command or the last *)
(* such message was dropped with a read.                                   *)
THEOREM AskedAgain == Spec => []AskedOnEachConnection
<1>1. ASSUME IInv, AskInv PROVE AskedOnEachConnection
  <2>1. SUFFICES ASSUME ~mine, others < Places, ~refused, ~missed, up, introduced,
                        reported = Known, toCar = << >>
                 PROVE  LeadOnItsWay
    BY DEF AskedOnEachConnection
  <2>2. reported < Places
    BY <2>1, <1>1 DEF Known, IInv, Types
  <2>3. QED
    BY <2>1, <2>2, <1>1 DEF AskInv
<1>2. Init => IInv /\ CommandTypes /\ AskInv
  BY InitInv, CommandTypesInit, AskInit
<1>3. ASSUME IInv, CommandTypes, AskInv, [Next]_vars
      PROVE  IInv' /\ CommandTypes' /\ AskInv'
  <2>1. IInv'
    BY <1>3, NextInv
  <2>2. CommandTypes'
    BY <1>3, CommandTypesStep DEF IInv
  <2>3. AskInv'
    BY <1>3, AskStep
  <2>4. QED
    BY <2>1, <2>2, <2>3
<1>4. QED
  BY <1>1, <1>2, <1>3, PTL DEF Spec

=============================================================================
