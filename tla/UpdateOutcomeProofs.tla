------------------------- MODULE UpdateOutcomeProofs -------------------------
(***************************************************************************)
(* Proof that the update handler of phev_pipe.c keeps the promise of       *)
(* RegisterWrites, for every set of registers, values and keys and every   *)
(* size of the tables.                                                     *)
(***************************************************************************)
EXTENDS UpdateOutcome, UpdateRegisterProofs

(* Whatever can still reach the car was asked for, ...                     *)
CommandsAsked == \A n \in DOMAIN toCar : toCar[n].value \in asked[toCar[n].register]
SlotsAsked == \A i \in UsedSlots : updates[i].value \in asked[updates[i].register]

(* ... and an acknowledgement is only under way when the car holds a value *)
(* asked for since the register was last at rest.                          *)
AcksAnswered ==
    \A r \in Registers : AckOnItsWay(r) \/ AckBeingDelivered(r) => car[r] \in asked[r]

HistoryTypeOK ==
    /\ car \in [Registers -> Values \cup {Unset}]
    /\ asked \in [Registers -> SUBSET Values]

OInv == IInv /\ HistoryTypeOK /\ CommandsAsked /\ SlotsAsked /\ AcksAnswered /\ SettledAsAsked

-----------------------------------------------------------------------------
(* What a step other than Ask and CarWrites does to the updates: it adds   *)
(* none, sends nothing but them, acknowledges nothing new, and clears a    *)
(* slot only while the acknowledgement of its register is delivered.       *)
OtherShape ==
    /\ \A n \in DOMAIN toCar' :
         \/ \E m \in DOMAIN toCar : toCar'[n] = toCar[m]
         \/ \E i \in UsedSlots : /\ toCar'[n].register = updates[i].register
                                 /\ toCar'[n].value = updates[i].value
    /\ \A r \in Registers : AckOnItsWay(r)' => AckOnItsWay(r)
    /\ \A r \in Registers : AckBeingDelivered(r)' => AckBeingDelivered(r) \/ AckOnItsWay(r)
    /\ \/ UNCHANGED updates
       \/ \E i \in UsedSlots :
            /\ updates' = [updates EXCEPT ![i] = Free]
            /\ event = Ack(updates[i].register)
            /\ phase # "idle" /\ phase' # "idle"
            /\ UNCHANGED <<toCar, toApp, event>>

(* Taking a message off the queue to the application.                      *)
LEMMA ReceiveShape == ASSUME TypeOK, Receive PROVE OtherShape
<1>1. /\ toApp \in Seq(Message) /\ toApp # << >> /\ toApp' = Tail(toApp)
      /\ UNCHANGED <<updates, toCar>>
  BY DEF Receive, TypeOK, table
<1>2. \A n \in DOMAIN toApp' : n + 1 \in DOMAIN toApp /\ toApp'[n] = toApp[n + 1]
  BY <1>1
<1>3. \A r : AckOnItsWay(r)' => AckOnItsWay(r)
  BY <1>2 DEF AckOnItsWay, Ack
<1>4. ASSUME NEW r, AckBeingDelivered(r)' PROVE AckBeingDelivered(r) \/ AckOnItsWay(r)
  <2>1. phase = "idle" /\ phase' # "idle" /\ event' = Ack(r)
    BY <1>4 DEF Receive, AckBeingDelivered, Ack
  <2>2. event' = toApp[1] /\ 1 \in DOMAIN toApp
    BY <1>1, <2>1 DEF Receive
  <2>3. QED
    BY <2>1, <2>2 DEF AckOnItsWay
<1>5. QED
  BY <1>1, <1>3, <1>4 DEF OtherShape

(* Dropping what a read brings takes messages off that queue, too.         *)
LEMMA DroppedShape == ASSUME TypeOK, ReadDropped PROVE OtherShape
<1>1. toApp \in Seq(Message) /\ UNCHANGED <<updates, toCar, phase, event>>
  BY DEF ReadDropped, TypeOK, table, delivery
<1>2. PICK d \in 1 .. Len(toApp) : toApp' = SubSeq(toApp, d + 1, Len(toApp))
  BY DEF ReadDropped
<1>3. \A n \in DOMAIN toApp' : n + d \in DOMAIN toApp /\ toApp'[n] = toApp[n + d]
  BY <1>1, <1>2
<1>4. \A r : AckOnItsWay(r)' => AckOnItsWay(r)
  BY <1>3 DEF AckOnItsWay, Ack
<1>5. \A r : AckBeingDelivered(r)' => AckBeingDelivered(r)
  BY <1>1 DEF AckBeingDelivered, Ack
<1>6. QED
  BY <1>1, <1>4, <1>5 DEF OtherShape

(* A step of the delivery that leaves queues, table and event alone.       *)
LEMMA QuietShape ==
  ASSUME UNCHANGED <<updates, toCar, toApp, event>>, phase = "idle" => phase' = "idle"
  PROVE  OtherShape
BY DEF OtherShape, AckOnItsWay, AckBeingDelivered

(* Every step other than Ask and CarWrites has this shape.                 *)
LEMMA OtherStepShape == ASSUME IInv, OtherStep PROVE OtherShape
<1> USE DEF IInv
<1>1. CASE Receive \/ ReadDropped
  BY <1>1, ReceiveShape, DroppedShape
<1>2. CASE SkipNull \/ CallUser \/ UserReturns \/ NothingPending \/ ScanTable \/ CallCallback
           \/ EndScan \/ EndDelivery
  <2>1. UNCHANGED <<updates, toCar, toApp, event>>
    BY <1>2 DEF SkipNull, CallUser, UserReturns, NothingPending, ScanTable, CallCallback,
       EndScan, EndDelivery, table, link
  <2>2. phase # "idle"
    BY <1>2 DEF SkipNull, CallUser, UserReturns, NothingPending, ScanTable, CallCallback,
       EndScan, EndDelivery, Dispatch, ScanReaches
  <2>3. QED
    BY <2>1, <2>2, QuietShape
<1>3. CASE Resend
  <2>1. PICK i \in Slots : ScanReaches(i) /\ Send(updates[i])
    BY <1>3 DEF Resend
  <2>2. i \in UsedSlots /\ updates[i] \in Update
    BY <2>1 DEF ScanReaches, Matches, UsedSlots, TypeOK
  <2>3. \A n \in DOMAIN toCar' :
          \/ \E m \in DOMAIN toCar : toCar'[n] = toCar[m]
          \/ /\ toCar'[n].register = updates[i].register
             /\ toCar'[n].value = updates[i].value
    BY <2>1, <2>2 DEF Send, TypeOK, Update, Command
  <2>4. UNCHANGED <<updates, toApp, event, phase>>
    BY <1>3 DEF Resend, table
  <2>5. QED
    BY <2>2, <2>3, <2>4 DEF OtherShape, AckOnItsWay, AckBeingDelivered
<1>4. CASE CallbackReturns \/ ClearSilently
  <2>1. PICK i \in Slots : Clear(i) /\ updates[i] # Free /\ event.type = "ack"
                           /\ event.register = updates[i].register
    BY <1>4 DEF CallbackReturns, ClearSilently, ScanReaches, Matches, DeliveryInv
  <2>2. phase # "idle" /\ phase' # "idle" /\ UNCHANGED <<toCar, toApp, event>>
    BY <1>4 DEF CallbackReturns, ClearSilently, ScanReaches, link
  <2>3. event = Ack(updates[i].register)
    BY <2>1 DEF TypeOK, Message, Ack, BB, CC
  <2>4. updates' = [updates EXCEPT ![i] = Free] /\ i \in UsedSlots
    BY <2>1 DEF Clear, UsedSlots
  <2>5. QED
    BY <2>2, <2>3, <2>4 DEF OtherShape, AckOnItsWay, AckBeingDelivered
<1>5. CASE RegisterEventHandler \/ DeregisterEventHandler \/ UpdateRegisterTableFull
  <2>1. UNCHANGED <<updates, toCar, toApp, event, phase>>
    BY <1>5 DEF RegisterEventHandler, DeregisterEventHandler, UpdateRegisterTableFull, vars,
       table, delivery, link
  <2>2. QED
    BY <2>1, QuietShape
<1>6. CASE CarAnnouncesKey \/ CarChangesKey \/ CarSendsCC
  <2>1. PICK m \in {BB(k) : k \in Keys} \cup {CC} : toApp' = Append(toApp, m)
    BY <1>6 DEF CarAnnouncesKey, CarChangesKey, CarSendsCC, Announce
  <2>2. UNCHANGED <<updates, toCar, event, phase>>
    BY <1>6 DEF CarAnnouncesKey, CarChangesKey, CarSendsCC, Announce, table, delivery
  <2>3. \A n \in DOMAIN toApp' : (n \in DOMAIN toApp /\ toApp'[n] = toApp[n]) \/ toApp'[n] = m
    BY <2>1 DEF TypeOK
  <2>4. \A r : AckOnItsWay(r)' => AckOnItsWay(r)
    BY <2>1, <2>3 DEF AckOnItsWay, Ack, BB, CC
  <2>5. QED
    BY <2>2, <2>4 DEF OtherShape, AckBeingDelivered
<1>7. CASE DisconnectOutput \/ LinkLost
  <2>1. toCar' = << >> /\ toApp' = << >> /\ UNCHANGED <<updates, event, phase>>
    BY <1>7 DEF DisconnectOutput, LinkLost, NewConnection, table, delivery
  <2>2. QED
    BY <2>1 DEF OtherShape, AckOnItsWay, AckBeingDelivered
<1>8. QED
  BY <1>1, <1>2, <1>3, <1>4, <1>5, <1>6, <1>7 DEF OtherStep, Library

-----------------------------------------------------------------------------
(* Nothing is under way when the pipe is created.                          *)
LEMMA OutcomeInit == InitOutcome => OInv
<1> SUFFICES ASSUME InitOutcome PROVE OInv
  OBVIOUS
<1>1. IInv
  BY InitInv DEF InitOutcome
<1>2. HistoryTypeOK /\ CommandsAsked /\ SlotsAsked /\ SettledAsAsked
  BY DEF InitOutcome, Init, HistoryTypeOK, CommandsAsked, SlotsAsked, SettledAsAsked, UsedSlots
<1>3. AcksAnswered
  BY DEF InitOutcome, Init, AcksAnswered, AckOnItsWay, AckBeingDelivered
<1>4. QED
  BY <1>1, <1>2, <1>3 DEF OInv

(* An update asked for joins those of its register, or opens the register. *)
LEMMA AskInv == ASSUME OInv, NEW u \in Update, Ask(u), IInv' PROVE OInv'
<1> USE DEF OInv
<1>1. PICK i \in Slots : updates[i] = Free /\ updates' = [updates EXCEPT ![i] = u]
  BY DEF Ask, UpdateRegister
<1>2. /\ Send(u) /\ UNCHANGED <<toApp, phase, event, car>>
      /\ asked' = [asked EXCEPT ![u.register] =
                     IF Open(u.register) THEN @ \cup {u.value} ELSE {u.value}]
  BY DEF Ask, UpdateRegister, delivery
<1>3. u.register \in Registers /\ u.value \in Values /\ u # Free
  BY FreeAssumption DEF Update
<1>4. HistoryTypeOK'
  BY <1>2, <1>3 DEF HistoryTypeOK
<1>5. \A r \in Registers : Open(r) => asked[r] \subseteq asked'[r]
  BY <1>2, <1>3 DEF HistoryTypeOK
<1>6. u.value \in asked'[u.register]
  BY <1>2, <1>3 DEF HistoryTypeOK
<1>7. CommandsAsked'
  <2> SUFFICES ASSUME NEW n \in DOMAIN toCar'
               PROVE  toCar'[n].value \in asked'[toCar'[n].register]
    BY DEF CommandsAsked
  <2>1. \/ n \in DOMAIN toCar /\ toCar'[n] = toCar[n]
        \/ toCar'[n].register = u.register /\ toCar'[n].value = u.value
    <3>1. /\ toCar \in Seq(Command)
          /\ toCar' = Append(toCar, [register |-> u.register, value |-> u.value,
                                    xor |-> commandXOR])
      BY <1>2 DEF Send, IInv, TypeOK
    <3>2. \/ n \in DOMAIN toCar /\ toCar'[n] = toCar[n]
          \/ toCar'[n] = [register |-> u.register, value |-> u.value, xor |-> commandXOR]
      BY <3>1
    <3>3. QED
      BY <3>2
  <2>2. CASE n \in DOMAIN toCar /\ toCar'[n] = toCar[n]
    <3>1. toCar[n].register \in Registers
      <4>1. toCar \in Seq(Command)
        BY DEF IInv, TypeOK
      <4>2. toCar[n] \in Command
        BY <2>2, <4>1
      <4>3. QED
        BY <4>2 DEF Command
    <3>2. Open(toCar[n].register)
      BY <2>2 DEF Open
    <3>3. QED
      BY <1>5, <2>2, <3>1, <3>2 DEF CommandsAsked
  <2>3. QED
    BY <1>6, <2>1, <2>2
<1>8. SlotsAsked'
  <2> SUFFICES ASSUME NEW j \in UsedSlots'
               PROVE  updates'[j].value \in asked'[updates'[j].register]
    BY DEF SlotsAsked
  <2>1. CASE j = i
    BY <1>1, <1>6, <2>1 DEF IInv, TypeOK
  <2>2. CASE j # i
    <3>1. j \in UsedSlots /\ updates'[j] = updates[j] /\ updates[j].register \in Registers
      BY <1>1, <2>2 DEF UsedSlots, IInv, TypeOK, Update
    <3>2. Open(updates[j].register)
      BY <3>1 DEF Open, PendingFor
    <3>3. QED
      BY <1>5, <3>1, <3>2 DEF SlotsAsked
  <2>3. QED
    BY <2>1, <2>2
<1>9. AcksAnswered'
  BY <1>2, <1>5 DEF AcksAnswered, AckOnItsWay, AckBeingDelivered, Open
<1>10. SettledAsAsked'
  <2> SUFFICES ASSUME NEW r \in Registers, asked'[r] # {}, ~PendingFor(r)'
               PROVE  car'[r] \in asked'[r]
    BY DEF SettledAsAsked
  <2>1. r # u.register
    BY <1>1, <1>3 DEF PendingFor, UsedSlots, IInv, TypeOK
  <2>2. asked'[r] = asked[r] /\ car'[r] = car[r]
    BY <1>2, <2>1 DEF HistoryTypeOK
  <2>3. ~PendingFor(r)
    BY <1>1 DEF PendingFor, UsedSlots, IInv, TypeOK
  <2>4. QED
    BY <2>2, <2>3 DEF SettledAsAsked
<1>11. QED
  BY <1>4, <1>7, <1>8, <1>9, <1>10

(* Every entry of an appended sequence is an old one or the new one.       *)
LEMMA Appended ==
    ASSUME NEW S, NEW s \in Seq(S), NEW x, NEW n \in DOMAIN Append(s, x)
    PROVE  (n \in DOMAIN s /\ Append(s, x)[n] = s[n]) \/ Append(s, x)[n] = x
<1>1. DOMAIN Append(s, x) = 1 .. Len(s) + 1 /\ DOMAIN s = 1 .. Len(s)
  OBVIOUS
<1>2. CASE n = Len(s) + 1
  BY <1>2
<1>3. CASE n # Len(s) + 1
  BY <1>1, <1>3
<1>4. QED
  BY <1>2, <1>3

(* The car only writes what was asked for, and acknowledges what it wrote. *)
LEMMA CarWritesInv == ASSUME OInv, CarWrites, IInv' PROVE OInv'
<1> USE DEF OInv
<1> DEFINE c == Head(toCar)
<1>1. /\ toCar \in Seq(Command) /\ toCar # << >> /\ toCar' = Tail(toCar)
      /\ UNCHANGED <<updates, phase, event, asked>>
  BY DEF CarWrites, CarReceives, IInv, TypeOK, table, delivery
<1>2. c = toCar[1] /\ 1 \in DOMAIN toCar /\ c.register \in Registers /\ c.value \in Values
  <2>1. c = toCar[1] /\ 1 \in DOMAIN toCar /\ c \in Command
    BY <1>1
  <2>2. QED
    BY <2>1 DEF Command
<1>3. c.value \in asked[c.register]
  BY <1>2 DEF CommandsAsked
<1>4. CommandsAsked'
  <2>1. \A n \in DOMAIN toCar' : n + 1 \in DOMAIN toCar /\ toCar'[n] = toCar[n + 1]
    BY <1>1
  <2>2. QED
    BY <1>1, <2>1 DEF CommandsAsked
<1>5. SlotsAsked' /\ \A r : PendingFor(r)' <=> PendingFor(r)
  BY <1>1 DEF SlotsAsked, UsedSlots, PendingFor
<1>6. CASE c.xor # carXOR
  <2>1. UNCHANGED <<car, toApp>>
    BY <1>6 DEF CarWrites, CarReceives
  <2>2. QED
    BY <1>1, <1>4, <1>5, <2>1 DEF HistoryTypeOK, AcksAnswered, AckOnItsWay, AckBeingDelivered,
       SettledAsAsked
<1>7. CASE c.xor = carXOR
  <2>1. car' = [car EXCEPT ![c.register] = c.value] /\ toApp' = Append(toApp, Ack(c.register))
    BY <1>7 DEF CarWrites, CarReceives
  <2>2. HistoryTypeOK'
    BY <1>1, <1>2, <2>1 DEF HistoryTypeOK
  <2>3. \A r \in Registers : car'[r] = IF r = c.register THEN c.value ELSE car[r]
    BY <1>2, <2>1 DEF HistoryTypeOK
  <2>4. \A r \in Registers : AckOnItsWay(r)' => AckOnItsWay(r) \/ r = c.register
    <3>1. \A n \in DOMAIN toApp' : (n \in DOMAIN toApp /\ toApp'[n] = toApp[n])
                                   \/ toApp'[n] = Ack(c.register)
      <4>1. toApp \in Seq(Message)
        BY DEF IInv, TypeOK
      <4>2. QED
        BY ONLY <2>1, <4>1, Appended
    <3>2. QED
      BY <3>1 DEF AckOnItsWay, Ack
  <2>5. AcksAnswered'
    BY <1>1, <1>3, <2>3, <2>4 DEF AcksAnswered, AckBeingDelivered
  <2>6. SettledAsAsked'
    BY <1>1, <1>3, <1>5, <2>3 DEF SettledAsAsked
  <2>7. QED
    BY <1>4, <1>5, <2>2, <2>5, <2>6
<1>8. QED
  BY <1>6, <1>7

(* Nothing else adds a value or lets a register settle on a wrong one.     *)
LEMMA OtherInv == ASSUME OInv, OtherShape, UNCHANGED history, IInv' PROVE OInv'
<1> USE DEF OInv
<1>1. HistoryTypeOK'
  BY DEF HistoryTypeOK, history
<1>2. CommandsAsked'
  BY DEF OtherShape, CommandsAsked, SlotsAsked, history
<1>3. SlotsAsked'
  <2>1. \A j \in UsedSlots' : j \in UsedSlots /\ updates'[j] = updates[j]
    BY DEF OtherShape, UsedSlots, IInv, TypeOK
  <2>2. QED
    BY <2>1 DEF SlotsAsked, history
<1>4. AcksAnswered'
  BY DEF OtherShape, AcksAnswered, history
<1>5. SettledAsAsked'
  <2> SUFFICES ASSUME NEW r \in Registers, asked[r] # {}, ~PendingFor(r)'
               PROVE  car[r] \in asked[r]
    BY DEF SettledAsAsked, history
  <2>1. CASE ~PendingFor(r)
    BY <2>1 DEF SettledAsAsked
  <2>2. CASE PendingFor(r)
    <3>1. PICK i \in UsedSlots : updates[i].register = r
      BY <2>2 DEF PendingFor
    <3>2. ~UNCHANGED updates
      BY <2>2 DEF PendingFor, UsedSlots
    <3>3. PICK j \in UsedSlots : /\ updates' = [updates EXCEPT ![j] = Free]
                                 /\ event = Ack(updates[j].register) /\ phase # "idle"
      BY <3>2 DEF OtherShape
    <3>4. i = j
      BY <3>1, <3>3 DEF PendingFor, UsedSlots, IInv, TypeOK
    <3>5. AckBeingDelivered(r)
      BY <3>1, <3>3, <3>4 DEF AckBeingDelivered
    <3>6. QED
      BY <3>5 DEF AcksAnswered
  <2>3. QED
    BY <2>1, <2>2
<1>6. QED
  BY <1>1, <1>2, <1>3, <1>4, <1>5

(* Each step of this module is a step of UpdateRegister.                   *)
LEMMA StepOfUpdateRegister == [NextOutcome]_allVars => [Next]_vars
BY DEF NextOutcome, allVars, Ask, CarWrites, OtherStep, Next, Application, Environment

(* The invariant is inductive.                                             *)
LEMMA OutcomeNext == OInv /\ [NextOutcome]_allVars => OInv'
<1> SUFFICES ASSUME OInv, [NextOutcome]_allVars PROVE OInv'
  OBVIOUS
<1>1. IInv'
  BY StepOfUpdateRegister, NextInv DEF OInv
<1>2. CASE \E u \in Update : Ask(u)
  BY <1>1, <1>2, AskInv
<1>3. CASE CarWrites
  BY <1>1, <1>3, CarWritesInv
<1>4. CASE OtherStep /\ UNCHANGED history
  BY <1>1, <1>4, OtherStepShape, OtherInv DEF OInv
<1>5. CASE UNCHANGED allVars
  <2>1. UNCHANGED <<updates, toCar, toApp, event, phase>> /\ UNCHANGED history
    BY <1>5 DEF allVars, vars, table, link, delivery
  <2>2. QED
    BY <1>1, <2>1, QuietShape, OtherInv
<1>6. QED
  BY <1>2, <1>3, <1>4, <1>5 DEF NextOutcome

(* In every reachable state the values under way were asked for, and an    *)
(* acknowledgement under way speaks of one of them.                        *)
THEOREM OutcomeInvariant == SpecOutcome => []OInv
BY OutcomeInit, OutcomeNext, PTL DEF SpecOutcome

(* A register without pending updates holds a value asked for since it was *)
(* last at rest, whatever was resent, acknowledged twice or lost between.  *)
THEOREM Settled == SpecOutcome => []SettledAsAsked
BY OutcomeInvariant, PTL DEF OInv

-----------------------------------------------------------------------------
(* The refinement.                                                         *)

(* A register is open while an update, a command or an acknowledgement of  *)
(* it exists; no other step opens one.                                     *)
LEMMA OtherCloses ==
  ASSUME IInv, OtherShape, NEW r \in Registers, Open(r)'
  PROVE  Open(r)
<1>1. PendingFor(r)' => PendingFor(r)
  BY DEF OtherShape, PendingFor, UsedSlots, IInv, TypeOK
<1>2. (\E n \in DOMAIN toCar : toCar[n].register = r)' =>
         PendingFor(r) \/ \E n \in DOMAIN toCar : toCar[n].register = r
  BY DEF OtherShape, PendingFor
<1>3. QED
  BY <1>1, <1>2 DEF Open, OtherShape, AckOnItsWay

(* A step that leaves the table and the car alone and opens nothing only   *)
(* closes registers of which no update is pending.                         *)
LEMMA StepCloses ==
  ASSUME IInv, UNCHANGED <<updates, car, asked>>, \A r \in Registers : Open(r)' => Open(r)
  PROVE  \E R \in SUBSET Registers : Writes!Close(R)
<1> DEFINE R == {r \in Registers : Open(r) /\ ~Open(r)'}
<1>1. \A i \in Slots : updates[i] # Free => updates[i].register \notin R
  BY DEF Open, PendingFor, UsedSlots
<1>2. \A i \in Slots :
        (IF updates[i] = Free THEN Free ELSE updates[i].register) \notin R
  BY <1>1, TicketAssumption
<1>3. \A r \in Registers : Open(r)' <=> (Open(r) /\ r \notin R)
  OBVIOUS
<1>4. \A r \in Registers : Open(r)' = (Open(r) /\ r \notin R)
  BY <1>3, Zenon DEF Open, PendingFor, AckBeingDelivered
<1>5. [r \in Registers |-> Open(r)]' = [r \in Registers |-> Open(r) /\ r \notin R]
  BY <1>4, Zenon
<1> HIDE DEF R
<1>6. [r \in Registers |-> Open(r) /\ r \notin R]
        = [r \in Registers |-> [s \in Registers |-> Open(s)][r] /\ r \notin R]
  BY Zenon
<1>7. Writes!Close(R)
  BY <1>2, <1>5, <1>6 DEF Writes!Close
<1>8. QED
  BY <1>7 DEF R

(* The initial states are initial states of RegisterWrites.                *)
LEMMA WritesInit == InitOutcome => Writes!Init
BY DEF InitOutcome, Init, Writes!Init, Open, PendingFor, UsedSlots, AckBeingDelivered

(* Every step is a step of RegisterWrites or changes nothing it speaks of. *)
LEMMA WritesAsk == ASSUME OInv, NEW u \in Update, Ask(u)
                   PROVE  \E i \in Slots : Writes!Ask(i, u.register, u.value)
<1> USE DEF OInv
<1>1. PICK i \in Slots : updates[i] = Free /\ updates' = [updates EXCEPT ![i] = u]
  BY DEF Ask, UpdateRegister
<1>2. /\ Send(u) /\ UNCHANGED <<toApp, phase, event, car>>
      /\ asked' = [asked EXCEPT ![u.register] =
                     IF Open(u.register) THEN @ \cup {u.value} ELSE {u.value}]
  BY DEF Ask, UpdateRegister, delivery
<1>3. u.register \in Registers /\ u # Free
  BY FreeAssumption DEF Update
<1>4. [j \in Slots |-> IF updates[j] = Free THEN Free ELSE updates[j].register]' =
        [[j \in Slots |-> IF updates[j] = Free THEN Free ELSE updates[j].register]
           EXCEPT ![i] = u.register]
  BY <1>1, <1>3 DEF IInv, TypeOK
<1>5. \A r : PendingFor(r)' <=> PendingFor(r) \/ r = u.register
  BY <1>1, <1>3 DEF PendingFor, UsedSlots, IInv, TypeOK
<1>6. \A r : (\E n \in DOMAIN toCar' : toCar'[n].register = r) <=>
               r = u.register \/ \E n \in DOMAIN toCar : toCar[n].register = r
  <2> DEFINE d == [register |-> u.register, value |-> u.value, xor |-> commandXOR]
  <2>1. toCar \in Seq(Command) /\ toCar' = Append(toCar, d)
    BY <1>2 DEF Send, IInv, TypeOK
  <2>2. /\ Len(toCar') \in DOMAIN toCar' /\ toCar'[Len(toCar')] = d
        /\ \A n \in DOMAIN toCar : n \in DOMAIN toCar' /\ toCar'[n] = toCar[n]
        /\ \A n \in DOMAIN toCar' : (n \in DOMAIN toCar /\ toCar'[n] = toCar[n]) \/ toCar'[n] = d
    BY <2>1
  <2>3. QED
    BY <2>2
<1>7. \A r : Open(r)' <=> Open(r) \/ r = u.register
  BY <1>2, <1>5, <1>6 DEF Open, AckBeingDelivered
<1>8. [r \in Registers |-> Open(r)]' = [[r \in Registers |-> Open(r)] EXCEPT ![u.register] = TRUE]
  <2>1. \A r \in Registers : Open(r) \in BOOLEAN /\ Open(r)' \in BOOLEAN
    BY Zenon DEF Open, PendingFor, AckBeingDelivered
  <2>2. \A r \in Registers : Open(r)' = IF r = u.register THEN TRUE ELSE Open(r)
    BY <1>7, <2>1, Zenon
  <2>3. QED
    BY <2>2, Zenon
<1>9. asked' = [asked EXCEPT ![u.register] =
                  IF [r \in Registers |-> Open(r)][u.register] THEN @ \cup {u.value} ELSE {u.value}]
  BY <1>2, <1>3
<1>10. Writes!Ask(i, u.register, u.value)
  BY <1>1, <1>2, <1>4, <1>8, <1>9 DEF Writes!Ask
<1>11. QED
  BY <1>10

(* The car acts on the first command, or drops it and perhaps closes the   *)
(* register with it.                                                       *)
LEMMA WritesAct == ASSUME OInv, CarWrites
                   PROVE  \/ \E r \in Registers : Writes!Act(r)
                          \/ \E R \in SUBSET Registers : Writes!Close(R)
<1> USE DEF OInv
<1> DEFINE c == Head(toCar)
<1>1. /\ toCar \in Seq(Command) /\ toCar # << >> /\ toCar' = Tail(toCar)
      /\ UNCHANGED <<updates, phase, event, asked>>
  BY DEF CarWrites, CarReceives, IInv, TypeOK, table, delivery
<1>2. c = toCar[1] /\ 1 \in DOMAIN toCar /\ c.register \in Registers /\ c.value \in Values
  <2>1. c = toCar[1] /\ 1 \in DOMAIN toCar /\ c \in Command
    BY <1>1
  <2>2. QED
    BY <2>1 DEF Command
<1>3. PICK r \in Registers : r = c.register
  BY <1>2
<1>4. c.value \in asked[r] /\ Open(r)
  BY <1>2, <1>3 DEF CommandsAsked, Open
<1>5. \A n \in DOMAIN toCar' : n + 1 \in DOMAIN toCar /\ toCar'[n] = toCar[n + 1]
  BY <1>1
<1>6. \A n \in DOMAIN toCar : n # 1 => n - 1 \in DOMAIN toCar' /\ toCar'[n - 1] = toCar[n]
  BY <1>1
<1>7. \A q : PendingFor(q)' <=> PendingFor(q)
  BY <1>1 DEF PendingFor, UsedSlots
<1>8. CASE c.xor # carXOR
  <2>1. UNCHANGED <<car, toApp>>
    BY <1>8 DEF CarWrites, CarReceives
  <2>2. \A q \in Registers : Open(q)' => Open(q)
    BY <1>1, <1>5, <1>7, <2>1 DEF Open, AckBeingDelivered
  <2>3. QED
    BY <1>1, <2>1, <2>2, StepCloses
<1>9. CASE c.xor = carXOR
  <2>1. car' = [car EXCEPT ![r] = c.value] /\ toApp' = Append(toApp, Ack(r))
    BY <1>3, <1>9 DEF CarWrites, CarReceives
  <2>2. /\ Len(toApp') \in DOMAIN toApp' /\ toApp'[Len(toApp')] = Ack(r)
        /\ \A n \in DOMAIN toApp : n \in DOMAIN toApp' /\ toApp'[n] = toApp[n]
        /\ \A n \in DOMAIN toApp' : (n \in DOMAIN toApp /\ toApp'[n] = toApp[n])
                                   \/ toApp'[n] = Ack(r)
    BY <2>1 DEF IInv, TypeOK
  <2>3. Open(r)'
    BY <2>2 DEF Open
  <2>4. \A s : s # r => (Open(s)' <=> Open(s))
    <3> SUFFICES ASSUME NEW s, s # r PROVE Open(s)' <=> Open(s)
      OBVIOUS
    <3>1. (\E n \in DOMAIN toCar' : toCar'[n].register = s)
            <=> \E n \in DOMAIN toCar : toCar[n].register = s
      BY <1>2, <1>3, <1>5, <1>6
    <3>2. (\E n \in DOMAIN toApp' : toApp'[n] = Ack(s)) <=> \E n \in DOMAIN toApp : toApp[n] = Ack(s)
      BY <2>2 DEF Ack
    <3>3. QED
      BY <1>1, <1>7, <3>1, <3>2 DEF Open, AckBeingDelivered
  <2>5. UNCHANGED [s \in Registers |-> Open(s)]
    <3>1. \A s \in Registers : Open(s) \in BOOLEAN /\ Open(s)' \in BOOLEAN
      BY Zenon DEF Open, PendingFor, AckBeingDelivered
    <3>2. \A s \in Registers : Open(s)' = Open(s)
      BY <1>4, <2>3, <2>4, <3>1
    <3>3. QED
      BY <3>2, Zenon
  <2>6. UNCHANGED [i \in Slots |-> IF updates[i] = Free THEN Free ELSE updates[i].register]
    BY <1>1
  <2>7. Writes!Act(r)
    BY <1>1, <1>3, <1>4, <2>1, <2>5, <2>6 DEF Writes!Act
  <2>8. QED
    BY <2>7
<1>10. QED
  BY <1>8, <1>9

(* Another step closes registers or completes one update.                  *)
LEMMA WritesDone == ASSUME OInv, OtherShape, UNCHANGED history
                    PROVE  \/ \E i \in Slots : Writes!Done(i)
                           \/ \E R \in SUBSET Registers : Writes!Close(R)
<1> USE DEF OInv
<1>1. CASE UNCHANGED updates
  BY <1>1, OtherCloses, StepCloses DEF history
<1>2. ASSUME NEW i \in UsedSlots, updates' = [updates EXCEPT ![i] = Free],
             event = Ack(updates[i].register), phase # "idle", phase' # "idle",
             UNCHANGED <<toCar, toApp, event>>
      PROVE  Writes!Done(i)
  <2> DEFINE r == updates[i].register
  <2>1. i \in Slots /\ updates[i] # Free /\ r \in Registers
    BY <1>2 DEF UsedSlots, IInv, TypeOK, Update
  <2>2. AckBeingDelivered(r) /\ phase' # "idle" /\ event' = Ack(r)
    BY <1>2 DEF AckBeingDelivered
  <2>3. car[r] \in asked[r]
    BY <2>1, <2>2 DEF AcksAnswered
  <2>4. \A s : s # r => (PendingFor(s)' <=> PendingFor(s))
    BY <1>2, <2>1 DEF PendingFor, UsedSlots, IInv, TypeOK
  <2>5. \A s : Open(s)' <=> Open(s)
    <3> SUFFICES ASSUME NEW s PROVE Open(s)' <=> Open(s)
      OBVIOUS
    <3>1. CASE s = r
      BY <1>2, <2>2, <3>1 DEF Open, AckBeingDelivered
    <3>2. CASE s # r
      BY <1>2, <2>4, <3>2 DEF Open, AckBeingDelivered
    <3>3. QED
      BY <3>1, <3>2
  <2>6. UNCHANGED [s \in Registers |-> Open(s)]
    <3>1. \A s \in Registers : Open(s) \in BOOLEAN /\ Open(s)' \in BOOLEAN
      BY Zenon DEF Open, PendingFor, AckBeingDelivered
    <3>2. \A s \in Registers : Open(s)' = Open(s)
      BY <2>5, <3>1, Zenon
    <3>3. QED
      BY <3>2, Zenon
  <2>7. [j \in Slots |-> IF updates[j] = Free THEN Free ELSE updates[j].register]' =
          [[j \in Slots |-> IF updates[j] = Free THEN Free ELSE updates[j].register]
             EXCEPT ![i] = Free]
    BY <1>2, <2>1 DEF IInv, TypeOK
  <2>8. r # Free
    BY <2>1, TicketAssumption
  <2>9. QED
    BY <2>1, <2>3, <2>6, <2>7, <2>8 DEF Writes!Done, history
<1>3. QED
  BY <1>1, <1>2 DEF OtherShape, UsedSlots

(* Each step is a step of RegisterWrites, or leaves its variables alone.   *)
LEMMA WritesNext == OInv /\ [NextOutcome]_allVars => [Writes!Next]_(Writes!writes)
<1> SUFFICES ASSUME OInv, [NextOutcome]_allVars PROVE Writes!Next
  OBVIOUS
<1>1. ASSUME NEW u \in Update, Ask(u) PROVE Writes!Next
  <2>1. u.register \in Registers /\ u.value \in Values
    BY DEF Update
  <2>2. QED
    BY <1>1, <2>1, WritesAsk DEF Writes!Next
<1>2. CASE CarWrites
  BY <1>2, WritesAct DEF Writes!Next
<1>3. CASE OtherStep /\ UNCHANGED history
  BY <1>3, OtherStepShape, WritesDone DEF OInv, Writes!Next
<1>4. CASE UNCHANGED allVars
  <2>1. UNCHANGED <<updates, toCar, toApp, event, phase>> /\ UNCHANGED history
    BY <1>4 DEF allVars, vars, table, link, delivery
  <2>2. QED
    BY <2>1, QuietShape, WritesDone DEF Writes!Next
<1>5. QED
  BY <1>1, <1>2, <1>3, <1>4 DEF NextOutcome

(* The update table of phev_pipe.c, its handler and the car together do    *)
(* only what RegisterWrites allows.                                        *)
THEOREM Refinement == SpecOutcome => WritesImplemented
BY WritesInit, WritesNext, OutcomeInvariant, PTL DEF SpecOutcome, WritesImplemented, Writes!Spec

=============================================================================
