------------------------ MODULE UpdateRegisterProofs ------------------------
(***************************************************************************)
(* Proofs about UpdateRegister, for every size of the tables and every set *)
(* of registers, values and keys.                                          *)
(***************************************************************************)
EXTENDS UpdateRegister, FiniteSetTheorems, TLAPS

(* Where the thread is, as far as the tables it walks are concerned.       *)
DeliveryInv ==
    /\ phase \in {"user", "scan", "callback"} => handlerIndex < eventHandlers
    /\ phase = "callback" => slotIndex \in Slots /\ event.type = "ack" /\ Matches(slotIndex)

(* Nothing stands beyond the count; and the update handler is in the table *)
(* unless no update was ever issued, when the table has room for it.       *)
HandlerInv ==
    /\ \A h \in HandlerIndex : h >= eventHandlers => eventHandler[h] = "NULL"
    /\ \/ \E h \in 0 .. eventHandlers - 1 : eventHandler[h] = "update"
       \/ UsedSlots = {} /\ eventHandlers <= registrations

(* The last key message under way announces the car's key; with none under *)
(* way and none dropped commandXOR is that key.                            *)
KeyInv ==
    /\ \A n \in DOMAIN toApp :
         /\ toApp[n].type = "bb"
         /\ \A m \in DOMAIN toApp : m > n => toApp[m].type # "bb"
         => toApp[n].xor = carXOR
    /\ KeyAgreement

IInv == TypeOK /\ CountMatchesSlots /\ DeliveryInv /\ HandlerInv

-----------------------------------------------------------------------------
(* The table of updates is finite: one more slot in use, one less.         *)
LEMMA SlotsFinite ==
  ASSUME NEW S, S \subseteq Slots
  PROVE  IsFiniteSet(S) /\ Cardinality(S) \in Nat
<1>1. IsFiniteSet(Slots)
  BY FS_Interval, SizesAssumption DEF Slots
<1>2. QED
  BY <1>1, FS_Subset, FS_CardinalityType

(* One more slot in use adds one to the number of used slots.              *)
LEMMA UseSlot ==
  ASSUME TypeOK, NEW i \in Slots, NEW u \in Update, updates[i] = Free,
         updates' = [updates EXCEPT ![i] = u]
  PROVE  Cardinality(UsedSlots') = Cardinality(UsedSlots) + 1
<1>1. UsedSlots' = UsedSlots \cup {i} /\ i \notin UsedSlots
  BY FreeAssumption DEF TypeOK, UsedSlots
<1>2. IsFiniteSet(UsedSlots)
  BY SlotsFinite DEF UsedSlots
<1>3. QED
  BY <1>1, <1>2, FS_AddElement

(* One slot cleared takes one from it.                                     *)
LEMMA FreeSlot ==
  ASSUME TypeOK, NEW i \in Slots, updates[i] # Free,
         updates' = [updates EXCEPT ![i] = Free]
  PROVE  /\ Cardinality(UsedSlots') = Cardinality(UsedSlots) - 1
         /\ Cardinality(UsedSlots) \in Nat \ {0}
<1>1. UsedSlots' = UsedSlots \ {i} /\ i \in UsedSlots
  BY DEF TypeOK, UsedSlots
<1>2. IsFiniteSet(UsedSlots) /\ Cardinality(UsedSlots) \in Nat
  BY SlotsFinite DEF UsedSlots
<1>3. Cardinality(UsedSlots) # 0
  BY <1>1, <1>2, FS_EmptySet
<1>4. QED
  BY <1>1, <1>2, <1>3, FS_RemoveElement

-----------------------------------------------------------------------------
(* phev_pipe_createPipe establishes the invariant.                         *)
LEMMA InitInv == Init => IInv
<1> SUFFICES ASSUME Init PROVE IInv
  OBVIOUS
<1>1. UsedSlots = {}
  BY DEF Init, UsedSlots
<1>2. CountMatchesSlots
  BY <1>1, FS_EmptySet DEF Init, CountMatchesSlots
<1>3. TypeOK
  <2>1. toCar \in Seq(Command) /\ toApp \in Seq(Message) /\ event \in Message
    BY DEF Init, Message
  <2>2. keyMissed \in BOOLEAN /\ acksMissed \subseteq Registers /\ keyed \in BOOLEAN
    BY DEF Init
  <2>3. QED
    BY <2>1, <2>2, KeysAssumption, SizesAssumption, HandlerRoom DEF Init, TypeOK, Handlers, HandlerIndex
<1>4. DeliveryInv /\ HandlerInv
  BY <1>1, SizesAssumption DEF Init, DeliveryInv, Matches, HandlerInv, HandlerIndex
<1>5. QED
  BY <1>2, <1>3, <1>4 DEF IInv

-----------------------------------------------------------------------------
(* phev_pipe_registerEventHandler keeps every entry below the count, and   *)
(* adds the handler when there is room.                                    *)
LEMMA AddHandlerKeeps ==
  ASSUME TypeOK, HandlerInv, NEW f \in {"update", "user"}, AddHandler(f)
  PROVE  /\ eventHandler' \in [HandlerIndex -> Handlers]
         /\ eventHandlers' \in 0 .. MaxEventHandlers
         /\ eventHandlers <= eventHandlers' /\ eventHandlers' <= eventHandlers + 1
         /\ \A h \in 0 .. eventHandlers - 1 : eventHandler'[h] = eventHandler[h]
         /\ \A h \in HandlerIndex : h >= eventHandlers' => eventHandler'[h] = "NULL"
         /\ eventHandlers < MaxEventHandlers =>
              eventHandlers \in 0 .. eventHandlers' - 1 /\ eventHandler'[eventHandlers] = f
<1> USE SizesAssumption DEF HandlerIndex, Handlers
<1>1. CASE eventHandlers < MaxEventHandlers
  <2>1. eventHandlers \in HandlerIndex /\ eventHandler[eventHandlers] = "NULL"
    BY <1>1 DEF TypeOK, HandlerInv
  <2>2. /\ eventHandler' = [eventHandler EXCEPT ![eventHandlers] = f]
        /\ eventHandlers' = eventHandlers + 1
    BY <1>1, <2>1 DEF AddHandler
  <2>3. QED
    BY <1>1, <2>1, <2>2 DEF TypeOK, HandlerInv
<1>2. CASE ~(eventHandlers < MaxEventHandlers)
  BY <1>2 DEF AddHandler, TypeOK, HandlerInv
<1>3. QED
  BY <1>1, <1>2

(* A step that leaves the table of updates alone keeps the count, and one  *)
(* that leaves the handlers alone keeps their table.                       *)
LEMMA TableUnchanged ==
  ASSUME CountMatchesSlots, UNCHANGED table
  PROVE  CountMatchesSlots' /\ UsedSlots' = UsedSlots
BY DEF CountMatchesSlots, UsedSlots, table

(* Handlers left alone, and no slot newly used, keep the handler table.    *)
LEMMA HandlersUnchanged ==
  ASSUME HandlerInv, UNCHANGED handlers, UsedSlots' \subseteq UsedSlots
  PROVE  HandlerInv'
BY DEF HandlerInv, handlers

(* Clearing a used slot keeps the count right.                             *)
LEMMA ClearInv ==
  ASSUME TypeOK, CountMatchesSlots, NEW i \in Slots, updates[i] # Free, Clear(i)
  PROVE  /\ updates' \in [Slots -> Update \cup {Free}]
         /\ numberOfCallbacks' \in Nat
         /\ CountMatchesSlots'
         /\ UsedSlots' \subseteq UsedSlots
<1>1. /\ Cardinality(UsedSlots') = Cardinality(UsedSlots) - 1
      /\ Cardinality(UsedSlots) \in Nat \ {0}
  BY FreeSlot DEF Clear
<1>2. CountMatchesSlots' /\ numberOfCallbacks' \in Nat
  BY <1>1 DEF Clear, CountMatchesSlots
<1>3. QED
  BY <1>2 DEF Clear, TypeOK, UsedSlots

-----------------------------------------------------------------------------
(* The calls of the application keep the invariant.                        *)
LEMMA ApplicationInv == IInv /\ Application => IInv'
<1> SUFFICES ASSUME IInv, Application PROVE IInv'
  OBVIOUS
<1> USE DEF IInv
<1>1. CASE RegisterEventHandler
  <2>1. CountMatchesSlots' /\ UsedSlots' = UsedSlots
    BY <1>1, TableUnchanged DEF RegisterEventHandler
  <2>2. AddHandler("user")
    BY <1>1 DEF RegisterEventHandler
  <2>3. TypeOK'
    <3>1. /\ eventHandler' \in [HandlerIndex -> Handlers]
          /\ eventHandlers' \in 0 .. MaxEventHandlers
      BY <2>2, AddHandlerKeeps
    <3>2. registrations' \in 0 .. MaxUserHandlers
      BY <1>1, HandlerRoom DEF RegisterEventHandler, TypeOK
    <3>3. UNCHANGED <<table, delivery, link, commandXOR>>
      BY <1>1 DEF RegisterEventHandler
    <3>4. QED
      BY <3>1, <3>2, <3>3 DEF TypeOK, table, delivery, link, missed
  <2>4. DeliveryInv'
    BY <1>1, <2>2, AddHandlerKeeps DEF RegisterEventHandler, TypeOK, DeliveryInv, Matches, table, delivery
  <2>5. HandlerInv'
    <3>1. CASE \E h \in 0 .. eventHandlers - 1 : eventHandler[h] = "update"
      BY <2>2, <3>1, AddHandlerKeeps DEF TypeOK, HandlerInv
    <3>2. CASE UsedSlots = {} /\ eventHandlers <= registrations
      BY <1>1, <2>1, <2>2, <3>2, AddHandlerKeeps, HandlerRoom
      DEF RegisterEventHandler, TypeOK, HandlerInv
    <3>3. QED
      BY <3>1, <3>2 DEF HandlerInv
  <2>6. QED
    BY <2>1, <2>3, <2>4, <2>5
<1>2. CASE DeregisterEventHandler
  <2>1. CountMatchesSlots' /\ UsedSlots' = UsedSlots
    BY <1>2, TableUnchanged DEF DeregisterEventHandler
  <2>2. PICK h \in HandlerIndex :
          eventHandler[h] = "user" /\ eventHandler' = [eventHandler EXCEPT ![h] = "NULL"]
    BY <1>2 DEF DeregisterEventHandler
  <2>3. TypeOK'
    BY <1>2, <2>2 DEF DeregisterEventHandler, TypeOK, Handlers, table, delivery, link, missed
  <2>4. DeliveryInv'
    BY <1>2 DEF DeregisterEventHandler, DeliveryInv, Matches, table, delivery
  <2>5. HandlerInv'
    BY <1>2, <2>1, <2>2 DEF DeregisterEventHandler, HandlerInv, TypeOK, HandlerIndex
  <2>6. QED
    BY <2>1, <2>3, <2>4, <2>5
<1>3. ASSUME NEW u \in Update, UpdateRegister(u)
      PROVE  IInv'
  <2>1. PICK i \in Slots : updates[i] = Free /\ updates' = [updates EXCEPT ![i] = u]
    BY <1>3 DEF UpdateRegister
  <2>2. AddHandler("update")
    BY <1>3 DEF UpdateRegister
  <2>3. CountMatchesSlots'
    BY <1>3, <2>1, UseSlot DEF UpdateRegister, CountMatchesSlots
  <2>4. toCar' \in Seq(Command)
    BY <1>3 DEF UpdateRegister, Send, TypeOK, Update, Command
  <2>5. TypeOK'
    BY <1>3, <2>1, <2>2, <2>4, AddHandlerKeeps DEF UpdateRegister, TypeOK, delivery, missed
  <2>6. DeliveryInv'
    <3>1. phase' \in {"user", "scan", "callback"} => handlerIndex' < eventHandlers'
      BY <1>3, <2>2, AddHandlerKeeps DEF UpdateRegister, DeliveryInv, Matches, TypeOK, delivery
    <3>2. phase' = "callback" =>
             slotIndex' \in Slots /\ event'.type = "ack" /\ Matches(slotIndex)'
      BY <1>3, <2>1 DEF UpdateRegister, DeliveryInv, Matches, TypeOK, delivery
    <3>3. QED
      BY <3>1, <3>2 DEF DeliveryInv
  <2>7. HandlerInv'
    <3>1. \E h \in 0 .. eventHandlers' - 1 : eventHandler'[h] = "update"
      <4>1. CASE \E h \in 0 .. eventHandlers - 1 : eventHandler[h] = "update"
        BY <2>2, <4>1, AddHandlerKeeps DEF TypeOK
      <4>2. CASE UsedSlots = {} /\ eventHandlers <= registrations
        BY <2>2, <4>2, AddHandlerKeeps, HandlerRoom, SizesAssumption DEF TypeOK
      <4>3. QED
        BY <4>1, <4>2 DEF HandlerInv
    <3>2. QED
      BY <2>2, <3>1, AddHandlerKeeps DEF HandlerInv
  <2>8. QED
    BY <2>3, <2>5, <2>6, <2>7
<1>4. CASE UpdateRegisterTableFull
  BY <1>4 DEF UpdateRegisterTableFull, vars, table, handlers, delivery, link, missed, TypeOK,
     CountMatchesSlots, UsedSlots, DeliveryInv, Matches, HandlerInv
<1>5. QED
  BY <1>1, <1>2, <1>3, <1>4 DEF Application

(* The car and the loss of connections keep it.                            *)
LEMMA EnvironmentInv == IInv /\ Environment => IInv'
<1> SUFFICES ASSUME IInv, Environment PROVE IInv'
  OBVIOUS
<1> USE DEF IInv
<1>1. UNCHANGED <<table, handlers, delivery>>
  BY DEF Environment, CarReceives, CarAnnouncesKey, CarChangesKey, CarSendsCC, Announce,
     NewConnection, DisconnectOutput, LinkLost
<1>2. CountMatchesSlots' /\ DeliveryInv' /\ HandlerInv'
  BY <1>1 DEF CountMatchesSlots, UsedSlots, DeliveryInv, Matches, HandlerInv, table, handlers, delivery
<1>3. /\ toCar' \in Seq(Command) /\ toApp' \in Seq(Message)
      /\ carXOR' \in Keys /\ keyed' \in BOOLEAN /\ commandXOR' \in Keys
      /\ disruptions' \in 0 .. MaxDisruptions
      /\ keyMissed' \in BOOLEAN /\ acksMissed' \subseteq Registers
  <2> USE KeysAssumption, SizesAssumption DEF TypeOK
  <2>1. CASE CarReceives
    <3>1. toCar' \in Seq(Command) /\ Head(toCar) \in Command
      BY <2>1 DEF CarReceives
    <3>2. Ack(Head(toCar).register) \in Message
      BY <3>1 DEF Command, Message
    <3>3. toApp' \in Seq(Message)
      <4>1. toApp' = toApp \/ toApp' = Append(toApp, Ack(Head(toCar).register))
        BY <2>1 DEF CarReceives
      <4>2. toApp \in Seq(Message)
        BY DEF TypeOK
      <4>3. CASE toApp' = toApp
        BY <4>2, <4>3
      <4>4. CASE toApp' = Append(toApp, Ack(Head(toCar).register))
        BY <3>2, <4>2, <4>4
      <4>5. QED
        BY <4>1, <4>3, <4>4
    <3>4. acksMissed' \subseteq acksMissed
      BY <2>1 DEF CarReceives
    <3>5. UNCHANGED <<carXOR, keyed, disruptions, keyMissed, commandXOR>>
      BY <2>1 DEF CarReceives
    <3>6. QED
      BY <3>1, <3>3, <3>4, <3>5
  <2>2. ASSUME NEW k \in Keys, Announce(k) PROVE toApp' \in Seq(Message)
    <3>1. BB(k) \in Message
      BY DEF Message
    <3>2. QED
      BY <2>2, <3>1 DEF Announce
  <2>3. CASE CarAnnouncesKey
    BY <2>2, <2>3 DEF CarAnnouncesKey, Announce
  <2>4. CASE CarChangesKey
    <3>1. PICK k \in Keys : Announce(k)
      BY <2>4 DEF CarChangesKey
    <3>2. toApp' \in Seq(Message) /\ toCar' \in Seq(Command)
      BY <2>2, <3>1 DEF Announce
    <3>3. disruptions' \in 0 .. MaxDisruptions
      BY <2>4 DEF CarChangesKey
    <3>4. QED
      BY <3>1, <3>2, <3>3 DEF Announce
  <2>5. CASE CarSendsCC
    BY <2>5 DEF CarSendsCC, Message, missed
  <2>6. CASE DisconnectOutput \/ LinkLost
    <3>1. NewConnection /\ commandXOR' \in {NoXOR, commandXOR}
      BY <2>6 DEF DisconnectOutput, LinkLost
    <3>2. toCar' \in Seq(Command) /\ toApp' \in Seq(Message)
      BY <3>1 DEF NewConnection
    <3>3. disruptions' \in 0 .. MaxDisruptions
      BY <3>1 DEF NewConnection
    <3>4. QED
      BY <3>1, <3>2, <3>3 DEF NewConnection
  <2>7. QED
    BY <2>1, <2>3, <2>4, <2>5, <2>6 DEF Environment
<1>4. TypeOK'
  BY <1>1, <1>3 DEF TypeOK, table, handlers, delivery
<1>5. QED
  BY <1>2, <1>4

(* Every step of the delivery of a message keeps it.                       *)
LEMMA LibraryInv == IInv /\ Library => IInv'
<1> SUFFICES ASSUME IInv, Library PROVE IInv'
  OBVIOUS
<1> USE DEF IInv
<1>1. CASE Receive
  <2>1. Head(toApp) \in Message /\ toApp' \in Seq(Message)
    BY <1>1 DEF Receive, TypeOK
  <2>2. commandXOR' \in Keys
    BY <1>1, <2>1 DEF Receive, TypeOK, Message, Ack, BB, CC
  <2>3. TypeOK'
    BY <1>1, <2>1, <2>2, SizesAssumption DEF Receive, TypeOK, table, handlers, missed
  <2>4. CountMatchesSlots' /\ HandlerInv' /\ DeliveryInv'
    BY <1>1 DEF Receive, CountMatchesSlots, HandlerInv, DeliveryInv, Matches, UsedSlots, table, handlers
  <2>5. QED
    BY <2>3, <2>4
<1>2. CASE SkipNull \/ CallUser \/ NothingPending \/ ScanTable
  <2>1. CountMatchesSlots' /\ HandlerInv'
    BY <1>2 DEF SkipNull, CallUser, NothingPending, ScanTable, CountMatchesSlots, HandlerInv,
       UsedSlots, table, handlers
  <2>2. DeliveryInv'
    BY <1>2 DEF SkipNull, CallUser, NothingPending, ScanTable, Dispatch, DeliveryInv, Matches, TypeOK,
       table, handlers
  <2>3. TypeOK'
    <3>1. CASE SkipNull \/ CallUser
      <4>1. handlerIndex' \in 0 .. MaxEventHandlers /\ phase' \in {"dispatch", "user"}
        BY <3>1, SizesAssumption DEF SkipNull, CallUser, Dispatch, TypeOK
      <4>2. UNCHANGED <<table, handlers, event, slotIndex, link, commandXOR>>
        BY <3>1 DEF SkipNull, CallUser
      <4>3. QED
        BY <4>1, <4>2 DEF TypeOK, table, handlers, link, missed
    <3>2. CASE NothingPending
      BY <3>2, SizesAssumption DEF NothingPending, Dispatch, TypeOK, table, handlers, link, missed
    <3>3. CASE ScanTable
      BY <3>3, SizesAssumption DEF ScanTable, Dispatch, TypeOK, table, handlers, link, missed
    <3>4. QED
      BY <1>2, <3>1, <3>2, <3>3
  <2>4. QED
    BY <2>1, <2>2, <2>3
<1>3. CASE UserReturns \/ EndScan
  <2>1. CountMatchesSlots' /\ HandlerInv'
    BY <1>3 DEF UserReturns, EndScan, CountMatchesSlots, HandlerInv, UsedSlots, table, handlers
  <2>2. DeliveryInv'
    BY <1>3 DEF UserReturns, EndScan, NextHandler, DeliveryInv
  <2>3. handlerIndex' \in 0 .. MaxEventHandlers
    BY <1>3, SizesAssumption DEF UserReturns, EndScan, NextHandler, DeliveryInv, Matches, TypeOK
  <2>4. UNCHANGED <<table, handlers, event, slotIndex, link, commandXOR>> /\ phase' = "dispatch"
    BY <1>3 DEF UserReturns, EndScan, NextHandler
  <2>5. TypeOK'
    BY <2>3, <2>4 DEF TypeOK, table, handlers, link, missed
  <2>6. QED
    BY <2>1, <2>2, <2>5
<1>4. CASE Resend
  <2>1. PICK i \in Slots : ScanReaches(i) /\ slotIndex' = i + 1 /\ Send(updates[i])
    BY <1>4 DEF Resend
  <2>2. updates[i] \in Update
    BY <2>1 DEF ScanReaches, Matches, TypeOK
  <2>3. toCar' \in Seq(Command)
    BY <2>1, <2>2 DEF Send, TypeOK, Update, Command
  <2>4. TypeOK'
    BY <1>4, <2>1, <2>3, SizesAssumption DEF Resend, TypeOK, Slots, table, handlers, missed
  <2>5. CountMatchesSlots' /\ HandlerInv'
    BY <1>4 DEF Resend, CountMatchesSlots, HandlerInv, UsedSlots, table, handlers
  <2>6. DeliveryInv'
    BY <1>4, <2>1 DEF Resend, ScanReaches, DeliveryInv, Matches, table, handlers
  <2>7. QED
    BY <2>4, <2>5, <2>6
<1>5. CASE CallCallback
  <2>1. PICK i \in Slots : ScanReaches(i) /\ slotIndex' = i
    BY <1>5 DEF CallCallback
  <2>2. CountMatchesSlots' /\ HandlerInv'
    BY <1>5 DEF CallCallback, CountMatchesSlots, HandlerInv, UsedSlots, table, handlers
  <2>3. DeliveryInv'
    BY <1>5, <2>1 DEF CallCallback, ScanReaches, DeliveryInv, Matches, table, handlers
  <2>4. TypeOK'
    BY <1>5, <2>1, SizesAssumption DEF CallCallback, TypeOK, Slots, table, handlers, link, missed
  <2>5. QED
    BY <2>2, <2>3, <2>4
<1>6. CASE CallbackReturns \/ ClearSilently
  <2>1. PICK i \in Slots : Clear(i) /\ updates[i] # Free /\ slotIndex' = i + 1
    BY <1>6 DEF CallbackReturns, ClearSilently, ScanReaches, Matches, DeliveryInv
  <2>2. UNCHANGED <<handlers, event, handlerIndex, link, commandXOR>> /\ phase' = "scan"
    BY <1>6 DEF CallbackReturns, ClearSilently, ScanReaches
  <2>3. /\ updates' \in [Slots -> Update \cup {Free}] /\ numberOfCallbacks' \in Nat
        /\ CountMatchesSlots' /\ UsedSlots' \subseteq UsedSlots
    BY <2>1, ClearInv
  <2>4. HandlerInv'
    BY <2>2, <2>3, HandlersUnchanged
  <2>5. DeliveryInv'
    BY <1>6, <2>2 DEF DeliveryInv, Matches, CallbackReturns, ClearSilently, ScanReaches, handlers
  <2>6. TypeOK'
    BY <2>1, <2>2, <2>3, SizesAssumption DEF TypeOK, Slots, handlers, link, missed
  <2>7. QED
    BY <2>3, <2>4, <2>5, <2>6
<1>7. CASE EndDelivery
  BY <1>7 DEF EndDelivery, CountMatchesSlots, HandlerInv, DeliveryInv, Matches, TypeOK, UsedSlots,
     table, handlers, link, missed
<1>8. CASE ReadDropped
  <2>1. UNCHANGED <<table, handlers, delivery, toCar, carXOR, keyed, commandXOR>>
    BY <1>8 DEF ReadDropped
  <2>2. toApp' \in Seq(Message)
    BY <1>8 DEF ReadDropped, TypeOK
  <2>3. disruptions' \in 0 .. MaxDisruptions
    BY <1>8, SizesAssumption DEF ReadDropped, TypeOK
  <2>4. keyMissed' \in BOOLEAN /\ acksMissed' \subseteq Registers
    BY <1>8 DEF ReadDropped, TypeOK
  <2>5. TypeOK'
    BY <2>1, <2>2, <2>3, <2>4 DEF TypeOK, table, handlers, delivery
  <2>6. CountMatchesSlots' /\ HandlerInv' /\ DeliveryInv'
    BY <2>1 DEF CountMatchesSlots, HandlerInv, DeliveryInv, Matches, UsedSlots, table, handlers, delivery
  <2>7. QED
    BY <2>5, <2>6
<1>9. QED
  BY <1>1, <1>2, <1>3, <1>4, <1>5, <1>6, <1>7, <1>8 DEF Library

(* The invariant is inductive.                                             *)
LEMMA NextInv == IInv /\ [Next]_vars => IInv'
<1> SUFFICES ASSUME IInv, [Next]_vars PROVE IInv'
  OBVIOUS
<1>1. CASE Next
  BY <1>1, ApplicationInv, LibraryInv, EnvironmentInv DEF Next
<1>2. CASE UNCHANGED vars
  BY <1>2 DEF vars, table, handlers, delivery, link, missed, IInv, TypeOK, CountMatchesSlots, UsedSlots,
     DeliveryInv, Matches, HandlerInv
<1>3. QED
  BY <1>1, <1>2

(* Counts, handlers and the position of the delivery agree in all states.  *)
THEOREM InductiveInvariant == Spec => []IInv
BY InitInv, NextInv, PTL DEF Spec

(* Every variable keeps its type: no handler is written past the end of    *)
(* eventHandler and the loops stay within the tables.                      *)
THEOREM TypeCorrect == Spec => []TypeOK
BY InductiveInvariant, PTL DEF IInv

(* numberOfCallbacks counts the slots in use.                              *)
THEOREM CountCorrect == Spec => []CountMatchesSlots
BY InductiveInvariant, PTL DEF IInv

(* A pending update always has the handler that completes it registered.   *)
THEOREM HandlerPresent == Spec => []PendingHasHandler
<1>1. IInv => PendingHasHandler
  BY DEF IInv, HandlerInv, PendingHasHandler
<1>2. QED
  BY <1>1, InductiveInvariant, PTL

-----------------------------------------------------------------------------
(* Which key the two sides are on.                                         *)

(* No key is announced when the pipe is created.                           *)
LEMMA KeyInit == Init => KeyInv
BY DEF Init, KeyInv, KeyAgreement, KeyOnItsWay

(* Receiving a message keeps the invariant on keys.                        *)
LEMMA KeyReceive ==
  ASSUME TypeOK, KeyInv, Receive
  PROVE  KeyInv'
<1>1. /\ toApp \in Seq(Message) /\ toApp # << >> /\ toApp' = Tail(toApp)
      /\ UNCHANGED <<carXOR, keyed, keyMissed>>
  BY DEF Receive, TypeOK, missed
<1>2. /\ Len(toApp) \in Nat \ {0} /\ Len(toApp') = Len(toApp) - 1
      /\ DOMAIN toApp = 1 .. Len(toApp) /\ DOMAIN toApp' = 1 .. Len(toApp')
      /\ \A n \in 1 .. Len(toApp') : toApp'[n] = toApp[n + 1]
  BY <1>1
<1>3. ASSUME NEW n \in DOMAIN toApp', toApp'[n].type = "bb",
             \A m \in DOMAIN toApp' : m > n => toApp'[m].type # "bb"
      PROVE  toApp'[n].xor = carXOR'
  <2>1. \A m \in DOMAIN toApp : m > n + 1 => toApp[m].type # "bb"
    <3> SUFFICES ASSUME NEW m \in DOMAIN toApp, m > n + 1 PROVE toApp[m].type # "bb"
      OBVIOUS
    <3>1. m - 1 \in DOMAIN toApp' /\ m - 1 > n /\ toApp'[m - 1] = toApp[m]
      BY <1>2, <1>3
    <3>2. QED
      BY <1>3, <3>1
  <2>2. n + 1 \in DOMAIN toApp /\ toApp'[n] = toApp[n + 1]
    BY <1>2
  <2>3. QED
    BY <1>1, <1>3, <2>1, <2>2 DEF KeyInv
<1>4. ASSUME keyed', ~KeyOnItsWay', ~keyMissed'
      PROVE  commandXOR' = carXOR'
  <2>1. \A m \in DOMAIN toApp : m > 1 => toApp[m].type # "bb"
    <3> SUFFICES ASSUME NEW m \in DOMAIN toApp, m > 1 PROVE toApp[m].type # "bb"
      OBVIOUS
    <3>1. m - 1 \in DOMAIN toApp' /\ toApp'[m - 1] = toApp[m]
      BY <1>2
    <3>2. QED
      BY <1>4, <3>1 DEF KeyOnItsWay
  <2>2. CASE toApp[1].type = "bb"
    BY <1>1, <2>1, <2>2 DEF KeyInv, Receive
  <2>3. CASE toApp[1].type # "bb"
    <3>1. ~KeyOnItsWay
      BY <1>1, <2>1, <2>3 DEF KeyOnItsWay
    <3>2. QED
      BY <1>1, <1>4, <2>3, <3>1 DEF KeyInv, KeyAgreement, Receive
  <2>4. QED
    BY <2>2, <2>3
<1>5. QED
  BY <1>3, <1>4 DEF KeyInv, KeyAgreement

(* So does dropping what a read brings: if it held the last key, that is   *)
(* what keyMissed says.                                                    *)
LEMMA KeyDropped ==
  ASSUME TypeOK, KeyInv, ReadDropped
  PROVE  KeyInv'
<1>1. /\ toApp \in Seq(Message)
      /\ UNCHANGED <<carXOR, keyed, commandXOR>>
      /\ keyMissed' = (keyMissed \/ (KeyOnItsWay /\ ~KeyOnItsWay'))
  BY DEF ReadDropped, TypeOK
<1>2. PICK d \in 1 .. Len(toApp) : toApp' = SubSeq(toApp, d + 1, Len(toApp))
  BY DEF ReadDropped
<1>3. /\ Len(toApp) \in Nat /\ d \in Nat /\ Len(toApp') = Len(toApp) - d
      /\ DOMAIN toApp = 1 .. Len(toApp) /\ DOMAIN toApp' = 1 .. Len(toApp')
      /\ \A n \in 1 .. Len(toApp') : toApp'[n] = toApp[n + d]
  BY <1>1, <1>2
<1>4. ASSUME NEW n \in DOMAIN toApp', toApp'[n].type = "bb",
             \A m \in DOMAIN toApp' : m > n => toApp'[m].type # "bb"
      PROVE  toApp'[n].xor = carXOR'
  <2>1. \A m \in DOMAIN toApp : m > n + d => toApp[m].type # "bb"
    <3> SUFFICES ASSUME NEW m \in DOMAIN toApp, m > n + d PROVE toApp[m].type # "bb"
      OBVIOUS
    <3>1. m - d \in DOMAIN toApp' /\ m - d > n /\ toApp'[m - d] = toApp[m]
      BY <1>3, <1>4
    <3>2. QED
      BY <1>4, <3>1
  <2>2. n + d \in DOMAIN toApp /\ toApp'[n] = toApp[n + d]
    BY <1>3
  <2>3. QED
    BY <1>1, <1>4, <2>1, <2>2 DEF KeyInv
<1>5. KeyAgreement'
  BY <1>1 DEF KeyInv, KeyAgreement
<1>6. QED
  BY <1>4, <1>5 DEF KeyInv

(* A message other than a key changes nothing about keys.                  *)
LEMMA KeyAppend ==
  ASSUME TypeOK, KeyInv, NEW m \in Message, m.type # "bb", toApp' = Append(toApp, m),
         UNCHANGED <<carXOR, keyed, keyMissed, commandXOR>>
  PROVE  KeyInv'
<1>1. /\ toApp \in Seq(Message) /\ Len(toApp') = Len(toApp) + 1
      /\ \A n \in DOMAIN toApp : n \in DOMAIN toApp' /\ toApp'[n] = toApp[n]
      /\ \A n \in DOMAIN toApp' : n \in DOMAIN toApp \/ toApp'[n] = m
  BY DEF TypeOK
<1>2. KeyAgreement'
  BY <1>1 DEF KeyInv, KeyAgreement, KeyOnItsWay
<1>3. ASSUME NEW n \in DOMAIN toApp', toApp'[n].type = "bb",
             \A k \in DOMAIN toApp' : k > n => toApp'[k].type # "bb"
      PROVE  toApp'[n].xor = carXOR'
  BY <1>1, <1>3 DEF KeyInv
<1>4. QED
  BY <1>2, <1>3 DEF KeyInv

(* An announced key is the last one under way.                             *)
LEMMA KeyAnnounce ==
  ASSUME TypeOK, NEW k \in Keys, Announce(k)
  PROVE  KeyInv' /\ KeyOnItsWay'
<1>1. /\ Len(toApp') = Len(toApp) + 1 /\ toApp'[Len(toApp')] = BB(k)
      /\ Len(toApp') \in DOMAIN toApp' /\ \A n \in DOMAIN toApp' : n \in Nat /\ n <= Len(toApp')
  BY DEF TypeOK, Announce
<1>2. BB(k).type = "bb" /\ BB(k).xor = carXOR'
  BY DEF BB, Announce
<1>3. KeyOnItsWay'
  BY <1>1, <1>2 DEF KeyOnItsWay
<1>4. ASSUME NEW n \in DOMAIN toApp',
             \A m \in DOMAIN toApp' : m > n => toApp'[m].type # "bb"
      PROVE  toApp'[n].xor = carXOR'
  BY <1>1, <1>2, <1>4
<1>5. QED
  BY <1>3, <1>4 DEF KeyInv, KeyAgreement

(* Steps that touch neither keys nor messages to the application.          *)
LEMMA KeyUnchanged ==
  ASSUME KeyInv, UNCHANGED <<toApp, carXOR, keyed, keyMissed, commandXOR>>
  PROVE  KeyInv'
BY DEF KeyInv, KeyAgreement, KeyOnItsWay

(* The invariant on keys is inductive.                                     *)
LEMMA KeyNext == TypeOK /\ KeyInv /\ [Next]_vars => KeyInv'
<1> SUFFICES ASSUME TypeOK, KeyInv, [Next]_vars PROVE KeyInv'
  OBVIOUS
<1>1. CASE Receive
  BY <1>1, KeyReceive
<1>2. CASE CarReceives
  <2>1. Ack(Head(toCar).register) \in Message /\ Ack(Head(toCar).register).type # "bb"
    <3>1. Head(toCar) \in Command
      BY <1>2 DEF CarReceives, TypeOK
    <3>2. QED
      BY <3>1 DEF Command, Message, Ack
  <2>2. QED
    BY <1>2, <2>1, KeyAppend, KeyUnchanged DEF CarReceives
<1>3. CASE CarAnnouncesKey \/ CarChangesKey
  BY <1>3, KeyAnnounce DEF CarAnnouncesKey, CarChangesKey
<1>4. CASE CarSendsCC
  <2>1. CC \in Message /\ CC.type # "bb"
    BY DEF Message, CC
  <2>2. QED
    BY <1>4, <2>1, KeyAppend DEF CarSendsCC, missed
<1>5. CASE DisconnectOutput \/ LinkLost
  BY <1>5 DEF DisconnectOutput, LinkLost, NewConnection, KeyInv, KeyAgreement
<1>6. CASE Application
  <2>1. UNCHANGED <<toApp, carXOR, keyed, keyMissed, commandXOR>>
    BY <1>6 DEF Application, RegisterEventHandler, DeregisterEventHandler, UpdateRegister,
       UpdateRegisterTableFull, vars, link, missed
  <2>2. QED
    BY <2>1, KeyUnchanged
<1>7. CASE Library /\ ~Receive /\ ~ReadDropped
  <2>1. UNCHANGED <<toApp, carXOR, keyed, keyMissed, commandXOR>>
    BY <1>7 DEF Library, SkipNull, CallUser, UserReturns, NothingPending, ScanTable, Resend,
       CallCallback, CallbackReturns, ClearSilently, EndScan, EndDelivery, link, missed
  <2>2. QED
    BY <2>1, KeyUnchanged
<1>8. CASE UNCHANGED vars
  BY <1>8, KeyUnchanged DEF vars, link, missed
<1>9. CASE ReadDropped
  BY <1>9, KeyDropped
<1>10. QED
  BY <1>1, <1>2, <1>3, <1>4, <1>5, <1>6, <1>7, <1>8, <1>9 DEF Next, Environment

(* After an announcement, commands go out under the car's key, or the      *)
(* message that changes it is still to be read or was dropped with a read  *)
(* (phev_pipe.c 834-879, msg_tcpip.c 73-91).                               *)
THEOREM KeysAgree == Spec => []KeyAgreement
<1>1. KeyInv => KeyAgreement
  BY DEF KeyInv
<1>2. QED
  BY <1>1, KeyInit, KeyNext, TypeCorrect, PTL DEF Spec

-----------------------------------------------------------------------------
(* A slot in use is only ever given up to an acknowledgement.              *)
THEOREM SlotsKept == Spec => SlotKeptUntilAck
<1>1. ASSUME IInv, [Next]_vars, NEW i \in UsedSlots, updates'[i] # updates[i]
      PROVE  updates'[i] = Free /\ event.type = "ack" /\ event.register = updates[i].register
  <2>1. i \in Slots /\ updates[i] # Free
    BY <1>1 DEF UsedSlots
  <2>2. CASE \E u \in Update : UpdateRegister(u)
    BY <1>1, <2>1, <2>2 DEF UpdateRegister, IInv, TypeOK
  <2>3. CASE ClearSilently
    BY <1>1, <2>1, <2>3 DEF ClearSilently, Clear, ScanReaches, Matches, IInv, TypeOK
  <2>4. CASE CallbackReturns
    BY <1>1, <2>1, <2>4 DEF CallbackReturns, Clear, DeliveryInv, Matches, IInv, TypeOK
  <2>5. CASE UNCHANGED table
    BY <1>1, <2>5 DEF table
  <2>6. UNCHANGED table \/ ClearSilently \/ CallbackReturns \/ \E u \in Update : UpdateRegister(u)
    BY <1>1 DEF Next, Library, Application, Environment, Receive, ReadDropped, SkipNull, CallUser,
       UserReturns, NothingPending, ScanTable, Resend, CallCallback, EndScan, EndDelivery,
       RegisterEventHandler, DeregisterEventHandler, UpdateRegisterTableFull, CarReceives,
       CarAnnouncesKey, CarChangesKey, Announce, CarSendsCC, NewConnection, DisconnectOutput,
       LinkLost, vars
  <2>7. QED
    BY <2>2, <2>3, <2>4, <2>5, <2>6
<1>2. IInv /\ [Next]_vars => [SlotKept]_vars
  BY <1>1 DEF SlotKept
<1>3. QED
  BY <1>2, InductiveInvariant, PTL DEF Spec, SlotKeptUntilAck

-----------------------------------------------------------------------------
(* A handler in the table is only ever replaced by NULL, when the          *)
(* application takes its own out: the entry at the count is always free.   *)
THEOREM HandlersStay == Spec => HandlersKept
<1>1. ASSUME IInv, [Next]_vars, NEW h \in HandlerIndex,
             eventHandler[h] # "NULL", eventHandler'[h] # eventHandler[h]
      PROVE  eventHandler[h] = "user" /\ eventHandler'[h] = "NULL"
  <2>1. h \in 0 .. eventHandlers - 1
    BY <1>1, SizesAssumption DEF IInv, HandlerInv, HandlerIndex, TypeOK
  <2>2. ASSUME NEW f \in {"update", "user"}, AddHandler(f) PROVE FALSE
    BY <1>1, <2>1, <2>2, AddHandlerKeeps DEF IInv
  <2>3. CASE DeregisterEventHandler
    <3>1. PICK g \in HandlerIndex :
            eventHandler[g] = "user" /\ eventHandler' = [eventHandler EXCEPT ![g] = "NULL"]
      BY <2>3 DEF DeregisterEventHandler
    <3>2. QED
      BY <1>1, <3>1 DEF IInv, TypeOK
  <2>4. \/ UNCHANGED eventHandler \/ DeregisterEventHandler
        \/ AddHandler("update") \/ AddHandler("user")
    BY <1>1 DEF Next, Library, Application, Environment, Receive, ReadDropped, SkipNull, CallUser,
       UserReturns, NothingPending, ScanTable, Resend, CallCallback, CallbackReturns,
       ClearSilently, EndScan, EndDelivery, RegisterEventHandler, UpdateRegister, UpdateRegisterTableFull, CarReceives,
       CarAnnouncesKey, CarChangesKey, Announce, CarSendsCC, NewConnection, DisconnectOutput,
       LinkLost, vars, handlers
  <2>5. QED
    BY <1>1, <2>2, <2>3, <2>4
<1>2. IInv /\ [Next]_vars => [EntriesKept]_vars
  BY <1>1 DEF EntriesKept
<1>3. QED
  BY <1>2, InductiveInvariant, PTL DEF Spec, HandlersKept

-----------------------------------------------------------------------------
(* No pending update is forgotten.                                         *)

CInv == IInv /\ KeyInv /\ PendingCovered

(* A command appended to the queue hides none of those before it.          *)
LEMMA SendCovers ==
  ASSUME TypeOK, NEW u \in Update, Send(u), carXOR' = carXOR
  PROVE  /\ \A v \in Update : CommandOnItsWay(v) => CommandOnItsWay(v)'
         /\ commandXOR = carXOR => CommandOnItsWay(u)'
<1>1. /\ toCar' = Append(toCar, [register |-> u.register, value |-> u.value, xor |-> commandXOR])
      /\ Len(toCar') = Len(toCar) + 1 /\ Len(toCar') \in DOMAIN toCar'
      /\ \A n \in DOMAIN toCar : n \in DOMAIN toCar' /\ toCar'[n] = toCar[n]
      /\ toCar'[Len(toCar')] = [register |-> u.register, value |-> u.value, xor |-> commandXOR]
  BY DEF Send, TypeOK, Update, Command
<1>2. QED
  BY <1>1 DEF CommandOnItsWay

(* Calls of the application leave no pending update uncovered.             *)
LEMMA CoveredApplication == CInv /\ Application => PendingCovered'
<1> SUFFICES ASSUME CInv, Application PROVE PendingCovered'
  OBVIOUS
<1> USE DEF CInv
<1>1. CASE RegisterEventHandler
  <2>1. AddHandler("user")
    BY <1>1 DEF RegisterEventHandler
  <2>2. \A i \in UsedSlots : VisitAhead(i) => VisitAhead(i)'
    BY <1>1, <2>1, AddHandlerKeeps
    DEF RegisterEventHandler, IInv, VisitAhead, HandlersAhead, TypeOK, table, delivery
  <2>3. QED
    BY <1>1, <2>2 DEF RegisterEventHandler, PendingCovered, Covered, CommandOnItsWay,
       AckOnItsWay, KeyOnItsWay, Missed, UsedSlots, table, link, missed
<1>2. CASE DeregisterEventHandler
  <2>1. PICK h \in HandlerIndex :
          eventHandler[h] = "user" /\ eventHandler' = [eventHandler EXCEPT ![h] = "NULL"]
    BY <1>2 DEF DeregisterEventHandler
  <2>2. \A g \in 0 .. eventHandlers - 1 : eventHandler[g] = "update" => eventHandler'[g] = "update"
    BY <2>1, SizesAssumption DEF IInv, TypeOK, HandlerIndex
  <2>3. \A i \in UsedSlots : VisitAhead(i) => VisitAhead(i)'
    BY <1>2, <2>2
    DEF DeregisterEventHandler, VisitAhead, HandlersAhead, IInv, TypeOK, table, delivery
  <2>4. QED
    BY <1>2, <2>3 DEF DeregisterEventHandler, PendingCovered, Covered, CommandOnItsWay,
       AckOnItsWay, KeyOnItsWay, Missed, UsedSlots, table, link, missed
<1>3. ASSUME NEW u \in Update, UpdateRegister(u), NEW i \in UsedSlots'
      PROVE  Covered(i)'
  <2>1. /\ AddHandler("update") /\ Send(u)
        /\ UNCHANGED <<delivery, toApp, carXOR, keyed, keyMissed, acksMissed, commandXOR>>
    BY <1>3 DEF UpdateRegister, missed
  <2>2. PICK j \in Slots : updates[j] = Free /\ updates' = [updates EXCEPT ![j] = u]
    BY <1>3 DEF UpdateRegister
  <2>3. CASE i = j
    <3>1. updates'[i] = u
      BY <2>2, <2>3 DEF IInv, TypeOK
    <3>2. commandXOR = carXOR => CommandOnItsWay(u)'
      BY <2>1, SendCovers DEF IInv
    <3>3. commandXOR = carXOR => CommandOnItsWay(updates[i])'
      BY <3>1, <3>2 DEF CommandOnItsWay
    <3>4. QED
      BY <2>1, <3>3 DEF KeyInv, KeyAgreement, KeyOnItsWay, Covered, Missed
  <2>4. CASE i # j
    <3>1. i \in UsedSlots /\ updates'[i] = updates[i] /\ updates[i] \in Update
      BY <1>3, <2>2, <2>4 DEF IInv, TypeOK, UsedSlots
    <3>2. CommandOnItsWay(updates[i]) => CommandOnItsWay(updates[i])'
      BY <2>1, <3>1, SendCovers DEF IInv, CommandOnItsWay
    <3>3. VisitAhead(i) => VisitAhead(i)'
      BY <2>1, <3>1, AddHandlerKeeps DEF IInv, VisitAhead, HandlersAhead, TypeOK, delivery
    <3>4. QED
      BY <2>1, <3>1, <3>2, <3>3 DEF PendingCovered, Covered, AckOnItsWay, KeyOnItsWay, Missed
  <2>5. QED
    BY <2>3, <2>4
<1>4. CASE UpdateRegisterTableFull
  BY <1>4 DEF UpdateRegisterTableFull, vars, table, handlers, delivery, link, missed, PendingCovered,
     Covered, Missed, CommandOnItsWay, AckOnItsWay, VisitAhead, HandlersAhead, KeyOnItsWay, UsedSlots
<1>5. QED
  BY <1>1, <1>2, <1>3, <1>4 DEF Application, PendingCovered

(* Nor do the car and the loss of connections.                             *)
LEMMA CoveredEnvironment == CInv /\ Environment => PendingCovered'
<1> SUFFICES ASSUME CInv, Environment PROVE PendingCovered'
  OBVIOUS
<1> USE DEF CInv
<1>1. UNCHANGED <<table, handlers, delivery>> /\ UsedSlots' = UsedSlots
  BY DEF Environment, CarReceives, CarAnnouncesKey, CarChangesKey, CarSendsCC, Announce,
     NewConnection, DisconnectOutput, LinkLost, UsedSlots, table
<1>2. \A i \in UsedSlots : updates'[i] = updates[i] /\ (VisitAhead(i) => VisitAhead(i)')
  BY <1>1 DEF VisitAhead, HandlersAhead, table, handlers, delivery
<1>3. CASE CarReceives
  <2>1. /\ toCar \in Seq(Command) /\ toCar # << >> /\ toCar' = Tail(toCar)
        /\ UNCHANGED <<carXOR, keyed>>
    BY <1>3 DEF CarReceives, IInv, TypeOK
  <2>2. \A n \in DOMAIN toApp : n \in DOMAIN toApp' /\ toApp'[n] = toApp[n]
    <3>1. toApp \in Seq(Message)
      BY DEF IInv, TypeOK
    <3>2. toApp' = toApp \/ toApp' = Append(toApp, Ack(Head(toCar).register))
      BY <1>3 DEF CarReceives
    <3>3. QED
      BY <3>1, <3>2
  <2>3. ASSUME NEW i \in UsedSlots, CommandOnItsWay(updates[i])
        PROVE  CommandOnItsWay(updates[i])' \/ AckOnItsWay(updates[i].register)'
    <3>1. PICK n \in DOMAIN toCar : toCar[n] =
            [register |-> updates[i].register, value |-> updates[i].value, xor |-> carXOR]
      BY <2>3 DEF CommandOnItsWay
    <3>2. CASE n = 1
      <4>1. toApp' = Append(toApp, Ack(updates[i].register))
        BY <1>3, <2>1, <3>1, <3>2 DEF CarReceives
      <4>2. Len(toApp') \in DOMAIN toApp' /\ toApp'[Len(toApp')] = Ack(updates[i].register)
        BY <4>1 DEF IInv, TypeOK
      <4>3. QED
        BY <1>2, <4>2 DEF AckOnItsWay
    <3>3. CASE n # 1
      <4>1. n - 1 \in DOMAIN toCar' /\ toCar'[n - 1] = toCar[n]
        BY <2>1, <3>3
      <4>2. QED
        BY <1>2, <2>1, <3>1, <4>1 DEF CommandOnItsWay
    <3>4. QED
      BY <3>2, <3>3
  <2>4. ASSUME NEW r \in Registers, Missed(r)
        PROVE  Missed(r)' \/ AckOnItsWay(r)'
    <3>1. CASE Missed(r)'
      BY <3>1
    <3>2. CASE ~Missed(r)'
      <4>1. toApp' = Append(toApp, Ack(r))
        BY <1>3, <2>4, <3>2 DEF CarReceives, Missed
      <4>2. Len(toApp') \in DOMAIN toApp' /\ toApp'[Len(toApp')] = Ack(r)
        BY <4>1 DEF IInv, TypeOK
      <4>3. QED
        BY <4>2 DEF AckOnItsWay
    <3>3. QED
      BY <3>1, <3>2
  <2>5. \A i \in UsedSlots : updates[i].register \in Registers
    BY DEF IInv, TypeOK, UsedSlots, Update
  <2>6. QED
    BY <1>1, <1>2, <2>1, <2>2, <2>3, <2>4, <2>5 DEF PendingCovered, Covered, AckOnItsWay, KeyOnItsWay
<1>4. CASE CarAnnouncesKey \/ CarChangesKey
  <2>1. KeyOnItsWay'
    BY <1>4, KeyAnnounce DEF CarAnnouncesKey, CarChangesKey, IInv
  <2>2. QED
    BY <2>1 DEF PendingCovered, Covered
<1>5. CASE CarSendsCC
  <2>1. \A n \in DOMAIN toApp : n \in DOMAIN toApp' /\ toApp'[n] = toApp[n]
    BY <1>5 DEF CarSendsCC, IInv, TypeOK
  <2>2. QED
    BY <1>1, <1>2, <1>5, <2>1 DEF CarSendsCC, PendingCovered, Covered, CommandOnItsWay,
       AckOnItsWay, KeyOnItsWay, Missed, missed
<1>6. CASE DisconnectOutput \/ LinkLost
  BY <1>6 DEF DisconnectOutput, LinkLost, NewConnection, PendingCovered, Covered
<1>7. QED
  BY <1>3, <1>4, <1>5, <1>6 DEF Environment

(* Nor does any step of a delivery.                                        *)
LEMMA CoveredLibrary == CInv /\ Library => PendingCovered'
<1> SUFFICES ASSUME CInv, Library, NEW i \in UsedSlots' PROVE Covered(i)'
  BY DEF PendingCovered
<1> USE DEF CInv
<1>1. /\ i \in UsedSlots /\ updates'[i] = updates[i] /\ updates[i] \in Update /\ i \in Slots
      /\ Covered(i) /\ UNCHANGED <<eventHandler, eventHandlers, carXOR, keyed>>
  <2>1. UNCHANGED <<handlers, carXOR, keyed>>
    BY DEF Library, Receive, ReadDropped, SkipNull, CallUser, UserReturns, NothingPending, ScanTable, Resend,
       CallCallback, CallbackReturns, ClearSilently, EndScan, EndDelivery, link
  <2>2. UNCHANGED table \/ \E j \in Slots : Clear(j)
    BY DEF Library, Receive, ReadDropped, SkipNull, CallUser, UserReturns, NothingPending, ScanTable, Resend,
       CallCallback, CallbackReturns, ClearSilently, EndScan, EndDelivery, IInv, DeliveryInv
  <2>3. i \in UsedSlots /\ updates'[i] = updates[i]
    BY <2>2 DEF UsedSlots, Clear, table, IInv, TypeOK
  <2>4. QED
    BY <2>1, <2>3 DEF PendingCovered, UsedSlots, IInv, TypeOK, handlers
<1>2. ASSUME UNCHANGED <<toCar, toApp, missed>>, VisitAhead(i) => VisitAhead(i)'
      PROVE  Covered(i)'
  BY <1>1, <1>2 DEF Covered, CommandOnItsWay, AckOnItsWay, KeyOnItsWay, Missed, missed
<1>3. CASE Receive
  <2>1. /\ toApp \in Seq(Message) /\ toApp # << >> /\ toApp' = Tail(toApp) /\ toCar' = toCar
        /\ ~VisitAhead(i) /\ UNCHANGED <<keyMissed, acksMissed>>
    BY <1>3 DEF Receive, IInv, TypeOK, VisitAhead, missed
  <2>2. PICK h \in 0 .. eventHandlers - 1 : eventHandler[h] = "update"
    BY <1>1 DEF IInv, HandlerInv
  <2>3. phase' = "dispatch" /\ event' = toApp[1] /\ handlerIndex' = 0
    BY <1>3, <2>1, <2>2 DEF Receive, IInv, TypeOK
  <2>4. CASE toApp[1].type = "ack" => toApp[1].register = updates[i].register
    <3>1. VisitAhead(i)'
      BY <1>1, <2>2, <2>3, <2>4 DEF VisitAhead, HandlersAhead
    <3>2. QED
      BY <3>1 DEF Covered
  <2>5. CASE toApp[1].type = "ack" /\ toApp[1].register # updates[i].register
    <3>1. \A n \in DOMAIN toApp : n # 1 => n - 1 \in DOMAIN toApp' /\ toApp'[n - 1] = toApp[n]
      BY <2>1
    <3>2. AckOnItsWay(updates[i].register) => AckOnItsWay(updates[i].register)'
      BY <1>1, <2>5, <3>1 DEF AckOnItsWay, Ack
    <3>3. KeyOnItsWay => KeyOnItsWay'
      BY <2>5, <3>1 DEF KeyOnItsWay
    <3>4. QED
      BY <1>1, <2>1, <3>2, <3>3 DEF Covered, CommandOnItsWay, Missed
  <2>6. QED
    BY <2>4, <2>5
<1>4. CASE SkipNull \/ CallUser \/ UserReturns \/ NothingPending
  <2>1. UNCHANGED <<toCar, toApp, missed>>
    BY <1>4 DEF SkipNull, CallUser, UserReturns, NothingPending, link
  <2>2. VisitAhead(i) => VisitAhead(i)'
    <3>1. CASE SkipNull \/ CallUser
      BY <1>1, <3>1 DEF SkipNull, CallUser, Dispatch, VisitAhead, HandlersAhead, IInv, TypeOK
    <3>2. CASE UserReturns
      BY <1>1, <3>2 DEF UserReturns, NextHandler, VisitAhead, HandlersAhead
    <3>3. CASE NothingPending
      <4>1. IsFiniteSet(UsedSlots) /\ Cardinality(UsedSlots) = 0
        BY <3>3, SlotsFinite DEF NothingPending, IInv, CountMatchesSlots, UsedSlots
      <4>2. QED
        BY <1>1, <4>1, FS_EmptySet
    <3>4. QED
      BY <1>4, <3>1, <3>2, <3>3
  <2>3. QED
    BY <1>2, <2>1, <2>2
<1>5. CASE ScanTable \/ EndScan \/ EndDelivery \/ CallCallback
  <2>1. UNCHANGED <<toCar, toApp, missed>>
    BY <1>5 DEF ScanTable, EndScan, EndDelivery, CallCallback, link
  <2>2. VisitAhead(i) => VisitAhead(i)'
    <3>1. CASE ScanTable
      BY <1>1, <3>1 DEF ScanTable, Dispatch, VisitAhead, HandlersAhead, Slots
    <3>2. CASE EndScan
      BY <1>1, <3>2 DEF EndScan, NextHandler, Matches, VisitAhead, HandlersAhead, UsedSlots
    <3>3. CASE EndDelivery
      BY <1>1, <3>3 DEF EndDelivery, VisitAhead, HandlersAhead, IInv, TypeOK
    <3>4. CASE CallCallback
      BY <1>1, <3>4 DEF CallCallback, ScanReaches, Matches, VisitAhead, HandlersAhead, UsedSlots,
         Slots, IInv, TypeOK
    <3>5. QED
      BY <1>5, <3>1, <3>2, <3>3, <3>4
  <2>3. QED
    BY <1>2, <2>1, <2>2
<1>6. CASE CallbackReturns \/ ClearSilently
  <2>1. PICK j \in Slots : /\ Clear(j) /\ slotIndex' = j + 1 /\ slotIndex <= j
                          /\ \A k \in slotIndex .. j - 1 : ~Matches(k)
    BY <1>6 DEF CallbackReturns, ClearSilently, ScanReaches, IInv, DeliveryInv, TypeOK, Slots
  <2>2. /\ i # j /\ event' = event /\ event.type = "ack" /\ handlerIndex' = handlerIndex
        /\ phase \in {"scan", "callback"} /\ phase' = "scan" /\ UNCHANGED <<toCar, toApp, missed>>
    BY <1>6, <2>1 DEF CallbackReturns, ClearSilently, ScanReaches, Clear, UsedSlots, IInv, TypeOK,
       DeliveryInv, link
  <2>3. VisitAhead(i) => VisitAhead(i)'
    BY <1>1, <2>1, <2>2 DEF VisitAhead, HandlersAhead, Matches, UsedSlots, Slots, IInv, TypeOK
  <2>4. QED
    BY <1>2, <2>2, <2>3
<1>7. CASE Resend
  <2>1. PICK j \in Slots : ScanReaches(j) /\ slotIndex' = j + 1 /\ Send(updates[j])
    BY <1>7 DEF Resend
  <2>2. /\ event' = event /\ event.type # "ack" /\ phase' = "scan" /\ handlerIndex' = handlerIndex
        /\ UNCHANGED <<toApp, commandXOR, keyMissed, acksMissed>> /\ updates[j] \in Update
    BY <1>7, <2>1 DEF Resend, ScanReaches, Matches, IInv, TypeOK, missed
  <2>3. CASE i = j
    <3>1. commandXOR = carXOR => CommandOnItsWay(updates[i])'
      BY <1>1, <2>1, <2>2, <2>3, SendCovers DEF IInv, CommandOnItsWay
    <3>2. QED
      BY <1>1, <2>2, <3>1 DEF KeyInv, KeyAgreement, KeyOnItsWay, Covered, Missed
  <2>4. CASE i # j
    <3>1. CommandOnItsWay(updates[i]) => CommandOnItsWay(updates[i])'
      BY <1>1, <2>1, <2>2, SendCovers DEF IInv, CommandOnItsWay
    <3>2. VisitAhead(i) => VisitAhead(i)'
      BY <1>1, <2>1, <2>2, <2>4
      DEF VisitAhead, HandlersAhead, ScanReaches, Matches, UsedSlots, Slots, IInv, TypeOK
    <3>3. QED
      BY <1>1, <2>2, <3>1, <3>2 DEF Covered, AckOnItsWay, KeyOnItsWay, Missed
  <2>5. QED
    BY <2>3, <2>4
<1>8. CASE ReadDropped
  <2>1. /\ phase = "idle" /\ toCar' = toCar
        /\ keyMissed' = (keyMissed \/ (KeyOnItsWay /\ ~KeyOnItsWay'))
        /\ acksMissed' = acksMissed \cup
              {r \in Registers : AckOnItsWay(r) /\ ~AckOnItsWay(r)' /\ ~KeyOnItsWay'}
    BY <1>8 DEF ReadDropped
  <2>2. /\ ~VisitAhead(i) /\ updates[i].register \in Registers
        /\ CommandOnItsWay(updates[i]) => CommandOnItsWay(updates[i])'
    BY <1>1, <2>1 DEF VisitAhead, CommandOnItsWay, Update
  <2>3. AckOnItsWay(updates[i].register) =>
           AckOnItsWay(updates[i].register)' \/ KeyOnItsWay' \/ Missed(updates[i].register)'
    BY <1>1, <2>1, <2>2 DEF Missed
  <2>4. QED
    BY <1>1, <2>1, <2>2, <2>3 DEF Covered, Missed
<1>9. QED
  BY <1>3, <1>4, <1>5, <1>6, <1>7, <1>8 DEF Library

(* Whatever the car and the application do, an update on a connection with *)
(* a key stays within reach of the car until it is acknowledged, but for   *)
(* one thing: that a read is dropped with the key or the acknowledgement,  *)
(* and the car has sent no other since.                                    *)
THEOREM NothingForgotten == Spec => []PendingCovered
<1>1. Init => PendingCovered
  BY DEF Init, PendingCovered, UsedSlots
<1>2. CInv /\ [Next]_vars => PendingCovered'
  <2> SUFFICES ASSUME CInv, [Next]_vars PROVE PendingCovered'
    OBVIOUS
  <2>1. CASE UNCHANGED vars
    BY <2>1 DEF CInv, vars, table, handlers, delivery, link, missed, PendingCovered, Covered, Missed,
       UsedSlots,
       CommandOnItsWay, AckOnItsWay, VisitAhead, HandlersAhead, KeyOnItsWay
  <2>2. QED
    BY <2>1, CoveredApplication, CoveredLibrary, CoveredEnvironment DEF Next
<1>3. IInv /\ KeyInv /\ PendingCovered => CInv
  BY DEF CInv
<1>4. IInv => TypeOK
  BY DEF IInv
<1>5. QED
  BY <1>1, <1>2, <1>3, <1>4, KeyInit, KeyNext, InductiveInvariant, PTL DEF Spec

-----------------------------------------------------------------------------
(* What is left of a delivery.                                             *)

(* The entries of eventHandler the walk can still reach, however many are  *)
(* added meanwhile.                                                        *)
HandlersLeft == MaxEventHandlers - handlerIndex

(* What the entry it stands at can still take: a scan stops at a slot at   *)
(* most once, and once more where a callback returns.                      *)
EntryLeft ==
    CASE phase = "dispatch" -> 2 * MaxUpdateCallbacks + 2
      [] phase = "scan" -> 2 * (MaxUpdateCallbacks - slotIndex) + 1
      [] phase = "callback" -> 2 * (MaxUpdateCallbacks - slotIndex)
      [] OTHER -> 0

EndNearer ==
    \/ HandlersLeft' < HandlersLeft
    \/ HandlersLeft' = HandlersLeft /\ EntryLeft' < EntryLeft

(* Each step of a delivery ends it or brings its end nearer; no update, no *)
(* handler and no message that arrives meanwhile puts the end off.         *)
DeliveryAdvances ==
    [][IF Library
       THEN \/ phase = "idle"
            \/ phase' = "idle"
            \/ HandlersLeft' \in Nat /\ EntryLeft' \in Nat /\ EndNearer
       ELSE UNCHANGED <<HandlersLeft, EntryLeft>>]_vars

LEMMA LeftTypes == IInv => HandlersLeft \in Nat /\ EntryLeft \in Nat
<1> SUFFICES ASSUME IInv PROVE HandlersLeft \in Nat /\ EntryLeft \in Nat
  OBVIOUS
<1>1. /\ handlerIndex \in 0 .. MaxEventHandlers /\ MaxEventHandlers \in Nat
      /\ slotIndex \in 0 .. MaxUpdateCallbacks /\ MaxUpdateCallbacks \in Nat
  BY SizesAssumption DEF IInv, TypeOK
<1>2. MaxUpdateCallbacks - slotIndex \in Nat
  BY <1>1
<1>3. QED
  BY <1>1, <1>2 DEF HandlersLeft, EntryLeft

(* The walk goes on to the next entry: one fewer is left.                  *)
LEMMA NextIsNearer ==
    ASSUME IInv, handlerIndex' = handlerIndex + 1
    PROVE  EndNearer
<1>1. handlerIndex \in Nat /\ MaxEventHandlers \in Nat
  BY SizesAssumption DEF IInv, TypeOK
<1>2. QED
  BY <1>1 DEF EndNearer, HandlersLeft

(* An entry is entered: its scan begins at slot 0.                         *)
LEMMA CallIsNearer ==
    ASSUME CallUser \/ ScanTable
    PROVE  EndNearer
<1>1. MaxUpdateCallbacks \in Nat
  BY SizesAssumption
<1>2. phase = "dispatch" /\ handlerIndex' = handlerIndex
  BY DEF CallUser, ScanTable, Dispatch
<1>3. EntryLeft = 2 * MaxUpdateCallbacks + 2
  BY <1>2 DEF EntryLeft
<1>4. phase' = "user" \/ (phase' = "scan" /\ slotIndex' = 0)
  BY DEF CallUser, ScanTable, Dispatch
<1>5. EntryLeft' \in {0, 2 * MaxUpdateCallbacks + 1}
  BY <1>1, <1>4 DEF EntryLeft
<1>6. QED
  BY <1>1, <1>2, <1>3, <1>5 DEF EndNearer, HandlersLeft

(* A scan never goes back to a slot, and a callback returns to the next.   *)
LEMMA ScanIsNearer ==
    ASSUME IInv, Resend \/ CallCallback \/ CallbackReturns \/ ClearSilently
    PROVE  EndNearer
<1>1. slotIndex \in 0 .. MaxUpdateCallbacks /\ MaxUpdateCallbacks \in Nat
  BY SizesAssumption DEF IInv, TypeOK
<1>2. handlerIndex' = handlerIndex
  BY DEF Resend, CallCallback, CallbackReturns, ClearSilently
<1>3. CASE Resend \/ ClearSilently
  <2>1. PICK i \in Slots : phase = "scan" /\ i >= slotIndex /\ slotIndex' = i + 1
    BY <1>3 DEF Resend, ClearSilently, ScanReaches
  <2>2. phase' = "scan"
    BY <1>3, <2>1 DEF Resend, ClearSilently
  <2>3. /\ EntryLeft = 2 * (MaxUpdateCallbacks - slotIndex) + 1
        /\ EntryLeft' = 2 * (MaxUpdateCallbacks - (i + 1)) + 1
    BY <2>1, <2>2 DEF EntryLeft
  <2>4. QED
    BY <1>1, <1>2, <2>1, <2>3 DEF EndNearer, HandlersLeft, Slots
<1>4. CASE CallCallback
  <2>1. PICK i \in Slots : phase = "scan" /\ i >= slotIndex /\ slotIndex' = i
    BY <1>4 DEF CallCallback, ScanReaches
  <2>2. phase' = "callback"
    BY <1>4 DEF CallCallback
  <2>3. /\ EntryLeft = 2 * (MaxUpdateCallbacks - slotIndex) + 1
        /\ EntryLeft' = 2 * (MaxUpdateCallbacks - i)
    BY <2>1, <2>2 DEF EntryLeft
  <2>4. QED
    BY <1>1, <1>2, <2>1, <2>3 DEF EndNearer, HandlersLeft, Slots
<1>5. CASE CallbackReturns
  <2>1. phase = "callback" /\ phase' = "scan" /\ slotIndex' = slotIndex + 1
    BY <1>5 DEF CallbackReturns
  <2>2. /\ EntryLeft = 2 * (MaxUpdateCallbacks - slotIndex)
        /\ EntryLeft' = 2 * (MaxUpdateCallbacks - (slotIndex + 1)) + 1
    BY <2>1 DEF EntryLeft
  <2>3. QED
    BY <1>1, <1>2, <2>2 DEF EndNearer, HandlersLeft
<1>6. QED
  BY <1>3, <1>4, <1>5

(* What is no step of the library leaves the walk where it stands.         *)
LEMMA OthersKeepWalk ==
    ASSUME [Next]_vars, ~Library
    PROVE  UNCHANGED <<HandlersLeft, EntryLeft>>
<1>1. UNCHANGED <<phase, handlerIndex, slotIndex>>
  <2>1. CASE RegisterEventHandler \/ DeregisterEventHandler
    BY <2>1 DEF RegisterEventHandler, DeregisterEventHandler, delivery
  <2>2. CASE \E u \in Update : UpdateRegister(u)
    BY <2>2 DEF UpdateRegister, delivery
  <2>3. CASE CarReceives \/ CarAnnouncesKey \/ CarChangesKey \/ CarSendsCC
    BY <2>3 DEF CarReceives, CarAnnouncesKey, CarChangesKey, Announce, CarSendsCC, delivery
  <2>4. CASE DisconnectOutput \/ LinkLost
    BY <2>4 DEF DisconnectOutput, LinkLost, NewConnection, delivery
  <2>5. CASE UpdateRegisterTableFull \/ UNCHANGED vars
    BY <2>5 DEF UpdateRegisterTableFull, vars, delivery
  <2>6. QED
    BY <2>1, <2>2, <2>3, <2>4, <2>5 DEF Next, Application, Environment
<1>2. QED
  BY <1>1 DEF HandlersLeft, EntryLeft

(* phev_pipe_sendEventToHandlers comes to its end: the steps one delivery  *)
(* can still take are bounded by the sizes of the two tables, although the *)
(* handlers and callbacks it calls add to both.  With the fairness of the  *)
(* library this is what DeliveryEnds rests on.                             *)
THEOREM DeliveriesEnd == Spec => DeliveryAdvances
<1>1. ASSUME IInv, (HandlersLeft \in Nat /\ EntryLeft \in Nat)', [Next]_vars
      PROVE  [IF Library
              THEN \/ phase = "idle"
                   \/ phase' = "idle"
                   \/ HandlersLeft' \in Nat /\ EntryLeft' \in Nat /\ EndNearer
              ELSE UNCHANGED <<HandlersLeft, EntryLeft>>]_vars
  <2>1. ASSUME Library
        PROVE  phase = "idle" \/ phase' = "idle" \/ EndNearer
    <3>1. CASE Receive \/ ReadDropped \/ EndDelivery
      BY <3>1 DEF Receive, ReadDropped, EndDelivery
    <3>2. CASE SkipNull \/ UserReturns \/ NothingPending \/ EndScan
      BY <1>1, <3>2, NextIsNearer DEF SkipNull, UserReturns, NothingPending, EndScan, NextHandler
    <3>3. QED
      BY <1>1, <2>1, <3>1, <3>2, CallIsNearer, ScanIsNearer DEF Library
  <2>2. ASSUME ~Library PROVE UNCHANGED <<HandlersLeft, EntryLeft>>
    BY <1>1, <2>2, OthersKeepWalk
  <2>3. QED
    BY <1>1, <2>1, <2>2
<1>2. QED
  BY <1>1, LeftTypes, InductiveInvariant, PTL DEF Spec, DeliveryAdvances

=============================================================================
