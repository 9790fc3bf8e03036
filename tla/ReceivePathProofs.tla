--------------------------- MODULE ReceivePathProofs ---------------------------
(***************************************************************************)
(* Proofs about the output chain: what the model, the event handlers, the  *)
(* car and the input client learn of the messages, for any registers,      *)
(* values, keys, reads and disruptions.                                    *)
(***************************************************************************)
EXTENDS ReceivePath, FiniteSetTheorems, WellFoundedInduction, TLAPS

-----------------------------------------------------------------------------
(* Messages and values.                                                    *)

LEMMA MessageFields ==
    ASSUME NEW m \in Message
    PROVE  /\ m.id \in Ids /\ m.xor \in Key
           /\ m.command = "notify" => m.register \in Registers /\ m.data \in Data
           /\ m.command \in {"bb", "cc"} => m.key \in Key
<1>1. CASE \E r \in Registers, d \in Data, k \in Key, n \in Ids : m = Notify(r, d, k, n)
  BY <1>1 DEF Notify
<1>2. CASE \E r \in Registers, k \in Key, n \in Ids : m = UpdateAck(r, k, n)
  BY <1>2 DEF UpdateAck
<1>3. CASE \E n \in Ids : m = Start(n)
  BY <1>3 DEF Start, NoXOR, Key
<1>4. CASE \E c \in {"bb", "cc"}, new \in Key, k \in Key, n \in Ids : m = NewKey(c, new, k, n)
  BY <1>4 DEF NewKey
<1>5. QED
  BY <1>1, <1>2, <1>3, <1>4 DEF Message

LEMMA XORType == \A a, b \in Key : XOR(a, b) \in Key
  BY DEF XOR, Key

(* A nonempty set of positions has a last one.                             *)
LEMMA LastPosition ==
    ASSUME NEW n \in Nat, NEW S \in SUBSET (1 .. n), S # {}
    PROVE  Max(S) \in S
<1> DEFINE R == OpToRel(<, Nat)
           T == {n - i : i \in S}
<1>1. T \subseteq Nat /\ T # {}
  <2>1. PICK i \in S : TRUE
    OBVIOUS
  <2>2. n - i \in T
    BY <2>1
  <2>3. ASSUME NEW j \in S PROVE n - j \in Nat
    <3>1. j \in 1 .. n
      OBVIOUS
    <3>2. QED
      BY <3>1
  <2>4. QED
    BY <2>2, <2>3
<1>2. PICK x \in T : \A y \in T : <<y, x>> \notin R
  BY <1>1, NatLessThanWellFounded, WFMin
<1>3. PICK i \in S : x = n - i
  OBVIOUS
<1>4. ASSUME NEW j \in S PROVE i >= j
  <2>1. <<n - j, x>> \notin R /\ n - j \in Nat /\ x \in Nat
    BY <1>1, <1>2
  <2>2. ~(n - j < x)
    BY <2>1 DEF OpToRel
  <2>3. QED
    BY <1>3, <2>2
<1>5. QED
  BY <1>3, <1>4 DEF Max

LEMMA LastXORType ==
    ASSUME NEW s \in Seq(Message), currentXOR \in Key
    PROVE  LastXOR(s) \in Key
<1> DEFINE encoded == {i \in DOMAIN s : s[i].xor # NoXOR}
<1>1. CASE encoded = {}
  BY <1>1 DEF LastXOR
<1>2. CASE encoded # {}
  <2>1. Max(encoded) \in 1 .. Len(s)
    <3>1. encoded \in SUBSET (1 .. Len(s)) /\ Len(s) \in Nat
      OBVIOUS
    <3>2. Max(encoded) \in encoded
      BY <1>2, <3>1, LastPosition
    <3>3. QED
      BY <3>1, <3>2
  <2>2. s[Max(encoded)] \in Message
    BY <2>1
  <2>3. QED
    BY <1>2, <2>2, MessageFields DEF LastXOR
<1>3. QED
  BY <1>1, <1>2

-----------------------------------------------------------------------------
(* Types.                                                                  *)

LEMMA InitType == Init => TypeOK
<1> SUFFICES ASSUME Init PROVE TypeOK
  OBVIOUS
<1>1. NoXOR \in Key /\ NoXOR = {}
  BY DEF NoXOR, Key
<1>2. [id |-> 0, data |-> << >>] \in [id : 0 .. MaxMessages, data : Data]
  <2>1. << >> \in [1 .. 0 -> Bytes] /\ 0 \in 0 .. MaxLength
    BY SizesAssumption DEF SizesAssumption
  <2>2. << >> \in Data
    BY <2>1 DEF Data
  <2>3. QED
    BY <2>2, SizesAssumption DEF SizesAssumption
<1>3. {out, reports} \subseteq Seq(Ids)
  BY DEF Init
<1>4. {currentXOR, commandXOR, pingXOR, carXOR} \subseteq Key
  BY <1>1 DEF Init
<1>5. {encrypt, registerDevice, connected, up} \subseteq BOOLEAN /\ torn \in BOOLEAN
  BY DEF Init
<1>6. disruptions \in 0 .. MaxDisruptions /\ messages \in 0 .. MaxMessages
  BY SizesAssumption DEF SizesAssumption, Init
<1>7. QED
  BY <1>2, <1>3, <1>4, <1>5, <1>6 DEF Init, TypeOK

(* The head of the chunk is a message wherever the chain has one.          *)
LEMMA HeadType == ASSUME TypeOK, phase # "idle" PROVE message \in Message /\ message.id \in Ids
<1>1. message \in Message
  BY DEF TypeOK, message
<1>2. QED
  BY <1>1, MessageFields

LEMMA SendType ==
    ASSUME TypeOK, NEW m \in Message, CarSends(m), carXOR' \in Key,
           sent' \in [Registers -> [id : 0 .. MaxMessages, data : Data]]
    PROVE  TypeOK'
<1>1. messages' \in 0 .. MaxMessages
  BY SizesAssumption DEF SizesAssumption, CarSends, TypeOK
<1>2. toApp' \in Seq(Message)
  BY DEF CarSends, TypeOK
<1>3. QED
  BY <1>1, <1>2 DEF CarSends, TypeOK, chain, keys, history, reporting

LEMMA NextId == ASSUME TypeOK, messages < MaxMessages PROVE messages + 1 \in Ids
  BY SizesAssumption DEF SizesAssumption, TypeOK, Ids

LEMMA TypeStep == ASSUME TypeOK, [Next]_vars PROVE TypeOK'
<1>1. CASE Read
  <2>1. PICK n \in 0 .. Len(toApp) : /\ chunk' = Split(n)
                                     /\ toApp' = SubSeq(toApp, n + 1, Len(toApp))
                                     /\ torn' \in BOOLEAN
    BY <1>1 DEF Read
  <2>2. chunk' \in Seq(Message) /\ toApp' \in Seq(Message)
    BY <2>1 DEF Split, TypeOK
  <2>3. currentXOR' \in Key
    BY <1>1, <2>2, LastXORType DEF Read, TypeOK
  <2>4. QED
    BY <1>1, <2>1, <2>2, <2>3 DEF Read, TypeOK, history, reporting, car
<1>2. CASE ReadFull
  <2>1. PICK n \in 0 .. Len(toApp) : /\ toApp' = SubSeq(toApp, n + 1, Len(toApp))
                                     /\ torn' \in BOOLEAN
    BY <1>2 DEF ReadFull
  <2>2. toApp' \in Seq(Message)
    BY <2>1 DEF TypeOK
  <2>3. QED
    BY <1>2, <2>1, <2>2 DEF ReadFull, TypeOK, chain, keys, history, reporting, car
<1>3. CASE ReadError
  BY <1>3 DEF ReadError, TypeOK, chain, keys, history, reporting, car
<1>4. CASE Transform
  <2>1. message.xor \in Key /\ (message.command \in {"bb", "cc"} => message.key \in Key)
    BY <1>4, HeadType, MessageFields DEF Transform
  <2>2. currentXOR' \in Key /\ commandXOR' \in Key /\ pingXOR' \in Key
    BY <1>4, <2>1 DEF Transform, TypeOK
  <2>3. QED
    BY <1>4, <2>2 DEF Transform, TypeOK, link, history, reporting, car
<1>5. CASE PassOther
  <2>1. message.id \in Ids
    BY <1>5, HeadType DEF PassOther
  <2>2. QED
    BY <1>5, <2>1 DEF PassOther, TypeOK, keys, link, reporting, car
<1>6. CASE StoreChanged
  <2>1. message.id \in Ids /\ message.register \in Registers /\ message.data \in Data
    BY <1>6, HeadType, MessageFields DEF StoreChanged
  <2>2. model' \in [Registers -> Data \cup {Unset}]
    BY <1>6, <2>1 DEF StoreChanged, TypeOK
  <2>3. QED
    BY <1>6, <2>1, <2>2 DEF StoreChanged, TypeOK, keys, link, reporting, car
<1>7. CASE DropSame
  <2>1. message.id \in Ids
    BY <1>7, HeadType DEF DropSame
  <2>2. QED
    BY <1>7, <2>1 DEF DropSame, TypeOK, keys, link, reporting, car
<1>8. CASE NoResponse
  BY <1>8 DEF NoResponse, TypeOK, keys, link, history, reporting, car
<1>9. CASE WriteResponse
  <2>1. message.id \in Ids /\ message.xor \in Key
    BY <1>9, HeadType, MessageFields DEF WriteResponse, Respond
  <2>2. ResponseXOR \in Key
    BY <2>1, XORType DEF ResponseXOR, TypeOK
  <2>3. answers' \subseteq [id : Ids, xor : Key, wire : Key]
    BY <1>9, <2>1, <2>2 DEF WriteResponse, TypeOK
  <2>4. encrypt' \in BOOLEAN
    BY <1>9 DEF WriteResponse, Respond, TypeOK
  <2>5. QED
    BY <1>9, <2>3, <2>4 DEF WriteResponse, Respond, TypeOK, keys, reporting, car
<1>10. CASE ResponseNotWritten
  <2>1. message.id \in Ids
    BY <1>10, HeadType DEF ResponseNotWritten, Respond
  <2>2. encrypt' \in BOOLEAN
    BY <1>10 DEF ResponseNotWritten, Respond, TypeOK
  <2>3. QED
    BY <1>10, <2>1, <2>2 DEF ResponseNotWritten, Respond, TypeOK, keys, reporting, car
<1>11. CASE SendEvent
  <2>1. message.command = "notify" => message.register \in Registers /\ message.data \in Data
    BY <1>11, HeadType, MessageFields DEF SendEvent
  <2>2. seen' \in [Registers -> Data \cup {Unset}]
    BY <1>11, <2>1 DEF SendEvent, TypeOK
  <2>3. QED
    BY <1>11, <2>2 DEF SendEvent, TypeOK, keys, link, history, reporting, car
<1>12. CASE HandlersReturn \/ EndOfChunk
  <2>1. message.id \in Ids /\ JsonOutput \in Seq(Ids)
    <3>1. message.id \in Ids
      BY <1>12, HeadType DEF HandlersReturn, EndOfChunk
    <3>2. QED
      BY <3>1 DEF JsonOutput, TypeOK
  <2>2. CASE HandlersReturn
    <3>1. chunk' \in Seq(Message) /\ chunk' # << >>
      BY <2>2 DEF HandlersReturn, TypeOK
    <3>2. QED
      BY <2>1, <2>2, <3>1 DEF HandlersReturn, TypeOK, keys, link, history, car
  <2>3. CASE EndOfChunk
    <3>1. reports' \in Seq(Ids)
      BY <2>1, <2>3 DEF EndOfChunk, TypeOK
    <3>2. out' \in Seq(Ids)
      BY <2>3 DEF EndOfChunk
    <3>3. QED
      BY <2>3, <3>1, <3>2 DEF EndOfChunk, TypeOK, keys, link, history, car
  <2>4. QED
    BY <1>12, <2>2, <2>3
<1>13. CASE DisconnectOutput \/ LinkLost
  <2>1. disruptions' \in 0 .. MaxDisruptions
    BY <1>13, SizesAssumption DEF SizesAssumption, DisconnectOutput, LinkLost, TypeOK
  <2>2. {currentXOR, commandXOR, pingXOR, carXOR}' \subseteq Key
    <3>1. NoXOR \in Key
      BY DEF NoXOR, Key
    <3>2. QED
      BY <1>13, <3>1 DEF DisconnectOutput, LinkLost, TypeOK, keys
  <2>3. {encrypt, registerDevice, connected, up}' \subseteq BOOLEAN /\ torn' \in BOOLEAN
    BY <1>13 DEF DisconnectOutput, LinkLost, TypeOK
  <2>4. toApp' \in Seq(Message)
    <3>1. toApp' = << >> \/ toApp' = toApp
      BY <1>13 DEF DisconnectOutput, LinkLost
    <3>2. << >> \in Seq(Message) /\ toApp \in Seq(Message)
      BY DEF TypeOK
    <3>3. QED
      BY <3>1, <3>2
  <2>5. UNCHANGED <<chunk, phase, model, seen, sent, messages, handled, unsent, stored,
                    answers, out, reports>>
    BY <1>13 DEF DisconnectOutput, LinkLost, chain, history, reporting, car
  <2>6. QED
    BY <2>1, <2>2, <2>3, <2>4, <2>5 DEF TypeOK
<1>14. CASE Reconnect
  <2>1. NoXOR \in Key
    BY DEF NoXOR, Key
  <2>2. QED
    BY <1>14, <2>1 DEF Reconnect, TypeOK, chain, keys, history, reporting, car
<1>15. CASE CarNotifies
  <2>1. PICK r \in Registers, d \in Data :
            /\ CarSends(Notify(r, d, carXOR, messages + 1))
            /\ sent' = [sent EXCEPT ![r] = [id |-> messages + 1, data |-> d]]
    BY <1>15 DEF CarNotifies
  <2>2. messages + 1 \in Ids /\ messages + 1 \in 0 .. MaxMessages
    BY <2>1, NextId DEF CarSends, Ids
  <2>3. Notify(r, d, carXOR, messages + 1) \in Message
    BY <2>2 DEF Message, TypeOK
  <2>4. sent' \in [Registers -> [id : 0 .. MaxMessages, data : Data]]
    BY <2>1, <2>2 DEF TypeOK
  <2>5. carXOR' \in Key
    BY <1>15 DEF CarNotifies, TypeOK
  <2>6. QED
    BY <2>1, <2>3, <2>4, <2>5, SendType
<1>16. CASE CarSendsOther \/ CarAnnouncesKey
  <2>1. PICK m : /\ CarSends(m)
                 /\ \/ \E r \in Registers : m = UpdateAck(r, carXOR, messages + 1)
                    \/ m = Start(messages + 1)
                    \/ \E c \in {"bb", "cc"}, k \in Key : m = NewKey(c, k, carXOR, messages + 1)
    BY <1>16 DEF CarSendsOther, CarAnnouncesKey
  <2>2. messages + 1 \in Ids
    BY <2>1, NextId DEF CarSends
  <2>3. m \in Message
    BY <2>1, <2>2 DEF Message, TypeOK
  <2>4. carXOR' \in Key /\ sent' = sent
    BY <1>16 DEF CarSendsOther, CarAnnouncesKey, TypeOK
  <2>5. QED
    BY <2>1, <2>3, <2>4, SendType DEF TypeOK
<1>17. CASE ReadNothing \/ UNCHANGED vars
  BY <1>17 DEF ReadNothing, TypeOK, vars, chain, keys, link, history, reporting, car
<1>18. QED
  BY <1>1, <1>2, <1>3, <1>4, <1>5, <1>6, <1>7, <1>8, <1>9, <1>10, <1>11, <1>12, <1>13,
     <1>14, <1>15, <1>16, <1>17 DEF Next, Library, Environment

-----------------------------------------------------------------------------
(* The order of the messages.                                              *)

Increasing(s) == \A i, j \in 1 .. Len(s) : i < j => s[i].id < s[j].id
After(n, s) == \A i \in 1 .. Len(s) : n < s[i].id

(* The first message of the chunk is past the filter.                      *)
Filtered == phase \in {"filtered", "respond", "event", "application"}

(* What was handled comes before what is being processed, which comes      *)
(* before what is not read yet.                                            *)
OrderInv ==
    /\ Increasing(chunk) /\ Increasing(toApp)
    /\ \A i \in 1 .. Len(chunk) : chunk[i].id <= messages /\ After(chunk[i].id, toApp)
    /\ \A i \in 1 .. Len(toApp) : toApp[i].id <= messages
    /\ \A n \in handled : n <= messages /\ After(n, toApp)
    /\ \A n \in handled, i \in 1 .. Len(chunk) :
           n < chunk[i].id \/ (i = 1 /\ n = chunk[i].id /\ Filtered)
    /\ Filtered => message.id \in handled

LEMMA InitOrder == Init => OrderInv
  BY DEF Init, OrderInv, Increasing, After, Filtered

LEMMA QueueIds ==
    ASSUME TypeOK
    PROVE  /\ \A i \in 1 .. Len(chunk) : chunk[i].id \in Nat
           /\ \A i \in 1 .. Len(toApp) : toApp[i].id \in Nat
           /\ handled \subseteq Nat /\ messages \in Nat /\ chunk \in Seq(Message)
           /\ toApp \in Seq(Message)
<1>1. ASSUME NEW s \in Seq(Message), NEW i \in 1 .. Len(s) PROVE s[i].id \in Nat
  <2>1. s[i] \in Message
    OBVIOUS
  <2>2. QED
    BY <2>1, MessageFields DEF Ids
<1>2. chunk \in Seq(Message) /\ toApp \in Seq(Message)
  BY DEF TypeOK
<1>3. handled \subseteq Nat /\ messages \in Nat
  BY SizesAssumption DEF SizesAssumption, TypeOK, Ids
<1>4. QED
  BY <1>1, <1>2, <1>3

(* The message that is about to pass the filter comes after all handled.   *)
LEMMA HeadNew ==
    ASSUME TypeOK, OrderInv, phase = "filter"
    PROVE  message.id \in Nat /\ \A n \in handled : n < message.id
<1>1. 1 \in 1 .. Len(chunk) /\ message = chunk[1]
  BY QueueIds DEF TypeOK, message
<1>2. QED
  BY <1>1, QueueIds DEF OrderInv, Filtered

(* Steps that leave the queues as they are.                                *)
LEMMA QueuesKept ==
    ASSUME TypeOK, OrderInv, UNCHANGED <<chunk, toApp, messages>>,
           \/ UNCHANGED handled /\ (Filtered' <=> Filtered)
           \/ phase = "filter" /\ Filtered' /\ handled' = handled \cup {message.id}
    PROVE  OrderInv'
<1>1. CASE UNCHANGED handled /\ (Filtered' <=> Filtered)
  <2>1. message' = message
    BY DEF message
  <2>2. Increasing(chunk)' /\ Increasing(toApp)'
    BY DEF OrderInv, Increasing
  <2>3. QED
    BY <1>1, <2>1, <2>2 DEF OrderInv, After
<1>2. CASE phase = "filter" /\ Filtered' /\ handled' = handled \cup {message.id}
  <2>1. 1 \in 1 .. Len(chunk) /\ message = chunk[1] /\ message' = message
    BY <1>2, QueueIds DEF TypeOK, message
  <2>2. \A n \in handled' : n <= messages /\ After(n, toApp)
    BY <1>2, <2>1 DEF OrderInv
  <2>3. \A n \in handled', i \in 1 .. Len(chunk) : n < chunk[i].id \/ (i = 1 /\ n = chunk[i].id)
    <3>1. \A n \in handled, i \in 1 .. Len(chunk) : n < chunk[i].id
      BY <1>2 DEF OrderInv, Filtered
    <3>2. \A i \in 1 .. Len(chunk) : message.id < chunk[i].id \/ (i = 1 /\ message.id = chunk[i].id)
      BY <2>1, QueueIds DEF OrderInv, Increasing
    <3>3. QED
      BY <1>2, <3>1, <3>2
  <2>4. QED
    BY <1>2, <2>1, <2>2, <2>3 DEF OrderInv, Increasing, After
<1>3. QED
  BY <1>1, <1>2

(* Steps that take messages from the front of what is not read yet.        *)
LEMMA FrontTaken ==
    ASSUME TypeOK, OrderInv, phase = "idle", NEW n \in 0 .. Len(toApp),
           chunk' \in {<< >>, SubSeq(toApp, 1, n)},
           toApp' = SubSeq(toApp, n + 1, Len(toApp)),
           phase' \in {"idle", "transform"}, UNCHANGED <<messages, handled>>
    PROVE  OrderInv'
<1>1. chunk = << >> /\ ~Filtered'
  BY DEF TypeOK, Filtered
<1>2. Len(chunk') <= n /\ Len(chunk') \in Nat /\ \A i \in 1 .. Len(chunk') : chunk'[i] = toApp[i]
  BY QueueIds
<1>3. /\ Len(toApp') = Len(toApp) - n
      /\ \A i \in 1 .. Len(toApp') : i + n \in 1 .. Len(toApp) /\ toApp'[i] = toApp[i + n]
  BY QueueIds
<1>4. Increasing(chunk)'
  <2>1. ASSUME NEW i \in 1 .. Len(chunk'), NEW j \in 1 .. Len(chunk'), i < j
        PROVE  chunk'[i].id < chunk'[j].id
    <3>1. i \in 1 .. Len(toApp) /\ j \in 1 .. Len(toApp)
      BY <1>2, <2>1, QueueIds
    <3>2. toApp[i].id < toApp[j].id
      BY <2>1, <3>1 DEF OrderInv, Increasing
    <3>3. QED
      BY <1>2, <2>1, <3>2
  <2>2. QED
    BY <2>1 DEF Increasing
<1>5. Increasing(toApp)'
  <2>1. ASSUME NEW i \in 1 .. Len(toApp'), NEW j \in 1 .. Len(toApp'), i < j
        PROVE  toApp'[i].id < toApp'[j].id
    <3>1. i + n \in 1 .. Len(toApp) /\ j + n \in 1 .. Len(toApp) /\ i + n < j + n
      BY <1>3, <2>1
    <3>2. toApp[i + n].id < toApp[j + n].id
      BY <3>1 DEF OrderInv, Increasing
    <3>3. QED
      BY <1>3, <2>1, <3>2
  <2>2. QED
    BY <2>1 DEF Increasing
<1>6. \A i \in 1 .. Len(chunk') : chunk'[i].id <= messages /\ After(chunk'[i].id, toApp')
  <2>1. ASSUME NEW i \in 1 .. Len(chunk') PROVE chunk'[i].id <= messages
    <3>1. i \in 1 .. Len(toApp)
      BY <1>2, QueueIds
    <3>2. QED
      BY <1>2, <3>1 DEF OrderInv
  <2>2. ASSUME NEW i \in 1 .. Len(chunk'), NEW j \in 1 .. Len(toApp')
        PROVE  chunk'[i].id < toApp'[j].id
    <3>1. i \in 1 .. Len(toApp) /\ j + n \in 1 .. Len(toApp) /\ i < j + n
      <4>1. i \in Nat /\ j \in Nat /\ n \in Nat /\ i <= n /\ j >= 1
        BY <1>2
      <4>2. j + n \in 1 .. Len(toApp) /\ Len(toApp) \in Nat
        BY <1>3
      <4>3. QED
        BY <4>1, <4>2
    <3>2. toApp[i].id < toApp[j + n].id
      BY <3>1 DEF OrderInv, Increasing
    <3>3. QED
      BY <1>2, <1>3, <3>2
  <2>3. QED
    BY <2>1, <2>2 DEF After
<1>7. \A i \in 1 .. Len(toApp') : toApp'[i].id <= messages
  BY <1>3 DEF OrderInv
<1>8. ASSUME NEW m \in handled
      PROVE  m <= messages /\ After(m, toApp') /\ After(m, chunk')
  <2>1. m <= messages /\ \A i \in 1 .. Len(toApp) : m < toApp[i].id
    BY DEF OrderInv, After
  <2>2. \A i \in 1 .. Len(toApp') : m < toApp'[i].id
    BY <1>3, <2>1
  <2>3. \A i \in 1 .. Len(chunk') : i \in 1 .. Len(toApp) /\ m < chunk'[i].id
    BY <1>2, <2>1, QueueIds
  <2>4. QED
    BY <2>1, <2>2, <2>3 DEF After
<1>9. QED
  BY <1>1, <1>4, <1>5, <1>6, <1>7, <1>8 DEF OrderInv, After

(* Steps that lose what is not read yet.                                   *)
LEMMA QueueLost ==
    ASSUME TypeOK, OrderInv, toApp' = << >>, UNCHANGED <<chunk, phase, messages, handled>>
    PROVE  OrderInv'
  BY DEF OrderInv, Increasing, After, Filtered, message

LEMMA SendOrder == ASSUME TypeOK, OrderInv, NEW m, m.id = messages + 1, CarSends(m) PROVE OrderInv'
<1>1. /\ toApp' = Append(toApp, m) /\ messages' = messages + 1
      /\ UNCHANGED <<chunk, phase, handled>>
  BY DEF CarSends, chain, history
<1>2. /\ Len(toApp') = Len(toApp) + 1 /\ toApp'[Len(toApp) + 1] = m
      /\ \A i \in 1 .. Len(toApp) : toApp'[i] = toApp[i]
  BY <1>1, QueueIds
<1>3. Increasing(toApp)'
  <2>1. ASSUME NEW i \in 1 .. Len(toApp'), NEW j \in 1 .. Len(toApp'), i < j
        PROVE  toApp'[i].id < toApp'[j].id
    <3>1. i \in 1 .. Len(toApp) /\ toApp'[i] = toApp[i]
      BY <1>2, <2>1, QueueIds
    <3>2. CASE j \in 1 .. Len(toApp)
      BY <1>2, <2>1, <3>1, <3>2 DEF OrderInv, Increasing
    <3>3. CASE j = Len(toApp) + 1
      BY <1>2, <3>1, <3>3, QueueIds DEF OrderInv
    <3>4. QED
      BY <1>2, <3>2, <3>3, QueueIds
  <2>2. QED
    BY <2>1 DEF Increasing
<1>4. \A i \in 1 .. Len(toApp') : toApp'[i].id <= messages'
  BY <1>1, <1>2, QueueIds DEF OrderInv
<1>5. ASSUME NEW n \in Nat, n <= messages, After(n, toApp)
      PROVE  n <= messages' /\ After(n, toApp')
  BY <1>1, <1>2, <1>5, QueueIds DEF After
<1>6. QED
  BY <1>1, <1>3, <1>4, <1>5, QueueIds DEF OrderInv, Increasing, Filtered, message

(* The end of the chain for the first message of the chunk.                *)
LEMMA HeadDone ==
    ASSUME TypeOK, OrderInv, Filtered, chunk' = Tail(chunk), phase' \in {"idle", "transform"},
           UNCHANGED <<toApp, messages, handled>>
    PROVE  OrderInv'
<1>1. /\ Len(chunk') = Len(chunk) - 1 /\ Len(chunk) \in Nat \ {0}
      /\ \A i \in 1 .. Len(chunk') : i + 1 \in 1 .. Len(chunk) /\ chunk'[i] = chunk[i + 1]
  BY QueueIds DEF TypeOK, Filtered
<1>2. Increasing(chunk)'
  BY <1>1, QueueIds DEF OrderInv, Increasing
<1>3. \A n \in handled, i \in 1 .. Len(chunk') : n < chunk'[i].id
  BY <1>1, QueueIds DEF OrderInv
<1>4. \A i \in 1 .. Len(chunk') : chunk'[i].id <= messages /\ After(chunk'[i].id, toApp)
  BY <1>1 DEF OrderInv
<1>5. ~Filtered'
  BY DEF Filtered
<1>6. QED
  BY <1>2, <1>3, <1>4, <1>5 DEF OrderInv, Increasing, After

LEMMA OrderStep == ASSUME TypeOK, OrderInv, [Next]_vars PROVE OrderInv'
<1>1. CASE Read
  <2>1. PICK n \in 0 .. Len(toApp) : chunk' = Split(n) /\ toApp' = SubSeq(toApp, n + 1, Len(toApp))
    BY <1>1 DEF Read
  <2>2. QED
    BY <1>1, <2>1, FrontTaken DEF Read, Split, history, car
<1>2. CASE ReadFull
  <2>1. PICK n \in 0 .. Len(toApp) : toApp' = SubSeq(toApp, n + 1, Len(toApp))
    BY <1>2 DEF ReadFull
  <2>2. phase = "idle" /\ chunk' = << >> /\ phase' = "idle" /\ UNCHANGED <<messages, handled>>
    BY <1>2 DEF ReadFull, chain, history, car, TypeOK
  <2>3. QED
    BY <2>1, <2>2, FrontTaken
<1>3. CASE PassOther \/ StoreChanged \/ DropSame
  <2>1. phase = "filter" /\ handled' = handled \cup {message.id} /\ Filtered'
    BY <1>3 DEF PassOther, StoreChanged, DropSame, Filtered
  <2>2. UNCHANGED <<chunk, toApp, messages>>
    BY <1>3 DEF PassOther, StoreChanged, DropSame, link, car
  <2>3. QED
    BY <2>1, <2>2, QueuesKept
<1>4. CASE \/ ReadError \/ Transform \/ NoResponse \/ WriteResponse \/ ResponseNotWritten
           \/ SendEvent \/ LinkLost \/ ReadNothing \/ UNCHANGED vars
  <2>1. UNCHANGED <<chunk, toApp, messages, handled>>
    BY <1>4 DEF ReadError, Transform, NoResponse, WriteResponse, ResponseNotWritten, Respond,
         SendEvent, LinkLost, ReadNothing, vars, chain, link, history, car
  <2>2. (Filtered' <=> Filtered)
    BY <1>4 DEF ReadError, Transform, NoResponse, WriteResponse, ResponseNotWritten, Respond,
         SendEvent, LinkLost, ReadNothing, vars, chain, Filtered
  <2>3. QED
    BY <2>1, <2>2, QueuesKept
<1>5. CASE HandlersReturn \/ EndOfChunk
  <2>1. /\ Filtered /\ phase' \in {"idle", "transform"} /\ chunk' = Tail(chunk)
        /\ UNCHANGED <<toApp, messages, handled>>
    BY <1>5 DEF HandlersReturn, EndOfChunk, Filtered, link, history, car
  <2>2. QED
    BY <2>1, HeadDone
<1>6. CASE DisconnectOutput \/ Reconnect
  <2>1. toApp' = << >> /\ UNCHANGED <<chunk, phase, messages, handled>>
    BY <1>6 DEF DisconnectOutput, Reconnect, chain, history, car
  <2>2. QED
    BY <2>1, QueueLost
<1>7. CASE CarNotifies \/ CarSendsOther \/ CarAnnouncesKey
  <2>1. PICK m : m.id = messages + 1 /\ CarSends(m)
    BY <1>7 DEF CarNotifies, CarSendsOther, CarAnnouncesKey, Notify, UpdateAck, Start, NewKey
  <2>2. QED
    BY <2>1, SendOrder
<1>8. QED
  BY <1>1, <1>2, <1>3, <1>4, <1>5, <1>6, <1>7 DEF Next, Library, Environment

-----------------------------------------------------------------------------
(* The model and the event handlers.                                       *)

(* Between filter and event the model holds what the handlers will see,    *)
(* and that is not what they saw last.                                     *)
EventInv ==
    /\ phase \in {"respond", "event"} /\ message.command = "notify" =>
           /\ model[message.register] = message.data
           /\ ~MustSeemSame(seen[message.register], message.data)
    /\ EventsShowModel

LEMMA InitEvent == Init => EventInv
  BY DEF Init, EventInv, EventsShowModel

LEMMA EventStep == ASSUME TypeOK, EventInv, [Next]_vars PROVE EventInv'
<1>1. CASE Read \/ HandlersReturn \/ EndOfChunk
  <2>1. phase \notin {"respond", "event"} /\ phase' \notin {"respond", "event"} /\ UNCHANGED <<model, seen>>
    BY <1>1 DEF Read, HandlersReturn, EndOfChunk
  <2>2. QED
    BY <2>1 DEF EventInv, EventsShowModel
<1>2. CASE StoreChanged
  <2>1. message \in Message /\ message.register \in Registers /\ message' = message
    BY <1>2, HeadType, MessageFields DEF StoreChanged, message
  <2>2. /\ model' = [model EXCEPT ![message.register] = message.data]
        /\ phase = "filter" /\ phase' = "respond" /\ message.command = "notify" /\ seen' = seen
        /\ ~MustSeemSame(model[message.register], message.data)
    BY <1>2 DEF StoreChanged
  <2>3. model'[message.register] = message.data
    BY <2>1, <2>2 DEF TypeOK
  <2>4. \A r \in Registers : seen[r] = model[r]
    BY <2>2 DEF EventInv, EventsShowModel
  <2>5. \A r \in Registers : r # message.register => model'[r] = model[r]
    BY <2>2 DEF TypeOK
  <2>6. QED
    BY <2>1, <2>2, <2>3, <2>4, <2>5 DEF EventInv, EventsShowModel
<1>3. CASE PassOther \/ DropSame \/ Transform
  <2>1. /\ phase \notin {"respond", "event"} /\ UNCHANGED <<model, seen>> /\ message' = message
        /\ phase' \in {"respond", "event"} => message.command # "notify"
    BY <1>3 DEF PassOther, DropSame, Transform, message
  <2>2. QED
    BY <2>1 DEF EventInv, EventsShowModel
<1>4. CASE NoResponse \/ WriteResponse \/ ResponseNotWritten
  <2>1. /\ phase = "respond" /\ phase' = "event"
        /\ UNCHANGED <<model, seen>> /\ message' = message
    BY <1>4 DEF NoResponse, WriteResponse, ResponseNotWritten, Respond, message
  <2>2. QED
    BY <2>1 DEF EventInv, EventsShowModel
<1>5. CASE SendEvent
  <2>1. /\ phase = "event" /\ phase' = "application" /\ model' = model
        /\ seen' = IF message.command = "notify"
                   THEN [seen EXCEPT ![message.register] = message.data] ELSE seen
    BY <1>5 DEF SendEvent
  <2>2. \A r \in Registers : seen'[r] = model[r]
    <3>1. CASE message.command = "notify"
      <4>1. \A r \in Registers : r # message.register => seen'[r] = model[r]
        BY <2>1, <3>1 DEF EventInv, EventsShowModel, TypeOK
      <4>2. message.register \in Registers => seen'[message.register] = model[message.register]
        BY <2>1, <3>1 DEF EventInv, TypeOK
      <4>3. QED
        BY <4>1, <4>2
    <3>2. CASE message.command # "notify"
      BY <2>1, <3>2 DEF EventInv, EventsShowModel
    <3>3. QED
      BY <3>1, <3>2
  <2>3. QED
    BY <2>1, <2>2 DEF EventInv, EventsShowModel
<1>6. CASE \/ ReadFull \/ ReadError \/ DisconnectOutput \/ Reconnect \/ LinkLost \/ CarNotifies
           \/ CarSendsOther \/ CarAnnouncesKey \/ ReadNothing \/ UNCHANGED vars
  <2>1. UNCHANGED <<chunk, phase, model, seen>>
    BY <1>6 DEF ReadFull, ReadError, DisconnectOutput, Reconnect, LinkLost, CarNotifies,
         CarSendsOther, CarAnnouncesKey, CarSends, ReadNothing, vars, chain
  <2>2. QED
    BY <2>1 DEF EventInv, EventsShowModel, message
<1>7. QED
  BY <1>1, <1>2, <1>3, <1>4, <1>5, <1>6 DEF Next, Library, Environment

-----------------------------------------------------------------------------
(* The model and the car.                                                  *)

(* A message and the last notification of its register: no later, and the  *)
(* message of the same number is that notification.                        *)
Fits(m, last) ==
    /\ \A r \in Registers : last[r].id = m.id =>
           m.command = "notify" /\ m.register = r /\ m.data = last[r].data
    /\ m.command = "notify" => m.id <= last[m.register].id

MirrorInv ==
    /\ \A i \in 1 .. Len(chunk) : Fits(chunk[i], sent)
    /\ \A i \in 1 .. Len(toApp) : Fits(toApp[i], sent)
    /\ \A r \in Registers : sent[r].id <= messages
    /\ ModelMirrors

LEMMA InitMirror == Init => MirrorInv
  BY SizesAssumption DEF SizesAssumption, Init, MirrorInv, ModelMirrors

LEMMA DataSeq == ASSUME NEW d \in Data PROVE d \in Seq(Bytes)
<1>1. PICK n \in 0 .. MaxLength : d \in [1 .. n -> Bytes]
  BY DEF Data
<1>2. n \in Nat
  BY SizesAssumption DEF SizesAssumption
<1>3. QED
  BY <1>1, <1>2

LEMMA AgreeSame == ASSUME NEW d \in Data PROVE Agree(d, d)
  BY DataSeq DEF Agree, IsPrefix

(* The comparison of a new value with the register.                        *)
LEMMA SameAgrees ==
    ASSUME NEW old \in Data, NEW new \in Data, MaySeemSame(old, new)
    PROVE  Agree(old, new)
<1>1. old \in Seq(Bytes) /\ new \in Seq(Bytes)
  BY DataSeq
<1>2. Len(old) \in Nat /\ Len(new) \in Nat
  BY <1>1
<1>3. CASE Len(old) <= Len(new)
  <2>1. \A i \in 1 .. Len(old) : new[i] = old[i]
    BY <1>2, <1>3 DEF MaySeemSame, CommonBytes
  <2>2. SubSeq(old, 1, Len(old)) = SubSeq(new, 1, Len(old))
    BY <1>1, <1>2, <1>3, <2>1
  <2>3. QED
    BY <1>3, <2>2 DEF Agree, IsPrefix
<1>4. CASE Len(new) < Len(old)
  <2>1. \A i \in 1 .. Len(new) : new[i] = old[i]
    BY <1>2, <1>4 DEF MaySeemSame, CommonBytes
  <2>2. SubSeq(new, 1, Len(new)) = SubSeq(old, 1, Len(new))
    BY <1>1, <1>2, <1>4, <2>1
  <2>3. QED
    BY <1>2, <1>4, <2>2 DEF Agree, IsPrefix
<1>5. QED
  BY <1>2, <1>3, <1>4

(* Steps that only move messages along or lose them.                       *)
LEMMA MirrorKept ==
    ASSUME MirrorInv, UNCHANGED <<sent, messages, model, handled>>,
           \A i \in 1 .. Len(chunk') :
               \/ \E j \in 1 .. Len(chunk) : chunk'[i] = chunk[j]
               \/ \E j \in 1 .. Len(toApp) : chunk'[i] = toApp[j],
           \A i \in 1 .. Len(toApp') : \E j \in 1 .. Len(toApp) : toApp'[i] = toApp[j]
    PROVE  MirrorInv'
<1>1. ModelMirrors'
  BY DEF MirrorInv, ModelMirrors
<1>2. \A i \in 1 .. Len(chunk') : Fits(chunk'[i], sent')
  BY DEF MirrorInv
<1>3. \A i \in 1 .. Len(toApp') : Fits(toApp'[i], sent')
  BY DEF MirrorInv
<1>4. QED
  BY <1>1, <1>2, <1>3 DEF MirrorInv

(* The filter, which stores the value of a notification or finds that it   *)
(* agrees with what is stored.                                             *)
LEMMA FilterMirrors ==
    ASSUME TypeOK, OrderInv, MirrorInv, PassOther \/ StoreChanged \/ DropSame
    PROVE  MirrorInv'
<1>1. /\ phase = "filter" /\ handled' = handled \cup {message.id}
      /\ UNCHANGED <<chunk, toApp, sent, messages>>
  BY DEF PassOther, StoreChanged, DropSame, link, car
<1>2. /\ 1 \in 1 .. Len(chunk) /\ message = chunk[1] /\ message \in Message
      /\ message.command = "notify" => message.register \in Registers /\ message.data \in Data
  BY <1>1, QueueIds, HeadType, MessageFields DEF TypeOK, message
<1>3. Fits(message, sent)
  BY <1>2 DEF MirrorInv
<1>4. \A n \in handled : n < message.id
  BY <1>1, HeadNew
<1>5. ASSUME NEW r \in Registers, sent[r].id \in handled'
      PROVE  model'[r] # Unset /\ Agree(model'[r], sent[r].data)
  <2>1. CASE message.command # "notify" \/ message.register # r
    <3>1. sent[r].id \in handled
      BY <1>1, <1>3, <1>5, <2>1 DEF Fits
    <3>2. model'[r] = model[r]
      <4>1. CASE StoreChanged
        BY <2>1, <4>1 DEF StoreChanged, TypeOK
      <4>2. CASE PassOther \/ DropSame
        BY <4>2 DEF PassOther, DropSame
      <4>3. QED
        BY <4>1, <4>2
    <3>3. QED
      BY <3>1, <3>2 DEF MirrorInv, ModelMirrors
  <2>2. CASE message.command = "notify" /\ message.register = r
    <3>1. sent[r].id = message.id
      <4>1. message.id <= sent[r].id /\ message.id \in Nat /\ sent[r].id \in Nat
        BY <1>2, <1>3, <2>2, HeadType, QueueIds DEF Fits, TypeOK
      <4>2. sent[r].id \in handled => sent[r].id < message.id
        BY <1>4
      <4>3. QED
        BY <1>1, <1>5, <4>1, <4>2
    <3>2. message.data = sent[r].data /\ message.data \in Data
      BY <1>2, <1>3, <2>2, <3>1 DEF Fits
    <3>3. CASE StoreChanged
      <4>1. model'[r] = message.data
        BY <2>2, <3>3 DEF StoreChanged, TypeOK
      <4>2. QED
        BY <3>2, <4>1, AgreeSame, UnsetAssumption
    <3>4. CASE DropSame
      <4>1. MaySeemSame(model[r], message.data) /\ model' = model
        BY <2>2, <3>4 DEF DropSame
      <4>2. model[r] # Unset /\ model[r] \in Data
        BY <4>1 DEF MaySeemSame, TypeOK
      <4>3. QED
        BY <3>2, <4>1, <4>2, SameAgrees
    <3>5. QED
      BY <2>2, <3>3, <3>4 DEF PassOther
  <2>3. QED
    BY <2>1, <2>2
<1>6. QED
  BY <1>1, <1>5 DEF MirrorInv, ModelMirrors

(* A new message, the last notification of its register if it is one.      *)
LEMMA SendMirrors ==
    ASSUME TypeOK, OrderInv, MirrorInv, NEW m, m.id = messages + 1, CarSends(m),
           \/ m.command # "notify" /\ sent' = sent
           \/ /\ m.command = "notify" /\ m.register \in Registers
              /\ sent' = [sent EXCEPT ![m.register] = [id |-> m.id, data |-> m.data]]
    PROVE  MirrorInv'
<1>1. /\ toApp' = Append(toApp, m) /\ messages' = messages + 1
      /\ UNCHANGED <<chunk, handled, model>>
  BY DEF CarSends, chain, history
<1>2. /\ Len(toApp') = Len(toApp) + 1 /\ toApp'[Len(toApp) + 1] = m
      /\ \A i \in 1 .. Len(toApp) : toApp'[i] = toApp[i]
      /\ messages \in Nat
  BY <1>1, QueueIds
<1>3. \A r \in Registers : sent[r].id \in Nat /\ sent[r].id <= messages
  BY QueueIds DEF TypeOK, MirrorInv
<1>4. \A r \in Registers :
          \/ sent'[r] = sent[r] /\ (m.command = "notify" => m.register # r)
          \/ /\ m.command = "notify" /\ m.register = r
             /\ sent'[r].id = m.id /\ sent'[r].data = m.data
  BY DEF TypeOK
<1>5. ASSUME NEW p \in Message, p.id \in Nat, p.id <= messages, Fits(p, sent)
      PROVE  Fits(p, sent')
  <2>1. p.command = "notify" => p.register \in Registers
    BY MessageFields
  <2>2. ASSUME NEW r \in Registers, sent'[r].id = p.id
        PROVE  p.command = "notify" /\ p.register = r /\ p.data = sent'[r].data
    <3>1. sent'[r] = sent[r]
      BY <1>2, <1>4, <1>5, <2>2
    <3>2. QED
      BY <1>5, <2>2, <3>1 DEF Fits
  <2>3. p.command = "notify" => p.id <= sent'[p.register].id
    BY <1>2, <1>4, <1>5, <2>1 DEF Fits
  <2>4. QED
    BY <2>2, <2>3 DEF Fits
<1>6. Fits(m, sent')
  BY <1>2, <1>3, <1>4 DEF Fits
<1>7. \A i \in 1 .. Len(chunk) : Fits(chunk[i], sent')
  BY <1>5, QueueIds DEF OrderInv, MirrorInv
<1>8. \A i \in 1 .. Len(toApp') : Fits(toApp'[i], sent')
  <2>1. ASSUME NEW i \in 1 .. Len(toApp) PROVE Fits(toApp[i], sent')
    <3>1. toApp[i] \in Message /\ toApp[i].id \in Nat
      BY QueueIds
    <3>2. toApp[i].id <= messages /\ Fits(toApp[i], sent)
      BY DEF OrderInv, MirrorInv
    <3>3. QED
      BY <1>5, <3>1, <3>2
  <2>2. \A i \in 1 .. Len(toApp') : i \in 1 .. Len(toApp) \/ i = Len(toApp) + 1
    BY <1>2, QueueIds
  <2>3. QED
    BY <1>2, <1>6, <2>1, <2>2
<1>9. \A r \in Registers : sent'[r].id <= messages'
  BY <1>1, <1>2, <1>3, <1>4
<1>10. ModelMirrors'
  <2>1. ASSUME NEW r \in Registers, sent'[r].id \in handled
        PROVE  model[r] # Unset /\ Agree(model[r], sent'[r].data)
    <3>1. sent'[r] = sent[r]
      BY <1>2, <1>4, <2>1 DEF OrderInv
    <3>2. QED
      BY <2>1, <3>1 DEF MirrorInv, ModelMirrors
  <2>2. QED
    BY <1>1, <2>1 DEF ModelMirrors
<1>11. QED
  BY <1>1, <1>7, <1>8, <1>9, <1>10 DEF MirrorInv

LEMMA MirrorStep == ASSUME TypeOK, OrderInv, MirrorInv, [Next]_vars PROVE MirrorInv'
<1>1. CASE Read \/ ReadFull
  <2>1. PICK n \in 0 .. Len(toApp) :
            /\ toApp' = SubSeq(toApp, n + 1, Len(toApp))
            /\ chunk' = chunk \/ chunk' = << >> \/ chunk' = SubSeq(toApp, 1, n)
    BY <1>1 DEF Read, ReadFull, Split, chain
  <2>2. UNCHANGED <<sent, messages, model, handled>>
    BY <1>1 DEF Read, ReadFull, history, car
  <2>3. \A i \in 1 .. Len(toApp') : i + n \in 1 .. Len(toApp) /\ toApp'[i] = toApp[i + n]
    BY <2>1, QueueIds
  <2>4. \A i \in 1 .. Len(chunk') :
            \/ \E j \in 1 .. Len(chunk) : chunk'[i] = chunk[j]
            \/ \E j \in 1 .. Len(toApp) : chunk'[i] = toApp[j]
    <3>1. CASE chunk' = chunk
      BY <3>1
    <3>2. CASE chunk' = << >>
      BY <3>2
    <3>3. CASE chunk' = SubSeq(toApp, 1, n)
      <4>1. \A i \in 1 .. Len(chunk') : i \in 1 .. Len(toApp) /\ chunk'[i] = toApp[i]
        BY <3>3, QueueIds
      <4>2. QED
        BY <4>1
    <3>4. QED
      BY <2>1, <3>1, <3>2, <3>3
  <2>5. QED
    BY <2>2, <2>3, <2>4, MirrorKept
<1>2. CASE HandlersReturn \/ EndOfChunk
  <2>1. chunk' = Tail(chunk) /\ chunk # << >> /\ UNCHANGED <<toApp, sent, messages, model, handled>>
    BY <1>2 DEF HandlersReturn, EndOfChunk, link, history, car, TypeOK
  <2>2. \A i \in 1 .. Len(chunk') : i + 1 \in 1 .. Len(chunk) /\ chunk'[i] = chunk[i + 1]
    BY <2>1, QueueIds
  <2>3. QED
    BY <2>1, <2>2, MirrorKept
<1>3. CASE PassOther \/ StoreChanged \/ DropSame
  BY <1>3, FilterMirrors
<1>4. CASE \/ ReadError \/ Transform \/ NoResponse \/ WriteResponse \/ ResponseNotWritten
           \/ SendEvent \/ LinkLost \/ ReadNothing \/ DisconnectOutput \/ Reconnect
           \/ UNCHANGED vars
  <2>1. UNCHANGED <<chunk, sent, messages, model, handled>>
    BY <1>4 DEF ReadError, Transform, NoResponse, WriteResponse, ResponseNotWritten, Respond,
         SendEvent, LinkLost, ReadNothing, DisconnectOutput, Reconnect, vars, chain, history, car
  <2>2. toApp' = toApp \/ toApp' = << >>
    BY <1>4 DEF ReadError, Transform, NoResponse, WriteResponse, ResponseNotWritten, Respond,
         SendEvent, LinkLost, ReadNothing, DisconnectOutput, Reconnect, vars, link
  <2>3. \A i \in 1 .. Len(toApp') : \E j \in 1 .. Len(toApp) : toApp'[i] = toApp[j]
    BY <2>2
  <2>4. QED
    BY <2>1, <2>3, MirrorKept
<1>5. CASE CarNotifies
  <2>1. PICK r \in Registers, d \in Data :
            /\ CarSends(Notify(r, d, carXOR, messages + 1))
            /\ sent' = [sent EXCEPT ![r] = [id |-> messages + 1, data |-> d]]
    BY <1>5 DEF CarNotifies
  <2> DEFINE m == Notify(r, d, carXOR, messages + 1)
  <2>2. /\ m.command = "notify" /\ m.register = r /\ m.data = d
        /\ m.id = messages + 1
    BY DEF Notify
  <2> HIDE DEF m
  <2>3. QED
    BY <2>1, <2>2, SendMirrors DEF m
<1>6. CASE CarSendsOther \/ CarAnnouncesKey
  <2>1. PICK m : m.id = messages + 1 /\ m.command # "notify" /\ CarSends(m)
    BY <1>6 DEF CarSendsOther, CarAnnouncesKey, UpdateAck, Start, NewKey
  <2>2. sent' = sent
    BY <1>6 DEF CarSendsOther, CarAnnouncesKey
  <2>3. QED
    BY <2>1, <2>2, SendMirrors
<1>7. QED
  BY <1>1, <1>2, <1>3, <1>4, <1>5, <1>6 DEF Next, Library, Environment

-----------------------------------------------------------------------------
(* The reports.                                                            *)

Told == reports \o out

(* What was told is handled and comes before the rest of the chunk; a      *)
(* stored value still in the chain will be told, being a notification.     *)
ReportInv ==
    /\ \A i, j \in 1 .. Len(Told) : i < j => Told[i] < Told[j]
    /\ \A i \in 1 .. Len(Told) : Told[i] \in handled /\ After(Told[i], chunk)
    /\ \A n \in stored : (\E i \in 1 .. Len(Told) : Told[i] = n) \/ InChain(n)
    /\ phase = "idle" => out = << >>
    /\ phase \in {"respond", "event", "application"} /\ message.id \in stored =>
           message.command = "notify"

LEMMA InitReport == Init => ReportInv
  BY DEF Init, ReportInv, Told

LEMMA ToldType == ASSUME TypeOK PROVE Told \in Seq(Ids) /\ Len(Told) \in Nat
<1>1. reports \in Seq(Ids) /\ out \in Seq(Ids)
  BY DEF TypeOK
<1>2. QED
  BY <1>1 DEF Told

(* Steps that tell nothing and keep the chunk or read a new one.           *)
LEMMA ReportKept ==
    ASSUME TypeOK, OrderInv, ReportInv, UNCHANGED reporting,
           handled \subseteq handled', UNCHANGED stored,
           \/ UNCHANGED <<chunk, phase>>
           \/ /\ UNCHANGED chunk
              /\ \/ phase = "transform" /\ phase' = "filter"
                 \/ phase = "filter" /\ phase' \in {"respond", "filtered"}
                 \/ phase = "respond" /\ phase' = "event"
                 \/ phase = "event" /\ phase' = "application"
           \/ /\ phase = "idle" /\ phase' \in {"idle", "transform"}
              /\ \A n \in handled : After(n, chunk')
    PROVE  ReportInv'
<1>1. Told' = Told
  BY DEF Told, reporting
<1>2. \A i \in 1 .. Len(Told) : Told[i] \in handled' /\ After(Told[i], chunk')
  BY DEF ReportInv, After
<1>3. \A n \in stored : (\E i \in 1 .. Len(Told) : Told[i] = n) \/ InChain(n)'
  BY DEF ReportInv, InChain, message
<1>4. phase' = "idle" => out' = << >>
  BY DEF ReportInv, reporting
<1>5. ASSUME phase' \in {"respond", "event", "application"}, message'.id \in stored
      PROVE  message'.command = "notify"
  <2>1. message' = message
    BY <1>5 DEF message
  <2>2. CASE phase = "filter"
    BY <1>5, <2>1, <2>2, HeadNew DEF TypeOK
  <2>3. CASE phase \in {"respond", "event", "application"}
    BY <1>5, <2>1, <2>3 DEF ReportInv
  <2>4. QED
    BY <1>5, <2>2, <2>3
<1>6. QED
  BY <1>1, <1>2, <1>3, <1>4, <1>5 DEF ReportInv

LEMMA StoreReports ==
    ASSUME TypeOK, ReportInv, StoreChanged
    PROVE  ReportInv'
<1>1. /\ phase = "filter" /\ phase' = "respond" /\ message' = message
      /\ Told' = Told /\ chunk' = chunk /\ message.command = "notify"
      /\ handled' = handled \cup {message.id} /\ stored' = stored \cup {message.id}
  BY DEF StoreChanged, message, Told, reporting
<1>2. InChain(message.id)'
  BY <1>1 DEF InChain
<1>3. \A n \in stored : \E i \in 1 .. Len(Told) : Told[i] = n
  BY <1>1 DEF ReportInv, InChain
<1>4. QED
  BY <1>1, <1>2, <1>3 DEF ReportInv, After

(* The end of the chain: what was stored is told now.                      *)
LEMMA DoneReports ==
    ASSUME TypeOK, OrderInv, ReportInv, HandlersReturn \/ EndOfChunk
    PROVE  ReportInv'
<1>1. /\ phase \in {"application", "filtered"} /\ phase' \in {"idle", "transform"}
      /\ chunk' = Tail(chunk) /\ UNCHANGED <<handled, stored>>
      /\ phase' = "idle" => out' = << >>
  BY DEF HandlersReturn, EndOfChunk, history
<1>2. reports \in Seq(Ids) /\ out \in Seq(Ids)
  BY DEF TypeOK
<1>3. message.id \in Ids /\ message.id \in handled
  BY <1>1, HeadType DEF OrderInv, Filtered
<1>4. Told' = reports \o JsonOutput
  <2>1. JsonOutput \in Seq(Ids)
    BY <1>2, <1>3 DEF JsonOutput
  <2>2. CASE HandlersReturn
    BY <2>2 DEF HandlersReturn, Told
  <2>3. CASE EndOfChunk
    BY <1>2, <2>1, <2>3 DEF EndOfChunk, Told
  <2>4. QED
    BY <2>2, <2>3
<1>5. /\ 1 \in 1 .. Len(chunk) /\ message = chunk[1]
      /\ \A i \in 1 .. Len(chunk') : i + 1 \in 1 .. Len(chunk) /\ chunk'[i] = chunk[i + 1]
  BY <1>1, QueueIds DEF TypeOK, message
<1>6. After(message.id, chunk')
  BY <1>5, QueueIds DEF OrderInv, Increasing, After
<1>7. \A i \in 1 .. Len(Told) : After(Told[i], chunk') /\ Told[i] < message.id /\ Told[i] \in handled
  BY <1>5, <1>6 DEF ReportInv, After
<1>8. CASE phase = "application" /\ Reportable
  <2>1. Told' = Append(Told, message.id)
    BY <1>2, <1>3, <1>4, <1>8 DEF JsonOutput, Told
  <2>2. /\ Len(Told') = Len(Told) + 1 /\ Told'[Len(Told) + 1] = message.id
        /\ \A i \in 1 .. Len(Told) : Told'[i] = Told[i]
        /\ \A i \in 1 .. Len(Told') : i \in 1 .. Len(Told) \/ i = Len(Told) + 1
    BY <1>3, <2>1, ToldType
  <2>3. ASSUME NEW i \in 1 .. Len(Told'), NEW j \in 1 .. Len(Told'), i < j
        PROVE  Told'[i] < Told'[j]
    <3>1. i \in 1 .. Len(Told)
      BY <2>2, <2>3, ToldType
    <3>2. QED
      BY <1>7, <2>2, <2>3, <3>1 DEF ReportInv
  <2>4. \A i \in 1 .. Len(Told') : Told'[i] \in handled /\ After(Told'[i], chunk')
    BY <1>3, <1>6, <1>7, <2>2
  <2>5. \A n \in stored : \E i \in 1 .. Len(Told') : Told'[i] = n
    <3>1. ASSUME NEW n \in stored PROVE n = message.id \/ \E i \in 1 .. Len(Told) : Told[i] = n
      BY DEF ReportInv, InChain
    <3>2. Len(Told) + 1 \in 1 .. Len(Told') /\ \A i \in 1 .. Len(Told) : i \in 1 .. Len(Told')
      BY <2>2, ToldType
    <3>3. QED
      BY <2>2, <3>1, <3>2
  <2>6. QED
    BY <1>1, <2>3, <2>4, <2>5 DEF ReportInv
<1>9. CASE ~(phase = "application" /\ Reportable)
  <2>1. Told' = Told
    BY <1>4, <1>9 DEF JsonOutput, Told
  <2>2. \A n \in stored : \E i \in 1 .. Len(Told) : Told[i] = n
    BY <1>1, <1>9 DEF ReportInv, InChain, Reportable
  <2>3. QED
    BY <1>1, <1>7, <2>1, <2>2 DEF ReportInv
<1>10. QED
  BY <1>8, <1>9

LEMMA ReportStep == ASSUME TypeOK, OrderInv, ReportInv, [Next]_vars PROVE ReportInv'
<1>1. CASE Read
  <2>1. PICK n \in 0 .. Len(toApp) : chunk' = << >> \/ chunk' = SubSeq(toApp, 1, n)
    BY <1>1 DEF Read, Split
  <2>2. \A i \in 1 .. Len(chunk') : i \in 1 .. Len(toApp) /\ chunk'[i] = toApp[i]
    BY <2>1, QueueIds
  <2>3. \A n1 \in handled : After(n1, chunk')
    BY <2>2 DEF OrderInv, After
  <2>4. QED
    BY <1>1, <2>3, ReportKept DEF Read, history
<1>2. CASE StoreChanged
  BY <1>2, StoreReports
<1>3. CASE HandlersReturn \/ EndOfChunk
  BY <1>3, DoneReports
<1>4. CASE PassOther \/ DropSame \/ Transform \/ NoResponse \/ WriteResponse \/ ResponseNotWritten
           \/ SendEvent
  BY <1>4, ReportKept
     DEF PassOther, DropSame, Transform, NoResponse, WriteResponse, ResponseNotWritten,
         Respond, SendEvent, history
<1>5. CASE \/ ReadFull \/ ReadError \/ DisconnectOutput \/ Reconnect \/ LinkLost \/ CarNotifies
           \/ CarSendsOther \/ CarAnnouncesKey \/ ReadNothing \/ UNCHANGED vars
  BY <1>5, ReportKept
     DEF ReadFull, ReadError, DisconnectOutput, Reconnect, LinkLost, CarNotifies,
         CarSendsOther, CarAnnouncesKey, CarSends, ReadNothing, vars, chain, history
<1>6. QED
  BY <1>1, <1>2, <1>3, <1>4, <1>5 DEF Next, Library, Environment

-----------------------------------------------------------------------------
(* The answers.                                                            *)

IsAnswered(n) == \E a \in answers : a.id = n

(* Only what is handled is answered, once, and not while it waits for its  *)
(* answer; of what is stored, all of it or, registering, nothing.          *)
AnswerInv ==
    /\ IsFiniteSet(answers)
    /\ \A a, b \in answers : a.id = b.id => a = b
    /\ \A n \in Ids : IsAnswered(n) => n \in handled \ unsent
    /\ unsent \subseteq handled
    /\ phase = "respond" => ~IsAnswered(message.id) /\ message.id \notin unsent
    /\ \A n \in stored :
           IF registerDevice
           THEN ~IsAnswered(n) /\ n \notin unsent
           ELSE IsAnswered(n) \/ n \in unsent \/ (phase = "respond" /\ n = message.id)

LEMMA InitAnswer == Init => AnswerInv
  BY FS_EmptySet DEF Init, AnswerInv, IsAnswered

(* Steps before and after the responder.                                   *)
LEMMA AnswerKept ==
    ASSUME AnswerInv, UNCHANGED <<answers, unsent, handled, stored, registerDevice>>,
           \/ phase # "respond" /\ phase' # "respond"
           \/ UNCHANGED <<chunk, phase>>
    PROVE  AnswerInv'
<1>1. \A n : IsAnswered(n)' <=> IsAnswered(n)
  BY DEF IsAnswered
<1>2. phase' = "respond" => phase = "respond" /\ message' = message
  BY DEF message
<1>3. phase = "respond" => phase' = "respond" /\ message' = message
  BY DEF message
<1>4. QED
  BY <1>1, <1>2, <1>3 DEF AnswerInv, IsAnswered

(* The message that passes the filter has no answer yet.                   *)
LEMMA FilterAnswers ==
    ASSUME TypeOK, OrderInv, AnswerInv, PassOther \/ StoreChanged \/ DropSame
    PROVE  AnswerInv'
<1>1. /\ phase = "filter" /\ phase' \in {"respond", "filtered"} /\ message' = message
      /\ handled' = handled \cup {message.id}
      /\ UNCHANGED <<answers, unsent, registerDevice>>
      /\ stored' = stored \/ (stored' = stored \cup {message.id} /\ phase' = "respond")
  BY DEF PassOther, StoreChanged, DropSame, message
<1>2. message.id \notin handled /\ message.id \in Ids
  BY <1>1, HeadNew, HeadType
<1>3. ~IsAnswered(message.id) /\ message.id \notin unsent
  BY <1>2 DEF AnswerInv
<1>4. \A n : IsAnswered(n)' <=> IsAnswered(n)
  BY <1>1 DEF IsAnswered
<1>5. QED
  BY <1>1, <1>3, <1>4 DEF AnswerInv

(* The responder.                                                          *)
LEMMA RespondAnswers ==
    ASSUME TypeOK, OrderInv, ReportInv, AnswerInv,
           NoResponse \/ WriteResponse \/ ResponseNotWritten
    PROVE  AnswerInv'
<1>1. /\ phase = "respond" /\ phase' = "event" /\ message' = message
      /\ UNCHANGED <<handled, stored, registerDevice>>
  BY DEF NoResponse, WriteResponse, ResponseNotWritten, Respond, message, history
<1>2. /\ message.id \in Ids /\ message.id \in handled
      /\ ~IsAnswered(message.id) /\ message.id \notin unsent
      /\ message.id \in stored => message.command = "notify"
  BY <1>1, HeadType DEF OrderInv, Filtered, AnswerInv, ReportInv
<1>3. CASE NoResponse
  <2>1. UNCHANGED <<answers, unsent>> /\ ~Answered
    BY <1>3 DEF NoResponse, history
  <2>2. \A n : IsAnswered(n)' <=> IsAnswered(n)
    BY <2>1 DEF IsAnswered
  <2>3. ~registerDevice => message.id \notin stored
    BY <1>2, <2>1 DEF Answered
  <2>4. QED
    BY <1>1, <2>1, <2>2, <2>3 DEF AnswerInv
<1>4. CASE WriteResponse
  <2> DEFINE a == [id |-> message.id, xor |-> message.xor, wire |-> ResponseXOR]
  <2>1. answers' = answers \cup {a} /\ unsent' = unsent /\ Answered
    BY <1>4 DEF WriteResponse, Respond
  <2>2. a.id = message.id
    OBVIOUS
  <2>3. IsFiniteSet(answers')
    BY <2>1, FS_AddElement DEF AnswerInv
  <2> HIDE DEF a
  <2>4. \A n : IsAnswered(n)' <=> IsAnswered(n) \/ n = message.id
    BY <2>1, <2>2 DEF IsAnswered
  <2>5. \A b, c \in answers' : b.id = c.id => b = c
    BY <1>2, <2>1, <2>2 DEF AnswerInv, IsAnswered
  <2>6. registerDevice => message.id \notin stored
    BY <1>2, <2>1 DEF Answered
  <2>7. QED
    BY <1>1, <1>2, <2>1, <2>3, <2>4, <2>5, <2>6 DEF AnswerInv
<1>5. CASE ResponseNotWritten
  <2>1. answers' = answers /\ unsent' = unsent \cup {message.id} /\ Answered
    BY <1>5 DEF ResponseNotWritten, Respond
  <2>2. \A n : IsAnswered(n)' <=> IsAnswered(n)
    BY <2>1 DEF IsAnswered
  <2>3. registerDevice => message.id \notin stored
    BY <1>2, <2>1 DEF Answered
  <2>4. QED
    BY <1>1, <1>2, <2>1, <2>2, <2>3 DEF AnswerInv
<1>6. QED
  BY <1>3, <1>4, <1>5

LEMMA AnswerStep ==
    ASSUME TypeOK, OrderInv, ReportInv, AnswerInv, [Next]_vars PROVE AnswerInv'
<1>1. CASE PassOther \/ StoreChanged \/ DropSame
  BY <1>1, FilterAnswers
<1>2. CASE NoResponse \/ WriteResponse \/ ResponseNotWritten
  BY <1>2, RespondAnswers
<1>3. CASE Read \/ Transform \/ SendEvent \/ HandlersReturn \/ EndOfChunk
  BY <1>3, AnswerKept DEF Read, Transform, SendEvent, HandlersReturn, EndOfChunk, history
<1>4. CASE \/ ReadFull \/ ReadError \/ DisconnectOutput \/ Reconnect \/ LinkLost \/ CarNotifies
           \/ CarSendsOther \/ CarAnnouncesKey \/ ReadNothing \/ UNCHANGED vars
  BY <1>4, AnswerKept
     DEF ReadFull, ReadError, DisconnectOutput, Reconnect, LinkLost, CarNotifies,
         CarSendsOther, CarAnnouncesKey, CarSends, ReadNothing, vars, chain, history
<1>5. QED
  BY <1>1, <1>2, <1>3, <1>4 DEF Next, Library, Environment

LEMMA AnswersCounted == AnswerInv => Cardinality(answers) = Cardinality({a.id : a \in answers})
<1> SUFFICES ASSUME AnswerInv PROVE Cardinality(answers) = Cardinality({a.id : a \in answers})
  OBVIOUS
<1> DEFINE T == {a.id : a \in answers}
           f == [a \in answers |-> a.id]
<1>1. f \in Injection(answers, T)
  BY DEF Injection, IsInjective, AnswerInv
<1>2. f \in Surjection(answers, T)
  BY DEF Surjection
<1>3. QED
  BY <1>1, <1>2, FS_Bijection DEF ExistsBijection, Bijection, AnswerInv

-----------------------------------------------------------------------------
(* The invariant, and what follows from it.                                *)

IInv == TypeOK /\ OrderInv /\ EventInv /\ MirrorInv /\ ReportInv /\ AnswerInv

(* Every reachable state satisfies the inductive invariant.                *)
THEOREM ReceiveInvariant == Spec => []IInv
<1>1. Init => IInv
  BY InitType, InitOrder, InitEvent, InitMirror, InitReport, InitAnswer DEF IInv
<1>2. IInv /\ [Next]_vars => IInv'
  BY TypeStep, OrderStep, EventStep, MirrorStep, ReportStep, AnswerStep DEF IInv
<1>3. QED
  BY <1>1, <1>2, PTL DEF Spec

(* Every variable of the output chain keeps its type; there is a message   *)
(* in the chain unless it is idle.                                         *)
THEOREM ReceiveTypes == Spec => []TypeOK
<1>1. IInv => TypeOK
  BY DEF IInv
<1>2. QED
  BY <1>1, ReceiveInvariant, PTL

(* phev_service_outputFilter keeps the model up to date: once the last     *)
(* notification of a register is past it, the register agrees with it.     *)
THEOREM ModelFollowsCar == Spec => []ModelMirrors
<1>1. IInv => ModelMirrors
  BY DEF IInv, MirrorInv
<1>2. QED
  BY <1>1, ReceiveInvariant, PTL

(* The event handlers saw what the model holds, but for the message on its *)
(* way from the filter to them.                                            *)
THEOREM HandlersSeeModel == Spec => []EventsShowModel
<1>1. IInv => EventsShowModel
  BY DEF IInv, EventInv
<1>2. QED
  BY <1>1, ReceiveInvariant, PTL

(* phev_pipe_commandResponder answers each stored value once, unless the   *)
(* link is gone or the device is being registered.                         *)
THEOREM StoresAnswered == Spec => []AnswerPerStore
<1>1. IInv => AnswerPerStore
  <2> SUFFICES ASSUME IInv PROVE AnswerPerStore
    OBVIOUS
  <2> DEFINE answered == {a.id : a \in answers}
             waiting == IF phase = "respond" THEN {message.id} ELSE {}
  <2>1. answered \subseteq Ids /\ stored \subseteq Ids
    BY DEF IInv, TypeOK
  <2>2. \A n : n \in answered <=> IsAnswered(n)
    BY DEF IsAnswered
  <2>3. answered \cap unsent = {}
    BY <2>1, <2>2 DEF IInv, AnswerInv
  <2>4. Cardinality(answers) = Cardinality(answered)
    BY AnswersCounted DEF IInv
  <2> HIDE DEF answered
  <2>5. stored \cap (answered \cup unsent) = IF registerDevice THEN {} ELSE stored \ waiting
    BY <2>2 DEF IInv, AnswerInv
  <2>6. QED
    BY <2>3, <2>4, <2>5 DEF AnswerPerStore, answered
<1>2. QED
  BY <1>1, ReceiveInvariant, PTL

(* phev_service_jsonOutputTransformer and the aggregator tell the input    *)
(* client of each stored value, in order and once.                         *)
THEOREM ReportsComplete == Spec => []StoresReported
<1>1. IInv => StoresReported
  <2> SUFFICES ASSUME IInv PROVE StoresReported
    OBVIOUS
  <2>1. DOMAIN Told = 1 .. Len(Told)
    BY ToldType DEF IInv
  <2>2. \A n \in stored : n \in ToSet(Told) \/ InChain(n)
    BY <2>1 DEF IInv, ReportInv, ToSet
  <2>3. QED
    BY <2>1, <2>2 DEF StoresReported, IInv, ReportInv, Told
<1>2. QED
  BY <1>1, ReceiveInvariant, PTL

(* The messages pass the filter in the order the car sent them.            *)
THEOREM InOrder == Spec => HandledInOrder
<1>1. ASSUME IInv, [Next]_vars
      PROVE  [\A n \in handled' \ handled : \A o \in handled : o < n]_vars
  <2>1. CASE PassOther \/ StoreChanged \/ DropSame
    <3>1. phase = "filter" /\ handled' = handled \cup {message.id}
      BY <2>1 DEF PassOther, StoreChanged, DropSame
    <3>2. QED
      BY <1>1, <3>1, HeadNew DEF IInv
  <2>2. CASE ~(PassOther \/ StoreChanged \/ DropSame)
    <3>1. handled' = handled
      BY <1>1, <2>2
         DEF Next, Library, Environment, Read, ReadFull, ReadError, ReadNothing, Transform,
             NoResponse, WriteResponse, ResponseNotWritten, Respond, SendEvent,
             HandlersReturn, EndOfChunk, DisconnectOutput, Reconnect, LinkLost, CarNotifies,
             CarSendsOther, CarAnnouncesKey, CarSends, vars, history
    <3>2. QED
      BY <3>1
  <2>3. QED
    BY <2>1, <2>2
<1>2. QED
  BY <1>1, ReceiveInvariant, PTL DEF Spec, HandledInOrder

-----------------------------------------------------------------------------
(* The output chain implements RegisterEvents.                             *)

Note(m) == [id |-> m.id, register |-> m.register, data |-> m.data]

LEMMA NotifiedAt ==
    ASSUME NEW s, NEW x
    PROVE  x \in Notified(s) <=> \E i \in DOMAIN s : s[i].command = "notify" /\ x = Note(s[i])
  BY DEF Notified, Note

LEMMA NotifiedNumber ==
    ASSUME NEW s \in Seq(Message), NEW x \in Notified(s)
    PROVE  \E i \in 1 .. Len(s) : x = Note(s[i]) /\ x.id = s[i].id /\ x.id \in Nat
<1>1. PICK i \in 1 .. Len(s) : s[i].command = "notify" /\ x = Note(s[i])
  BY NotifiedAt
<1>2. s[i] \in Message /\ x.id = s[i].id
  BY <1>1 DEF Note
<1>3. x.id \in Nat
  BY <1>2, MessageFields DEF Ids
<1>4. QED
  BY <1>1, <1>2, <1>3

LEMMA NotifiedAppend ==
    ASSUME NEW s \in Seq(Message), NEW m \in Message
    PROVE  Notified(Append(s, m)) =
               Notified(s) \cup (IF m.command = "notify" THEN {Note(m)} ELSE {})
<1> DEFINE t == Append(s, m)
<1>1. /\ Len(s) \in Nat /\ DOMAIN s = 1 .. Len(s) /\ DOMAIN t = 1 .. Len(s) + 1
      /\ t[Len(s) + 1] = m /\ \A i \in 1 .. Len(s) : t[i] = s[i]
  OBVIOUS
<1> HIDE DEF t
<1>2. \A i \in 1 .. Len(s) + 1 : i \in 1 .. Len(s) \/ i = Len(s) + 1
  BY <1>1
<1>3. \A i \in 1 .. Len(s) : i \in 1 .. Len(s) + 1
  BY <1>1
<1>4. Len(s) + 1 \in 1 .. Len(s) + 1
  BY <1>1
<1>5. ASSUME NEW x
      PROVE  x \in Notified(t) <=> x \in Notified(s) \/ (m.command = "notify" /\ x = Note(m))
  BY <1>1, <1>2, <1>3, <1>4, NotifiedAt
<1>6. QED
  BY <1>5 DEF t

(* The first message of some, and the rest.                                *)
LEMMA NotifiedTail ==
    ASSUME NEW s \in Seq(Message), s # << >>, Increasing(s)
    PROVE  /\ Notified(Tail(s)) = Notified(s) \ (IF Head(s).command = "notify" THEN {Note(Head(s))} ELSE {})
           /\ Head(s).command = "notify" => Note(Head(s)) \in Notified(s)
           /\ \A n \in Notified(s) : Head(s).id <= n.id
<1> DEFINE t == Tail(s)
           h == Head(s)
<1>1. /\ Len(s) \in Nat /\ DOMAIN s = 1 .. Len(s) /\ 1 \in 1 .. Len(s) /\ h = s[1]
      /\ DOMAIN t = 1 .. Len(s) - 1
      /\ \A i \in 1 .. Len(s) - 1 : i + 1 \in 1 .. Len(s) /\ t[i] = s[i + 1]
  OBVIOUS
<1> HIDE DEF t, h
<1>2. \A i \in 1 .. Len(s) : i = 1 \/ (i - 1 \in 1 .. Len(s) - 1 /\ (i - 1) + 1 = i /\ 1 < i)
  BY <1>1
<1>3. ASSUME NEW i \in 1 .. Len(s) PROVE s[i].id \in Nat
  <2>1. s[i] \in Message
    OBVIOUS
  <2>2. QED
    BY <2>1, MessageFields DEF Ids
<1>4. \A i \in 1 .. Len(s) - 1 : h.id < t[i].id
  BY <1>1 DEF Increasing
<1>5. \A i \in 1 .. Len(s) - 1 : t[i].id \in Nat /\ h.id \in Nat
  BY <1>1, <1>3
<1>6. \A i \in 1 .. Len(s) - 1 : Note(t[i]) # Note(h)
  BY <1>4, <1>5 DEF Note
<1>7. ASSUME NEW x
      PROVE  x \in Notified(t) <=> x \in Notified(s) /\ ~(h.command = "notify" /\ x = Note(h))
  <2>1. ASSUME x \in Notified(t) PROVE x \in Notified(s) /\ x # Note(h)
    <3>1. PICK i \in 1 .. Len(s) - 1 : t[i].command = "notify" /\ x = Note(t[i])
      BY <1>1, <2>1, NotifiedAt
    <3>2. QED
      BY <1>1, <1>6, <3>1, NotifiedAt
  <2>2. ASSUME x \in Notified(s), ~(h.command = "notify" /\ x = Note(h)) PROVE x \in Notified(t)
    <3>1. PICK i \in 1 .. Len(s) : s[i].command = "notify" /\ x = Note(s[i])
      BY <1>1, <2>2, NotifiedAt
    <3>2. i # 1
      BY <1>1, <2>2, <3>1
    <3>3. i - 1 \in 1 .. Len(s) - 1 /\ t[i - 1] = s[i]
      BY <1>1, <1>2, <3>2
    <3>4. QED
      BY <1>1, <3>1, <3>3, NotifiedAt
  <2>3. QED
    BY <2>1, <2>2
<1>8. h.command = "notify" => Note(h) \in Notified(s)
  BY <1>1, NotifiedAt
<1>9. ASSUME NEW n \in Notified(s) PROVE h.id <= n.id
  <2>1. PICK i \in 1 .. Len(s) : n.id = s[i].id
    BY NotifiedNumber
  <2>2. s[i].id \in Nat /\ h.id \in Nat /\ (i = 1 \/ h.id < s[i].id)
    BY <1>1, <1>2, <1>3 DEF Increasing
  <2>3. QED
    BY <1>1, <2>1, <2>2
<1>10. QED
  BY <1>7, <1>8, <1>9 DEF t, h

(* Of a sequence cut in two, the first part holds the first notifications. *)
LEMMA NotifiedCut ==
    ASSUME NEW s \in Seq(Message), Increasing(s), NEW n \in 0 .. Len(s)
    PROVE  LET S == Notified(SubSeq(s, 1, n))
               T == Notified(SubSeq(s, n + 1, Len(s)))
           IN  /\ S \subseteq Notified(s) /\ T = Notified(s) \ S
               /\ \A x \in S, y \in T : x.id < y.id
<1> DEFINE a == SubSeq(s, 1, n)
           b == SubSeq(s, n + 1, Len(s))
<1>1. n \in Nat /\ Len(s) \in Nat /\ n <= Len(s) /\ DOMAIN s = 1 .. Len(s)
  OBVIOUS
<1>2. DOMAIN a = 1 .. n /\ \A i \in 1 .. n : i \in 1 .. Len(s) /\ a[i] = s[i]
  BY <1>1
<1>3. DOMAIN b = 1 .. Len(s) - n /\ \A i \in 1 .. Len(s) - n : i + n \in 1 .. Len(s) /\ b[i] = s[i + n]
  BY <1>1
<1> HIDE DEF a, b
<1>4. \A i \in 1 .. n, j \in 1 .. Len(s) - n : i < j + n
  BY <1>1
<1>5. \A i \in 1 .. n, j \in 1 .. Len(s) - n : a[i].id < b[j].id
  BY <1>2, <1>3, <1>4 DEF Increasing
<1>6. \A i \in 1 .. Len(s) : i \in 1 .. n \/ (i - n \in 1 .. Len(s) - n /\ (i - n) + n = i)
  BY <1>1
<1>7. ASSUME NEW x \in Notified(a), NEW y \in Notified(b) PROVE x.id < y.id
  <2>1. PICK i \in 1 .. n : x = Note(a[i])
    BY <1>2, NotifiedAt
  <2>2. PICK j \in 1 .. Len(s) - n : y = Note(b[j])
    BY <1>3, NotifiedAt
  <2>3. x.id = a[i].id /\ y.id = b[j].id
    BY <2>1, <2>2 DEF Note
  <2>4. QED
    BY <1>5, <2>3
<1>8. Notified(a) \subseteq Notified(s)
  <2>1. ASSUME NEW x \in Notified(a) PROVE x \in Notified(s)
    <3>1. PICK i \in 1 .. n : a[i].command = "notify" /\ x = Note(a[i])
      BY <1>2, NotifiedAt
    <3>2. QED
      BY <1>1, <1>2, <3>1, NotifiedAt
  <2>2. QED
    BY <2>1
<1>9. ASSUME NEW x \in Notified(b) PROVE x \in Notified(s) /\ x \notin Notified(a)
  <2>1. PICK j \in 1 .. Len(s) - n : b[j].command = "notify" /\ x = Note(b[j])
    BY <1>3, NotifiedAt
  <2>2. x \in Notified(s)
    BY <1>1, <1>3, <2>1, NotifiedAt
  <2>3. x.id \in Nat
    BY <2>2, NotifiedNumber
  <2>4. QED
    BY <1>7, <2>2, <2>3
<1>10. ASSUME NEW x \in Notified(s), x \notin Notified(a) PROVE x \in Notified(b)
  <2>1. PICK i \in 1 .. Len(s) : s[i].command = "notify" /\ x = Note(s[i])
    BY <1>1, NotifiedAt
  <2>2. i \notin 1 .. n
    BY <1>2, <1>10, <2>1, NotifiedAt
  <2>3. i - n \in 1 .. Len(s) - n /\ b[i - n] = s[i]
    BY <1>3, <1>6, <2>2
  <2>4. QED
    BY <1>3, <2>1, <2>3, NotifiedAt
<1>11. QED
  BY <1>7, <1>8, <1>9, <1>10 DEF a, b

LEMMA NotifiedNone == Notified(<< >>) = {}
  BY DEF Notified

LEMMA EventsInit == Init => Events!Init
  BY NotifiedNone DEF Init, Events!Init, Coming, Taken

(* What the library reads is taken, or lost when it is torn.               *)
LEMMA EventsTake ==
    ASSUME TypeOK, OrderInv, Read
    PROVE  \/ Events!Lose
           \/ \E S \in SUBSET Coming : Events!Take(S)
<1>1. PICK n \in 0 .. Len(toApp) : chunk' = Split(n) /\ toApp' = SubSeq(toApp, n + 1, Len(toApp))
  BY DEF Read
<1>2. /\ phase = "idle" /\ chunk = << >> /\ phase' \in {"idle", "transform"} /\ seen' = seen
      /\ toApp \in Seq(Message) /\ Increasing(toApp)
  BY DEF Read, TypeOK, OrderInv
<1>3. Taken = {} /\ Taken' = Notified(chunk')
  BY <1>2, NotifiedNone DEF Taken
<1>4. LET S == Notified(SubSeq(toApp, 1, n))
      IN  /\ S \subseteq Coming /\ Coming' = Coming \ S
          /\ \A x \in S, y \in Coming' : x.id < y.id
  BY <1>1, <1>2, NotifiedCut DEF Coming
<1>5. CASE torn
  <2>1. Taken' = {}
    BY <1>1, <1>3, <1>5, NotifiedNone DEF Split
  <2>2. QED
    BY <1>2, <1>3, <1>4, <2>1 DEF Events!Lose
<1>6. CASE ~torn
  <2> DEFINE S == Notified(SubSeq(toApp, 1, n))
  <2>1. Taken' = S
    BY <1>1, <1>3, <1>6 DEF Split
  <2> HIDE DEF S
  <2>2. S \subseteq Coming /\ Coming' = Coming \ S /\ \A x \in S, y \in Coming \ S : x.id < y.id
    BY <1>4 DEF S
  <2>3. Events!Take(S)
    BY <1>2, <1>3, <2>1, <2>2 DEF Events!Take
  <2>4. QED
    BY <2>2, <2>3
<1>7. QED
  BY <1>5, <1>6

(* Steps before a message is read lose it at most.                         *)
LEMMA EventsLose ==
    ASSUME TypeOK, OrderInv, ReadFull \/ DisconnectOutput \/ Reconnect
    PROVE  Events!Lose
<1>1. UNCHANGED <<chunk, phase, seen>>
  BY DEF ReadFull, DisconnectOutput, Reconnect, chain
<1>2. Taken' = Taken
  BY <1>1 DEF Taken
<1>3. CASE ReadFull
  <2>1. PICK n \in 0 .. Len(toApp) : toApp' = SubSeq(toApp, n + 1, Len(toApp))
    BY <1>3 DEF ReadFull
  <2>2. toApp \in Seq(Message) /\ Increasing(toApp)
    BY DEF TypeOK, OrderInv
  <2>3. Coming' \subseteq Coming
    BY <2>1, <2>2, NotifiedCut DEF Coming
  <2>4. QED
    BY <1>1, <1>2, <2>3 DEF Events!Lose
<1>4. CASE DisconnectOutput \/ Reconnect
  <2>1. toApp' = << >>
    BY <1>4 DEF DisconnectOutput, Reconnect
  <2>2. Coming' = {}
    BY <2>1, NotifiedNone DEF Coming
  <2>3. QED
    BY <1>1, <1>2, <2>2 DEF Events!Lose
<1>5. QED
  BY <1>3, <1>4

(* A message of the car comes after all that are under way.                *)
LEMMA EventsSend ==
    ASSUME TypeOK, OrderInv, NEW m \in Message, m.id = messages + 1, CarSends(m), seen' = seen
    PROVE  \/ Events!Send(Note(m)) /\ Note(m) \in Events!Notification
           \/ UNCHANGED <<Coming, Taken, seen>>
<1>1. toApp' = Append(toApp, m) /\ UNCHANGED <<chunk, phase>> /\ toApp \in Seq(Message)
  BY DEF CarSends, chain, TypeOK
<1>2. Taken' = Taken
  BY <1>1 DEF Taken
<1>3. Coming' = Coming \cup (IF m.command = "notify" THEN {Note(m)} ELSE {})
  BY <1>1, NotifiedAppend DEF Coming
<1>4. CASE m.command # "notify"
  BY <1>2, <1>3, <1>4
<1>5. CASE m.command = "notify"
  <2>1. Note(m).id = messages + 1
    BY DEF Note
  <2>2. ASSUME NEW n \in Coming PROVE n.id < messages + 1
    <3>1. PICK i \in 1 .. Len(toApp) : n.id = toApp[i].id /\ n.id \in Nat
      BY <1>1, <2>2, NotifiedNumber DEF Coming
    <3>2. QED
      BY <3>1, QueueIds DEF OrderInv
  <2>3. ASSUME NEW n \in Taken PROVE n.id < messages + 1
    <3>1. CASE phase \in {"application", "filtered"}
      <4>1. chunk # << >> /\ chunk \in Seq(Message) /\ Increasing(chunk)
        BY <3>1 DEF TypeOK, OrderInv
      <4>2. n \in Notified(chunk)
        BY <3>1, <4>1, NotifiedTail DEF Taken
      <4>3. PICK i \in 1 .. Len(chunk) : n.id = chunk[i].id /\ n.id \in Nat
        BY <4>1, <4>2, NotifiedNumber
      <4>4. QED
        BY <4>3, QueueIds DEF OrderInv
    <3>2. CASE phase \notin {"application", "filtered"}
      <4>1. PICK i \in 1 .. Len(chunk) : n.id = chunk[i].id /\ n.id \in Nat
        BY <3>2, QueueIds, NotifiedNumber DEF Taken
      <4>2. QED
        BY <4>1, QueueIds DEF OrderInv
    <3>3. QED
      BY <3>1, <3>2
  <2>4. Events!Send(Note(m))
    BY <1>2, <1>3, <1>5, <2>1, <2>2, <2>3 DEF Events!Send
  <2>5. Note(m) \in Events!Notification
    <3>1. m.id \in Ids /\ m.register \in Registers /\ m.data \in Data
      BY <1>5, MessageFields
    <3>2. QED
      BY <3>1 DEF Note, Events!Notification
  <2>6. QED
    BY <2>4, <2>5
<1>6. QED
  BY <1>4, <1>5

(* The head of the chunk is the first of what is taken, until it is done.  *)
LEMMA HeadTaken ==
    ASSUME TypeOK, OrderInv, phase \notin {"idle", "application", "filtered"},
           phase' \in {"application", "filtered"}, chunk' = chunk
    PROVE  /\ Taken' = Taken \ (IF message.command = "notify" THEN {Note(message)} ELSE {})
           /\ message.command = "notify" => Events!First(Note(message))
<1>1. chunk # << >> /\ chunk \in Seq(Message) /\ Increasing(chunk) /\ message = Head(chunk)
  BY DEF TypeOK, OrderInv, message
<1>2. Taken = Notified(chunk) /\ Taken' = Notified(Tail(chunk))
  BY DEF Taken
<1>3. Note(message).id = message.id
  BY DEF Note
<1>4. QED
  BY <1>1, <1>2, <1>3, NotifiedTail DEF Events!First

(* The filter drops a value that looks like the one the handlers saw.      *)
LEMMA EventsDrop ==
    ASSUME TypeOK, OrderInv, EventInv, DropSame
    PROVE  \E n \in Taken : Events!Drop(n)
<1>1. /\ phase = "filter" /\ phase' = "filtered" /\ UNCHANGED <<chunk, toApp, seen>>
      /\ message.command = "notify" /\ MaySeemSame(model[message.register], message.data)
  BY DEF DropSame, link
<1>2. message.register \in Registers /\ message.data \in Data
  BY <1>1, HeadType, MessageFields
<1>3. Taken' = Taken \ {Note(message)} /\ Events!First(Note(message))
  BY <1>1, HeadTaken
<1>4. seen[message.register] = model[message.register] /\ seen[message.register] \in Data \cup {Unset}
  BY <1>1, <1>2 DEF EventInv, EventsShowModel, TypeOK
<1>5. Events!Old(Note(message)) = <<seen[message.register], message.data>>
  BY DEF Events!Old, Note
<1>6. Events!Old(Note(message)) \in {p \in Compared : MaySeemSame(p[1], p[2])}
  <2> DEFINE o == seen[message.register]
             d == message.data
  <2>1. o \in Data \cup {Unset} /\ d \in Data /\ MaySeemSame(o, d)
    BY <1>1, <1>2, <1>4
  <2> HIDE DEF o, d
  <2>2. <<o, d>> \in Compared /\ <<o, d>>[1] = o /\ <<o, d>>[2] = d
    BY <2>1 DEF Compared
  <2>3. <<o, d>> \in {p \in Compared : MaySeemSame(p[1], p[2])}
    BY <2>1, <2>2
  <2>4. QED
    BY <1>5, <2>3 DEF o, d
<1>7. Coming' = Coming
  BY <1>1 DEF Coming
<1>8. Events!Drop(Note(message))
  BY <1>1, <1>3, <1>6, <1>7 DEF Events!Drop
<1>9. QED
  BY <1>3, <1>8 DEF Events!First

(* The handlers are shown a value that differs from the one they saw.      *)
LEMMA EventsShow ==
    ASSUME TypeOK, OrderInv, EventInv, SendEvent
    PROVE  \/ \E n \in Taken : Events!Show(n)
           \/ UNCHANGED <<Coming, Taken, seen>>
<1>1. /\ phase = "event" /\ phase' = "application" /\ UNCHANGED <<chunk, toApp>>
      /\ seen' = IF message.command = "notify"
                 THEN [seen EXCEPT ![message.register] = message.data] ELSE seen
  BY DEF SendEvent, link
<1>2. Coming' = Coming
  BY <1>1 DEF Coming
<1>3. /\ Taken' = Taken \ (IF message.command = "notify" THEN {Note(message)} ELSE {})
      /\ message.command = "notify" => Events!First(Note(message))
  BY <1>1, HeadTaken
<1>4. CASE message.command # "notify"
  BY <1>1, <1>2, <1>3, <1>4
<1>5. CASE message.command = "notify"
  <2>1. Events!Old(Note(message)) \notin {p \in Compared : MustSeemSame(p[1], p[2])}
    <3> DEFINE o == seen[message.register]
               d == message.data
    <3>1. Events!Old(Note(message)) = <<o, d>>
      BY DEF Events!Old, Note
    <3>2. ~MustSeemSame(o, d)
      BY <1>1, <1>5 DEF EventInv
    <3> HIDE DEF o, d
    <3>3. <<o, d>> \notin {p \in Compared : MustSeemSame(p[1], p[2])}
      <4>1. <<o, d>>[1] = o /\ <<o, d>>[2] = d
        OBVIOUS
      <4>2. QED
        BY <3>2, <4>1
    <3>4. QED
      BY <3>1, <3>3
  <2>2. Note(message).register = message.register /\ Note(message).data = message.data
    BY DEF Note
  <2>3. Events!Show(Note(message))
    BY <1>1, <1>2, <1>3, <1>5, <2>1, <2>2 DEF Events!Show
  <2>4. QED
    BY <1>3, <1>5, <2>3 DEF Events!First
<1>6. QED
  BY <1>4, <1>5

(* Each step is a step of RegisterEvents, or leaves its variables alone.   *)
LEMMA EventsNext == IInv /\ [Next]_vars => [Events!Next]_(Events!events)
<1> SUFFICES ASSUME IInv, [Next]_vars
             PROVE  Events!Next \/ UNCHANGED <<Coming, Taken, seen>>
  BY DEF Events!events
<1> USE DEF IInv
<1>1. CASE Read
  BY <1>1, EventsTake DEF Events!Next
<1>2. CASE ReadFull \/ DisconnectOutput \/ Reconnect
  BY <1>2, EventsLose DEF Events!Next
<1>3. CASE DropSame
  BY <1>3, EventsDrop DEF Events!Next
<1>4. CASE SendEvent
  BY <1>4, EventsShow DEF Events!Next
<1>5. CASE HandlersReturn \/ EndOfChunk
  <2>1. /\ phase \in {"application", "filtered"} /\ phase' \in {"idle", "transform"}
        /\ chunk' = Tail(chunk) /\ UNCHANGED <<toApp, seen>>
    BY <1>5 DEF HandlersReturn, EndOfChunk, link
  <2>2. Taken' = Taken
    BY <2>1 DEF Taken
  <2>3. QED
    BY <2>1, <2>2 DEF Coming
<1>6. CASE \/ Transform \/ PassOther \/ StoreChanged \/ NoResponse
           \/ WriteResponse \/ ResponseNotWritten
  <2>1. /\ phase \notin {"application", "filtered"} /\ phase' \notin {"application", "filtered"}
        /\ UNCHANGED <<chunk, toApp, seen>>
    BY <1>6 DEF Transform, PassOther, StoreChanged, NoResponse, WriteResponse,
         ResponseNotWritten, Respond, link
  <2>2. Taken' = Taken
    BY <2>1 DEF Taken
  <2>3. QED
    BY <2>1, <2>2 DEF Coming
<1>7. CASE CarNotifies \/ CarSendsOther \/ CarAnnouncesKey
  <2>1. PICK m \in Message : m.id = messages + 1 /\ CarSends(m)
    <3>1. messages + 1 \in Ids
      BY <1>7, NextId DEF CarNotifies, CarSendsOther, CarAnnouncesKey, CarSends
    <3>2. carXOR \in Key
      BY DEF TypeOK
    <3>3. PICK m : /\ CarSends(m)
                   /\ \/ \E r \in Registers, d \in Data : m = Notify(r, d, carXOR, messages + 1)
                      \/ \E r \in Registers : m = UpdateAck(r, carXOR, messages + 1)
                      \/ m = Start(messages + 1)
                      \/ \E c \in {"bb", "cc"}, k \in Key : m = NewKey(c, k, carXOR, messages + 1)
      BY <1>7 DEF CarNotifies, CarSendsOther, CarAnnouncesKey
    <3>4. m \in Message
      BY <3>1, <3>2, <3>3 DEF Message
    <3>5. m.id = messages + 1
      BY <3>3 DEF Notify, UpdateAck, Start, NewKey
    <3>6. QED
      BY <3>3, <3>4, <3>5
  <2>2. seen' = seen
    BY <2>1 DEF CarSends
  <2>3. QED
    BY <2>1, <2>2, EventsSend DEF Events!Next
<1>8. CASE ReadError \/ LinkLost \/ ReadNothing \/ UNCHANGED vars
  <2>1. UNCHANGED <<chunk, phase, toApp, seen>>
    BY <1>8 DEF ReadError, LinkLost, ReadNothing, vars, chain, link
  <2>2. QED
    BY <2>1 DEF Coming, Taken
<1>9. QED
  BY <1>1, <1>2, <1>3, <1>4, <1>5, <1>6, <1>7, <1>8 DEF Next, Library, Environment

(* What a read took reaches the event handlers of phev_pipe.c in the order *)
(* of the car, unless phev_service_outputFilter took it for a value they   *)
(* have seen: nothing of it is lost when the link breaks or a handler      *)
(* closes it, and nothing is shown twice.                                  *)
THEOREM EventsImplemented == Spec => EventsDelivered
  BY EventsInit, EventsNext, ReceiveInvariant, PTL DEF Spec, EventsDelivered, Events!Spec

=============================================================================
