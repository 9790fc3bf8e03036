---------------------------- MODULE CommandsProofs ----------------------------
(***************************************************************************)
(* Proofs about requests, for any numbers in them, any length of arrays    *)
(* and any number of requests in a message: an operation means one command *)
(* and its own, and a plain request becomes the command it means.          *)
(***************************************************************************)
EXTENDS Commands, TLAPS

(* What an operation asked for sends, whichever way it was asked for; for  *)
(* the air conditioning that depends on the way.                           *)
Explained(a) ==
    \/ a.name = "airCon"
    \/ /\ a.name = "headLights"
       /\ a.argument \in {"on", "off"}
       /\ a.command = Command(KO_WF_H_LAMP_CONT_SP, <<IF a.argument = "on" THEN 1 ELSE 2>>)
    \/ /\ a.name = "parkingLights"
       /\ a.argument \in {"on", "off"}
       /\ a.command = Command(KO_WF_P_LAMP_CONT_SP, <<IF a.argument = "on" THEN 1 ELSE 2>>)
    \/ a.name = "update" /\ a.argument = "true" /\ a.command = UpdateAll
    \/ a.name = "removeACError" /\ a.argument = "true" /\ a.command = RemoveACError
    \/ /\ a.name = "airConMode"
       /\ \E m \in Mode, t \in Time : a.argument = <<m, t>> /\ a.command = AirConMode(m, t)
    \/ /\ a.name = "airConMY19"
       /\ \E m \in Mode, t \in Time : a.argument = <<m, t>> /\ a.command = AirConMY19(m, t)

AskedInv == \A a \in Asked : Explained(a)

-----------------------------------------------------------------------------
(* Steps.                                                                  *)

LEMMA InitAsked == Init => AskedInv
  BY DEF Init, AskedInv, Asked

(* The history is shifted; only the new entry is to be explained.          *)
LEMMA Remembered ==
    ASSUME AskedInv, NEW n, NEW arg, NEW c, Remember(n, arg, c),
           Explained([name |-> n, argument |-> arg, command |-> c])
    PROVE  AskedInv'
  BY DEF AskedInv, Asked, Remember

LEMMA NotRemembered == ASSUME AskedInv, NothingAsked PROVE AskedInv'
  BY DEF AskedInv, Asked, NothingAsked

(* An operation that is checked is translated as Explained says.           *)
LEMMA OperationExplained ==
    ASSUME NEW o, ValidOperation(o)
    PROVE  Explained([name |-> o.name, argument |-> o.argument, command |-> OperationCommand(o)])
<1>1. CASE o.name = "headLights"
  BY <1>1 DEF ValidOperation, OperationCommand, Explained
<1>2. CASE o.name = "airCon"
  BY <1>2 DEF Explained
<1>3. CASE o.name = "update"
  BY <1>3 DEF ValidOperation, OperationCommand, Explained, UpdateAll
<1>4. QED
  BY <1>1, <1>2, <1>3 DEF ValidOperation

LEMMA NextAsked == ASSUME AskedInv, [Next]_vars PROVE AskedInv'
<1>1. CASE InputArrives \/ DropUnconnected \/ ConnectionChanges
  BY <1>1, NotRemembered DEF InputArrives, DropUnconnected, ConnectionChanges
<1>2. CASE TransformInput
  <2> DEFINE r == Head(bundle)
  <2>1. CASE NothingAsked
    BY <2>1, NotRemembered
  <2>2. CASE /\ issued' # None /\ r.update = None
             /\ Remember(r.operation.name, r.operation.argument, issued')
    <3>1. issued' = ToCommand(r)
      BY <1>2 DEF TransformInput
    <3>2. ~HasUpdate(r)
      BY <2>2 DEF HasUpdate
    <3>3. ValidateCommand(r)
      BY <2>2, <3>1 DEF ToCommand
    <3>4. ValidOperation(r.operation)
      BY <3>2, <3>3 DEF ValidateCommand
    <3>5. issued' = OperationCommand(r.operation)
      BY <2>2, <3>1, <3>3 DEF ToCommand
    <3>6. Explained([name |-> r.operation.name, argument |-> r.operation.argument,
                     command |-> issued'])
      BY <3>4, <3>5, OperationExplained
    <3>7. QED
      BY <2>2, <3>6, Remembered
  <2>3. QED
    BY <1>2, <2>1, <2>2 DEF TransformInput
<1>3. CASE CallHeadLights
  <2>1. PICK on \in BOOLEAN, callback \in BOOLEAN :
            Remember("headLights", IF on THEN "on" ELSE "off", HeadLights(on, callback))
    BY <1>3 DEF CallHeadLights, Call
  <2>2. Explained([name |-> "headLights", argument |-> IF on THEN "on" ELSE "off",
                   command |-> HeadLights(on, callback)])
    BY DEF Explained, HeadLights
  <2>3. QED
    BY <2>1, <2>2, Remembered
<1>4. CASE CallAirCon
  <2>1. PICK on \in BOOLEAN, callback \in BOOLEAN :
            Remember("airCon", IF on THEN "on" ELSE "off", AirCon(on, callback))
    BY <1>4 DEF CallAirCon, Call
  <2>2. Explained([name |-> "airCon", argument |-> IF on THEN "on" ELSE "off",
                   command |-> AirCon(on, callback)])
    BY DEF Explained
  <2>3. QED
    BY <2>1, <2>2, Remembered
<1>5. CASE CallParkingLights
  <2>1. PICK on \in BOOLEAN, callback \in BOOLEAN :
            Remember("parkingLights", IF on THEN "on" ELSE "off", ParkingLights(on, callback))
    BY <1>5 DEF CallParkingLights, Call
  <2>2. Explained([name |-> "parkingLights", argument |-> IF on THEN "on" ELSE "off",
                   command |-> ParkingLights(on, callback)])
    BY DEF Explained, ParkingLights
  <2>3. QED
    BY <2>1, <2>2, Remembered
<1>6. CASE CallUpdateAll
  <2>1. Explained([name |-> "update", argument |-> "true", command |-> UpdateAll])
    BY DEF Explained
  <2>2. QED
    BY <1>6, <2>1, Remembered DEF CallUpdateAll, Call
<1>7. CASE CallRemoveACError
  <2>1. Explained([name |-> "removeACError", argument |-> "true", command |-> RemoveACError])
    BY DEF Explained
  <2>2. QED
    BY <1>7, <2>1, Remembered DEF CallRemoveACError, Call
<1>8. CASE CallAirConMode
  <2>1. PICK m \in Mode, t \in Time : Remember("airConMode", <<m, t>>, AirConMode(m, t))
    BY <1>8 DEF CallAirConMode, Call
  <2>2. Explained([name |-> "airConMode", argument |-> <<m, t>>, command |-> AirConMode(m, t)])
    BY DEF Explained
  <2>3. QED
    BY <2>1, <2>2, Remembered
<1>9. CASE CallAirConMY19
  <2>1. PICK m \in Mode, t \in Time : Remember("airConMY19", <<m, t>>, AirConMY19(m, t))
    BY <1>9 DEF CallAirConMY19, Call
  <2>2. Explained([name |-> "airConMY19", argument |-> <<m, t>>, command |-> AirConMY19(m, t)])
    BY DEF Explained
  <2>3. QED
    BY <2>1, <2>2, Remembered
<1>10. CASE UNCHANGED vars
  BY <1>10 DEF vars, history, AskedInv, Asked
<1>11. QED
  BY <1>1, <1>2, <1>3, <1>4, <1>5, <1>6, <1>7, <1>8, <1>9, <1>10 DEF Next

(* Whatever was asked for sent what Explained says.                        *)
THEOREM AskedExplained == Spec => []AskedInv
  BY InitAsked, NextAsked, PTL DEF Spec

-----------------------------------------------------------------------------
(* Commands that differ.                                                   *)

(* An operation, but for the air conditioning, is known by its register.   *)
RegisterOf(name) ==
    CASE name = "headLights" -> KO_WF_H_LAMP_CONT_SP
      [] name = "parkingLights" -> KO_WF_P_LAMP_CONT_SP
      [] name = "update" -> KO_WF_EV_UPDATE_SP
      [] name = "removeACError" -> ACErrorRegister
      [] name = "airConMode" -> KO_WF_AC_SCH_SP
      [] name = "airConMY19" -> KO_WF_AC_SCH_SP_MY19

Named == {"headLights", "parkingLights", "update", "removeACError", "airConMode", "airConMY19"}

LEMMA RegistersDiffer ==
    \A m, n \in Named : RegisterOf(m) = RegisterOf(n) => m = n
  BY DEF Named, RegisterOf, KO_WF_H_LAMP_CONT_SP, KO_WF_P_LAMP_CONT_SP, KO_WF_EV_UPDATE_SP,
         ACErrorRegister, KO_WF_AC_SCH_SP, KO_WF_AC_SCH_SP_MY19

LEMMA ExplainedRegister ==
    ASSUME NEW a, Explained(a), a.name # "airCon"
    PROVE  a.name \in Named /\ a.command.register = RegisterOf(a.name)
<1>1. CASE a.name \in {"headLights", "parkingLights"}
  BY <1>1 DEF Explained, Named, RegisterOf, Command
<1>2. CASE a.name \in {"update", "removeACError"}
  BY <1>2 DEF Explained, Named, RegisterOf, Command, UpdateAll, RemoveACError
<1>3. CASE a.name = "airConMode"
  <2>1. PICK m \in Mode, t \in Time : a.command = AirConMode(m, t)
    BY <1>3 DEF Explained
  <2>2. QED
    BY <1>3, <2>1 DEF Named, RegisterOf, Command, AirConMode
<1>4. CASE a.name = "airConMY19"
  <2>1. PICK m \in Mode, t \in Time : a.command = AirConMY19(m, t)
    BY <1>4 DEF Explained
  <2>2. QED
    BY <1>4, <2>1 DEF Named, RegisterOf, Command, AirConMY19
<1>5. QED
  BY <1>1, <1>2, <1>3, <1>4 DEF Explained

(* The mode and the time can be read from the byte that holds both.        *)
LEMMA ModeByte ==
    \A m \in Mode, t \in Time :
        /\ m \in Nat /\ t \in Nat
        /\ (m + 16 * t) % 16 = m
        /\ (m + 16 * t) \div 16 = t
  BY DEF Mode, Time

LEMMA ModeData ==
    ASSUME NEW m \in Mode, NEW t \in Time
    PROVE  AirConMode(m, t).data[7] = m + 16 * t
  BY DEF AirConMode, Command

LEMMA MY19Data ==
    ASSUME NEW m \in Mode, NEW t \in Time
    PROVE  AirConMY19(m, t).data[2] = m /\ AirConMY19(m, t).data[3] = t
  BY DEF AirConMY19, Command

(* The argument can be read from the command.                              *)
LEMMA ExplainedArgument ==
    ASSUME NEW x, NEW y, Explained(x), Explained(y), x.name = y.name, x.name # "airCon",
           x.command = y.command
    PROVE  x.argument = y.argument
<1>1. CASE x.name \in {"headLights", "parkingLights"}
  <2>1. /\ x.argument \in {"on", "off"} /\ y.argument \in {"on", "off"}
        /\ x.command.data = <<IF x.argument = "on" THEN 1 ELSE 2>>
        /\ y.command.data = <<IF y.argument = "on" THEN 1 ELSE 2>>
    BY <1>1 DEF Explained, Command
  <2>2. x.command.data[1] = y.command.data[1]
    OBVIOUS
  <2>3. QED
    BY <2>1, <2>2
<1>2. CASE x.name \in {"update", "removeACError"}
  BY <1>2 DEF Explained
<1>3. CASE x.name = "airConMode"
  <2>1. PICK m \in Mode, t \in Time : x.argument = <<m, t>> /\ x.command = AirConMode(m, t)
    BY <1>3 DEF Explained
  <2>2. PICK m2 \in Mode, t2 \in Time : y.argument = <<m2, t2>> /\ y.command = AirConMode(m2, t2)
    BY <1>3 DEF Explained
  <2>3. m + 16 * t = m2 + 16 * t2
    BY <2>1, <2>2, ModeData
  <2>4. m = m2 /\ t = t2
    BY <2>3, ModeByte
  <2>5. QED
    BY <2>1, <2>2, <2>4
<1>4. CASE x.name = "airConMY19"
  <2>1. PICK m \in Mode, t \in Time : x.argument = <<m, t>> /\ x.command = AirConMY19(m, t)
    BY <1>4 DEF Explained
  <2>2. PICK m2 \in Mode, t2 \in Time : y.argument = <<m2, t2>> /\ y.command = AirConMY19(m2, t2)
    BY <1>4 DEF Explained
  <2>3. m = m2 /\ t = t2
    <3>1. AirConMY19(m, t) = AirConMY19(m2, t2)
      BY <2>1, <2>2
    <3>2. QED
      BY <3>1, MY19Data
  <2>4. QED
    BY <2>1, <2>2, <2>3
<1>5. QED
  BY <1>1, <1>2, <1>3, <1>4 DEF Explained

(* Different operations, and one operation with different arguments, send  *)
(* different commands.                                                     *)
THEOREM TellsApart == Spec => []OperationsDiffer
<1>1. ASSUME AskedInv PROVE OperationsDiffer
  <2>1. SUFFICES ASSUME NEW x \in Asked, NEW y \in Asked, x.command = y.command,
                        "airCon" \notin {x.name, y.name}
                 PROVE  x.name = y.name /\ x.argument = y.argument
    BY DEF OperationsDiffer
  <2>2. Explained(x) /\ Explained(y) /\ x.name # "airCon" /\ y.name # "airCon"
    BY <1>1, <2>1 DEF AskedInv
  <2>3. x.name = y.name
    BY <2>1, <2>2, ExplainedRegister, RegistersDiffer
  <2>4. QED
    BY <2>1, <2>2, <2>3, ExplainedArgument
<1>2. QED
  BY <1>1, AskedExplained, PTL

(* An operation sends the same command whichever way it is asked for.      *)
THEOREM MeansTheSame == Spec => []OperationsAgree
<1>1. ASSUME AskedInv PROVE OperationsAgree
  <2>1. SUFFICES ASSUME NEW x \in Asked, NEW y \in Asked, x.name # "airCon",
                        x.name = y.name, x.argument = y.argument
                 PROVE  x.command = y.command
    BY DEF OperationsAgree, OneMeaning
  <2>2. Explained(x) /\ Explained(y)
    BY <1>1, <2>1 DEF AskedInv
  <2>3. CASE x.name = "airConMode"
    <3>1. PICK m \in Mode, t \in Time : x.argument = <<m, t>> /\ x.command = AirConMode(m, t)
      BY <2>2, <2>3 DEF Explained
    <3>2. PICK m2 \in Mode, t2 \in Time : y.argument = <<m2, t2>> /\ y.command = AirConMode(m2, t2)
      BY <2>1, <2>2, <2>3 DEF Explained
    <3>3. m = m2 /\ t = t2
      <4>1. <<m, t>> = <<m2, t2>>
        BY <2>1, <3>1, <3>2
      <4>2. QED
        BY <4>1
    <3>4. QED
      BY <3>1, <3>2, <3>3
  <2>4. CASE x.name = "airConMY19"
    <3>1. PICK m \in Mode, t \in Time : x.argument = <<m, t>> /\ x.command = AirConMY19(m, t)
      BY <2>2, <2>4 DEF Explained
    <3>2. PICK m2 \in Mode, t2 \in Time : y.argument = <<m2, t2>> /\ y.command = AirConMY19(m2, t2)
      BY <2>1, <2>2, <2>4 DEF Explained
    <3>3. m = m2 /\ t = t2
      <4>1. <<m, t>> = <<m2, t2>>
        BY <2>1, <3>1, <3>2
      <4>2. QED
        BY <4>1
    <3>4. QED
      BY <3>1, <3>2, <3>3
  <2>5. CASE x.name \notin {"airConMode", "airConMY19"}
    BY <2>1, <2>2, <2>5 DEF Explained
  <2>6. QED
    BY <2>3, <2>4, <2>5
<1>2. QED
  BY <1>1, AskedExplained, PTL

(* Both calls for the mode of the air conditioning ask for the same mode   *)
(* and time.                                                               *)
THEOREM YearsAgree == Spec => []ModesAgree
<1>1. ASSUME AskedInv PROVE ModesAgree
  <2>1. SUFFICES ASSUME NEW x \in Asked, NEW y \in Asked, x.name = "airConMode",
                        y.name = "airConMY19", x.argument = y.argument
                 PROVE  /\ y.command.data[2] = x.command.data[7] % 16
                        /\ y.command.data[3] = x.command.data[7] \div 16
    BY DEF ModesAgree
  <2>2. Explained(x) /\ Explained(y)
    BY <1>1, <2>1 DEF AskedInv
  <2>3. PICK m \in Mode, t \in Time : x.argument = <<m, t>> /\ x.command = AirConMode(m, t)
    BY <2>1, <2>2 DEF Explained
  <2>4. PICK m2 \in Mode, t2 \in Time : y.argument = <<m2, t2>> /\ y.command = AirConMY19(m2, t2)
    BY <2>1, <2>2 DEF Explained
  <2>5. m = m2 /\ t = t2
    <3>1. <<m, t>> = <<m2, t2>>
      BY <2>1, <2>3, <2>4
    <3>2. QED
      BY <3>1
  <2>6. QED
    BY <2>3, <2>4, <2>5, ModeData, MY19Data, ModeByte
<1>2. QED
  BY <1>1, AskedExplained, PTL

-----------------------------------------------------------------------------
(* Requests.                                                               *)

(* A number that does not wrap around in 16 bits.                          *)
Small(n) == n \in Int /\ 0 <= n /\ n < 65536

LEMMA Bytes ==
    ASSUME NEW n, Small(n)
    PROVE  /\ CheckByte(n) <=> n \in Byte
           /\ n \in Byte => n % 256 = n
<1>1. n % 65536 = n
  BY DEF Small
<1>2. n \in Byte <=> n < 256
  BY DEF Small, Byte
<1>3. n < 256 => n % 256 = n
  BY DEF Small
<1>4. QED
  BY <1>1, <1>2, <1>3 DEF CheckByte

LEMMA Kinds ==
    ASSUME NEW v \in Json
    PROVE  /\ v.kind \in {"number", "text", "absent", "array"}
           /\ v.kind = "array" => v.items \in Seq(Scalar)
           /\ v.int \in Int
<1>1. CASE v \in Scalar \cup {Absent}
  BY <1>1, CommandsAssumption DEF CommandsAssumption, Scalar, Absent, Number, Text
<1>2. CASE v \in Arrays
  <2>1. PICK s \in UNION {[1 .. n -> Scalar] : n \in 0 .. MaxItems} : v = Array(s)
    BY <1>2 DEF Arrays
  <2>2. PICK n \in 0 .. MaxItems : s \in [1 .. n -> Scalar]
    BY <2>1
  <2>3. n \in Nat
    BY CommandsAssumption DEF CommandsAssumption
  <2>4. s \in Seq(Scalar)
    BY <2>2, <2>3
  <2>5. v.kind = "array" /\ v.items = s /\ v.int = 0
    BY <2>1 DEF Array
  <2>6. QED
    BY <2>4, <2>5
<1>3. QED
  BY <1>1, <1>2 DEF Json

(* A request for an operation becomes a command exactly when it is valid.  *)
LEMMA OperationAsMeant ==
    ASSUME NEW r \in Request, r.update = None
    PROVE  MeansCommand(r, ToCommand(r))
<1>1. ~HasUpdate(r)
  BY DEF HasUpdate
<1>2. CASE r.operation = None \/ ~ValidOperation(r.operation)
  <2>1. ToCommand(r) = None
    BY <1>1, <1>2 DEF ToCommand, ValidateCommand
  <2>2. QED
    BY <1>2, <2>1 DEF MeansCommand
<1>3. CASE r.operation # None /\ ValidOperation(r.operation)
  <2>1. ToCommand(r) = OperationCommand(r.operation)
    BY <1>1, <1>3 DEF ToCommand, ValidateCommand
  <2>2. OperationCommand(r.operation).kind = "command"
    <3>1. CASE r.operation.name = "headLights"
      BY <3>1 DEF OperationCommand, Command
    <3>2. CASE r.operation.name = "airCon"
      BY <3>2 DEF OperationCommand, Command
    <3>3. CASE r.operation.name = "update"
      BY <3>3 DEF OperationCommand, Command
    <3>4. QED
      BY <1>3, <3>1, <3>2, <3>3 DEF ValidOperation
  <2>3. None.kind = "none"
    BY DEF None
  <2>4. ToCommand(r) # None
    BY <2>1, <2>2, <2>3
  <2>5. QED
    BY <1>3, <2>4 DEF MeansCommand
<1>4. QED
  BY <1>2, <1>3

(* What MeansCommand says of an update.                                    *)
LEMMA MeansUpdate ==
    ASSUME NEW r \in Request, r.update # None, NEW c, NEW s, Sent(r.update) = s,
           IF r.update.register.int \in Byte
              /\ \A i \in DOMAIN s : s[i].kind = "number" /\ s[i].int \in Byte
           THEN c = Command(r.update.register.int, [i \in DOMAIN s |-> s[i].int])
           ELSE c = None
    PROVE  MeansCommand(r, c)
  BY DEF MeansCommand, Command

(* An update whose register is a number, with no number that wraps around, *)
(* is sent byte for byte if all of it are bytes, and else not at all.      *)
LEMMA UpdateAsMeant ==
    ASSUME NEW r \in Request, r.update # None, r.operation = None, Plain(r)
    PROVE  MeansCommand(r, ToCommand(r))
<1> DEFINE u == r.update
           v == u.value
           n == u.register.int
<1>1. u \in Update /\ v \in Json
  BY DEF Request, Update
<1>2. v.kind \in {"number", "text", "absent", "array"}
  BY <1>1, Kinds
<1>3. u.register.kind = "number" /\ \A k \in NumbersOf(u) : 0 <= k /\ k < 65536
  BY DEF Plain
<1>4. Given(u.register) /\ Small(n)
  <2>1. u.register \in Json
    BY <1>1 DEF Update, Json
  <2>2. n \in Int
    BY <2>1, Kinds
  <2>3. QED
    BY <1>3, <2>2 DEF NumbersOf, Given, Small
<1>5. CASE v.kind \in {"absent", "text"}
  <2>1. UpdateCommand(u) = None
    BY <1>5 DEF UpdateCommand
  <2>2. ToCommand(r) = None
    <3>1. CASE HasUpdate(r)
      BY <2>1, <3>1 DEF ToCommand
    <3>2. CASE ~HasUpdate(r)
      BY <3>2 DEF ToCommand, ValidateCommand
    <3>3. QED
      BY <3>1, <3>2
  <2>3. Sent(u) = <<v>>
    BY <1>5 DEF Sent
  <2>4. 1 \in DOMAIN <<v>> /\ <<v>>[1].kind # "number"
    BY <1>5
  <2>5. QED
    BY <2>2, <2>3, <2>4, MeansUpdate
<1>6. CASE v.kind = "number"
  <2>1. Sent(u) = <<v>>
    BY <1>6 DEF Sent
  <2>2. Small(v.int)
    <3>1. v.int \in Int
      BY <1>1, Kinds
    <3>2. 1 \in DOMAIN <<v>> /\ <<v>>[1] = v
      OBVIOUS
    <3>3. v.int \in NumbersOf(u)
      BY <2>1, <3>2 DEF NumbersOf
    <3>4. QED
      BY <1>3, <3>1, <3>3 DEF Small
  <2>3. HasUpdate(r)
    BY <1>4, <1>6 DEF HasUpdate, Given
  <2>4. ValidUpdate(u) <=> n \in Byte /\ v.int \in Byte
    BY <1>4, <1>6, <2>2, Bytes DEF ValidUpdate
  <2>5. UpdateCommand(u) = Command(n % 256, <<v.int % 256>>)
    BY <1>4, <1>6 DEF UpdateCommand, Data
  <2>6. DOMAIN <<v>> = {1} /\ <<v>>[1] = v
    OBVIOUS
  <2>7. CASE n \in Byte /\ v.int \in Byte
    <3>1. ToCommand(r) = UpdateCommand(u)
      BY <2>3, <2>4, <2>7 DEF ToCommand, ValidateCommand
    <3>2. n % 256 = n /\ v.int % 256 = v.int
      BY <1>4, <2>2, <2>7, Bytes
    <3>3. <<v.int>> = [i \in DOMAIN <<v>> |-> <<v>>[i].int]
      BY <2>6
    <3>4. ToCommand(r) = Command(n, [i \in DOMAIN <<v>> |-> <<v>>[i].int])
      BY <2>5, <3>1, <3>2, <3>3
    <3>5. \A i \in DOMAIN <<v>> : <<v>>[i].kind = "number" /\ <<v>>[i].int \in Byte
      BY <1>6, <2>6, <2>7
    <3>6. QED
      BY <2>1, <2>7, <3>4, <3>5, MeansUpdate
  <2>8. CASE ~(n \in Byte /\ v.int \in Byte)
    <3>1. ToCommand(r) = None
      BY <2>3, <2>4, <2>8 DEF ToCommand, ValidateCommand
    <3>2. ~(n \in Byte /\ \A i \in DOMAIN <<v>> :
              <<v>>[i].kind = "number" /\ <<v>>[i].int \in Byte)
      BY <2>6, <2>8
    <3>3. QED
      BY <2>1, <3>1, <3>2, MeansUpdate
  <2>9. QED
    BY <2>7, <2>8
<1>7. CASE v.kind = "array"
  <2> DEFINE s == v.items
             wellFormed == \A i \in DOMAIN s : s[i].kind = "number" /\ s[i].int \in Byte
  <2>1. Sent(u) = s
    BY <1>7 DEF Sent
  <2>2. ASSUME NEW i \in DOMAIN s PROVE Small(s[i].int)
    <3>1. s[i].int \in NumbersOf(u)
      BY <2>1 DEF NumbersOf
    <3>2. s \in Seq(Scalar)
      BY <1>1, <1>7, Kinds
    <3>3. s[i] \in Scalar
      BY <3>2
    <3>4. s[i].int \in Int
      BY <3>3, Kinds DEF Json
    <3>5. QED
      BY <1>3, <3>1, <3>4 DEF Small
  <2>3. HasUpdate(r)
    BY <1>4, <1>7 DEF HasUpdate, Given
  <2>4. ValidUpdate(u) <=> n \in Byte /\ wellFormed
    BY <1>4, <1>7, <2>2, Bytes DEF ValidUpdate
  <2>5. UpdateCommand(u) = Command(n % 256, [i \in DOMAIN s |-> s[i].int % 256])
    BY <1>4, <1>7 DEF UpdateCommand, Data
  <2>6. CASE n \in Byte /\ wellFormed
    <3>1. ToCommand(r) = UpdateCommand(u)
      BY <2>3, <2>4, <2>6 DEF ToCommand, ValidateCommand
    <3>2. n % 256 = n /\ \A i \in DOMAIN s : s[i].int % 256 = s[i].int
      BY <1>4, <2>2, <2>6, Bytes
    <3>3. ToCommand(r) = Command(n, [i \in DOMAIN s |-> s[i].int])
      BY <2>5, <3>1, <3>2
    <3>4. QED
      BY <2>1, <2>6, <3>3, MeansUpdate
  <2>7. CASE ~(n \in Byte /\ wellFormed)
    <3>1. ToCommand(r) = None
      BY <2>3, <2>4, <2>7 DEF ToCommand, ValidateCommand
    <3>2. QED
      BY <2>1, <2>7, <3>1, MeansUpdate
  <2>8. QED
    BY <2>6, <2>7
<1>8. QED
  BY <1>2, <1>5, <1>6, <1>7

BundleInv == bundle \in Seq(Request)

LEMMA NextBundle == ASSUME BundleInv, [Next]_vars PROVE BundleInv'
<1>1. CASE InputArrives
  <2>1. PICK n \in 0 .. MaxRequests : bundle' \in [1 .. n -> Request]
    BY <1>1 DEF InputArrives
  <2>2. n \in Nat
    BY CommandsAssumption DEF CommandsAssumption
  <2>3. QED
    BY <2>1, <2>2 DEF BundleInv
<1>2. CASE DropUnconnected \/ TransformInput
  <2>1. bundle # << >> /\ bundle' = Tail(bundle)
    BY <1>2 DEF DropUnconnected, TransformInput
  <2>2. QED
    BY <2>1 DEF BundleInv
<1>3. CASE UNCHANGED bundle
  BY <1>3 DEF BundleInv
<1>4. QED
  BY <1>1, <1>2, <1>3
     DEF Next, CallHeadLights, CallAirCon, CallParkingLights, CallUpdateAll, CallRemoveACError,
         CallAirConMode, CallAirConMY19, Call, ConnectionChanges, vars

(* Each plain request becomes the command it means, exactly when it is     *)
(* well formed.                                                            *)
THEOREM RequestsAsMeant == Spec => PlainAsMeant
<1>1. Init => BundleInv
  BY DEF Init, BundleInv
<1>2. ASSUME BundleInv, TransformInput, Plain(Head(bundle))
      PROVE  MeansCommand(Head(bundle), issued')
  <2>1. Head(bundle) \in Request /\ issued' = ToCommand(Head(bundle))
    BY <1>2 DEF BundleInv, TransformInput
  <2>2. CASE Head(bundle).update = None
    BY <2>1, <2>2, OperationAsMeant
  <2>3. CASE Head(bundle).update # None
    <3>1. Head(bundle).operation = None
      BY <1>2, <2>3 DEF Plain
    <3>2. QED
      BY <1>2, <2>1, <2>3, <3>1, UpdateAsMeant
  <2>4. QED
    BY <2>2, <2>3
<1>3. BundleInv /\ [Next]_vars
        => BundleInv' /\ [TransformInput /\ Plain(Head(bundle))
                            => MeansCommand(Head(bundle), issued')]_vars
  BY <1>2, NextBundle
<1>4. QED
  BY <1>1, <1>3, PTL DEF Spec, PlainAsMeant

===============================================================================
