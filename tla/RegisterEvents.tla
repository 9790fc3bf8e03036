--------------------------- MODULE RegisterEvents ---------------------------
(***************************************************************************)
(* What an application may rely on that handles the register events of     *)
(* phev_pipe.c.  Notifications of the car may be lost until they are read. *)
(* What one read took is not lost any more, whatever the link does and     *)
(* whatever a handler calls: each notification of it leads, in the order   *)
(* of the car, to an event, or to none because its value was taken for the *)
(* one of the last event of the register.                                  *)
(***************************************************************************)
EXTENDS Naturals

CONSTANTS
    Registers,  \* registers the car notifies
    Values,     \* their values
    Numbers,    \* numbers of the car's notifications
    Unset,      \* a register there was no event of
    Alike,      \* pairs of an old and a new value that may be taken for one
    Repeated    \* pairs that always are

Notification == [id : Numbers, register : Registers, data : Values]

VARIABLES
    coming,     \* notifications the library has not read
    taken,      \* notifications of the read in progress without their event
    shown       \* register -> value of its last event

events == <<coming, taken, shown>>

Init ==
    /\ coming = {}
    /\ taken = {}
    /\ shown = [r \in Registers |-> Unset]

Send(n) ==
    /\ \A m \in coming \cup taken : m.id < n.id
    /\ coming' = coming \cup {n}
    /\ UNCHANGED <<taken, shown>>

Lose ==
    /\ coming' \subseteq coming
    /\ UNCHANGED <<taken, shown>>

(* A read takes the first of what is coming, and leaves no gap.            *)
Take(S) ==
    /\ taken = {}
    /\ \A m \in S, n \in coming \ S : m.id < n.id
    /\ taken' = S
    /\ coming' = coming \ S
    /\ UNCHANGED shown

First(n) == n \in taken /\ \A m \in taken : n.id <= m.id

Old(n) == <<shown[n.register], n.data>>

Show(n) ==
    /\ First(n)
    /\ Old(n) \notin Repeated
    /\ shown' = [shown EXCEPT ![n.register] = n.data]
    /\ taken' = taken \ {n}
    /\ UNCHANGED coming

Drop(n) ==
    /\ First(n)
    /\ Old(n) \in Alike
    /\ taken' = taken \ {n}
    /\ UNCHANGED <<coming, shown>>

Next ==
    \/ \E n \in Notification : Send(n)
    \/ Lose
    \/ \E S \in SUBSET coming : Take(S)
    \/ \E n \in taken : Show(n) \/ Drop(n)

Spec == Init /\ [][Next]_events

=============================================================================
