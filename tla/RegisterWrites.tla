--------------------------- MODULE RegisterWrites ---------------------------
(***************************************************************************)
(* What an application may rely on when it updates registers of the car    *)
(* through phev_pipe.c.  Between the first update of a register and the    *)
(* moment nothing of it is left in the library or on the wire, the         *)
(* register is open; the car then only takes values asked for since it     *)
(* opened, and no update is reported complete before the car holds one of  *)
(* them.  Nothing is promised about which one: with several values asked   *)
(* for, an earlier one may be the last to arrive.                          *)
(***************************************************************************)
CONSTANTS
    Registers,  \* registers the application updates
    Values,     \* values it writes to them
    Tickets,    \* names of updates under way
    None,       \* a ticket not in use
    Unset       \* the car's value before the first update

VARIABLES
    car,        \* register -> the value the car holds
    asked,      \* register -> values asked for since it was last opened
    open,       \* register -> something of it is still under way
    waiting     \* ticket -> register of the update it stands for, or None

writes == <<car, asked, open, waiting>>

Init ==
    /\ car = [r \in Registers |-> Unset]
    /\ asked = [r \in Registers |-> {}]
    /\ open = [r \in Registers |-> FALSE]
    /\ waiting = [t \in Tickets |-> None]

(* The application asks for r to be set to v.                              *)
Ask(t, r, v) ==
    /\ waiting[t] = None
    /\ waiting' = [waiting EXCEPT ![t] = r]
    /\ open' = [open EXCEPT ![r] = TRUE]
    /\ asked' = [asked EXCEPT ![r] = IF open[r] THEN @ \cup {v} ELSE {v}]
    /\ UNCHANGED car

(* The car acts on a command, possibly one it has already acted on.        *)
Act(r) ==
    /\ open[r]
    /\ \E v \in asked[r] : car' = [car EXCEPT ![r] = v]
    /\ UNCHANGED <<asked, open, waiting>>

(* The update is reported complete.                                        *)
Done(t) ==
    /\ waiting[t] # None
    /\ car[waiting[t]] \in asked[waiting[t]]
    /\ waiting' = [waiting EXCEPT ![t] = None]
    /\ UNCHANGED <<car, asked, open>>

(* The last traces of some registers without updates are gone.             *)
Close(R) ==
    /\ \A t \in Tickets : waiting[t] \notin R
    /\ open' = [r \in Registers |-> open[r] /\ r \notin R]
    /\ UNCHANGED <<car, asked, waiting>>

Next ==
    \/ \E t \in Tickets, r \in Registers, v \in Values : Ask(t, r, v)
    \/ \E r \in Registers : Act(r)
    \/ \E t \in Tickets : Done(t)
    \/ \E R \in SUBSET Registers : Close(R)

Spec == Init /\ [][Next]_writes

=============================================================================
