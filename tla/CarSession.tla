----------------------------- MODULE CarSession -----------------------------
(***************************************************************************)
(* What the car may rely on that takes the frames of phev_pipe.c.  As long *)
(* as a connection is open no frame of it is lost: pings come numbered     *)
(* without a gap, the time comes before those with a multiple of           *)
(* SyncPeriod and at no other place, and no ping comes in the clear once   *)
(* encryption was started.  A lost frame ends the connection, and only     *)
(* then is another one opened.                                             *)
(***************************************************************************)
EXTENDS Naturals

CONSTANTS
    Keys,           \* XOR keys other than 0
    NoXOR,          \* key 0
    NoPing,         \* no ping came on this connection yet
    PingModulus,    \* pings are numbered modulo this
    SyncPeriod      \* a ping with a multiple of this goes with the time

VARIABLES
    session,        \* connections so far
    open,           \* frames still arrive on the last one
    seen,           \* its last ping, the key of that, the time came after it
    secret,         \* encryption was started, and not given up since
    registering     \* the library only registers this device

vars == <<session, open, seen, secret, registering>>

Number == 0 .. PingModulus - 1
Nothing == [ping |-> NoPing, key |-> NoXOR, timed |-> FALSE]
Following(n) == (n + 1) % PingModulus
Timed(n) == n % SyncPeriod = 0

Init ==
    /\ session \in {0, 1}
    /\ open = (session = 1)
    /\ seen = Nothing
    /\ secret = FALSE
    /\ registering \in BOOLEAN

Ping(n, k) ==
    /\ ~registering
    /\ secret => k # NoXOR
    /\ seen' = [ping |-> n, key |-> k, timed |-> FALSE]

(* The frame a connection is opened for may be a ping, then without time.  *)
Open ==
    /\ ~open
    /\ session' = session + 1
    /\ open' = TRUE
    /\ \/ seen' = Nothing
       \/ \E n \in Number, k \in Keys \cup {NoXOR} : Ping(n, k)
    /\ UNCHANGED <<secret, registering>>

PingArrives ==
    /\ open
    /\ \E n \in Number, k \in Keys \cup {NoXOR} :
        /\ seen.ping # NoPing => n = Following(seen.ping)
        /\ seen.timed <=> Timed(n)
        /\ Ping(n, k)
    /\ UNCHANGED <<session, open, secret, registering>>

TimeArrives ==
    /\ open
    /\ ~registering
    /\ ~seen.timed
    /\ seen.ping # NoPing => Timed(Following(seen.ping))
    /\ seen' = [seen EXCEPT !.timed = TRUE]
    /\ UNCHANGED <<session, open, secret, registering>>

Break ==
    /\ open' = FALSE
    /\ UNCHANGED <<session, seen, secret, registering>>

(* The answer to a start message may be the frame that is lost.            *)
StartEncryption ==
    /\ secret' = TRUE
    /\ open' \in {open, FALSE}
    /\ UNCHANGED <<session, seen, registering>>

Close ==
    /\ open' = FALSE
    /\ secret' = FALSE
    /\ UNCHANGED <<session, seen, registering>>

Next == Open \/ PingArrives \/ TimeArrives \/ Break \/ StartEncryption \/ Close

Spec == Init /\ [][Next]_vars

=============================================================================
