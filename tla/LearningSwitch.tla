--------------------------- MODULE LearningSwitch ---------------------------
(***************************************************************************)
(* What a learning switch promises, told by what it has heard: a frame for *)
(* a host that was heard less than Threshold agings ago leaves by the port *)
(* the host was last heard on, and by no port when that is where the frame *)
(* came from; a frame for any other host is flooded.                       *)
(***************************************************************************)
EXTENDS Integers

CONSTANTS
    Mac,        \* addresses
    Ports,      \* port numbers
    Threshold   \* ETHER_MAC_AGING_THRESHOLD

Flood == 0      \* return values of ProcessFrame that are not ports
Drop  == -1

VARIABLES
    heard,   \* per host: its last port and the agings since, up to Threshold
    out      \* where the last frame went

vars == <<heard, out>>

(* A host that was never heard looks like one heard too long ago.          *)
Hearing == [port : Ports \cup {Flood}, age : 0 .. Threshold]

Recent(h) == h.age < Threshold

Init ==
    /\ heard = [m \in Mac |-> [port |-> Flood, age |-> Threshold]]
    /\ out = Drop

(* A frame from src to dst enters by the port in.                          *)
Forward(in, src, dst) ==
    /\ heard' = [heard EXCEPT ![src] = [port |-> in, age |-> 0]]
    /\ out' = IF ~Recent(heard'[dst]) THEN Flood
              ELSE IF heard'[dst].port = in THEN Drop ELSE heard'[dst].port

Tick ==
    /\ heard' = [m \in Mac |->
                    IF Recent(heard[m])
                    THEN [heard[m] EXCEPT !.age = @ + 1] ELSE heard[m]]
    /\ out' = Drop

Next == Tick \/ \E in \in Ports, src, dst \in Mac : Forward(in, src, dst)

Spec == Init /\ [][Next]_vars
=============================================================================
