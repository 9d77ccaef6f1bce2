---------------------------- MODULE FileService ----------------------------
(***************************************************************************)
(* What the FTP programs promise, with no message in sight: files are      *)
(* copied whole, one at a time, between the server and a client that is    *)
(* logged in at that moment.                                               *)
(***************************************************************************)
CONSTANTS Clients, Names, Contents, None

VARIABLES
    granted,   \* the clients that are logged in
    here,      \* the files of each client
    there      \* the files of the server

vars == <<granted, here, there>>

Files == [Names -> Contents \cup {None}]

Init ==
    /\ granted = {}
    /\ here \in [Clients -> Files]
    /\ there \in Files

Login(c) == granted' = {c} /\ UNCHANGED <<here, there>>

Logout == granted' = {} /\ UNCHANGED <<here, there>>

Get(c, n) ==
    /\ c \in granted /\ there[n] # None
    /\ here' = [here EXCEPT ![c] = [@ EXCEPT ![n] = there[n]]]
    /\ UNCHANGED <<granted, there>>

Put(c, n) ==
    /\ c \in granted /\ here[c][n] # None
    /\ there' = [there EXCEPT ![n] = here[c][n]]
    /\ UNCHANGED <<granted, here>>

Next ==
    \/ Logout
    \/ \E c \in Clients : Login(c) \/ \E n \in Names : Get(c, n) \/ Put(c, n)

Spec == Init /\ [][Next]_vars
=============================================================================
