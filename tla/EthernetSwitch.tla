--------------------------- MODULE EthernetSwitch ---------------------------
(***************************************************************************)
(* The switch of lab4: a map from addresses to ports with a lifetime that  *)
(* every control frame takes one off.  heard is a history variable: it     *)
(* records what entered the switch and nothing in the code reads it.       *)
(***************************************************************************)
EXTENDS Integers

CONSTANTS
    Mac,        \* addresses (the 48 bits that macAddr2Long packs)
    Ports,      \* port numbers; 0 and -1 mean flood and drop
    Threshold   \* ETHER_MAC_AGING_THRESHOLD

ASSUME SwitchAssumption ==
    /\ Ports \subseteq Nat \ {0}
    /\ Threshold \in Nat \ {0}

VARIABLES
    table,   \* the learned addresses, a map to [Port, lifeTime]
    out,     \* what ProcessFrame returned: a port, 0 (flood) or -1 (drop)
    heard    \* history: as in LearningSwitch

vars == <<table, out, heard>>

Ideal == INSTANCE LearningSwitch

Entry == [Port : Ports, lifeTime : 1 .. Threshold]

Init ==
    /\ table = [m \in {} |-> 0]
    /\ out = -1
    /\ heard = [m \in Mac |-> [port |-> 0, age |-> Threshold]]

-----------------------------------------------------------------------------
(* Aging: every lifetime loses one, and entries that reach 0 are erased.   *)

(* Fault: the lifetime is tested before it is decremented.                 *)
FaultLateExpiry == {m \in DOMAIN table : table[m].lifeTime = 0}

Expired == {m \in DOMAIN table : table[m].lifeTime - 1 = 0}

Aging ==
    table' = [m \in DOMAIN table \ Expired |->
                 [table[m] EXCEPT !.lifeTime = @ - 1]]

ControlFrame ==
    /\ Aging
    /\ out' = -1
    /\ heard' = [m \in Mac |->
                    IF heard[m].age < Threshold
                    THEN [heard[m] EXCEPT !.age = @ + 1] ELSE heard[m]]

(* Fault: only a new address gets a lifetime.                              *)
FaultNoRefresh(src, in) ==
    [m \in DOMAIN table \cup {src} |->
        IF m = src
        THEN [Port |-> in, lifeTime |-> IF m \in DOMAIN table
                                        THEN table[m].lifeTime ELSE Threshold]
        ELSE table[m]]

(* Fault: the port of a known address is kept.                             *)
FaultNoMove(src, in) ==
    [m \in DOMAIN table \cup {src} |->
        IF m = src
        THEN [Port |-> IF m \in DOMAIN table THEN table[m].Port ELSE in,
              lifeTime |-> Threshold]
        ELSE table[m]]

(* table[src] creates the entry or finds it; both fields are assigned.     *)
Learned(src, in) ==
    [m \in DOMAIN table \cup {src} |->
        IF m = src THEN [Port |-> in, lifeTime |-> Threshold] ELSE table[m]]

(* Where a frame for dst goes: the look-up follows the learning, so a host *)
(* that writes to itself is already in the table.                          *)
DataFrame(in, src, dst) ==
    /\ table' = Learned(src, in)
    /\ \/ dst \notin DOMAIN table' /\ out' = 0
       \/ /\ dst \in DOMAIN table'
          /\ out' = IF table'[dst].Port = in THEN -1 ELSE table'[dst].Port
    /\ heard' = [heard EXCEPT ![src] = [port |-> in, age |-> 0]]

Next == ControlFrame \/ \E in \in Ports, src, dst \in Mac : DataFrame(in, src, dst)

Spec == Init /\ [][Next]_vars

-----------------------------------------------------------------------------
TypeOK ==
    /\ DOMAIN table \subseteq Mac
    /\ \A m \in DOMAIN table : table[m] \in Entry
    /\ out \in Ports \cup {0, -1}
    /\ heard \in [Mac -> Ideal!Hearing]

(* The table holds exactly the hosts heard less than Threshold agings ago, *)
(* each at the port it was last heard on: nothing stale survives an aging, *)
(* nothing fresh is forgotten, and a host that moved is at its new port.   *)
TableIsRecent ==
    /\ DOMAIN table = {m \in Mac : Ideal!Recent(heard[m])}
    /\ \A m \in DOMAIN table :
          /\ table[m].Port = heard[m].port
          /\ table[m].lifeTime = Threshold - heard[m].age

(* The switch forwards every frame as LearningSwitch does.                 *)
ForwardsByHearing == Ideal!Spec
=============================================================================
