------------------------ MODULE EthernetSwitchProofs ------------------------
(***************************************************************************)
(* The switch for any set of addresses, any ports and any threshold: its   *)
(* table is what was recently heard, so it forwards as LearningSwitch.     *)
(***************************************************************************)
EXTENDS EthernetSwitch, TLAPS

Inv == TypeOK /\ TableIsRecent

LEMMA InitInv == Init => Inv
  BY SwitchAssumption DEF Init, Inv, TypeOK, TableIsRecent, Entry,
     Ideal!Hearing, Ideal!Recent, Ideal!Flood

(* An aging step moves both clocks: an entry is erased when the host's age *)
(* reaches the threshold.                                                  *)
LEMMA AgingInv == ASSUME Inv, ControlFrame PROVE Inv'
<1> USE SwitchAssumption
<1>1. /\ heard \in [Mac -> Ideal!Hearing]
      /\ DOMAIN table = {m \in Mac : Ideal!Recent(heard[m])}
      /\ \A m \in DOMAIN table : /\ table[m] \in Entry
                                 /\ table[m].Port = heard[m].port
                                 /\ table[m].lifeTime = Threshold - heard[m].age
  BY DEF Inv, TypeOK, TableIsRecent
<1>2. \A m \in Mac :
         /\ heard'[m] \in Ideal!Hearing
         /\ heard'[m].port = heard[m].port
         /\ heard'[m].age = IF heard[m].age < Threshold
                            THEN heard[m].age + 1 ELSE heard[m].age
  BY <1>1 DEF ControlFrame, Ideal!Hearing
<1>3. heard' \in [Mac -> Ideal!Hearing]
  BY <1>1, <1>2 DEF ControlFrame
<1>4. /\ DOMAIN table' = DOMAIN table \ Expired
      /\ \A m \in DOMAIN table' :
            /\ table'[m].Port = table[m].Port
            /\ table'[m].lifeTime = table[m].lifeTime - 1
            /\ table'[m] = [table[m] EXCEPT !.lifeTime = @ - 1]
  BY <1>1 DEF ControlFrame, Aging, Entry
<1>5. \A m \in Mac : m \in DOMAIN table' <=> Ideal!Recent(heard'[m])
  BY <1>1, <1>2, <1>4 DEF Expired, Ideal!Recent, Ideal!Hearing, Entry
<1>6. \A m \in DOMAIN table' :
         /\ m \in Mac
         /\ table'[m].Port = heard'[m].port
         /\ table'[m].lifeTime = Threshold - heard'[m].age
         /\ table'[m] \in Entry
  <2> SUFFICES ASSUME NEW m \in DOMAIN table'
               PROVE  /\ m \in Mac
                      /\ table'[m].Port = heard'[m].port
                      /\ table'[m].lifeTime = Threshold - heard'[m].age
                      /\ table'[m] \in Entry
    OBVIOUS
  <2>1. m \in Mac /\ m \in DOMAIN table /\ m \notin Expired
    BY <1>1, <1>4
  <2>2. table[m].lifeTime \in 1 .. Threshold /\ table[m].lifeTime - 1 # 0
    BY <1>1, <2>1 DEF Expired, Entry
  <2>3. table[m].lifeTime - 1 \in 1 .. Threshold
    BY <2>2
  <2>4. table'[m] \in Entry
    BY <1>1, <1>4, <2>1, <2>3 DEF Entry
  <2>5. heard[m].age \in 0 .. Threshold /\ heard[m].age < Threshold
    BY <1>1, <2>1 DEF Ideal!Hearing, Ideal!Recent
  <2>6. table'[m].lifeTime = Threshold - heard'[m].age
    BY <1>1, <1>2, <1>4, <2>1, <2>2, <2>5
  <2>7. QED
    BY <1>1, <1>2, <1>4, <2>1, <2>4, <2>6
<1>7. TypeOK'
  BY <1>3, <1>6 DEF TypeOK, ControlFrame, Ideal!Hearing, Ideal!Flood, Entry
<1>8. TableIsRecent'
  BY <1>5, <1>6 DEF TableIsRecent, Ideal!Recent
<1>9. QED
  BY <1>7, <1>8 DEF Inv

(* A data frame makes its sender the freshest entry and changes no other.  *)
LEMMA LearningInv ==
    ASSUME Inv, NEW in \in Ports, NEW src \in Mac, NEW dst \in Mac,
           DataFrame(in, src, dst)
    PROVE  Inv'
<1> USE SwitchAssumption
<1>1. /\ heard \in [Mac -> Ideal!Hearing]
      /\ DOMAIN table = {m \in Mac : Ideal!Recent(heard[m])}
      /\ \A m \in DOMAIN table : /\ table[m] \in Entry
                                 /\ table[m].Port = heard[m].port
                                 /\ table[m].lifeTime = Threshold - heard[m].age
  BY DEF Inv, TypeOK, TableIsRecent
<1>2. /\ heard' \in [Mac -> Ideal!Hearing]
      /\ heard'[src].port = in /\ heard'[src].age = 0
      /\ \A m \in Mac \ {src} : heard'[m] = heard[m]
  BY <1>1 DEF DataFrame, Ideal!Hearing
<1>3. /\ DOMAIN table' = DOMAIN table \cup {src}
      /\ table'[src] = [Port |-> in, lifeTime |-> Threshold]
      /\ \A m \in DOMAIN table \ {src} : table'[m] = table[m]
  BY DEF DataFrame, Learned
<1>4. \A m \in DOMAIN table' : /\ table'[m] \in Entry
                               /\ table'[m].Port = heard'[m].port
                               /\ table'[m].lifeTime = Threshold - heard'[m].age
  <2>1. /\ table'[src] \in Entry
        /\ table'[src].Port = heard'[src].port
        /\ table'[src].lifeTime = Threshold - heard'[src].age
    BY <1>2, <1>3 DEF Entry
  <2>2. QED
    BY <1>1, <1>2, <1>3, <2>1
<1>5. DOMAIN table' = {m \in Mac : Ideal!Recent(heard'[m])}
  BY <1>1, <1>2, <1>3 DEF Ideal!Recent
<1>6. out' \in Ports \cup {0, -1}
  BY <1>4 DEF DataFrame, Entry
<1>7. TypeOK'
  BY <1>2, <1>4, <1>5, <1>6 DEF TypeOK, Entry, Ideal!Hearing, Ideal!Flood
<1>8. TableIsRecent'
  BY <1>4, <1>5 DEF TableIsRecent, Ideal!Recent
<1>9. QED
  BY <1>7, <1>8 DEF Inv

LEMMA StepInv == ASSUME Inv, [Next]_vars PROVE Inv'
<1>1. CASE ControlFrame
  BY <1>1, AgingInv
<1>2. ASSUME NEW in \in Ports, NEW src \in Mac, NEW dst \in Mac,
             DataFrame(in, src, dst)
      PROVE  Inv'
  BY <1>2, LearningInv
<1>3. CASE UNCHANGED vars
  BY <1>3 DEF vars, Inv, TypeOK, TableIsRecent, Entry, Ideal!Hearing,
     Ideal!Recent, Ideal!Flood
<1>4. QED
  BY <1>1, <1>2, <1>3 DEF Next

(* The inductive invariant: the table is typed, and tells what was heard   *)
(* (Aging, ProcessFrame).                                                  *)
THEOREM Invariance == Spec => []Inv
<1>1. Init => Inv
  BY InitInv
<1>2. Inv /\ [Next]_vars => Inv'
  BY StepInv
<1>3. QED
  BY <1>1, <1>2, PTL DEF Spec

(* An entry lives for 1 to Threshold agings, none is kept with 0 (Aging),  *)
(* and ProcessFrame returns a port, 0 or -1.                               *)
THEOREM TypeCorrect == Spec => []TypeOK
<1>1. Inv => TypeOK
  BY DEF Inv
<1>2. QED
  BY <1>1, Invariance, PTL

(* The table is exactly what was heard less than Threshold agings ago.     *)
THEOREM TableTheorem == Spec => []TableIsRecent
<1>1. Inv => TableIsRecent
  BY DEF Inv
<1>2. QED
  BY <1>1, Invariance, PTL

(* Every frame leaves where LearningSwitch says, and every aging is its    *)
(* tick: EthernetSwitch implements LearningSwitch.                         *)
THEOREM SwitchRefinement == Spec => ForwardsByHearing
<1>1. Init => Ideal!Init
  BY DEF Init, Ideal!Init, Ideal!Flood, Ideal!Drop
<1>2. ASSUME Inv, Inv', [Next]_vars
      PROVE  [Ideal!Next]_Ideal!vars
  <2>1. CASE ControlFrame
    BY <2>1 DEF ControlFrame, Ideal!Next, Ideal!Tick, Ideal!Recent, Ideal!Drop
  <2>2. ASSUME NEW in \in Ports, NEW src \in Mac, NEW dst \in Mac,
               DataFrame(in, src, dst)
        PROVE  Ideal!Forward(in, src, dst)
    <3>1. dst \in DOMAIN table' <=> Ideal!Recent(heard'[dst])
      BY <1>2 DEF Inv, TableIsRecent, Ideal!Recent
    <3>2. dst \in DOMAIN table' => table'[dst].Port = heard'[dst].port
      BY <1>2 DEF Inv, TableIsRecent
    <3>3. QED
      BY <2>2, <3>1, <3>2 DEF DataFrame, Ideal!Forward, Ideal!Flood, Ideal!Drop
  <2>3. CASE UNCHANGED vars
    BY <2>3 DEF vars, Ideal!vars
  <2>4. QED
    BY <1>2, <2>1, <2>2, <2>3 DEF Next, Ideal!Next
<1>3. QED
  BY <1>1, <1>2, Invariance, PTL DEF Spec, ForwardsByHearing, Ideal!Spec
=============================================================================
