------------------------ MODULE RouterForwardProofs ------------------------
(***************************************************************************)
(* Proofs about RouterNat, for every set of hosts and every size of the    *)
(* range of available addresses, and about RouterForward, which is built   *)
(* on it, for every set of networks, every order in which std::sort may    *)
(* leave them, and every size of the tables.                               *)
(***************************************************************************)
EXTENDS RouterForward, TLAPS, WellFoundedInduction

-----------------------------------------------------------------------------
(* The translation of addresses.                                           *)

(* Popping leaves everything below the top where it is.                    *)
LEMMA PopFacts ==
    ASSUME IInv
    PROVE  /\ Popped \in Seq(Addresses \cup {NoAddress})
           /\ Top \in Addresses \cup {NoAddress}
           /\ DOMAIN Popped \subseteq DOMAIN address
           /\ \A k \in DOMAIN Popped : Popped[k] = address[k]
           /\ Top # NoAddress =>
                /\ address # <<>>
                /\ DOMAIN Popped = DOMAIN address \ {Len(address)}
                /\ Len(address) \in DOMAIN address
                /\ Top = address[Len(address)]
           /\ Top = NoAddress =>
                \A k \in DOMAIN address : address[k] = NoAddress
<1>1. address \in Seq(Addresses \cup {NoAddress}) /\ ZerosBelow
  BY DEF IInv, TypeOK
<1>2. CASE address = <<>>
  BY <1>1, <1>2 DEF Popped, Top
<1>3. CASE address # <<>>
  <2>1. Len(address) \in Nat \ {0} /\ DOMAIN address = 1 .. Len(address)
    BY <1>1, <1>3
  <2>2. /\ Popped = SubSeq(address, 1, Len(address) - 1)
        /\ Top = address[Len(address)]
    BY <1>3 DEF Popped, Top
  <2>3. /\ Popped \in Seq(Addresses \cup {NoAddress})
        /\ DOMAIN Popped = 1 .. Len(address) - 1
        /\ \A k \in DOMAIN Popped : Popped[k] = address[k]
    BY <1>1, <2>1, <2>2
  <2>4. Top = NoAddress => \A k \in DOMAIN address : address[k] = NoAddress
    <3>1. ASSUME Top = NoAddress, NEW k \in DOMAIN address
          PROVE  address[k] = NoAddress
      <4>1. /\ k <= Len(address) /\ Len(address) \in DOMAIN address
            /\ address[Len(address)] = NoAddress
        BY <2>1, <2>2, <3>1
      <4>2. QED
        BY <1>1, <4>1 DEF ZerosBelow
    <3>2. QED
      BY <3>1
  <2>5. QED
    BY <1>1, <2>1, <2>2, <2>3, <2>4
<1>4. QED
  BY <1>2, <1>3

(* What a failed allocation leaves: only zeros were on the stack.          *)
LEMMA DropFacts ==
    ASSUME IInv, Top = NoAddress
    PROVE  /\ Free = {}
           /\ \A k \in DOMAIN Popped : Popped[k] = NoAddress
  BY PopFacts DEF Free

-----------------------------------------------------------------------------
LEMMA InitInv == Init => IInv
<1> SUFFICES ASSUME Init PROVE IInv
  OBVIOUS
<1> USE DEF Init, InitialStack, NoAddress
<1>1. /\ PoolSize \in Nat
      /\ DOMAIN address = 1 .. 2 * PoolSize
      /\ \A k \in DOMAIN address :
            address[k] = IF k <= PoolSize THEN 0 ELSE k - PoolSize
  BY PoolAssumption
<1>2. address \in Seq(Addresses \cup {NoAddress})
  <2>1. /\ 2 * PoolSize \in Nat
        /\ address \in [1 .. 2 * PoolSize -> Addresses \cup {NoAddress}]
    BY <1>1 DEF Addresses
  <2>2. QED
    BY <2>1
<1>3. TypeOK
  BY <1>2 DEF TypeOK
<1>4. MapsInverse /\ AnswersReachSender
  BY DEF MapsInverse, AnswersReachSender
<1>5. ZerosBelow
  BY <1>1 DEF ZerosBelow
<1>6. NothingLost
  <2>1. ASSUME NEW a \in Addresses
        PROVE  a \in Free
    <3>1. a + PoolSize \in DOMAIN address /\ address[a + PoolSize] = a /\ a # 0
      BY <1>1, <2>1 DEF Addresses
    <3>2. QED
      BY <3>1 DEF Free
  <2>2. Free \subseteq Addresses
    BY <1>1 DEF Free, Addresses
  <2>3. QED
    BY <1>1, <2>1, <2>2 DEF NothingLost
<1>7. QED
  BY <1>3, <1>4, <1>5, <1>6 DEF IInv

LEMMA SendKnownStep ==
    ASSUME IInv, NEW h \in Hosts, SendKnown(h)
    PROVE  IInv'
<1> DEFINE a == m_host2ExternIP[h]
<1>1. /\ a \in Addresses /\ a \in DOMAIN m_externIP2Host
      /\ m_externIP2Host[a] = h
  BY DEF IInv, TypeOK, MapsInverse, SendKnown
<1>2. m_externIP2Host' = m_externIP2Host
  BY <1>1 DEF IInv, TypeOK, SendKnown, Put
<1>3. UNCHANGED <<address, m_host2ExternIP>> /\ flows' = flows \cup {<<h, a>>}
      /\ sent' = <<h, a>>
  BY DEF SendKnown
<1> HIDE DEF a
<1>4. TypeOK'
  BY <1>1, <1>2, <1>3 DEF IInv, TypeOK
<1>5. MapsInverse' /\ ZerosBelow' /\ NothingLost'
  BY <1>2, <1>3 DEF IInv, MapsInverse, ZerosBelow, NothingLost, Free
<1>6. AnswersReachSender'
  BY <1>1, <1>2, <1>3 DEF IInv, AnswersReachSender, Inbound
<1>7. QED
  BY <1>4, <1>5, <1>6 DEF IInv

LEMMA SendNewStep ==
    ASSUME IInv, NEW h \in Hosts, SendNew(h)
    PROVE  IInv'
<1>0. /\ TypeOK /\ MapsInverse /\ NothingLost /\ AnswersReachSender
      /\ ZerosBelow
      /\ address' = Popped /\ sent' = <<h, Top>>
      /\ h \notin DOMAIN m_host2ExternIP
  BY DEF IInv, SendNew
<1>p. /\ Popped \in Seq(Addresses \cup {NoAddress})
      /\ Top \in Addresses \cup {NoAddress}
      /\ DOMAIN Popped \subseteq DOMAIN address
      /\ \A k \in DOMAIN Popped : Popped[k] = address[k]
  BY PopFacts
<1>1. CASE Top = NoAddress
  <2>1. UNCHANGED <<maps, flows>> /\ Free = {}
        /\ \A k \in DOMAIN Popped : Popped[k] = NoAddress
    BY <1>1, DropFacts DEF SendNew
  <2>2. TypeOK'
    BY <1>0, <1>p, <2>1 DEF TypeOK, maps
  <2>3. MapsInverse' /\ AnswersReachSender'
    BY <1>0, <2>1 DEF MapsInverse, AnswersReachSender, Inbound, maps
  <2>4. ZerosBelow' /\ Free' = {}
    BY <1>0, <2>1 DEF ZerosBelow, Free
  <2>5. NothingLost'
    BY <1>0, <2>1, <2>4 DEF NothingLost, maps
  <2>6. QED
    BY <2>2, <2>3, <2>4, <2>5 DEF IInv
<1>2. CASE Top # NoAddress
  <2>1. /\ m_externIP2Host' = Put(m_externIP2Host, Top, h)
        /\ m_host2ExternIP' = Put(m_host2ExternIP, h, Top)
        /\ flows' = flows \cup {<<h, Top>>}
    BY <1>2 DEF SendNew
  <2>2. /\ DOMAIN Popped = DOMAIN address \ {Len(address)}
        /\ Len(address) \in DOMAIN address
        /\ Top = address[Len(address)]
    BY <1>2, PopFacts
  <2>3. Top \in Addresses /\ Top \in Free
    BY <1>p, <1>2, <2>2 DEF Free
  <2>4. Top \notin DOMAIN m_externIP2Host
    BY <1>0, <2>3 DEF NothingLost
  <2>5. Free' = Free \ {Top}
    <3>1. \A k \in DOMAIN Popped : Popped[k] # Top
      BY <1>0, <1>p, <1>2, <2>2 DEF NothingLost
    <3>2. QED
      BY <1>0, <1>p, <2>2, <3>1 DEF Free
  <2> DEFINE top == Top
  <2> HIDE DEF top
  <2>6. /\ DOMAIN m_externIP2Host' = DOMAIN m_externIP2Host \cup {top}
        /\ m_externIP2Host'[top] = h
        /\ \A a \in DOMAIN m_externIP2Host : m_externIP2Host'[a] = m_externIP2Host[a]
        /\ DOMAIN m_host2ExternIP' = DOMAIN m_host2ExternIP \cup {h}
        /\ m_host2ExternIP'[h] = top
        /\ \A g \in DOMAIN m_host2ExternIP : m_host2ExternIP'[g] = m_host2ExternIP[g]
    BY <1>0, <2>1, <2>4 DEF Put, top
  <2>7. TypeOK'
    <3>1. /\ m_host2ExternIP' = [g \in DOMAIN m_host2ExternIP' |-> m_host2ExternIP'[g]]
          /\ m_externIP2Host' = [a \in DOMAIN m_externIP2Host' |-> m_externIP2Host'[a]]
      BY <2>1 DEF Put
    <3>2. QED
      BY <1>0, <1>p, <2>1, <2>3, <2>6, <3>1 DEF TypeOK, top
  <2>8. MapsInverse'
    BY <1>0, <2>4, <2>6 DEF MapsInverse, top
  <2>9. NothingLost'
    BY <1>0, <1>p, <2>3, <2>4, <2>5, <2>6 DEF NothingLost, top
  <2>10. AnswersReachSender'
    BY <1>0, <2>1, <2>4, <2>6 DEF AnswersReachSender, Inbound, top
  <2>11. ZerosBelow'
    BY <1>0, <1>p DEF ZerosBelow
  <2>12. QED
    BY <2>7, <2>8, <2>9, <2>10, <2>11 DEF IInv
<1>3. QED
  BY <1>1, <1>2

LEMMA ReleaseStep ==
    ASSUME IInv, NEW h \in Hosts, releaseNATItem(h)
    PROVE  IInv'
<1> DEFINE a == m_host2ExternIP[h]
<1>0. /\ TypeOK /\ MapsInverse /\ NothingLost /\ AnswersReachSender
      /\ ZerosBelow
  BY DEF IInv
<1>1. /\ h \in DOMAIN m_host2ExternIP
      /\ address' = Append(address, a)
      /\ m_externIP2Host' = Erase(m_externIP2Host, a)
      /\ m_host2ExternIP' = Erase(m_host2ExternIP, h)
      /\ flows' = {f \in flows : f[1] # h} /\ sent' = sent
  BY DEF releaseNATItem, recycle
<1>2. /\ a \in Addresses /\ a # NoAddress /\ a \in DOMAIN m_externIP2Host
      /\ m_externIP2Host[a] = h /\ a \notin Free
  BY <1>0, <1>1 DEF TypeOK, MapsInverse, NothingLost, Addresses, NoAddress
<1> HIDE DEF a
<1>3. /\ address' \in Seq(Addresses \cup {NoAddress})
      /\ DOMAIN address' = DOMAIN address \cup {Len(address) + 1}
      /\ Len(address) + 1 \notin DOMAIN address
      /\ \A k \in DOMAIN address : k < Len(address) + 1
      /\ \A k \in DOMAIN address : address'[k] = address[k]
      /\ address'[Len(address) + 1] = a
  BY <1>0, <1>1, <1>2 DEF TypeOK
<1>4. Free' = Free \cup {a}
  BY <1>2, <1>3 DEF Free
<1>5. /\ DOMAIN m_externIP2Host' = DOMAIN m_externIP2Host \ {a}
      /\ \A b \in DOMAIN m_externIP2Host' : m_externIP2Host'[b] = m_externIP2Host[b]
      /\ DOMAIN m_host2ExternIP' = DOMAIN m_host2ExternIP \ {h}
      /\ \A g \in DOMAIN m_host2ExternIP' : m_host2ExternIP'[g] = m_host2ExternIP[g]
  BY <1>1 DEF Erase
<1>6. TypeOK'
  <2>1. /\ m_host2ExternIP' = [g \in DOMAIN m_host2ExternIP' |-> m_host2ExternIP'[g]]
        /\ m_externIP2Host' = [b \in DOMAIN m_externIP2Host' |-> m_externIP2Host'[b]]
    BY <1>1 DEF Erase
  <2>2. QED
    BY <1>0, <1>1, <1>3, <1>5, <2>1 DEF TypeOK
<1>7. MapsInverse'
  BY <1>0, <1>2, <1>5 DEF MapsInverse, a
<1>8. NothingLost'
  <2>1. \A k \in DOMAIN address : address[k] # a
    BY <1>2 DEF Free
  <2>2. QED
    BY <1>0, <1>2, <1>3, <1>4, <1>5, <2>1 DEF NothingLost
<1>9. AnswersReachSender'
  <2>1. ASSUME NEW f \in flows, f[1] # h
        PROVE  Inbound(f[2])' = {f[1]}
    BY <1>0, <1>2, <1>5, <2>1 DEF AnswersReachSender, Inbound
  <2>2. QED
    BY <1>1, <2>1 DEF AnswersReachSender, Inbound
<1>10. ZerosBelow'
  <2>1. \A k \in DOMAIN address' : k \in Nat
    BY <1>3
  <2>2. QED
    BY <1>0, <1>2, <1>3, <2>1 DEF ZerosBelow
<1>11. QED
  BY <1>6, <1>7, <1>8, <1>9, <1>10 DEF IInv

LEMMA StepInv == IInv /\ [Next]_vars => IInv'
<1> SUFFICES ASSUME IInv, [Next]_vars PROVE IInv'
  OBVIOUS
<1>1. ASSUME NEW h \in Hosts, SendKnown(h) \/ SendNew(h) \/ releaseNATItem(h)
      PROVE  IInv'
  BY <1>1, SendKnownStep, SendNewStep, ReleaseStep
<1>2. CASE UNCHANGED vars
  <2>1. UNCHANGED <<address, m_host2ExternIP, m_externIP2Host, sent, flows>>
    BY <1>2 DEF vars, maps
  <2>2. TypeOK'
    BY <2>1 DEF IInv, TypeOK
  <2>3. MapsInverse' /\ NothingLost' /\ AnswersReachSender' /\ ZerosBelow'
    BY <2>1 DEF IInv, MapsInverse, NothingLost, Free, AnswersReachSender,
       Inbound, ZerosBelow
  <2>4. QED
    BY <2>2, <2>3 DEF IInv
<1>3. QED
  BY <1>1, <1>2 DEF Next

-----------------------------------------------------------------------------
(* The inductive invariant holds for every set of hosts and every range.   *)
THEOREM Invariance == Spec => []IInv
  BY InitInv, StepInv, PTL DEF Spec

(* The maps of host and external addresses stay inverse to each other.     *)
THEOREM MapsTheorem == Spec => []MapsInverse
<1>1. IInv => MapsInverse
  BY DEF IInv
<1>2. QED
  BY <1>1, Invariance, PTL

(* Every available address is free once or mapped, whatever is dropped.    *)
THEOREM ConservationTheorem == Spec => []NothingLost
<1>1. IInv => NothingLost
  BY DEF IInv
<1>2. QED
  BY <1>1, Invariance, PTL

(* Answers to a host that was not released reach it.                       *)
THEOREM AnswerTheorem == Spec => []AnswersReachSender
<1>1. IInv => AnswersReachSender
  BY DEF IInv
<1>2. QED
  BY <1>1, Invariance, PTL

(* The translation implements AddressLeases.                               *)
THEOREM LeaseRefinement == Spec => LeaseSpec
<1>1. Init => Leases!Init
  BY DEF Init, Leases!Init
<1>2. IInv /\ [Next]_vars => [Leases!Next]_(Leases!vars)
  <2> SUFFICES ASSUME IInv, [Next]_vars
               PROVE  [Leases!Next]_(Leases!vars)
    OBVIOUS
  <2>1. Leases!Taken = DOMAIN m_externIP2Host
    BY DEF IInv, MapsInverse, Leases!Taken
  <2>2. ASSUME NEW h \in Hosts, SendKnown(h)
        PROVE  Leases!Use(h)
    BY <2>2 DEF SendKnown, Leases!Use
  <2>3. ASSUME NEW h \in Hosts, SendNew(h), Top = NoAddress
        PROVE  Leases!Refuse(h)
    <3>1. Addresses \subseteq Leases!Taken
      BY <2>1, <2>3, DropFacts DEF IInv, NothingLost
    <3>2. QED
      BY <2>3, <3>1 DEF SendNew, maps, Leases!Refuse
  <2>4. ASSUME NEW h \in Hosts, SendNew(h), Top # NoAddress
        PROVE  Leases!Lease(h)
    <3>1. Top \in Free /\ Top \in Addresses
      BY <2>4, PopFacts DEF Free
    <3>2. Top \in Addresses \ Leases!Taken
      BY <2>1, <3>1 DEF IInv, NothingLost
    <3>3. QED
      BY <2>4, <3>2 DEF SendNew, Put, Leases!Lease
  <2>5. ASSUME NEW h \in Hosts, releaseNATItem(h)
        PROVE  Leases!Release(h)
    BY <2>5 DEF releaseNATItem, Erase, Leases!Release
  <2>6. CASE UNCHANGED vars
    BY <2>6 DEF vars, maps, Leases!vars
  <2>7. QED
    BY <2>2, <2>3, <2>4, <2>5, <2>6 DEF Next, Leases!Next
<1>3. QED
  BY <1>1, <1>2, Invariance, PTL DEF Spec, LeaseSpec, Leases!Spec

-----------------------------------------------------------------------------
(* Every step of the TYPE_DATA branch does to the translation what a step  *)
(* of RouterNat does, or nothing.                                          *)
LEMMA ForwardStep == [ForwardNext]_forwardVars => [Next]_vars
<1> SUFFICES ASSUME [ForwardNext]_forwardVars
             PROVE  [Next]_vars
  OBVIOUS
<1>1. ASSUME NEW dst \in Destinations, NEW hop \in RouterPorts \cup {0},
             FromOutside(dst, hop)
      PROVE  UNCHANGED vars
  BY <1>1 DEF FromOutside
<1>2. ASSUME NEW dst \in Destinations, NEW hop \in RouterPorts \cup {0},
             NEW h \in Hosts, ToOutside(h, dst, hop)
      PROVE  SendKnown(h) \/ SendNew(h) \/ UNCHANGED vars
  BY <1>2 DEF ToOutside
<1>3. ASSUME NEW dst \in Destinations, NEW hop \in RouterPorts \cup {0},
             NEW h \in Hosts, Untranslated(h, dst, hop)
      PROVE  UNCHANGED vars
  BY <1>3 DEF Untranslated
<1>4. ASSUME NEW h \in Hosts, ToDefault(h)
      PROVE  UNCHANGED vars
  BY <1>4 DEF ToDefault
<1>5. ASSUME NEW h \in Hosts, Release(h)
      PROVE  releaseNATItem(h)
  BY <1>5 DEF Release
<1>6. ASSUME NEW h \in Added, NEW port \in HostPorts, AddHost(h, port)
      PROVE  UNCHANGED vars
  BY <1>6 DEF AddHost
<1>7. ASSUME NEW h \in Added, NEW router \in Ids, AddHostElsewhere(h, router)
      PROVE  UNCHANGED vars
  BY <1>7 DEF AddHostElsewhere
<1>8. CASE UNCHANGED forwardVars
  BY <1>8 DEF forwardVars
<1>9. QED
  BY <1>1, <1>2, <1>3, <1>4, <1>5, <1>6, <1>7, <1>8 DEF ForwardNext, Next

(* The actions of RouterForward are made of those of RouterNat, so that    *)
(* what is proved of RouterNat holds of the whole branch.                  *)
LEMMA ForwardIsNat == ForwardSpec => Spec
<1>1. ForwardInit => Init
  BY DEF ForwardInit
<1>2. QED
  BY <1>1, ForwardStep, PTL DEF ForwardSpec, Spec

(* The maps of the translation stay inverse to each other.                 *)
THEOREM ForwardMaps == ForwardSpec => []MapsInverse
  BY ForwardIsNat, MapsTheorem, PTL

(* No available address is lost, whatever packet is dropped on its way.    *)
THEOREM ForwardConservation == ForwardSpec => []NothingLost
  BY ForwardIsNat, ConservationTheorem, PTL

(* Answers to a host that was not released reach it.                       *)
THEOREM ForwardAnswers == ForwardSpec => []AnswersReachSender
  BY ForwardIsNat, AnswerTheorem, PTL

(* The whole branch implements AddressLeases.                              *)
THEOREM ForwardLeases == ForwardSpec => LeaseSpec
  BY ForwardIsNat, LeaseRefinement, PTL

-----------------------------------------------------------------------------
(* A nonempty set of natural numbers has a least element.                  *)
LEMMA LeastNatural ==
    ASSUME NEW S \in SUBSET Nat, S # {}
    PROVE  \E n \in S : \A m \in S : n <= m
<1> DEFINE R == {ss \in Nat \X Nat : ss[1] < ss[2]}
<1>1. IsWellFoundedOn(R, Nat)
  BY NatLessThanWellFounded DEF OpToRel
<1>2. \E n \in S : \A m \in S : <<m, n>> \notin R
  <2> HIDE DEF R
  <2> QED
    BY <1>1, WFMin
<1>3. PICK n \in S : \A m \in S : <<m, n>> \notin R
  BY <1>2
<1>4. ASSUME NEW m \in S PROVE n <= m
  <2>1. m \in Nat /\ n \in Nat
    OBVIOUS
  <2>2. ~ (m < n)
    BY <1>3, <2>1
  <2> QED
    BY <2>1, <2>2
<1>5. QED
  BY <1>4

(* Two numbers are in one block of b numbers if they round down alike.     *)
LEMMA SameBlock ==
    ASSUME NEW b \in Nat, b > 0, NEW a \in Nat, NEW ip \in Nat
    PROVE  ip - (ip % b) = a - (a % b) <=>
              a - (a % b) <= ip /\ ip <= a - (a % b) + b - 1
<1> DEFINE qa == a \div b
           qi == ip \div b
           ra == a % b
           ri == ip % b
<1>1. /\ qa \in Int /\ qi \in Int /\ ra \in 0 .. b - 1 /\ ri \in 0 .. b - 1
      /\ a = b * qa + ra
      /\ ip = b * qi + ri
  BY SMT
<1> HIDE DEF qa, qi, ra, ri
<1>2. ASSUME b * qa <= ip, ip <= b * qa + b - 1
      PROVE  qa = qi
  <2>1. b * qi < b * qa + b /\ b * qa < b * qi + b
    BY <1>1, <1>2
  <2>2. qi < qa + 1 /\ qa < qi + 1
    BY <1>1, <2>1, SMT
  <2>3. QED
    BY <1>1, <2>2
<1>3. a - ra = b * qa /\ ip - ri = b * qi
  BY <1>1
<1>4. b * qi = b * qa <=> b * qa <= ip /\ ip <= b * qa + b - 1
  BY <1>1, <1>2
<1>5. QED
  BY <1>3, <1>4 DEF ra, ri

-----------------------------------------------------------------------------
(* The routers that have a network, and the matcher they register.         *)
Connected == {r \in Ids : Network[r] # <<>>}

Matcher(r) == [id |-> r, subnetIP |-> IpMin(Network[r]), musk |-> Musk(Network[r])]

Size(r) == 2 ^ (Width - Network[r][2])

Inside(ip, r) == IpMin(Network[r]) <= ip /\ ip <= IpMax(Network[r])

LEMMA NetworkFacts ==
    ASSUME NEW r \in Connected
    PROVE  /\ r \in Nat \ {0}
           /\ Network[r][1] \in Nat
           /\ Network[r][2] \in 1 .. Width
           /\ Size(r) \in Nat \ {0}
           /\ Musk(Network[r]) = 2 ^ Width - Size(r)
           /\ 2 ^ Width - Musk(Network[r]) = Size(r)
           /\ Musk(Network[r]) \in Int
<1>1. r \in Nat \ {0} /\ Network[r] \in IPAddrs \X (1 .. Width)
  BY ForwardAssumption DEF Connected
<1>2. Width \in Nat /\ 2 ^ Width \in Nat
  BY ForwardAssumption, PowerAssumption
<1>3. Network[r][1] \in Nat /\ Network[r][2] \in 1 .. Width
  BY <1>1, <1>2 DEF IPAddrs
<1>4. Width - Network[r][2] \in 0 .. Width
  BY <1>2, <1>3
<1>5. Size(r) \in Nat \ {0}
  BY <1>4, PowerAssumption DEF Size
<1>6. QED
  BY <1>1, <1>2, <1>3, <1>5 DEF Musk, Size

(* An address matches a router's entry if it is inside its network.        *)
LEMMA MatchIsInside ==
    ASSUME NEW r \in Connected, NEW ip \in IPAddrs
    PROVE  And(ip, Musk(Network[r])) = IpMin(Network[r]) <=> Inside(ip, r)
<1> DEFINE b == Size(r)
           a == Network[r][1]
<1>1. b \in Nat /\ b > 0 /\ a \in Nat
  BY NetworkFacts
<1>2. ip \in Nat
  BY ForwardAssumption, PowerAssumption DEF IPAddrs
<1>3. /\ And(ip, Musk(Network[r])) = ip - (ip % b)
      /\ IpMin(Network[r]) = a - (a % b)
      /\ IpMax(Network[r]) = a - (a % b) + b - 1
  BY NetworkFacts DEF And, IpMin, IpMax, Size
<1>4. QED
  <2> HIDE DEF a, b
  <2> QED
    BY <1>1, <1>2, <1>3, SameBlock DEF Inside

(* The table holds the matcher of every network, the longest masks first.  *)
TableInv ==
    /\ DOMAIN externalIPTable \subseteq Nat
    /\ Registered(externalIPTable)

LEMMA TableFacts ==
    ASSUME TableInv
    PROVE  /\ \A k \in DOMAIN externalIPTable :
                 \E r \in Connected : externalIPTable[k] = Matcher(r)
           /\ \A r \in Connected :
                 \E k \in DOMAIN externalIPTable : externalIPTable[k] = Matcher(r)
           /\ Sorted(externalIPTable)
<1>1. /\ {externalIPTable[k] : k \in DOMAIN externalIPTable} = Matchers
      /\ Sorted(externalIPTable)
  BY DEF TableInv, Registered
<1>2. Matchers = {Matcher(r) : r \in Connected}
  BY DEF Matchers, Matcher, Connected
<1>3. QED
  BY <1>1, <1>2

(* The first matching entry is of a router whose network is around the     *)
(* address, and no network around it is smaller.                           *)
LEMMA FirstMatch ==
    ASSUME TableInv, NEW ip \in IPAddrs
    PROVE  IF \E i \in Connected : Inside(ip, i)
           THEN /\ exIPMatchRouter(ip) \in Connected
                /\ Inside(ip, exIPMatchRouter(ip))
                /\ \A i \in Connected : Inside(ip, i) =>
                      Network[exIPMatchRouter(ip)][2] >= Network[i][2]
           ELSE exIPMatchRouter(ip) = NoRouter
<1> DEFINE Matching == {k \in DOMAIN externalIPTable : match(k, ip)}
<1>1. ASSUME NEW k \in DOMAIN externalIPTable, NEW r \in Connected,
             externalIPTable[k] = Matcher(r)
      PROVE  match(k, ip) <=> Inside(ip, r)
  BY <1>1, MatchIsInside DEF match, Matcher
<1>2. CASE ~ \E i \in Connected : Inside(ip, i)
  <2>1. Matching = {}
    BY <1>1, <1>2, TableFacts
  <2>2. QED
    BY <1>2, <2>1 DEF exIPMatchRouter
<1>3. CASE \E i \in Connected : Inside(ip, i)
  <2>1. Matching # {} /\ Matching \in SUBSET Nat
    BY <1>1, <1>3, TableFacts DEF TableInv
  <2>2. \E k \in Matching : \A j \in Matching : k <= j
    <3> HIDE DEF Matching
    <3> QED
      BY <2>1, LeastNatural
  <2> DEFINE f == CHOOSE k \in Matching : \A j \in Matching : k <= j
  <2>3. f \in Matching /\ \A j \in Matching : f <= j
    <3> HIDE DEF Matching
    <3> QED
      BY <2>2
  <2>4. exIPMatchRouter(ip) = externalIPTable[f].id
    <3>1. exIPMatchRouter(ip) = IF Matching = {} THEN NoRouter
                                ELSE externalIPTable[f].id
      BY Zenon DEF exIPMatchRouter
    <3> HIDE DEF Matching, f
    <3> QED
      BY <2>1, <3>1
  <2> HIDE DEF f
  <2>5. PICK r \in Connected : externalIPTable[f] = Matcher(r)
    BY <2>3, TableFacts
  <2>6. exIPMatchRouter(ip) = r /\ Inside(ip, r)
    <3>1. f \in DOMAIN externalIPTable /\ match(f, ip)
      BY <2>3
    <3>2. externalIPTable[f].id = r
      BY <2>5 DEF Matcher
    <3>3. QED
      BY <1>1, <2>4, <2>5, <3>1, <3>2
  <2>7. ASSUME NEW i \in Connected, Inside(ip, i)
        PROVE  Network[r][2] >= Network[i][2]
    <3>1. PICK k \in DOMAIN externalIPTable : externalIPTable[k] = Matcher(i)
      BY TableFacts
    <3>2. k \in Matching /\ f \in DOMAIN externalIPTable
      BY <1>1, <2>3, <2>7, <3>1
    <3>3. Musk(Network[r]) >= Musk(Network[i])
      <4>1. CASE k = f
        <5>1. r = i
          BY <2>5, <3>1, <4>1 DEF Matcher
        <5> QED
          BY <5>1, NetworkFacts
      <4>2. CASE f < k
        <5>1. externalIPTable[f].musk >= externalIPTable[k].musk
          BY <3>2, <4>2, TableFacts DEF Sorted
        <5> QED
          BY <2>5, <3>1, <5>1 DEF Matcher
      <4>3. f <= k /\ f \in Nat /\ k \in Nat
        BY <2>1, <2>3, <3>2
      <4> QED
        BY <4>1, <4>2, <4>3
    <3>4. Size(r) <= Size(i)
      <4>1. 2 ^ Width \in Nat
        BY ForwardAssumption, PowerAssumption
      <4> QED
        BY <3>3, <4>1, NetworkFacts
    <3>5. QED
      <4>1. /\ Network[r][2] \in 1 .. Width /\ Network[i][2] \in 1 .. Width
            /\ Width \in Nat
        BY NetworkFacts, ForwardAssumption
      <4>2. ASSUME Network[r][2] < Network[i][2]
            PROVE  Size(i) < Size(r)
        <5>1. /\ Width - Network[i][2] \in 0 .. Width
              /\ Width - Network[r][2] \in 0 .. Width
              /\ Width - Network[i][2] < Width - Network[r][2]
          BY <4>1, <4>2
        <5> QED
          BY <5>1, PowerAssumption DEF Size
      <4>3. QED
        BY <3>4, <4>1, <4>2, NetworkFacts
  <2>8. QED
    BY <1>3, <2>6, <2>7
<1>4. QED
  BY <1>2, <1>3

-----------------------------------------------------------------------------
(* What the router knows of itself does not change, and a host at it is at *)
(* one of its host ports.                                                  *)
PlaceInv ==
    /\ m_routerID \in Ids
    /\ m_routerID \in Connected =>
          /\ externalIPMin = IpMin(Network[m_routerID])
          /\ externalIPMax = IpMax(Network[m_routerID])
    /\ \A h \in DOMAIN m_host2Port : m_host2Port[h] \in HostPorts

OutInv == TableInv /\ PlaceInv /\ LeavesTranslated

LEMMA OutInit == ForwardInit => OutInv
<1> SUFFICES ASSUME ForwardInit
             PROVE  OutInv
  OBVIOUS
<1>1. TableInv
  BY DEF ForwardInit, TableInv
<1>2. PlaceInv
  BY DEF ForwardInit, PlaceInv, Connected
<1>3. external # Controller
  BY ForwardAssumption DEF Controller
<1>4. LeavesTranslated
  BY <1>3 DEF ForwardInit, LeavesTranslated, NoPacket
<1>5. QED
  BY <1>1, <1>2, <1>4 DEF OutInv

(* A packet that the range does not take for one to the outside does not   *)
(* leave through the external port.                                        *)
LEMMA StaysInside ==
    ASSUME OutInv, NEW dst \in IPAddrs, ~isExternalIP(dst),
           NEW hop \in RouterPorts \cup {0}
    PROVE  outPort(dst, hop) # external
<1>1. /\ external \in Nat \ {0, 1}
      /\ external \notin RouterPorts /\ external \notin HostPorts
  BY ForwardAssumption
<1>2. ASSUME NEW router
      PROVE  PortTo(router, hop) # external
  <2>1. Crash # external /\ Controller # external /\ hop # external
    BY <1>1 DEF Crash, Controller
  <2>2. QED
    BY <2>1, Zenon DEF PortTo
<1>3. At(m_host2Port, dst) # external
  BY <1>1 DEF OutInv, PlaceInv, At
<1>4. exIPMatchRouter(dst) = m_routerID => FALSE
  <2>1. ASSUME exIPMatchRouter(dst) = m_routerID
        PROVE  m_routerID \in Connected /\ Inside(dst, m_routerID)
    <3>1. NoRouter \notin Ids
      BY ForwardAssumption DEF NoRouter
    <3> QED
      BY <2>1, <3>1, FirstMatch DEF OutInv, PlaceInv
  <2>2. QED
    BY <2>1 DEF OutInv, PlaceInv, Inside, isExternalIP
<1>5. QED
  BY <1>2, <1>3, <1>4, Zenon DEF outPort

LEMMA AllottedPublic ==
    ASSUME NEW a \in Nat
    PROVE  Allotted(Public(a)) = a
<1>1. availableIPMin \in Nat
  BY ForwardAssumption, PowerAssumption DEF IPAddrs
<1>2. QED
  BY <1>1 DEF Allotted, Public

(* What an action leaves of the invariant's parts when it does not touch   *)
(* their variables.                                                        *)
LEMMA OutUnchanged ==
    ASSUME OutInv, UNCHANGED tables
    PROVE  /\ TableInv'
           /\ UNCHANGED m_host2Port => PlaceInv'
           /\ UNCHANGED <<sent, out>> => LeavesTranslated'
<1>1. UNCHANGED <<m_routerID, externalIPMin, externalIPMax, externalIPTable>>
  BY DEF tables
<1>2. TableInv'
  BY <1>1 DEF OutInv, TableInv, Registered, Sorted
<1>3. UNCHANGED m_host2Port => PlaceInv'
  BY <1>1 DEF OutInv, PlaceInv
<1>4. UNCHANGED <<sent, out>> => LeavesTranslated'
  BY DEF OutInv, LeavesTranslated, Allotted
<1>5. QED
  BY <1>2, <1>3, <1>4

(* A step that returns a packet: what is left to show is about the packet. *)
LEMMA ReturnStep ==
    ASSUME OutInv, NEW port, NEW outside, NEW from, NEW src, NEW dst,
           Returns(port, outside, from, src, dst),
           port = external /\ ~outside => sent' = <<from, Allotted(src)>>
    PROVE  OutInv'
<1>1. UNCHANGED tables /\ UNCHANGED m_host2Port
  BY DEF Returns, places
<1>2. out' = [port |-> port, outside |-> outside, from |-> from,
              src |-> src, dst |-> dst]
  BY DEF Returns
<1>3. LeavesTranslated'
  BY <1>2 DEF LeavesTranslated, Allotted
<1>4. QED
  BY <1>1, <1>3, OutUnchanged DEF OutInv

LEMMA ToOutsideStep ==
    ASSUME OutInv, IInv, NEW h, NEW dst, NEW hop, ToOutside(h, dst, hop)
    PROVE  OutInv'
<1>1. external # Drop
  BY ForwardAssumption DEF Drop
<1>2. CASE Returns(Drop, FALSE, h, h, dst)
  BY <1>1, <1>2, ReturnStep
<1>3. CASE /\ SendKnown(h)
           /\ Returns(outPort(dst, hop), FALSE, h, Public(m_host2ExternIP[h]), dst)
  <2>1. m_host2ExternIP[h] \in Nat /\ sent' = <<h, m_host2ExternIP[h]>>
    BY <1>3, PoolAssumption DEF SendKnown, IInv, TypeOK, Addresses
  <2>2. QED
    BY <1>3, <2>1, AllottedPublic, ReturnStep
<1>4. CASE /\ SendNew(h)
           /\ Returns(outPort(dst, hop), FALSE, h, Public(Top), dst)
  <2>1. Top \in Nat /\ sent' = <<h, Top>>
    BY <1>4, PopFacts, PoolAssumption DEF SendNew, Addresses, NoAddress
  <2>2. QED
    BY <1>4, <2>1, AllottedPublic, ReturnStep
<1>5. QED
  BY <1>2, <1>3, <1>4 DEF ToOutside

LEMMA OutStep ==
    ASSUME OutInv, IInv, [ForwardNext]_forwardVars
    PROVE  OutInv'
<1>0. external # Drop /\ external # Controller
  BY ForwardAssumption DEF Drop, Controller
<1>1. ASSUME NEW dst \in Destinations, NEW hop \in RouterPorts \cup {0},
             FromOutside(dst, hop)
      PROVE  OutInv'
  BY <1>0, <1>1, ReturnStep DEF FromOutside
<1>2. ASSUME NEW dst \in Destinations, NEW hop \in RouterPorts \cup {0},
             NEW h \in Hosts, ToOutside(h, dst, hop)
      PROVE  OutInv'
  BY <1>2, ToOutsideStep
<1>3. ASSUME NEW dst \in Destinations, NEW hop \in RouterPorts \cup {0},
             NEW h \in Hosts, Untranslated(h, dst, hop)
      PROVE  OutInv'
  <2>1. outPort(dst, hop) # external
    BY <1>3, StaysInside, ForwardAssumption DEF Untranslated
  <2>2. QED
    BY <1>3, <2>1, ReturnStep DEF Untranslated
<1>4. ASSUME NEW h \in Hosts, ToDefault(h)
      PROVE  OutInv'
  BY <1>0, <1>4, ReturnStep DEF ToDefault
<1>5. ASSUME NEW h \in Hosts, Release(h)
      PROVE  OutInv'
  <2>1. UNCHANGED <<tables, places>> /\ out' = NoPacket
    BY <1>5 DEF Release
  <2>2. LeavesTranslated'
    BY <1>0, <2>1 DEF LeavesTranslated, NoPacket
  <2>3. QED
    BY <2>1, <2>2, OutUnchanged DEF places, OutInv
<1>6. ASSUME NEW h \in Added, NEW port \in HostPorts, AddHost(h, port)
      PROVE  OutInv'
  <2>1. UNCHANGED <<tables, sent, out>>
    BY <1>6 DEF AddHost, vars
  <2>2. m_host2Port' = Put(m_host2Port, h, port)
    BY <1>6 DEF AddHost
  <2>3. PlaceInv'
    BY <2>1, <2>2 DEF tables, OutInv, PlaceInv, Put
  <2>4. QED
    BY <2>1, <2>3, OutUnchanged DEF OutInv
<1>7. ASSUME NEW h \in Added, NEW router \in Ids, AddHostElsewhere(h, router)
      PROVE  OutInv'
  BY <1>7, OutUnchanged DEF AddHostElsewhere, vars, OutInv
<1>8. CASE UNCHANGED forwardVars
  BY <1>8, OutUnchanged DEF forwardVars, vars, places, OutInv
<1>9. QED
  BY <1>1, <1>2, <1>3, <1>4, <1>5, <1>6, <1>7, <1>8 DEF ForwardNext

THEOREM ForwardInvariance == ForwardSpec => []OutInv
<1>1. ForwardSpec => []IInv
  BY ForwardIsNat, Invariance, PTL
<1>2. OutInv /\ IInv /\ [ForwardNext]_forwardVars => OutInv'
  BY OutStep
<1>3. QED
  BY <1>1, <1>2, OutInit, PTL DEF ForwardSpec

(* Whatever leaves through the external port carries the public address    *)
(* that its sender holds, whatever networks the routers have.              *)
THEOREM TranslationTheorem == ForwardSpec => []LeavesTranslated
<1>1. OutInv => LeavesTranslated
  BY DEF OutInv
<1>2. QED
  BY <1>1, ForwardInvariance, PTL

(* The table finds the smallest network around an address, for all         *)
(* networks and every order that std::sort may leave equal masks in.       *)
THEOREM LongestMatchTheorem == ForwardSpec => []LongestMatch
<1>1. OutInv => LongestMatch
  <2> SUFFICES ASSUME OutInv, NEW ip \in IPAddrs,
                      NEW Around,
                      Around = {i \in Ids : /\ Network[i] # <<>>
                                            /\ IpMin(Network[i]) <= ip
                                            /\ ip <= IpMax(Network[i])}
               PROVE  IF Around = {} THEN exIPMatchRouter(ip) = NoRouter
                      ELSE /\ exIPMatchRouter(ip) \in Around
                           /\ \A i \in Around :
                                Network[exIPMatchRouter(ip)][2] >= Network[i][2]
    BY DEF LongestMatch
  <2>1. Around = {i \in Connected : Inside(ip, i)}
    BY DEF Connected, Inside
  <2>2. QED
    BY <2>1, FirstMatch DEF OutInv
<1>2. QED
  BY <1>1, ForwardInvariance, PTL

-----------------------------------------------------------------------------
(* The ends of a network are addresses.                                    *)
LEMMA BlockEnds ==
    ASSUME NEW b \in Nat, b > 0, NEW c \in Nat, NEW a \in Nat, a < b * c
    PROVE  /\ a - (a % b) \in Nat
           /\ a - (a % b) + b - 1 \in Nat
           /\ a - (a % b) <= a - (a % b) + b - 1
           /\ a - (a % b) + b <= b * c
<1> DEFINE q == a \div b
           r == a % b
<1>1. q \in Int /\ r \in 0 .. b - 1 /\ a = b * q + r
  BY SMT
<1> HIDE DEF q, r
<1>2. q < c /\ q >= 0
  <2>1. b * q < b * c /\ b * q > b * (-1)
    BY <1>1
  <2>2. QED
    BY <1>1, <2>1, SMT
<1>3. b * q >= 0 /\ b * q + b <= b * c
  BY <1>1, <1>2, SMT
<1>4. a - r = b * q
  BY <1>1
<1>5. b * q \in Int /\ b * c \in Int
  BY <1>1
<1>6. QED
  BY <1>3, <1>4, <1>5 DEF r

LEMMA NetworkEnds ==
    ASSUME NEW r \in Connected
    PROVE  IpMin(Network[r]) \in IPAddrs /\ IpMax(Network[r]) \in IPAddrs
<1> DEFINE b == Size(r)
           c == 2 ^ Network[r][2]
           a == Network[r][1]
<1>1. b \in Nat /\ b > 0 /\ a \in Nat
  BY NetworkFacts
<1>2. /\ Width \in Nat /\ 2 ^ Width \in Nat
      /\ Network[r][2] \in 0 .. Width
      /\ a \in 0 .. 2 ^ Width - 1
  <2>1. r \in Ids /\ Network[r] \in IPAddrs \X (1 .. Width)
    BY ForwardAssumption DEF Connected
  <2>2. QED
    BY <2>1, ForwardAssumption, PowerAssumption DEF IPAddrs
<1>3. c \in Nat /\ 2 ^ Width = b * c
  BY <1>2, PowerAssumption DEF Size
<1>4. a < b * c
  BY <1>1, <1>2, <1>3
<1>5. /\ IpMin(Network[r]) = a - (a % b)
      /\ IpMax(Network[r]) = a - (a % b) + b - 1
  BY NetworkFacts DEF And, IpMin, IpMax, Size
<1>6. /\ a - (a % b) \in Nat
      /\ a - (a % b) + b - 1 \in Nat
      /\ a - (a % b) <= a - (a % b) + b - 1
      /\ a - (a % b) + b <= b * c
  <2> HIDE DEF a, b, c
  <2> QED
    BY <1>1, <1>3, <1>4, BlockEnds
<1> DEFINE lo == a - (a % b)
<1>7. lo \in Nat /\ lo <= lo + b - 1 /\ lo + b <= b * c
  BY <1>6
<1>8. lo \in 0 .. b * c - 1 /\ lo + b - 1 \in 0 .. b * c - 1
  <2> HIDE DEF lo, a, b, c
  <2> QED
    BY <1>1, <1>3, <1>7
<1>9. QED
  BY <1>3, <1>5, <1>8 DEF IPAddrs

(* The look-up in the table yields a router with a network, or none.       *)
LEMMA MatchRange ==
    ASSUME TableInv, NEW ip
    PROVE  exIPMatchRouter(ip) \in Connected \cup {NoRouter}
<1> DEFINE Matching == {k \in DOMAIN externalIPTable : match(k, ip)}
           f == CHOOSE k \in Matching : \A j \in Matching : k <= j
<1>1. exIPMatchRouter(ip) = IF Matching = {} THEN NoRouter
                            ELSE externalIPTable[f].id
  BY Zenon DEF exIPMatchRouter
<1>2. Matching \in SUBSET Nat
  BY DEF TableInv
<1>3. ASSUME Matching # {}
      PROVE  f \in Matching
  <2>1. \E k \in Matching : \A j \in Matching : k <= j
    <3> HIDE DEF Matching
    <3> QED
      BY <1>2, <1>3, LeastNatural
  <2>2. QED
    <3> HIDE DEF Matching
    <3> QED
      BY <2>1
<1>4. CASE Matching # {}
  <2>1. f \in DOMAIN externalIPTable
    BY <1>3, <1>4
  <2> HIDE DEF f, Matching
  <2>2. PICK r \in Connected : externalIPTable[f] = Matcher(r)
    BY <2>1, TableFacts
  <2>3. exIPMatchRouter(ip) = r
    BY <1>1, <1>4, <2>2 DEF Matcher
  <2>4. QED
    BY <2>3
<1>5. QED
  <2> HIDE DEF f, Matching
  <2> QED
    BY <1>1, <1>4

(* What router() may return for a data packet.                             *)
PortsOut == RouterPorts \cup HostPorts \cup {external, Controller, Drop, Crash}

(* Where the hosts are.                                                    *)
HostInv ==
    /\ DOMAIN m_host2Port \subseteq Added /\ DOMAIN host2Router \subseteq Added
    /\ \A h \in DOMAIN m_host2Port : m_host2Port[h] \in HostPorts
    /\ \A h \in DOMAIN host2Router :
          /\ host2Router[h] \in Ids
          /\ host2Router[h] = m_routerID => h \in DOMAIN m_host2Port

(* No packet gets port 0, which would be a broadcast.                      *)
LEMMA OutPortRange ==
    ASSUME TableInv, HostInv, m_routerID \in Ids, NEW dst,
           NEW hop \in RouterPorts \cup {0}
    PROVE  outPort(dst, hop) \in PortsOut
<1>1. ASSUME NEW router
      PROVE  PortTo(router, hop) \in PortsOut
  BY Zenon DEF PortTo, PortsOut
<1>2. At(host2Router, dst) = m_routerID => At(m_host2Port, dst) \in HostPorts
  <2>1. 0 \notin Ids
    BY ForwardAssumption
  <2>2. QED
    BY <2>1 DEF At, HostInv
<1>3. exIPMatchRouter(dst) = m_routerID => m_external_port = external
  <2>1. NoRouter \notin Ids
    BY ForwardAssumption DEF NoRouter
  <2>2. QED
    BY <2>1, MatchRange DEF m_external_port, Connected
<1>4. HostPorts \subseteq PortsOut /\ external \in PortsOut
  BY DEF PortsOut
<1>5. QED
  BY <1>1, <1>2, <1>3, <1>4, Zenon DEF outPort

(* The type invariant without the part that RouterNat answers for.         *)
FwdTypeInv ==
    /\ m_routerID \in Ids
    /\ externalIPMin \in IPAddrs /\ externalIPMax \in IPAddrs
    /\ externalIPTable \in [1 .. Cardinality(Matchers) -> Matchers]
    /\ HostInv
    /\ out.port \in PortsOut

LEMMA FwdTypeInit == ForwardInit => FwdTypeInv
<1> SUFFICES ASSUME ForwardInit PROVE FwdTypeInv
  OBVIOUS
<1>1. m_routerID \in Ids
  BY DEF ForwardInit
<1>2. externalIPMin \in IPAddrs /\ externalIPMax \in IPAddrs
  <2>1. CASE m_routerID \in Connected
    BY <2>1, NetworkEnds DEF ForwardInit, Connected
  <2>2. CASE m_routerID \notin Connected
    <3>1. PICK g \in Garbage : externalIPMin = g[1] /\ externalIPMax = g[2]
      BY <1>1, <2>2 DEF ForwardInit, Connected
    <3>2. g \in IPAddrs \X IPAddrs
      BY ForwardAssumption
    <3>3. QED
      BY <3>1, <3>2
  <2>3. QED
    BY <2>1, <2>2
<1>3. HostInv /\ out.port \in PortsOut
  BY DEF ForwardInit, HostInv, PortsOut, NoPacket
<1>4. QED
  BY <1>1, <1>2, <1>3 DEF ForwardInit, FwdTypeInv

LEMMA FwdTypeStep ==
    ASSUME FwdTypeInv, OutInv, [ForwardNext]_forwardVars
    PROVE  FwdTypeInv'
<1>0. TableInv /\ HostInv /\ m_routerID \in Ids
  BY DEF OutInv, FwdTypeInv
<1>t. UNCHANGED <<m_routerID, externalIPMin, externalIPMax, externalIPTable>>
  BY DEF ForwardNext, forwardVars, tables, FromOutside, ToOutside, Untranslated,
     ToDefault, Release, AddHost, AddHostElsewhere, Returns
<1>p. {Drop, Controller} \subseteq PortsOut
  BY DEF PortsOut
<1>1. ASSUME NEW port \in PortsOut, NEW outside, NEW from, NEW src, NEW dst,
             Returns(port, outside, from, src, dst)
      PROVE  FwdTypeInv'
  <2>1. UNCHANGED <<m_host2Port, host2Router>> /\ out'.port = port
    BY <1>1 DEF Returns, places
  <2>2. QED
    BY <1>t, <2>1 DEF FwdTypeInv, HostInv, PortsOut
<1>2. ASSUME NEW dst \in Destinations, NEW hop \in RouterPorts \cup {0},
             FromOutside(dst, hop)
      PROVE  FwdTypeInv'
  <2>1. CASE Returns(Drop, TRUE, 0, 0, dst)
    BY <1>1, <1>p, <2>1
  <2>2. ASSUME NEW h, Returns(outPort(h, hop), TRUE, 0, 0, h)
        PROVE  FwdTypeInv'
    BY <1>0, <1>1, <2>2, OutPortRange
  <2>3. QED
    BY <1>2, <2>1, <2>2 DEF FromOutside
<1>3. ASSUME NEW dst \in Destinations, NEW hop \in RouterPorts \cup {0},
             NEW h \in Hosts, ToOutside(h, dst, hop) \/ Untranslated(h, dst, hop)
      PROVE  FwdTypeInv'
  <2>1. outPort(dst, hop) \in PortsOut /\ Drop \in PortsOut
    BY <1>0, <1>p, OutPortRange
  <2>2. \E port \in PortsOut : \E outside, from, src, d :
           Returns(port, outside, from, src, d)
    BY <1>3, <2>1 DEF ToOutside, Untranslated
  <2>3. QED
    BY <1>1, <2>2
<1>4. ASSUME NEW h \in Hosts, ToDefault(h)
      PROVE  FwdTypeInv'
  BY <1>1, <1>4, <1>p DEF ToDefault
<1>5. CASE UNCHANGED places /\ (out' = out \/ out' = NoPacket)
  <2>1. UNCHANGED <<m_host2Port, host2Router>> /\ out'.port \in PortsOut
    BY <1>5, <1>p DEF places, NoPacket, FwdTypeInv
  <2>2. QED
    BY <1>t, <2>1 DEF FwdTypeInv, HostInv, PortsOut
<1>6. ASSUME NEW h \in Added, NEW port \in HostPorts, AddHost(h, port)
      PROVE  FwdTypeInv'
  <2>1. /\ m_host2Port' = Put(m_host2Port, h, port)
        /\ host2Router' = Put(host2Router, h, m_routerID)
        /\ UNCHANGED out
    BY <1>6 DEF AddHost
  <2>2. HostInv'
    BY <1>0, <1>t, <2>1 DEF HostInv, Put
  <2>3. QED
    BY <1>t, <2>1, <2>2 DEF FwdTypeInv, PortsOut
<1>7. ASSUME NEW h \in Added, NEW router \in Ids, AddHostElsewhere(h, router)
      PROVE  FwdTypeInv'
  <2>1. /\ host2Router' = Put(host2Router, h, router) /\ router # m_routerID
        /\ UNCHANGED <<m_host2Port, out>>
    BY <1>7 DEF AddHostElsewhere
  <2>2. HostInv'
    BY <1>0, <1>t, <2>1 DEF HostInv, Put
  <2>3. QED
    BY <1>t, <2>1, <2>2 DEF FwdTypeInv, PortsOut
<1>8. QED
  BY <1>2, <1>3, <1>4, <1>5, <1>6, <1>7 DEF ForwardNext, Release, forwardVars

(* The types of the whole data path; in particular router() returns no     *)
(* port 0, whose meaning is a broadcast, for any packet (PortTo, outPort). *)
THEOREM ForwardTypeCorrect == ForwardSpec => []ForwardTypeOK
<1>1. ForwardSpec => []IInv
  BY ForwardIsNat, Invariance, PTL
<1>2. OutInv /\ FwdTypeInv /\ [ForwardNext]_forwardVars => FwdTypeInv'
  BY FwdTypeStep
<1>3. IInv /\ FwdTypeInv => ForwardTypeOK
  BY DEF IInv, FwdTypeInv, HostInv, PortsOut, ForwardTypeOK
<1>4. QED
  BY <1>1, <1>2, <1>3, FwdTypeInit, ForwardInvariance, PTL DEF ForwardSpec
-----------------------------------------------------------------------------
(* What router() looks up is never a drop.                                 *)
LEMMA OutPortNoDrop ==
    ASSUME TableInv, HostInv, m_routerID \in Ids, NEW dst,
           NEW hop \in RouterPorts \cup {0}
    PROVE  outPort(dst, hop) # Drop
<1>1. /\ external # Drop /\ Controller # Drop /\ Crash # Drop
      /\ \A port \in RouterPorts \cup HostPorts \cup {0} : port # Drop
  BY ForwardAssumption DEF Drop, Controller, Crash
<1>2. ASSUME NEW router
      PROVE  PortTo(router, hop) # Drop
  BY <1>1, Zenon DEF PortTo
<1>3. At(m_host2Port, dst) # Drop /\ m_external_port # Drop
  BY <1>1 DEF At, HostInv, m_external_port
<1>4. QED
  BY <1>2, <1>3, Zenon DEF outPort

(* The range of a router takes for its network what the table does.        *)
LEMMA RangeIsOwn ==
    ASSUME OutInv, NEW dst \in IPAddrs, isExternalIP(dst), m_external_port # 0
    PROVE  OwnNetwork(dst)
<1>1. m_routerID \in Connected
  BY DEF OutInv, PlaceInv, m_external_port, Connected
<1>2. Inside(dst, m_routerID)
  BY <1>1 DEF OutInv, PlaceInv, Inside, isExternalIP
<1>3. PICK k \in DOMAIN externalIPTable : externalIPTable[k] = Matcher(m_routerID)
  BY <1>1, TableFacts DEF OutInv
<1>4. match(k, dst)
  BY <1>1, <1>2, <1>3, MatchIsInside DEF match, Matcher
<1>5. externalIPTable[k].id = m_routerID
  BY <1>3 DEF Matcher
<1>6. QED
  BY <1>4, <1>5, Zenon DEF OwnNetwork

LEMMA OwnNetworkStep ==
    ASSUME IInv, OutInv, FwdTypeInv, OwnNetworkOnly, [ForwardNext]_forwardVars
    PROVE  OwnNetworkOnly'
<1>0. TableInv /\ HostInv /\ m_routerID \in Ids
  BY DEF OutInv, FwdTypeInv
<1>t. UNCHANGED <<m_routerID, externalIPTable>>
  BY DEF ForwardNext, forwardVars, tables, FromOutside, ToOutside, Untranslated,
     ToDefault, Release, AddHost, AddHostElsewhere, Returns
<1>o. \A ip : OwnNetwork(ip)' = OwnNetwork(ip)
  BY <1>t DEF OwnNetwork, match
<1>n. \A dst, hop : hop \in RouterPorts \cup {0} => outPort(dst, hop) # Drop
  BY <1>0, OutPortNoDrop
(* A packet that is passed on as it came.                                  *)
<1>p. ASSUME NEW port, NEW outside, NEW from, NEW dst, port # Drop,
             Returns(port, outside, from, from, dst)
      PROVE  OwnNetworkOnly'
  <2>1. out' = [port |-> port, outside |-> outside, from |-> from,
                src |-> from, dst |-> dst]
    BY <1>p DEF Returns
  <2>2. QED
    BY <1>p, <2>1 DEF OwnNetworkOnly
<1>1. ASSUME NEW dst \in Destinations, NEW hop \in RouterPorts \cup {0},
             FromOutside(dst, hop)
      PROVE  OwnNetworkOnly'
  <2>1. CASE Inbound(Allotted(dst)) = {} /\ Returns(Drop, TRUE, 0, 0, dst)
    <3>1. out' = [port |-> Drop, outside |-> TRUE, from |-> 0,
                  src |-> 0, dst |-> dst]
      BY <2>1 DEF Returns
    <3>2. m_externIP2Host' = m_externIP2Host
      BY <1>1 DEF FromOutside, vars, maps
    <3>3. Allotted(dst) \notin DOMAIN m_externIP2Host
      BY <2>1 DEF Inbound
    <3>4. Allotted(dst) \notin DOMAIN m_externIP2Host'
      BY <3>2, <3>3
    <3>5. QED
      BY <3>1, <3>4 DEF OwnNetworkOnly, Allotted
  <2>2. ASSUME NEW h, Returns(outPort(h, hop), TRUE, 0, 0, h)
        PROVE  OwnNetworkOnly'
    BY <1>n, <1>p, <2>2
  <2>3. QED
    BY <1>1, <2>1, <2>2 DEF FromOutside
<1>2. ASSUME NEW dst \in Destinations, NEW hop \in RouterPorts \cup {0},
             NEW h \in Hosts, ToOutside(h, dst, hop)
      PROVE  OwnNetworkOnly'
  <2>1. dst \in IPAddrs /\ isExternalIP(dst)
    BY <1>2, ForwardAssumption DEF ToOutside
  <2>2. m_external_port = 0 => Network[m_routerID]' = <<>>
    BY <1>t, ForwardAssumption DEF m_external_port
  <2>3. m_external_port # 0 => OwnNetwork(dst)'
    BY <1>o, <2>1, RangeIsOwn
  <2>4. CASE m_external_port = 0 /\ Returns(Drop, FALSE, h, h, dst)
    <3>1. out' = [port |-> Drop, outside |-> FALSE, from |-> h,
                  src |-> h, dst |-> dst]
      BY <2>4 DEF Returns
    <3>2. QED
      BY <2>2, <2>4, <3>1 DEF OwnNetworkOnly
  <2>5. ASSUME NEW src, m_external_port # 0,
               Returns(outPort(dst, hop), FALSE, h, src, dst)
        PROVE  OwnNetworkOnly'
    <3>1. /\ out' = [port |-> outPort(dst, hop), outside |-> FALSE, from |-> h,
                     src |-> src, dst |-> dst]
          /\ outPort(dst, hop) # Drop
      BY <1>n, <2>5 DEF Returns
    <3>2. /\ out'.port # Drop /\ out'.outside = FALSE /\ out'.dst = dst
      BY <3>1
    <3>3. QED
      BY <2>3, <2>5, <3>2 DEF OwnNetworkOnly
  <2>6. CASE /\ m_external_port # 0 /\ SendNew(h) /\ Top = NoAddress
             /\ Returns(Drop, FALSE, h, h, dst)
    <3>1. out' = [port |-> Drop, outside |-> FALSE, from |-> h,
                  src |-> h, dst |-> dst]
      BY <2>6 DEF Returns
    <3>2. /\ h \notin DOMAIN m_host2ExternIP
          /\ m_host2ExternIP' = m_host2ExternIP
          /\ m_externIP2Host' = m_externIP2Host
      BY <2>6 DEF SendNew, maps
    <3>3. DOMAIN m_externIP2Host = Addresses
      BY <2>6, DropFacts DEF IInv, NothingLost
    <3>4. h \notin DOMAIN m_host2ExternIP' /\ DOMAIN m_externIP2Host' = Addresses
      BY <3>2, <3>3
    <3>5. QED
      BY <2>3, <2>6, <3>1, <3>4 DEF OwnNetworkOnly
  <2>7. QED
    BY <1>2, <2>4, <2>5, <2>6 DEF ToOutside
<1>3. ASSUME NEW dst \in Destinations, NEW hop \in RouterPorts \cup {0},
             NEW h \in Hosts, Untranslated(h, dst, hop)
      PROVE  OwnNetworkOnly'
  BY <1>n, <1>p, <1>3 DEF Untranslated
<1>4. ASSUME NEW h \in Hosts, ToDefault(h)
      PROVE  OwnNetworkOnly'
  <2>1. Controller # Drop
    BY DEF Controller, Drop
  <2>2. Returns(Controller, FALSE, h, h, 0)
    BY <1>4 DEF ToDefault
  <2>3. QED
    BY <1>p, <2>1, <2>2, Zenon
<1>5. ASSUME NEW h \in Hosts, Release(h)
      PROVE  OwnNetworkOnly'
  BY <1>5 DEF Release, NoPacket, OwnNetworkOnly, Controller, Drop
<1>6. CASE UNCHANGED <<vars, out>>
  <2>1. UNCHANGED <<m_host2ExternIP, m_externIP2Host, out>>
    BY <1>6 DEF vars, maps
  <2>2. QED
    BY <1>o, <1>t, <2>1 DEF OwnNetworkOnly, Allotted
<1>7. QED
  BY <1>1, <1>2, <1>3, <1>4, <1>5, <1>6
     DEF ForwardNext, AddHost, AddHostElsewhere, forwardVars

(* For all networks and any hosts only what goes to the router's own       *)
(* network is translated, and a router with a network drops a packet only  *)
(* when its host needs an address and others hold all, or when it comes    *)
(* from outside for an address that nobody holds.                          *)
THEOREM OwnNetworkTheorem == ForwardSpec => []OwnNetworkOnly
<1>1. ForwardSpec => []IInv
  BY ForwardIsNat, Invariance, PTL
<1>2. ForwardInit => OwnNetworkOnly
  BY DEF ForwardInit, NoPacket, OwnNetworkOnly, Controller, Drop
<1>3. OutInv /\ FwdTypeInv /\ [ForwardNext]_forwardVars => FwdTypeInv'
  BY FwdTypeStep
<1>4. /\ IInv /\ OutInv /\ FwdTypeInv /\ OwnNetworkOnly
      /\ [ForwardNext]_forwardVars
      => OwnNetworkOnly'
  BY OwnNetworkStep
<1>5. QED
  BY <1>1, <1>2, <1>3, <1>4, FwdTypeInit, ForwardInvariance, PTL DEF ForwardSpec
=============================================================================
