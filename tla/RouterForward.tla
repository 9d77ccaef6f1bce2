--------------------------- MODULE RouterForward ---------------------------
(***************************************************************************)
(* The whole TYPE_DATA branch of Router::router with the tables it reads:  *)
(* the external networks of all routers, where each host is, and the       *)
(* translation of RouterNat.  One router of several, m_routerID, is looked *)
(* at; the next hops that RouterDV computes come with each packet.         *)
(*                                                                         *)
(* An address is a number of Width bits, and public address a of RouterNat *)
(* is availableIPMin + a - 1.  All routers exist before the first packet.  *)
(***************************************************************************)
EXTENDS RouterNat, Integers, FiniteSets

CONSTANTS
    Width,                          \* 32 in the code
    internalIPMin, internalIPMax,
    availableIPMin,
    Ids,                            \* 1 .. totRouterNum
    Network,    \* external_addr of each router: <<address, length>>, or <<>>
    Garbage,                        \* ranges that unwritten memory may hold
    Destinations,                   \* addresses that packets are sent to
    Added,                          \* addresses that ADD HOST names
    external, RouterPorts, HostPorts

IPAddrs == 0 .. 2 ^ Width - 1

(* CIDR2IP: the network, its mask, and the last address.                   *)
Musk(cidr) == 2 ^ Width - 2 ^ (Width - cidr[2])
And(a, musk) == a - (a % (2 ^ Width - musk))
IpMin(cidr) == And(cidr[1], Musk(cidr))
IpMax(cidr) == IpMin(cidr) + 2 ^ (Width - cidr[2]) - 1

ASSUME ForwardAssumption ==
    /\ Width \in Nat /\ Ids \subseteq Nat \ {0}
    /\ availableIPMin \in IPAddrs /\ Destinations \subseteq IPAddrs
    /\ \A r \in Ids : Network[r] = <<>> \/ Network[r] \in IPAddrs \X (1 .. Width)
    /\ external \in Nat \ {0, 1}
    /\ RouterPorts \cup HostPorts \subseteq Nat \ {0, 1, external}
    /\ Garbage \subseteq IPAddrs \X IPAddrs

(* Arithmetic that the provers do not know.                                *)
ASSUME PowerAssumption ==
    /\ \A k \in 0 .. Width : 2 ^ k \in Nat \ {0}
    /\ \A j, k \in 0 .. Width : j < k => 2 ^ j < 2 ^ k
    /\ \A k \in 0 .. Width : 2 ^ Width = 2 ^ (Width - k) * 2 ^ k

Drop == -1
Controller == 1
Crash == -2     \* no return at all
NoRouter == -1

VARIABLES
    m_routerID, externalIPMin, externalIPMax,
    externalIPTable,
    m_host2Port, host2Router,
    out          \* history: the last data packet, as it came and as it left,
                 \* until a host is released

tables == <<m_routerID, externalIPMin, externalIPMax, externalIPTable>>
places == <<m_host2Port, host2Router>>
forwardVars == <<vars, tables, places, out>>

NoPacket ==
    [port |-> Controller, outside |-> FALSE, from |-> 0, src |-> 0, dst |-> 0]

-----------------------------------------------------------------------------
Matchers ==
    {[id |-> r, subnetIP |-> IpMin(Network[r]), musk |-> Musk(Network[r])] :
        r \in {i \in Ids : Network[i] # <<>>}}

(* Fault: the comparison is the other way round.                           *)
FaultAscending(table) ==
    \A j, k \in DOMAIN table : j < k => table[j].musk <= table[k].musk

(* std::sort with the operator < of EXIPMATCHER, in any order where it is  *)
(* indifferent.                                                            *)
Sorted(table) ==
    \A j, k \in DOMAIN table : j < k => table[j].musk >= table[k].musk

(* What Register leaves behind when every router has called it.            *)
Registered(table) ==
    /\ Sorted(table)
    /\ {table[k] : k \in DOMAIN table} = Matchers
    /\ \A j, k \in DOMAIN table : table[j] = table[k] => j = k

ForwardInit ==
    /\ Init
    /\ m_routerID \in Ids
    /\ IF Network[m_routerID] # <<>>
       THEN /\ externalIPMin = IpMin(Network[m_routerID])
            /\ externalIPMax = IpMax(Network[m_routerID])
       ELSE \E g \in Garbage : externalIPMin = g[1] /\ externalIPMax = g[2]
    /\ externalIPTable \in [1 .. Cardinality(Matchers) -> Matchers]
    /\ Registered(externalIPTable)
    /\ m_host2Port = [h \in {} |-> 0] /\ host2Router = [h \in {} |-> 0]
    /\ out = NoPacket

m_external_port == IF Network[m_routerID] # <<>> THEN external ELSE 0

(* Fault: the last address of the network is not part of it.               *)
FaultEndExcluded(ip) == externalIPMin <= ip /\ ip < externalIPMax

(* Fault: all that is not internal is taken for this router's network.     *)
FaultAllOutside(ip) == ip \notin internalIPMin .. internalIPMax

isInternalIP(ip) == ip \in internalIPMin .. internalIPMax
isExternalIP(ip) == externalIPMin <= ip /\ ip <= externalIPMax

Public(a) == availableIPMin + a - 1
Allotted(ip) == ip - availableIPMin + 1

match(k, ip) ==
    And(ip, externalIPTable[k].musk) = externalIPTable[k].subnetIP

exIPMatchRouter(ip) ==
    LET Matching == {k \in DOMAIN externalIPTable : match(k, ip)}
    IN  IF Matching = {} THEN NoRouter
        ELSE externalIPTable[CHOOSE k \in Matching :
                                \A j \in Matching : k <= j].id

(* std::map: operator[] of a missing key is 0.                             *)
At(map, k) == IF k \in DOMAIN map THEN map[k] ELSE 0

(* The port towards a router, when the tables of RouterDV lead to hop or,  *)
(* if that is 0, nowhere.  nextRouter[0] is 0, and nextRouter[-1] is an    *)
(* infinite distance, far outside m_routerID2Port.                         *)
PortTo(router, hop) ==
    CASE router = NoRouter -> Crash
      [] router = 0 \/ hop = 0 -> Controller
      [] OTHER -> hop

outPort(dst, hop) ==
    IF isInternalIP(dst)
    THEN IF At(host2Router, dst) = m_routerID THEN At(m_host2Port, dst)
         ELSE PortTo(At(host2Router, dst), hop)
    ELSE IF exIPMatchRouter(dst) = m_routerID THEN m_external_port
         ELSE PortTo(exIPMatchRouter(dst), hop)

-----------------------------------------------------------------------------
Returns(port, outside, from, src, dst) ==
    /\ out.port # Crash
    /\ out' = [port |-> port, outside |-> outside, from |-> from,
               src |-> src, dst |-> dst]
    /\ UNCHANGED <<tables, places>>

ToDefault(h) == Returns(Controller, FALSE, h, h, 0) /\ UNCHANGED vars

(* From the external port.  The source, not looked at, is left out.        *)
FromOutside(dst, hop) ==
    /\ dst # 0 /\ m_external_port # 0
    /\ IF Inbound(Allotted(dst)) = {}
       THEN Returns(Drop, TRUE, 0, 0, dst)
       ELSE \E h \in Inbound(Allotted(dst)) :
               Returns(outPort(h, hop), TRUE, 0, 0, h)
    /\ UNCHANGED vars

(* The source is translated, whoever the packet is sent on to.             *)
ToOutside(h, dst, hop) ==
    /\ dst # 0 /\ isExternalIP(dst)
    /\ \/ /\ m_external_port = 0
          /\ Returns(Drop, FALSE, h, h, dst) /\ UNCHANGED vars
       \/ /\ m_external_port # 0 /\ SendKnown(h)
          /\ Returns(outPort(dst, hop), FALSE, h, Public(m_host2ExternIP[h]), dst)
       \/ /\ m_external_port # 0 /\ SendNew(h)
          /\ IF Top = NoAddress THEN Returns(Drop, FALSE, h, h, dst)
             ELSE Returns(outPort(dst, hop), FALSE, h, Public(Top), dst)

Untranslated(h, dst, hop) ==
    /\ dst # 0 /\ ~isExternalIP(dst)
    /\ Returns(outPort(dst, hop), FALSE, h, h, dst) /\ UNCHANGED vars

(* RELEASE NAT ITEM                                                        *)
Release(h) ==
    /\ out.port # Crash /\ releaseNATItem(h)
    /\ out' = NoPacket
    /\ UNCHANGED <<tables, places>>

(* Fault: the port is not noted.                                           *)
FaultAddHost(h, port) ==
    /\ out.port # Crash
    /\ host2Router' = Put(host2Router, h, m_routerID)
    /\ UNCHANGED <<vars, tables, m_host2Port, out>>

(* ADD HOST, here or at another router, which shares host2Router.          *)
AddHost(h, port) ==
    /\ out.port # Crash
    /\ m_host2Port' = Put(m_host2Port, h, port)
    /\ host2Router' = Put(host2Router, h, m_routerID)
    /\ UNCHANGED <<vars, tables, out>>

AddHostElsewhere(h, router) ==
    /\ out.port # Crash /\ router # m_routerID
    /\ host2Router' = Put(host2Router, h, router)
    /\ UNCHANGED <<vars, tables, m_host2Port, out>>

ForwardNext ==
    \/ \E dst \in Destinations, hop \in RouterPorts \cup {0} :
          \/ FromOutside(dst, hop)
          \/ \E h \in Hosts : ToOutside(h, dst, hop) \/ Untranslated(h, dst, hop)
    \/ \E h \in Hosts :
          ToDefault(h) \/ Release(h)
    \/ \E h \in Added :
          \/ \E port \in HostPorts : AddHost(h, port)
          \/ \E router \in Ids : AddHostElsewhere(h, router)

ForwardSpec == ForwardInit /\ [][ForwardNext]_forwardVars

-----------------------------------------------------------------------------
ForwardTypeOK ==
    /\ TypeOK
    /\ m_routerID \in Ids
    /\ externalIPMin \in IPAddrs /\ externalIPMax \in IPAddrs
    /\ externalIPTable \in [1 .. Cardinality(Matchers) -> Matchers]
    /\ DOMAIN m_host2Port \subseteq Added /\ DOMAIN host2Router \subseteq Added
    /\ \A h \in DOMAIN m_host2Port : m_host2Port[h] \in HostPorts
    /\ \A h \in DOMAIN host2Router :
          /\ host2Router[h] \in Ids
          /\ host2Router[h] = m_routerID => h \in DOMAIN m_host2Port
    /\ out.port \in RouterPorts \cup HostPorts
                      \cup {external, Controller, Drop, Crash}

(* The first entry of the table that matches belongs to the router with    *)
(* the smallest network around the address, whatever order sort leaves     *)
(* equal masks in; networks may contain one another.                       *)
LongestMatch ==
    \A ip \in IPAddrs :
        LET Around == {i \in Ids : /\ Network[i] # <<>>
                                  /\ IpMin(Network[i]) <= ip
                                  /\ ip <= IpMax(Network[i])}
            r == exIPMatchRouter(ip)
        IN  IF Around = {} THEN r = NoRouter
            ELSE /\ r \in Around
                 /\ \A i \in Around : Network[r][2] >= Network[i][2]

(* What leaves through the external port carries the public address that   *)
(* its sender holds: the range that decides about the translation and the  *)
(* table that decides about the port agree.                                *)
LeavesTranslated ==
    out.port = external /\ ~out.outside =>
        sent = <<out.from, Allotted(out.src)>>

OwnNetwork(ip) ==
    \E k \in DOMAIN externalIPTable :
        externalIPTable[k].id = m_routerID /\ match(k, ip)

(* "That external network should be the one this router connects"          *)
(* (router.cpp:133): a packet is translated only on its way to the network *)
(* that the table has for this router, and refused only if it is on that   *)
(* way, its host has no address, and other hosts hold them all.  What comes*)
(* from outside is dropped only if nobody holds the address it is for.     *)
(* Excepted are drops by a router without a network, whose garbage may make*)
(* it drop what is no business of its own; it never translates.            *)
OwnNetworkOnly ==
    LET refused == out.port = Drop /\ Network[m_routerID] # <<>>
    IN  IF out.outside
        THEN refused => Allotted(out.dst) \notin DOMAIN m_externIP2Host
        ELSE /\ refused \/ out.src # out.from => OwnNetwork(out.dst)
             /\ refused => /\ out.from \notin DOMAIN m_host2ExternIP
                           /\ DOMAIN m_externIP2Host = Addresses

(* Every data packet returns a port, and one that no router is known for   *)
(* goes to the controller.                                                 *)
ReturnsAPort == out.port # Crash
=============================================================================
