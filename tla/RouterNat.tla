----------------------------- MODULE RouterNat -----------------------------
(***************************************************************************)
(* The address translation of a router with a port to the outside: the     *)
(* allocator of available addresses and the two maps of router.h, and what *)
(* TYPE_DATA and RELEASE NAT ITEM do to them.  Where a translated packet   *)
(* goes next depends on the tables of RouterDV and changes nothing here.   *)
(*                                                                         *)
(* Addresses are numbers from 1, as 0 means that there is none.  Packets   *)
(* to the outside that the router has no range for are not translated.     *)
(***************************************************************************)
EXTENDS Naturals, Sequences

CONSTANTS
    Hosts,       \* source addresses of packets that go to the outside
    PoolSize     \* size of the range of available addresses

ASSUME PoolAssumption == PoolSize \in Nat

NoAddress == 0
Addresses == 1 .. PoolSize

VARIABLES
    address,             \* the stack of availAddrAllocator
    m_host2ExternIP, m_externIP2Host,
    sent,                \* host and new source of the last packet sent out
    flows                \* history: what the outside saw of unreleased hosts

maps == <<m_host2ExternIP, m_externIP2Host>>
vars == <<address, maps, sent, flows>>

-----------------------------------------------------------------------------
(* std::map: m[k] = x, and erase(k).                                       *)
Put(map, k, x) ==
    [j \in DOMAIN map \cup {k} |-> IF j = k THEN x ELSE map[j]]

Erase(map, k) == [j \in DOMAIN map \ {k} |-> map[j]]

(* Fault: the zeros of resize come after the addresses.                    *)
FaultZerosOnTop == [k \in 1 .. 2 * PoolSize |-> IF k <= PoolSize THEN k ELSE 0]

(* resize leaves as many zeros as push_back then adds addresses.           *)
InitialStack == [k \in 1 .. 2 * PoolSize |-> IF k <= PoolSize THEN 0 ELSE k - PoolSize]

(* alloc returns the top, whatever it is, and 0 from an empty stack.       *)
Top == IF address = <<>> THEN NoAddress ELSE address[Len(address)]

(* Fault: the address that is given out stays on the stack.                *)
FaultNotPopped == address

Popped == IF address = <<>> THEN address ELSE SubSeq(address, 1, Len(address) - 1)

Init ==
    /\ address = InitialStack
    /\ m_host2ExternIP = [h \in {} |-> NoAddress]
    /\ m_externIP2Host = [a \in {} |-> NoAddress]
    /\ sent = <<>>
    /\ flows = {}

(* A host that has an address sends with it.                               *)
SendKnown(h) ==
    /\ h \in DOMAIN m_host2ExternIP
    /\ LET a == m_host2ExternIP[h]
       IN  /\ sent' = <<h, a>>
           /\ m_externIP2Host' = Put(m_externIP2Host, a, h)
           /\ flows' = flows \cup {<<h, a>>}
    /\ UNCHANGED <<address, m_host2ExternIP>>

(* A new host takes what alloc returns; the packet is dropped if that is 0 *)
(* but the stack has been popped.                                          *)
SendNew(h) ==
    /\ h \notin DOMAIN m_host2ExternIP
    /\ address' = Popped
    /\ sent' = <<h, Top>>
    /\ IF Top = NoAddress
       THEN UNCHANGED <<maps, flows>>
       ELSE /\ m_externIP2Host' = Put(m_externIP2Host, Top, h)
            /\ m_host2ExternIP' = Put(m_host2ExternIP, h, Top)
            /\ flows' = flows \cup {<<h, Top>>}

(* Where a packet from the outside to address a goes: to the host that has *)
(* the address, or nowhere.  It changes nothing in the router.             *)
Inbound(a) == IF a \in DOMAIN m_externIP2Host THEN {m_externIP2Host[a]} ELSE {}

(* Fault: the address is not given back.                                   *)
FaultNoRecycle(a) == address

recycle(a) == Append(address, a)

(* Fault: the outside may still reach the released host.                   *)
FaultKeepsReverse(h) ==
    /\ h \in DOMAIN m_host2ExternIP
    /\ address' = recycle(m_host2ExternIP[h])
    /\ m_host2ExternIP' = Erase(m_host2ExternIP, h)
    /\ flows' = {f \in flows : f[1] # h}
    /\ UNCHANGED <<m_externIP2Host, sent>>

(* RELEASE NAT ITEM, which does nothing for a host without an address.     *)
releaseNATItem(h) ==
    /\ h \in DOMAIN m_host2ExternIP
    /\ LET a == m_host2ExternIP[h]
       IN  /\ address' = recycle(a)
           /\ m_externIP2Host' = Erase(m_externIP2Host, a)
    /\ m_host2ExternIP' = Erase(m_host2ExternIP, h)
    /\ flows' = {f \in flows : f[1] # h}
    /\ UNCHANGED sent

Next == \E h \in Hosts : SendKnown(h) \/ SendNew(h) \/ releaseNATItem(h)

Spec == Init /\ [][Next]_vars

-----------------------------------------------------------------------------
(* The addresses that are free.                                            *)
Free == {address[k] : k \in DOMAIN address} \ {NoAddress}

TypeOK ==
    /\ address \in Seq(Addresses \cup {NoAddress})
    /\ DOMAIN m_host2ExternIP \subseteq Hosts
    /\ \A h \in DOMAIN m_host2ExternIP : m_host2ExternIP[h] \in Addresses
    /\ DOMAIN m_externIP2Host \subseteq Addresses
    /\ \A a \in DOMAIN m_externIP2Host : m_externIP2Host[a] \in Hosts
    /\ m_host2ExternIP = [h \in DOMAIN m_host2ExternIP |-> m_host2ExternIP[h]]
    /\ m_externIP2Host = [a \in DOMAIN m_externIP2Host |-> m_externIP2Host[a]]
    /\ sent \in {<<>>} \cup Hosts \X (Addresses \cup {NoAddress})
    /\ flows \subseteq Hosts \X Addresses

(* The two maps are each other's inverse, so that what a host sends and    *)
(* what comes back is translated alike (maps written in two places, erased *)
(* in a third).                                                            *)
MapsInverse ==
    /\ \A h \in DOMAIN m_host2ExternIP :
          LET a == m_host2ExternIP[h]
          IN  a \in DOMAIN m_externIP2Host /\ m_externIP2Host[a] = h
    /\ \A a \in DOMAIN m_externIP2Host :
          LET h == m_externIP2Host[a]
          IN  h \in DOMAIN m_host2ExternIP /\ m_host2ExternIP[h] = a

(* No address is lost or given twice: each is on the stack exactly once or *)
(* mapped, never both (alloc, recycle and the packets dropped in between). *)
NothingLost ==
    /\ \A j, k \in DOMAIN address :
          address[j] = address[k] /\ address[j] # NoAddress => j = k
    /\ Free \cup DOMAIN m_externIP2Host = Addresses
    /\ Free \cap DOMAIN m_externIP2Host = {}

(* An answer to whatever a host sent since it was last released reaches    *)
(* that host: its address neither changes nor moves to another host.       *)
AnswersReachSender ==
    \A f \in flows : Inbound(f[2]) = {f[1]}

(* The zeros of the allocator lie below all its addresses.                 *)
ZerosBelow ==
    \A j, k \in DOMAIN address :
        j <= k /\ address[k] = NoAddress => address[j] = NoAddress

(* The inductive invariant.                                                *)
IInv == TypeOK /\ MapsInverse /\ NothingLost /\ AnswersReachSender /\ ZerosBelow

Leases == INSTANCE AddressLeases WITH lease <- m_host2ExternIP

(* The translation implements AddressLeases; in particular the zeros on    *)
(* the allocator's stack never make it refuse a host while an address is   *)
(* free.                                                                   *)
LeaseSpec == Leases!Spec
=============================================================================
