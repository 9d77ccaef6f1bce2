--------------------------- MODULE AddressLeases ---------------------------
(***************************************************************************)
(* What the address translation of a router promises: a host that sends to *)
(* the outside gets an address of its own, keeps it until it is released,  *)
(* and is refused only when every address is taken.                        *)
(***************************************************************************)
CONSTANTS Hosts, Addresses, NoAddress

VARIABLES
    lease,    \* the address of each host that has one
    sent      \* host of the last packet to the outside, and the address it got

vars == <<lease, sent>>

Taken == {lease[h] : h \in DOMAIN lease}

Init ==
    /\ lease = [h \in {} |-> NoAddress]
    /\ sent = <<>>

Use(h) ==
    /\ h \in DOMAIN lease
    /\ sent' = <<h, lease[h]>>
    /\ UNCHANGED lease

Lease(h) ==
    /\ h \notin DOMAIN lease
    /\ \E a \in Addresses \ Taken :
          /\ lease' = [g \in DOMAIN lease \cup {h} |->
                          IF g = h THEN a ELSE lease[g]]
          /\ sent' = <<h, a>>

Refuse(h) ==
    /\ h \notin DOMAIN lease
    /\ Addresses \subseteq Taken
    /\ sent' = <<h, NoAddress>>
    /\ UNCHANGED lease

Release(h) ==
    /\ h \in DOMAIN lease
    /\ lease' = [g \in DOMAIN lease \ {h} |-> lease[g]]
    /\ UNCHANGED sent

Next == \E h \in Hosts : Use(h) \/ Lease(h) \/ Refuse(h) \/ Release(h)

Spec == Init /\ [][Next]_vars
=============================================================================
