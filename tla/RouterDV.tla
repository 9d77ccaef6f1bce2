------------------------------ MODULE RouterDV ------------------------------
(***************************************************************************)
(* The distance-vector routing of lab3: struct DV of router.h and the DV   *)
(* and PORT VALUE CHANGE and TRIGGER DV SEND messages of Router::router.   *)
(*                                                                         *)
(* Routers exchange their row of distances.  A link that gets shorter is   *)
(* simply relaxed; a link that gets longer starts a new version, counted   *)
(* by a variable all routers share, and a router that hears of a newer     *)
(* version forgets every distance of the older one.                        *)
(*                                                                         *)
(* A port of a router is named by the cable plugged into it.  The cables,  *)
(* and the simulator that tells the routers about them and carries their   *)
(* packets, are the environment.                                           *)
(***************************************************************************)
EXTENDS Integers, Sequences, FiniteSetsExt

CONSTANTS
    totRouterNum,   \* routers are numbered from 1; 0 is no router
    Links,          \* the cables; 0 is no cable
    Ends,           \* the two routers a cable joins
    Lens,           \* the lengths a cable can have
    INF,            \* 0x3f3f3f3f
    InitialLen,     \* the cables as the network starts
    MaxChanges,     \* bound on the changes of cables
    StartSettled    \* bound: up to the first change one order is explored

Routers == 1 .. totRouterNum
Down == -1

ASSUME NetworkAssumption ==
    /\ totRouterNum \in Nat
    /\ Links \subseteq Nat \ {0}
    /\ \A l \in Links : \E r, s \in Routers : r # s /\ Ends[l] = {r, s}
    /\ Lens \subseteq Nat \ {0}
    /\ INF \in Nat
    /\ \A x \in Lens : x < INF
    /\ InitialLen \in [Links -> Lens \cup {Down}]
    /\ MaxChanges \in Nat
    /\ StartSettled \in BOOLEAN

VARIABLES
    len, changes,        \* the cables, and how often one has changed
    notices,             \* PORT VALUE CHANGE messages not yet delivered
    untriggered,         \* the routers that will get TRIGGER DV SEND
    wire,                \* DV packets on a cable towards one of its ends
    dv,                  \* m_dv of every router
    lstChangeVersion,    \* shared by all routers
    m_portLen, m_port2RouterID, m_routerID2Port

env   == <<len, changes, notices>>
ports == <<m_portLen, m_port2RouterID, m_routerID2Port>>
vars  == <<env, untriggered, wire, dv, lstChangeVersion, ports>>

Directed == {e \in Links \X Routers : e[2] \in Ends[e[1]]}

Unreached == [i \in Routers |-> INF]

(* The state of a router right after router_init.                          *)
InitDV(r) ==
    [m_routerID |-> r,
     m_version  |-> 0,
     c          |-> [Unreached EXCEPT ![r] = 0],
     d          |-> [[x \in Routers |-> Unreached] EXCEPT ![r][r] = 0],
     nextRouter |-> [i \in Routers |-> 0]]

(* The routers are initialised and have been told the lengths at their     *)
(* ports, which updates nothing while no router is known on a port.        *)
Init ==
    /\ len = InitialLen /\ changes = 0
    /\ notices = {}
    /\ untriggered = Routers
    /\ wire = [e \in Directed |-> <<>>]
    /\ dv = [r \in Routers |-> InitDV(r)]
    /\ lstChangeVersion = 0
    /\ m_portLen = [e \in Directed |-> InitialLen[e[1]]]
    /\ m_port2RouterID = [e \in Directed |-> 0]
    /\ m_routerID2Port = [r \in Routers |-> [n \in Routers |-> 0]]

-----------------------------------------------------------------------------
(* struct DV.                                                              *)

(* Fault: the distances survive a new version.                             *)
FaultNoReset(v) == v

Reset(v) ==
    [v EXCEPT !.d = [[x \in Routers |-> Unreached]
                        EXCEPT ![v.m_routerID][v.m_routerID] = 0],
              !.nextRouter = [i \in Routers |-> 0]]

Smaller(a, b) == IF a <= b THEN a ELSE b

(* updateDV(tgtRID): shorten the own row by the direct links, then by the  *)
(* ways through tgt, and note the next hop of whatever got shorter.        *)
Relaxed(v, tgt) ==
    LET own       == v.d[v.m_routerID]
        Direct(i) == Smaller(own[i], v.c[i])
        Via(i)    == v.c[tgt] + v.d[tgt][i]
    IN  [v EXCEPT
          !.d[v.m_routerID] = [i \in Routers |-> Smaller(Direct(i), Via(i))],
          !.nextRouter = [i \in Routers |->
              IF Via(i) < Direct(i) THEN tgt
              ELSE IF v.c[i] < own[i] THEN i ELSE v.nextRouter[i]]]

(* Fault: the mark of a closed port is taken for a length.                 *)
FaultDownIsLength(value) == value

Cost(value) == IF value = Down THEN INF ELSE value

(* updateC: a shorter link is relaxed, a longer one starts a version.      *)
Lengthens(v, tgt, value) == v.c[tgt] < Cost(value)

updateC(v, tgt, value) ==
    IF v.c[tgt] = Cost(value) THEN v
    ELSE LET start == IF Lengthens(v, tgt, value)
                      THEN [Reset(v) EXCEPT !.m_version = lstChangeVersion + 1]
                      ELSE v
         IN  Relaxed([start EXCEPT !.c[tgt] = Cost(value)], tgt)

(* Fault: rows of older versions are merged as well.                       *)
FaultMergesStale(v, version) == FALSE

(* Fault: rows of the same version are taken for old ones.                 *)
FaultIgnoresSameVersion(v, version) == version <= v.m_version

Stale(v, version) == version < v.m_version

(* A newer version is adopted with nothing of the older one.               *)
Adopted(v, version) ==
    IF version > v.m_version THEN [Reset(v) EXCEPT !.m_version = version]
                             ELSE v

(* updateDV(exRID, exDV, version)                                          *)
updateDV(v, p) ==
    IF Stale(v, p.version) THEN v
    ELSE Relaxed([Adopted(v, p.version) EXCEPT !.d[p.RID] = p.row], p.RID)

(* Fault: every row is answered.                                           *)
FaultAlwaysChanged(v, p) == ~Stale(v, p.version)

(* What it returns: the own row got shorter since the version was adopted. *)
Changed(v, p) ==
    /\ ~Stale(v, p.version)
    /\ updateDV(v, p).d[v.m_routerID] # Adopted(v, p.version).d[v.m_routerID]

-----------------------------------------------------------------------------
(* A packet with the row of v, put on every cable of its router that is up *)
dvInfo(v) == [RID |-> v.m_routerID, version |-> v.m_version,
              row |-> v.d[v.m_routerID]]

Broadcast(wires, v) ==
    [e \in Directed |->
        IF v.m_routerID \in Ends[e[1]] \ {e[2]} /\ len[e[1]] # Down
        THEN Append(wires[e], dvInfo(v))
        ELSE wires[e]]

Version(bumped) == IF bumped THEN lstChangeVersion + 1 ELSE lstChangeVersion

(* Nothing is left to be delivered.                                        *)
Quiet ==
    /\ notices = {} /\ untriggered = {}
    /\ \A e \in Directed : wire[e] = <<>>

(* The bound StartSettled: before the first change the routers are         *)
(* triggered in the order of their numbers, then rows are delivered in the *)
(* order of the cables, and the first change waits for the last of them.   *)
Starting == StartSettled /\ changes = 0

NextTrigger(r) == Starting => \A s \in untriggered : r <= s

NextDelivery(r, l) ==
    Starting => /\ untriggered = {}
                /\ \A e \in Directed : wire[e] # <<>> =>
                      l < e[1] \/ (l = e[1] /\ r <= e[2])

(* TYPE_DV: set the link to its port's length, then merge the row, and     *)
(* broadcast if either changed anything.  A row never comes back to the    *)
(* router it is from, because a cable has two different ends.              *)
ReceiveDV(r, l) ==
    LET e == <<l, r>>
        p == Head(wire[e])
    IN  /\ wire[e] # <<>> /\ NextDelivery(r, l)
        /\ \E v \in {updateC(dv[r], p.RID, m_portLen[e])} :
           \E merged \in {updateDV(v, p)} :
              /\ dv' = [dv EXCEPT ![r] = merged]
              /\ LET rest == [wire EXCEPT ![e] = Tail(@)]
                 IN  wire' = IF Changed(v, p) \/ v.c # dv[r].c
                             THEN Broadcast(rest, merged) ELSE rest
        /\ lstChangeVersion' = Version(Lengthens(dv[r], p.RID, m_portLen[e]))
        /\ m_routerID2Port' = [m_routerID2Port EXCEPT ![r][p.RID] = l]
        /\ m_port2RouterID' = [m_port2RouterID EXCEPT ![e] = p.RID]
        /\ UNCHANGED <<env, untriggered, m_portLen>>

(* TRIGGER DV SEND                                                         *)
Trigger(r) ==
    /\ r \in untriggered /\ NextTrigger(r)
    /\ untriggered' = untriggered \ {r}
    /\ wire' = Broadcast(wire, dv[r])
    /\ UNCHANGED <<env, dv, lstChangeVersion, ports>>

(* PORT VALUE CHANGE: while nothing was heard on the port, the length is   *)
(* only noted; a port that goes down forgets its router.                   *)
PortChange(r, l) ==
    LET e == <<l, r>>
        n == m_port2RouterID[e]
    IN  /\ e \in notices
        /\ notices' = notices \ {e}
        /\ m_portLen' = [m_portLen EXCEPT ![e] = len[l]]
        /\ \/ /\ n = 0
              /\ UNCHANGED <<dv, lstChangeVersion, m_port2RouterID>>
           \/ /\ n # 0
              /\ dv' = [dv EXCEPT ![r] = updateC(@, n, len[l])]
              /\ lstChangeVersion' = Version(Lengthens(dv[r], n, len[l]))
              /\ m_port2RouterID' =
                    [m_port2RouterID EXCEPT ![e] = IF len[l] = Down THEN 0 ELSE @]
        /\ untriggered' = untriggered \cup {r}
        /\ UNCHANGED <<len, changes, wire, m_routerID2Port>>

(* A cable changes: what was on it may be lost when it is cut, and both of *)
(* its ends will be told, one at a time.                                   *)
LinkChange(l, x) ==
    /\ changes < MaxChanges /\ changes' = changes + 1
    /\ Starting => Quiet
    /\ x # len[l]
    /\ len' = [len EXCEPT ![l] = x]
    /\ notices' = notices \cup {<<l, r>> : r \in Ends[l]}
    /\ \/ UNCHANGED wire
       \/ /\ x = Down
          /\ wire' = [e \in Directed |-> IF e[1] = l THEN <<>> ELSE wire[e]]
    /\ UNCHANGED <<untriggered, dv, lstChangeVersion, ports>>

(* The simulator delivers a message that it holds.                         *)
Deliver ==
    \/ \E e \in Directed : ReceiveDV(e[2], e[1]) \/ PortChange(e[2], e[1])
    \/ \E r \in Routers : Trigger(r)

Next ==
    \/ Deliver
    \/ \E l \in Links, x \in Lens \cup {Down} : LinkChange(l, x)

Spec == Init /\ [][Next]_vars

(* The simulator keeps delivering, in whatever order.                      *)
FairSpec == Spec /\ WF_vars(Deliver)

-----------------------------------------------------------------------------
Row == [Routers -> 0 .. INF]
Packet == [RID : Routers, version : Nat, row : Row]
DVState == [m_routerID : Routers, m_version : Nat, c : Row,
            d : [Routers -> Row], nextRouter : [Routers -> Routers \cup {0}]]

TypeOK ==
    /\ len \in [Links -> Lens \cup {Down}] /\ changes \in 0 .. MaxChanges
    /\ notices \subseteq Directed /\ untriggered \subseteq Routers
    /\ wire \in [Directed -> Seq(Packet)]
    /\ dv \in [Routers -> DVState]
    /\ \A r \in Routers : dv[r].m_routerID = r
    /\ lstChangeVersion \in Nat
    /\ m_portLen \in [Directed -> Lens \cup {Down}]
    /\ m_port2RouterID \in [Directed -> Routers \cup {0}]
    /\ m_routerID2Port \in [Routers -> [Routers -> Links \cup {0}]]

dist(r, i) == dv[r].d[r][i]

(* As long as a router and its next hop are of one version, the next hop   *)
(* is nearer to the destination by at least the link between them: among   *)
(* routers of one version packets never go round in a circle, whatever     *)
(* rows and changes are under way (updateDV and Reset).                    *)
NextHopDescends ==
    \A r, i \in Routers :
        LET n == dv[r].nextRouter[i]
        IN  n # 0 /\ dv[n].m_version = dv[r].m_version =>
                dv[r].c[n] + dist(n, i) <= dist(r, i)

(* The ways through the network that visit no router twice.                *)
Ways == {w \in UNION {[1 .. k -> Routers] : k \in Routers} :
            \A j, k \in DOMAIN w : j # k => w[j] # w[k]}

WayCost(w) ==
    LET upTo[k \in DOMAIN w] ==
            IF k = 1 THEN 0 ELSE upTo[k - 1] + dv[w[k - 1]].c[w[k]]
    IN  upTo[Len(w)]

(* A router of the newest version never believes in a way that is shorter  *)
(* than every way the routers' links now allow: nothing of a link that got *)
(* longer survives in it (lstChangeVersion, and the order of updateC).     *)
NoUnderestimate ==
    \A r, i \in Routers :
        dv[r].m_version = lstChangeVersion /\ dist(r, i) < INF =>
            \E w \in Ways : /\ w[1] = r /\ w[Len(w)] = i
                            /\ WayCost(w) <= dist(r, i)

(* The cost between two routers: their shortest cable that is up.          *)
LinkCost(r, n) ==
    Min({INF} \cup {Cost(len[l]) : l \in {k \in Links : Ends[k] = {r, n}}})

(* When nothing is left to be delivered, every router knows the length of  *)
(* the shortest way to every other one, or that there is none, and sends   *)
(* packets out of a port whose cable lies on a shortest way.  Lengths are  *)
(* positive, so the shortest distances are the one solution of the         *)
(* equations of the first two conjuncts.                                   *)
Converged ==
    Quiet =>
      \A r, i \in Routers :
        LET n == dv[r].nextRouter[i]
        IN  /\ dist(r, r) = 0
            /\ r # i => dist(r, i) =
                  Min({INF} \cup {LinkCost(r, x) + dist(x, i) : x \in Routers \ {r}})
            /\ r # i /\ dist(r, i) = INF => n = 0
            /\ r # i /\ dist(r, i) < INF =>
                  \E l \in Links :
                     /\ Ends[l] = {r, n} /\ m_routerID2Port[r][n] = l
                     /\ Cost(len[l]) + dist(n, i) = dist(r, i)

(* The exchange of rows dies down after the last change of a cable.        *)
Settles == <>[]Quiet
-----------------------------------------------------------------------------
(* The inductive invariant behind NextHopDescends.                         *)

(* What w has of n's row: nothing shorter than n has now, in one version,  *)
(* and nothing at all when n is still of an older one.                     *)
Heard(w, n) ==
    /\ w.m_version = dv[n].m_version =>
          \A i \in Routers : dist(n, i) <= w.d[n][i]
    /\ w.m_version > dv[n].m_version =>
          \A i \in Routers : w.d[n][i] = INF

(* A next hop that is still of an older version is the destination itself. *)
Hop(w, i) ==
    LET n == w.nextRouter[i]
    IN  n # 0 =>
          /\ n # w.m_routerID
          /\ w.m_version = dv[n].m_version =>
                w.c[n] + dist(n, i) <= w.d[w.m_routerID][i]
          /\ w.m_version > dv[n].m_version =>
                n = i /\ w.c[n] <= w.d[w.m_routerID][i]

(* The state w of a router fits the states of all the others.              *)
Good(w) ==
    /\ w.d[w.m_routerID][w.m_routerID] = 0
    /\ \A n \in Routers \ {w.m_routerID} : Heard(w, n)
    /\ \A i \in Routers : Hop(w, i)

(* A row under way is not newer, and in one version not shorter, than the  *)
(* row its sender has now.                                                 *)
GoodRow(p) ==
    /\ p.version <= dv[p.RID].m_version
    /\ p.version = dv[p.RID].m_version =>
          \A i \in Routers : dist(p.RID, i) <= p.row[i]

IInv ==
    /\ TypeOK
    /\ \A r \in Routers : Good(dv[r]) /\ dv[r].m_version <= lstChangeVersion
    /\ \A e \in Directed :
          /\ m_port2RouterID[e] # e[2]
          /\ \A k \in DOMAIN wire[e] : wire[e][k].RID # e[2] /\ GoodRow(wire[e][k])
=============================================================================
