--------------------------- MODULE RouterDVProofs ---------------------------
(***************************************************************************)
(* Proofs about RouterDV, for every network: any number of routers, any    *)
(* cables and lengths, any number of changes.                              *)
(*                                                                         *)
(* IInv, with NextHopDescends; then Newest, with NoUnderestimate; then     *)
(* Exchange, with Converged.  Each is inductive together with IInv.        *)
(***************************************************************************)
EXTENDS RouterDV, TLAPS, FiniteSetTheorems, SequenceTheorems

-----------------------------------------------------------------------------
(* One router: what the operations of struct DV do to a state.             *)

LEMMA EndFacts ==
    ASSUME NEW e \in Directed
    PROVE  /\ e = <<e[1], e[2]>> /\ e[1] \in Links /\ e[2] \in Routers
           /\ e[2] \in Ends[e[1]] /\ Ends[e[1]] \subseteq Routers
<1>1. e \in Links \X Routers /\ e[2] \in Ends[e[1]]
  BY DEF Directed
<1>2. PICK r, s \in Routers : Ends[e[1]] = {r, s}
  BY <1>1, NetworkAssumption
<1>3. QED
  BY <1>1, <1>2

(* Relaxed changes the own row and the next hops alone: the row gets no    *)
(* longer anywhere, and where it gets shorter the next hop is the router   *)
(* the new distance is from.                                               *)
LEMMA RelaxedFacts ==
    ASSUME NEW v \in DVState, NEW tgt \in Routers, tgt # v.m_routerID
    PROVE  LET w == Relaxed(v, tgt)
               r == v.m_routerID
           IN  /\ w \in DVState
               /\ w.m_routerID = r /\ w.m_version = v.m_version /\ w.c = v.c
               /\ \A n \in Routers \ {r} : w.d[n] = v.d[n]
               /\ \A i \in Routers :
                    /\ w.d[r][i] <= v.d[r][i]
                    /\ \/ w.nextRouter[i] = v.nextRouter[i]
                          /\ w.d[r][i] = v.d[r][i]
                       \/ /\ w.nextRouter[i] = i
                          /\ v.c[i] < v.d[r][i]
                          /\ w.d[r][i] = v.c[i]
                       \/ /\ w.nextRouter[i] = tgt
                          /\ v.c[tgt] + v.d[tgt][i] < v.d[r][i]
                          /\ w.d[r][i] = v.c[tgt] + v.d[tgt][i]
<1> DEFINE w == Relaxed(v, tgt)
           r == v.m_routerID
           own == v.d[r]
           Direct(i) == Smaller(own[i], v.c[i])
           Via(i) == v.c[tgt] + v.d[tgt][i]
           row == [i \in Routers |-> Smaller(Direct(i), Via(i))]
           next == [i \in Routers |->
                       IF Via(i) < Direct(i) THEN tgt
                       ELSE IF v.c[i] < own[i] THEN i ELSE v.nextRouter[i]]
<1>1. w = [v EXCEPT !.d[r] = row, !.nextRouter = next]
  BY DEF Relaxed
<1>2. /\ r \in Routers /\ v.m_version \in Nat /\ v.c \in Row
      /\ v.d \in [Routers -> Row] /\ v.nextRouter \in [Routers -> Routers \cup {0}]
  BY DEF DVState
<1>3. INF \in Nat
  BY NetworkAssumption
<1>4. \A i \in Routers : /\ own[i] \in 0 .. INF /\ v.c[i] \in 0 .. INF
                         /\ v.c[tgt] \in 0 .. INF /\ v.d[tgt][i] \in 0 .. INF
  BY <1>2 DEF Row
<1>5. row \in Row
  BY <1>3, <1>4 DEF Row, Smaller
<1>6. next \in [Routers -> Routers \cup {0}]
  BY <1>2
<1>7. /\ w.m_routerID = r /\ w.m_version = v.m_version /\ w.c = v.c
      /\ w.nextRouter = next /\ w.d = [v.d EXCEPT ![r] = row]
      /\ w = [m_routerID |-> r, m_version |-> v.m_version, c |-> v.c,
              d |-> [v.d EXCEPT ![r] = row], nextRouter |-> next]
  BY <1>1 DEF DVState
<1>8. w \in DVState
  BY <1>2, <1>5, <1>6, <1>7 DEF DVState
<1>9. w.d[r] = row /\ \A n \in Routers \ {r} : w.d[n] = v.d[n]
  BY <1>2, <1>7
<1>10. ASSUME NEW i \in Routers
       PROVE  /\ row[i] <= own[i]
              /\ \/ next[i] = v.nextRouter[i] /\ row[i] = own[i]
                 \/ next[i] = i /\ v.c[i] < own[i] /\ row[i] = v.c[i]
                 \/ next[i] = tgt /\ Via(i) < own[i] /\ row[i] = Via(i)
  BY <1>3, <1>4 DEF Smaller
<1>11. QED
  BY <1>7, <1>8, <1>9, <1>10, ZenonT(60)

(* A state after Reset, with any version and one link changed.             *)
LEMMA ResetFacts ==
    ASSUME NEW v \in DVState
    PROVE  /\ Reset(v) \in DVState
           /\ Reset(v).m_routerID = v.m_routerID /\ Reset(v).c = v.c
           /\ Reset(v).m_version = v.m_version
           /\ \A n \in Routers \ {v.m_routerID} : Reset(v).d[n] = Unreached
           /\ Reset(v).d[v.m_routerID][v.m_routerID] = 0
           /\ Reset(v).nextRouter = [i \in Routers |-> 0]
<1> DEFINE r == v.m_routerID
           own == [x \in Routers |-> Unreached]
           clear == [own EXCEPT ![r][r] = 0]
           none == [i \in Routers |-> 0]
<1>1. /\ r \in Routers /\ v.m_version \in Nat /\ v.c \in Row
      /\ INF \in Nat
  BY NetworkAssumption DEF DVState
<1>2. /\ clear \in [Routers -> Row]
      /\ clear[r][r] = 0 /\ \A n \in Routers \ {r} : clear[n] = Unreached
  BY <1>1 DEF Unreached, Row
<1>3. none \in [Routers -> Routers \cup {0}]
  OBVIOUS
<1>4. Reset(v) = [v EXCEPT !.d = clear, !.nextRouter = none]
  BY DEF Reset
<1> HIDE DEF clear, none
<1>5. Reset(v) = [m_routerID |-> r, m_version |-> v.m_version, c |-> v.c,
                  d |-> clear, nextRouter |-> none]
  BY <1>4 DEF DVState
<1>6. QED
  BY <1>1, <1>2, <1>3, <1>5 DEF DVState, none

-----------------------------------------------------------------------------
(* One router among the others: Good is kept.                              *)

(* The rows of all the others are rows.                                    *)
LEMMA OtherRows ==
    ASSUME TypeOK, NEW n \in Routers
    PROVE  /\ dv[n] \in DVState /\ dv[n].m_routerID = n
           /\ dv[n].m_version \in Nat
           /\ \A i \in Routers : dist(n, i) \in 0 .. INF
  BY DEF TypeOK, DVState, Row, dist

LEMMA RelaxedGood ==
    ASSUME TypeOK, \A n \in Routers : dist(n, n) = 0,
           NEW v \in DVState, Good(v), NEW tgt \in Routers, tgt # v.m_routerID
    PROVE  Good(Relaxed(v, tgt))
<1> DEFINE w == Relaxed(v, tgt)
           r == v.m_routerID
<1>1. /\ w \in DVState
      /\ w.m_routerID = r /\ w.m_version = v.m_version /\ w.c = v.c
      /\ \A n \in Routers \ {r} : w.d[n] = v.d[n]
      /\ \A i \in Routers :
           /\ w.d[r][i] <= v.d[r][i]
           /\ \/ w.nextRouter[i] = v.nextRouter[i] /\ w.d[r][i] = v.d[r][i]
              \/ /\ w.nextRouter[i] = i
                 /\ v.c[i] < v.d[r][i] /\ w.d[r][i] = v.c[i]
              \/ /\ w.nextRouter[i] = tgt
                 /\ v.c[tgt] + v.d[tgt][i] < v.d[r][i]
                 /\ w.d[r][i] = v.c[tgt] + v.d[tgt][i]
  BY RelaxedFacts
<1> HIDE DEF w
<1>2. /\ INF \in Nat /\ r \in Routers /\ v.m_version \in Nat
      /\ \A i \in Routers : /\ v.c[i] \in 0 .. INF
                            /\ \A n \in Routers : /\ v.d[n][i] \in 0 .. INF
                                                  /\ w.d[n][i] \in 0 .. INF
  BY <1>1, NetworkAssumption DEF DVState, Row
<1>3. w.d[r][r] = 0
  BY <1>1, <1>2 DEF Good
<1>4. \A n \in Routers \ {r} : Heard(w, n)
  BY <1>1 DEF Good, Heard
<1>5. ASSUME NEW i \in Routers
      PROVE  Hop(w, i)
  <2>1. CASE w.nextRouter[i] = v.nextRouter[i] /\ w.d[r][i] = v.d[r][i]
    <3>1. Hop(v, i)
      BY DEF Good
    <3>2. QED
      BY <1>1, <2>1, <3>1 DEF Hop
  <2>2. CASE /\ w.nextRouter[i] = i
             /\ v.c[i] < v.d[r][i] /\ w.d[r][i] = v.c[i]
    <3>1. i # r
      BY <1>2, <2>2 DEF Good
    <3>2. dist(i, i) = 0 /\ v.c[i] \in Nat
      BY <1>2
    <3>3. QED
      BY <1>1, <2>2, <3>1, <3>2 DEF Hop
  <2>3. CASE /\ w.nextRouter[i] = tgt
             /\ v.c[tgt] + v.d[tgt][i] < v.d[r][i]
             /\ w.d[r][i] = v.c[tgt] + v.d[tgt][i]
    <3>1. Heard(v, tgt)
      BY DEF Good
    <3>2. ~(v.m_version > dv[tgt].m_version)
      <4>1. v.d[tgt][i] < INF
        BY <1>2, <2>3
      <4>2. QED
        BY <1>2, <3>1, <4>1 DEF Heard
    <3>3. v.m_version = dv[tgt].m_version =>
             v.c[tgt] + dist(tgt, i) <= v.c[tgt] + v.d[tgt][i]
      BY <1>2, <3>1, OtherRows DEF Heard
    <3>4. QED
      BY <1>1, <2>3, <3>2, <3>3 DEF Hop
  <2>4. QED
    BY <1>1, <2>1, <2>2, <2>3
<1>6. QED
  BY <1>1, <1>3, <1>4, <1>5 DEF Good, w

(* A link that gets shorter.                                               *)
LEMMA ShorterGood ==
    ASSUME TypeOK, NEW v \in DVState, Good(v),
           NEW tgt \in Routers, NEW x \in 0 .. INF, x <= v.c[tgt]
    PROVE  [v EXCEPT !.c[tgt] = x] \in DVState /\ Good([v EXCEPT !.c[tgt] = x])
<1> DEFINE w == [v EXCEPT !.c[tgt] = x]
           r == v.m_routerID
<1>1. /\ w.m_routerID = r /\ w.m_version = v.m_version /\ w.d = v.d
      /\ w.nextRouter = v.nextRouter /\ w.c = [v.c EXCEPT ![tgt] = x]
      /\ w = [m_routerID |-> r, m_version |-> v.m_version,
              c |-> [v.c EXCEPT ![tgt] = x], d |-> v.d,
              nextRouter |-> v.nextRouter]
  BY DEF DVState
<1>2. w \in DVState
  BY <1>1 DEF DVState, Row
<1>3. /\ INF \in Nat
      /\ \A n \in Routers : /\ v.c[n] \in 0 .. INF /\ w.c[n] \in 0 .. INF
                            /\ w.c[n] <= v.c[n]
      /\ \A n, i \in Routers : v.d[n][i] \in 0 .. INF
      /\ v.nextRouter \in [Routers -> Routers \cup {0}] /\ r \in Routers
  BY <1>1, <1>2, NetworkAssumption DEF DVState, Row
<1> HIDE DEF w
<1>4. \A n \in Routers \ {r} : Heard(w, n)
  BY <1>1 DEF Good, Heard
<1>5. ASSUME NEW i \in Routers
      PROVE  Hop(w, i)
  <2>1. Hop(v, i) /\ v.nextRouter[i] \in Routers \cup {0}
    BY <1>3 DEF Good
  <2>2. CASE v.nextRouter[i] = 0
    BY <1>1, <2>2 DEF Hop
  <2>3. CASE v.nextRouter[i] \in Routers
    <3>1. dist(v.nextRouter[i], i) \in 0 .. INF
      BY <2>3, OtherRows
    <3>2. QED
      BY <1>1, <1>3, <2>1, <2>3, <3>1 DEF Hop
  <2>4. QED
    BY <2>1, <2>2, <2>3
<1>6. QED
  BY <1>1, <1>2, <1>4, <1>5 DEF Good, w

(* A state that was reset fits every network, whatever its version.        *)
LEMMA ForgetfulGood ==
    ASSUME TypeOK, NEW w \in DVState,
           \A n \in Routers \ {w.m_routerID} : w.d[n] = Unreached,
           w.d[w.m_routerID][w.m_routerID] = 0,
           w.nextRouter = [i \in Routers |-> 0]
    PROVE  Good(w)
<1>1. \A n \in Routers \ {w.m_routerID} : Heard(w, n)
  BY OtherRows, NetworkAssumption DEF Heard, Unreached
<1>2. \A i \in Routers : Hop(w, i)
  BY DEF Hop
<1>3. QED
  BY <1>1, <1>2 DEF Good

(* Storing a row of the same version.                                      *)
LEMMA StoredGood ==
    ASSUME TypeOK, NEW v \in DVState, Good(v),
           NEW p \in Packet, GoodRow(p), p.RID # v.m_routerID,
           p.version = v.m_version
    PROVE  [v EXCEPT !.d[p.RID] = p.row] \in DVState
           /\ Good([v EXCEPT !.d[p.RID] = p.row])
<1> DEFINE w == [v EXCEPT !.d[p.RID] = p.row]
           r == v.m_routerID
<1>1. /\ w.m_routerID = r /\ w.m_version = v.m_version /\ w.c = v.c
      /\ w.nextRouter = v.nextRouter
      /\ w.d = [v.d EXCEPT ![p.RID] = p.row]
      /\ w = [m_routerID |-> r, m_version |-> v.m_version, c |-> v.c,
              d |-> [v.d EXCEPT ![p.RID] = p.row],
              nextRouter |-> v.nextRouter]
  BY DEF DVState
<1>2. /\ p.RID \in Routers /\ p.row \in Row /\ p.version \in Nat
      /\ v.d \in [Routers -> Row] /\ r \in Routers
  BY DEF Packet, DVState
<1>3. w \in DVState
  BY <1>1, <1>2 DEF DVState
<1>4. /\ w.d[p.RID] = p.row
      /\ \A n \in Routers \ {p.RID} : w.d[n] = v.d[n]
  BY <1>1, <1>2
<1> HIDE DEF w
<1>5. ASSUME NEW n \in Routers \ {r}
      PROVE  Heard(w, n)
  <2>1. CASE n = p.RID
    <3>1. dv[n].m_version \in Nat
      BY OtherRows
    <3>2. QED
      BY <1>1, <1>2, <1>4, <2>1, <3>1 DEF GoodRow, Heard
  <2>2. CASE n # p.RID
    BY <1>1, <1>4, <2>2 DEF Good, Heard
  <2>3. QED
    BY <2>1, <2>2
<1>6. \A i \in Routers : Hop(w, i)
  BY <1>1, <1>2, <1>4 DEF Good, Hop
<1>7. w.d[r][r] = 0
  BY <1>2, <1>4 DEF Good
<1>8. QED
  BY <1>1, <1>3, <1>5, <1>6, <1>7 DEF Good, w

-----------------------------------------------------------------------------
(* From v to w a router moved to a newer version, or its row got no longer. *)
Advances(v, w) ==
    \/ w.m_version > v.m_version
    \/ /\ w.m_version = v.m_version
       /\ \A i \in Routers : w.d[w.m_routerID][i] <= v.d[v.m_routerID][i]

LEMMA AdvancesTrans ==
    ASSUME NEW u \in DVState, NEW v \in DVState, NEW w \in DVState,
           Advances(u, v), Advances(v, w)
    PROVE  Advances(u, w)
<1>1. /\ {u.m_version, v.m_version, w.m_version} \subseteq Nat
      /\ \A i \in Routers :
           {u.d[u.m_routerID][i], v.d[v.m_routerID][i], w.d[w.m_routerID][i]}
              \subseteq Nat
  BY NetworkAssumption DEF DVState, Row
<1>2. QED
  BY <1>1 DEF Advances

LEMMA updateCFacts ==
    ASSUME TypeOK, \A n \in Routers : dist(n, n) = 0,
           NEW v \in DVState, Good(v), v.m_version <= lstChangeVersion,
           NEW tgt \in Routers, tgt # v.m_routerID,
           NEW value \in Lens \cup {Down}
    PROVE  LET w == updateC(v, tgt, value)
           IN  /\ w \in DVState /\ w.m_routerID = v.m_routerID
               /\ Good(w) /\ Advances(v, w)
               /\ w.m_version <= Version(Lengthens(v, tgt, value))
<1> DEFINE x == Cost(value)
<1>1. x \in 0 .. INF /\ INF \in Nat
  BY NetworkAssumption DEF Cost
<1>2. /\ v.c[tgt] \in 0 .. INF /\ v.m_version \in Nat
      /\ lstChangeVersion \in Nat
      /\ \A i \in Routers : v.d[v.m_routerID][i] \in Nat
  BY <1>1 DEF DVState, Row, TypeOK
<1>3. CASE v.c[tgt] = x
  BY <1>2, <1>3 DEF updateC, Advances, Version
<1>4. CASE x < v.c[tgt]
  <2> DEFINE s == [v EXCEPT !.c[tgt] = x]
  <2>1. s \in DVState /\ Good(s)
    BY <1>1, <1>2, <1>4, ShorterGood
  <2>2. updateC(v, tgt, value) = Relaxed(s, tgt) /\ ~Lengthens(v, tgt, value)
    BY <1>1, <1>2, <1>4 DEF updateC, Lengthens
  <2>3. s.m_routerID = v.m_routerID /\ s.m_version = v.m_version /\ s.d = v.d
    BY DEF DVState
  <2> HIDE DEF s
  <2>4. Good(Relaxed(s, tgt))
    BY <2>1, <2>3, RelaxedGood
  <2>5. LET w == Relaxed(s, tgt)
        IN  /\ w \in DVState /\ w.m_routerID = s.m_routerID
            /\ w.m_version = s.m_version
            /\ \A i \in Routers : w.d[s.m_routerID][i] <= s.d[s.m_routerID][i]
    BY <2>1, <2>3, RelaxedFacts
  <2>6. QED
    BY <1>2, <2>2, <2>3, <2>4, <2>5 DEF Advances, Version
<1>5. CASE v.c[tgt] < x
  <2> DEFINE q == [Reset(v) EXCEPT !.m_version = lstChangeVersion + 1]
             s == [q EXCEPT !.c[tgt] = x]
  <2>1. /\ Reset(v) \in DVState
        /\ Reset(v).m_routerID = v.m_routerID /\ Reset(v).c = v.c
        /\ \A n \in Routers \ {v.m_routerID} : Reset(v).d[n] = Unreached
        /\ Reset(v).d[v.m_routerID][v.m_routerID] = 0
        /\ Reset(v).nextRouter = [i \in Routers |-> 0]
    BY ResetFacts
  <2>2. /\ q \in DVState /\ q.m_routerID = v.m_routerID
        /\ q.m_version = lstChangeVersion + 1
        /\ q.d = Reset(v).d /\ q.nextRouter = Reset(v).nextRouter
    BY <1>2, <2>1 DEF DVState
  <2> HIDE DEF q
  <2>3. /\ s.m_routerID = v.m_routerID /\ s.m_version = lstChangeVersion + 1
        /\ s.d = Reset(v).d /\ s.nextRouter = Reset(v).nextRouter
        /\ s = [m_routerID |-> q.m_routerID, m_version |-> q.m_version,
                c |-> [q.c EXCEPT ![tgt] = x], d |-> q.d,
                nextRouter |-> q.nextRouter]
    BY <2>2 DEF DVState
  <2>4. s \in DVState
    BY <1>1, <2>2, <2>3 DEF DVState, Row
  <2>5. Lengthens(v, tgt, value) /\ updateC(v, tgt, value) = Relaxed(s, tgt)
    BY <1>1, <1>2, <1>5 DEF updateC, Lengthens, q
  <2> HIDE DEF s
  <2>6. Good(s)
    BY <2>1, <2>3, <2>4, ForgetfulGood
  <2>7. Good(Relaxed(s, tgt))
    BY <2>3, <2>4, <2>6, RelaxedGood
  <2>8. LET w == Relaxed(s, tgt)
        IN  /\ w \in DVState /\ w.m_routerID = s.m_routerID
            /\ w.m_version = s.m_version
    BY <2>3, <2>4, RelaxedFacts
  <2>9. QED
    BY <1>2, <2>3, <2>5, <2>7, <2>8 DEF Advances, Version
<1>6. QED
  BY <1>1, <1>2, <1>3, <1>4, <1>5

LEMMA updateDVFacts ==
    ASSUME TypeOK, \A n \in Routers : dist(n, n) = 0,
           NEW v \in DVState, Good(v),
           NEW p \in Packet, GoodRow(p), p.RID # v.m_routerID
    PROVE  LET w == updateDV(v, p)
           IN  /\ w \in DVState /\ w.m_routerID = v.m_routerID
               /\ Good(w) /\ Advances(v, w)
               /\ w.m_version \in {v.m_version, p.version}
<1>1. /\ p.RID \in Routers /\ p.version \in Nat /\ v.m_version \in Nat
      /\ \A i \in Routers : v.d[v.m_routerID][i] \in Nat
  BY NetworkAssumption DEF Packet, DVState, Row
<1>2. CASE Stale(v, p.version)
  BY <1>1, <1>2 DEF updateDV, Advances
<1>3. CASE ~Stale(v, p.version)
  <2> DEFINE u == Adopted(v, p.version)
             s == [u EXCEPT !.d[p.RID] = p.row]
  <2>1. /\ u \in DVState /\ u.m_routerID = v.m_routerID
        /\ u.m_version = p.version /\ Good(u) /\ Advances(v, u)
    <3>1. CASE p.version = v.m_version
      BY <1>1, <3>1 DEF Adopted, Advances
    <3>2. CASE p.version > v.m_version
      <4>1. /\ Reset(v) \in DVState
            /\ Reset(v).m_routerID = v.m_routerID
            /\ \A n \in Routers \ {v.m_routerID} : Reset(v).d[n] = Unreached
            /\ Reset(v).d[v.m_routerID][v.m_routerID] = 0
            /\ Reset(v).nextRouter = [i \in Routers |-> 0]
        BY ResetFacts
      <4>2. u = [Reset(v) EXCEPT !.m_version = p.version]
        BY <3>2 DEF Adopted
      <4>3. /\ u \in DVState /\ u.m_routerID = v.m_routerID
            /\ u.m_version = p.version
            /\ u.d = Reset(v).d /\ u.nextRouter = Reset(v).nextRouter
        BY <1>1, <4>1, <4>2 DEF DVState
      <4> HIDE DEF u
      <4>4. Good(u)
        BY <4>1, <4>3, ForgetfulGood
      <4>5. QED
        BY <3>2, <4>3, <4>4 DEF Advances
    <3>3. QED
      BY <1>1, <1>3, <3>1, <3>2 DEF Stale
  <2> HIDE DEF u
  <2>2. s \in DVState /\ Good(s)
    BY <2>1, StoredGood
  <2>3. /\ s.m_routerID = u.m_routerID /\ s.m_version = u.m_version
        /\ s.d[u.m_routerID] = u.d[u.m_routerID]
    BY <2>1 DEF DVState
  <2>4. updateDV(v, p) = Relaxed(s, p.RID)
    BY <1>3 DEF updateDV, u
  <2> HIDE DEF s
  <2>5. Good(Relaxed(s, p.RID))
    BY <1>1, <2>1, <2>2, <2>3, RelaxedGood
  <2>6. LET w == Relaxed(s, p.RID)
        IN  /\ w \in DVState /\ w.m_routerID = s.m_routerID
            /\ w.m_version = s.m_version
            /\ \A i \in Routers : w.d[s.m_routerID][i] <= s.d[s.m_routerID][i]
    BY <1>1, <2>1, <2>2, <2>3, RelaxedFacts
  <2>7. Advances(u, Relaxed(s, p.RID))
    BY <2>3, <2>6 DEF Advances
  <2>8. QED
    BY <2>1, <2>3, <2>4, <2>5, <2>6, <2>7, AdvancesTrans
<1>4. QED
  BY <1>2, <1>3

-----------------------------------------------------------------------------
(* All routers: one of them advances, the others still fit.                *)

LEMMA GoodFacts ==
    ASSUME IInv
    PROVE  /\ TypeOK
           /\ \A n \in Routers : /\ dv[n] \in DVState /\ dv[n].m_routerID = n
                                 /\ Good(dv[n]) /\ dist(n, n) = 0
                                 /\ dv[n].m_version <= lstChangeVersion
           /\ \A e \in Directed : wire[e] \in Seq(Packet)
  BY OtherRows DEF IInv, TypeOK, Good, dist

LEMMA AdvanceStep ==
    ASSUME IInv, NEW r \in Routers, NEW w \in DVState,
           w.m_routerID = r, Good(w), Advances(dv[r], w),
           dv' = [dv EXCEPT ![r] = w]
    PROVE  /\ dv' \in [Routers -> DVState]
           /\ \A n \in Routers : dv'[n].m_routerID = n /\ Good(dv[n])'
           /\ \A p \in Packet : GoodRow(p) => GoodRow(p)'
<1>1. /\ TypeOK /\ dv \in [Routers -> DVState]
      /\ \A n \in Routers : dv[n] \in DVState /\ dv[n].m_routerID = n /\ Good(dv[n])
  BY GoodFacts DEF TypeOK
<1>2. /\ dv' \in [Routers -> DVState] /\ dv'[r] = w
      /\ \A n \in Routers \ {r} : dv'[n] = dv[n]
  BY <1>1
<1>3. \A n \in Routers : dv'[n].m_routerID = n
  BY <1>1, <1>2
<1>4. /\ INF \in Nat
      /\ \A n \in Routers :
           /\ dv[n].m_version \in Nat /\ dv'[n].m_version \in Nat
           /\ dv[n].nextRouter \in [Routers -> Routers \cup {0}]
           /\ \A i \in Routers :
                /\ dv[n].d[n][i] \in 0 .. INF /\ dv'[n].d[n][i] \in 0 .. INF
                /\ dv[n].c[i] \in 0 .. INF
  BY <1>1, <1>2, NetworkAssumption DEF DVState, Row
<1>5. /\ dv'[r].m_version > dv[r].m_version \/
         /\ dv'[r].m_version = dv[r].m_version
         /\ \A i \in Routers : dv'[r].d[r][i] <= dv[r].d[r][i]
      /\ dv'[r].d[r][r] = 0
  BY <1>1, <1>2 DEF Advances, Good
<1>6. Good(dv[r])'
  <2>1. \A n \in Routers \ {r} : Heard(w, n)
    BY DEF Good
  <2>2. \A n \in Routers \ {r} : Heard(dv[r], n)'
    BY <1>2, <2>1 DEF Heard, dist
  <2>3. \A i \in Routers : Hop(w, i) /\ w.nextRouter[i] \in Routers \cup {0}
    BY DEF Good, DVState
  <2>4. \A i \in Routers : Hop(dv[r], i)'
    BY <1>2, <2>3 DEF Hop, dist
  <2>5. QED
    BY <1>2, <1>5, <2>2, <2>4 DEF Good
<1>7. ASSUME NEW n \in Routers \ {r}
      PROVE  Good(dv[n])'
  <2>1. /\ Good(dv[n]) /\ dv[n].m_routerID = n /\ dv'[n] = dv[n]
    BY <1>1, <1>2
  <2>2. ASSUME NEW x \in Routers \ {n}
        PROVE  Heard(dv[n], x)'
    <3>1. Heard(dv[n], x)
      BY <2>1 DEF Good
    <3>2. CASE x # r
      BY <1>2, <2>1, <3>1, <3>2 DEF Heard, dist
    <3>3. CASE x = r
      <4>1. /\ dv[n].m_version = dv[r].m_version =>
                  \A i \in Routers : dv[r].d[r][i] <= dv[n].d[r][i]
            /\ dv[n].m_version > dv[r].m_version =>
                  \A i \in Routers : dv[n].d[r][i] = INF
        BY <3>1, <3>3 DEF Heard, dist
      <4>2. \A i \in Routers : dv[n].d[r][i] \in 0 .. INF
        BY <1>1 DEF DVState, Row
      <4>3. CASE dv'[r].m_version > dv[r].m_version
        <5>1. dv[n].m_version >= dv'[r].m_version =>
                 \A i \in Routers : dv[n].d[r][i] = INF
          BY <1>4, <4>1, <4>3
        <5>2. QED
          BY <1>4, <2>1, <3>3, <5>1 DEF Heard, dist
      <4>4. CASE /\ dv'[r].m_version = dv[r].m_version
                 /\ \A i \in Routers : dv'[r].d[r][i] <= dv[r].d[r][i]
        BY <1>4, <2>1, <3>3, <4>1, <4>2, <4>4 DEF Heard, dist
      <4>5. QED
        BY <1>5, <4>3, <4>4
    <3>4. QED
      BY <3>2, <3>3
  <2>3. ASSUME NEW i \in Routers
        PROVE  Hop(dv[n], i)'
    <3> DEFINE x == dv[n].nextRouter[i]
    <3>1. Hop(dv[n], i) /\ x \in Routers \cup {0}
      BY <1>4, <2>1 DEF Good
    <3>2. CASE x # r
      BY <1>2, <2>1, <3>1, <3>2 DEF Hop, dist
    <3>3. CASE x = r
      <4>0. r # 0
        BY DEF Routers
      <4>1. /\ dv[n].m_version = dv[r].m_version =>
                  dv[n].c[r] + dv[r].d[r][i] <= dv[n].d[n][i]
            /\ dv[n].m_version > dv[r].m_version =>
                  r = i /\ dv[n].c[r] <= dv[n].d[n][i]
        BY <2>1, <3>1, <3>3, <4>0 DEF Hop, dist
      <4>2. /\ dv[n].m_version = dv'[r].m_version =>
                  dv[n].c[r] + dv'[r].d[r][i] <= dv[n].d[n][i]
            /\ dv[n].m_version > dv'[r].m_version =>
                  r = i /\ dv[n].c[r] <= dv[n].d[n][i]
        <5>1. CASE dv'[r].m_version > dv[r].m_version
          BY <1>4, <1>5, <4>1, <5>1
        <5>2. CASE /\ dv'[r].m_version = dv[r].m_version
                   /\ \A j \in Routers : dv'[r].d[r][j] <= dv[r].d[r][j]
          BY <1>4, <4>1, <5>2
        <5>3. QED
          BY <1>5, <5>1, <5>2
      <4>3. QED
        BY <2>1, <3>3, <4>2 DEF Hop, dist
    <3>4. QED
      BY <3>2, <3>3
  <2>4. QED
    BY <2>1, <2>2, <2>3 DEF Good
<1>8. ASSUME NEW p \in Packet, GoodRow(p)
      PROVE  GoodRow(p)'
  <2>1. p.RID \in Routers /\ p.version \in Nat
        /\ \A i \in Routers : p.row[i] \in 0 .. INF
    BY DEF Packet, Row
  <2>2. CASE p.RID # r
    BY <1>2, <1>8, <2>1, <2>2 DEF GoodRow, dist
  <2>3. CASE p.RID = r
    BY <1>4, <1>5, <1>8, <2>1, <2>3 DEF GoodRow, dist
  <2>4. QED
    BY <2>2, <2>3
<1>9. QED
  BY <1>2, <1>3, <1>6, <1>7, <1>8

-----------------------------------------------------------------------------
(* The packets.                                                            *)

(* Every packet on e in wires is a good one.                               *)
GoodWire(wires) ==
    /\ wires \in [Directed -> Seq(Packet)]
    /\ \A e \in Directed : \A k \in DOMAIN wires[e] :
          wires[e][k].RID # e[2] /\ GoodRow(wires[e][k])

(* Broadcast adds the row of v alone, and never towards its own router.    *)
LEMMA BroadcastFacts ==
    ASSUME NEW W \in [Directed -> Seq(Packet)], NEW v \in DVState
    PROVE  LET B == Broadcast(W, v)
           IN  /\ B \in [Directed -> Seq(Packet)]
               /\ dvInfo(v) \in Packet
               /\ \A e \in Directed : \A k \in DOMAIN B[e] :
                     \/ B[e][k] = dvInfo(v) /\ v.m_routerID # e[2]
                     \/ k \in DOMAIN W[e] /\ B[e][k] = W[e][k]
<1> DEFINE p == dvInfo(v)
           B == Broadcast(W, v)
<1>1. p \in Packet
  BY DEF dvInfo, Packet, DVState
<1>2. ASSUME NEW e \in Directed
      PROVE  \/ B[e] = W[e]
             \/ B[e] = Append(W[e], p) /\ v.m_routerID # e[2]
  BY DEF Broadcast
<1>3. B = [e \in Directed |-> B[e]]
  BY DEF Broadcast
<1> HIDE DEF p, B
<1>4. ASSUME NEW e \in Directed
      PROVE  /\ B[e] \in Seq(Packet)
             /\ \A k \in DOMAIN B[e] : \/ B[e][k] = p /\ v.m_routerID # e[2]
                                       \/ k \in DOMAIN W[e] /\ B[e][k] = W[e][k]
  <2>1. W[e] \in Seq(Packet)
    OBVIOUS
  <2>2. CASE B[e] = W[e]
    BY <2>1, <2>2
  <2>3. CASE B[e] = Append(W[e], p) /\ v.m_routerID # e[2]
    BY <1>1, <2>1, <2>3
  <2>4. QED
    BY <1>2, <2>2, <2>3
<1>5. QED
  BY <1>1, <1>3, <1>4 DEF p, B

(* A packet is taken off a cable.                                          *)
LEMMA TailFacts ==
    ASSUME NEW W \in [Directed -> Seq(Packet)], NEW e \in Directed, W[e] # <<>>
    PROVE  LET T == [W EXCEPT ![e] = Tail(@)]
           IN  /\ T \in [Directed -> Seq(Packet)]
               /\ \A x \in Directed : \A k \in DOMAIN T[x] :
                     \E j \in DOMAIN W[x] : T[x][k] = W[x][j]
<1> DEFINE T == [W EXCEPT ![e] = Tail(@)]
<1>1. /\ W[e] \in Seq(Packet) /\ Tail(W[e]) \in Seq(Packet)
      /\ \A k \in DOMAIN Tail(W[e]) : k + 1 \in DOMAIN W[e]
                                      /\ Tail(W[e])[k] = W[e][k + 1]
  OBVIOUS
<1>2. T \in [Directed -> Seq(Packet)]
  BY <1>1
<1>3. ASSUME NEW x \in Directed, NEW k \in DOMAIN T[x]
      PROVE  \E j \in DOMAIN W[x] : T[x][k] = W[x][j]
  <2>1. CASE x = e
    BY <1>1, <2>1
  <2>2. CASE x # e
    BY <2>2
  <2>3. QED
    BY <2>1, <2>2
<1>4. QED
  BY <1>2, <1>3

(* A router that broadcasts its row as it is now.                          *)
LEMMA BroadcastGood ==
    ASSUME TypeOK, GoodWire(wire), NEW r \in Routers
    PROVE  GoodWire(Broadcast(wire, dv[r]))
<1> DEFINE B == Broadcast(wire, dv[r])
<1>1. /\ dv[r] \in DVState /\ dv[r].m_routerID = r
      /\ \A i \in Routers : dist(r, i) \in 0 .. INF
      /\ dv[r].m_version \in Nat
  BY OtherRows
<1>2. /\ B \in [Directed -> Seq(Packet)]
      /\ \A e \in Directed : \A k \in DOMAIN B[e] :
            \/ B[e][k] = dvInfo(dv[r]) /\ r # e[2]
            \/ k \in DOMAIN wire[e] /\ B[e][k] = wire[e][k]
  BY <1>1, BroadcastFacts DEF GoodWire
<1> HIDE DEF B
<1>3. GoodRow(dvInfo(dv[r])) /\ dvInfo(dv[r]).RID = r
  BY <1>1, NetworkAssumption DEF GoodRow, dvInfo, dist
<1>4. QED
  BY <1>2, <1>3 DEF GoodWire, B

(* The invariant.                                                          *)

(* IInv, with what is said of packets in one conjunct.                     *)
LEMMA IInvParts ==
    IInv <=> /\ TypeOK
             /\ \A r \in Routers : Good(dv[r]) /\ dv[r].m_version <= lstChangeVersion
             /\ \A e \in Directed : m_port2RouterID[e] # e[2]
             /\ GoodWire(wire)
  BY DEF IInv, GoodWire, TypeOK

LEMMA InitInv == Init => IInv
<1> SUFFICES ASSUME Init PROVE IInv
  OBVIOUS
<1>1. /\ INF \in Nat /\ Routers \subseteq Nat \ {0}
      /\ \A e \in Directed : e[1] \in Links /\ e[2] \in Routers
  BY NetworkAssumption, EndFacts DEF Routers
<1>2. ASSUME NEW r \in Routers
      PROVE  /\ InitDV(r) \in DVState /\ InitDV(r).m_routerID = r
             /\ InitDV(r).m_version = 0
             /\ \A n \in Routers \ {r} : InitDV(r).d[n] = Unreached
             /\ InitDV(r).d[r][r] = 0
             /\ InitDV(r).nextRouter = [i \in Routers |-> 0]
  <2> DEFINE d0 == [x \in Routers |-> Unreached]
             d1 == [d0 EXCEPT ![r][r] = 0]
             c1 == [Unreached EXCEPT ![r] = 0]
  <2>1. d1 \in [Routers -> Row] /\ c1 \in Row
    BY <1>1 DEF Unreached, Row
  <2>2. d1[r][r] = 0 /\ \A n \in Routers \ {r} : d1[n] = Unreached
    BY DEF Unreached
  <2>3. InitDV(r) = [m_routerID |-> r, m_version |-> 0, c |-> c1, d |-> d1,
                     nextRouter |-> [i \in Routers |-> 0]]
    BY DEF InitDV
  <2> HIDE DEF d1, c1
  <2>4. QED
    BY <2>1, <2>2, <2>3 DEF DVState
<1>3. TypeOK
  <2>1. dv \in [Routers -> DVState] /\ \A r \in Routers : dv[r].m_routerID = r
    BY <1>2 DEF Init
  <2>2. /\ len \in [Links -> Lens \cup {Down}] /\ changes \in 0 .. MaxChanges
        /\ m_portLen \in [Directed -> Lens \cup {Down}]
    BY <1>1, NetworkAssumption DEF Init
  <2>3. wire \in [Directed -> Seq(Packet)]
    BY DEF Init
  <2>4. QED
    BY <1>1, <2>1, <2>2, <2>3 DEF Init, TypeOK
<1>4. ASSUME NEW r \in Routers
      PROVE  Good(dv[r])
  <2>1. dv[r] = InitDV(r)
    BY DEF Init
  <2>2. QED
    BY <1>2, <1>3, <2>1, ForgetfulGood
<1>5. \A r \in Routers : dv[r].m_version <= lstChangeVersion
  BY <1>2 DEF Init
<1>6. GoodWire(wire)
  BY <1>3 DEF Init, GoodWire, TypeOK
<1>7. \A e \in Directed : m_port2RouterID[e] # e[2]
  BY <1>1 DEF Init
<1>8. QED
  BY <1>3, <1>4, <1>5, <1>6, <1>7, IInvParts

(* One router advances, with or without telling the others.                *)
LEMMA AdvanceInv ==
    ASSUME IInv, NEW r \in Routers, NEW w \in DVState,
           w.m_routerID = r, Good(w), Advances(dv[r], w),
           dv' = [dv EXCEPT ![r] = w],
           lstChangeVersion' \in Nat, lstChangeVersion <= lstChangeVersion',
           w.m_version <= lstChangeVersion',
           wire' \in [Directed -> Seq(Packet)],
           \A e \in Directed : \A k \in DOMAIN wire'[e] :
              \/ wire'[e][k] = dvInfo(w) /\ r # e[2]
              \/ \E j \in DOMAIN wire[e] : wire'[e][k] = wire[e][j],
           len' = len, changes' = changes,
           notices' \subseteq Directed, untriggered' \subseteq Routers,
           m_portLen' \in [Directed -> Lens \cup {Down}],
           m_routerID2Port' \in [Routers -> [Routers -> Links \cup {0}]],
           m_port2RouterID' \in [Directed -> Routers \cup {0}],
           \A e \in Directed : m_port2RouterID'[e] # e[2]
    PROVE  IInv'
<1>1. /\ TypeOK /\ GoodWire(wire)
      /\ \A n \in Routers : /\ dv[n] \in DVState /\ dv[n].m_routerID = n
                            /\ dv[n].m_version <= lstChangeVersion
                            /\ dv[n].m_version \in Nat
  BY GoodFacts, IInvParts DEF DVState
<1>2. /\ dv' \in [Routers -> DVState]
      /\ \A n \in Routers : dv'[n].m_routerID = n /\ Good(dv[n])'
      /\ \A q \in Packet : GoodRow(q) => GoodRow(q)'
  BY AdvanceStep
<1>3. dv'[r] = w /\ \A n \in Routers \ {r} : dv'[n] = dv[n]
  BY <1>1 DEF TypeOK
<1>4. ASSUME NEW n \in Routers
      PROVE  dv'[n].m_version <= lstChangeVersion'
  <2>1. CASE n = r
    BY <1>3, <2>1
  <2>2. CASE n # r
    <3>1. lstChangeVersion \in Nat
      BY <1>1 DEF TypeOK
    <3>2. QED
      BY <1>1, <1>3, <2>2, <3>1
  <2>3. QED
    BY <2>1, <2>2
<1>5. TypeOK'
  BY <1>1, <1>2 DEF TypeOK
<1>6. dvInfo(w).RID = r /\ GoodRow(dvInfo(w))'
  <2>1. /\ dvInfo(w).RID = r /\ dvInfo(w).version = w.m_version
        /\ dvInfo(w).row = w.d[r]
    BY DEF dvInfo
  <2>2. w.m_version \in Nat /\ \A i \in Routers : w.d[r][i] \in Nat
    BY NetworkAssumption DEF DVState, Row
  <2>3. \A i \in Routers : w.d[r][i] <= w.d[r][i]
    BY <2>2
  <2>4. w.m_version <= w.m_version
    BY <2>2
  <2>5. QED
    BY <1>3, <2>1, <2>3, <2>4 DEF GoodRow, dist
<1>7. ASSUME NEW e \in Directed, NEW k \in DOMAIN wire'[e]
      PROVE  wire'[e][k].RID # e[2] /\ GoodRow(wire[e][k])'
  <2>1. CASE wire'[e][k] = dvInfo(w) /\ r # e[2]
    <3>1. GoodRow(wire[e][k])' <=> GoodRow(dvInfo(w))'
      BY <1>3, <2>1 DEF GoodRow, dist, dvInfo
    <3>2. QED
      BY <1>6, <2>1, <3>1
  <2>2. CASE \E j \in DOMAIN wire[e] : wire'[e][k] = wire[e][j]
    <3>1. PICK j \in DOMAIN wire[e] : wire'[e][k] = wire[e][j]
      BY <2>2
    <3>2. wire[e] \in Seq(Packet)
      BY <1>1 DEF GoodWire
    <3> DEFINE q == wire[e][j]
    <3>3. q \in Packet /\ q.RID # e[2] /\ GoodRow(q)
      BY <1>1, <3>2 DEF GoodWire
    <3>4. PICK z \in Packet : z = q /\ z.RID # e[2] /\ GoodRow(z)
      BY <3>3
    <3>5. GoodRow(z)' /\ wire'[e][k] = z
      BY <1>2, <3>1, <3>4
    <3>6. QED
      BY <3>4, <3>5 DEF GoodRow
  <2>3. QED
    BY <2>1, <2>2
<1>8. QED
  BY <1>2, <1>4, <1>5, <1>7 DEF IInv

LEMMA ReceiveDVStep ==
    ASSUME IInv, NEW r \in Routers, NEW l \in Links, <<l, r>> \in Directed,
           ReceiveDV(r, l)
    PROVE  IInv'
<1> DEFINE e == <<l, r>>
           p == Head(wire[e])
<1>1. /\ TypeOK /\ GoodWire(wire) /\ wire[e] # <<>>
      /\ \A n \in Routers : /\ dv[n] \in DVState /\ dv[n].m_routerID = n
                            /\ Good(dv[n]) /\ dist(n, n) = 0
                            /\ dv[n].m_version <= lstChangeVersion
      /\ \A x \in Directed : m_port2RouterID[x] # x[2]
  BY GoodFacts, IInvParts DEF ReceiveDV
<1>2. p \in Packet /\ p.RID # r /\ GoodRow(p) /\ p.RID \in Routers
  <2>1. wire[e] \in Seq(Packet) /\ 1 \in DOMAIN wire[e] /\ p = wire[e][1]
    BY <1>1 DEF GoodWire
  <2>2. p \in Packet /\ p.RID # r /\ GoodRow(p)
    BY <1>1, <2>1 DEF GoodWire
  <2>3. QED
    BY <2>2 DEF Packet
<1>3. m_portLen[e] \in Lens \cup {Down}
  BY <1>1 DEF TypeOK
<1> DEFINE v == updateC(dv[r], p.RID, m_portLen[e])
           merged == updateDV(v, p)
           rest == [wire EXCEPT ![e] = Tail(@)]
<1>4. /\ v \in DVState /\ v.m_routerID = r /\ Good(v) /\ Advances(dv[r], v)
      /\ v.m_version <= Version(Lengthens(dv[r], p.RID, m_portLen[e]))
  BY <1>1, <1>2, <1>3, updateCFacts
<1>5. /\ dv' = [dv EXCEPT ![r] = merged]
      /\ wire' = Broadcast(rest, merged) \/ wire' = rest
      /\ lstChangeVersion' = Version(Lengthens(dv[r], p.RID, m_portLen[e]))
      /\ m_routerID2Port' = [m_routerID2Port EXCEPT ![r][p.RID] = l]
      /\ m_port2RouterID' = [m_port2RouterID EXCEPT ![e] = p.RID]
      /\ UNCHANGED <<env, untriggered, m_portLen>>
  BY DEF ReceiveDV
<1> HIDE DEF p, v
<1>6. /\ merged \in DVState /\ merged.m_routerID = r /\ Good(merged)
      /\ Advances(v, merged)
      /\ merged.m_version \in {v.m_version, p.version}
  BY <1>1, <1>2, <1>4, updateDVFacts
<1> HIDE DEF merged
<1>7. Advances(dv[r], merged)
  BY <1>1, <1>4, <1>6, AdvancesTrans
<1>8. /\ lstChangeVersion' \in Nat /\ lstChangeVersion <= lstChangeVersion'
      /\ merged.m_version <= lstChangeVersion'
  <2>1. /\ lstChangeVersion \in Nat /\ lstChangeVersion' \in Nat
        /\ lstChangeVersion <= lstChangeVersion'
    BY <1>1, <1>5 DEF TypeOK, Version
  <2>2. p.version <= lstChangeVersion
    <3>1. /\ p.version \in Nat /\ dv[p.RID].m_version \in Nat
          /\ dv[p.RID].m_version <= lstChangeVersion
      BY <1>1, <1>2 DEF Packet, DVState
    <3>2. QED
      BY <1>2, <2>1, <3>1 DEF GoodRow
  <2>3. merged.m_version <= lstChangeVersion'
    BY <1>2, <1>4, <1>5, <1>6, <2>1, <2>2 DEF DVState, Packet
  <2>4. QED
    BY <2>1, <2>3
<1>9. /\ rest \in [Directed -> Seq(Packet)]
      /\ \A x \in Directed : \A k \in DOMAIN rest[x] :
            \E j \in DOMAIN wire[x] : rest[x][k] = wire[x][j]
  <2>1. /\ e \in Directed /\ wire[e] # <<>>
        /\ wire \in [Directed -> Seq(Packet)]
    BY <1>1 DEF GoodWire
  <2> HIDE DEF e
  <2>2. QED
    BY <2>1, TailFacts
<1> HIDE DEF rest
<1>10. /\ wire' \in [Directed -> Seq(Packet)]
       /\ \A x \in Directed : \A k \in DOMAIN wire'[x] :
             \/ wire'[x][k] = dvInfo(merged) /\ r # x[2]
             \/ \E j \in DOMAIN wire[x] : wire'[x][k] = wire[x][j]
  <2>1. CASE wire' = rest
    BY <1>9, <2>1
  <2>2. CASE wire' = Broadcast(rest, merged)
    <3>1. /\ wire' \in [Directed -> Seq(Packet)]
          /\ \A x \in Directed : \A k \in DOMAIN wire'[x] :
                \/ wire'[x][k] = dvInfo(merged) /\ r # x[2]
                \/ k \in DOMAIN rest[x] /\ wire'[x][k] = rest[x][k]
      BY <1>6, <1>9, <2>2, BroadcastFacts
    <3>2. ASSUME NEW x \in Directed, NEW k \in DOMAIN wire'[x]
          PROVE  \/ wire'[x][k] = dvInfo(merged) /\ r # x[2]
                 \/ \E j \in DOMAIN wire[x] : wire'[x][k] = wire[x][j]
      <4>1. CASE wire'[x][k] = dvInfo(merged) /\ r # x[2]
        BY <4>1
      <4>2. CASE k \in DOMAIN rest[x] /\ wire'[x][k] = rest[x][k]
        <5>1. PICK j \in DOMAIN wire[x] : rest[x][k] = wire[x][j]
          BY <1>9, <4>2
        <5>2. QED
          BY <4>2, <5>1
      <4>3. QED
        BY <3>1, <4>1, <4>2
    <3>3. QED
      BY <3>1, <3>2
  <2>3. QED
    BY <1>5, <2>1, <2>2
<1>11. /\ m_port2RouterID' \in [Directed -> Routers \cup {0}]
       /\ m_routerID2Port' \in [Routers -> [Routers -> Links \cup {0}]]
       /\ \A x \in Directed : m_port2RouterID'[x] # x[2]
  BY <1>1, <1>2, <1>5 DEF TypeOK
<1>12. /\ len' = len /\ changes' = changes
       /\ notices' \subseteq Directed /\ untriggered' \subseteq Routers
       /\ m_portLen' \in [Directed -> Lens \cup {Down}]
  BY <1>1, <1>5 DEF TypeOK, env
<1>13. QED
  BY <1>5, <1>6, <1>7, <1>8, <1>10, <1>11, <1>12, AdvanceInv

LEMMA PortChangeStep ==
    ASSUME IInv, NEW r \in Routers, NEW l \in Links, <<l, r>> \in Directed,
           PortChange(r, l)
    PROVE  IInv'
<1> DEFINE e == <<l, r>>
           n == m_port2RouterID[e]
<1>1. /\ TypeOK /\ GoodWire(wire)
      /\ \A s \in Routers : /\ dv[s] \in DVState /\ dv[s].m_routerID = s
                            /\ Good(dv[s]) /\ dist(s, s) = 0
                            /\ dv[s].m_version <= lstChangeVersion
                            /\ dv[s].m_version \in Nat
      /\ \A x \in Directed : m_port2RouterID[x] # x[2]
  BY GoodFacts, IInvParts DEF DVState
<1>2. len[l] \in Lens \cup {Down} /\ n \in Routers \cup {0} /\ n # r
  BY <1>1 DEF TypeOK
<1>3. /\ wire' = wire /\ len' = len /\ changes' = changes
      /\ m_routerID2Port' = m_routerID2Port
      /\ notices' \subseteq Directed /\ untriggered' \subseteq Routers
      /\ m_portLen' \in [Directed -> Lens \cup {Down}]
  BY <1>1, <1>2 DEF PortChange, TypeOK
<1>4. CASE /\ n = 0
           /\ UNCHANGED <<dv, lstChangeVersion, m_port2RouterID>>
  <2>1. /\ dv' = [dv EXCEPT ![r] = dv[r]]
        /\ lstChangeVersion' = lstChangeVersion
        /\ m_port2RouterID' = m_port2RouterID
    BY <1>1, <1>4 DEF TypeOK
  <2>2. Advances(dv[r], dv[r])
    BY <1>1, NetworkAssumption DEF Advances, DVState, Row
  <2>3. /\ lstChangeVersion \in Nat /\ lstChangeVersion <= lstChangeVersion'
        /\ dv[r].m_version <= lstChangeVersion'
        /\ m_port2RouterID \in [Directed -> Routers \cup {0}]
        /\ m_routerID2Port \in [Routers -> [Routers -> Links \cup {0}]]
        /\ wire \in [Directed -> Seq(Packet)]
    BY <1>1, <2>1 DEF TypeOK
  <2>4. QED
    BY <1>1, <1>3, <2>1, <2>2, <2>3, AdvanceInv
<1>5. CASE /\ n # 0
           /\ dv' = [dv EXCEPT ![r] = updateC(@, n, len[l])]
           /\ lstChangeVersion' = Version(Lengthens(dv[r], n, len[l]))
           /\ m_port2RouterID' =
                 [m_port2RouterID EXCEPT ![e] = IF len[l] = Down THEN 0 ELSE @]
  <2> DEFINE w == updateC(dv[r], n, len[l])
  <2>1. /\ w \in DVState /\ w.m_routerID = r /\ Good(w) /\ Advances(dv[r], w)
        /\ w.m_version <= Version(Lengthens(dv[r], n, len[l]))
    BY <1>1, <1>2, <1>5, updateCFacts
  <2>2. dv' = [dv EXCEPT ![r] = w]
    BY <1>5
  <2> HIDE DEF w
  <2>3. /\ lstChangeVersion' \in Nat /\ lstChangeVersion <= lstChangeVersion'
        /\ w.m_version <= lstChangeVersion'
    BY <1>1, <1>5, <2>1 DEF TypeOK, Version
  <2>4. /\ m_port2RouterID' \in [Directed -> Routers \cup {0}]
        /\ \A x \in Directed : m_port2RouterID'[x] # x[2]
    <3>1. 0 \notin Routers /\ \A x \in Directed : x[2] \in Routers
      BY EndFacts DEF Routers
    <3>2. QED
      BY <1>1, <1>5, <3>1, ZenonT(60) DEF TypeOK
  <2>5. QED
    BY <1>1, <1>3, <2>1, <2>2, <2>3, <2>4, AdvanceInv DEF TypeOK, GoodWire
<1>6. QED
  BY <1>4, <1>5 DEF PortChange

LEMMA TriggerStep ==
    ASSUME IInv, NEW r \in Routers, Trigger(r)
    PROVE  IInv'
<1>1. /\ TypeOK /\ GoodWire(wire)
      /\ GoodWire(Broadcast(wire, dv[r]))
  BY GoodFacts, IInvParts, BroadcastGood
<1>2. /\ wire' = Broadcast(wire, dv[r]) /\ untriggered' \subseteq Routers
      /\ UNCHANGED <<env, dv, lstChangeVersion, ports>>
  BY <1>1 DEF Trigger, TypeOK
<1> DEFINE B == Broadcast(wire, dv[r])
<1>3. /\ wire' = B /\ B \in [Directed -> Seq(Packet)]
      /\ \A e \in Directed : \A k \in DOMAIN B[e] :
            B[e][k].RID # e[2] /\ GoodRow(B[e][k])
  BY <1>1, <1>2 DEF GoodWire
<1> HIDE DEF B
<1>4. UNCHANGED <<len, changes, notices, dv, lstChangeVersion, m_portLen,
                  m_port2RouterID, m_routerID2Port>>
  BY <1>2 DEF env, ports
<1>5. TypeOK'
  BY <1>1, <1>2, <1>3, <1>4 DEF TypeOK
<1>6. \A s \in Routers : /\ Good(dv[s])'
                         /\ dv'[s].m_version <= lstChangeVersion'
  BY <1>4 DEF IInv, Good, Heard, Hop, dist
<1>7. \A e \in Directed :
         /\ m_port2RouterID'[e] # e[2]
         /\ \A k \in DOMAIN wire'[e] : /\ wire'[e][k].RID # e[2]
                                       /\ GoodRow(wire[e][k])'
  BY <1>3, <1>4, SMTT(30) DEF IInv, GoodRow, dist
<1>8. QED
  BY <1>5, <1>6, <1>7 DEF IInv

LEMMA LinkChangeStep ==
    ASSUME IInv, NEW l \in Links, NEW x \in Lens \cup {Down}, LinkChange(l, x)
    PROVE  IInv'
<1>1. /\ TypeOK /\ GoodWire(wire)
  BY GoodFacts, IInvParts
<1>2. GoodWire(wire)' /\ wire' \in [Directed -> Seq(Packet)]
  <2>1. dv' = dv
    BY DEF LinkChange
  <2>2. \A y \in Directed : wire'[y] = wire[y] \/ wire'[y] = <<>>
    BY <1>1 DEF LinkChange, GoodWire
  <2>3. wire' \in [Directed -> Seq(Packet)]
    <3>1. wire \in [Directed -> Seq(Packet)] /\ <<>> \in Seq(Packet)
      BY <1>1 DEF GoodWire
    <3>2. CASE UNCHANGED wire
      BY <3>1, <3>2
    <3>3. CASE wire' = [y \in Directed |-> IF y[1] = l THEN <<>> ELSE wire[y]]
      BY <3>1, <3>3
    <3>4. QED
      BY <3>2, <3>3 DEF LinkChange
  <2>4. QED
    BY <1>1, <2>1, <2>2, <2>3 DEF GoodWire, GoodRow, dist
<1>3. /\ len' \in [Links -> Lens \cup {Down}] /\ changes' \in 0 .. MaxChanges
      /\ notices' \subseteq Directed
  <2>1. \A r \in Ends[l] : <<l, r>> \in Directed
    BY NetworkAssumption DEF Directed
  <2>2. MaxChanges \in Nat
    BY NetworkAssumption
  <2>3. QED
    BY <1>1, <2>1, <2>2 DEF LinkChange, TypeOK
<1>4. UNCHANGED <<untriggered, dv, lstChangeVersion, ports>>
  BY DEF LinkChange
<1>5. QED
  BY <1>2, <1>3, <1>4 DEF IInv, TypeOK, GoodWire, GoodRow, Good, Heard, Hop,
                         dist, ports

LEMMA StepInv == IInv /\ [Next]_vars => IInv'
<1> SUFFICES ASSUME IInv, [Next]_vars PROVE IInv'
  OBVIOUS
<1>1. ASSUME NEW e \in Directed, ReceiveDV(e[2], e[1])
      PROVE  IInv'
  BY <1>1, EndFacts, ReceiveDVStep
<1>2. ASSUME NEW e \in Directed, PortChange(e[2], e[1])
      PROVE  IInv'
  BY <1>2, EndFacts, PortChangeStep
<1>3. ASSUME NEW r \in Routers, Trigger(r)
      PROVE  IInv'
  BY <1>3, TriggerStep
<1>4. ASSUME NEW l \in Links, NEW x \in Lens \cup {Down}, LinkChange(l, x)
      PROVE  IInv'
  BY <1>4, LinkChangeStep, SMTT(30)
<1>5. CASE UNCHANGED vars
  BY <1>5 DEF IInv, TypeOK, GoodRow, Good, Heard, Hop, dist, vars, env, ports
<1>6. QED
  BY <1>1, <1>2, <1>3, <1>4, <1>5 DEF Next, Deliver

(* In every network, whatever its cables do, the state of every router and *)
(* every row under way fit the states of all the others (ReceiveDV,        *)
(* PortChange, Trigger).                                                   *)
THEOREM Invariance == Spec => []IInv
<1>1. QED
  BY InitInv, StepInv, PTL DEF Spec

(* The variables keep their types in every network: no distance exceeds    *)
(* INF and no router is taken for its own neighbour (updateC, updateDV).   *)
THEOREM TypeCorrect == Spec => []TypeOK
<1>1. IInv => TypeOK
  BY DEF IInv
<1>2. QED
  BY <1>1, Invariance, PTL

(* In every network packets never go round among routers of one version:   *)
(* each next hop is nearer to the destination (Relaxed, Stale, Reset).     *)
THEOREM LoopFree == Spec => []NextHopDescends
<1>1. ASSUME IInv
      PROVE  NextHopDescends
  <2>1. ASSUME NEW r \in Routers, NEW i \in Routers
        PROVE  Hop(dv[r], i) /\ dv[r].m_routerID = r
    BY <1>1, GoodFacts DEF Good
  <2>2. QED
    BY <2>1 DEF NextHopDescends, Hop, dist
<1>2. QED
  BY <1>1, Invariance, PTL

-----------------------------------------------------------------------------
(* The ways behind the distances of a router.                              *)

Costs == [n \in Routers |-> dv[n].c]

(* With links of the costs cc there is a way from r to i that visits no    *)
(* router twice and costs no more than x: g is what is left of x on it.    *)
Supported(cc, r, i, x) ==
    \E m \in Routers :
       \E w \in [1 .. m -> Routers], g \in [1 .. m -> Nat] :
          /\ \A j, k \in 1 .. m : j # k => w[j] # w[k]
          /\ w[1] = r /\ w[m] = i
          /\ \A k \in 1 .. m : g[k] <= x
          /\ \A k \in 1 .. m - 1 : cc[w[k]][w[k + 1]] + g[k + 1] <= g[k]

(* No link is taken to go from a router to itself.                         *)
LEMMA SupportedHere ==
    ASSUME NEW cc, NEW r \in Routers, NEW x \in Nat
    PROVE  Supported(cc, r, r, x)
<1> DEFINE w == [k \in 1 .. 1 |-> r]
           g == [k \in 1 .. 1 |-> 0]
<1>1. 1 \in Routers
  BY NetworkAssumption DEF Routers
<1>2. w \in [1 .. 1 -> Routers] /\ g \in [1 .. 1 -> Nat]
  OBVIOUS
<1>3. /\ \A j, k \in 1 .. 1 : j # k => w[j] # w[k]
      /\ w[1] = r /\ \A k \in 1 .. 1 : g[k] <= x
      /\ \A k \in 1 .. 1 - 1 : cc[w[k]][w[k + 1]] + g[k + 1] <= g[k]
  OBVIOUS
<1> HIDE DEF w, g
<1>4. QED
  BY <1>1, <1>2, <1>3 DEF Supported

(* A way that visits no router twice is no longer than there are routers.  *)
LEMMA WayLength ==
    ASSUME NEW m \in Nat, NEW w \in [1 .. m -> Routers],
           \A j, k \in 1 .. m : j # k => w[j] # w[k]
    PROVE  m <= totRouterNum
<1>1. totRouterNum \in Nat /\ 1 \in Int /\ m \in Int /\ totRouterNum \in Int
  BY NetworkAssumption
<1>2. /\ IsFiniteSet(1 .. m) /\ IsFiniteSet(Routers)
      /\ Cardinality(1 .. m) = m /\ Cardinality(Routers) = totRouterNum
  <2>1. Cardinality(1 .. m) = IF 1 > m THEN 0 ELSE m - 1 + 1
    BY <1>1, FS_Interval
  <2>2. Cardinality(1 .. totRouterNum)
          = IF 1 > totRouterNum THEN 0 ELSE totRouterNum - 1 + 1
    BY <1>1, FS_Interval
  <2>3. IsFiniteSet(1 .. m) /\ IsFiniteSet(1 .. totRouterNum)
    BY <1>1, FS_Interval
  <2>4. QED
    BY <1>1, <2>1, <2>2, <2>3 DEF Routers
<1>3. w \in Injection(1 .. m, Routers)
  BY DEF Injection, IsInjective
<1>4. QED
  BY <1>2, <1>3, FS_Injection

(* A link and a way behind it: the way goes on from the router of the link *)
(* if it already visits it, and begins with the link if it does not.       *)
LEMMA SupportedVia ==
    ASSUME NEW cc \in [Routers -> [Routers -> Nat]],
           NEW r \in Routers, NEW n \in Routers, NEW i \in Routers,
           NEW y \in Nat, NEW x \in Nat,
           Supported(cc, n, i, y), cc[r][n] + y <= x
    PROVE  Supported(cc, r, i, x)
<1>0. cc[r][n] \in Nat /\ totRouterNum \in Nat
  BY NetworkAssumption
<1>1. y <= x
  BY <1>0
<1>2. PICK m \in Nat :
         /\ m \in Routers /\ 1 <= m /\ m <= totRouterNum
         /\ \E w \in [1 .. m -> Routers], g \in [1 .. m -> Nat] :
              /\ \A j, k \in 1 .. m : j # k => w[j] # w[k]
              /\ w[1] = n /\ w[m] = i
              /\ \A k \in 1 .. m : g[k] <= y
              /\ \A k \in 1 .. m - 1 :
                    cc[w[k]][w[k + 1]] + g[k + 1] <= g[k]
  <2>1. \A m \in Routers : m \in Nat /\ 1 <= m /\ m <= totRouterNum
    BY <1>0 DEF Routers
  <2>2. QED
    BY <2>1 DEF Supported
<1>3. m \in Nat /\ m \in Routers /\ 1 <= m /\ m <= totRouterNum
  BY <1>2
<1>4. PICK w, g :
         /\ \A k \in 1 .. m : w[k] \in Routers /\ g[k] \in Nat
         /\ \A j, k \in 1 .. m : j # k => w[j] # w[k]
         /\ w[1] = n /\ w[m] = i
         /\ \A k \in 1 .. m : g[k] <= y
         /\ \A k \in 1 .. m - 1 : cc[w[k]][w[k + 1]] + g[k + 1] <= g[k]
  BY <1>2
<1>5. CASE \E j \in 1 .. m : w[j] = r
  <2>1. PICK j \in 1 .. m : w[j] = r
    BY <1>5
  <2> DEFINE q == m - j + 1
             u == [k \in 1 .. q |-> w[k + j - 1]]
             h == [k \in 1 .. q |-> g[k + j - 1]]
  <2>2. /\ q \in Routers /\ q \in Nat
        /\ \A k \in 1 .. q : k + j - 1 \in 1 .. m
        /\ 1 \in 1 .. q /\ q \in 1 .. q /\ q + j - 1 = m /\ 1 + j - 1 = j
    <3>1. j \in Nat /\ 1 <= j /\ j <= m
      BY <1>0, <1>1, <1>3
    <3>2. q \in Nat /\ 1 <= q /\ q <= totRouterNum /\ q + j - 1 = m
      BY <1>0, <1>1, <1>3, <3>1
    <3>3. q \in Routers
      BY <3>2, <1>0, <1>1, <1>3 DEF Routers
    <3>4. \A k \in 1 .. q : k + j - 1 \in 1 .. m
      BY <1>0, <1>1, <1>3, <3>1, <3>2
    <3>5. QED
      BY <3>1, <3>2, <3>3, <3>4
  <2>3. u \in [1 .. q -> Routers] /\ h \in [1 .. q -> Nat]
    BY <1>4, <2>2
  <2>4. /\ \A k \in 1 .. q : u[k] = w[k + j - 1] /\ h[k] = g[k + j - 1]
    OBVIOUS
  <2> HIDE DEF q, u, h
  <2>5. u[1] = r /\ u[q] = i
    BY <1>4, <2>1, <2>2, <2>4
  <2>6. \A a, b \in 1 .. q : a # b => u[a] # u[b]
    <3>1. ASSUME NEW a \in 1 .. q, NEW b \in 1 .. q, a # b
          PROVE  a + j - 1 # b + j - 1
      BY <2>2, <3>1
    <3>2. QED
      BY <1>4, <2>2, <2>4, <3>1
  <2>7. \A k \in 1 .. q : h[k] <= x
    <3>1. ASSUME NEW k \in 1 .. q
          PROVE  h[k] <= x
      <4>1. g[k + j - 1] <= y /\ g[k + j - 1] \in Nat
        BY <1>4, <2>2
      <4>2. QED
        BY <1>0, <1>1, <1>3, <2>4, <4>1
    <3>2. QED
      BY <3>1
  <2>8. ASSUME NEW k \in 1 .. q - 1
        PROVE  cc[u[k]][u[k + 1]] + h[k + 1] <= h[k]
    <3>1. /\ k \in 1 .. q /\ k + 1 \in 1 .. q
          /\ k + j - 1 \in 1 .. m - 1 /\ (k + 1) + j - 1 = (k + j - 1) + 1
      BY <1>0, <1>1, <1>3, <2>2 DEF q
    <3>2. /\ cc[w[k + j - 1]][w[(k + j - 1) + 1]] + g[(k + j - 1) + 1]
               <= g[k + j - 1]
      BY <1>4, <3>1
    <3>3. QED
      BY <2>4, <3>1, <3>2
  <2>9. QED
    BY <2>2, <2>3, <2>5, <2>6, <2>7, <2>8 DEF Supported
<1>6. CASE \A j \in 1 .. m : w[j] # r
  <2> DEFINE q == m + 1
             u == [k \in 1 .. q |-> IF k = 1 THEN r ELSE w[k - 1]]
             h == [k \in 1 .. q |-> IF k = 1 THEN x ELSE g[k - 1]]
  <2>1. /\ q \in Nat /\ 1 \in 1 .. q /\ q \in 1 .. q /\ q - 1 = m /\ q # 1
        /\ \A k \in 1 .. q : k # 1 => k - 1 \in 1 .. m
    BY <1>0, <1>1, <1>3
  <2>2. u \in [1 .. q -> Routers] /\ h \in [1 .. q -> Nat]
    BY <1>4, <2>1
  <2>3. \A k \in 1 .. q : /\ u[k] = IF k = 1 THEN r ELSE w[k - 1]
                          /\ h[k] = IF k = 1 THEN x ELSE g[k - 1]
    OBVIOUS
  <2> HIDE DEF q, u, h
  <2>4. u[1] = r /\ u[q] = i
    BY <1>4, <2>1, <2>3
  <2>5. \A a, b \in 1 .. q : a # b => u[a] # u[b]
    <3>1. ASSUME NEW a \in 1 .. q, NEW b \in 1 .. q, a # b
          PROVE  u[a] # u[b]
      <4>1. CASE a = 1
        <5>1. b # 1 /\ b - 1 \in 1 .. m
          BY <2>1, <3>1, <4>1
        <5>2. QED
          BY <1>6, <2>3, <4>1, <5>1
      <4>2. CASE b = 1
        <5>1. a # 1 /\ a - 1 \in 1 .. m
          BY <2>1, <3>1, <4>2
        <5>2. QED
          BY <1>6, <2>3, <4>2, <5>1
      <4>3. CASE a # 1 /\ b # 1
        <5>1. a - 1 \in 1 .. m /\ b - 1 \in 1 .. m /\ a - 1 # b - 1
          BY <2>1, <3>1, <4>3
        <5>2. QED
          BY <1>4, <2>3, <4>3, <5>1
      <4>4. QED
        BY <4>1, <4>2, <4>3
    <3>2. QED
      BY <3>1
  <2>6. q \in Routers
    <3>1. q <= totRouterNum
      BY <2>1, <2>2, <2>5, WayLength
    <3>2. QED
      BY <1>0, <1>1, <1>3, <2>1, <3>1 DEF Routers
  <2>7. \A k \in 1 .. q : h[k] <= x
    <3>1. ASSUME NEW k \in 1 .. q
          PROVE  h[k] <= x
      <4>1. CASE k = 1
        BY <2>3, <4>1
      <4>2. CASE k # 1
        <5>1. g[k - 1] <= y /\ g[k - 1] \in Nat
          BY <1>4, <2>1, <4>2
        <5>2. QED
          BY <1>0, <1>1, <1>3, <2>3, <4>2, <5>1
      <4>3. QED
        BY <4>1, <4>2
    <3>2. QED
      BY <3>1
  <2>8. ASSUME NEW k \in 1 .. q - 1
        PROVE  cc[u[k]][u[k + 1]] + h[k + 1] <= h[k]
    <3>1. k \in 1 .. q /\ k + 1 \in 1 .. q /\ k + 1 # 1 /\ (k + 1) - 1 = k
          /\ k \in 1 .. m
      BY <1>0, <1>1, <1>3, <2>1 DEF q
    <3>2. u[k + 1] = w[k] /\ h[k + 1] = g[k]
      BY <2>3, <3>1
    <3>3. CASE k = 1
      <4>1. u[k] = r /\ h[k] = x /\ w[k] = n /\ g[k] <= y /\ g[k] \in Nat
        BY <1>4, <2>3, <3>1, <3>3
      <4>2. QED
        BY <1>0, <1>1, <1>3, <3>2, <4>1
    <3>4. CASE k # 1
      <4>1. /\ u[k] = w[k - 1] /\ h[k] = g[k - 1]
            /\ k - 1 \in 1 .. m - 1 /\ (k - 1) + 1 = k
        BY <2>3, <3>1, <3>4
      <4>2. cc[w[k - 1]][w[(k - 1) + 1]] + g[(k - 1) + 1] <= g[k - 1]
        BY <1>4, <4>1
      <4>3. QED
        BY <3>2, <4>1, <4>2
    <3>5. QED
      BY <3>3, <3>4
  <2>9. QED
    BY <2>2, <2>4, <2>5, <2>6, <2>7, <2>8 DEF Supported
<1>7. QED
  BY <1>5, <1>6

(* A set of numbers has a least one: the form induction takes below.       *)
LEMMA LeastNatural ==
    ASSUME NEW S \in SUBSET Nat, S # {}
    PROVE  \E n \in S : \A m \in S : n <= m
<1> DEFINE R == {ss \in Nat \X Nat : ss[1] < ss[2]}
<1>1. IsWellFoundedOn(R, Nat)
  BY NatLessThanWellFounded DEF OpToRel
<1> HIDE DEF R
<1>2. PICK n \in S : \A m \in S : <<m, n>> \notin R
  BY <1>1, WFMin
<1>3. ASSUME NEW m \in S PROVE n <= m
  <2>1. m \in Nat /\ n \in Nat
    OBVIOUS
  <2>2. ~ (m < n)
    BY <1>2, <2>1 DEF R
  <2>3. QED
    BY <2>1, <2>2
<1>4. QED
  BY <1>3

(* f adds up the numbers a from the second on.                             *)
SumsUp(f, a, n) ==
    \A k \in 1 .. n : f[k] = IF k = 1 THEN 0 ELSE f[k - 1] + a[k]

LEMMA SumsExist ==
    ASSUME NEW m \in Nat, NEW a, \A k \in 1 .. m : a[k] \in Nat
    PROVE  \E f \in [1 .. m -> Nat] : SumsUp(f, a, m)
<1> DEFINE S == {n \in Nat : /\ n <= m
                             /\ ~ \E f \in [1 .. n -> Nat] : SumsUp(f, a, n)}
<1>1. SUFFICES ASSUME S # {} PROVE FALSE
  OBVIOUS
<1>2. PICK n \in S : \A j \in S : n <= j
  <2>1. S \in SUBSET Nat
    OBVIOUS
  <2> HIDE DEF S
  <2>2. QED
    BY <1>1, <2>1, LeastNatural
<1>3. n \in Nat /\ n <= m /\ ~ \E f \in [1 .. n -> Nat] : SumsUp(f, a, n)
  OBVIOUS
<1>4. n # 0
  <2>1. ASSUME n = 0 PROVE FALSE
    <3>1. [k \in 1 .. 0 |-> 0] \in [1 .. 0 -> Nat]
      OBVIOUS
    <3>2. SumsUp([k \in 1 .. 0 |-> 0], a, 0)
      BY DEF SumsUp
    <3>3. QED
      BY <1>3, <2>1, <3>1, <3>2
  <2>2. QED
    BY <2>1
<1>5. n - 1 \in Nat /\ n - 1 <= m /\ n - 1 \notin S
  <2>1. n - 1 \in Nat /\ n - 1 <= m /\ ~ (n <= n - 1)
    BY <1>3, <1>4
  <2> HIDE DEF S
  <2>2. QED
    BY <1>2, <2>1
<1>6. PICK f : f \in [1 .. n - 1 -> Nat] /\ SumsUp(f, a, n - 1)
  BY <1>5
<1> DEFINE last == IF n = 1 THEN 0 ELSE f[n - 1] + a[n]
           h == [k \in 1 .. n |-> IF k = n THEN last ELSE f[k]]
<1>7. \A k \in 1 .. n - 1 : f[k] \in Nat
  BY <1>6
<1>8. last \in Nat
  <2>1. CASE n = 1
    BY <2>1
  <2>2. CASE n # 1
    <3>1. n - 1 \in 1 .. n - 1 /\ n \in 1 .. m
      BY <1>3, <1>4, <2>2
    <3>2. f[n - 1] \in Nat /\ a[n] \in Nat
      BY <1>7, <3>1
    <3>3. QED
      BY <2>2, <3>2
  <2>3. QED
    BY <2>1, <2>2
<1> HIDE DEF last
<1>9. h \in [1 .. n -> Nat]
  BY <1>3, <1>7, <1>8
<1>10. ASSUME NEW k \in 1 .. n
       PROVE  h[k] = IF k = 1 THEN 0 ELSE h[k - 1] + a[k]
  <2>1. CASE k = n
    <3>1. CASE n = 1
      BY <2>1, <3>1 DEF last
    <3>2. CASE n # 1
      <4>1. n - 1 \in 1 .. n /\ n - 1 # n
        BY <1>3, <1>4, <3>2
      <4>2. QED
        BY <2>1, <3>2, <4>1 DEF last
    <3>3. QED
      BY <3>1, <3>2
  <2>2. CASE k # n
    <3>1. k \in 1 .. n - 1 /\ h[k] = f[k]
      BY <1>3, <2>2
    <3>2. f[k] = IF k = 1 THEN 0 ELSE f[k - 1] + a[k]
      BY <1>6, <3>1 DEF SumsUp
    <3>3. k # 1 => k - 1 \in 1 .. n /\ k - 1 # n
      BY <1>3, <3>1
    <3>4. k # 1 => h[k - 1] = f[k - 1]
      BY <3>3
    <3> HIDE DEF h
    <3>5. QED
      BY <3>1, <3>2, <3>4
  <2>3. QED
    BY <2>1, <2>2
<1> HIDE DEF h
<1>11. SumsUp(h, a, n)
  BY <1>10 DEF SumsUp
<1>12. QED
  BY <1>3, <1>9, <1>11

(* Sums stay below what a descending sequence g has lost.                  *)
LEMMA SumsBound ==
    ASSUME NEW m \in Nat, m >= 1, NEW a, NEW f, NEW g, NEW x \in Nat,
           \A k \in 1 .. m : a[k] \in Nat /\ g[k] \in Nat,
           SumsUp(f, a, m), g[1] <= x,
           \A k \in 1 .. m - 1 : a[k + 1] + g[k + 1] <= g[k]
    PROVE  f[m] <= x
<1> DEFINE S == {n \in Nat : /\ n \in 1 .. m
                             /\ ~ (f[n] \in Nat /\ f[n] + g[n] <= x)}
<1>1. CASE S = {}
  <2>1. m \in 1 .. m /\ m \notin S
    BY <1>1
  <2>2. f[m] \in Nat /\ g[m] \in Nat /\ f[m] + g[m] <= x
    BY <2>1
  <2>3. QED
    BY <2>2
<1>2. CASE S # {}
  <2>1. PICK n \in S : \A j \in S : n <= j
    <3>1. S \in SUBSET Nat
      OBVIOUS
    <3> HIDE DEF S
    <3>2. QED
      BY <1>2, <3>1, LeastNatural
  <2>2. n \in 1 .. m /\ ~ (f[n] \in Nat /\ f[n] + g[n] <= x)
    OBVIOUS
  <2>3. n # 1
    <3>1. 1 \in 1 .. m /\ f[1] = 0 /\ g[1] \in Nat
      BY DEF SumsUp
    <3>2. QED
      BY <2>2, <3>1
  <2>4. n - 1 \in 1 .. m /\ n - 1 \in 1 .. m - 1 /\ n - 1 \notin S
        /\ (n - 1) + 1 = n
    BY <2>1, <2>2, <2>3
  <2>5. f[n - 1] \in Nat /\ f[n - 1] + g[n - 1] <= x
    BY <2>4
  <2>6. f[n] = f[n - 1] + a[n]
    BY <2>2, <2>3 DEF SumsUp
  <2>7. a[n] + g[n] <= g[n - 1]
    BY <2>4
  <2>8. {f[n], f[n - 1], g[n], g[n - 1], a[n]} \subseteq Nat
    BY <2>2, <2>4, <2>5, <2>6
  <2> HIDE DEF S
  <2>9. QED
    BY <2>2, <2>5, <2>6, <2>7, <2>8
<1>3. QED
  BY <1>1, <1>2

(* Sums stay above what a sequence g has lost that loses no more.          *)
LEMMA SumsAbove ==
    ASSUME NEW m \in Nat, m >= 1, NEW a, NEW f, NEW g,
           \A k \in 1 .. m : a[k] \in Nat /\ g[k] \in Nat,
           SumsUp(f, a, m), g[m] = 0,
           \A k \in 1 .. m - 1 : g[k] <= a[k + 1] + g[k + 1]
    PROVE  f[m] \in Nat /\ g[1] <= f[m]
<1> DEFINE S == {n \in Nat : /\ n \in 1 .. m
                             /\ ~ (f[n] \in Nat /\ g[1] <= f[n] + g[n])}
<1>1. CASE S = {}
  <2>1. m \in 1 .. m /\ m \notin S
    BY <1>1
  <2>2. f[m] \in Nat /\ g[1] <= f[m] + g[m]
    BY <2>1
  <2>3. QED
    BY <2>2
<1>2. CASE S # {}
  <2>1. PICK n \in S : \A j \in S : n <= j
    <3>1. S \in SUBSET Nat
      OBVIOUS
    <3> HIDE DEF S
    <3>2. QED
      BY <1>2, <3>1, LeastNatural
  <2>2. n \in 1 .. m /\ ~ (f[n] \in Nat /\ g[1] <= f[n] + g[n])
    OBVIOUS
  <2>3. n # 1
    <3>1. 1 \in 1 .. m /\ f[1] = 0 /\ g[1] \in Nat
      BY DEF SumsUp
    <3>2. QED
      BY <2>2, <3>1
  <2>4. n - 1 \in 1 .. m /\ n - 1 \in 1 .. m - 1 /\ n - 1 \notin S
        /\ (n - 1) + 1 = n
    BY <2>1, <2>2, <2>3
  <2>5. f[n - 1] \in Nat /\ g[1] <= f[n - 1] + g[n - 1]
    BY <2>4
  <2>6. f[n] = f[n - 1] + a[n]
    BY <2>2, <2>3 DEF SumsUp
  <2>7. g[n - 1] <= a[n] + g[n]
    BY <2>4
  <2>8. {f[n], f[n - 1], g[n], g[n - 1], a[n], g[1]} \subseteq Nat
    BY <2>2, <2>4, <2>5, <2>6
  <2> HIDE DEF S
  <2>9. QED
    BY <2>2, <2>5, <2>6, <2>7, <2>8
<1>3. QED
  BY <1>1, <1>2

(* What each router of a way adds to its cost.                             *)
Legs(w) == [k \in DOMAIN w |-> IF k = 1 THEN 0 ELSE dv[w[k - 1]].c[w[k]]]

(* The cost of a way is the sum of its legs.                               *)
LEMMA WayCostSums ==
    ASSUME TypeOK, NEW m \in Nat, 1 <= m, NEW w \in [1 .. m -> Routers]
    PROVE  /\ Len(w) = m /\ DOMAIN w = 1 .. m
           /\ \A k \in 1 .. m : Legs(w)[k] \in Nat
           /\ \E f : SumsUp(f, Legs(w), m) /\ WayCost(w) = f[m]
<1>1. Len(w) = m /\ DOMAIN w = 1 .. m
  <2>1. w \in Seq(Routers)
    BY SeqDef
  <2>2. DOMAIN w = 1 .. m /\ DOMAIN w = 1 .. Len(w) /\ Len(w) \in Nat
    BY <2>1
  <2>3. QED
    BY <2>2
<1>2. PICK a : a = Legs(w)
  OBVIOUS
<1>3. \A k \in 1 .. m : a[k] = IF k = 1 THEN 0 ELSE dv[w[k - 1]].c[w[k]]
  BY <1>1, <1>2 DEF Legs
<1>4. ASSUME NEW k \in 1 .. m PROVE a[k] \in Nat
  <2>1. CASE k = 1
    BY <1>3, <2>1
  <2>2. CASE k # 1
    <3>1. k - 1 \in 1 .. m
      BY <2>2
    <3>2. w[k - 1] \in Routers /\ w[k] \in Routers
      BY <3>1
    <3>3. \A n, x \in Routers : dv[n].c[x] \in Nat
      BY NetworkAssumption DEF TypeOK, DVState, Row
    <3>4. QED
      BY <1>3, <2>2, <3>2, <3>3
  <2>3. QED
    BY <2>1, <2>2
<1>5. PICK f : f \in [1 .. m -> Nat] /\ SumsUp(f, a, m)
  BY <1>4, SumsExist
<1> DEFINE Upto(u) == [k \in DOMAIN w |->
                          IF k = 1 THEN 0 ELSE u[k - 1] + dv[w[k - 1]].c[w[k]]]
           c == CHOOSE u : u = Upto(u)
<1>6. WayCost(w) = c[m]
  BY <1>1, Zenon DEF WayCost
<1>7. f = Upto(f)
  <2>1. \A k \in 1 .. m :
           f[k] = IF k = 1 THEN 0 ELSE f[k - 1] + dv[w[k - 1]].c[w[k]]
    BY <1>3, <1>5 DEF SumsUp
  <2>2. f = [k \in 1 .. m |-> f[k]]
    BY <1>5
  <2>3. QED
    BY <1>1, <2>1, <2>2
<1>8. c = Upto(c)
  <2> HIDE DEF Upto
  <2>1. QED
    BY <1>7
<1> HIDE DEF c
<1>9. ASSUME NEW k \in 1 .. m
      PROVE  c[k] = IF k = 1 THEN 0 ELSE c[k - 1] + a[k]
  <2>1. c[k] = Upto(c)[k]
    <3> HIDE DEF Upto
    <3>1. QED
      BY <1>8
  <2>2. c[k] = IF k = 1 THEN 0 ELSE c[k - 1] + dv[w[k - 1]].c[w[k]]
    BY <1>1, <2>1
  <2>3. QED
    BY <1>3, <2>2
<1>10. SumsUp(c, a, m)
  BY <1>9 DEF SumsUp
<1>11. QED
  BY <1>1, <1>2, <1>4, <1>6, <1>10

LEMMA WayCostNatural ==
    ASSUME TypeOK, NEW w \in Ways
    PROVE  WayCost(w) \in Nat
<1>1. PICK m \in Routers : w \in [1 .. m -> Routers]
  BY DEF Ways
<1>2. m \in Nat /\ 1 <= m
  BY <1>1, NetworkAssumption DEF Routers
<1>3. /\ \A k \in 1 .. m : Legs(w)[k] \in Nat
      /\ \E f : SumsUp(f, Legs(w), m) /\ WayCost(w) = f[m]
  BY <1>1, <1>2, WayCostSums
<1>4. PICK f : SumsUp(f, Legs(w), m) /\ WayCost(w) = f[m]
  BY <1>3
<1>5. PICK a, g : a = Legs(w) /\ g = [k \in 1 .. m |-> 0]
  OBVIOUS
<1>6. /\ \A k \in 1 .. m : a[k] \in Nat /\ g[k] \in Nat
      /\ SumsUp(f, a, m) /\ g[m] = 0
      /\ \A k \in 1 .. m - 1 : g[k] <= a[k + 1] + g[k + 1]
  <2>1. \A k \in 1 .. m : a[k] \in Nat /\ g[k] = 0
    BY <1>3, <1>5
  <2>2. \A k \in 1 .. m - 1 : k \in 1 .. m /\ k + 1 \in 1 .. m
    BY <1>2
  <2>3. QED
    BY <1>2, <1>4, <1>5, <2>1, <2>2
<1>7. f[m] \in Nat
  BY <1>2, <1>6, SumsAbove
<1>8. QED
  BY <1>4, <1>7

(* What is supported by the routers' links is at least what a way costs.   *)
LEMMA SupportedWay ==
    ASSUME TypeOK, NEW r \in Routers, NEW i \in Routers, NEW x \in Nat,
           Supported(Costs, r, i, x)
    PROVE  \E w \in Ways : w[1] = r /\ w[Len(w)] = i /\ WayCost(w) <= x
<1>1. PICK m \in Nat :
         /\ m \in Routers /\ 1 <= m
         /\ \E w \in [1 .. m -> Routers], g \in [1 .. m -> Nat] :
              /\ \A j, k \in 1 .. m : j # k => w[j] # w[k]
              /\ w[1] = r /\ w[m] = i
              /\ \A k \in 1 .. m : g[k] <= x
              /\ \A k \in 1 .. m - 1 :
                    Costs[w[k]][w[k + 1]] + g[k + 1] <= g[k]
  <2>1. \A m \in Routers : m \in Nat /\ 1 <= m
    BY NetworkAssumption DEF Routers
  <2>2. QED
    BY <2>1 DEF Supported
<1>2. m \in Nat /\ m \in Routers /\ 1 <= m
  BY <1>1
<1>3. PICK w, g :
         /\ w \in [1 .. m -> Routers]
         /\ \A k \in 1 .. m : w[k] \in Routers /\ g[k] \in Nat
         /\ \A j, k \in 1 .. m : j # k => w[j] # w[k]
         /\ w[1] = r /\ w[m] = i
         /\ \A k \in 1 .. m : g[k] <= x
         /\ \A k \in 1 .. m - 1 : Costs[w[k]][w[k + 1]] + g[k + 1] <= g[k]
  BY <1>1
<1>4. /\ Len(w) = m /\ DOMAIN w = 1 .. m
      /\ \A k \in 1 .. m : Legs(w)[k] \in Nat
      /\ \E f : SumsUp(f, Legs(w), m) /\ WayCost(w) = f[m]
  BY <1>2, <1>3, WayCostSums
<1>5. PICK f : SumsUp(f, Legs(w), m) /\ WayCost(w) = f[m]
  BY <1>4
<1>6. w \in Ways
  BY <1>2, <1>3, <1>4 DEF Ways
<1>7. PICK a : a = Legs(w)
  OBVIOUS
<1>8. \A k \in 1 .. m - 1 : a[k + 1] + g[k + 1] <= g[k]
  <2>1. ASSUME NEW k \in 1 .. m - 1
        PROVE  a[k + 1] + g[k + 1] <= g[k]
    <3>1. k \in 1 .. m /\ k + 1 \in 1 .. m /\ k + 1 # 1 /\ (k + 1) - 1 = k
      BY <1>2
    <3>2. a[k + 1] = dv[w[k]].c[w[k + 1]]
      BY <1>4, <1>7, <3>1 DEF Legs
    <3>3. w[k] \in Routers /\ w[k + 1] \in Routers
      BY <1>3, <3>1
    <3>4. a[k + 1] = Costs[w[k]][w[k + 1]]
      BY <3>2, <3>3 DEF Costs
    <3>5. QED
      BY <1>3, <3>4
  <2>2. QED
    BY <2>1
<1>9. /\ g[1] <= x /\ \A k \in 1 .. m : a[k] \in Nat /\ g[k] \in Nat
      /\ SumsUp(f, a, m)
  BY <1>2, <1>3, <1>4, <1>5, <1>7
<1>10. f[m] <= x
  BY <1>2, <1>8, <1>9, SumsBound
<1>11. QED
  BY <1>3, <1>4, <1>5, <1>6, <1>10

-----------------------------------------------------------------------------
(* Distances that ways support.                                            *)

CostTable == [Routers -> Row]

(* Every distance that v has or was told of is supported by links cc.      *)
Sound(cc, v) ==
    \A n, i \in Routers : v.d[n][i] < INF => Supported(cc, n, i, v.d[n][i])

SoundRow(cc, p) ==
    \A i \in Routers : p.row[i] < INF => Supported(cc, p.RID, i, p.row[i])

(* A way stays when links get shorter.                                     *)
LEMMA SupportedShorter ==
    ASSUME NEW cc \in CostTable, NEW dd \in CostTable,
           \A n, k \in Routers : dd[n][k] <= cc[n][k],
           NEW r \in Routers, NEW i \in Routers, NEW x \in Nat,
           Supported(cc, r, i, x)
    PROVE  Supported(dd, r, i, x)
<1>1. \A n, k \in Routers : cc[n][k] \in Nat /\ dd[n][k] \in Nat
  BY NetworkAssumption DEF CostTable, Row
<1>2. PICK m \in Routers :
         \E w \in [1 .. m -> Routers], g \in [1 .. m -> Nat] :
          /\ \A j, k \in 1 .. m : j # k => w[j] # w[k]
          /\ w[1] = r /\ w[m] = i
          /\ \A k \in 1 .. m : g[k] <= x
          /\ \A k \in 1 .. m - 1 : cc[w[k]][w[k + 1]] + g[k + 1] <= g[k]
  BY DEF Supported
<1>3. PICK w, g :
         /\ w \in [1 .. m -> Routers] /\ g \in [1 .. m -> Nat]
         /\ \A j, k \in 1 .. m : j # k => w[j] # w[k]
         /\ w[1] = r /\ w[m] = i
         /\ \A k \in 1 .. m : g[k] <= x
         /\ \A k \in 1 .. m - 1 : cc[w[k]][w[k + 1]] + g[k + 1] <= g[k]
  BY <1>2
<1>4. ASSUME NEW k \in 1 .. m - 1
      PROVE  dd[w[k]][w[k + 1]] + g[k + 1] <= g[k]
  <2>1. m \in Nat
    BY DEF Routers
  <2>2. k \in 1 .. m /\ k + 1 \in 1 .. m
    BY <2>1
  <2>3. /\ w[k] \in Routers /\ w[k + 1] \in Routers
        /\ g[k] \in Nat /\ g[k + 1] \in Nat
    BY <1>3, <2>2
  <2>4. /\ cc[w[k]][w[k + 1]] \in Nat /\ dd[w[k]][w[k + 1]] \in Nat
        /\ dd[w[k]][w[k + 1]] <= cc[w[k]][w[k + 1]]
    BY <1>1, <2>3
  <2>5. cc[w[k]][w[k + 1]] + g[k + 1] <= g[k]
    BY <1>3
  <2>6. QED
    BY <2>3, <2>4, <2>5
<1>5. QED
  BY <1>3, <1>4 DEF Supported

LEMMA SoundShorter ==
    ASSUME NEW cc \in CostTable, NEW dd \in CostTable,
           \A n, k \in Routers : dd[n][k] <= cc[n][k]
    PROVE  /\ \A v \in DVState : Sound(cc, v) => Sound(dd, v)
           /\ \A p \in Packet : SoundRow(cc, p) => SoundRow(dd, p)
<1>1. ASSUME NEW v \in DVState, Sound(cc, v), NEW n \in Routers, NEW i \in Routers,
             v.d[n][i] < INF
      PROVE  Supported(dd, n, i, v.d[n][i])
  <2>1. v.d[n][i] \in Nat
    BY NetworkAssumption DEF DVState, Row
  <2>2. Supported(cc, n, i, v.d[n][i])
    BY <1>1 DEF Sound
  <2>3. QED
    BY <2>1, <2>2, SupportedShorter
<1>2. ASSUME NEW p \in Packet, SoundRow(cc, p), NEW i \in Routers, p.row[i] < INF
      PROVE  Supported(dd, p.RID, i, p.row[i])
  <2>1. p.row[i] \in Nat /\ p.RID \in Routers
    BY NetworkAssumption DEF Packet, Row
  <2>2. Supported(cc, p.RID, i, p.row[i])
    BY <1>2 DEF SoundRow
  <2>3. QED
    BY <2>1, <2>2, SupportedShorter
<1>3. QED
  BY <1>1, <1>2 DEF Sound, SoundRow

(* Relaxed puts one link of its router before a supported distance.        *)
LEMMA RelaxedSound ==
    ASSUME NEW v \in DVState, NEW tgt \in Routers, tgt # v.m_routerID,
           NEW cc \in CostTable, cc[v.m_routerID] = v.c, Sound(cc, v)
    PROVE  Sound(cc, Relaxed(v, tgt))
<1> DEFINE w == Relaxed(v, tgt)
           r == v.m_routerID
<1>1. /\ w \in DVState
      /\ \A n \in Routers \ {r} : w.d[n] = v.d[n]
      /\ \A i \in Routers :
           \/ w.d[r][i] = v.d[r][i]
           \/ w.d[r][i] = v.c[i]
           \/ w.d[r][i] = v.c[tgt] + v.d[tgt][i]
  BY RelaxedFacts
<1> HIDE DEF w
<1>2. /\ INF \in Nat /\ r \in Routers
      /\ \A i \in Routers : v.c[i] \in Nat
      /\ \A n, i \in Routers : v.d[n][i] \in Nat /\ w.d[n][i] \in Nat
  BY <1>1, NetworkAssumption DEF DVState, Row
<1>3. cc \in [Routers -> [Routers -> Nat]]
  BY <1>2 DEF CostTable, Row
<1>4. ASSUME NEW i \in Routers, w.d[r][i] < INF
      PROVE  Supported(cc, r, i, w.d[r][i])
  <2>1. CASE w.d[r][i] = v.d[r][i]
    BY <1>2, <1>4, <2>1 DEF Sound
  <2>2. CASE w.d[r][i] = v.c[i]
    <3>1. PICK z \in Nat : z = 0 /\ Supported(cc, i, i, z)
      BY SupportedHere
    <3>2. cc[r][i] + z <= w.d[r][i] /\ w.d[r][i] \in Nat
      BY <1>2, <2>2, <3>1
    <3>3. r \in Routers /\ Supported(cc, i, i, z)
      BY <1>2, <3>1
    <3>4. PICK x \in Nat : x = w.d[r][i]
      BY <3>2
    <3>5. cc[r][i] + z <= x
      BY <3>2, <3>4
    <3>6. Supported(cc, r, i, x)
      BY <1>3, <3>3, <3>5, SupportedVia
    <3>7. QED
      BY <3>4, <3>6
  <2>3. CASE w.d[r][i] = v.c[tgt] + v.d[tgt][i]
    <3>1. v.d[tgt][i] \in Nat /\ v.d[tgt][i] < INF
      BY <1>2, <1>4, <2>3
    <3>2. Supported(cc, tgt, i, v.d[tgt][i])
      BY <3>1 DEF Sound
    <3>3. PICK x, z \in Nat : x = w.d[r][i] /\ z = v.d[tgt][i]
      BY <1>2, <2>3, <3>1
    <3>4. r \in Routers /\ cc[r][tgt] + z <= x /\ Supported(cc, tgt, i, z)
      BY <1>2, <2>3, <3>2, <3>3
    <3>5. Supported(cc, r, i, x)
      BY <1>3, <3>4, SupportedVia
    <3>6. QED
      BY <3>3, <3>5
  <2>4. QED
    BY <1>1, <2>1, <2>2, <2>3
<1>5. QED
  BY <1>1, <1>4 DEF Sound, w

(* After Reset a router knows of itself alone.                             *)
LEMMA ForgetfulSound ==
    ASSUME NEW v \in DVState, NEW w \in DVState, w.d = Reset(v).d, NEW cc
    PROVE  Sound(cc, w)
<1>1. v.m_routerID \in Routers /\ INF \in Nat
  BY NetworkAssumption DEF DVState
<1>2. \A n, i \in Routers :
         w.d[n][i] < INF => n = v.m_routerID /\ i = n /\ w.d[n][i] = 0
  <2>1. Reset(v).d = [[x \in Routers |-> Unreached]
                         EXCEPT ![v.m_routerID][v.m_routerID] = 0]
    BY DEF Reset, DVState
  <2>2. \A n, i \in Routers :
           w.d[n][i] = IF n = v.m_routerID /\ i = n THEN 0 ELSE INF
    BY <1>1, <2>1 DEF Unreached
  <2>3. QED
    BY <1>1, <2>2
<1>3. QED
  BY <1>1, <1>2, SupportedHere DEF Sound

-----------------------------------------------------------------------------
(* updateC and updateDV, one step after the other.                         *)

(* updateC leaves everything as it is, or sets the cost, forgetting        *)
(* everything before if it got longer, and relaxes.                        *)
LEMMA updateCSteps ==
    ASSUME lstChangeVersion \in Nat, NEW v \in DVState, NEW tgt \in Routers,
           NEW value \in Lens \cup {Down}
    PROVE  LET w == updateC(v, tgt, value)
           IN  \/ /\ v.c[tgt] = Cost(value) /\ w = v
                  /\ ~Lengthens(v, tgt, value)
               \/ \E s \in DVState :
                     /\ w = Relaxed(s, tgt) /\ s.m_routerID = v.m_routerID
                     /\ s.c = [v.c EXCEPT ![tgt] = Cost(value)]
                     /\ \/ /\ Cost(value) < v.c[tgt]
                           /\ ~Lengthens(v, tgt, value)
                           /\ s.m_version = v.m_version
                           /\ s.d = v.d /\ s.nextRouter = v.nextRouter
                        \/ /\ Cost(value) > v.c[tgt]
                           /\ Lengthens(v, tgt, value)
                           /\ s.m_version = lstChangeVersion + 1
                           /\ s.d = Reset(v).d
                           /\ s.nextRouter = Reset(v).nextRouter
<1> DEFINE x == Cost(value)
           c == [v.c EXCEPT ![tgt] = x]
<1>1. x \in 0 .. INF /\ INF \in Nat
  BY NetworkAssumption DEF Cost
<1>2. v.c[tgt] \in 0 .. INF /\ v.c \in Row /\ c \in Row
  BY <1>1 DEF DVState, Row
<1>3. CASE v.c[tgt] = x
  BY <1>1, <1>2, <1>3 DEF updateC, Lengthens
<1>4. CASE x < v.c[tgt]
  <2> DEFINE s == [v EXCEPT !.c[tgt] = x]
  <2>1. s = [m_routerID |-> v.m_routerID, m_version |-> v.m_version, c |-> c,
             d |-> v.d, nextRouter |-> v.nextRouter]
    BY DEF DVState
  <2>2. ~Lengthens(v, tgt, value) /\ updateC(v, tgt, value) = Relaxed(s, tgt)
    BY <1>1, <1>2, <1>4 DEF updateC, Lengthens
  <2> HIDE DEF s
  <2>3. s \in DVState
    BY <1>2, <2>1 DEF DVState
  <2>4. QED
    BY <1>4, <2>1, <2>2, <2>3
<1>5. CASE v.c[tgt] < x
  <2> DEFINE q == [Reset(v) EXCEPT !.m_version = lstChangeVersion + 1]
             s == [q EXCEPT !.c[tgt] = x]
  <2>1. /\ Reset(v) \in DVState
        /\ Reset(v).m_routerID = v.m_routerID /\ Reset(v).c = v.c
    BY ResetFacts
  <2>2. q = [m_routerID |-> v.m_routerID, m_version |-> lstChangeVersion + 1,
             c |-> v.c, d |-> Reset(v).d, nextRouter |-> Reset(v).nextRouter]
    BY <2>1 DEF DVState
  <2>3. Lengthens(v, tgt, value) /\ updateC(v, tgt, value) = Relaxed(s, tgt)
    BY <1>1, <1>2, <1>5 DEF updateC, Lengthens
  <2> HIDE DEF q
  <2>4. s = [m_routerID |-> v.m_routerID, m_version |-> lstChangeVersion + 1,
             c |-> c, d |-> Reset(v).d, nextRouter |-> Reset(v).nextRouter]
    BY <2>2
  <2> HIDE DEF s
  <2>5. s \in DVState
    BY <1>2, <2>1, <2>4 DEF DVState
  <2>6. QED
    BY <1>5, <2>3, <2>4, <2>5
<1>6. QED
  BY <1>1, <1>2, <1>3, <1>4, <1>5

(* updateDV ignores a stale row, or forgets what is older than the row,    *)
(* stores it and relaxes.                                                  *)
LEMMA updateDVSteps ==
    ASSUME NEW v \in DVState, NEW p \in Packet, p.RID # v.m_routerID
    PROVE  LET w == updateDV(v, p)
               u == Adopted(v, p.version)
           IN  \/ p.version < v.m_version /\ w = v /\ ~Changed(v, p)
               \/ /\ p.version >= v.m_version
                  /\ Changed(v, p) <=> w.d[v.m_routerID] # u.d[v.m_routerID]
                  /\ u \in DVState
                  /\ u.m_routerID = v.m_routerID /\ u.c = v.c
                  /\ u.m_version = p.version
                  /\ \/ p.version = v.m_version /\ u = v
                     \/ /\ p.version > v.m_version /\ u.d = Reset(v).d
                        /\ u.nextRouter = Reset(v).nextRouter
                  /\ \E s \in DVState :
                        /\ w = Relaxed(s, p.RID)
                        /\ s.m_routerID = u.m_routerID /\ s.c = u.c
                        /\ s.m_version = u.m_version
                        /\ s.nextRouter = u.nextRouter
                        /\ s.d[p.RID] = p.row
                        /\ \A n \in Routers \ {p.RID} : s.d[n] = u.d[n]
<1>1. /\ p.RID \in Routers /\ p.version \in Nat /\ p.row \in Row
      /\ v.m_version \in Nat
  BY DEF Packet, DVState
<1>2. CASE p.version < v.m_version
  BY <1>2 DEF updateDV, Stale, Changed
<1>3. CASE ~(p.version < v.m_version)
  <2> DEFINE u == Adopted(v, p.version)
             s == [u EXCEPT !.d[p.RID] = p.row]
  <2>1. /\ u \in DVState /\ u.m_routerID = v.m_routerID /\ u.c = v.c
        /\ u.m_version = p.version
        /\ \/ p.version = v.m_version /\ u = v
           \/ /\ p.version > v.m_version /\ u.d = Reset(v).d
              /\ u.nextRouter = Reset(v).nextRouter
    <3>1. CASE p.version = v.m_version
      BY <1>1, <3>1 DEF Adopted
    <3>2. CASE p.version > v.m_version
      <4>1. /\ Reset(v) \in DVState
            /\ Reset(v).m_routerID = v.m_routerID /\ Reset(v).c = v.c
        BY ResetFacts
      <4>2. u = [m_routerID |-> v.m_routerID, m_version |-> p.version,
                 c |-> v.c, d |-> Reset(v).d, nextRouter |-> Reset(v).nextRouter]
        BY <3>2, <4>1 DEF Adopted, DVState
      <4> HIDE DEF u
      <4>3. QED
        BY <1>1, <3>2, <4>1, <4>2 DEF DVState
    <3>3. QED
      BY <1>1, <1>3, <3>1, <3>2
  <2>2. updateDV(v, p) = Relaxed(s, p.RID)
    BY <1>3 DEF updateDV, Stale
  <2>3. Changed(v, p) <=> updateDV(v, p).d[v.m_routerID] # u.d[v.m_routerID]
    BY <1>3 DEF Changed, Stale
  <2> HIDE DEF u
  <2>4. s = [m_routerID |-> u.m_routerID, m_version |-> u.m_version, c |-> u.c,
             d |-> [u.d EXCEPT ![p.RID] = p.row], nextRouter |-> u.nextRouter]
    BY <2>1 DEF DVState
  <2> HIDE DEF s
  <2>5. /\ s \in DVState /\ s.d[p.RID] = p.row
        /\ \A n \in Routers \ {p.RID} : s.d[n] = u.d[n]
    BY <1>1, <2>1, <2>4 DEF DVState
  <2>6. p.version >= v.m_version
    BY <1>1, <1>3
  <2>7. \E z \in DVState :
           /\ updateDV(v, p) = Relaxed(z, p.RID)
           /\ z.m_routerID = u.m_routerID /\ z.c = u.c
           /\ z.m_version = u.m_version /\ z.nextRouter = u.nextRouter
           /\ z.d[p.RID] = p.row
           /\ \A n \in Routers \ {p.RID} : z.d[n] = u.d[n]
    BY <2>2, <2>4, <2>5
  <2>8. QED
    BY <2>1, <2>3, <2>6, <2>7 DEF u
<1>4. QED
  BY <1>2, <1>3

(* Router r turns from dv[r] to w: what updateC makes of links cc.         *)
LEMMA updateCSound ==
    ASSUME lstChangeVersion \in Nat, NEW v \in DVState,
           NEW tgt \in Routers, tgt # v.m_routerID,
           NEW value \in Lens \cup {Down}, NEW cc \in CostTable,
           cc[v.m_routerID] = updateC(v, tgt, value).c,
           ~Lengthens(v, tgt, value) => Sound(cc, v)
    PROVE  Sound(cc, updateC(v, tgt, value))
<1> DEFINE w == updateC(v, tgt, value)
<1>1. CASE w = v /\ ~Lengthens(v, tgt, value)
  BY <1>1
<1>2. ASSUME NEW s \in DVState, w = Relaxed(s, tgt), s.m_routerID = v.m_routerID,
             Sound(cc, s)
      PROVE  Sound(cc, w)
  <2>1. w.c = s.c
    BY <1>2, RelaxedFacts
  <2>2. QED
    BY <1>2, <2>1, RelaxedSound
<1>3. CASE \E s \in DVState :
             /\ w = Relaxed(s, tgt) /\ s.m_routerID = v.m_routerID
             /\ ~Lengthens(v, tgt, value) /\ s.d = v.d
  <2>1. PICK s \in DVState :
             /\ w = Relaxed(s, tgt) /\ s.m_routerID = v.m_routerID
             /\ ~Lengthens(v, tgt, value) /\ s.d = v.d
    BY <1>3
  <2>2. Sound(cc, s)
    BY <2>1 DEF Sound
  <2>3. QED
    BY <1>2, <2>1, <2>2
<1>4. CASE \E s \in DVState :
             /\ w = Relaxed(s, tgt) /\ s.m_routerID = v.m_routerID
             /\ s.d = Reset(v).d
  <2>1. PICK s \in DVState :
             /\ w = Relaxed(s, tgt) /\ s.m_routerID = v.m_routerID
             /\ s.d = Reset(v).d
    BY <1>4
  <2>2. Sound(cc, s)
    BY <2>1, ForgetfulSound
  <2>3. QED
    BY <1>2, <2>1, <2>2
<1>5. \/ w = v /\ ~Lengthens(v, tgt, value)
      \/ \E s \in DVState :
            /\ w = Relaxed(s, tgt) /\ s.m_routerID = v.m_routerID
            /\ \/ ~Lengthens(v, tgt, value) /\ s.d = v.d
               \/ s.d = Reset(v).d
  <2> HIDE DEF w
  <2>1. \/ w = v /\ ~Lengthens(v, tgt, value)
        \/ \E s \in DVState :
              /\ w = Relaxed(s, tgt) /\ s.m_routerID = v.m_routerID
              /\ s.c = [v.c EXCEPT ![tgt] = Cost(value)]
              /\ \/ /\ Cost(value) < v.c[tgt]
                    /\ ~Lengthens(v, tgt, value)
                    /\ s.m_version = v.m_version
                    /\ s.d = v.d /\ s.nextRouter = v.nextRouter
                 \/ /\ Cost(value) > v.c[tgt]
                    /\ Lengthens(v, tgt, value)
                    /\ s.m_version = lstChangeVersion + 1
                    /\ s.d = Reset(v).d
                    /\ s.nextRouter = Reset(v).nextRouter
    BY updateCSteps, Zenon DEF w
  <2>2. QED
    BY <2>1, Zenon
<1> HIDE DEF w
<1>6. QED
  BY <1>1, <1>3, <1>4, <1>5, Zenon DEF w

LEMMA updateDVSound ==
    ASSUME NEW v \in DVState, NEW p \in Packet, p.RID # v.m_routerID,
           NEW cc \in CostTable, cc[v.m_routerID] = v.c,
           updateDV(v, p).m_version = v.m_version => Sound(cc, v),
           updateDV(v, p).m_version = p.version => SoundRow(cc, p)
    PROVE  Sound(cc, updateDV(v, p)) /\ updateDV(v, p).c = v.c
<1> DEFINE w == updateDV(v, p)
           u == Adopted(v, p.version)
<1>1. CASE w = v
  BY <1>1
<1>2. ASSUME \/ p.version = v.m_version /\ u = v
             \/ u.d = Reset(v).d,
             u \in DVState, u.m_routerID = v.m_routerID, u.c = v.c,
             u.m_version = p.version,
             NEW s \in DVState, w = Relaxed(s, p.RID),
             s.m_routerID = u.m_routerID, s.c = u.c,
             s.m_version = u.m_version, s.d[p.RID] = p.row,
             \A n \in Routers \ {p.RID} : s.d[n] = u.d[n]
      PROVE  Sound(cc, w) /\ w.c = v.c
  <2>1. p.RID \in Routers
    BY DEF Packet
  <2>2. w.c = v.c /\ w.m_version = p.version
    BY <1>2, <2>1, RelaxedFacts
  <2>3. Sound(cc, u)
    <3>1. CASE p.version = v.m_version /\ u = v
      BY <2>2, <3>1
    <3>2. CASE u.d = Reset(v).d
      BY <1>2, <3>2, ForgetfulSound
    <3>3. QED
      BY <1>2, <3>1, <3>2
  <2>4. Sound(cc, s)
    BY <1>2, <2>1, <2>2, <2>3 DEF Sound, SoundRow
  <2>5. QED
    BY <1>2, <2>1, <2>2, <2>4, RelaxedSound
<1> HIDE DEF w, u
<1>3. \/ w = v
      \/ /\ \/ p.version = v.m_version /\ u = v
            \/ u.d = Reset(v).d
         /\ u \in DVState /\ u.m_routerID = v.m_routerID /\ u.c = v.c
         /\ u.m_version = p.version
         /\ \E s \in DVState :
               /\ w = Relaxed(s, p.RID)
               /\ s.m_routerID = u.m_routerID /\ s.c = u.c
               /\ s.m_version = u.m_version /\ s.d[p.RID] = p.row
               /\ \A n \in Routers \ {p.RID} : s.d[n] = u.d[n]
  BY updateDVSteps DEF w, u
<1>4. QED
  BY <1>1, <1>2, <1>3 DEF w

(* The invariant behind NoUnderestimate: whatever a router of the newest   *)
(* version holds, and whatever a row of that version says, the links of    *)
(* all routers support.                                                    *)
Newest ==
    /\ \A r \in Routers :
          dv[r].m_version = lstChangeVersion => Sound(Costs, dv[r])
    /\ \A e \in Directed : \A k \in DOMAIN wire[e] :
          wire[e][k].version = lstChangeVersion => SoundRow(Costs, wire[e][k])

(* One router turns to w, and what it sends of that is its own row.  Either *)
(* no version starts and its links got no longer, or it is the one router  *)
(* of the version that starts.                                             *)
LEMMA SoundAdvance ==
    ASSUME IInv, Newest, NEW r \in Routers, NEW w \in DVState,
           w.m_routerID = r, dv' = [dv EXCEPT ![r] = w],
           lstChangeVersion' \in Nat,
           \/ lstChangeVersion' > lstChangeVersion
           \/ /\ lstChangeVersion' = lstChangeVersion
              /\ \A i \in Routers : w.c[i] <= dv[r].c[i],
           w.m_version = lstChangeVersion' =>
              Sound([Costs EXCEPT ![r] = w.c], w),
           \A e \in Directed : \A k \in DOMAIN wire'[e] :
              \/ wire'[e][k] = dvInfo(w)
              \/ \E j \in DOMAIN wire[e] : wire'[e][k] = wire[e][j]
    PROVE  Newest'
<1> DEFINE cc == [Costs EXCEPT ![r] = w.c]
<1>1. /\ TypeOK /\ GoodWire(wire) /\ lstChangeVersion \in Nat
      /\ \A n \in Routers : /\ dv[n] \in DVState /\ dv[n].m_version \in Nat
                            /\ dv[n].m_version <= lstChangeVersion
  BY GoodFacts, IInvParts DEF TypeOK, DVState
<1>2. dv'[r] = w /\ \A n \in Routers \ {r} : dv'[n] = dv[n]
  BY <1>1 DEF TypeOK
<1>3. Costs' = cc
  <2>1. Costs' = [n \in Routers |-> dv'[n].c]
    BY DEF Costs
  <2>2. cc = [n \in Routers |-> IF n = r THEN w.c ELSE dv[n].c]
    BY DEF Costs
  <2>3. QED
    BY <1>2, <2>1, <2>2
<1>4. Costs \in CostTable /\ cc \in CostTable
  BY <1>1 DEF Costs, CostTable, DVState
<1>5. lstChangeVersion' = lstChangeVersion =>
         /\ \A v \in DVState : Sound(Costs, v) => Sound(cc, v)
         /\ \A p \in Packet : SoundRow(Costs, p) => SoundRow(cc, p)
  <2>1. \A n, k \in Routers : Costs[n][k] <= Costs[n][k]
    BY <1>4, NetworkAssumption DEF CostTable, Row
  <2>2. lstChangeVersion' = lstChangeVersion =>
           \A n, k \in Routers : cc[n][k] <= Costs[n][k]
    BY <1>1, <2>1 DEF Costs
  <2> HIDE DEF cc
  <2>3. QED
    BY <1>4, <2>2, SoundShorter
<1> HIDE DEF cc
<1>6. ASSUME NEW n \in Routers, dv'[n].m_version = lstChangeVersion'
      PROVE  Sound(cc, dv'[n])
  <2>1. CASE n = r
    BY <1>2, <1>6, <2>1 DEF cc
  <2>2. CASE n # r
    <3>1. dv'[n] = dv[n] /\ lstChangeVersion' = lstChangeVersion
      BY <1>1, <1>2, <1>6, <2>2
    <3>2. Sound(Costs, dv[n])
      BY <1>6, <3>1 DEF Newest
    <3>3. QED
      BY <1>1, <1>5, <3>1, <3>2
  <2>3. QED
    BY <2>1, <2>2
<1>7. ASSUME NEW e \in Directed, NEW k \in DOMAIN wire'[e],
             wire'[e][k].version = lstChangeVersion'
      PROVE  SoundRow(cc, wire'[e][k])
  <2>1. CASE wire'[e][k] = dvInfo(w)
    <3>1. Sound(cc, w)
      BY <1>7, <2>1 DEF dvInfo, cc
    <3>2. QED
      BY <2>1, <3>1 DEF Sound, SoundRow, dvInfo
  <2>2. CASE \E j \in DOMAIN wire[e] : wire'[e][k] = wire[e][j]
    <3>1. PICK j \in DOMAIN wire[e] : wire'[e][k] = wire[e][j]
      BY <2>2
    <3>2. wire[e] \in Seq(Packet)
      BY <1>1 DEF GoodWire
    <3>3. PICK p \in Packet : p = wire[e][j] /\ GoodRow(p)
      BY <1>1, <3>2 DEF GoodWire
    <3>4. p.version <= lstChangeVersion /\ p.version = lstChangeVersion'
      <4>1. /\ p.RID \in Routers /\ p.version \in Nat
            /\ p.version <= dv[p.RID].m_version
        BY <3>3 DEF GoodRow, Packet
      <4>2. QED
        BY <1>1, <1>7, <3>1, <3>3, <4>1
    <3>5. lstChangeVersion' = lstChangeVersion
      BY <1>1, <3>4
    <3>6. SoundRow(Costs, p)
      BY <3>3, <3>4, <3>5 DEF Newest
    <3>7. QED
      BY <1>5, <3>1, <3>3, <3>5, <3>6
  <2>3. QED
    BY <2>1, <2>2
<1>8. QED
  BY <1>3, <1>6, <1>7 DEF Newest, Sound, SoundRow

-----------------------------------------------------------------------------
(* The actions, in the terms of the lemmas.                                *)

(* What updateC makes of the links and the version.                        *)
LEMMA updateCEffect ==
    ASSUME lstChangeVersion \in Nat, NEW v \in DVState,
           NEW tgt \in Routers, tgt # v.m_routerID,
           NEW value \in Lens \cup {Down}
    PROVE  LET w == updateC(v, tgt, value)
           IN  /\ w \in DVState /\ w.m_routerID = v.m_routerID
               /\ w.c = [v.c EXCEPT ![tgt] = Cost(value)]
               /\ w.m_version = IF Lengthens(v, tgt, value)
                                THEN lstChangeVersion + 1 ELSE v.m_version
               /\ ~Lengthens(v, tgt, value) => \A i \in Routers : w.c[i] <= v.c[i]
<1> DEFINE w == updateC(v, tgt, value)
<1>1. \A i \in Routers : v.c[i] \in Nat
  BY NetworkAssumption DEF DVState, Row
<1>2. Cost(value) \in Nat
  BY NetworkAssumption DEF Cost
<1>3. ~Lengthens(v, tgt, value) => Cost(value) <= v.c[tgt]
  BY <1>1, <1>2 DEF Lengthens
<1>4. v.c \in Row
  BY DEF DVState
<1>5. CASE w = v /\ v.c[tgt] = Cost(value) /\ ~Lengthens(v, tgt, value)
  BY <1>1, <1>4, <1>5 DEF Row
<1>6. ASSUME NEW s \in DVState, w = Relaxed(s, tgt), s.m_routerID = v.m_routerID,
             s.c = [v.c EXCEPT ![tgt] = Cost(value)],
             s.m_version = IF Lengthens(v, tgt, value)
                           THEN lstChangeVersion + 1 ELSE v.m_version
      PROVE  /\ w \in DVState /\ w.m_routerID = v.m_routerID
             /\ w.c = [v.c EXCEPT ![tgt] = Cost(value)]
             /\ w.m_version = IF Lengthens(v, tgt, value)
                              THEN lstChangeVersion + 1 ELSE v.m_version
             /\ ~Lengthens(v, tgt, value) => \A i \in Routers : w.c[i] <= v.c[i]
  <2>1. /\ w \in DVState /\ w.m_routerID = s.m_routerID
        /\ w.m_version = s.m_version /\ w.c = s.c
    BY <1>6, RelaxedFacts
  <2>2. \A i \in Routers : s.c[i] = IF i = tgt THEN Cost(value) ELSE v.c[i]
    BY <1>4, <1>6 DEF Row
  <2>3. QED
    BY <1>1, <1>3, <1>6, <2>1, <2>2
<1>7. \/ w = v /\ v.c[tgt] = Cost(value) /\ ~Lengthens(v, tgt, value)
      \/ \E s \in DVState :
            /\ w = Relaxed(s, tgt) /\ s.m_routerID = v.m_routerID
            /\ s.c = [v.c EXCEPT ![tgt] = Cost(value)]
            /\ s.m_version = IF Lengthens(v, tgt, value)
                             THEN lstChangeVersion + 1 ELSE v.m_version
  <2> HIDE DEF w
  <2>1. \/ w = v /\ v.c[tgt] = Cost(value) /\ ~Lengthens(v, tgt, value)
        \/ \E s \in DVState :
              /\ w = Relaxed(s, tgt) /\ s.m_routerID = v.m_routerID
              /\ s.c = [v.c EXCEPT ![tgt] = Cost(value)]
              /\ \/ /\ Cost(value) < v.c[tgt]
                    /\ ~Lengthens(v, tgt, value)
                    /\ s.m_version = v.m_version
                    /\ s.d = v.d /\ s.nextRouter = v.nextRouter
                 \/ /\ Cost(value) > v.c[tgt]
                    /\ Lengthens(v, tgt, value)
                    /\ s.m_version = lstChangeVersion + 1
                    /\ s.d = Reset(v).d
                    /\ s.nextRouter = Reset(v).nextRouter
    BY updateCSteps, Zenon DEF w
  <2>2. QED
    BY <2>1
<1> HIDE DEF w
<1>8. QED
  BY <1>5, <1>6, <1>7, Zenon DEF w

LEMMA ReceiveFacts ==
    ASSUME IInv, NEW r \in Routers, NEW l \in Links, <<l, r>> \in Directed,
           ReceiveDV(r, l)
    PROVE  LET e == <<l, r>>
               p == Head(wire[e])
               v == updateC(dv[r], p.RID, m_portLen[e])
               w == updateDV(v, p)
               longer == Lengthens(dv[r], p.RID, m_portLen[e])
           IN  /\ wire[e] # <<>> /\ wire[e] \in Seq(Packet) /\ p = wire[e][1]
               /\ p \in Packet /\ p.RID \in Routers /\ p.RID # r
               /\ GoodRow(p) /\ p.version \in Nat /\ p.version <= lstChangeVersion
               /\ m_portLen[e] \in Lens \cup {Down} /\ lstChangeVersion \in Nat
               /\ lstChangeVersion' = Version(longer)
               /\ v \in DVState /\ v.m_routerID = r
               /\ v.c = [dv[r].c EXCEPT ![p.RID] = Cost(m_portLen[e])]
               /\ v.m_version = IF longer THEN lstChangeVersion + 1
                                ELSE dv[r].m_version
               /\ w \in DVState /\ w.m_routerID = r /\ w.c = v.c
               /\ dv' = [dv EXCEPT ![r] = w]
               /\ wire' = IF Changed(v, p) \/ v.c # dv[r].c
                          THEN Broadcast([wire EXCEPT ![e] = Tail(@)], w)
                          ELSE [wire EXCEPT ![e] = Tail(@)]
<1> DEFINE e == <<l, r>>
           p == Head(wire[e])
           v == updateC(dv[r], p.RID, m_portLen[e])
           w == updateDV(v, p)
           longer == Lengthens(dv[r], p.RID, m_portLen[e])
<1>1. /\ TypeOK /\ GoodWire(wire) /\ wire[e] # <<>>
      /\ \A n \in Routers : /\ dv[n] \in DVState /\ dv[n].m_routerID = n
                            /\ dv[n].m_version <= lstChangeVersion
  BY GoodFacts, IInvParts DEF ReceiveDV
<1>2. m_portLen[e] \in Lens \cup {Down} /\ lstChangeVersion \in Nat
  BY <1>1 DEF TypeOK
<1>3. /\ wire[e] \in Seq(Packet) /\ p = wire[e][1] /\ p \in Packet
      /\ p.RID # r /\ GoodRow(p)
  <2>1. wire[e] \in Seq(Packet) /\ 1 \in DOMAIN wire[e] /\ p = wire[e][1]
    BY <1>1 DEF GoodWire
  <2>2. QED
    BY <1>1, <2>1 DEF GoodWire
<1>4. p.RID \in Routers /\ p.version \in Nat /\ p.version <= lstChangeVersion
  <2>1. p.RID \in Routers /\ p.version \in Nat
    BY <1>3 DEF Packet
  <2>2. dv[p.RID].m_version \in Nat /\ dv[p.RID].m_version <= lstChangeVersion
    BY <1>1, <2>1 DEF DVState
  <2>3. QED
    BY <1>2, <1>3, <2>1, <2>2 DEF GoodRow
<1>5. /\ dv' = [dv EXCEPT ![r] = w] /\ lstChangeVersion' = Version(longer)
      /\ wire' = IF Changed(v, p) \/ v.c # dv[r].c
                 THEN Broadcast([wire EXCEPT ![e] = Tail(@)], w)
                 ELSE [wire EXCEPT ![e] = Tail(@)]
  BY DEF ReceiveDV
<1> HIDE DEF p
<1>6. /\ v \in DVState /\ v.m_routerID = r
      /\ v.c = [dv[r].c EXCEPT ![p.RID] = Cost(m_portLen[e])]
      /\ v.m_version = IF longer THEN lstChangeVersion + 1 ELSE dv[r].m_version
  <2>1. dv[r] \in DVState /\ dv[r].m_routerID = r /\ p.RID # dv[r].m_routerID
    BY <1>1, <1>3
  <2>2. QED
    BY <1>2, <1>4, <2>1, updateCEffect
<1> HIDE DEF v
<1>7. w \in DVState /\ w.m_routerID = r /\ w.c = v.c
  <2>1. CASE w = v
    BY <1>6, <2>1
  <2>2. CASE \E s \in DVState : /\ w = Relaxed(s, p.RID)
                                /\ s.m_routerID = r /\ s.c = v.c
    <3>1. PICK s \in DVState : /\ w = Relaxed(s, p.RID)
                               /\ s.m_routerID = r /\ s.c = v.c
      BY <2>2
    <3>2. QED
      BY <1>3, <1>4, <3>1, RelaxedFacts
  <2>3. QED
    BY <1>3, <1>6, <2>1, <2>2, updateDVSteps, SMTT(30)
<1> HIDE DEF w, longer
<1>8. QED
  BY <1>1, <1>2, <1>3, <1>4, <1>5, <1>6, <1>7 DEF p, v, w, longer

LEMMA NewestReceive ==
    ASSUME IInv, Newest, NEW r \in Routers, NEW l \in Links, <<l, r>> \in Directed,
           ReceiveDV(r, l)
    PROVE  Newest'
<1> DEFINE e == <<l, r>>
           p == Head(wire[e])
           v == updateC(dv[r], p.RID, m_portLen[e])
           w == updateDV(v, p)
           rest == [wire EXCEPT ![e] = Tail(@)]
           longer == Lengthens(dv[r], p.RID, m_portLen[e])
           cc == [Costs EXCEPT ![r] = w.c]
<1>1. /\ wire[e] # <<>> /\ wire[e] \in Seq(Packet) /\ p = wire[e][1]
      /\ p \in Packet /\ p.RID \in Routers /\ p.RID # r
      /\ p.version \in Nat /\ p.version <= lstChangeVersion
      /\ m_portLen[e] \in Lens \cup {Down} /\ lstChangeVersion \in Nat
      /\ lstChangeVersion' = Version(longer)
      /\ v \in DVState /\ v.m_routerID = r
      /\ v.c = [dv[r].c EXCEPT ![p.RID] = Cost(m_portLen[e])]
      /\ v.m_version = IF longer THEN lstChangeVersion + 1 ELSE dv[r].m_version
      /\ w \in DVState /\ w.m_routerID = r /\ w.c = v.c
      /\ dv' = [dv EXCEPT ![r] = w]
      /\ wire' = rest \/ wire' = Broadcast(rest, w)
  BY ReceiveFacts, ZenonT(60)
<1>2. /\ TypeOK /\ GoodWire(wire)
      /\ \A n \in Routers : /\ dv[n] \in DVState /\ dv[n].m_routerID = n
                            /\ dv[n].m_version \in Nat
                            /\ dv[n].m_version <= lstChangeVersion
  BY GoodFacts, IInvParts DEF DVState
<1>3. /\ rest \in [Directed -> Seq(Packet)]
      /\ \A x \in Directed : \A k \in DOMAIN rest[x] :
            \E j \in DOMAIN wire[x] : rest[x][k] = wire[x][j]
  <2>1. /\ e \in Directed /\ wire[e] # <<>>
        /\ wire \in [Directed -> Seq(Packet)]
    BY <1>1, <1>2 DEF GoodWire
  <2> HIDE DEF e
  <2>2. QED
    BY <2>1, TailFacts
<1> HIDE DEF rest, p, v, w
<1>4. ASSUME NEW x \in Directed, NEW k \in DOMAIN wire'[x]
      PROVE  \/ wire'[x][k] = dvInfo(w)
             \/ \E j \in DOMAIN wire[x] : wire'[x][k] = wire[x][j]
  <2>1. CASE wire' = rest
    BY <1>3, <2>1
  <2>2. CASE wire' = Broadcast(rest, w)
    <3>1. \A y \in Directed : \A j \in DOMAIN wire'[y] :
             \/ wire'[y][j] = dvInfo(w)
             \/ j \in DOMAIN rest[y] /\ wire'[y][j] = rest[y][j]
      BY <1>1, <1>3, <2>2, BroadcastFacts
    <3>2. QED
      BY <1>3, <3>1
  <2>3. QED
    BY <1>1, <2>1, <2>2
<1>5. CASE longer
  <2>1. lstChangeVersion' \in Nat /\ lstChangeVersion' > lstChangeVersion
    BY <1>1, <1>5 DEF Version
  <2>2. v.m_version = lstChangeVersion + 1
    BY <1>1, <1>5
  <2>3. w = v
    BY <1>1, <2>2, updateDVSteps DEF w
  <2>4. Costs \in CostTable
    BY <1>2 DEF Costs, CostTable, DVState
  <2>5. cc \in CostTable /\ cc[r] = v.c
    BY <1>1, <2>4 DEF CostTable, DVState
  <2> HIDE DEF cc
  <2>6. Sound(cc, updateC(dv[r], p.RID, m_portLen[e]))
    <3>1. dv[r] \in DVState /\ dv[r].m_routerID = r /\ p.RID # dv[r].m_routerID
      BY <1>1, <1>2
    <3>2. longer => (~Lengthens(dv[r], p.RID, m_portLen[e]) => Sound(cc, dv[r]))
      OBVIOUS
    <3>3. cc[r] = updateC(dv[r], p.RID, m_portLen[e]).c
      BY <2>5 DEF v
    <3> HIDE DEF longer
    <3>4. QED
      BY <1>1, <1>5, <2>5, <3>1, <3>2, <3>3, updateCSound
  <2>7. Sound([Costs EXCEPT ![r] = w.c], w)
    BY <2>3, <2>6 DEF cc, v
  <2>8. QED
    BY <1>1, <1>4, <2>1, <2>7, SoundAdvance
<1>6. CASE ~longer
  <2>1. lstChangeVersion' = lstChangeVersion
    BY <1>6, <1>1 DEF Version
  <2>2. v.m_version = dv[r].m_version
    BY <1>1, <1>6
  <2>3. \A i \in Routers : w.c[i] <= dv[r].c[i]
    <3>1. dv[r] \in DVState /\ p.RID # dv[r].m_routerID
      BY <1>1, <1>2
    <3>2. \A i \in Routers : v.c[i] <= dv[r].c[i]
      BY <1>1, <1>6, <3>1, updateCEffect DEF v
    <3>3. QED
      BY <1>1, <3>2
  <2>4. Costs \in CostTable
    BY <1>2 DEF Costs, CostTable, DVState
  <2>5. cc \in CostTable /\ cc[r] = w.c
    BY <1>1, <2>4 DEF CostTable, DVState
  <2>6. /\ \A u \in DVState : Sound(Costs, u) => Sound(cc, u)
        /\ \A q \in Packet : SoundRow(Costs, q) => SoundRow(cc, q)
    <3>1. \A n, k \in Routers : Costs[n][k] <= Costs[n][k]
      BY <2>4, NetworkAssumption DEF CostTable, Row
    <3>2. \A n, k \in Routers : cc[n][k] <= Costs[n][k]
      BY <1>2, <2>3, <3>1 DEF Costs
    <3> HIDE DEF cc
    <3>3. QED
      BY <2>4, <2>5, <3>2, SoundShorter
  <2> HIDE DEF cc
  <2>7. dv[r].m_version = lstChangeVersion => Sound(cc, v)
    <3>1. ASSUME dv[r].m_version = lstChangeVersion
          PROVE  Sound(cc, v)
      <4>1. Sound(cc, dv[r])
        BY <1>2, <2>6, <3>1 DEF Newest
      <4>2. dv[r] \in DVState /\ dv[r].m_routerID = r /\ p.RID # dv[r].m_routerID
        BY <1>1, <1>2
      <4>3. cc[r] = updateC(dv[r], p.RID, m_portLen[e]).c
        BY <1>1, <2>5 DEF v
      <4>4. Sound(cc, updateC(dv[r], p.RID, m_portLen[e]))
        BY <1>1, <2>5, <4>1, <4>2, <4>3, updateCSound
      <4>5. QED
        BY <4>4 DEF v
    <3>2. QED
      BY <3>1
  <2>8. p.version = lstChangeVersion => SoundRow(cc, p)
    <3>1. 1 \in DOMAIN wire[e]
      BY <1>1
    <3>2. p.version = lstChangeVersion => SoundRow(Costs, p)
      BY <1>1, <3>1 DEF Newest
    <3>3. QED
      BY <1>1, <2>6, <3>2
  <2>9. w.m_version = lstChangeVersion => Sound(cc, w)
    <3>1. ASSUME w.m_version = lstChangeVersion
          PROVE  Sound(cc, updateDV(v, p))
      <4>1. /\ updateDV(v, p).m_version = v.m_version => Sound(cc, v)
            /\ updateDV(v, p).m_version = p.version => SoundRow(cc, p)
        BY <2>2, <2>7, <2>8, <3>1 DEF w
      <4>2. cc[v.m_routerID] = v.c /\ p.RID # v.m_routerID
        BY <1>1, <2>5
      <4>3. QED
        BY <1>1, <2>5, <4>1, <4>2, updateDVSound
    <3>2. QED
      BY <3>1 DEF w
  <2>10. w.m_version = lstChangeVersion' => Sound([Costs EXCEPT ![r] = w.c], w)
    BY <2>1, <2>9 DEF cc
  <2>11. lstChangeVersion' \in Nat
    BY <1>1, <2>1
  <2>12. QED
    BY <1>1, <1>4, <2>1, <2>3, <2>10, <2>11, SoundAdvance
<1>7. QED
  BY <1>5, <1>6

LEMMA NewestPortChange ==
    ASSUME IInv, Newest, NEW r \in Routers, NEW l \in Links, <<l, r>> \in Directed,
           PortChange(r, l)
    PROVE  Newest'
<1> DEFINE e == <<l, r>>
           n == m_port2RouterID[e]
           w == updateC(dv[r], n, len[l])
           longer == Lengthens(dv[r], n, len[l])
           cc == [Costs EXCEPT ![r] = w.c]
<1>1. /\ TypeOK /\ wire' = wire
      /\ \A s \in Routers : /\ dv[s] \in DVState /\ dv[s].m_routerID = s
                            /\ dv[s].m_version \in Nat
                            /\ dv[s].m_version <= lstChangeVersion
      /\ lstChangeVersion \in Nat /\ len[l] \in Lens \cup {Down}
      /\ n \in Routers \cup {0} /\ n # r
  BY GoodFacts DEF PortChange, TypeOK, DVState, IInv
<1>2. CASE UNCHANGED <<dv, lstChangeVersion>>
  BY <1>1, <1>2 DEF Newest, Costs, Sound, SoundRow
<1>3. CASE /\ n # 0 /\ dv' = [dv EXCEPT ![r] = w]
           /\ lstChangeVersion' = Version(longer)
  <2>1. n \in Routers /\ dv[r] \in DVState /\ n # dv[r].m_routerID
    BY <1>1, <1>3
  <2>2. /\ w \in DVState /\ w.m_routerID = r
        /\ w.m_version = IF longer THEN lstChangeVersion + 1 ELSE dv[r].m_version
        /\ ~longer => \A i \in Routers : w.c[i] <= dv[r].c[i]
    <3>1. dv[r].m_routerID = r /\ lstChangeVersion \in Nat /\ len[l] \in Lens \cup {Down}
      BY <1>1
    <3> HIDE DEF n
    <3>2. /\ w \in DVState /\ w.m_routerID = dv[r].m_routerID
          /\ w.m_version = IF longer THEN lstChangeVersion + 1
                           ELSE dv[r].m_version
      BY <2>1, <3>1, updateCEffect, ZenonT(60)
    <3>3. ~longer => \A i \in Routers : w.c[i] <= dv[r].c[i]
      BY <2>1, <3>1, updateCEffect
    <3> HIDE DEF w, longer
    <3>4. QED
      BY <3>1, <3>2, <3>3
  <2>3. Costs \in CostTable
    BY <1>1 DEF Costs, CostTable, DVState
  <2>4. cc \in CostTable /\ cc[r] = updateC(dv[r], n, len[l]).c
    BY <2>2, <2>3 DEF CostTable, DVState
  <2>5. \A x \in Directed : \A k \in DOMAIN wire'[x] :
           \E j \in DOMAIN wire[x] : wire'[x][k] = wire[x][j]
    BY <1>1
  <2> HIDE DEF w, cc, n
  <2>6. w.m_version = lstChangeVersion' /\ ~longer => Sound(cc, dv[r])
    <3>1. ASSUME w.m_version = lstChangeVersion', ~longer
          PROVE  Sound(cc, dv[r])
      <4>1. dv[r].m_version = lstChangeVersion
        BY <1>3, <2>2, <3>1 DEF Version
      <4>2. Sound(Costs, dv[r])
        BY <4>1 DEF Newest
      <4>3. \A a, k \in Routers : Costs[a][k] <= Costs[a][k]
        BY <2>3, NetworkAssumption DEF CostTable, Row
      <4>4. \A a, k \in Routers : cc[a][k] <= Costs[a][k]
        BY <1>1, <2>2, <3>1, <4>3 DEF Costs, cc
      <4>5. QED
        BY <1>1, <2>3, <2>4, <4>2, <4>4, SoundShorter
    <3>2. QED
      BY <3>1
  <2>7. w.m_version = lstChangeVersion' => Sound(cc, updateC(dv[r], n, len[l]))
    <3>1. ASSUME w.m_version = lstChangeVersion'
          PROVE  Sound(cc, updateC(dv[r], n, len[l]))
      <4>1. ~Lengthens(dv[r], n, len[l]) => Sound(cc, dv[r])
        BY <2>6, <3>1
      <4>2. cc[dv[r].m_routerID] = updateC(dv[r], n, len[l]).c
        BY <1>1, <2>4
      <4> HIDE DEF longer
      <4>3. QED
        BY <1>1, <2>1, <2>4, <4>1, <4>2, updateCSound
    <3>2. QED
      BY <3>1
  <2>8. w.m_version = lstChangeVersion' => Sound([Costs EXCEPT ![r] = w.c], w)
    BY <2>7 DEF cc, w
  <2>9. /\ lstChangeVersion' \in Nat
        /\ \/ lstChangeVersion' > lstChangeVersion
           \/ /\ lstChangeVersion' = lstChangeVersion
              /\ \A i \in Routers : w.c[i] <= dv[r].c[i]
    BY <1>1, <1>3, <2>2 DEF Version
  <2>10. QED
    BY <1>3, <2>2, <2>5, <2>8, <2>9, SoundAdvance, ZenonT(60)
<1>4. QED
  BY <1>2, <1>3 DEF PortChange

LEMMA NewestTrigger ==
    ASSUME IInv, Newest, NEW r \in Routers, Trigger(r)
    PROVE  Newest'
<1>1. /\ TypeOK /\ GoodWire(wire) /\ dv[r] \in DVState /\ dv[r].m_routerID = r
  BY GoodFacts, IInvParts
<1>2. /\ wire' = Broadcast(wire, dv[r])
      /\ dv' = dv /\ lstChangeVersion' = lstChangeVersion
  BY DEF Trigger
<1>3. \A e \in Directed : \A k \in DOMAIN wire'[e] :
         \/ wire'[e][k] = dvInfo(dv[r])
         \/ k \in DOMAIN wire[e] /\ wire'[e][k] = wire[e][k]
  BY <1>1, <1>2, BroadcastFacts DEF GoodWire
<1>4. dv[r].m_version = lstChangeVersion => SoundRow(Costs, dvInfo(dv[r]))
  BY <1>1 DEF Newest, Sound, SoundRow, dvInfo
<1>5. \A e \in Directed : \A k \in DOMAIN wire'[e] :
         wire'[e][k].version = lstChangeVersion => SoundRow(Costs, wire'[e][k])
  <2>1. ASSUME NEW e \in Directed, NEW k \in DOMAIN wire'[e],
               wire'[e][k].version = lstChangeVersion
        PROVE  SoundRow(Costs, wire'[e][k])
    <3>1. CASE wire'[e][k] = dvInfo(dv[r])
      BY <1>4, <2>1, <3>1 DEF dvInfo
    <3>2. CASE k \in DOMAIN wire[e] /\ wire'[e][k] = wire[e][k]
      BY <2>1, <3>2 DEF Newest
    <3>3. QED
      BY <1>3, <3>1, <3>2
  <2>2. QED
    BY <2>1
<1>6. Costs' = Costs
  BY <1>2 DEF Costs
<1>7. QED
  BY <1>2, <1>5, <1>6 DEF Newest, Sound, SoundRow

LEMMA NewestLinkChange ==
    ASSUME IInv, Newest, NEW l \in Links, NEW x \in Lens \cup {Down},
           LinkChange(l, x)
    PROVE  Newest'
<1>1. dv' = dv /\ lstChangeVersion' = lstChangeVersion
  BY DEF LinkChange
<1>2. \A e \in Directed : wire'[e] = wire[e] \/ wire'[e] = <<>>
  BY DEF LinkChange
<1>3. Costs' = Costs
  BY <1>1 DEF Costs
<1>4. \A e \in Directed : \A k \in DOMAIN wire'[e] :
         k \in DOMAIN wire[e] /\ wire'[e][k] = wire[e][k]
  BY <1>2
<1>5. QED
  BY <1>1, <1>3, <1>4 DEF Newest, Sound, SoundRow

LEMMA NewestInit == Init => Newest
<1> SUFFICES ASSUME Init PROVE Newest
  OBVIOUS
<1>1. ASSUME NEW r \in Routers
      PROVE  dv[r] \in DVState /\ dv[r].d = Reset(dv[r]).d
  <2>1. dv[r] \in DVState /\ dv[r].m_routerID = r
    BY InitInv, GoodFacts
  <2>2. dv[r] = InitDV(r)
    BY DEF Init
  <2>3. dv[r].d = [[x \in Routers |-> Unreached] EXCEPT ![r][r] = 0]
    BY <2>2 DEF InitDV
  <2>4. Reset(dv[r]).d = [[x \in Routers |-> Unreached] EXCEPT ![r][r] = 0]
    BY <2>1 DEF Reset, DVState
  <2>5. QED
    BY <2>1, <2>3, <2>4
<1>2. \A r \in Routers : Sound(Costs, dv[r])
  BY <1>1, ForgetfulSound
<1>3. \A e \in Directed : wire[e] = <<>>
  BY DEF Init
<1>4. QED
  BY <1>2, <1>3 DEF Newest

LEMMA NewestStep == IInv /\ Newest /\ [Next]_vars => Newest'
<1> SUFFICES ASSUME IInv, Newest, [Next]_vars PROVE Newest'
  OBVIOUS
<1>1. ASSUME NEW e \in Directed, ReceiveDV(e[2], e[1])
      PROVE  Newest'
  BY <1>1, EndFacts, NewestReceive
<1>2. ASSUME NEW e \in Directed, PortChange(e[2], e[1])
      PROVE  Newest'
  BY <1>2, EndFacts, NewestPortChange
<1>3. ASSUME NEW r \in Routers, Trigger(r)
      PROVE  Newest'
  BY <1>3, NewestTrigger
<1>4. ASSUME NEW l \in Links, NEW x \in Lens \cup {Down}, LinkChange(l, x)
      PROVE  Newest'
  BY <1>4, NewestLinkChange
<1>5. CASE UNCHANGED vars
  BY <1>5 DEF Newest, Costs, Sound, SoundRow, vars, env, ports
<1>6. QED
  BY <1>1, <1>2, <1>3, <1>4, <1>5 DEF Next, Deliver

(* In every network, whatever its cables do, the links of all routers      *)
(* support everything that the routers of the newest version believe, and  *)
(* every row of that version on a cable (updateC, updateDV).               *)
THEOREM NewestSupported == Spec => []Newest
<1>1. QED
  BY InitInv, StepInv, NewestInit, NewestStep, PTL DEF Spec

(* In every network a router of the newest version never believes in a way *)
(* that is shorter than every way the routers' links now allow.            *)
THEOREM NothingUnderestimated == Spec => []NoUnderestimate
<1>1. ASSUME IInv, Newest
      PROVE  NoUnderestimate
  <2>1. ASSUME NEW r \in Routers, NEW i \in Routers,
               dv[r].m_version = lstChangeVersion, dist(r, i) < INF
        PROVE  \E w \in Ways : /\ w[1] = r /\ w[Len(w)] = i
                               /\ WayCost(w) <= dist(r, i)
    <3>1. TypeOK /\ dist(r, i) \in Nat
      BY <1>1, GoodFacts, OtherRows, NetworkAssumption
    <3>2. Supported(Costs, r, i, dist(r, i))
      BY <1>1, <2>1 DEF Newest, Sound, dist
    <3>3. QED
      BY <3>1, <3>2, SupportedWay
  <2>2. QED
    BY <2>1 DEF NoUnderestimate
<1>2. QED
  BY <1>1, Invariance, NewestSupported, PTL

-----------------------------------------------------------------------------
(* What a router makes of the rows it holds.                               *)

(* The own row is no longer than any link, nor than any link followed by   *)
(* the row of the router behind it.                                        *)
Tight(v) ==
    \A i \in Routers :
       /\ v.d[v.m_routerID][i] <= v.c[i]
       /\ \A m \in Routers \ {v.m_routerID} :
             v.d[v.m_routerID][i] <= v.c[m] + v.d[m][i]

(* A next hop is noted for what can be reached, and is no farther.         *)
NextKnown(v) ==
    \A i \in Routers \ {v.m_routerID} :
       LET n == v.nextRouter[i]
       IN  /\ v.d[v.m_routerID][i] < INF <=> n # 0
           /\ n # 0 => v.c[n] <= v.d[v.m_routerID][i]

(* Relaxing through tgt is enough if all the other ways were taken before. *)
LEMMA RelaxedTight ==
    ASSUME NEW v \in DVState, NEW tgt \in Routers, tgt # v.m_routerID,
           \A m \in Routers \ {v.m_routerID, tgt}, i \in Routers :
              v.d[v.m_routerID][i] <= v.c[m] + v.d[m][i]
    PROVE  Tight(Relaxed(v, tgt))
<1> DEFINE w == Relaxed(v, tgt)
           r == v.m_routerID
           own == v.d[r]
           Direct(i) == Smaller(own[i], v.c[i])
           Via(i) == v.c[tgt] + v.d[tgt][i]
           row == [i \in Routers |-> Smaller(Direct(i), Via(i))]
<1>1. /\ w \in DVState /\ w.m_routerID = r /\ w.c = v.c
      /\ \A n \in Routers \ {r} : w.d[n] = v.d[n]
      /\ \A i \in Routers : w.d[r][i] <= v.d[r][i]
  BY RelaxedFacts
<1>2. /\ r \in Routers /\ v.d \in [Routers -> Row] /\ INF \in Nat
      /\ \A n, i \in Routers : v.d[n][i] \in Nat /\ v.c[i] \in Nat
                               /\ w.d[n][i] \in Nat
  BY <1>1, NetworkAssumption DEF DVState, Row
<1>3. w.d[r] = row
  <2> DEFINE next == [i \in Routers |->
                         IF Via(i) < Direct(i) THEN tgt
                         ELSE IF v.c[i] < own[i] THEN i ELSE v.nextRouter[i]]
  <2>1. w = [v EXCEPT !.d[r] = row, !.nextRouter = next]
    BY DEF Relaxed
  <2> HIDE DEF row, next
  <2>2. w.d = [v.d EXCEPT ![r] = row]
    BY <2>1 DEF DVState
  <2>3. QED
    BY <1>2, <2>2
<1>4. \A i \in Routers : w.d[r][i] <= v.c[i] /\ w.d[r][i] <= v.c[tgt] + v.d[tgt][i]
  BY <1>2, <1>3 DEF Smaller
<1> HIDE DEF w, row, r
<1>5. ASSUME NEW i \in Routers, NEW m \in Routers \ {r}
      PROVE  w.d[r][i] <= w.c[m] + w.d[m][i]
  <2>1. CASE m = tgt
    BY <1>1, <1>4, <2>1
  <2>2. CASE m # tgt
    <3>1. v.d[r][i] <= v.c[m] + v.d[m][i]
      BY <2>2 DEF r
    <3>2. w.d[r][i] <= v.d[r][i] /\ w.c = v.c /\ w.d[m] = v.d[m]
      BY <1>1
    <3>3. /\ v.d[r][i] \in Nat /\ w.d[r][i] \in Nat
          /\ v.d[m][i] \in Nat /\ v.c[m] \in Nat
      BY <1>2
    <3>4. QED
      BY <3>1, <3>2, <3>3
  <2>3. QED
    BY <2>1, <2>2
<1>6. Tight(w)
  BY <1>1, <1>4, <1>5 DEF Tight
<1>7. QED
  BY <1>6 DEF w

LEMMA RelaxedNext ==
    ASSUME NEW v \in DVState, NEW tgt \in Routers, tgt # v.m_routerID, NextKnown(v)
    PROVE  NextKnown(Relaxed(v, tgt))
<1> DEFINE w == Relaxed(v, tgt)
           r == v.m_routerID
<1>1. /\ w \in DVState /\ w.m_routerID = r /\ w.c = v.c
      /\ \A i \in Routers :
           /\ w.d[r][i] <= v.d[r][i]
           /\ \/ w.nextRouter[i] = v.nextRouter[i] /\ w.d[r][i] = v.d[r][i]
              \/ /\ w.nextRouter[i] = i
                 /\ v.c[i] < v.d[r][i] /\ w.d[r][i] = v.c[i]
              \/ /\ w.nextRouter[i] = tgt
                 /\ v.c[tgt] + v.d[tgt][i] < v.d[r][i]
                 /\ w.d[r][i] = v.c[tgt] + v.d[tgt][i]
  BY RelaxedFacts
<1> HIDE DEF w
<1>0. 0 \notin Routers
  BY DEF Routers
<1>2. /\ INF \in Nat /\ r \in Routers /\ 0 \notin Routers
      /\ \A i \in Routers : v.c[i] \in 0 .. INF
      /\ \A n, i \in Routers : v.d[n][i] \in 0 .. INF
  BY <1>0, NetworkAssumption DEF DVState, Row
<1>3. ASSUME NEW i \in Routers \ {r}
      PROVE  /\ w.d[r][i] < INF <=> w.nextRouter[i] # 0
             /\ w.nextRouter[i] # 0 => w.c[w.nextRouter[i]] <= w.d[r][i]
  <2>1. CASE w.nextRouter[i] = v.nextRouter[i] /\ w.d[r][i] = v.d[r][i]
    BY <1>1, <2>1 DEF NextKnown
  <2>2. CASE /\ w.nextRouter[i] = i
             /\ v.c[i] < v.d[r][i] /\ w.d[r][i] = v.c[i]
    BY <1>1, <1>2, <2>2
  <2>3. CASE /\ w.nextRouter[i] = tgt
             /\ v.c[tgt] + v.d[tgt][i] < v.d[r][i]
             /\ w.d[r][i] = v.c[tgt] + v.d[tgt][i]
    <3>1. w.d[r][i] < INF /\ tgt # 0 /\ v.c[tgt] <= w.d[r][i]
      BY <1>2, <2>3
    <3>2. QED
      BY <1>1, <2>3, <3>1
  <2>4. QED
    BY <1>1, <2>1, <2>2, <2>3
<1>4. QED
  BY <1>1, <1>3 DEF NextKnown, w

(* A state after Reset holds no row but its own, and knows of itself alone. *)
LEMMA ForgetfulExact ==
    ASSUME NEW v \in DVState, NEW w \in DVState, w.m_routerID = v.m_routerID,
           w.d = Reset(v).d, w.nextRouter = Reset(v).nextRouter
    PROVE  /\ NextKnown(w)
           /\ \A i \in Routers \ {v.m_routerID} : w.d[v.m_routerID][i] = INF
           /\ \A m \in Routers \ {v.m_routerID} : w.d[m] = Unreached
<1>1. v.m_routerID \in Routers /\ INF \in Nat
  BY NetworkAssumption DEF DVState
<1>2. /\ Reset(v).d = [[x \in Routers |-> Unreached]
                          EXCEPT ![v.m_routerID][v.m_routerID] = 0]
      /\ Reset(v).nextRouter = [i \in Routers |-> 0]
  BY DEF Reset, DVState
<1>3. /\ \A i \in Routers \ {v.m_routerID} : w.d[v.m_routerID][i] = INF
      /\ \A m \in Routers \ {v.m_routerID} : w.d[m] = Unreached
  BY <1>1, <1>2 DEF Unreached
<1>4. QED
  BY <1>1, <1>2, <1>3 DEF NextKnown

LEMMA ForgetfulTight ==
    ASSUME NEW w \in DVState,
           \A m \in Routers \ {w.m_routerID} : w.d[m] = Unreached
    PROVE  \A m \in Routers \ {w.m_routerID}, i \in Routers :
              w.d[w.m_routerID][i] <= w.c[m] + w.d[m][i]
<1>1. /\ w.m_routerID \in Routers /\ INF \in Nat
      /\ \A n, i \in Routers : w.d[n][i] \in 0 .. INF /\ w.c[i] \in 0 .. INF
  BY NetworkAssumption DEF DVState, Row
<1>2. ASSUME NEW m \in Routers \ {w.m_routerID}, NEW i \in Routers
      PROVE  w.d[w.m_routerID][i] <= w.c[m] + w.d[m][i]
  <2>1. w.d[m][i] = INF
    BY <1>2 DEF Unreached
  <2>2. w.d[w.m_routerID][i] \in 0 .. INF /\ w.c[m] \in 0 .. INF
    BY <1>1
  <2>3. QED
    BY <1>1, <2>1, <2>2
<1>3. QED
  BY <1>2

Exact(v) == Tight(v) /\ NextKnown(v)

LEMMA updateCExact ==
    ASSUME lstChangeVersion \in Nat, NEW v \in DVState, Exact(v),
           NEW tgt \in Routers, tgt # v.m_routerID,
           NEW value \in Lens \cup {Down}
    PROVE  Exact(updateC(v, tgt, value))
<1> DEFINE w == updateC(v, tgt, value)
           r == v.m_routerID
<1>1. CASE w = v
  BY <1>1
<1>2. ASSUME NEW s \in DVState, w = Relaxed(s, tgt), s.m_routerID = r,
             s.c = [v.c EXCEPT ![tgt] = Cost(value)],
             Cost(value) < v.c[tgt], s.d = v.d, s.nextRouter = v.nextRouter
      PROVE  Exact(w)
  <2>1. /\ \A i \in Routers : /\ v.c[i] \in Nat /\ s.c[i] \in Nat
                              /\ s.c[i] <= v.c[i] /\ (i # tgt => s.c[i] = v.c[i])
        /\ \A n, i \in Routers : v.d[n][i] \in Nat
        /\ r \in Routers /\ v.nextRouter \in [Routers -> Routers \cup {0}]
    BY <1>2, NetworkAssumption DEF DVState, Row
  <2>2. \A m \in Routers \ {r, tgt}, i \in Routers :
           s.d[r][i] <= s.c[m] + s.d[m][i]
    BY <1>2, <2>1 DEF Exact, Tight
  <2>3. NextKnown(s)
    <3>1. ASSUME NEW i \in Routers \ {r}
          PROVE  /\ s.d[r][i] < INF <=> s.nextRouter[i] # 0
                 /\ s.nextRouter[i] # 0 => s.c[s.nextRouter[i]] <= s.d[r][i]
      <4>1. /\ v.d[r][i] < INF <=> v.nextRouter[i] # 0
            /\ v.nextRouter[i] # 0 => v.c[v.nextRouter[i]] <= v.d[r][i]
        BY DEF Exact, NextKnown
      <4>2. CASE v.nextRouter[i] = 0
        BY <1>2, <4>1, <4>2
      <4>3. CASE v.nextRouter[i] # 0
        <5>1. v.nextRouter[i] \in Routers
          BY <2>1, <4>3
        <5>2. QED
          BY <1>2, <2>1, <4>1, <4>3, <5>1
      <4>4. QED
        BY <4>2, <4>3
    <3>2. QED
      BY <1>2, <3>1 DEF NextKnown
  <2>4. QED
    BY <1>2, <2>2, <2>3, RelaxedTight, RelaxedNext DEF Exact
<1>3. ASSUME NEW s \in DVState, w = Relaxed(s, tgt), s.m_routerID = r,
             s.d = Reset(v).d, s.nextRouter = Reset(v).nextRouter
      PROVE  Exact(w)
  <2>1. NextKnown(s) /\ \A m \in Routers \ {r} : s.d[m] = Unreached
    BY <1>3, ForgetfulExact
  <2>2. \A m \in Routers \ {s.m_routerID}, i \in Routers :
           s.d[s.m_routerID][i] <= s.c[m] + s.d[m][i]
    BY <1>3, <2>1, ForgetfulTight
  <2>3. QED
    BY <1>3, <2>1, <2>2, RelaxedTight, RelaxedNext DEF Exact
<1>4. \/ w = v
      \/ \E s \in DVState :
            /\ w = Relaxed(s, tgt) /\ s.m_routerID = r
            /\ s.c = [v.c EXCEPT ![tgt] = Cost(value)]
            /\ \/ /\ Cost(value) < v.c[tgt]
                  /\ s.d = v.d /\ s.nextRouter = v.nextRouter
               \/ s.d = Reset(v).d /\ s.nextRouter = Reset(v).nextRouter
  <2> HIDE DEF w
  <2>1. \/ w = v /\ v.c[tgt] = Cost(value) /\ ~Lengthens(v, tgt, value)
        \/ \E s \in DVState :
              /\ w = Relaxed(s, tgt) /\ s.m_routerID = v.m_routerID
              /\ s.c = [v.c EXCEPT ![tgt] = Cost(value)]
              /\ \/ /\ Cost(value) < v.c[tgt]
                    /\ ~Lengthens(v, tgt, value)
                    /\ s.m_version = v.m_version
                    /\ s.d = v.d /\ s.nextRouter = v.nextRouter
                 \/ /\ Cost(value) > v.c[tgt]
                    /\ Lengthens(v, tgt, value)
                    /\ s.m_version = lstChangeVersion + 1
                    /\ s.d = Reset(v).d
                    /\ s.nextRouter = Reset(v).nextRouter
    BY updateCSteps, Zenon DEF w
  <2>2. QED
    BY <2>1, Zenon
<1> HIDE DEF w
<1>5. QED
  BY <1>1, <1>2, <1>3, <1>4, Zenon DEF w

LEMMA updateDVExact ==
    ASSUME NEW v \in DVState, Exact(v), NEW p \in Packet, p.RID # v.m_routerID
    PROVE  Exact(updateDV(v, p))
<1> DEFINE w == updateDV(v, p)
           u == Adopted(v, p.version)
           r == v.m_routerID
<1>1. CASE w = v
  BY <1>1
<1>2. ASSUME u \in DVState, u.m_routerID = r, u.c = v.c,
             \/ u = v
             \/ u.d = Reset(v).d /\ u.nextRouter = Reset(v).nextRouter,
             NEW s \in DVState, w = Relaxed(s, p.RID),
             s.m_routerID = u.m_routerID, s.c = u.c,
             s.nextRouter = u.nextRouter,
             \A n \in Routers \ {p.RID} : s.d[n] = u.d[n]
      PROVE  Exact(w)
  <2>1. p.RID \in Routers /\ r \in Routers /\ s.d[r] = u.d[r]
    BY <1>2 DEF Packet, DVState
  <2>2. NextKnown(u)
    BY <1>2, ForgetfulExact DEF Exact
  <2>3. NextKnown(s)
    BY <1>2, <2>1, <2>2 DEF NextKnown
  <2>4. \A m \in Routers \ {r}, i \in Routers : u.d[r][i] <= u.c[m] + u.d[m][i]
    <3>1. CASE u = v
      BY <3>1 DEF Exact, Tight
    <3>2. CASE u.d = Reset(v).d /\ u.nextRouter = Reset(v).nextRouter
      <4>1. \A m \in Routers \ {u.m_routerID} : u.d[m] = Unreached
        BY <1>2, <3>2, ForgetfulExact
      <4>2. QED
        BY <1>2, <4>1, ForgetfulTight
    <3>3. QED
      BY <1>2, <3>1, <3>2
  <2>5. \A m \in Routers \ {r, p.RID}, i \in Routers :
           s.d[r][i] <= s.c[m] + s.d[m][i]
    BY <1>2, <2>1, <2>4
  <2>6. QED
    BY <1>2, <2>1, <2>3, <2>5, RelaxedTight, RelaxedNext DEF Exact
<1> HIDE DEF w, u
<1>3. \/ w = v
      \/ /\ u \in DVState /\ u.m_routerID = r /\ u.c = v.c
         /\ \/ u = v
            \/ u.d = Reset(v).d /\ u.nextRouter = Reset(v).nextRouter
         /\ \E s \in DVState :
               /\ w = Relaxed(s, p.RID)
               /\ s.m_routerID = u.m_routerID /\ s.c = u.c
               /\ s.nextRouter = u.nextRouter
               /\ \A n \in Routers \ {p.RID} : s.d[n] = u.d[n]
  <2>1. \/ p.version < v.m_version /\ w = v /\ ~Changed(v, p)
        \/ /\ p.version >= v.m_version
           /\ Changed(v, p) <=> w.d[v.m_routerID] # u.d[v.m_routerID]
           /\ u \in DVState
           /\ u.m_routerID = v.m_routerID /\ u.c = v.c
           /\ u.m_version = p.version
           /\ \/ p.version = v.m_version /\ u = v
              \/ /\ p.version > v.m_version /\ u.d = Reset(v).d
                 /\ u.nextRouter = Reset(v).nextRouter
           /\ \E s \in DVState :
                 /\ w = Relaxed(s, p.RID)
                 /\ s.m_routerID = u.m_routerID /\ s.c = u.c
                 /\ s.m_version = u.m_version
                 /\ s.nextRouter = u.nextRouter
                 /\ s.d[p.RID] = p.row
                 /\ \A n \in Routers \ {p.RID} : s.d[n] = u.d[n]
    BY updateDVSteps, Zenon DEF w, u
  <2>2. ASSUME \E s \in DVState :
                 /\ w = Relaxed(s, p.RID)
                 /\ s.m_routerID = u.m_routerID /\ s.c = u.c
                 /\ s.m_version = u.m_version
                 /\ s.nextRouter = u.nextRouter
                 /\ s.d[p.RID] = p.row
                 /\ \A n \in Routers \ {p.RID} : s.d[n] = u.d[n]
        PROVE  \E s \in DVState :
                 /\ w = Relaxed(s, p.RID)
                 /\ s.m_routerID = u.m_routerID /\ s.c = u.c
                 /\ s.nextRouter = u.nextRouter
                 /\ \A n \in Routers \ {p.RID} : s.d[n] = u.d[n]
    BY <2>2, Zenon
  <2>3. QED
    BY <2>1, <2>2, Zenon
<1>4. QED
  BY <1>1, <1>2, <1>3 DEF w

-----------------------------------------------------------------------------
(* The network a router can keep in m_routerID2Port: one cable at most     *)
(* between two routers.                                                    *)
SimpleNetwork == \A k, l \in Links : Ends[k] = Ends[l] => k = l

(* Cable l joins n and m.                                                  *)
Joins(l, n, m) == n # m /\ Ends[l] = {n, m}

(* Router m has yet to be triggered, or to be told of a change that will   *)
(* have it triggered.                                                      *)
Pending(m) == m \in untriggered \/ \E k \in Links : <<k, m>> \in notices

(* What n has at the end <<l, n>> of a cable to m: nothing was heard yet,  *)
(* or m was and c is the length n was told.                                *)
PortRight(l, n, m) ==
    /\ \A k \in DOMAIN wire[<<l, n>>] : wire[<<l, n>>][k].RID = m
    /\ \/ m_port2RouterID[<<l, n>>] = 0 /\ dv[n].c[m] = INF
       \/ /\ m_port2RouterID[<<l, n>>] = m
          /\ dv[n].c[m] = Cost(m_portLen[<<l, n>>])
          /\ m_routerID2Port[n][m] = l

(* n knows who is at the other end of the cable, or is about to hear it.   *)
Announced(l, n, m) ==
    \/ Pending(m)
    \/ wire[<<l, n>>] # <<>>
    \/ m_port2RouterID[<<l, n>>] = m

(* n has the row of m, or is about to get it, unless n is of a newer       *)
(* version, or m knows of no link to n.                                    *)
Told(l, n, m) ==
    \/ Pending(m)
    \/ dv[m].c[n] = INF
    \/ /\ wire[<<l, n>>] # <<>>
       /\ wire[<<l, n>>][Len(wire[<<l, n>>])] = dvInfo(dv[m])
    \/ /\ wire[<<l, n>>] = <<>>
       /\ dv[n].m_version >= dv[m].m_version
       /\ dv[n].m_version = dv[m].m_version => dv[n].d[m] = dv[m].d[m]

(* The invariant behind Converged.                                         *)
Exchange ==
    /\ \A r \in Routers : Exact(dv[r])
    /\ \A e \in Directed : e \notin notices => m_portLen[e] = len[e[1]]
    /\ \A n, m \in Routers :
          n # m /\ (\A l \in Links : Ends[l] # {n, m}) => dv[n].c[m] = INF
    /\ \A l \in Links, n, m \in Routers : Joins(l, n, m) =>
          /\ PortRight(l, n, m)
          /\ len[l] # Down => Announced(l, n, m) /\ Told(l, n, m)

LEMMA JoinsFacts ==
    ASSUME NEW l \in Links, NEW n \in Routers, NEW m \in Routers, Joins(l, n, m)
    PROVE  <<l, n>> \in Directed /\ <<l, m>> \in Directed /\ Joins(l, m, n)
  BY DEF Joins, Directed

LEMMA OtherEnd ==
    ASSUME NEW l \in Links, NEW n \in Routers, <<l, n>> \in Directed
    PROVE  \E m \in Routers : Joins(l, n, m)
<1>1. n \in Ends[l]
  BY DEF Directed
<1>2. PICK r, s \in Routers : r # s /\ Ends[l] = {r, s}
  BY NetworkAssumption
<1>3. QED
  BY <1>1, <1>2 DEF Joins

(* What is put on a cable: the row of the router at the other end.         *)
LEMMA BroadcastAt ==
    ASSUME NEW W \in [Directed -> Seq(Packet)], NEW v,
           NEW l \in Links, NEW n \in Routers, NEW m \in Routers, Joins(l, n, m)
    PROVE  Broadcast(W, v)[<<l, n>>] =
              IF v.m_routerID = m /\ len[l] # Down
              THEN Append(W[<<l, n>>], dvInfo(v)) ELSE W[<<l, n>>]
<1>1. <<l, n>> \in Directed
  BY JoinsFacts
<1>2. v.m_routerID \in Ends[l] \ {n} <=> v.m_routerID = m
  BY DEF Joins
<1>3. QED
  BY <1>1, <1>2 DEF Broadcast

LEMMA AppendFacts ==
    ASSUME NEW s \in Seq(Packet), NEW p \in Packet
    PROVE  LET t == Append(s, p)
           IN  /\ t \in Seq(Packet) /\ t # <<>> /\ t[Len(t)] = p
               /\ \A k \in DOMAIN t : \/ t[k] = p
                                      \/ k \in DOMAIN s /\ t[k] = s[k]
<1> DEFINE t == Append(s, p)
<1>1. /\ t \in Seq(Packet) /\ Len(t) = Len(s) + 1 /\ t[Len(t)] = p
      /\ \A k \in 1 .. Len(s) : t[k] = s[k]
      /\ Len(s) \in Nat /\ DOMAIN s = 1 .. Len(s) /\ DOMAIN t = 1 .. Len(t)
  OBVIOUS
<1> HIDE DEF t
<1>2. t # <<>>
  BY <1>1
<1>3. \A k \in 1 .. Len(t) : k = Len(t) \/ k \in 1 .. Len(s)
  BY <1>1
<1>4. QED
  BY <1>1, <1>2, <1>3 DEF t

LEMMA TailLast ==
    ASSUME NEW s \in Seq(Packet), s # <<>>
    PROVE  LET t == Tail(s)
           IN  /\ t \in Seq(Packet)
               /\ t # <<>> => t[Len(t)] = s[Len(s)]
               /\ t = <<>> => Len(s) = 1
               /\ \A k \in DOMAIN t : k + 1 \in DOMAIN s /\ t[k] = s[k + 1]
<1> DEFINE t == Tail(s)
<1>1. /\ t \in Seq(Packet) /\ Len(t) = Len(s) - 1 /\ Len(s) \in Nat
      /\ DOMAIN s = 1 .. Len(s) /\ DOMAIN t = 1 .. Len(t)
      /\ \A k \in 1 .. Len(t) : t[k] = s[k + 1]
  OBVIOUS
<1> HIDE DEF t
<1>2. t = <<>> => Len(s) = 1
  BY <1>1
<1>3. t # <<>> => Len(t) \in 1 .. Len(t)
  <2>1. Len(t) = 0 => t = <<>>
    BY <1>1, EmptySeq
  <2>2. Len(t) \in Nat
    BY <1>1
  <2>3. QED
    BY <2>1, <2>2
<1>4. t # <<>> => t[Len(t)] = s[Len(s)]
  BY <1>1, <1>3
<1>5. \A k \in 1 .. Len(t) : k + 1 \in 1 .. Len(s)
  BY <1>1
<1>6. QED
  BY <1>1, <1>2, <1>4, <1>5 DEF t

-----------------------------------------------------------------------------
LEMMA ExchangeInit == Init => Exchange
<1> SUFFICES ASSUME Init PROVE Exchange
  OBVIOUS
<1>1. \A r \in Routers : dv[r] = InitDV(r) /\ dv[r] \in DVState
  BY InitInv, GoodFacts DEF Init
<1>2. ASSUME NEW r \in Routers
      PROVE  /\ \A i \in Routers : dv[r].c[i] = IF i = r THEN 0 ELSE INF
             /\ \A n, i \in Routers :
                  dv[r].d[n][i] = IF n = r /\ i = r THEN 0 ELSE INF
             /\ \A i \in Routers : dv[r].nextRouter[i] = 0
             /\ dv[r].m_routerID = r
  <2> DEFINE d0 == [x \in Routers |-> Unreached]
             d1 == [d0 EXCEPT ![r][r] = 0]
             c1 == [Unreached EXCEPT ![r] = 0]
  <2>1. \A i \in Routers : c1[i] = IF i = r THEN 0 ELSE INF
    BY DEF Unreached
  <2>2. \A n, i \in Routers : d1[n][i] = IF n = r /\ i = r THEN 0 ELSE INF
    BY DEF Unreached
  <2>3. dv[r] = [m_routerID |-> r, m_version |-> 0, c |-> c1, d |-> d1,
                 nextRouter |-> [i \in Routers |-> 0]]
    BY <1>1 DEF InitDV
  <2> HIDE DEF d1, c1
  <2>4. QED
    BY <2>1, <2>2, <2>3
<1>3. INF \in Nat
  BY NetworkAssumption
<1>4. \A r \in Routers : Exact(dv[r])
  BY <1>2, <1>3 DEF Exact, Tight, NextKnown
<1>5. \A e \in Directed : m_portLen[e] = len[e[1]]
  BY DEF Init
<1>6. \A n, m \in Routers : n # m => dv[n].c[m] = INF
  BY <1>2
<1>7. ASSUME NEW l \in Links, NEW n \in Routers, NEW m \in Routers,
             Joins(l, n, m)
      PROVE  PortRight(l, n, m) /\ Announced(l, n, m) /\ Told(l, n, m)
  <2>1. <<l, n>> \in Directed /\ n # m
    BY <1>7, JoinsFacts DEF Joins
  <2>2. wire[<<l, n>>] = <<>> /\ m_port2RouterID[<<l, n>>] = 0 /\ Pending(m)
    BY <2>1 DEF Init, Pending
  <2>3. QED
    BY <1>6, <2>1, <2>2 DEF PortRight, Announced, Told
<1>8. QED
  BY <1>4, <1>5, <1>6, <1>7 DEF Exchange

LEMMA ExchangeTrigger ==
    ASSUME IInv, Exchange, NEW r \in Routers, Trigger(r)
    PROVE  Exchange'
<1>1. /\ TypeOK /\ wire \in [Directed -> Seq(Packet)]
      /\ dv[r] \in DVState /\ dv[r].m_routerID = r /\ dvInfo(dv[r]) \in Packet
  <2>1. TypeOK /\ GoodWire(wire) /\ dv[r] \in DVState /\ dv[r].m_routerID = r
    BY GoodFacts, IInvParts
  <2>2. QED
    BY <2>1 DEF dvInfo, Packet, DVState, GoodWire
<1>2. /\ wire' = Broadcast(wire, dv[r]) /\ untriggered' = untriggered \ {r}
      /\ UNCHANGED <<len, notices, dv, m_portLen, m_port2RouterID, m_routerID2Port>>
  BY DEF Trigger, env, ports
<1>3. ASSUME NEW l \in Links, NEW n \in Routers, NEW m \in Routers,
             Joins(l, n, m)
      PROVE  /\ PortRight(l, n, m)'
             /\ len'[l] # Down => Announced(l, n, m)' /\ Told(l, n, m)'
  <2> DEFINE e == <<l, n>>
  <2>1. /\ PortRight(l, n, m) /\ wire[e] \in Seq(Packet)
        /\ len[l] # Down => Announced(l, n, m) /\ Told(l, n, m)
    BY <1>1, <1>3, JoinsFacts DEF Exchange
  <2>2. wire'[e] = IF r = m /\ len[l] # Down
                   THEN Append(wire[e], dvInfo(dv[r])) ELSE wire[e]
    BY <1>1, <1>2, <1>3, BroadcastAt
  <2>3. CASE r = m /\ len[l] # Down
    <3>1. /\ wire'[e] # <<>> /\ wire'[e][Len(wire'[e])] = dvInfo(dv[r])
          /\ \A k \in DOMAIN wire'[e] :
                \/ wire'[e][k] = dvInfo(dv[r])
                \/ k \in DOMAIN wire[e] /\ wire'[e][k] = wire[e][k]
      BY <1>1, <2>1, <2>2, <2>3, AppendFacts, SMTT(30)
    <3>2. dvInfo(dv[r]).RID = m
      BY <1>1, <2>3 DEF dvInfo
    <3>3. \A k \in DOMAIN wire'[e] : wire'[e][k].RID = m
      BY <2>1, <3>1, <3>2 DEF PortRight
    <3>4. dvInfo(dv[r]) = dvInfo(dv'[m])
      BY <1>2, <2>3
    <3>5. QED
      BY <1>2, <2>1, <3>1, <3>3, <3>4 DEF PortRight, Announced, Told, dvInfo
  <2>4. CASE ~(r = m /\ len[l] # Down)
    <3>1. wire'[e] = wire[e]
      BY <2>2, <2>4
    <3>2. len[l] # Down => (Pending(m) => Pending(m)')
      BY <1>2, <2>4 DEF Pending
    <3>3. PortRight(l, n, m)'
      BY <1>2, <2>1, <3>1 DEF PortRight
    <3>4. len[l] # Down => Announced(l, n, m)'
      BY <1>2, <2>1, <3>1, <3>2 DEF Announced
    <3>5. len[l] # Down => Told(l, n, m)'
      BY <1>2, <2>1, <3>1, <3>2 DEF Told, dvInfo
    <3>6. QED
      BY <1>2, <3>3, <3>4, <3>5
  <2>5. QED
    BY <2>3, <2>4
<1>4. /\ \A s \in Routers : Exact(dv[s])'
      /\ \A e \in Directed : e \notin notices' => m_portLen'[e] = len'[e[1]]
      /\ \A n, m \in Routers :
            n # m /\ (\A l \in Links : Ends[l] # {n, m}) => dv'[n].c[m] = INF
  BY <1>2 DEF Exchange, Exact, Tight, NextKnown
<1>5. QED
  BY <1>3, <1>4 DEF Exchange, Joins

LEMMA ExchangeLinkChange ==
    ASSUME IInv, Exchange, NEW l \in Links, NEW x \in Lens \cup {Down},
           LinkChange(l, x)
    PROVE  Exchange'
<1>1. TypeOK /\ wire \in [Directed -> Seq(Packet)]
  BY GoodFacts, IInvParts DEF GoodWire
<1>2. /\ len' = [len EXCEPT ![l] = x]
      /\ notices' = notices \cup {<<l, s>> : s \in Ends[l]}
      /\ UNCHANGED <<untriggered, dv, m_portLen, m_port2RouterID, m_routerID2Port>>
      /\ \/ wire' = wire
         \/ wire' = [e \in Directed |-> IF e[1] = l THEN <<>> ELSE wire[e]]
  BY DEF LinkChange, ports
<1>3. len \in [Links -> Lens \cup {Down}]
  BY <1>1 DEF TypeOK
<1>4. ASSUME NEW k \in Links, NEW n \in Routers, NEW m \in Routers,
             Joins(k, n, m)
      PROVE  /\ PortRight(k, n, m)'
             /\ len'[k] # Down => Announced(k, n, m)' /\ Told(k, n, m)'
  <2> DEFINE e == <<k, n>>
  <2>1. /\ PortRight(k, n, m) /\ e \in Directed
        /\ len[k] # Down => Announced(k, n, m) /\ Told(k, n, m)
    BY <1>4, JoinsFacts DEF Exchange
  <2>2. \/ wire'[e] = wire[e]
        \/ k = l /\ wire'[e] = <<>>
    BY <1>2, <2>1
  <2>3. PortRight(k, n, m)'
    BY <1>2, <2>1, <2>2 DEF PortRight
  <2>4. Pending(m) => Pending(m)'
    BY <1>2 DEF Pending
  <2>5. CASE k = l
    <3>1. <<l, m>> \in notices'
      BY <1>2, <1>4, <2>5 DEF Joins
    <3>2. Pending(m)'
      BY <3>1 DEF Pending
    <3>3. QED
      BY <2>3, <3>2 DEF Announced, Told
  <2>6. CASE k # l
    <3>1. len'[k] = len[k] /\ wire'[e] = wire[e]
      BY <1>2, <1>3, <2>2, <2>6
    <3>2. len[k] # Down => Announced(k, n, m)'
      BY <1>2, <2>1, <2>4, <3>1 DEF Announced
    <3>3. len[k] # Down => Told(k, n, m)'
      BY <1>2, <2>1, <2>4, <3>1 DEF Told, dvInfo
    <3>4. QED
      BY <2>3, <3>1, <3>2, <3>3
  <2>7. QED
    BY <2>5, <2>6
<1>5. ASSUME NEW e \in Directed, e \notin notices'
      PROVE  m_portLen'[e] = len'[e[1]]
  <2>1. e = <<e[1], e[2]>> /\ e[1] \in Links /\ e[2] \in Ends[e[1]]
    BY EndFacts
  <2>2. e \notin notices /\ e[1] # l
    BY <1>2, <1>5, <2>1
  <2>3. QED
    BY <1>2, <1>3, <2>1, <2>2 DEF Exchange
<1>6. /\ \A s \in Routers : Exact(dv[s])'
      /\ \A n, m \in Routers :
            n # m /\ (\A k \in Links : Ends[k] # {n, m}) => dv'[n].c[m] = INF
  BY <1>2 DEF Exchange, Exact, Tight, NextKnown
<1>7. QED
  BY <1>4, <1>5, <1>6 DEF Exchange, Joins

(* updateC keeps the rows of the others as long as no version starts.      *)
LEMMA updateCKeeps ==
    ASSUME lstChangeVersion \in Nat, NEW v \in DVState,
           v.m_version <= lstChangeVersion,
           NEW tgt \in Routers, tgt # v.m_routerID,
           NEW value \in Lens \cup {Down}
    PROVE  LET w == updateC(v, tgt, value)
           IN  /\ w.m_version >= v.m_version
               /\ w.m_version = v.m_version =>
                     \A m \in Routers \ {v.m_routerID} : w.d[m] = v.d[m]
               /\ w.c = v.c => w = v
<1> DEFINE w == updateC(v, tgt, value)
<1>1. /\ v.m_version \in Nat /\ \A i \in Routers : v.c[i] \in Nat
      /\ v.c \in [Routers -> 0 .. INF]
  BY NetworkAssumption DEF DVState, Row
<1>2. CASE w = v
  BY <1>1, <1>2
<1>3. ASSUME NEW s \in DVState, w = Relaxed(s, tgt), s.m_routerID = v.m_routerID,
             s.c = [v.c EXCEPT ![tgt] = Cost(value)],
             Cost(value) # v.c[tgt],
             \/ s.m_version = v.m_version /\ s.d = v.d
             \/ s.m_version = lstChangeVersion + 1
      PROVE  /\ w.m_version >= v.m_version
             /\ w.m_version = v.m_version =>
                   \A m \in Routers \ {v.m_routerID} : w.d[m] = v.d[m]
             /\ w.c = v.c => w = v
  <2>1. /\ w.m_version = s.m_version /\ w.c = s.c
        /\ \A n \in Routers \ {s.m_routerID} : w.d[n] = s.d[n]
    BY <1>3, RelaxedFacts
  <2>2. s.c[tgt] # v.c[tgt]
    BY <1>1, <1>3
  <2>3. w.c # v.c
    BY <2>1, <2>2
  <2> HIDE DEF w
  <2>4. CASE s.m_version = v.m_version /\ s.d = v.d
    BY <1>1, <1>3, <2>1, <2>3, <2>4
  <2>5. CASE s.m_version = lstChangeVersion + 1
    <3>1. w.m_version > v.m_version
      BY <1>1, <2>1, <2>5
    <3>2. w.m_version \in Nat
      BY <1>1, <2>1, <2>5
    <3>3. w.m_version >= v.m_version /\ w.m_version # v.m_version
      BY <1>1, <3>1, <3>2
    <3>4. QED
      BY <2>3, <3>3
  <2>6. QED
    BY <1>3, <2>4, <2>5
<1>4. \/ w = v
      \/ \E s \in DVState :
            /\ w = Relaxed(s, tgt) /\ s.m_routerID = v.m_routerID
            /\ s.c = [v.c EXCEPT ![tgt] = Cost(value)]
            /\ Cost(value) # v.c[tgt]
            /\ \/ s.m_version = v.m_version /\ s.d = v.d
               \/ s.m_version = lstChangeVersion + 1
  <2> HIDE DEF w
  <2>0. Cost(value) \in Nat /\ v.c[tgt] \in Nat
    BY <1>1, NetworkAssumption DEF Cost
  <2>1. \/ w = v /\ v.c[tgt] = Cost(value) /\ ~Lengthens(v, tgt, value)
        \/ \E s \in DVState :
              /\ w = Relaxed(s, tgt) /\ s.m_routerID = v.m_routerID
              /\ s.c = [v.c EXCEPT ![tgt] = Cost(value)]
              /\ \/ /\ Cost(value) < v.c[tgt]
                    /\ ~Lengthens(v, tgt, value)
                    /\ s.m_version = v.m_version
                    /\ s.d = v.d /\ s.nextRouter = v.nextRouter
                 \/ /\ Cost(value) > v.c[tgt]
                    /\ Lengthens(v, tgt, value)
                    /\ s.m_version = lstChangeVersion + 1
                    /\ s.d = Reset(v).d
                    /\ s.nextRouter = Reset(v).nextRouter
    BY updateCSteps, Zenon DEF w
  <2>2. QED
    BY <2>0, <2>1
<1> HIDE DEF w
<1>5. QED
  BY <1>2, <1>3, <1>4, Zenon DEF w

(* What updateC notes of the link itself.                                  *)
LEMMA updateCNotes ==
    ASSUME lstChangeVersion \in Nat, NEW v \in DVState,
           NEW tgt \in Routers, tgt # v.m_routerID,
           NEW value \in Lens \cup {Down}
    PROVE  /\ updateC(v, tgt, value) \in DVState
           /\ updateC(v, tgt, value).m_routerID = v.m_routerID
           /\ updateC(v, tgt, value).c = [v.c EXCEPT ![tgt] = Cost(value)]
  BY updateCEffect

LEMMA ExchangePortChange ==
    ASSUME IInv, Exchange, SimpleNetwork,
           NEW r \in Routers, NEW l \in Links, <<l, r>> \in Directed,
           PortChange(r, l)
    PROVE  Exchange'
<1> DEFINE e == <<l, r>>
           q == m_port2RouterID[e]
           w == updateC(dv[r], q, len[l])
<1>1. /\ TypeOK
      /\ \A s \in Routers : /\ dv[s] \in DVState /\ dv[s].m_routerID = s
                            /\ dv[s].m_version \in Nat
                            /\ dv[s].m_version <= lstChangeVersion
      /\ lstChangeVersion \in Nat /\ len[l] \in Lens \cup {Down}
      /\ dv \in [Routers -> DVState]
      /\ m_port2RouterID \in [Directed -> Routers \cup {0}]
      /\ m_portLen \in [Directed -> Lens \cup {Down}]
  BY GoodFacts DEF TypeOK, DVState
<1>2. /\ e \in notices /\ notices' = notices \ {e}
      /\ m_portLen' = [m_portLen EXCEPT ![e] = len[l]]
      /\ untriggered' = untriggered \cup {r}
      /\ UNCHANGED <<len, wire, m_routerID2Port>>
      /\ \/ q = 0 /\ UNCHANGED <<dv, m_port2RouterID>>
         \/ /\ q # 0
            /\ dv' = [dv EXCEPT ![r] = w]
            /\ m_port2RouterID' =
                  [m_port2RouterID EXCEPT ![e] = IF len[l] = Down THEN 0 ELSE @]
  BY DEF PortChange
<1>3. PICK o \in Routers : Joins(l, r, o)
  BY OtherEnd
<1>4. PortRight(l, r, o) /\ r # o /\ o # 0 /\ (q = 0 \/ q = o)
  BY <1>3 DEF Exchange, PortRight, Joins, Routers
<1>5. \A m \in Routers : Pending(m) => Pending(m)'
  <2>1. ASSUME NEW m \in Routers, Pending(m)
        PROVE  Pending(m)'
    <3>1. CASE m = r
      BY <1>2, <3>1 DEF Pending
    <3>2. CASE m # r
      BY <1>2, <2>1, <3>2 DEF Pending
    <3>3. QED
      BY <3>1, <3>2
  <2>2. QED
    BY <2>1
<1>6. Pending(r)'
  BY <1>2 DEF Pending
      \* What becomes of the states of the routers.
<1>7. /\ \A s \in Routers : Exact(dv'[s])
      /\ \A s \in Routers \ {r} : dv'[s] = dv[s]
      /\ \A m \in Routers \ {o} : dv'[r].c[m] = dv[r].c[m]
      /\ dv'[r].m_version \in Nat /\ dv'[r].m_version >= dv[r].m_version
      /\ dv'[r].m_version = dv[r].m_version =>
            \A m \in Routers \ {r} : dv'[r].d[m] = dv[r].d[m]
      /\ q = 0 => dv'[r].c[o] = dv[r].c[o]
      /\ q = o => dv'[r].c[o] = Cost(len[l])
  <2>1. CASE q = 0 /\ UNCHANGED <<dv, m_port2RouterID>>
    BY <1>1, <1>4, <2>1 DEF Exchange
  <2>2. CASE q # 0 /\ dv' = [dv EXCEPT ![r] = w]
    <3>1. q = o /\ q \in Routers /\ dv[r] \in DVState /\ q # dv[r].m_routerID
          /\ dv[r].m_routerID = r
      BY <1>1, <1>4, <2>2
    <3>2. dv'[r] = w /\ \A s \in Routers \ {r} : dv'[s] = dv[s]
      BY <1>1, <2>2
    <3>3. Exact(dv[r])
      BY DEF Exchange
    <3> HIDE DEF q
    <3>4. Exact(w)
      BY <1>1, <3>1, <3>3, updateCExact
    <3>5. w \in DVState /\ w.c = [dv[r].c EXCEPT ![q] = Cost(len[l])]
      <4>1. /\ lstChangeVersion \in Nat /\ len[l] \in Lens \cup {Down}
            /\ dv[r] \in DVState /\ q \in Routers /\ q # dv[r].m_routerID
        BY <1>1, <3>1
      <4>2. QED
        BY <4>1, updateCNotes
    <3>6. /\ w.m_version >= dv[r].m_version
          /\ w.m_version = dv[r].m_version =>
                \A m \in Routers \ {r} : w.d[m] = dv[r].d[m]
      <4>1. /\ w.m_version >= dv[r].m_version
            /\ w.m_version = dv[r].m_version =>
                  \A m \in Routers \ {dv[r].m_routerID} : w.d[m] = dv[r].d[m]
        BY <1>1, <3>1, updateCKeeps
      <4>2. QED
        BY <3>1, <4>1
    <3> HIDE DEF w
    <3>7. w.m_version \in Nat /\ dv[r].c \in [Routers -> 0 .. INF]
      BY <3>1, <3>5 DEF DVState, Row
    <3>8. \A s \in Routers : Exact(dv'[s])
      BY <3>2, <3>4 DEF Exchange
    <3>9. /\ \A m \in Routers \ {o} : w.c[m] = dv[r].c[m]
          /\ w.c[o] = Cost(len[l])
      BY <3>1, <3>5, <3>7
    <3>10. q # 0
      BY <2>2
    <3>11. QED
      BY <3>2, <3>6, <3>7, <3>8, <3>9, <3>10
  <2>3. QED
    BY <1>2, <2>1, <2>2
<1>8. ASSUME NEW k \in Links, NEW n \in Routers, NEW m \in Routers,
             Joins(k, n, m)
      PROVE  /\ PortRight(k, n, m)'
             /\ len'[k] # Down => Announced(k, n, m)' /\ Told(k, n, m)'
  <2> DEFINE f == <<k, n>>
  <2>1. /\ PortRight(k, n, m) /\ f \in Directed /\ n # m
        /\ len[k] # Down => Announced(k, n, m) /\ Told(k, n, m)
    BY <1>8, JoinsFacts DEF Exchange, Joins
  <2>2. CASE f = e
    <3>1. k = l /\ n = r /\ m = o
      BY <1>3, <1>8, <2>2 DEF Joins
    <3>2. m_portLen'[f] = len[l]
      BY <1>1, <1>2, <2>1, <2>2
    <3>3. ASSUME q = 0 PROVE PortRight(k, n, m)'
      <4>1. m_port2RouterID'[f] = 0 /\ dv'[n].c[m] = INF
        BY <1>2, <1>4, <1>7, <2>2, <3>1, <3>3 DEF PortRight
      <4>2. QED
        BY <1>2, <2>1, <4>1 DEF PortRight
    <3>4. ASSUME q # 0 PROVE PortRight(k, n, m)'
      <4>1. q = o /\ dv'[n].c[m] = Cost(len[l])
        BY <1>4, <1>7, <3>1, <3>4
      <4>2. m_port2RouterID'[f] = IF len[l] = Down THEN 0 ELSE m
        BY <1>1, <1>2, <2>1, <2>2, <3>1, <3>4, <4>1
      <4>3. m_routerID2Port'[n][m] = k
        BY <1>2, <1>4, <3>1, <3>4, <4>1 DEF PortRight
      <4>4. len[l] = Down => dv'[n].c[m] = INF
        BY <4>1 DEF Cost
      <4>5. PortRight(k, n, m)'
        BY <1>2, <2>1, <3>2, <4>1, <4>2, <4>3, <4>4 DEF PortRight
      <4>6. QED
        BY <4>5
    <3>5. PortRight(k, n, m)'
      BY <3>3, <3>4
    <3>6. len[k] # Down => Announced(k, n, m)'
      <4>1. len[k] # Down => m_port2RouterID'[f] = m_port2RouterID[f]
        BY <1>1, <1>2, <2>1, <2>2, <3>1
      <4>2. QED
        BY <1>2, <1>5, <2>1, <4>1 DEF Announced
    <3>7. len[k] # Down => Told(k, n, m)'
      <4>1. /\ dv'[m] = dv[m] /\ dv[n].m_version \in Nat
            /\ dv[m].m_version \in Nat /\ dv'[n].m_version \in Nat
            /\ dv'[n].m_version >= dv[n].m_version
            /\ dv'[n].m_version = dv[n].m_version => dv'[n].d[m] = dv[n].d[m]
        BY <1>1, <1>7, <2>1, <3>1
      <4>2. QED
        BY <1>2, <1>5, <2>1, <4>1 DEF Told, dvInfo
    <3>8. QED
      BY <1>2, <3>5, <3>6, <3>7
  <2>3. CASE f # e
    <3>1. /\ m_portLen'[f] = m_portLen[f]
          /\ m_port2RouterID'[f] = m_port2RouterID[f]
          /\ wire' = wire /\ m_routerID2Port' = m_routerID2Port /\ len' = len
      BY <1>1, <1>2, <2>1, <2>3
    <3>2. dv'[n].c[m] = dv[n].c[m]
      <4>1. CASE n = r
        <5>1. k # l
          BY <2>3, <4>1
        <5>2. m # o
          BY <1>3, <1>8, <4>1, <5>1 DEF Joins, SimpleNetwork
        <5>3. QED
          BY <1>7, <4>1, <5>2
      <4>2. CASE n # r
        BY <1>7, <4>2
      <4>3. QED
        BY <4>1, <4>2
    <3>3. PortRight(k, n, m)'
      BY <2>1, <3>1, <3>2 DEF PortRight
    <3>4. len[k] # Down => Announced(k, n, m)'
      BY <1>5, <2>1, <3>1 DEF Announced
    <3>5. len[k] # Down => Told(k, n, m)'
      <4>1. CASE m = r
        BY <1>6, <4>1 DEF Told
      <4>2. CASE m # r
        <5>1. /\ dv'[m] = dv[m] /\ dv[n].m_version \in Nat
              /\ dv[m].m_version \in Nat /\ dv'[n].m_version \in Nat
              /\ dv'[n].m_version >= dv[n].m_version
              /\ dv'[n].m_version = dv[n].m_version => dv'[n].d[m] = dv[n].d[m]
          BY <1>1, <1>7, <4>2
        <5>2. QED
          BY <1>5, <2>1, <3>1, <5>1 DEF Told, dvInfo
      <4>3. QED
        BY <4>1, <4>2
    <3>6. QED
      BY <3>1, <3>3, <3>4, <3>5
  <2>4. QED
    BY <2>2, <2>3
<1>9. ASSUME NEW f \in Directed, f \notin notices'
      PROVE  m_portLen'[f] = len'[f[1]]
  <2>1. CASE f = e
    BY <1>1, <1>2, <2>1
  <2>2. CASE f # e
    BY <1>1, <1>2, <1>9, <2>2 DEF Exchange
  <2>3. QED
    BY <2>1, <2>2
<1>10. ASSUME NEW n \in Routers, NEW m \in Routers, n # m,
              \A k \in Links : Ends[k] # {n, m}
       PROVE  dv'[n].c[m] = INF
  <2>1. dv[n].c[m] = INF
    BY <1>10 DEF Exchange
  <2>2. n = r => m # o
    BY <1>3, <1>10 DEF Joins
  <2>3. QED
    BY <1>7, <2>1, <2>2
<1>11. \A s \in Routers : Exact(dv[s])'
  BY <1>7 DEF Exact, Tight, NextKnown
<1>12. QED
  BY <1>8, <1>9, <1>10, <1>11 DEF Exchange, Joins

(* What updateDV makes of a row: it is stored unless it is stale, the rows *)
(* of the others stay as long as no version is adopted, and what is not    *)
(* told to the neighbours is no news to them.                              *)
LEMMA updateDVKeeps ==
    ASSUME NEW v \in DVState, NEW p \in Packet, p.RID # v.m_routerID
    PROVE  LET w == updateDV(v, p)
               r == v.m_routerID
           IN  /\ w \in DVState /\ w.m_routerID = r /\ w.c = v.c
               /\ w.m_version >= v.m_version
               /\ w.m_version = v.m_version =>
                     \A m \in Routers \ {r, p.RID} : w.d[m] = v.d[m]
               /\ w.m_version >= p.version
               /\ w.m_version = p.version => w.d[p.RID] = p.row
               /\ ~Changed(v, p) =>
                     \/ w.m_version = v.m_version /\ w.d[r] = v.d[r]
                     \/ \A i \in Routers \ {r} : w.d[r][i] = INF
<1> DEFINE w == updateDV(v, p)
           u == Adopted(v, p.version)
           r == v.m_routerID
<1>1. /\ p.RID \in Routers /\ p.version \in Nat /\ v.m_version \in Nat
      /\ r \in Routers
  BY DEF Packet, DVState
<1>2. CASE p.version < v.m_version /\ w = v
  BY <1>1, <1>2
<1>3. ASSUME p.version >= v.m_version,
             Changed(v, p) <=> w.d[r] # u.d[r],
             u \in DVState, u.m_routerID = r, u.c = v.c,
             u.m_version = p.version,
             \/ p.version = v.m_version /\ u = v
             \/ /\ p.version > v.m_version /\ u.d = Reset(v).d
                /\ u.nextRouter = Reset(v).nextRouter,
             NEW s \in DVState, w = Relaxed(s, p.RID),
             s.m_routerID = u.m_routerID, s.c = u.c,
             s.m_version = u.m_version, s.d[p.RID] = p.row,
             \A n \in Routers \ {p.RID} : s.d[n] = u.d[n]
      PROVE  /\ w \in DVState /\ w.m_routerID = r /\ w.c = v.c
             /\ w.m_version >= v.m_version
             /\ w.m_version = v.m_version =>
                   \A m \in Routers \ {r, p.RID} : w.d[m] = v.d[m]
             /\ w.m_version >= p.version
             /\ w.m_version = p.version => w.d[p.RID] = p.row
             /\ ~Changed(v, p) =>
                   \/ w.m_version = v.m_version /\ w.d[r] = v.d[r]
                   \/ \A i \in Routers \ {r} : w.d[r][i] = INF
  <2>1. /\ w \in DVState /\ w.m_routerID = r /\ w.c = v.c
        /\ w.m_version = p.version
        /\ \A n \in Routers \ {r} : w.d[n] = s.d[n]
    BY <1>1, <1>3, RelaxedFacts
  <2> HIDE DEF w, u
  <2>2. w.d[p.RID] = p.row
    BY <1>1, <1>3, <2>1
  <2>3. CASE p.version = v.m_version /\ u = v
    BY <1>1, <1>3, <2>1, <2>2, <2>3
  <2>4. CASE /\ p.version > v.m_version /\ u.d = Reset(v).d
             /\ u.nextRouter = Reset(v).nextRouter
    <3>1. \A i \in Routers \ {r} : u.d[r][i] = INF
      BY <1>3, <2>4, ForgetfulExact
    <3>2. ~Changed(v, p) => \A i \in Routers \ {r} : w.d[r][i] = INF
      BY <1>3, <3>1
    <3>3. w.m_version >= v.m_version /\ w.m_version # v.m_version
          /\ w.m_version >= p.version
      BY <1>1, <2>1, <2>4
    <3>4. QED
      BY <2>1, <2>2, <3>2, <3>3
  <2>5. QED
    BY <1>3, <2>3, <2>4
<1> HIDE DEF w, u
<1>4. \/ p.version < v.m_version /\ w = v /\ ~Changed(v, p)
      \/ /\ p.version >= v.m_version
         /\ Changed(v, p) <=> w.d[v.m_routerID] # u.d[v.m_routerID]
         /\ u \in DVState
         /\ u.m_routerID = v.m_routerID /\ u.c = v.c
         /\ u.m_version = p.version
         /\ \/ p.version = v.m_version /\ u = v
            \/ /\ p.version > v.m_version /\ u.d = Reset(v).d
               /\ u.nextRouter = Reset(v).nextRouter
         /\ \E s \in DVState :
               /\ w = Relaxed(s, p.RID)
               /\ s.m_routerID = u.m_routerID /\ s.c = u.c
               /\ s.m_version = u.m_version
               /\ s.nextRouter = u.nextRouter
               /\ s.d[p.RID] = p.row
               /\ \A n \in Routers \ {p.RID} : s.d[n] = u.d[n]
  BY updateDVSteps, Zenon DEF w, u
<1>5. CASE /\ p.version >= v.m_version
           /\ Changed(v, p) <=> w.d[v.m_routerID] # u.d[v.m_routerID]
           /\ u \in DVState
           /\ u.m_routerID = v.m_routerID /\ u.c = v.c
           /\ u.m_version = p.version
           /\ \/ p.version = v.m_version /\ u = v
              \/ /\ p.version > v.m_version /\ u.d = Reset(v).d
                 /\ u.nextRouter = Reset(v).nextRouter
           /\ \E s \in DVState :
                 /\ w = Relaxed(s, p.RID)
                 /\ s.m_routerID = u.m_routerID /\ s.c = u.c
                 /\ s.m_version = u.m_version
                 /\ s.nextRouter = u.nextRouter
                 /\ s.d[p.RID] = p.row
                 /\ \A n \in Routers \ {p.RID} : s.d[n] = u.d[n]
  <2>1. PICK s \in DVState :
           /\ w = Relaxed(s, p.RID)
           /\ s.m_routerID = u.m_routerID /\ s.c = u.c
           /\ s.m_version = u.m_version
           /\ s.nextRouter = u.nextRouter
           /\ s.d[p.RID] = p.row
           /\ \A n \in Routers \ {p.RID} : s.d[n] = u.d[n]
    BY <1>5, Zenon
  <2> HIDE DEF r
  <2>2. r = v.m_routerID
    BY DEF r
  <2>3. /\ p.version >= v.m_version
        /\ Changed(v, p) <=> w.d[r] # u.d[r]
        /\ u \in DVState /\ u.m_routerID = r /\ u.c = v.c
        /\ u.m_version = p.version
        /\ \/ p.version = v.m_version /\ u = v
           \/ /\ p.version > v.m_version /\ u.d = Reset(v).d
              /\ u.nextRouter = Reset(v).nextRouter
    BY <1>5, <2>2
  <2>4. /\ w \in DVState /\ w.m_routerID = r /\ w.c = v.c
        /\ w.m_version >= v.m_version
        /\ w.m_version = v.m_version =>
              \A m \in Routers \ {r, p.RID} : w.d[m] = v.d[m]
        /\ w.m_version >= p.version
        /\ w.m_version = p.version => w.d[p.RID] = p.row
        /\ ~Changed(v, p) =>
              \/ w.m_version = v.m_version /\ w.d[r] = v.d[r]
              \/ \A i \in Routers \ {r} : w.d[r][i] = INF
    BY <1>3, <2>1, <2>3
  <2>5. QED
    BY <2>2, <2>4, Zenon DEF w
<1>6. QED
  BY <1>2, <1>4, <1>5, Zenon DEF w

(* All that the exchange of rows needs of one ReceiveDV, by which r takes  *)
(* p off the cable l and gets into the state w.                            *)
Received(r, l, p, w) ==
    /\ p.RID \in Routers /\ p.RID # r /\ p.version \in Nat
    /\ wire[<<l, r>>] # <<>> /\ p = wire[<<l, r>>][1]
    /\ w.m_routerID = r /\ Exact(w)
    /\ w.c = [dv[r].c EXCEPT ![p.RID] = Cost(m_portLen[<<l, r>>])]
    /\ dv' = [dv EXCEPT ![r] = w]
    /\ w.m_version >= dv[r].m_version
    /\ w.m_version = dv[r].m_version =>
          \A m \in Routers \ {r, p.RID} : w.d[m] = dv[r].d[m]
    /\ w.m_version >= p.version
    /\ w.m_version = p.version => w.d[p.RID] = p.row
    /\ \/ wire' = Broadcast([wire EXCEPT ![<<l, r>>] = Tail(@)], w)
       \/ /\ wire' = [wire EXCEPT ![<<l, r>>] = Tail(@)]
          /\ w.c = dv[r].c
          /\ \/ w.m_version = dv[r].m_version /\ w.d[r] = dv[r].d[r]
             \/ \A i \in Routers \ {r} : w.c[i] = INF

LEMMA ReceiveOutcome ==
    ASSUME IInv, NEW r \in Routers, NEW l \in Links, <<l, r>> \in Directed,
           Exact(dv[r]), ReceiveDV(r, l)
    PROVE  \E p \in Packet, w \in DVState : Received(r, l, p, w)
<1> DEFINE e == <<l, r>>
           p == Head(wire[e])
           v == updateC(dv[r], p.RID, m_portLen[e])
           w == updateDV(v, p)
           told == Changed(v, p) \/ v.c # dv[r].c
<1>1. /\ wire[e] # <<>> /\ p = wire[e][1]
      /\ p \in Packet /\ p.RID \in Routers /\ p.RID # r /\ p.version \in Nat
      /\ m_portLen[e] \in Lens \cup {Down} /\ lstChangeVersion \in Nat
      /\ v \in DVState /\ v.m_routerID = r
      /\ v.c = [dv[r].c EXCEPT ![p.RID] = Cost(m_portLen[e])]
      /\ dv' = [dv EXCEPT ![r] = w]
      /\ wire' = IF told THEN Broadcast([wire EXCEPT ![e] = Tail(@)], w)
                         ELSE [wire EXCEPT ![e] = Tail(@)]
  BY ReceiveFacts, SMTT(60)
<1>2. /\ dv[r] \in DVState /\ dv[r].m_routerID = r
      /\ dv[r].m_version \in Nat /\ dv[r].m_version <= lstChangeVersion
  BY GoodFacts DEF DVState
<1>3. p.RID # dv[r].m_routerID
  BY <1>1, <1>2
<1> HIDE DEF p
<1>4. /\ v.m_version >= dv[r].m_version
      /\ v.m_version = dv[r].m_version =>
            \A m \in Routers \ {dv[r].m_routerID} : v.d[m] = dv[r].d[m]
      /\ v.c = dv[r].c => v = dv[r]
  BY <1>1, <1>2, <1>3, updateCKeeps
<1>5. Exact(v)
  BY <1>1, <1>2, <1>3, updateCExact
<1> HIDE DEF v
<1>6. p.RID # v.m_routerID /\ v.m_version \in Nat
  BY <1>1 DEF DVState
<1>7. Exact(w)
  BY <1>1, <1>5, <1>6, updateDVExact
<1>8. /\ w \in DVState /\ w.m_routerID = v.m_routerID /\ w.c = v.c
      /\ w.m_version >= v.m_version
      /\ w.m_version = v.m_version =>
            \A m \in Routers \ {v.m_routerID, p.RID} : w.d[m] = v.d[m]
      /\ w.m_version >= p.version
      /\ w.m_version = p.version => w.d[p.RID] = p.row
      /\ ~Changed(v, p) =>
            \/ w.m_version = v.m_version /\ w.d[v.m_routerID] = v.d[v.m_routerID]
            \/ \A i \in Routers \ {v.m_routerID} : w.d[v.m_routerID][i] = INF
  BY <1>1, <1>6, updateDVKeeps, ZenonT(60)
<1> HIDE DEF w
<1>9. w.m_version \in Nat
  BY <1>8 DEF DVState
<1>10. /\ w.m_version >= dv[r].m_version
       /\ w.m_version = dv[r].m_version => v.m_version = dv[r].m_version
                                           /\ w.m_version = v.m_version
  BY <1>2, <1>4, <1>6, <1>8, <1>9
<1>11. w.m_version = dv[r].m_version =>
          \A m \in Routers \ {r, p.RID} : w.d[m] = dv[r].d[m]
  BY <1>1, <1>2, <1>4, <1>8, <1>10
<1>12. (\A i \in Routers \ {r} : w.d[r][i] = INF) =>
          \A i \in Routers \ {r} : w.c[i] = INF
  <2>1. ASSUME \A i \in Routers \ {r} : w.d[r][i] = INF, NEW i \in Routers \ {r}
        PROVE  w.c[i] = INF
    <3>1. w.c[i] \in 0 .. INF /\ INF \in Nat
      BY <1>8, NetworkAssumption DEF DVState, Row
    <3>2. w.m_routerID = r
      BY <1>1, <1>8
    <3>3. w.d[r][i] <= w.c[i]
      BY <1>7, <3>2 DEF Exact, Tight
    <3>4. QED
      BY <2>1, <3>1, <3>3
  <2>2. QED
    BY <2>1
<1>13. ~told => /\ w.c = dv[r].c
                /\ \/ w.m_version = dv[r].m_version /\ w.d[r] = dv[r].d[r]
                   \/ \A i \in Routers \ {r} : w.c[i] = INF
  BY <1>1, <1>4, <1>8, <1>12
<1>14. \/ wire' = Broadcast([wire EXCEPT ![e] = Tail(@)], w)
       \/ /\ wire' = [wire EXCEPT ![e] = Tail(@)]
          /\ w.c = dv[r].c
          /\ \/ w.m_version = dv[r].m_version /\ w.d[r] = dv[r].d[r]
             \/ \A i \in Routers \ {r} : w.c[i] = INF
  BY <1>1, <1>13
<1>15. w.c = [dv[r].c EXCEPT ![p.RID] = Cost(m_portLen[e])] /\ w.m_routerID = r
  BY <1>1, <1>8
<1>16. Received(r, l, p, w)
  BY <1>1, <1>7, <1>8, <1>10, <1>11, <1>14, <1>15 DEF Received
<1>17. QED
  BY <1>1, <1>8, <1>16

LEMMA ExchangeReceive ==
    ASSUME IInv, Exchange, SimpleNetwork,
           NEW r \in Routers, NEW l \in Links, <<l, r>> \in Directed,
           ReceiveDV(r, l)
    PROVE  Exchange'
<1> DEFINE e == <<l, r>>
           rest == [wire EXCEPT ![e] = Tail(@)]
<1>1. /\ TypeOK
      /\ \A s \in Routers : /\ dv[s] \in DVState /\ dv[s].m_routerID = s
                            /\ dv[s].m_version \in Nat
      /\ dv \in [Routers -> DVState]
      /\ wire \in [Directed -> Seq(Packet)]
      /\ m_port2RouterID \in [Directed -> Routers \cup {0}]
      /\ m_routerID2Port \in [Routers -> [Routers -> Links \cup {0}]]
  BY GoodFacts DEF TypeOK, DVState
<1>0. PICK p \in Packet, w \in DVState : Received(r, l, p, w)
  BY ReceiveOutcome DEF Exchange
<1>2. /\ p.RID \in Routers /\ p.RID # r /\ p.version \in Nat
      /\ wire[e] # <<>> /\ p = wire[e][1]
      /\ w.m_routerID = r /\ Exact(w)
      /\ w.c = [dv[r].c EXCEPT ![p.RID] = Cost(m_portLen[e])]
      /\ dv' = [dv EXCEPT ![r] = w]
      /\ w.m_version >= dv[r].m_version
      /\ w.m_version = dv[r].m_version =>
            \A m \in Routers \ {r, p.RID} : w.d[m] = dv[r].d[m]
      /\ w.m_version >= p.version
      /\ w.m_version = p.version => w.d[p.RID] = p.row
      /\ \/ wire' = Broadcast(rest, w)
         \/ /\ wire' = rest
            /\ w.c = dv[r].c
            /\ \/ w.m_version = dv[r].m_version /\ w.d[r] = dv[r].d[r]
               \/ \A i \in Routers \ {r} : w.c[i] = INF
  BY <1>0 DEF Received
<1>3. /\ m_routerID2Port' = [m_routerID2Port EXCEPT ![r][p.RID] = l]
      /\ m_port2RouterID' = [m_port2RouterID EXCEPT ![e] = p.RID]
      /\ UNCHANGED <<len, notices, untriggered, m_portLen>>
  <2>1. Head(wire[e]) = p
    BY <1>1, <1>2
  <2>2. QED
    BY <2>1 DEF ReceiveDV, env
<1>4. Joins(l, r, p.RID)
  <2>1. PICK o \in Routers : Joins(l, r, o)
    BY OtherEnd
  <2>2. PortRight(l, r, o) /\ 1 \in DOMAIN wire[e]
    BY <1>1, <1>2, <2>1 DEF Exchange
  <2>3. p.RID = o
    BY <1>2, <2>2 DEF PortRight
  <2>4. QED
    BY <2>1, <2>3
<1>5. /\ dv'[r] = w /\ \A s \in Routers \ {r} : dv'[s] = dv[s]
      /\ w.m_version \in Nat /\ dv[r].c \in [Routers -> 0 .. INF]
      /\ dvInfo(w) \in Packet /\ dvInfo(w).RID = r /\ w.m_routerID = r
  <2>1. w.m_routerID = r /\ dv' = [dv EXCEPT ![r] = w]
    BY <1>2
  <2>2. w.m_version \in Nat /\ dv[r].c \in [Routers -> 0 .. INF]
    BY <1>1 DEF DVState, Row
  <2>3. dvInfo(w) \in Packet /\ dvInfo(w).RID = r
    BY <2>1 DEF DVState, dvInfo, Packet
  <2>4. QED
    BY <1>1, <2>1, <2>2, <2>3
<1>6. /\ \A m \in Routers \ {p.RID} : w.c[m] = dv[r].c[m]
      /\ w.c[p.RID] = Cost(m_portLen[e])
  BY <1>2, <1>5
<1>7. /\ rest \in [Directed -> Seq(Packet)]
      /\ rest[e] = Tail(wire[e])
      /\ \A f \in Directed \ {e} : rest[f] = wire[f]
  <2>1. Tail(wire[e]) \in Seq(Packet)
    BY <1>1, <1>2
  <2>2. QED
    BY <1>1, <2>1
<1> HIDE DEF rest
<1>8. \/ wire' = Broadcast(rest, w)
      \/ /\ wire' = rest /\ w.c = dv[r].c
         /\ \/ w.m_version = dv[r].m_version /\ w.d[r] = dv[r].d[r]
            \/ \A i \in Routers \ {r} : w.c[i] = INF
  BY <1>2
<1>9. /\ \A m \in Routers \ {r, p.RID} :
            w.m_version = dv[r].m_version => w.d[m] = dv[r].d[m]
      /\ w.m_version >= dv[r].m_version /\ w.m_version >= p.version
      /\ w.m_version = p.version => w.d[p.RID] = p.row
  BY <1>2
<1>10. ASSUME NEW k \in Links, NEW n \in Routers, NEW m \in Routers,
              Joins(k, n, m), m # r \/ len[k] = Down
       PROVE  wire'[<<k, n>>] = rest[<<k, n>>]
  <2>1. Broadcast(rest, w)[<<k, n>>] =
           IF w.m_routerID = m /\ len[k] # Down
           THEN Append(rest[<<k, n>>], dvInfo(w)) ELSE rest[<<k, n>>]
    <3>1. rest \in [Directed -> Seq(Packet)]
      BY <1>7
    <3>2. QED
      BY <3>1, <1>10, BroadcastAt, ZenonT(60)
  <2>2. QED
    BY <1>5, <1>8, <1>10, <2>1
<1>11. ASSUME NEW k \in Links, NEW n \in Routers, NEW m \in Routers,
              Joins(k, n, m), m = r, len[k] # Down
       PROVE  \/ wire'[<<k, n>>] = Append(wire[<<k, n>>], dvInfo(w))
              \/ /\ wire'[<<k, n>>] = wire[<<k, n>>] /\ w.c = dv[r].c
                 /\ \/ w.m_version = dv[r].m_version /\ w.d[r] = dv[r].d[r]
                    \/ \A i \in Routers \ {r} : w.c[i] = INF
  <2>1. n # r /\ <<k, n>> \in Directed
    BY <1>11, JoinsFacts DEF Joins
  <2>2. rest[<<k, n>>] = wire[<<k, n>>]
    BY <1>7, <2>1
  <2>3. Broadcast(rest, w)[<<k, n>>] =
           IF w.m_routerID = m /\ len[k] # Down
           THEN Append(rest[<<k, n>>], dvInfo(w)) ELSE rest[<<k, n>>]
    <3>1. rest \in [Directed -> Seq(Packet)]
      BY <1>7
    <3>2. Joins(k, n, m)
      BY <1>11
    <3>3. QED
      BY <3>1, <3>2, BroadcastAt, ZenonT(60)
  <2>4. QED
    BY <1>5, <1>8, <1>11, <2>2, <2>3
<1>12. ASSUME NEW k \in Links, NEW n \in Routers, NEW m \in Routers,
              Joins(k, n, m)
       PROVE  /\ PortRight(k, n, m)'
              /\ len'[k] # Down => Announced(k, n, m)' /\ Told(k, n, m)'
  <2> DEFINE f == <<k, n>>
  <2>1. /\ PortRight(k, n, m) /\ f \in Directed /\ n # m
        /\ len[k] # Down => Announced(k, n, m) /\ Told(k, n, m)
    BY <1>12, JoinsFacts DEF Exchange, Joins
  <2>2. CASE f = e
    <3>1. k = l /\ n = r /\ m = p.RID /\ m # r
      BY <1>2, <1>4, <1>12, <2>2 DEF Joins
    <3>2. wire'[f] = Tail(wire[f]) /\ wire[f] # <<>> /\ wire[f] \in Seq(Packet)
      BY <1>1, <1>2, <1>7, <1>10, <1>12, <2>2, <3>1, ZenonT(60)
    <3>3. /\ Tail(wire[f]) # <<>> =>
                Tail(wire[f])[Len(Tail(wire[f]))] = wire[f][Len(wire[f])]
          /\ Tail(wire[f]) = <<>> => Len(wire[f]) = 1
          /\ \A j \in DOMAIN Tail(wire[f]) :
                j + 1 \in DOMAIN wire[f] /\ Tail(wire[f])[j] = wire[f][j + 1]
      BY <3>2, TailLast
    <3>4. /\ m_port2RouterID'[f] = m /\ m_routerID2Port'[n][m] = k
          /\ dv'[n] = w /\ dv'[m] = dv[m] /\ w.c[m] = Cost(m_portLen'[f])
      BY <1>1, <1>3, <1>5, <1>6, <2>1, <2>2, <3>1
    <3>5. \A j \in DOMAIN wire'[f] : wire'[f][j].RID = m
      <4>1. \A j \in DOMAIN wire[f] : wire[f][j].RID = m
        BY <2>1 DEF PortRight
      <4>2. QED
        BY <3>2, <3>3, <4>1
    <3>6. PortRight(k, n, m)'
      BY <3>4, <3>5 DEF PortRight
    <3>7. Announced(k, n, m)'
      BY <3>4 DEF Announced
    <3>8. ASSUME len[k] # Down
          PROVE  Told(k, n, m)'
      <4>1. Told(k, n, m)
        BY <2>1, <3>8
      <4>2. CASE Pending(m) \/ dv[m].c[n] = INF
        BY <1>3, <3>4, <4>2 DEF Told, Pending
      <4>3. CASE wire[f][Len(wire[f])] = dvInfo(dv[m])
        <5>1. CASE Tail(wire[f]) # <<>>
          BY <3>2, <3>3, <3>4, <4>3, <5>1 DEF Told, dvInfo
        <5>2. CASE Tail(wire[f]) = <<>>
          <6>1. p = dvInfo(dv[m])
            BY <1>2, <2>2, <3>3, <4>3, <5>2
          <6>2. p.version = dv[m].m_version /\ p.row = dv[m].d[m]
            BY <1>1, <6>1 DEF dvInfo
          <6>3. QED
            BY <1>9, <3>1, <3>2, <3>4, <5>2, <6>2 DEF Told
        <5>3. QED
          BY <5>1, <5>2
      <4>4. QED
        BY <3>2, <4>1, <4>2, <4>3 DEF Told
    <3>9. QED
      BY <1>3, <3>6, <3>7, <3>8
  <2>3. CASE f # e
    <3>1. /\ rest[f] = wire[f] /\ wire[f] \in Seq(Packet)
          /\ m_port2RouterID'[f] = m_port2RouterID[f]
          /\ m_portLen'[f] = m_portLen[f]
      BY <1>1, <1>3, <1>7, <2>1, <2>3
    <3>2. n = r => k # l /\ m # p.RID
      <4>1. n = r => k # l
        BY <2>3
      <4>2. QED
        BY <1>4, <1>12, <4>1 DEF Joins, SimpleNetwork
    <3>3. /\ dv'[n].c[m] = dv[n].c[m]
          /\ m_routerID2Port'[n][m] = m_routerID2Port[n][m]
      <4>1. CASE n = r
        BY <1>1, <1>3, <1>5, <1>6, <3>2, <4>1
      <4>2. CASE n # r
        BY <1>1, <1>3, <1>5, <4>2
      <4>3. QED
        BY <4>1, <4>2
    <3>4. \/ wire'[f] = wire[f]
          \/ m = r /\ wire'[f] = Append(wire[f], dvInfo(w))
      <4>1. CASE m = r /\ len[k] # Down
        BY <1>11, <1>12, <4>1
      <4>2. CASE m # r \/ len[k] = Down
        BY <1>10, <1>12, <3>1, <4>2
      <4>3. QED
        BY <4>1, <4>2
    <3>5. /\ \A j \in DOMAIN wire'[f] : wire'[f][j].RID = m
          /\ wire[f] # <<>> => wire'[f] # <<>>
      <4>1. CASE wire'[f] = wire[f]
        BY <2>1, <4>1 DEF PortRight
      <4>2. CASE m = r /\ wire'[f] = Append(wire[f], dvInfo(w))
        <5>1. /\ Append(wire[f], dvInfo(w)) # <<>>
              /\ \A j \in DOMAIN Append(wire[f], dvInfo(w)) :
                    \/ Append(wire[f], dvInfo(w))[j] = dvInfo(w)
                    \/ /\ j \in DOMAIN wire[f]
                       /\ Append(wire[f], dvInfo(w))[j] = wire[f][j]
          BY <1>5, <3>1, AppendFacts
        <5>2. QED
          BY <1>5, <2>1, <4>2, <5>1 DEF PortRight
      <4>3. QED
        BY <3>4, <4>1, <4>2
    <3>6. PortRight(k, n, m)'
      BY <2>1, <3>1, <3>3, <3>5 DEF PortRight
    <3>7. len[k] # Down => Announced(k, n, m)'
      BY <1>3, <2>1, <3>1, <3>5 DEF Announced, Pending
    <3>8. ASSUME wire'[f] = Append(wire[f], dvInfo(w)), m = r
          PROVE  Told(k, n, m)'
      <4>1. Append(wire[f], dvInfo(w)) # <<>>
            /\ Append(wire[f], dvInfo(w))[Len(Append(wire[f], dvInfo(w)))] = dvInfo(w)
        BY <1>5, <3>1, AppendFacts
      <4>2. dvInfo(dv[m])' = dvInfo(w)
        BY <1>5, <3>8 DEF dvInfo
      <4>3. QED
        BY <3>8, <4>1, <4>2 DEF Told
    <3>9. ASSUME len[k] # Down, m = r, wire'[f] = wire[f], w.c = dv[r].c,
                 \/ w.m_version = dv[r].m_version /\ w.d[r] = dv[r].d[r]
                 \/ \A i \in Routers \ {r} : w.c[i] = INF
          PROVE  Told(k, n, m)'
      <4>1. dv'[m] = w /\ dv'[n] = dv[n] /\ n # r
            /\ dv[m].m_routerID = m /\ w.m_routerID = m
        BY <1>1, <1>5, <2>1, <3>9
      <4>2. CASE w.m_version = dv[r].m_version /\ w.d[r] = dv[r].d[r]
        <5>1. /\ w.m_version = dv[m].m_version /\ w.d[m] = dv[m].d[m]
              /\ w.c = dv[m].c
          BY <3>9, <4>2
        <5>2. dvInfo(w) = dvInfo(dv[m])
          BY <4>1, <5>1 DEF dvInfo
        <5>3. Told(k, n, m)
          BY <2>1, <3>9
        <5>4. Pending(m) => Pending(m)'
          BY <1>3 DEF Pending
        <5>5. dvInfo(dv[m])' = dvInfo(w)
          BY <4>1 DEF dvInfo
        <5>6. QED
          BY <3>9, <4>1, <5>1, <5>2, <5>3, <5>4, <5>5 DEF Told
      <4>3. CASE \A i \in Routers \ {r} : w.c[i] = INF
        BY <4>1, <4>3 DEF Told
      <4>4. QED
        BY <3>9, <4>2, <4>3
    <3>10. ASSUME len[k] # Down, m # r
           PROVE  Told(k, n, m)'
      <4>1. wire'[f] = wire[f] /\ dv'[m] = dv[m]
        BY <1>5, <1>10, <1>12, <3>1, <3>10
      <4>2. /\ dv'[n].m_version >= dv[n].m_version
            /\ dv'[n].m_version = dv[n].m_version => dv'[n].d[m] = dv[n].d[m]
            /\ dv'[n].m_version \in Nat
        <5>1. CASE n = r
          BY <1>5, <1>9, <3>2, <3>10, <5>1
        <5>2. CASE n # r
          BY <1>1, <1>5, <5>2
        <5>3. QED
          BY <5>1, <5>2
      <4>3. dv[n].m_version \in Nat /\ dv[m].m_version \in Nat
        BY <1>1
      <4>4. Pending(m) => Pending(m)'
        BY <1>3 DEF Pending
      <4>5. Told(k, n, m)
        BY <2>1, <3>10
      <4>6. /\ dv[n].m_version >= dv[m].m_version =>
                  dv'[n].m_version >= dv[m].m_version
            /\ /\ dv[n].m_version >= dv[m].m_version
               /\ dv[n].m_version = dv[m].m_version => dv[n].d[m] = dv[m].d[m]
               => (dv'[n].m_version = dv[m].m_version => dv'[n].d[m] = dv[m].d[m])
        BY <4>2, <4>3
      <4>7. dvInfo(dv[m])' = dvInfo(dv[m])
        BY <4>1 DEF dvInfo
      <4>8. QED
        BY <4>1, <4>4, <4>5, <4>6, <4>7 DEF Told
    <3>11. ASSUME len[k] # Down PROVE Told(k, n, m)'
      BY <1>11, <1>12, <3>8, <3>9, <3>10, <3>11
    <3>12. QED
      BY <1>3, <3>6, <3>7, <3>11
  <2>4. QED
    BY <2>2, <2>3
<1>13. \A f \in Directed : f \notin notices' => m_portLen'[f] = len'[f[1]]
  BY <1>3 DEF Exchange
<1>14. ASSUME NEW n \in Routers, NEW m \in Routers, n # m,
              \A k \in Links : Ends[k] # {n, m}
       PROVE  dv'[n].c[m] = INF
  <2>1. dv[n].c[m] = INF
    BY <1>14 DEF Exchange
  <2>2. n = r => m # p.RID
    BY <1>4, <1>14 DEF Joins
  <2>3. QED
    BY <1>5, <1>6, <2>1, <2>2
<1>15. \A s \in Routers : Exact(dv'[s])
  BY <1>2, <1>5 DEF Exchange
<1>16. \A s \in Routers : Exact(dv[s])'
  BY <1>15 DEF Exact, Tight, NextKnown
<1>17. QED
  BY <1>12, <1>13, <1>14, <1>16 DEF Exchange, Joins

LEMMA ExchangeStep ==
    ASSUME SimpleNetwork
    PROVE  IInv /\ Exchange /\ [Next]_vars => Exchange'
<1> SUFFICES ASSUME IInv, Exchange, [Next]_vars PROVE Exchange'
  OBVIOUS
<1>1. ASSUME NEW e \in Directed, ReceiveDV(e[2], e[1])
      PROVE  Exchange'
  BY <1>1, EndFacts, ExchangeReceive
<1>2. ASSUME NEW e \in Directed, PortChange(e[2], e[1])
      PROVE  Exchange'
  BY <1>2, EndFacts, ExchangePortChange
<1>3. ASSUME NEW r \in Routers, Trigger(r)
      PROVE  Exchange'
  BY <1>3, ExchangeTrigger
<1>4. ASSUME NEW l \in Links, NEW x \in Lens \cup {Down}, LinkChange(l, x)
      PROVE  Exchange'
  BY <1>4, ExchangeLinkChange
<1>5. CASE UNCHANGED vars
  <2>1. /\ len' = len /\ notices' = notices /\ untriggered' = untriggered
        /\ wire' = wire /\ dv' = dv /\ m_portLen' = m_portLen
        /\ m_port2RouterID' = m_port2RouterID
        /\ m_routerID2Port' = m_routerID2Port
    BY <1>5 DEF vars, env, ports
  <2>2. \A r \in Routers : Exact(dv[r])'
    BY <2>1 DEF Exchange, Exact, Tight, NextKnown
  <2>3. ASSUME NEW l \in Links, NEW n \in Routers, NEW m \in Routers,
               Joins(l, n, m)
        PROVE  /\ PortRight(l, n, m)'
               /\ len'[l] # Down => Announced(l, n, m)' /\ Told(l, n, m)'
    <3>1. PortRight(l, n, m)
      BY <2>3 DEF Exchange
    <3>2. len[l] # Down => Announced(l, n, m) /\ Told(l, n, m)
      BY <2>3 DEF Exchange
    <3>3. PortRight(l, n, m)'
      BY <2>1, <3>1 DEF PortRight
    <3>4. len'[l] # Down => Announced(l, n, m)' /\ Told(l, n, m)'
      BY <2>1, <3>2 DEF Announced, Told, Pending, dvInfo
    <3>5. QED
      BY <3>3, <3>4
  <2>4. QED
    BY <2>1, <2>2, <2>3 DEF Exchange, Joins
<1>6. QED
  BY <1>1, <1>2, <1>3, <1>4, <1>5 DEF Next, Deliver

(* In every network with one cable at most between two routers, a router   *)
(* has the row its neighbour has now, or is about to get it, and its own   *)
(* row fits every row it holds (ReceiveDV, PortChange, Trigger).           *)
THEOREM RowsReachNeighbours ==
    ASSUME SimpleNetwork
    PROVE  Spec => []Exchange
<1>1. Init => IInv /\ Exchange
  BY InitInv, ExchangeInit
<1>2. IInv /\ Exchange /\ [Next]_vars => IInv' /\ Exchange'
  BY StepInv, ExchangeStep
<1>3. QED
  BY <1>1, <1>2, PTL DEF Spec

-----------------------------------------------------------------------------
(* When nothing is left to be delivered.                                   *)

LEMMA Ranges ==
    ASSUME IInv, NEW r \in Routers
    PROVE  /\ INF \in Nat /\ dv[r] \in DVState /\ dv[r].m_routerID = r
           /\ \A x, i \in Routers : dist(x, i) \in 0 .. INF
           /\ \A x \in Routers : dv[r].c[x] \in 0 .. INF
<1>1. TypeOK /\ INF \in Nat
  BY GoodFacts, NetworkAssumption
<1>2. \A x \in Routers : /\ dv[x] \in DVState /\ dv[x].m_routerID = x
                         /\ \A i \in Routers : dist(x, i) \in 0 .. INF
  BY <1>1, OtherRows
<1>3. dv[r].c \in [Routers -> 0 .. INF]
  BY <1>2 DEF DVState, Row
<1>4. QED
  BY <1>1, <1>2, <1>3

LEMMA QuietLink ==
    ASSUME IInv, Exchange, Quiet,
           NEW l \in Links, NEW n \in Routers, NEW m \in Routers, Joins(l, n, m)
    PROVE  /\ dv[n].c[m] = Cost(len[l])
           /\ len[l] # Down => m_routerID2Port[n][m] = l
<1>0. m # 0
  BY DEF Routers
<1>1. <<l, n>> \in Directed /\ m # 0
  BY <1>0, JoinsFacts
<1>2. wire[<<l, n>>] = <<>> /\ ~Pending(m) /\ m_portLen[<<l, n>>] = len[l]
  BY <1>1 DEF Quiet, Exchange, Pending
<1>3. PortRight(l, n, m) /\ (len[l] # Down => Announced(l, n, m))
  BY DEF Exchange
<1>4. CASE len[l] = Down
  BY <1>2, <1>3, <1>4 DEF PortRight, Cost
<1>5. CASE len[l] # Down
  BY <1>1, <1>2, <1>3, <1>5 DEF PortRight, Announced
<1>6. QED
  BY <1>4, <1>5

LEMMA QuietNeighbour ==
    ASSUME IInv, Exchange, Quiet,
           NEW n \in Routers, NEW m \in Routers, n # m, dv[n].c[m] < INF
    PROVE  \E l \in Links :
              /\ Ends[l] = {n, m} /\ Cost(len[l]) = dv[n].c[m]
              /\ m_routerID2Port[n][m] = l
              /\ dv[n].m_version = dv[m].m_version
              /\ dv[n].d[m] = dv[m].d[m]
<1>1. INF \in Nat
  BY NetworkAssumption
<1>2. PICK l \in Links : Ends[l] = {n, m}
  BY <1>1 DEF Exchange
<1>3. Joins(l, n, m) /\ Joins(l, m, n)
  BY <1>2 DEF Joins
<1>4. /\ dv[n].c[m] = Cost(len[l]) /\ dv[m].c[n] = Cost(len[l])
      /\ len[l] # Down => m_routerID2Port[n][m] = l
  BY <1>3, QuietLink
<1>5. len[l] # Down
  BY <1>1, <1>4 DEF Cost
<1>6. Told(l, n, m) /\ Told(l, m, n)
  BY <1>3, <1>5 DEF Exchange
<1>7. <<l, n>> \in Directed /\ <<l, m>> \in Directed
  BY <1>3, JoinsFacts
<1>8. /\ wire[<<l, n>>] = <<>> /\ wire[<<l, m>>] = <<>>
      /\ ~Pending(n) /\ ~Pending(m)
  BY <1>7 DEF Quiet, Pending
<1>9. dv[m].c[n] # INF /\ dv[n].c[m] # INF
  BY <1>1, <1>4
<1>10. /\ dv[n].m_version >= dv[m].m_version
       /\ dv[n].m_version = dv[m].m_version => dv[n].d[m] = dv[m].d[m]
       /\ dv[m].m_version >= dv[n].m_version
  BY <1>6, <1>8, <1>9 DEF Told
<1>11. dv[n].m_version \in Nat /\ dv[m].m_version \in Nat
  BY GoodFacts DEF DVState
<1>12. dv[n].m_version = dv[m].m_version
  BY <1>10, <1>11
<1>13. QED
  BY <1>2, <1>4, <1>5, <1>10, <1>12

LEMMA LeastIsMin ==
    ASSUME NEW S \in SUBSET Int, NEW x \in S, \A y \in S : x <= y
    PROVE  Min(S) = x
<1>1. \A z \in S : (\A y \in S : z <= y) => z = x
  OBVIOUS
<1>2. QED
  BY <1>1 DEF Min

LEMMA LinkCostIs ==
    ASSUME IInv, Exchange, Quiet, SimpleNetwork,
           NEW n \in Routers, NEW m \in Routers, n # m
    PROVE  LinkCost(n, m) = dv[n].c[m]
<1> DEFINE S == {INF} \cup {Cost(len[l]) : l \in {k \in Links : Ends[k] = {n, m}}}
<1>1. INF \in Nat /\ dv[n].c[m] \in 0 .. INF
  BY Ranges
<1>2. dv[n].c[m] \in S /\ \A y \in S : y = INF \/ y = dv[n].c[m]
  <2>1. CASE \E l \in Links : Ends[l] = {n, m}
    <3>1. PICK l \in Links : Ends[l] = {n, m}
      BY <2>1
    <3>2. \A k \in Links : Ends[k] = {n, m} <=> k = l
      BY <3>1 DEF SimpleNetwork
    <3>3. dv[n].c[m] = Cost(len[l])
      BY <3>1, QuietLink DEF Joins
    <3>4. QED
      BY <3>2, <3>3
  <2>2. CASE \A l \in Links : Ends[l] # {n, m}
    <3>1. dv[n].c[m] = INF
      BY <2>2 DEF Exchange
    <3>2. QED
      BY <2>2, <3>1
  <2>3. QED
    BY <2>1, <2>2
<1> HIDE DEF S
<1>3. S \in SUBSET Int /\ \A y \in S : dv[n].c[m] <= y
  BY <1>1, <1>2
<1>4. Min(S) = dv[n].c[m]
  BY <1>2, <1>3, LeastIsMin
<1>5. QED
  BY <1>4 DEF LinkCost, S

(* One neighbour: the distance of r is no longer than the way through x.   *)
LEMMA QuietBound ==
    ASSUME IInv, Exchange, Quiet,
           NEW r \in Routers, NEW x \in Routers, r # x, NEW i \in Routers
    PROVE  dist(r, i) <= dv[r].c[x] + dist(x, i)
<1>1. /\ INF \in Nat /\ dv[r].c[x] \in 0 .. INF /\ dv[r].m_routerID = r
      /\ dist(r, i) \in 0 .. INF /\ dist(x, i) \in 0 .. INF
  BY Ranges
<1>2. CASE dv[r].c[x] = INF
  BY <1>1, <1>2
<1>3. CASE dv[r].c[x] < INF
  <2>1. dv[r].d[x] = dv[x].d[x]
    BY <1>3, QuietNeighbour
  <2>2. dv[r].d[r][i] <= dv[r].c[x] + dv[r].d[x][i]
    BY <1>1 DEF Exchange, Exact, Tight
  <2>3. QED
    BY <2>1, <2>2 DEF dist
<1>4. QED
  BY <1>1, <1>2, <1>3

(* The next hop of r for i lies on a shortest way.                         *)
LEMMA QuietHop ==
    ASSUME IInv, Exchange, Quiet,
           NEW r \in Routers, NEW i \in Routers, r # i, dist(r, i) < INF
    PROVE  LET n == dv[r].nextRouter[i]
           IN  /\ n \in Routers \ {r}
               /\ dv[r].c[n] + dist(n, i) = dist(r, i)
               /\ dv[r].c[n] < INF
<1> DEFINE n == dv[r].nextRouter[i]
<1>1. /\ INF \in Nat /\ dv[r] \in DVState /\ dv[r].m_routerID = r
      /\ Good(dv[r])
      /\ \A x, y \in Routers : dist(x, y) \in 0 .. INF
      /\ \A y \in Routers : dv[r].c[y] \in 0 .. INF
  BY Ranges, GoodFacts
<1>2. Hop(dv[r], i) /\ n \in Routers \cup {0}
  BY <1>1 DEF Good, DVState
<1>3. n # 0 /\ dv[r].c[n] <= dist(r, i)
  BY <1>1 DEF Exchange, Exact, NextKnown, dist
<1>4. n \in Routers \ {r}
  BY <1>1, <1>2, <1>3 DEF Hop
<1>5. dv[r].c[n] < INF
  BY <1>1, <1>3, <1>4
<1>6. dv[r].m_version = dv[n].m_version =>
         dv[r].c[n] + dist(n, i) <= dist(r, i)
  BY <1>1, <1>2, <1>3 DEF Hop, dist
<1> HIDE DEF n
<1>7. dv[r].m_version = dv[n].m_version
  BY <1>4, <1>5, QuietNeighbour
<1>8. dv[r].c[n] + dist(n, i) <= dist(r, i)
  BY <1>3, <1>7, <1>6
<1>9. dist(r, i) <= dv[r].c[n] + dist(n, i)
  BY <1>4, QuietBound
<1>10. dv[r].c[n] + dist(n, i) = dist(r, i)
  BY <1>1, <1>4, <1>8, <1>9
<1>11. QED
  BY <1>4, <1>5, <1>10 DEF n

LEMMA QuietShortest ==
    ASSUME IInv, Exchange, Quiet, SimpleNetwork,
           NEW r \in Routers, NEW i \in Routers, r # i
    PROVE  dist(r, i) =
              Min({INF} \cup {LinkCost(r, x) + dist(x, i) : x \in Routers \ {r}})
<1> DEFINE S == {INF} \cup {LinkCost(r, x) + dist(x, i) : x \in Routers \ {r}}
<1>1. /\ INF \in Nat /\ dist(r, i) \in 0 .. INF
      /\ \A x \in Routers : dist(x, i) \in 0 .. INF /\ dv[r].c[x] \in 0 .. INF
  BY Ranges
<1>2. \A x \in Routers \ {r} :
         /\ LinkCost(r, x) = dv[r].c[x]
         /\ dist(r, i) <= LinkCost(r, x) + dist(x, i)
         /\ LinkCost(r, x) + dist(x, i) \in Int
  BY <1>1, LinkCostIs, QuietBound
<1>3. S \in SUBSET Int /\ \A y \in S : dist(r, i) <= y
  BY <1>1, <1>2
<1>4. dist(r, i) \in S
  <2>1. CASE dist(r, i) = INF
    BY <2>1
  <2>2. CASE dist(r, i) < INF
    <3>1. PICK n \in Routers \ {r} : dv[r].c[n] + dist(n, i) = dist(r, i)
      BY <2>2, QuietHop
    <3>2. QED
      BY <1>2, <3>1
  <2>3. QED
    BY <1>1, <2>1, <2>2
<1> HIDE DEF S
<1>5. QED
  BY <1>3, <1>4, LeastIsMin DEF S

(* In every network with one cable at most between two routers, whatever   *)
(* its cables have done and in whatever order the rows were delivered:     *)
(* when nothing is left to be delivered all distances are the shortest,    *)
(* and packets leave by the port of a cable on a shortest way.             *)
THEOREM ShortestWays ==
    ASSUME SimpleNetwork
    PROVE  Spec => []Converged
<1>1. IInv /\ Exchange => Converged
  <2> SUFFICES ASSUME IInv, Exchange, Quiet,
                      NEW r \in Routers, NEW i \in Routers
               PROVE  LET n == dv[r].nextRouter[i]
                      IN  /\ dist(r, r) = 0
                          /\ r # i => dist(r, i) =
                                Min({INF} \cup {LinkCost(r, x) + dist(x, i) :
                                                x \in Routers \ {r}})
                          /\ r # i /\ dist(r, i) = INF => n = 0
                          /\ r # i /\ dist(r, i) < INF =>
                                \E l \in Links :
                                   /\ Ends[l] = {r, n}
                                   /\ m_routerID2Port[r][n] = l
                                   /\ Cost(len[l]) + dist(n, i) = dist(r, i)
    BY DEF Converged
  <2> DEFINE n == dv[r].nextRouter[i]
  <2>1. dist(r, r) = 0 /\ dv[r].m_routerID = r /\ INF \in Nat
    BY GoodFacts, NetworkAssumption
  <2>2. r # i => dist(r, i) =
           Min({INF} \cup {LinkCost(r, x) + dist(x, i) : x \in Routers \ {r}})
    BY QuietShortest
  <2>3. r # i /\ dist(r, i) = INF => n = 0
    BY <2>1 DEF Exchange, Exact, NextKnown, dist
  <2>4. ASSUME r # i, dist(r, i) < INF
        PROVE  \E l \in Links : /\ Ends[l] = {r, n} /\ m_routerID2Port[r][n] = l
                                /\ Cost(len[l]) + dist(n, i) = dist(r, i)
    <3>1. /\ n \in Routers \ {r} /\ dv[r].c[n] < INF
          /\ dv[r].c[n] + dist(n, i) = dist(r, i)
      BY <2>4, QuietHop
    <3> HIDE DEF n
    <3>2. PICK l \in Links : /\ Ends[l] = {r, n} /\ Cost(len[l]) = dv[r].c[n]
                             /\ m_routerID2Port[r][n] = l
      BY <3>1, QuietNeighbour
    <3>3. QED
      BY <3>1, <3>2
  <2>5. QED
    BY <2>1, <2>2, <2>3, <2>4
<1>2. QED
  BY <1>1, Invariance, RowsReachNeighbours, PTL

-----------------------------------------------------------------------------
(* The distances of a network at rest are the shortest of its ways.        *)

(* A link that can be used has a length above 0.                           *)
LEMMA QuietPositive ==
    ASSUME IInv, Exchange, Quiet,
           NEW n \in Routers, NEW m \in Routers, n # m, dv[n].c[m] < INF
    PROVE  dv[n].c[m] > 0
<1>1. PICK l \in Links : Cost(len[l]) = dv[n].c[m]
  BY QuietNeighbour
<1>2. len[l] \in Lens \cup {Down} /\ INF \in Nat
  BY GoodFacts, NetworkAssumption DEF TypeOK
<1>3. len[l] # Down
  BY <1>1, <1>2 DEF Cost
<1>4. len[l] \in Nat \ {0}
  BY <1>2, <1>3, NetworkAssumption
<1>5. QED
  BY <1>1, <1>3, <1>4 DEF Cost

(* No way is shorter than the distance of its first router.                *)
LEMMA QuietBelowWays ==
    ASSUME IInv, Exchange, Quiet, NEW w \in Ways
    PROVE  dist(w[1], w[Len(w)]) <= WayCost(w)
<1>1. PICK m \in Routers : w \in [1 .. m -> Routers]
  BY DEF Ways
<1>2. m \in Nat /\ 1 <= m
  BY <1>1, NetworkAssumption DEF Routers
<1>3. /\ Len(w) = m /\ DOMAIN w = 1 .. m
      /\ \A k \in 1 .. m : Legs(w)[k] \in Nat
      /\ \E f : SumsUp(f, Legs(w), m) /\ WayCost(w) = f[m]
  BY <1>1, <1>2, GoodFacts, WayCostSums
<1>4. PICK f : SumsUp(f, Legs(w), m) /\ WayCost(w) = f[m]
  BY <1>3
<1>5. \A k \in 1 .. m : w[k] \in Routers
  BY <1>1
<1>6. \A x, y \in Routers : dist(x, y) \in Nat
  <2>1. \A x, y \in Routers : dist(x, y) \in 0 .. INF
    BY Ranges
  <2>2. QED
    BY <2>1, NetworkAssumption
<1>7. PICK D : D = [k \in 1 .. m |-> dist(w[k], w[m])]
  OBVIOUS
<1>8. \A k \in 1 .. m : D[k] \in Nat
  <2>1. w[m] \in Routers
    BY <1>2, <1>5
  <2>2. \A k \in 1 .. m : D[k] = dist(w[k], w[m])
    BY <1>7
  <2>3. QED
    BY <1>5, <1>6, <2>1, <2>2
<1>9. D[m] = 0
  <2>1. w[m] \in Routers
    BY <1>2, <1>5
  <2>2. dist(w[m], w[m]) = 0
    BY <2>1, GoodFacts
  <2>3. QED
    BY <1>2, <1>7, <2>2
<1>10. PICK a : a = Legs(w)
  OBVIOUS
<1>11. ASSUME NEW k \in 1 .. m - 1 PROVE D[k] <= a[k + 1] + D[k + 1]
  <2>1. /\ k \in 1 .. m /\ k + 1 \in 1 .. m /\ k + 1 # 1 /\ (k + 1) - 1 = k
        /\ k # k + 1
    BY <1>2
  <2>2. a[k + 1] = dv[w[k]].c[w[k + 1]]
    BY <1>3, <1>10, <2>1 DEF Legs
  <2>3. w[k] # w[k + 1]
    BY <1>3, <2>1 DEF Ways
  <2>4. dist(w[k], w[m]) <= dv[w[k]].c[w[k + 1]] + dist(w[k + 1], w[m])
    <3>1. w[k] \in Routers /\ w[k + 1] \in Routers /\ w[m] \in Routers
      BY <1>2, <1>5, <2>1
    <3>2. QED
      BY <2>3, <3>1, QuietBound
  <2>5. QED
    BY <1>7, <2>1, <2>2, <2>4
<1>12. SumsUp(f, a, m) /\ \A k \in 1 .. m : a[k] \in Nat
  BY <1>3, <1>4, <1>10
<1>13. D[1] <= f[m]
  BY <1>2, <1>8, <1>9, <1>11, <1>12, SumsAbove
<1>14. D[1] = dist(w[1], w[m])
  BY <1>2, <1>7
<1>15. QED
  BY <1>3, <1>4, <1>13, <1>14

(* What a router believes in is a way.                                     *)
LEMMA QuietSupported ==
    ASSUME IInv, Exchange, Quiet,
           NEW r \in Routers, NEW i \in Routers, dist(r, i) < INF
    PROVE  Supported(Costs, r, i, dist(r, i))
<1> DEFINE Bad(x, n) == n = dist(x, i) /\ n < INF /\ ~Supported(Costs, x, i, n)
           S == {n \in Nat : \E x \in Routers : Bad(x, n)}
<1>1. \A x, y \in Routers : dist(x, y) \in Nat
  <2>1. \A x, y \in Routers : dist(x, y) \in 0 .. INF
    BY Ranges
  <2>2. QED
    BY <2>1, NetworkAssumption
<1>2. CASE S = {}
  <2>1. dist(r, i) \in Nat /\ dist(r, i) \notin S
    BY <1>1, <1>2
  <2>2. ~Bad(r, dist(r, i))
    BY <2>1
  <2>3. QED
    BY <2>2
<1>3. CASE S # {}
  <2>1. PICK n \in S : \A j \in S : n <= j
    <3>1. S \in SUBSET Nat
      OBVIOUS
    <3> HIDE DEF S
    <3>2. QED
      BY <1>3, <3>1, LeastNatural
  <2>2. PICK x \in Routers : Bad(x, n)
    OBVIOUS
  <2>3. n \in Nat /\ n = dist(x, i) /\ n < INF /\ ~Supported(Costs, x, i, n)
    BY <2>2
  <2>4. x # i
    BY <2>3, SupportedHere
  <2>5. PICK y \in Routers \ {x} : /\ dv[x].c[y] + dist(y, i) = n
                                   /\ dv[x].c[y] < INF
    BY <2>3, <2>4, QuietHop
  <2>6. dv[x].c[y] > 0 /\ dv[x].c[y] \in Nat /\ dist(y, i) \in Nat
        /\ INF \in Nat
    <3>1. dv[x].c[y] > 0
      BY <2>5, QuietPositive
    <3>2. dv[x].c[y] \in 0 .. INF /\ INF \in Nat
      BY Ranges
    <3>3. QED
      BY <1>1, <3>1, <3>2
  <2>7. dist(y, i) < n /\ dist(y, i) < INF
    BY <2>3, <2>5, <2>6
  <2>8. dist(y, i) \notin S
    BY <2>1, <2>3, <2>6, <2>7
  <2>9. ~Bad(y, dist(y, i))
    BY <2>6, <2>8
  <2>10. Supported(Costs, y, i, dist(y, i))
    BY <2>7, <2>9
  <2>11. Costs \in [Routers -> [Routers -> Nat]] /\ Costs[x][y] = dv[x].c[y]
    <3>1. \A z \in Routers : dv[z].c \in [Routers -> 0 .. INF]
      BY GoodFacts DEF DVState, Row
    <3>2. \A z \in Routers : dv[z].c \in [Routers -> Nat]
      BY <2>6, <3>1
    <3>3. QED
      BY <3>2 DEF Costs
  <2>12. Costs[x][y] + dist(y, i) <= n
    BY <2>3, <2>5, <2>6, <2>11
  <2>13. Supported(Costs, x, i, n)
    BY <2>3, <2>6, <2>10, <2>11, <2>12, SupportedVia
  <2>14. QED
    BY <2>3, <2>13
<1>4. QED
  BY <1>2, <1>3

(* In a network at rest the links the routers reckon with are the cables,  *)
(* and their distances are the least cost of a way, or INF where there is  *)
(* no way of a cost below INF.                                             *)
LeastOfWays ==
    Quiet =>
      \A r, i \in Routers :
        /\ r # i => dv[r].c[i] = LinkCost(r, i)
        /\ \A w \in Ways :
              w[1] = r /\ w[Len(w)] = i => dist(r, i) <= WayCost(w)
        /\ dist(r, i) < INF =>
              \E w \in Ways : /\ w[1] = r /\ w[Len(w)] = i
                              /\ WayCost(w) = dist(r, i)

(* In every network with one cable at most between two routers the         *)
(* equations of Converged mean what they are meant to: when nothing is     *)
(* left to be delivered, the distance between two routers is the length of *)
(* a way between them, and there is no shorter one.                        *)
THEOREM DistancesAreWays ==
    ASSUME SimpleNetwork
    PROVE  Spec => []LeastOfWays
<1>1. IInv /\ Exchange => LeastOfWays
  <2> SUFFICES ASSUME IInv, Exchange, Quiet,
                      NEW r \in Routers, NEW i \in Routers
               PROVE  /\ r # i => dv[r].c[i] = LinkCost(r, i)
                      /\ \A w \in Ways :
                            w[1] = r /\ w[Len(w)] = i =>
                               dist(r, i) <= WayCost(w)
                      /\ dist(r, i) < INF =>
                            \E w \in Ways : /\ w[1] = r /\ w[Len(w)] = i
                                            /\ WayCost(w) = dist(r, i)
    BY DEF LeastOfWays
  <2>1. r # i => dv[r].c[i] = LinkCost(r, i)
    BY LinkCostIs
  <2>2. ASSUME NEW w \in Ways, w[1] = r, w[Len(w)] = i
        PROVE  dist(r, i) <= WayCost(w)
    BY <2>2, QuietBelowWays
  <2>3. ASSUME dist(r, i) < INF
        PROVE  \E w \in Ways : /\ w[1] = r /\ w[Len(w)] = i
                               /\ WayCost(w) = dist(r, i)
    <3>1. TypeOK /\ dist(r, i) \in Nat
      <4>1. dist(r, i) \in 0 .. INF
        BY Ranges
      <4>2. QED
        BY <4>1, GoodFacts, NetworkAssumption
    <3>2. PICK w \in Ways : /\ w[1] = r /\ w[Len(w)] = i
                            /\ WayCost(w) <= dist(r, i)
      BY <2>3, <3>1, QuietSupported, SupportedWay
    <3>3. dist(r, i) <= WayCost(w)
      BY <2>2, <3>2
    <3>4. WayCost(w) \in Nat
      BY <3>1, WayCostNatural
    <3>5. QED
      BY <3>1, <3>2, <3>3, <3>4
  <2>4. QED
    BY <2>1, <2>2, <2>3
<1>2. QED
  BY <1>1, Invariance, RowsReachNeighbours, PTL
=============================================================================
