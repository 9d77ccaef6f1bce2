# Verification of Networking-labs

TLA+ models, TLC runs and TLAPS proofs of the four programs of this
repository: a file transfer over UDP (lab2, RTP), an IP router with NAT and
distance-vector routing (lab3), a learning Ethernet switch (lab4) and an FTP
client and server (lab1).

## Inventory

| part | state it keeps | operations | talks to | what is hard |
|---|---|---|---|---|
| RTP sender, `lab2/.../sender_def.cpp` | socket, `base`, `nextseqnum`, `totseq`, the packets not yet acknowledged, in the selective variant a ring of flags | `initSender`, `sendMessage`, `sendMessageOpt`, `terminateSender` | the receiver, by UDP | ACKs lost, repeated, reordered, late; timer against ACK; uninitialised flags; nothing bounds the retries |
| RTP receiver, `lab2/.../receiver_def.cpp` | socket, `firstneedrecv`, ring `pack_buf` of `2*window_size` slots, output file | `initReceiver`, `recvMessage`, `recvMessageOpt`, `Download`, `terminateReceiver` | the sender, by UDP | DATA in any order and twice; ring slots shared by several numbers; END against DATA; idle timer |
| RTP packets, `rtp.cpp`, `datatrans.cpp`, `util.c` | none | constructors, `Damaged`, `sendRTP`, `revRTP`, `compute_checksum` | both | damage is noticed after the payload was copied |
| router, `lab3/router.cpp`, `router.h` | per router: NAT maps, pool of addresses, host and port maps, link costs `c`, the vectors `d`, `nextRouter`, `m_version`; shared by all: `host2Router`, `externalIPTable`, `totRouterNum`, `lstChangeVersion` | `router_init`, `router` (DV, DATA, four control messages) | other routers (DV packets), hosts, the outside network, the simulator | vectors of an older topology mix with newer ones; changes at two routers at once; NAT entries released while answers are under way; two descriptions of one network (a range and a mask) that must agree |
| switch, `lab4/switch.cc` | `table`: address to port and lifetime | `InitSwitch`, `ProcessFrame`, `Aging` | the simulator | a host moves while its entry lives; aging off by one |
| FTP server, `lab1/ftp_server.cpp` | two sockets, `auth_pass`, the user name and password last read, a bound on the number of requests | one branch of the loop per request: open, auth, list, get, put, quit | one client, by TCP | requests in an order the client would not choose; a peer that is gone; replies that are told apart by position only |
| FTP client, `lab1/ftp_client.cpp` | the socket, `clnt_conn`, `clnt_auth` | one branch per command | the server | guards that exist on one side only |
| FTP framing and files, `lab1/src/*` | two global buffers, `fileLength` | `readDgram`, `writeDgram`, `upload`, `download`, `getFileList` | both | partial reads and writes, reads of 0 bytes and of -1 into a `size_t`, files as large as the buffer |

Interactions: the two RTP processes share nothing but the datagrams in flight.
The routers exchange DV packets through the simulator and share four static
variables; within a router, forwarding calls the translation and reads the
tables that the vectors fill. The switch is called by its simulator alone. The
FTP client and server exchange typed, length-prefixed messages over TCP.

### Correctness, part by part

* RTP: the output is always a prefix of the input; success is reported only
  for a complete file; END never closes a file that is being sent; the ring
  never mixes chunks; a flag that is set stands for a chunk that arrived; a
  transfer completes if the network lets ACKs through.
* Switch: the table is exactly what was heard less than ten agings ago, and
  frames leave accordingly.
* Router, vectors: next hops never form a loop among routers of one version;
  no router of the newest version believes in a way that is shorter than all
  there are; when nothing is left to be delivered, all distances are shortest;
  the exchange dies down.
* Router, NAT: the two maps are inverse to each other; every address of the
  pool is free once or held by one host; answers reach the host that asked.
* Router, forwarding: a packet goes to the router of its longest matching
  network, whatever the table's sort does with equal masks; what leaves by the
  external port carries the public address of its sender; only what goes to
  the router's own network is translated; a packet is dropped only for want of
  an address; every packet gets a port that exists, and never port 0 for want
  of one.
* FTP: a reply answers the request it was waited for; the two sides agree on
  the login; files are copied whole and only for a client that is logged in;
  neither side waits for ever; framing delivers datagrams whole and in order
  however TCP cuts them up.

The hazards of each part, at their lines, are listed in `PROJECT.json`.

## Modules

| module | models | composed of |
|---|---|---|
| `RtpPacket` | packets, and what the network may do with one that is received | |
| `RtpSession` | handshake, the sender's reading of the file, END, the receiver's ring, the UDP network | `RtpPacket` |
| `RtpGbn` | `sendMessage` with `recvMessage` | `RtpSession` |
| `RtpOpt` | `sendMessageOpt` with `recvMessageOpt` | `RtpSession` |
| `FileTransfer` | abstract: what a session promises | refined by `RtpGbn`, `RtpOpt` |
| `EthernetSwitch` | the switch | |
| `LearningSwitch` | abstract: forwarding by what was heard | refined by `EthernetSwitch` |
| `RouterDV` | `struct DV`, DV packets, TRIGGER DV SEND, PORT VALUE CHANGE, the cables | |
| `RouterNat` | `availAddrAllocator`, the NAT maps, RELEASE NAT ITEM | |
| `AddressLeases` | abstract: a host keeps one address of its own | refined by `RouterNat` |
| `RouterForward` | the whole branch for data packets, ADD HOST, `externalIPTable` | `RouterNat` |
| `FtpSession` | clients, server, their datagrams and the ends of their processes | |
| `FileService` | abstract: files are copied whole for whoever is logged in | refined by `FtpSession` |
| `FtpFraming` | `readBuf`, `writeBuf`, the header and its conversions, over a byte stream | |
| `DgramChannel` | abstract: datagrams arrive whole and in order | refined by `FtpFraming` |
| `MC*` | messages and networks for TLC | |
| `*Proofs` | theorems | the module they are named after |

Operators whose name begins with `Fault` are plausible slips in the definition
that follows them. No specification uses them: each is there to be put in its
place, and some property must then fail.

### RTP

One action is one call of `revRTP` and all that its caller does until the next
call, or one pass through the sending half of the loop of `sendMessage`. A
packet is a record of type, number and payload; lengths and checksums are left
out, a damaged packet being one that `revRTP` drops and so one that is lost.
The network is a set: a packet that is received may stay in it (a duplicate) or
leave, and packets are received in any order; `LosePacket` takes one away.
`sPhase` is the place in `initSender`/`sendMessage`, `rPhase` in
`initReceiver`/`recvMessage`; `base`, `nextseqnum`, `totseq`, `firstneedrecv`
and `pack_buf` are the locals of those names, `file` the chunks that `Download`
wrote. The vector of packets of the sender is determined by the counters,
except where an ACK above the vector's end makes `sendMessage` delete beyond it
(`AckBeyondVector`: undefined behaviour, so it may also go on). In `RtpOpt` the
ring of flags starts with arbitrary contents, as `new bool[]` does. The 31-bit
number of START is one of `StartSeqs`.

Four constants describe the network. `LoseData` and `LoseAck` let it lose
packets to the receiver, and ACKs in mid-transfer; the ACK of START may be lost
in any case. `DupStartAck` lets it deliver that ACK again. `Patient` keeps the
receiver's 10 s from passing while the sender is alive.

### Switch

An address is a model value, the table a function from the addresses heard.
`heard` is a history variable: the port and the age of the last frame of each
source. One action is one call of `ProcessFrame` or `Aging`.

### Router, vectors

`dv[r]` is `m_dv` of router `r` with the fields of the struct; `c`, `d` and
`nextRouter` have the indices `1..totRouterNum` that the loops use. Ports are
named by their cable. The state starts after `router_init` and the first round
of PORT VALUE CHANGE. `Relaxed` is `updateDV(tgtRID)`: its two loops write each
entry from values that no other iteration writes (`tgtRID` is not the router
itself), so they are one function. `ReceiveDV` is the whole branch of `router`
for a DV packet: `updateC` by the length noted for the port, the two port maps,
`updateDV`, and the broadcast that the return value 0 asks for. `PortChange` is
the branch for PORT VALUE CHANGE; the code relies on the simulator to trigger a
send after it (the comment at `router.cpp:217`), which `untriggered` records.
It reads the length that the cable has now, so that two changes of one cable
that have not been told yet become one for the router. `LinkChange` is the
environment: a cable changes its length or is cut or plugged in; both ends will
be told, separately; what is on a cut cable may be lost or still arrive. Each
cable keeps the order of its packets.

### Router, translation and forwarding

In `RouterNat` addresses are the numbers `1..PoolSize`; the stack starts with
as many zeros below them, as `resize` leaves them. `SendKnown` and `SendNew`
are the translation of a packet to the outside, `Inbound` that of one that
comes from there, which changes nothing. `flows` is a history variable: the
pairs of host and address the outside saw since the host was last released.

`RouterForward` adds the rest of the branch for data packets. An address is a
number of `Width` bits, a network an address and a mask, as `CIDR2IP` computes
them. One router of several is looked at; what the vectors would tell it comes
with each packet as `hop`, the port towards the router that is looked for, or 0
for none. `externalIPTable` is what all calls of `Register` leave behind, in
any order that `std::sort` may give equal masks. `FromOutside`, `ToOutside`,
`Untranslated` and `ToDefault` are the ways through the branch, each to its
return; `out` is a history variable, the last packet as it came and as it left,
and whether it came from the outside, until a release changes what there was to
decide about it. A router without an external network has
the range of addresses that its memory happened to hold (`Garbage`), and no
external port. `host2Router` is shared by all routers and `m_host2Port` is not,
hence `AddHost` and `AddHostElsewhere`. An address in nobody's network is
looked up with router -1: `nextRouter[-1]` is the infinite distance before it
in memory, the port map is indexed with that, and the model goes to `Crash`,
after which nothing happens.

### FTP, session

One action is what a process does from one `readDgram` to the next, or, where
another process could see the difference, to the next `writeDgram` (`sendFile`)
or to the point where the memory of a datagram is freed. `at[c]` is the
`readDgram` that a client is in, `"idle"` at the prompt, `"upload"` in the loop
of `upload`, `"gone"` when its process ended; `served` is the place of the
server. A datagram is its type, its status and its payload; a payload is a
credential, the name of a file, or its contents. A file that fills the buffer
(`Large`) keeps `upload` reading 0 bytes for ever, on whichever side. Commands
are well formed, and the reply to list is the set of the names.

`link[c]` is the socket of a client: `none`, `queued` in the server's backlog
(the kernel connects it, `accept` has not returned it), `accepted`, `fin` when
the server has closed it, `reset` when it ended with something unread or not
accepted, `closed` by the client. A process that reads from a peer that has
closed spins in `readBuf`, which the model shows as nothing happening; one that
reads from a connection that was reset goes on with the bytes that `bbuff`
still holds, which are those of its own request (`ReadError`); one that writes
to it dies (`BrokenPipe`). With `WildFree` the delete of a payload that
`bytes2dgram` never set may kill the process, after any datagram without one.
`waitTimes` counts the requests down from `WaitTimesLim` (1e5 in the code), and
the server leaves when it is 0.

### FTP, framing

One direction of a connection, cell by cell. A cell is a number below `Base`; a
header is one cell for magic number, type and status, which travel together,
and two for `m_length`, in network order. `Write(b)` and `Read(b)` move any
part of what is asked for. `bbuff` is the global buffer of the reader: at each
`readDgram` it holds what was read before, or a header of its own that was sent
since. `ret` is a `size_t`, so the -1 of a connection that was reset takes it
back by one or to `SizeMax`, which ends the loop. A new payload holds arbitrary
cells.

## Runs

| run | bounds | shows |
|---|---|---|
| `gbn` | 5 chunks, windows 3 and 2, DATA lost, repeated, reordered, late | type, safety, refinement of `FileTransfer`, and completion while ACKs arrive |
| `opt` | 5 chunks, windows 2 and 2, any initial flags, DATA lost, ACK of START repeated | the same of the selective variant, and what a set flag means |
| `gbn_lost_ack`, `gbn_dup_start_ack` | 3 chunks, windows 2 | the first two findings below |
| `switch` | 3 hosts, 3 ports, lifetime 3 | table and forwarding |
| `router` | 4 routers, 3 hosts, 2 public addresses, addresses of 4 bits, 4 destinations, 1 host added | types and ports, maps, pool, answers, longest match, what leaves is translated, what is translated or refused goes to the router's own network, refinement of `AddressLeases` |
| `router_unknown` | the same | the third finding below |
| `dv_boot` | line of 3 routers, lengths 1 and 3, 1 change at any time | start in every order; types; convergence |
| `dv_triangle` | triangle, cables cut and plugged in, 2 changes that may overlap, settled before | no loop, no underestimate and convergence where the old distance survives at a third router |
| `dv_pair` | 2 routers, lengths 1 and 3, 2 changes at any time | the exchange of rows dies down |
| `ftp` | 2 clients, 1 name, 3 contents (one oversized), right and wrong credentials, a server that reads 5 requests, deletes that may crash | replies, waiting, login, refinement of `FileService`, every command ends but for three reasons, every announced file stored |
| `framing` | 2 datagrams, payload up to 2 cells of 3 values, socket buffer of 4 cells, closed or reset at any point | refinement of `DgramChannel`, delivery |

Why the bounds are enough to mean something.

* RTP: five chunks are more than the receiver's ring of four slots, and in
  `opt` more than the sender's ring of four flags, so slots and flags are used
  again while packets and ACKs of the round before are still under way. In
  `gbn` the sender's window is larger than the receiver's, so DATA above the
  window occurs; in `opt` the flags start with arbitrary contents, and the
  number of START is outside the file.
* Switch: with three ports a host can move while another one still hears of
  the old port, and with lifetime 3 an entry is refreshed before, at and after
  its last aging.
* Router: one host more than addresses makes the pool run empty. The networks
  8/3, 9/2 and 10/3 of 4-bit addresses are two of equal size inside a third,
  which is given by an address that is not its first; the fourth router has
  none, with a range of garbage that is empty, everything or one address. The
  destinations are a host that is added, here and elsewhere, an address in each
  of the small networks, and a public address, which is in nobody's network
  and so also the unknown one of `router_unknown`.
* Vectors: the line is the smallest network with a router that is not told of a
  change by a port, the triangle the smallest one in which a lost neighbour is
  believed to be reachable through a third router.
* FTP: the second client is the one that is connected and never accepted. With
  `WaitTimesLim` 6 the server reads five requests, as it counts before it
  compares: an open, a login and any three of a client that is logged in, among
  them another open, or an open and a login that fails, after which the client
  is gone and the server spins. The next one crosses the end of the server,
  which may come before a request of any kind. Two
  ordinary contents tell the old file from the new one.
* Framing: the socket buffer is longer than a header and shorter than a
  datagram, so headers and payloads are cut up in every way, and the second
  header may lie in the socket behind the end of the first datagram.

`MaxChanges` bounds how often cables change; everything else, including the
versions and the packets in flight, is bounded by it only. `StartSettled` makes
`dv_triangle` explore one order of triggers and deliveries until the network is
quiet for the first time; `dv_boot` and `dv_pair` have no such order. At most
one cable joins two routers in the runs. The theorems have none of these
bounds, but for the last one, which the theorems behind `Converged` need.

The properties of `RouterDV` say that nothing goes wrong whatever the order.
`Converged` is a statement about states in which nothing is under way; that
those states are reached is `Settles`, checked with two routers: a network that
does not settle has ever longer queues, so that a run of it can only be bounded
where the queues are fed by one cable.

Deadlock is not checked where the program really stops: in the `dv_*` runs when
the network has settled and no cable changes any more, in the `router` runs
after the crash of the third finding, in `ftp` when processes have ended, spin
in `readBuf` or hang in `upload`, in `framing` when everything is sent or the
connection is closed.

### Fairness

* RTP: both processes keep running (weak fairness of the sending half of the
  loop and of the idle timer). `Timeout` is strongly fair: the timer is read
  after every `revRTP`, which returns within its own receive timeout, so it
  runs out again and again unless ACKs arrive without end, and the model's
  network does not repeat one ACK without end. What is sent again and again
  is received again and again (strong fairness), and even that is asked only of
  the one chunk that the receiver needs next and of an ACK that tells the
  sender something new, which is less than fairness for each packet;
  `LoseAck = FALSE` where completion is checked, because of the first finding.
* Vectors: the simulator keeps delivering what it holds, in whatever order
  (weak fairness of `Deliver` as a whole).
* FTP session: the operating system runs the server, and each client that has
  a reply to read (weak fairness of `Server` and of `Reply(c)` for each
  client). Nobody has to type a command, or to stay.
* Framing: both processes run and TCP delivers (weak fairness of the reader and
  of `Write` as a whole). The connection need not stay open: `Delivered` is
  about one that does.

## Findings

* `gbn_lost_ack`: `recvMessage` ignores DATA below its window without an ACK.
  If the ACK of the last chunks is lost, the sender repeats them for ever, and
  the repeats keep the receiver from giving up; `sendMessage` returns neither 0
  nor -1. `recvMessageOpt` does the same (`receiver_def.cpp:227`), and the loop
  of `sendMessage` has no exit for a receiver that is gone either.
* `gbn_dup_start_ack`: a second copy of the ACK of START is taken for the ACK
  of a chunk: its random number becomes `base`.
* `router_unknown`: for an address outside every network `exIPMatchRouter`
  returns -1, and `findNextRouter(-1)` reads `nextRouter[-1]`
  (`router.cpp:161`), where `router_prototype.h:6` lists the values that
  `router` may return and the comment at `router.cpp:164` means to hand such a
  packet to the controller.

Not a matter of a run: `recvMessage` returns `total_recv_bytes`, which is never
added to, where `receiver_def.h:23` promises the number of bytes received.

What the FTP runs show of the program as it is: only one client is ever served,
and another one that connects waits until the server ends (`LoggedInIsServed`
says that it is never mistaken for one that is logged in); a client that leaves
after a wrong password leaves the server spinning. `Answered`
lists the cases in which a command never ends, and says that there is no other:
a client in the backlog waits only while the server waits for the one it
accepted or hangs in `upload`; the accepted one waits only for a file that
`upload` never gets to the end of; and a client whose request crosses the end
of the server is told by a reset, which some commands take for the first part
of a reply.

In a router without an external network `isExternalIP` compares with memory
that was never written, and line 136 drops what happens to lie in between, also
packets on their way to another router's network. `OwnNetworkOnly` excepts
these drops; it says that such a router translates nothing, and that no other
router drops a packet that it could have sent.

## Proofs

| module | theorems | argument |
|---|---|---|
| `RtpSessionProofs` | `StoreStep`; lemmas on the ring, and that every step of the session keeps `SessionInv` and refines `FileTransfer` | a slot of the ring belongs to one number of the window, since the window is half of the ring; draining it extends the file by the next chunks |
| `RtpGbnProofs` | `Invariance`, `TypeCorrect`, `PrefixTheorem`, `DeliveryTheorem`, `EndTheorem`, `AckTheorem`, `RingTheorem`, `Implementation` | `SessionInv`, and every ACK is at most `firstneedrecv` |
| `RtpOptProofs` | `Invariance`, `TypeCorrect`, `FlagTheorem`, `RingTheorem`, `Implementation` | `SessionInv`, and every ACK and every set flag of the window stands for a chunk the receiver has |
| `EthernetSwitchProofs` | `Invariance`, `TypeCorrect`, `TableTheorem`, `SwitchRefinement` | the table is a function of the history `heard` |
| `RouterForwardProofs`, first part | of `RouterNat`: `Invariance`, `MapsTheorem`, `ConservationTheorem`, `AnswerTheorem`, `LeaseRefinement` | `IInv` of `RouterNat` |
| `RouterForwardProofs` | `ForwardTypeCorrect`, `LongestMatchTheorem`, `TranslationTheorem`, `OwnNetworkTheorem`, and from the first part, as the actions are made of those of `RouterNat`, `ForwardMaps`, `ForwardConservation`, `ForwardAnswers`, `ForwardLeases` | a mask match is the same as lying in the range; the range of a router decides like its entry in the table |
| `RouterDVProofs` | `Invariance`, `TypeCorrect`, `LoopFree` | `IInv` of `RouterDV` |
| `RouterDVProofs` | `NewestSupported`, `NothingUnderestimated` | every distance of the newest version is supported by a way (`Newest`) |
| `RouterDVProofs` | `RowsReachNeighbours`, `ShortestWays`, `DistancesAreWays` | a neighbour has the row of a router or is about to get it (`Exchange`) |
| `FtpSessionProofs` | `Invariance`, `TypeCorrect`, `MatchTheorem`, `WaitTheorem`, `LoginTheorem`, `AgreeTheorem`, `ServedTheorem`, `ServiceRefinement` | the modes of the dialogue |
| `FtpFramingProofs` | `TypeCorrect`, `ChannelRefinement` | the whole stream and the place in it that the reader has come to (`Framed`) |

Assumptions. `RtpGbnProofs` is for a network that does not repeat the ACK of
START (with it the properties fail, as `gbn_dup_start_ack` shows) and a
sender's window above 0. `RtpOptProofs` allows the repetition as long as the
number of START is not that of a chunk (`NoStaleAck`), because `sendMessageOpt`
ignores numbers outside its window. Message, windows, losses and reordering are
arbitrary in both. The other modules assume only what the modules they are
about state of the constants: `SwitchAssumption`, `PoolAssumption`,
`NetworkAssumption` (a cable joins two different routers, lengths are positive
and below `INF`), `ForwardAssumption` (addresses are of `Width` bits, ports are
positive and not 1, and `external` is none of the others), `PowerAssumption`
(three facts on powers of 2, which the provers do not know and which are true
for every `Width`; TLC evaluates them for the one of the run) and
`SessionAssumption` of `FtpSession` (the good credential is one, `None` is not
a client or a content), and `FramingAssumption` (a length fits in two cells and
in a `size_t`). Three theorems have a hypothesis of their own:
`RowsReachNeighbours`, `ShortestWays` and `DistancesAreWays` are for a network
with one cable at most between two routers (`SimpleNetwork`), because
`m_routerID2Port` and `c` have room for one; with two, the row that arrives
last decides which of them counts, and `Converged` need not hold. Every
invariant that is proved was first an invariant of a run.

Why the invariants are stronger than the properties.

* RTP: that the file is a prefix needs that every DATA in flight carries its
  chunk, that the ring holds chunks of the window only, and that every ACK in
  flight while the sender runs is at most `firstneedrecv`, hence the handshake
  conjuncts that keep the ACKs of START and END away from that loop. In the
  selective variant an ACK stands for one chunk, so the invariant speaks of
  `Have`: written to the file or in the ring. A flag that the slots of an
  earlier round left set, or that `new bool[]` found set, is harmless because
  `SendFirst` clears the slot of each number as the number enters the window.
* NAT: the inverse maps and the conservation of addresses hold each other up:
  an address that `alloc` returns is mapped nowhere only because nothing is
  both free and mapped; and the refinement needs `ZerosBelow`, for otherwise
  `alloc` could return 0 while an address is free.
* Forwarding: whether a source is translated is decided by a range
  (`isExternalIP`), and whether the packet leaves by the external port by the
  table of masks. `LeavesTranslated` needs that both describe one network, and
  that the longest match of an address outside the range is another router;
  this is arithmetic on multiples of powers of 2. For a router without a
  network, with garbage for its range, it needs that such a router is never
  the one that matches. `OwnNetworkOnly` uses the same agreement the other way:
  an address in the range has an entry of this router in the table. That a
  refused host meets an exhausted pool is `NothingLost` and `ZerosBelow`, and
  that it stays so while nothing is released is what makes it an invariant.
* Vectors: a router's next hop is compared with what that neighbour believes
  now, and the router only knows what it has last heard. `Heard` bridges the
  two: in one version a neighbour's row only gets shorter (`Advances`), so a
  row that was heard, or is under way (`GoodRow`), is never below the present
  one. A neighbour of an older version has not been heard at all, and such a
  neighbour is a next hop only to itself (`Hop`), which is what makes the
  moment of its adoption harmless: its row then has its own distance 0, and
  `Reset` of the adopting router may forget everything but that. This is the
  reason for the comparison at `router.h:203` and the `Reset` at `router.h:207`
  and `:234`.
* Vectors, no underestimate: that a distance is no shorter than some way is not
  kept by a step of its own accord, because a way is made of the links of many
  routers and the links of one may get longer. `Newest` therefore speaks of the
  newest version only, but of everything in it: each distance a router holds,
  for itself and for its neighbours, and each row under way is supported by a
  way that visits no router twice in the links of all routers as they are. When
  a link gets longer the router that notices starts a version of which it is
  the only member and of which nothing is under way (`router.h:233`), and
  `Reset` leaves it with its own links, so there is nothing left to refute; that
  is what `Reset` is for. When a row is added to a link, the way of the row
  may come back through the router itself; then the shorter rest of that way
  supports the sum. In `Supported` a way carries what is left of its cost at
  each of its routers, so that the argument needs no sum over a sequence; sums
  are compared with it once, in `NothingUnderestimated`.
* Vectors, convergence: `Exchange` says of every cable that is plugged in that,
  unless its other end has still to be told of a change or to be triggered, the
  last row on it is the present one of that router, or none is on it and the
  router at this end has that row already, or is of a newer version. The rest
  is about one router: its row cannot be improved by the links and rows it
  holds (`Tight`), although `updateDV(tgtRID)` only looks at the ways through
  one neighbour, and its next hop is on a way of that length. When nothing is
  left to be delivered, the versions at the two ends of a cable are equal, the
  rows at both ends are the real ones, and `Tight` with `IInv` makes the
  equations of `Converged` hold. `DistancesAreWays` says what these mean:
  lengths are positive, so a next hop is nearer to the destination, and going
  from next hop to next hop makes a way that is as long as the distance, while
  the equations, added up along any other way, make that one no shorter.
* Framing: that a datagram arrives whole needs to know where in the stream the
  reader is. `Framed` says that there is one sequence of cells, the bytes of all
  that was ever given to `writeDgram`, with a place where each datagram starts
  (`Laid`), of which the socket and what is left of `out` are the next part
  (`Carried`) and what the reader has of a header and of a payload is the part
  before (`Taken`). The header is then the one that was sent, and
  `payload_length` gives back what `Header` was told, since two reversals of the
  bytes cancel out (`endianRevTwice`). After an error of `read` the stream is of
  no use any more, and `Whole` is what remains: a `size_t` that goes below 0
  ends the loop only before the first byte, when `bbuff` still holds a whole
  header, and this can happen once.
* FTP: neither side looks at the type of a datagram that it takes for a reply
  or a file, so everything rests on the two streams and the two places in the
  code fitting together. `Dialogue` lists the eight ways in which they do: at
  rest, request under way, reply under way, reply and file under way, file
  still to be sent, file to be stored (perhaps with the next request behind
  it), lost in `upload`, and over. Each says what the two login flags have to
  do with each other in it; the awkward moment is between the reply to open and
  `initConn`, when the server still believes in a login that it is about to
  forget (`ftp_server.cpp:93`), and the client cannot profit because its own
  flag is what lets it ask. `NotServed` says of every other client that it has
  asked for nothing but to be opened.

Model-checked only: liveness under fairness (`TransferCompletes`, `Settles`,
`Answered`, `Stored`, `Delivered`), which is out of reach of the prover. Every
other property of a run that passes is the property of a theorem.

## Not modelled

* RTP: failures of `sendto` and `socket`; the CRC (damage is loss), and with it
  a damaged length in `revRTP`, which is used before the checksum is looked at;
  sequence numbers near 2^32; `terminateReceiver` (closing of files); the test
  harness, which calls `terminateSender` a second time after `sendMessage` has.
* Router: byte orders and text forms of addresses and messages (`dotDec2IP`,
  `IPRev`, parsing of the control messages): an address is a number, a message
  its fields. More than 99 routers. The entries of `temdv` beyond
  `totRouterNum`, which are copied uninitialised and never read. Networks of
  two routers that contain each other are in the table of `RouterForward`, but
  only one router forwards: what becomes of a packet that two of them
  translate is not followed.
* Switch: packing of addresses into 48 bits.
* FTP: parsing of commands, the text of the listing, error messages; local
  `ls`; failures of `socket`, `bind` and `fopen` for writing.
* The simulators and the network of lab3 and lab4 are libraries that are not in
  the repository: the models enumerate what they may do.
* googletest under `lab2/.../third_party` is third-party code.

## Plan

Done: RTP in both variants, switch, router (vectors, translation, forwarding),
FTP (session and framing), each with its abstract specification where there is
one, its run, its inductive invariant and its theorems.

Left, in this order:

1. Two routers of `RouterForward` side by side, with a packet that passes both:
   networks that contain one another, and a packet that is translated twice.
2. `SwitchNetwork`: several switches, hosts that move, no frame back to where
   it came from.
